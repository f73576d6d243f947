------------------------------- MODULE MCGrpc -------------------------------
(***************************************************************************)
(* GrpcTransport for TLC: the server's completion queue has one thread or  *)
(* all of Threads, as the endpoint's options say.                          *)
(***************************************************************************)
EXTENDS GrpcTransport

VARIABLE single      \* one of the threads does all the work of the queue

mcVars == <<vars, single>>

Worker == CHOOSE t \in Threads : TRUE
OneWorks == \A c \in Calls, t \in Threads \ {Worker} : turn[c][t] = "idle"

MCInit == Init /\ single \in BOOLEAN
MCNext == Next /\ (single => OneWorks') /\ UNCHANGED single
MCSpec == MCInit /\ [][MCNext]_mcVars /\ Fairness

-----------------------------------------------------------------------------
(***************************************************************************)
(* ImplementsChannel for a queue with one thread.  With more, a thread may *)
(* finish the call ahead of an event that another has yet to write, and    *)
(* nothing is said of the channel.                                         *)
(***************************************************************************)
Watched == IF single THEN Streams ELSE {}

OneThreadChannel == INSTANCE EventChannel WITH
    Channels <- Calls,
    sent <- [c \in Calls |-> IF c \in Watched THEN [i \in 1..yielded[c] |-> i] ELSE <<>>],
    complete <- [c \in Calls |-> c \in Watched /\ call[c].complete],
    received <- [c \in Calls |-> IF c \in Watched THEN Delivered(client[c]) ELSE <<>>],
    outcome <- [c \in Calls |-> IF c \in Watched THEN Outcome(client[c]) ELSE "open"]

OneThreadImplementsChannel == OneThreadChannel!Spec

(* One thread leaves no call behind: while the server has not crashed, a   *)
(* call that is not freed has a tag, a turn or a job to come.  With more,  *)
(* two may take an alarm and a write's completion for one another's, and   *)
(* the call stays with notification_pending_ set and no alarm.             *)
OneThreadStrandsNone == single => \A c \in Calls : ~Stranded(c)
=============================================================================
