---------------------------- MODULE EventChannel ----------------------------
(***************************************************************************)
(* What a streaming call of the transport promises its consumer, whatever  *)
(* happens in between: it sees the events of the service in order and      *)
(* without gaps, the stream ends normally only after the last of them, and *)
(* a failure of the transport is never mistaken for a normal end.          *)
(***************************************************************************)
EXTENDS Naturals, Sequences

CONSTANTS
    Channels,
    MaxEvents     \* bound on the events a service yields

VARIABLES
    sent,         \* the events the service has yielded on a channel
    complete,     \* whether it will yield no more
    received,     \* what the consumer has seen of them
    outcome       \* how the stream ended for the consumer, if it did

Init ==
    /\ sent = [c \in Channels |-> <<>>]
    /\ complete = [c \in Channels |-> FALSE]
    /\ received = [c \in Channels |-> <<>>]
    /\ outcome = [c \in Channels |-> "open"]

Yield(c) ==
    /\ ~complete[c] /\ Len(sent[c]) < MaxEvents
    /\ sent' = [sent EXCEPT ![c] = Append(@, Len(@) + 1)]
    /\ UNCHANGED <<complete, received, outcome>>

Complete(c) ==
    /\ ~complete[c]
    /\ complete' = [complete EXCEPT ![c] = TRUE]
    /\ UNCHANGED <<sent, received, outcome>>

Receive(c) ==
    /\ outcome[c] = "open" /\ Len(received[c]) < Len(sent[c])
    /\ received' = [received EXCEPT ![c] = Append(@, sent[c][Len(@) + 1])]
    /\ UNCHANGED <<sent, complete, outcome>>

End(c) ==
    /\ outcome[c] = "open" /\ complete[c] /\ received[c] = sent[c]
    /\ outcome' = [outcome EXCEPT ![c] = "ended"]
    /\ UNCHANGED <<sent, complete, received>>

(* The consumer is told of a failure, or walks away. *)
Break(c) ==
    /\ outcome[c] = "open"
    /\ outcome' = [outcome EXCEPT ![c] = "broken"]
    /\ UNCHANGED <<sent, complete, received>>

Next == \E c \in Channels :
    Yield(c) \/ Complete(c) \/ Receive(c) \/ End(c) \/ Break(c)

Spec == Init /\ [][Next]_<<sent, complete, received, outcome>>
=============================================================================
