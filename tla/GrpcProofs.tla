----------------------------- MODULE GrpcProofs -----------------------------
(***************************************************************************)
(* Theorems about GrpcTransport, for any number of calls and events and    *)
(* any combination of faults.  With any number of threads on the queue, a  *)
(* unary call object outlives everything that may come back to it, and a   *)
(* consumer sees events in order.  With one thread, a stream implements    *)
(* EventChannel.                                                           *)
(***************************************************************************)
EXTENDS GrpcTransport, TLAPS, SequenceTheorems

-----------------------------------------------------------------------------
(***************************************************************************)
(* The state of one call.                                                  *)
(***************************************************************************)
CallStates == {"Requesting", "Waiting", "Writing", "Finishing", "Completed"}

CallObjects ==
    [state : CallStates, refs : Int, pending : Seq(Nat), current : Nat,
     complete : BOOLEAN, clientClosed : BOOLEAN, notified : BOOLEAN,
     finished : BOOLEAN]

ClientObjects ==
    [state : {"idle", "Starting", "Reading", "Finishing", "Completed"},
     inbox : Seq(Nat), closed : BOOLEAN, cancelled : BOOLEAN,
     got : Seq(Nat), over : {"no", "ended", "abandoned"}]

(* Where a thread may be in a call. *)
Points == {"idle", "accept", "release", "complete", "response", "notification",
           "written", "refused", "mark", "write", "finish"}

Typed ==
    /\ kind \in [Calls -> {"unary", "stream"}]
    /\ server \in {"up", "stopping", "stopped"}
    /\ crashed \in BOOLEAN
    /\ call \in [Calls -> CallObjects]
    /\ tags \in [Calls -> [Kinds -> Int]]
    /\ turn \in [Calls -> [Threads -> Points]]
    /\ job \in [Calls -> {"none", "queued", "running", "yielded", "ending", "done"}]
    /\ yielded \in [Calls -> 0..MaxEvents]
    /\ conn \in [Calls -> {"none", "open", "ok", "broken"}]
    /\ wire \in [Calls -> Seq(Nat)]
    /\ client \in [Calls -> ClientObjects]

(***************************************************************************)
(* References.  The life of a unary call, state by state: which tag is     *)
(* outstanding or which thread has it, how far its job is, and that refs   *)
(* counts exactly these.                                                   *)
(***************************************************************************)
JobHolds(c) == IF job[c] = "done" THEN 0 ELSE 1

One(c, tag) == tags[c] = [NoTags EXCEPT ![tag] = 1]

(* One thread is in the call, at one of the points. *)
Attended(c, points) ==
    \E t \in Threads : /\ turn[c][t] \in points
                       /\ \A u \in Threads \ {t} : turn[c][u] = "idle"

Queued(c, tag) == One(c, tag) /\ Unattended(c)
Taken(c, points) == tags[c] = NoTags /\ Attended(c, points)
Quiet(c) == tags[c] = NoTags /\ Unattended(c)

UnaryLife(c) ==
    \/ /\ call[c].state = "Requesting" /\ job[c] = "none" /\ ~call[c].notified
       /\ \/ (Queued(c, "request") \/ Taken(c, {"accept", "release"})) /\ call[c].refs = 1
          \/ Quiet(c) /\ call[c].refs = 0
    \/ /\ call[c].state = "Waiting" /\ job[c] \in {"queued", "running"}
       /\ Quiet(c) /\ ~call[c].notified /\ call[c].refs = 2
    \/ /\ call[c].state = "Waiting" /\ job[c] \in {"ending", "done"}
       /\ Queued(c, "alarm") \/ Taken(c, {"response"})
       /\ call[c].refs = 1 + JobHolds(c)
    \/ /\ call[c].state = "Finishing" /\ job[c] \in {"ending", "done"}
       /\ Queued(c, "finish") \/ Taken(c, {"finish", "complete"})
       /\ call[c].refs = 1 + JobHolds(c)
    \/ /\ call[c].state = "Completed" /\ job[c] \in {"ending", "done"}
       /\ Quiet(c) /\ call[c].refs = JobHolds(c)

UnaryLives == \A c \in Unary : UnaryLife(c)

-----------------------------------------------------------------------------
(***************************************************************************)
(* What the operations on call and client objects do, field by field.      *)
(***************************************************************************)
(* k has these fields. *)
Call(k, state, refs, pending, current, complete, clientClosed, notified) ==
    /\ k \in CallObjects
    /\ k.state = state /\ k.refs = refs /\ k.pending = pending /\ k.current = current
    /\ k.complete = complete /\ k.clientClosed = clientClosed /\ k.notified = notified

LEMMA CallTypes ==
    ASSUME NEW k \in CallObjects
    PROVE  k.refs \in Int /\ k.refs - 1 \in Int /\ k.refs + 1 \in Int
BY DEF CallObjects

LEMMA StateWrites ==
    ASSUME NEW k \in CallObjects
    PROVE  /\ Call(Accept(k), "Waiting", k.refs + 1, k.pending, k.current, k.complete,
                   k.clientClosed, k.notified)
           /\ Call(Release(k), k.state, k.refs - 1, k.pending, k.current, k.complete,
                   k.clientClosed, k.notified)
           /\ \A s \in CallStates :
                 Call([k EXCEPT !.state = s], s, k.refs, k.pending, k.current, k.complete,
                      k.clientClosed, k.notified)
           /\ Call([k EXCEPT !.notified = FALSE, !.state = "Finishing"], "Finishing", k.refs,
                   k.pending, k.current, k.complete, k.clientClosed, FALSE)
           /\ Call([k EXCEPT !.notified = FALSE], k.state, k.refs,
                   k.pending, k.current, k.complete, k.clientClosed, FALSE)
           /\ Call([k EXCEPT !.finished = TRUE], k.state, k.refs,
                   k.pending, k.current, k.complete, k.clientClosed, k.notified)
<1>1. k.refs \in Int /\ k.refs - 1 \in Int /\ k.refs + 1 \in Int
  BY CallTypes
<1>2. "Waiting" \in CallStates /\ "Finishing" \in CallStates
  BY DEF CallStates
<1> QED
  BY <1>1, <1>2, Zenon DEF Accept, Release, CallObjects, Call

LEMMA CompleteForm ==
    ASSUME NEW k \in CallObjects
    PROVE  Call(Release([k EXCEPT !.state = "Completed"]), "Completed", k.refs - 1, k.pending,
                k.current, k.complete, k.clientClosed, k.notified)
<1> DEFINE j == [k EXCEPT !.state = "Completed"]
<1>1. Call(j, "Completed", k.refs, k.pending, k.current, k.complete, k.clientClosed, k.notified)
  BY StateWrites DEF CallStates
<1> HIDE DEF j
<1>2. Call(Release(j), j.state, j.refs - 1, j.pending, j.current, j.complete, j.clientClosed,
           j.notified)
  BY <1>1, StateWrites DEF Call
<1>3. Call(Release(j), "Completed", k.refs - 1, k.pending, k.current, k.complete,
           k.clientClosed, k.notified)
  BY <1>1, <1>2, Zenon DEF Call
<1> QED
  BY <1>3 DEF j

(* The other writes to a call object: an alarm is set, an event is queued  *)
(* or taken, the client is gone, the producer is done.                     *)
LEMMA CallWrites ==
    ASSUME NEW k \in CallObjects
    PROVE  /\ Call(Alarmed(k), k.state, k.refs, k.pending, k.current, k.complete,
                   k.clientClosed, TRUE)
           /\ Call([k EXCEPT !.complete = TRUE], k.state, k.refs, k.pending, k.current, TRUE,
                   k.clientClosed, k.notified)
           /\ Call([k EXCEPT !.clientClosed = TRUE, !.pending = <<>>], k.state, k.refs, <<>>,
                   k.current, k.complete, TRUE, k.notified)
           /\ \A q \in Seq(Nat) :
                 Call([k EXCEPT !.pending = q], k.state, k.refs, q, k.current, k.complete,
                      k.clientClosed, k.notified)
<1>1. <<>> \in Seq(Nat)
  OBVIOUS
<1> QED
  BY <1>1, Zenon DEF Alarmed, CallObjects, Call

LEMMA PopForm ==
    ASSUME NEW k \in CallObjects, k.pending # <<>>
    PROVE  Call(Pop(k), k.state, k.refs, Tail(k.pending), Head(k.pending), k.complete,
                k.clientClosed, k.notified)
<1>1. Head(k.pending) \in Nat /\ Tail(k.pending) \in Seq(Nat)
  BY DEF CallObjects
<1> QED
  BY <1>1, Zenon DEF Pop, CallObjects, Call

(* An alarm's turn takes an event, and the state is Writing at once. *)
LEMMA PopWritingForm ==
    ASSUME NEW k \in CallObjects, NEW j, j = [k EXCEPT !.notified = FALSE], k.pending # <<>>
    PROVE  Call([Pop(j) EXCEPT !.state = "Writing"], "Writing", k.refs, Tail(k.pending),
                Head(k.pending), k.complete, k.clientClosed, FALSE)
<1>1. Call(j, k.state, k.refs, k.pending, k.current, k.complete, k.clientClosed, FALSE)
  BY StateWrites
<1>2. Call(Pop(j), j.state, j.refs, Tail(j.pending), Head(j.pending), j.complete,
           j.clientClosed, j.notified)
  BY <1>1, PopForm DEF Call
<1> DEFINE i == Pop(j)
<1> HIDE DEF i
<1>3. Call(i, k.state, k.refs, Tail(k.pending), Head(k.pending), k.complete,
           k.clientClosed, FALSE)
  BY <1>1, <1>2, Zenon DEF Call, i
<1>4. Call([i EXCEPT !.state = "Writing"], "Writing", i.refs, i.pending, i.current, i.complete,
           i.clientClosed, i.notified)
  BY <1>3, StateWrites DEF Call, CallStates
<1>5. Call([i EXCEPT !.state = "Writing"], "Writing", k.refs, Tail(k.pending), Head(k.pending),
           k.complete, k.clientClosed, FALSE)
  BY <1>3, <1>4, Zenon DEF Call
<1> QED
  BY <1>5 DEF i

LEMMA NotifiedFinishForm ==
    ASSUME NEW k \in CallObjects, NEW j, j = [k EXCEPT !.notified = FALSE]
    PROVE  /\ Call([j EXCEPT !.state = "Finishing"], "Finishing", k.refs, k.pending, k.current,
                   k.complete, k.clientClosed, FALSE)
           /\ Call(j, k.state, k.refs, k.pending, k.current, k.complete, k.clientClosed, FALSE)
<1>1. Call(j, k.state, k.refs, k.pending, k.current, k.complete, k.clientClosed, FALSE)
  BY StateWrites
<1>2. Call([j EXCEPT !.state = "Finishing"], "Finishing", j.refs, j.pending, j.current,
           j.complete, j.clientClosed, j.notified)
  BY <1>1, StateWrites DEF Call, CallStates
<1> QED
  BY <1>1, <1>2, Zenon DEF Call

(* k has these fields. *)
Client(k, state, inbox, closed, cancelled, got, over) ==
    /\ k \in ClientObjects
    /\ k.state = state /\ k.inbox = inbox /\ k.closed = closed
    /\ k.cancelled = cancelled /\ k.got = got /\ k.over = over

ClientStates == {"idle", "Starting", "Reading", "Finishing", "Completed"}

LEMMA ClientWrites ==
    ASSUME NEW k \in ClientObjects
    PROVE  /\ \A x \in ClientStates :
                 Client([k EXCEPT !.state = x], x, k.inbox, k.closed, k.cancelled, k.got, k.over)
           /\ Client([k EXCEPT !.over = "ended"], k.state, k.inbox, k.closed, k.cancelled,
                     k.got, "ended")
BY Zenon DEF ClientObjects, ClientStates, Client

LEMMA PushForm ==
    ASSUME NEW k \in ClientObjects, NEW e \in Nat
    PROVE  Client(Push(k, e), k.state, Append(k.inbox, e), k.closed, k.cancelled, k.got, k.over)
<1>1. Append(k.inbox, e) \in Seq(Nat)
  BY DEF ClientObjects
<1> QED
  BY <1>1, Zenon DEF Push, ClientObjects, Client

LEMMA CloseForm ==
    ASSUME NEW k \in ClientObjects
    PROVE  Client(Close(k), "Completed", k.inbox, TRUE, k.cancelled, k.got, k.over)
BY Zenon DEF Close, ClientObjects, Client

LEMMA ClosePushForm ==
    ASSUME NEW k \in ClientObjects, NEW e \in Nat
    PROVE  Client(Close(Push(k, e)), "Completed", Append(k.inbox, e), TRUE, k.cancelled,
                  k.got, k.over)
<1> DEFINE j == Push(k, e)
<1>1. Client(j, k.state, Append(k.inbox, e), k.closed, k.cancelled, k.got, k.over)
  BY PushForm
<1> HIDE DEF j
<1>2. Client(Close(j), "Completed", j.inbox, TRUE, j.cancelled, j.got, j.over)
  BY <1>1, CloseForm, Zenon DEF Client
<1>3. Client(Close(j), "Completed", Append(k.inbox, e), TRUE, k.cancelled, k.got, k.over)
  BY <1>1, <1>2, Zenon DEF Client
<1> QED
  BY <1>3 DEF j

(* A call that fails is closed, with an error unless it was cancelled. *)
LEMMA FailsForm ==
    ASSUME NEW k \in ClientObjects
    PROVE  /\ k.cancelled =>
                 Client(Fails(k), "Completed", k.inbox, TRUE, k.cancelled, k.got, k.over)
           /\ ~k.cancelled =>
                 Client(Fails(k), "Completed", Append(k.inbox, TransportError), TRUE,
                        k.cancelled, k.got, k.over)
<1>1. TransportError \in Nat
  BY DEF TransportError
<1>2. k.cancelled => Fails(k) = Close(k)
  BY Zenon DEF Fails
<1>3. ~k.cancelled => Fails(k) = Close(Push(k, TransportError))
  BY Zenon DEF Fails
<1> QED
  BY <1>1, <1>2, <1>3, CloseForm, ClosePushForm, Zenon

LEMMA TakeForm ==
    ASSUME NEW k \in ClientObjects, k.inbox # <<>>
    PROVE  Client(Take(k), k.state, Tail(k.inbox), k.closed, k.cancelled,
                  Append(k.got, Head(k.inbox)), k.over)
<1>1. Tail(k.inbox) \in Seq(Nat) /\ Append(k.got, Head(k.inbox)) \in Seq(Nat)
  BY DEF ClientObjects
<1> QED
  BY <1>1, Zenon DEF Take, ClientObjects, Client

LEMMA WalkAwayForm ==
    ASSUME NEW k \in ClientObjects
    PROVE  Client(WalkAway(k), k.state, k.inbox, k.closed, ~k.closed, k.got, "abandoned")
BY Zenon DEF WalkAway, ClientObjects, Client

-----------------------------------------------------------------------------
(***************************************************************************)
(* A thread's turn, step by step.  A step ends the process or has one of   *)
(* these effects on its call.                                              *)
(***************************************************************************)
Moves(t, c, from, to) ==
    turn[c][t] = from /\ turn'[c] = [turn[c] EXCEPT ![t] = to]

(* The call object, which never loses or gains complete in a turn. *)
Became(c, state, refs, pending, current, clientClosed, notified) ==
    Call(call'[c], state, refs, pending, current, call[c].complete, clientClosed, notified)

(* What a step leaves alone: the work of the call, and its outside. *)
Inner(c) ==
    job'[c] = job[c] /\ tags'[c] = tags[c] /\ conn'[c] = conn[c] /\ wire'[c] = wire[c]

Effect(t, c) ==
    LET k == call[c] IN
    \/ /\ Moves(t, c, "accept", "idle") /\ job'[c] = "queued"
       /\ tags'[c] = tags[c] /\ conn'[c] = conn[c] /\ wire'[c] = wire[c]
       /\ Became(c, "Waiting", k.refs + 1, k.pending, k.current, k.clientClosed, k.notified)
    \/ /\ Moves(t, c, "release", "idle") /\ Inner(c)
       /\ Became(c, k.state, k.refs - 1, k.pending, k.current, k.clientClosed, k.notified)
    \/ /\ Moves(t, c, "complete", "idle") /\ Inner(c)
       /\ Became(c, "Completed", k.refs - 1, k.pending, k.current, k.clientClosed, k.notified)
    \/ /\ Moves(t, c, "response", "finish") /\ Inner(c)
       /\ Became(c, "Finishing", k.refs, k.pending, k.current, k.clientClosed, FALSE)
    \/ /\ Moves(t, c, "notification", "write") /\ Inner(c) /\ k.pending # <<>>
       /\ Became(c, "Writing", k.refs, Tail(k.pending), Head(k.pending), k.clientClosed, FALSE)
    \/ /\ Moves(t, c, "notification", "finish") /\ Inner(c) /\ k.pending = <<>> /\ k.complete
       /\ Became(c, "Finishing", k.refs, k.pending, k.current, k.clientClosed, FALSE)
    \/ /\ Moves(t, c, "notification", "idle") /\ Inner(c)
       /\ Became(c, k.state, k.refs, k.pending, k.current, k.clientClosed, FALSE)
    \/ /\ Moves(t, c, "written", "mark") /\ Inner(c) /\ k.pending # <<>>
       /\ Became(c, k.state, k.refs, Tail(k.pending), Head(k.pending), k.clientClosed, k.notified)
    \/ /\ Moves(t, c, "written", "finish") /\ Inner(c) /\ k.pending = <<>> /\ k.complete
       /\ Became(c, "Finishing", k.refs, k.pending, k.current, k.clientClosed, k.notified)
    \/ /\ Moves(t, c, "written", "idle") /\ Inner(c)
       /\ Became(c, "Waiting", k.refs, k.pending, k.current, k.clientClosed, k.notified)
    \/ /\ Moves(t, c, "mark", "write") /\ Inner(c)
       /\ Became(c, "Writing", k.refs, k.pending, k.current, k.clientClosed, k.notified)
    \/ /\ Moves(t, c, "refused", "complete") /\ Inner(c)
       /\ Became(c, k.state, k.refs, <<>>, k.current, TRUE, k.notified)
    \/ /\ Moves(t, c, "write", "idle") /\ job'[c] = job[c] /\ conn'[c] = conn[c]
       /\ tags'[c] = [tags[c] EXCEPT !["write"] = @ + 1]
       /\ wire'[c] = IF conn[c] = "open" THEN Append(wire[c], k.current) ELSE wire[c]
       /\ Became(c, k.state, k.refs, k.pending, k.current, k.clientClosed, k.notified)
    \/ /\ Moves(t, c, "finish", "idle") /\ job'[c] = job[c]
       /\ tags'[c] = [tags[c] EXCEPT !["finish"] = @ + 1]
       /\ conn'[c] = IF conn[c] = "open" THEN "ok" ELSE conn[c]
       /\ wire'[c] = IF conn[c] = "open" /\ c \in Unary THEN Append(wire[c], Response)
                     ELSE wire[c]
       /\ Became(c, k.state, k.refs, k.pending, k.current, k.clientClosed, k.notified)

(* Outside the call of the step nothing changes. *)
Elsewhere(c) ==
    /\ UNCHANGED <<kind, server, crashed, yielded, client>>
    /\ \A d \in Calls \ {c} :
          /\ call'[d] = call[d] /\ tags'[d] = tags[d] /\ turn'[d] = turn[d]
          /\ job'[d] = job[d] /\ conn'[d] = conn[d] /\ wire'[d] = wire[d]

LEMMA GoesFacts ==
    ASSUME Typed, NEW t \in Threads, NEW c \in Calls, NEW k \in CallObjects,
           NEW at \in Points, Goes(t, c, k, at)
    PROVE  /\ call' \in [Calls -> CallObjects] /\ turn' \in [Calls -> [Threads -> Points]]
           /\ call'[c] = k /\ turn'[c] = [turn[c] EXCEPT ![t] = at]
           /\ \A d \in Calls \ {c} : call'[d] = call[d] /\ turn'[d] = turn[d]
BY DEF Goes, Typed

(* What is unchanged as a whole is unchanged in the call and elsewhere. *)
LEMMA Unmoved ==
    ASSUME Typed, NEW c \in Calls,
           UNCHANGED <<kind, server, crashed, tags, job, yielded, conn, wire, client>>,
           call' \in [Calls -> CallObjects], turn' \in [Calls -> [Threads -> Points]],
           \A d \in Calls \ {c} : call'[d] = call[d] /\ turn'[d] = turn[d]
    PROVE  Inner(c) /\ Elsewhere(c) /\ Typed'
BY DEF Inner, Elsewhere, Typed

LEMMA TurnEffect ==
    ASSUME Typed, NEW t \in Threads, NEW c \in Calls, Turn(t, c)
    PROVE  Crash \/ (Effect(t, c) /\ Elsewhere(c) /\ Typed')
<1> DEFINE k == call[c]
           Done == Effect(t, c) /\ Elsewhere(c) /\ Typed'
<1>0. k \in CallObjects
  BY DEF Typed
<1>p. Points = {"idle", "accept", "release", "complete", "response", "notification",
                "written", "refused", "mark", "write", "finish"}
  BY DEF Points
<1>1. ASSUME NEW j \in CallObjects, NEW at \in Points, Goes(t, c, j, at),
             UNCHANGED <<kind, server, crashed, tags, job, yielded, conn, wire, client>>
      PROVE  /\ turn'[c] = [turn[c] EXCEPT ![t] = at] /\ call'[c] = j
             /\ Inner(c) /\ Elsewhere(c) /\ Typed'
  BY <1>1, GoesFacts, Unmoved
<1>2. CASE Accepts(t, c)
  <2>1. Call(Accept(k), "Waiting", k.refs + 1, k.pending, k.current, k.complete,
             k.clientClosed, k.notified)
    BY <1>0, StateWrites
  <2>2. /\ turn[c][t] = "accept" /\ Goes(t, c, Accept(k), "idle")
        /\ job' = [job EXCEPT ![c] = "queued"]
        /\ UNCHANGED <<kind, server, crashed, tags, yielded, conn, wire, client>>
    BY <1>2 DEF Accepts
  <2>3. /\ call' \in [Calls -> CallObjects] /\ turn' \in [Calls -> [Threads -> Points]]
        /\ call'[c] = Accept(k) /\ turn'[c] = [turn[c] EXCEPT ![t] = "idle"]
        /\ \A d \in Calls \ {c} : call'[d] = call[d] /\ turn'[d] = turn[d]
    BY <1>p, <2>1, <2>2, GoesFacts DEF Call
  <2>4. Elsewhere(c) /\ Typed' /\ job'[c] = "queued"
    BY <2>2, <2>3 DEF Elsewhere, Typed
  <2>5. /\ Became(c, "Waiting", k.refs + 1, k.pending, k.current, k.clientClosed, k.notified)
        /\ Moves(t, c, "accept", "idle")
        /\ tags'[c] = tags[c] /\ conn'[c] = conn[c] /\ wire'[c] = wire[c]
    BY <2>1, <2>2, <2>3 DEF Became, Moves
  <2> QED BY <2>4, <2>5, Zenon DEF Effect
<1>3. CASE Releases(t, c)
  <2>1. Call(Release(k), k.state, k.refs - 1, k.pending, k.current, k.complete,
             k.clientClosed, k.notified)
    BY <1>0, StateWrites
  <2>2. /\ turn'[c] = [turn[c] EXCEPT ![t] = "idle"] /\ call'[c] = Release(k)
        /\ Inner(c) /\ Elsewhere(c) /\ Typed' /\ turn[c][t] = "release"
    BY <1>1, <1>3, <1>p, <2>1 DEF Releases, Call
  <2> QED BY <2>1, <2>2, Zenon DEF Effect, Became, Moves
<1>4. CASE Completes(t, c)
  <2> DEFINE j == Release([k EXCEPT !.state = "Completed"])
  <2>1. Call(j, "Completed", k.refs - 1, k.pending, k.current, k.complete,
             k.clientClosed, k.notified)
    BY <1>0, CompleteForm
  <2>2. /\ turn[c][t] = "complete" /\ Goes(t, c, j, "idle")
        /\ UNCHANGED <<kind, server, crashed, tags, job, yielded, conn, wire, client>>
    BY <1>4, Zenon DEF Completes
  <2> HIDE DEF j
  <2>3. /\ turn'[c] = [turn[c] EXCEPT ![t] = "idle"] /\ call'[c] = j
        /\ Inner(c) /\ Elsewhere(c) /\ Typed'
    BY <1>1, <1>p, <2>1, <2>2 DEF Call
  <2> QED BY <2>1, <2>2, <2>3, Zenon DEF Effect, Became, Moves
<1>5. CASE HandleResponseReady(t, c)
  <2> DEFINE j == [k EXCEPT !.notified = FALSE, !.state = "Finishing"]
  <2>1. Call(j, "Finishing", k.refs, k.pending, k.current, k.complete, k.clientClosed, FALSE)
    BY <1>0, StateWrites, Zenon
  <2>2. /\ turn[c][t] = "response" /\ Goes(t, c, j, "finish")
        /\ UNCHANGED <<kind, server, crashed, tags, job, yielded, conn, wire, client>>
    BY <1>5, Zenon DEF HandleResponseReady
  <2> HIDE DEF j
  <2>3. /\ turn'[c] = [turn[c] EXCEPT ![t] = "finish"] /\ call'[c] = j
        /\ Inner(c) /\ Elsewhere(c) /\ Typed'
    BY <1>1, <1>p, <2>1, <2>2 DEF Call
  <2> QED BY <2>1, <2>2, <2>3, Zenon DEF Effect, Became, Moves
<1>6. CASE HandleNotification(t, c)
  <2> DEFINE j == [k EXCEPT !.notified = FALSE]
  <2>0. /\ Call(j, k.state, k.refs, k.pending, k.current, k.complete, k.clientClosed, FALSE)
        /\ turn[c][t] = "notification"
        /\ UNCHANGED <<kind, server, crashed, tags, job, yielded, conn, wire, client>>
    BY <1>0, <1>6, NotifiedFinishForm, Zenon DEF HandleNotification
  <2>1. CASE j.pending # <<>> /\ Goes(t, c, [Pop(j) EXCEPT !.state = "Writing"], "write")
    <3> DEFINE n == [Pop(j) EXCEPT !.state = "Writing"]
    <3>1. k.pending # <<>> /\ Goes(t, c, n, "write")
      BY <2>0, <2>1, Zenon DEF Call
    <3>2. Call(n, "Writing", k.refs, Tail(k.pending), Head(k.pending), k.complete,
               k.clientClosed, FALSE)
      BY <1>0, <3>1, PopWritingForm, Zenon
    <3> HIDE DEF n
    <3>3. /\ turn'[c] = [turn[c] EXCEPT ![t] = "write"] /\ call'[c] = n
          /\ Inner(c) /\ Elsewhere(c) /\ Typed'
      BY <1>1, <1>p, <2>0, <3>1, <3>2 DEF Call
    <3> QED BY <2>0, <3>1, <3>2, <3>3, Zenon DEF Effect, Became, Moves
  <2>2. CASE /\ j.pending = <<>> /\ j.complete
             /\ Goes(t, c, [j EXCEPT !.state = "Finishing"], "finish")
    <3> DEFINE n == [j EXCEPT !.state = "Finishing"]
    <3>1. k.pending = <<>> /\ k.complete /\ Goes(t, c, n, "finish")
      BY <2>0, <2>2, Zenon DEF Call
    <3>2. Call(n, "Finishing", k.refs, k.pending, k.current, k.complete, k.clientClosed, FALSE)
      BY <1>0, NotifiedFinishForm, Zenon
    <3> HIDE DEF n
    <3>3. /\ turn'[c] = [turn[c] EXCEPT ![t] = "finish"] /\ call'[c] = n
          /\ Inner(c) /\ Elsewhere(c) /\ Typed'
      BY <1>1, <1>p, <2>0, <3>1, <3>2 DEF Call
    <3> QED BY <2>0, <3>1, <3>2, <3>3, Zenon DEF Effect, Became, Moves
  <2>3. CASE Goes(t, c, j, "idle")
    <3> HIDE DEF j
    <3>1. /\ turn'[c] = [turn[c] EXCEPT ![t] = "idle"] /\ call'[c] = j
          /\ Inner(c) /\ Elsewhere(c) /\ Typed'
      BY <1>1, <1>p, <2>0, <2>3 DEF Call
    <3> QED BY <2>0, <3>1, Zenon DEF Effect, Became, Moves
  <2> QED BY <1>6, <2>1, <2>2, <2>3, Zenon DEF HandleNotification
<1>7. CASE HandleWriteComplete(t, c)
  <2>0. /\ turn[c][t] = "written"
        /\ UNCHANGED <<kind, server, crashed, tags, job, yielded, conn, wire, client>>
    BY <1>7, Zenon DEF HandleWriteComplete
  <2>1. CASE k.pending # <<>> /\ Goes(t, c, Pop(k), "mark")
    <3>2. Call(Pop(k), k.state, k.refs, Tail(k.pending), Head(k.pending), k.complete,
               k.clientClosed, k.notified)
      BY <1>0, <2>1, PopForm
    <3>3. /\ turn'[c] = [turn[c] EXCEPT ![t] = "mark"] /\ call'[c] = Pop(k)
          /\ Inner(c) /\ Elsewhere(c) /\ Typed'
      BY <1>1, <1>p, <2>0, <2>1, <3>2 DEF Call
    <3> QED BY <2>0, <2>1, <3>2, <3>3, Zenon DEF Effect, Became, Moves
  <2>2. ASSUME NEW s \in CallStates, NEW at \in Points, Goes(t, c, [k EXCEPT !.state = s], at)
        PROVE  /\ turn'[c] = [turn[c] EXCEPT ![t] = at] /\ Inner(c) /\ Elsewhere(c) /\ Typed'
               /\ Became(c, s, k.refs, k.pending, k.current, k.clientClosed, k.notified)
    <3> DEFINE n == [k EXCEPT !.state = s]
    <3>1. Call(n, s, k.refs, k.pending, k.current, k.complete, k.clientClosed, k.notified)
      BY <1>0, StateWrites, Zenon
    <3>2. Goes(t, c, n, at)
      BY <2>2
    <3> HIDE DEF n
    <3>3. /\ turn'[c] = [turn[c] EXCEPT ![t] = at] /\ call'[c] = n
          /\ Inner(c) /\ Elsewhere(c) /\ Typed'
      BY <1>1, <2>0, <3>1, <3>2 DEF Call
    <3> QED BY <3>1, <3>3, Zenon DEF Became
  <2>3. CASE /\ k.pending = <<>> /\ k.complete
             /\ Goes(t, c, [k EXCEPT !.state = "Finishing"], "finish")
    <3>1. "Finishing" \in CallStates /\ "finish" \in Points
      BY DEF CallStates, Points
    <3> QED BY <2>0, <2>2, <2>3, <3>1, Zenon DEF Effect, Moves
  <2>4. CASE Goes(t, c, [k EXCEPT !.state = "Waiting"], "idle")
    <3>1. "Waiting" \in CallStates /\ "idle" \in Points
      BY DEF CallStates, Points
    <3> QED BY <2>0, <2>2, <2>4, <3>1, Zenon DEF Effect, Moves
  <2> QED BY <1>7, <2>1, <2>3, <2>4, Zenon DEF HandleWriteComplete
<1>8. CASE MarkWriting(t, c)
  <2> DEFINE j == [k EXCEPT !.state = "Writing"]
  <2>1. Call(j, "Writing", k.refs, k.pending, k.current, k.complete, k.clientClosed, k.notified)
    <3>1. "Writing" \in CallStates
      BY DEF CallStates
    <3> QED BY <1>0, <3>1, StateWrites, Zenon
  <2>2. /\ turn[c][t] = "mark" /\ Goes(t, c, j, "write")
        /\ UNCHANGED <<kind, server, crashed, tags, job, yielded, conn, wire, client>>
    BY <1>8, Zenon DEF MarkWriting
  <2> HIDE DEF j
  <2>3. /\ turn'[c] = [turn[c] EXCEPT ![t] = "write"] /\ call'[c] = j
        /\ Inner(c) /\ Elsewhere(c) /\ Typed'
    BY <1>1, <1>p, <2>1, <2>2 DEF Call
  <2> QED BY <2>1, <2>2, <2>3, Zenon DEF Effect, Became, Moves
<1>9. CASE HandleWriteRefused(t, c)
  <2> DEFINE j == [k EXCEPT !.clientClosed = TRUE, !.pending = <<>>]
  <2>1. Call(j, k.state, k.refs, <<>>, k.current, k.complete, TRUE, k.notified)
    BY <1>0, CallWrites, Zenon
  <2>2. /\ turn[c][t] = "refused" /\ Goes(t, c, j, "complete")
        /\ UNCHANGED <<kind, server, crashed, tags, job, yielded, conn, wire, client>>
    BY <1>9, Zenon DEF HandleWriteRefused
  <2> HIDE DEF j
  <2>3. /\ turn'[c] = [turn[c] EXCEPT ![t] = "complete"] /\ call'[c] = j
        /\ Inner(c) /\ Elsewhere(c) /\ Typed'
    BY <1>1, <1>p, <2>1, <2>2 DEF Call
  <2> QED BY <2>1, <2>2, <2>3, Zenon DEF Effect, Became, Moves
<1>10. CASE WriteEvent(t, c)
  <2>1. Call(k, k.state, k.refs, k.pending, k.current, k.complete, k.clientClosed, k.notified)
    BY <1>0 DEF Call
  <2>2. k.current \in Nat /\ wire[c] \in Seq(Nat) /\ tags[c] \in [Kinds -> Int]
    BY <1>0 DEF Typed, CallObjects
  <2> DEFINE v == IF conn[c] = "open" THEN Append(wire[c], k.current) ELSE wire[c]
  <2>3. v \in Seq(Nat)
    BY <2>2
  <2>4. /\ turn[c][t] = "write" /\ turn' = [turn EXCEPT ![c][t] = "idle"]
        /\ tags' = [tags EXCEPT ![c]["write"] = @ + 1]
        /\ wire' = [wire EXCEPT ![c] = v]
        /\ UNCHANGED <<kind, server, crashed, call, job, yielded, conn, client>>
    BY <1>10, Zenon DEF WriteEvent
  <2>v. v = IF conn[c] = "open" THEN Append(wire[c], k.current) ELSE wire[c]
    OBVIOUS
  <2> HIDE DEF v, k
  <2>5. /\ turn'[c] = [turn[c] EXCEPT ![t] = "idle"] /\ wire'[c] = v
        /\ turn' \in [Calls -> [Threads -> Points]] /\ wire' \in [Calls -> Seq(Nat)]
        /\ \A d \in Calls \ {c} : turn'[d] = turn[d] /\ wire'[d] = wire[d]
    BY <1>p, <2>3, <2>4 DEF Typed
  <2>6. /\ tags'[c] = [tags[c] EXCEPT !["write"] = @ + 1]
        /\ tags' \in [Calls -> [Kinds -> Int]]
        /\ \A d \in Calls \ {c} : tags'[d] = tags[d]
    BY <2>2, <2>4 DEF Typed, Kinds
  <2>7. Elsewhere(c) /\ Typed'
    BY <2>4, <2>5, <2>6 DEF Elsewhere, Typed
  <2>8. call'[c] = k /\ job'[c] = job[c] /\ conn'[c] = conn[c]
    BY <2>4 DEF k
  <2>9. /\ Became(c, k.state, k.refs, k.pending, k.current, k.clientClosed, k.notified)
        /\ Moves(t, c, "write", "idle")
    BY <2>1, <2>4, <2>5, <2>8 DEF Became, Moves, k
  <2> QED BY <2>5, <2>6, <2>7, <2>8, <2>9, <2>v, Zenon DEF Effect, k
<1>11. CASE FinishCall(t, c) /\ ~Crash
  <2> DEFINE j == [k EXCEPT !.finished = TRUE]
             v == IF conn[c] = "open" /\ c \in Unary THEN Append(wire[c], Response) ELSE wire[c]
             x == IF conn[c] = "open" THEN "ok" ELSE conn[c]
  <2>1. Call(j, k.state, k.refs, k.pending, k.current, k.complete, k.clientClosed, k.notified)
    BY <1>0, StateWrites, Zenon
  <2>2. wire[c] \in Seq(Nat) /\ tags[c] \in [Kinds -> Int]
    BY DEF Typed
  <2>3. v \in Seq(Nat) /\ x \in {"none", "open", "ok", "broken"}
    BY <2>2 DEF Response, Typed
  <2>4. /\ turn[c][t] = "finish" /\ Goes(t, c, j, "idle")
        /\ tags' = [tags EXCEPT ![c]["finish"] = @ + 1]
        /\ conn' = [conn EXCEPT ![c] = x]
        /\ wire' = [wire EXCEPT ![c] = v]
        /\ UNCHANGED <<kind, server, crashed, job, yielded, client>>
    BY <1>11, Zenon DEF FinishCall
  <2>v. /\ v = IF conn[c] = "open" /\ c \in Unary THEN Append(wire[c], Response) ELSE wire[c]
        /\ x = IF conn[c] = "open" THEN "ok" ELSE conn[c]
    OBVIOUS
  <2> HIDE DEF v, k, j, x
  <2>5. /\ call' \in [Calls -> CallObjects] /\ turn' \in [Calls -> [Threads -> Points]]
        /\ call'[c] = j /\ turn'[c] = [turn[c] EXCEPT ![t] = "idle"]
        /\ \A d \in Calls \ {c} : call'[d] = call[d] /\ turn'[d] = turn[d]
    BY <1>p, <2>1, <2>4, GoesFacts DEF Call
  <2>6. /\ tags'[c] = [tags[c] EXCEPT !["finish"] = @ + 1]
        /\ tags' \in [Calls -> [Kinds -> Int]]
        /\ \A d \in Calls \ {c} : tags'[d] = tags[d]
    BY <2>2, <2>4 DEF Typed, Kinds
  <2>7. /\ wire'[c] = v /\ conn'[c] = x
        /\ wire' \in [Calls -> Seq(Nat)] /\ conn' \in [Calls -> {"none", "open", "ok", "broken"}]
        /\ \A d \in Calls \ {c} : conn'[d] = conn[d] /\ wire'[d] = wire[d]
    BY <2>3, <2>4 DEF Typed
  <2>8. Elsewhere(c) /\ Typed' /\ job'[c] = job[c]
    BY <2>4, <2>5, <2>6, <2>7 DEF Elsewhere, Typed
  <2>9. /\ Became(c, k.state, k.refs, k.pending, k.current, k.clientClosed, k.notified)
        /\ Moves(t, c, "finish", "idle")
    BY <2>1, <2>4, <2>5 DEF Became, Moves, k
  <2> QED BY <2>6, <2>7, <2>8, <2>9, <2>v, Zenon DEF Effect, k
<1>12. CASE SecondWrite(t, c) \/ TornEvent(t, c)
  BY <1>12 DEF SecondWrite, TornEvent
<1> QED
  BY <1>2, <1>3, <1>4, <1>5, <1>6, <1>7, <1>8, <1>9, <1>10, <1>11, <1>12, Zenon DEF Turn

(* Where a thread goes with a tag, by the state it reads. *)
LEMMA ProceedByState ==
    ASSUME NEW c, NEW ok \in BOOLEAN, call[c] \in CallObjects
    PROVE  /\ Proceed(c, ok) \in Points
           /\ call[c].state = "Requesting" =>
                 Proceed(c, ok) = IF ok THEN "accept" ELSE "release"
           /\ call[c].state = "Waiting" =>
                 Proceed(c, ok) = IF ~ok THEN "complete"
                                  ELSE IF c \in Unary THEN "response" ELSE "notification"
           /\ call[c].state = "Writing" => Proceed(c, ok) = IF ok THEN "written" ELSE "refused"
           /\ call[c].state = "Finishing" => Proceed(c, ok) = "complete"
           /\ call[c].state = "Completed" => Proceed(c, ok) = "release"
<1>1. call[c].state \in CallStates
  BY DEF CallObjects
<1> QED
  BY <1>1 DEF Proceed, CallStates, Points

LEMMA ComesBackByTag ==
    ASSUME NEW c, NEW ok, NEW tag, ComesBack(c, tag, ok)
    PROVE  /\ tag = "alarm" => ok
           /\ tag = "request" /\ ok => conn[c] = "open"
           /\ tag = "write" /\ ~ok => conn[c] \in {"ok", "broken"}
           /\ tag = "finish" /\ ~ok => conn[c] = "broken"
BY Zenon DEF ComesBack

LEMMA Nested ==
    ASSUME NEW S, NEW A, NEW B, NEW f \in [S -> [A -> B]], NEW c \in S, NEW a \in A, NEW b \in B
    PROVE  LET g == [f EXCEPT ![c][a] = b]
           IN  /\ g \in [S -> [A -> B]] /\ g[c] = [f[c] EXCEPT ![a] = b]
               /\ \A d \in S \ {c} : g[d] = f[d]
OBVIOUS

(* A thread takes a tag. *)
LEMMA TakeFacts ==
    ASSUME Typed, NEW t \in Threads, NEW c \in Calls, NEW tag \in Kinds, NEW ok \in BOOLEAN,
           TakeTag(t, c, tag, ok)
    PROVE  /\ tags[c][tag] > 0 /\ ComesBack(c, tag, ok) /\ turn[c][t] = "idle"
           /\ \/ Crash
              \/ /\ Moves(t, c, "idle", Proceed(c, ok))
                 /\ tags'[c] = [tags[c] EXCEPT ![tag] = @ - 1]
                 /\ call'[c] = call[c]
                 /\ job'[c] = job[c] /\ conn'[c] = conn[c] /\ wire'[c] = wire[c]
                 /\ Elsewhere(c) /\ Typed'
<1>1. tags[c][tag] > 0 /\ ComesBack(c, tag, ok) /\ turn[c][t] = "idle"
  BY DEF TakeTag, Idle
<1>2. ASSUME ~Crash
      PROVE  /\ tags' = [tags EXCEPT ![c][tag] = @ - 1]
             /\ turn' = [turn EXCEPT ![c][t] = Proceed(c, ok)]
             /\ UNCHANGED <<kind, server, crashed, call, job, yielded, conn, wire, client>>
  BY <1>2 DEF TakeTag
<1>3. Proceed(c, ok) \in Points
  BY ProceedByState DEF Typed
<1>4. ASSUME ~Crash
      PROVE  /\ tags' \in [Calls -> [Kinds -> Int]] /\ tags'[c] = [tags[c] EXCEPT ![tag] = @ - 1]
             /\ \A d \in Calls \ {c} : tags'[d] = tags[d]
  <2>1. tags \in [Calls -> [Kinds -> Int]] /\ tags[c][tag] - 1 \in Int
    BY DEF Typed
  <2>2. tags' = [tags EXCEPT ![c][tag] = tags[c][tag] - 1]
    BY <1>2, <1>4
  <2> QED BY <2>1, <2>2, Nested
<1>5. ASSUME ~Crash
      PROVE  /\ turn' \in [Calls -> [Threads -> Points]] /\ Moves(t, c, "idle", Proceed(c, ok))
             /\ \A d \in Calls \ {c} : turn'[d] = turn[d]
  <2>1. turn \in [Calls -> [Threads -> Points]]
    BY DEF Typed
  <2>2. turn' = [turn EXCEPT ![c][t] = Proceed(c, ok)]
    BY <1>2, <1>5
  <2>3. /\ turn' \in [Calls -> [Threads -> Points]]
        /\ turn'[c] = [turn[c] EXCEPT ![t] = Proceed(c, ok)]
        /\ \A d \in Calls \ {c} : turn'[d] = turn[d]
    BY <1>3, <2>1, <2>2, Nested
  <2> QED BY <1>1, <2>3 DEF Moves
<1>6. ASSUME ~Crash PROVE Elsewhere(c) /\ Typed'
  BY <1>2, <1>4, <1>5, <1>6 DEF Elsewhere, Typed
<1> QED
  BY <1>1, <1>2, <1>4, <1>5, <1>6

-----------------------------------------------------------------------------
(***************************************************************************)
(* Types.                                                                  *)
(***************************************************************************)
LEMMA CrashTyped == Typed /\ Crash => Typed'
BY DEF Typed, Crash

LEMMA NotifyTyped ==
    ASSUME Typed, NEW c \in Calls, NEW k \in CallObjects, Notify(c, k)
    PROVE  /\ call' \in [Calls -> CallObjects]
           /\ tags' \in [Calls -> [Kinds -> Int]]
<1>1. Alarmed(k) \in CallObjects
  BY CallWrites DEF Call
<1>2. /\ call' = [call EXCEPT ![c] = Alarmed(k)]
      /\ tags' = [tags EXCEPT ![c]["alarm"] = IF k.notified THEN @ ELSE @ + 1]
  BY DEF Notify
<1> QED
  BY <1>1, <1>2 DEF Typed, Kinds

LEMMA EnqueueTyped ==
    ASSUME Typed, NEW c \in Calls, NEW e \in Nat, EnqueueEvent(c, e)
    PROVE  /\ call' \in [Calls -> CallObjects]
           /\ tags' \in [Calls -> [Kinds -> Int]]
<1>1. CASE call[c].clientClosed
  BY <1>1 DEF EnqueueEvent, Typed
<1>2. CASE ~call[c].clientClosed
  <2> DEFINE k == [call[c] EXCEPT !.pending = Append(@, e)]
  <2>1. call[c] \in CallObjects /\ Append(call[c].pending, e) \in Seq(Nat)
    BY DEF Typed, CallObjects
  <2>2. k \in CallObjects
    BY <2>1, CallWrites, Zenon DEF Call
  <2>3. Notify(c, k)
    BY <1>2, Zenon DEF EnqueueEvent
  <2> HIDE DEF k
  <2> QED BY <2>2, <2>3, NotifyTyped
<1> QED BY <1>1, <1>2

LEMMA WorkTyped ==
    ASSUME Typed, NEW c \in Calls, Work(c)
    PROVE  Typed'
<1>1. CASE StartJob(c)
  BY <1>1 DEF StartJob, Typed
<1>2. CASE ExecuteRequest(c)
  <2>1. call[c] \in CallObjects
    BY DEF Typed
  <2>2. Notify(c, call[c])
    BY <1>2 DEF ExecuteRequest
  <2> QED
    BY <1>2, <2>1, <2>2, NotifyTyped DEF ExecuteRequest, Typed
<1>3. ASSUME EnqueueEvent(c, yielded[c] + 1), yielded[c] < MaxEvents
      PROVE  /\ call' \in [Calls -> CallObjects]
             /\ tags' \in [Calls -> [Kinds -> Int]]
             /\ [yielded EXCEPT ![c] = IF call[c].clientClosed THEN @ ELSE @ + 1]
                  \in [Calls -> 0..MaxEvents]
  <2>1. yielded[c] \in Nat /\ yielded[c] + 1 \in Nat /\ yielded[c] + 1 <= MaxEvents
    BY <1>3, GrpcAssumption DEF Typed
  <2>2. [yielded EXCEPT ![c] = IF call[c].clientClosed THEN @ ELSE @ + 1] \in [Calls -> 0..MaxEvents]
    BY <2>1, GrpcAssumption DEF Typed
  <2> QED BY <1>3, <2>1, <2>2, EnqueueTyped
<1>4. CASE ProduceEvent(c)
  <2>1. CASE Freed(c)
    BY <1>4, <2>1, CrashTyped DEF ProduceEvent
  <2>2. CASE ~Freed(c)
    BY <1>3, <1>4, <2>2 DEF ProduceEvent, Typed
  <2> QED BY <2>1, <2>2
<1>5. CASE ServiceFails(c)
  BY <1>3, <1>5 DEF ServiceFails, Typed
<1>6. CASE MarkProducerComplete(c)
  <2>1. CASE Freed(c)
    BY <1>6, <2>1, CrashTyped DEF MarkProducerComplete
  <2>2. CASE ~Freed(c)
    <3> DEFINE k == [call[c] EXCEPT !.complete = TRUE]
    <3>1. k \in CallObjects
      BY CallWrites, Zenon DEF Typed, Call
    <3>2. Notify(c, k)
      BY <1>6, <2>2, Zenon DEF MarkProducerComplete
    <3> HIDE DEF k
    <3> QED BY <1>6, <2>2, <3>1, <3>2, NotifyTyped DEF MarkProducerComplete, Typed
  <2> QED BY <2>1, <2>2
<1>7. CASE EndJob(c)
  <2>1. CASE Freed(c)
    BY <1>7, <2>1, CrashTyped DEF EndJob
  <2>2. CASE ~Freed(c)
    <3>1. Release(call[c]) \in CallObjects
      BY StateWrites DEF Typed, Call
    <3> QED BY <1>7, <2>2, <3>1 DEF EndJob, Typed
  <2> QED BY <2>1, <2>2
<1> QED
  BY <1>1, <1>2, <1>4, <1>5, <1>6, <1>7 DEF Work

(* A step of the client or its consumer writes one client object. *)
LEMMA ClientTyped ==
    ASSUME Typed, NEW c \in Calls,
           PollClient(c) \/ Consume(c) \/ Invoke(c) \/ Abandon(c)
    PROVE  Typed'
<1> DEFINE k == client[c]
<1>0. k \in ClientObjects
  BY DEF Typed
<1>1. ASSUME NEW j \in ClientObjects, client' = [client EXCEPT ![c] = j],
             UNCHANGED <<kind, server, crashed, call, tags, turn, job, yielded>>,
             conn' \in [Calls -> {"none", "open", "ok", "broken"}], wire' \in [Calls -> Seq(Nat)]
      PROVE  Typed'
  BY <1>1 DEF Typed
<1>2. ASSUME UNCHANGED <<conn, wire>>
      PROVE  conn' \in [Calls -> {"none", "open", "ok", "broken"}] /\ wire' \in [Calls -> Seq(Nat)]
  BY <1>2 DEF Typed
<1>3. \A x \in ClientStates : [k EXCEPT !.state = x] \in ClientObjects
  BY <1>0, ClientWrites, Zenon DEF Client
<1>4. Fails(k) \in ClientObjects /\ Close(k) \in ClientObjects
  BY <1>0, FailsForm, CloseForm, Zenon DEF Client
<1>5. CASE CompleteUnary(c)
  <2> DEFINE e == IF conn[c] = "ok" THEN Response ELSE TransportError
  <2>1. e \in Nat
    BY DEF Response, TransportError
  <2>2. Close(Push(k, e)) \in ClientObjects
    <3> HIDE DEF e, k
    <3> QED BY <1>0, <2>1, ClosePushForm DEF Client
  <2>3. client' = [client EXCEPT ![c] = Close(Push(k, e))]
    BY <1>5 DEF CompleteUnary
  <2> HIDE DEF e, k
  <2> QED BY <1>1, <1>2, <1>5, <2>2, <2>3 DEF CompleteUnary
<1>6. ASSUME NEW ok \in BOOLEAN, CompleteStart(c, ok) PROVE Typed'
  <2> DEFINE j == IF ok THEN [k EXCEPT !.state = "Reading"] ELSE Fails(k)
  <2>1. j \in ClientObjects
    BY <1>3, <1>4 DEF ClientStates
  <2>2. client' = [client EXCEPT ![c] = j]
    BY <1>6, Zenon DEF CompleteStart
  <2> HIDE DEF j
  <2> QED BY <1>1, <1>2, <1>6, <2>1, <2>2 DEF CompleteStart
<1>7. CASE CompleteRead(c)
  <2>1. wire[c] \in Seq(Nat) /\ wire[c] # <<>>
    BY <1>7 DEF CompleteRead, Typed
  <2>2. Head(wire[c]) \in Nat /\ Tail(wire[c]) \in Seq(Nat)
    BY <2>1
  <2>3. Push(k, Head(wire[c])) \in ClientObjects
    BY <1>0, <2>2, PushForm DEF Client
  <2>4. wire' \in [Calls -> Seq(Nat)] /\ conn' \in [Calls -> {"none", "open", "ok", "broken"}]
    BY <1>7, <2>2 DEF CompleteRead, Typed
  <2> QED BY <1>1, <1>7, <2>3, <2>4 DEF CompleteRead
<1>8. CASE CompleteLastRead(c)
  <2>1. client' = [client EXCEPT ![c] = [k EXCEPT !.state = "Finishing"]]
    BY <1>8, Zenon DEF CompleteLastRead
  <2>2. [k EXCEPT !.state = "Finishing"] \in ClientObjects
    BY <1>3 DEF ClientStates
  <2> QED BY <1>1, <1>2, <1>8, <2>1, <2>2 DEF CompleteLastRead
<1>9. CASE CompleteFinish(c)
  <2> DEFINE j == IF conn[c] = "ok" THEN Close(k) ELSE Fails(k)
  <2>1. j \in ClientObjects
    BY <1>4
  <2>2. client' = [client EXCEPT ![c] = j]
    BY <1>9, Zenon DEF CompleteFinish
  <2> HIDE DEF j
  <2> QED BY <1>1, <1>2, <1>9, <2>1, <2>2 DEF CompleteFinish
<1>10. CASE WaitNext(c)
  <2>1. Take(k) \in ClientObjects
    BY <1>0, <1>10, TakeForm DEF Client, WaitNext
  <2> QED BY <1>1, <1>2, <1>10, <2>1 DEF WaitNext
<1>11. CASE StreamOver(c)
  <2>1. client' = [client EXCEPT ![c] = [k EXCEPT !.over = "ended"]]
    BY <1>11, Zenon DEF StreamOver
  <2>2. [k EXCEPT !.over = "ended"] \in ClientObjects
    BY <1>0, ClientWrites, Zenon DEF Client
  <2> QED BY <1>1, <1>2, <1>11, <2>1, <2>2 DEF StreamOver
<1>12. CASE Invoke(c)
  <2> DEFINE x == IF c \in Unary THEN "Finishing" ELSE "Starting"
  <2>1. client' = [client EXCEPT ![c] = [k EXCEPT !.state = x]]
    BY <1>12, Zenon DEF Invoke
  <2>2. [k EXCEPT !.state = x] \in ClientObjects
    BY <1>3 DEF ClientStates
  <2>3. wire' \in [Calls -> Seq(Nat)] /\ conn' \in [Calls -> {"none", "open", "ok", "broken"}]
    BY <1>12 DEF Invoke, Typed
  <2> HIDE DEF x
  <2> QED BY <1>1, <1>12, <2>1, <2>2, <2>3 DEF Invoke
<1>13. CASE Abandon(c)
  <2>1. WalkAway(k) \in ClientObjects
    BY <1>0, WalkAwayForm DEF Client
  <2>2. wire' \in [Calls -> Seq(Nat)] /\ conn' \in [Calls -> {"none", "open", "ok", "broken"}]
    BY <1>13 DEF Abandon, Typed
  <2> QED BY <1>1, <1>13, <2>1, <2>2 DEF Abandon
<1> QED
  BY <1>5, <1>6, <1>7, <1>8, <1>9, <1>10, <1>11, <1>12, <1>13 DEF PollClient, Consume

LEMMA InitTyped == Init => Typed
<1> SUFFICES ASSUME Init PROVE Typed
  OBVIOUS
<1>0. <<>> \in Seq(Nat)
  OBVIOUS
<1>1. NewCall \in CallObjects /\ NewClient \in ClientObjects
  BY <1>0 DEF NewCall, NewClient, CallObjects, CallStates, ClientObjects
<1>2. 0 \in 0..MaxEvents
  BY GrpcAssumption
<1>3. call \in [Calls -> CallObjects] /\ client \in [Calls -> ClientObjects]
  BY <1>1 DEF Init
<1>4. wire \in [Calls -> Seq(Nat)]
  BY <1>0 DEF Init
<1>5. tags \in [Calls -> [Kinds -> Int]] /\ turn \in [Calls -> [Threads -> Points]]
  <2>1. [NoTags EXCEPT !["request"] = 1] \in [Kinds -> Int]
    BY DEF NoTags, Kinds
  <2>2. [t \in Threads |-> "idle"] \in [Threads -> Points]
    BY DEF Points
  <2>3. /\ tags = [c \in Calls |-> [NoTags EXCEPT !["request"] = 1]]
        /\ turn = [c \in Calls |-> [t \in Threads |-> "idle"]]
    BY DEF Init
  <2> QED BY <2>1, <2>2, <2>3, Zenon
<1>6. yielded \in [Calls -> 0..MaxEvents]
  BY <1>2 DEF Init
<1>7. crashed \in BOOLEAN
  BY DEF Init
<1> QED
  BY <1>3, <1>4, <1>5, <1>6, <1>7 DEF Init, Typed

LEMMA NextTyped == Typed /\ [Next]_vars => Typed'
<1> SUFFICES ASSUME Typed, [Next]_vars PROVE Typed'
  OBVIOUS
<1>1. ASSUME NEW c \in Calls, Poll(c) PROVE Typed'
  <2>1. PICK t \in Threads, tag \in Kinds, ok \in BOOLEAN : TakeTag(t, c, tag, ok)
    BY <1>1 DEF Poll
  <2> QED BY <2>1, TakeFacts, CrashTyped
<1>2. ASSUME NEW c \in Calls, BreakCall(c) PROVE Typed'
  BY <1>2 DEF BreakCall, Typed
<1>3. CASE StopServer \/ ServerStopped
  BY <1>3 DEF StopServer, ServerStopped, Typed
<1>4. CASE UNCHANGED vars
  BY <1>4 DEF vars, Typed
<1>5. ASSUME NEW c \in Calls, NEW t \in Threads, Turn(t, c) PROVE Typed'
  BY <1>5, TurnEffect, CrashTyped
<1> QED
  BY <1>1, <1>2, <1>3, <1>4, <1>5, WorkTyped, ClientTyped DEF Next

-----------------------------------------------------------------------------
(***************************************************************************)
(* References of a unary call.                                             *)
(***************************************************************************)
(* A tag is taken: it was the only one, and one thread has the call now. *)
LEMMA TakesTheOne ==
    ASSUME Typed, NEW c \in Calls, NEW t \in Threads, NEW tag \in Kinds, NEW x \in Kinds,
           NEW at, Queued(c, x), tags[c][tag] > 0, Moves(t, c, "idle", at),
           tags'[c] = [tags[c] EXCEPT ![tag] = @ - 1]
    PROVE  tag = x /\ Taken(c, {at})'
<1>1. tags[c] = [y \in Kinds |-> IF y = x THEN 1 ELSE 0]
  BY DEF Queued, One, NoTags
<1>2. tag = x
  BY <1>1
<1>3. tags'[c] = NoTags
  BY <1>1, <1>2 DEF NoTags
<1>4. turn[c] \in [Threads -> Points] /\ turn'[c] = [turn[c] EXCEPT ![t] = at]
  BY DEF Typed, Moves
<1>5. turn'[c][t] = at /\ \A u \in Threads \ {t} : turn'[c][u] = "idle"
  BY <1>4 DEF Queued, Unattended
<1> QED
  BY <1>2, <1>3, <1>5 DEF Taken, Attended

LEMMA NothingToTake ==
    ASSUME NEW c, NEW tag \in Kinds, tags[c] = NoTags
    PROVE  ~(tags[c][tag] > 0)
BY DEF NoTags

(* The thread that has the call takes a step of its turn. *)
LEMMA MovesOn ==
    ASSUME Typed, NEW c \in Calls, NEW t \in Threads, NEW from, NEW to, NEW points,
           Attended(c, points), Moves(t, c, from, to), from # "idle", "idle" \notin points
    PROVE  /\ from \in points
           /\ to # "idle" => Attended(c, {to})'
           /\ to = "idle" => Unattended(c)'
<1>1. PICK u \in Threads : turn[c][u] \in points /\ \A v \in Threads \ {u} : turn[c][v] = "idle"
  BY DEF Attended
<1>2. u = t
  BY <1>1 DEF Moves
<1>3. turn[c] \in [Threads -> Points] /\ turn'[c] = [turn[c] EXCEPT ![t] = to]
  BY DEF Typed, Moves
<1>4. turn'[c][t] = to /\ \A v \in Threads \ {t} : turn'[c][v] = "idle"
  BY <1>1, <1>2, <1>3
<1> QED
  BY <1>1, <1>2, <1>4 DEF Moves, Attended, Unattended

LEMMA UnaryTake ==
    ASSUME Typed, NEW c \in Unary, UnaryLife(c), NEW t \in Threads, NEW tag \in Kinds,
           NEW ok \in BOOLEAN, TakeTag(t, c, tag, ok), ~Crash
    PROVE  UnaryLife(c)'
<1>0. c \in Calls /\ call[c] \in CallObjects
  BY DEF Unary, Typed
<1>a. PICK at \in Points : at = Proceed(c, ok)
  BY <1>0, ProceedByState
<1>1. /\ tags[c][tag] > 0 /\ ComesBack(c, tag, ok)
      /\ Moves(t, c, "idle", at)
      /\ tags'[c] = [tags[c] EXCEPT ![tag] = @ - 1]
      /\ call'[c] = call[c] /\ job'[c] = job[c]
  BY <1>0, <1>a, TakeFacts
<1>2. tags[c] # NoTags
  BY <1>1, NothingToTake
<1>3. ASSUME NEW x \in Kinds, Queued(c, x) PROVE tag = x /\ Taken(c, {at})'
  BY <1>0, <1>1, <1>3, TakesTheOne
<1>4. CASE call[c].state = "Requesting"
  <2>1. job[c] = "none" /\ ~call[c].notified /\ Queued(c, "request") /\ call[c].refs = 1
    BY <1>2, <1>4 DEF UnaryLife, Taken, Quiet
  <2>2. Taken(c, {at})' /\ at \in {"accept", "release"}
    BY <1>0, <1>3, <1>4, <1>a, <2>1, ProceedByState DEF Kinds
  <2>3. Taken(c, {"accept", "release"})'
    BY <2>2 DEF Taken, Attended
  <2> QED BY <1>1, <1>4, <2>1, <2>3 DEF UnaryLife
<1>5. CASE call[c].state = "Waiting"
  <2>1. /\ job[c] \in {"ending", "done"} /\ Queued(c, "alarm")
        /\ call[c].refs = 1 + JobHolds(c)
    BY <1>2, <1>5 DEF UnaryLife, Taken, Quiet
  <2>2. Taken(c, {at})' /\ tag = "alarm"
    BY <1>3, <2>1 DEF Kinds
  <2>3. at = "response"
    BY <1>0, <1>1, <1>5, <1>a, <2>2, ComesBackByTag, ProceedByState
  <2> QED BY <1>1, <1>5, <2>1, <2>2, <2>3 DEF UnaryLife, JobHolds
<1>6. CASE call[c].state = "Finishing"
  <2>1. /\ job[c] \in {"ending", "done"} /\ Queued(c, "finish")
        /\ call[c].refs = 1 + JobHolds(c)
    BY <1>2, <1>6 DEF UnaryLife, Taken, Quiet
  <2>2. Taken(c, {at})'
    BY <1>3, <2>1 DEF Kinds
  <2>3. at = "complete"
    BY <1>0, <1>6, <1>a, ProceedByState
  <2>4. Taken(c, {"finish", "complete"})'
    BY <2>2, <2>3 DEF Taken, Attended
  <2> QED BY <1>1, <1>6, <2>1, <2>4 DEF UnaryLife, JobHolds
<1> QED
  BY <1>2, <1>4, <1>5, <1>6 DEF UnaryLife, Taken, Quiet

LEMMA UnaryTurn ==
    ASSUME Typed, NEW c \in Unary, UnaryLife(c), NEW t \in Threads, turn[c][t] # "idle",
           Effect(t, c)
    PROVE  UnaryLife(c)'
<1> DEFINE k == call[c]
<1>0. c \in Calls /\ k \in CallObjects
  BY DEF Unary, Typed
<1>1. ~Unattended(c)
  BY DEF Unattended
<1>2. ASSUME NEW from, NEW to, NEW points, Moves(t, c, from, to), Taken(c, points),
             from # "idle", "idle" \notin points
      PROVE  /\ from \in points
             /\ tags'[c] = tags[c] /\ to # "idle" => Taken(c, {to})'
             /\ tags'[c] = tags[c] /\ to = "idle" => Quiet(c)'
             /\ to = "idle" => Unattended(c)'
  BY <1>0, <1>2, MovesOn DEF Taken, Quiet
<1>3. CASE k.state = "Requesting"
  <2>1. /\ job[c] = "none" /\ ~k.notified /\ Taken(c, {"accept", "release"}) /\ k.refs = 1
    BY <1>1, <1>3 DEF UnaryLife, Queued, Quiet
  <2>2. CASE /\ Moves(t, c, "accept", "idle") /\ job'[c] = "queued" /\ tags'[c] = tags[c]
             /\ Became(c, "Waiting", k.refs + 1, k.pending, k.current, k.clientClosed, k.notified)
    <3>1. Quiet(c)'
      BY <1>2, <2>1, <2>2
    <3> QED BY <2>1, <2>2, <3>1 DEF UnaryLife, Became, Call
  <2>3. CASE /\ Moves(t, c, "release", "idle") /\ Inner(c)
             /\ Became(c, k.state, k.refs - 1, k.pending, k.current, k.clientClosed, k.notified)
    <3>1. Quiet(c)'
      BY <1>2, <2>1, <2>3 DEF Inner
    <3> QED BY <1>3, <2>1, <2>3, <3>1 DEF UnaryLife, Became, Call, Inner
  <2>4. turn[c][t] \in {"accept", "release"}
    BY <2>1 DEF Taken, Attended
  <2> QED BY <2>2, <2>3, <2>4 DEF Effect, Moves
<1>4. CASE k.state = "Waiting"
  <2>1. job[c] \in {"ending", "done"} /\ Taken(c, {"response"}) /\ k.refs = 1 + JobHolds(c)
    BY <1>1, <1>4 DEF UnaryLife, Queued, Quiet
  <2>2. CASE /\ Moves(t, c, "response", "finish") /\ Inner(c)
             /\ Became(c, "Finishing", k.refs, k.pending, k.current, k.clientClosed, FALSE)
    <3>1. Taken(c, {"finish"})'
      BY <1>2, <2>1, <2>2 DEF Inner
    <3>2. Taken(c, {"finish", "complete"})'
      BY <3>1 DEF Taken, Attended
    <3> QED BY <2>1, <2>2, <3>2 DEF UnaryLife, Became, Call, Inner, JobHolds
  <2>4. turn[c][t] = "response"
    BY <2>1 DEF Taken, Attended
  <2> QED BY <2>2, <2>4 DEF Effect, Moves
<1>5. CASE k.state = "Finishing"
  <2>1. /\ job[c] \in {"ending", "done"} /\ Taken(c, {"finish", "complete"})
        /\ k.refs = 1 + JobHolds(c)
    BY <1>1, <1>5 DEF UnaryLife, Queued, Quiet
  <2>2. CASE /\ Moves(t, c, "complete", "idle") /\ Inner(c)
             /\ Became(c, "Completed", k.refs - 1, k.pending, k.current, k.clientClosed, k.notified)
    <3>1. Quiet(c)'
      BY <1>2, <2>1, <2>2 DEF Inner
    <3> QED BY <2>1, <2>2, <3>1 DEF UnaryLife, Became, Call, Inner, JobHolds
  <2>3. CASE /\ Moves(t, c, "finish", "idle") /\ job'[c] = job[c]
             /\ tags'[c] = [tags[c] EXCEPT !["finish"] = @ + 1]
             /\ Became(c, k.state, k.refs, k.pending, k.current, k.clientClosed, k.notified)
    <3>1. Unattended(c)'
      BY <1>2, <2>1, <2>3
    <3>2. One(c, "finish")'
      BY <2>1, <2>3 DEF One, Taken, NoTags, Kinds
    <3> QED BY <1>5, <2>1, <2>3, <3>1, <3>2 DEF UnaryLife, Became, Call, JobHolds, Queued
  <2>4. turn[c][t] \in {"finish", "complete"}
    BY <2>1 DEF Taken, Attended
  <2> QED BY <2>2, <2>3, <2>4 DEF Effect, Moves
<1> QED
  BY <1>1, <1>3, <1>4, <1>5 DEF UnaryLife, Quiet

(* A step that leaves the call alone. *)
LEMMA SameUnary ==
    ASSUME NEW c, UnaryLife(c), call'[c] = call[c], tags'[c] = tags[c], turn'[c] = turn[c],
           job'[c] = job[c]
    PROVE  UnaryLife(c)'
<1>1. /\ Quiet(c)' <=> Quiet(c)
      /\ \A x \in Kinds : Queued(c, x)' <=> Queued(c, x)
      /\ \A x : Taken(c, x)' <=> Taken(c, x)
  BY DEF Quiet, Queued, Taken, Attended, Unattended, One
<1> QED
  BY <1>1 DEF UnaryLife, JobHolds, Kinds

LEMMA UnaryWork ==
    ASSUME Typed, NEW c \in Unary, UnaryLife(c), Work(c)
    PROVE  UnaryLife(c)'
<1> DEFINE k == call[c]
<1>0. c \in Calls /\ c \notin Streams /\ k \in CallObjects
  BY DEF Unary, Streams, Typed
<1>q. ASSUME turn'[c] = turn[c], tags'[c] = tags[c]
      PROVE  /\ Quiet(c)' <=> Quiet(c)
             /\ \A x \in Kinds : Queued(c, x)' <=> Queued(c, x)
             /\ \A x : Taken(c, x)' <=> Taken(c, x)
  BY <1>q DEF Quiet, Queued, Taken, Attended, Unattended, One
<1>1. CASE StartJob(c)
  <2>1. /\ turn'[c] = turn[c] /\ tags'[c] = tags[c] /\ call'[c] = call[c]
        /\ job[c] = "queued" /\ job'[c] = "running"
    BY <1>0, <1>1 DEF StartJob, Typed
  <2> QED BY <1>q, <2>1 DEF UnaryLife
<1>2. CASE ExecuteRequest(c)
  <2>1. /\ call' = [call EXCEPT ![c] = Alarmed(k)]
        /\ tags' = [tags EXCEPT ![c]["alarm"] = IF k.notified THEN @ ELSE @ + 1]
        /\ job' = [job EXCEPT ![c] = "ending"] /\ turn' = turn
        /\ job[c] = "running"
    BY <1>2 DEF ExecuteRequest, Notify
  <2>2. Alarmed(k).state = k.state /\ Alarmed(k).refs = k.refs
    BY <1>0, CallWrites, Zenon DEF Call
  <2>3. k.state = "Waiting" /\ Quiet(c) /\ ~k.notified /\ k.refs = 2
    BY <2>1 DEF UnaryLife
  <2>4. call'[c] = Alarmed(k) /\ job'[c] = "ending" /\ turn'[c] = turn[c]
    <3> HIDE DEF k
    <3> QED BY <1>0, <2>1 DEF Typed
  <2>5. tags'[c] = [tags[c] EXCEPT !["alarm"] = tags[c]["alarm"] + 1]
    BY <1>0, <2>1, <2>3 DEF Typed
  <2>6. tags[c] = [x \in Kinds |-> 0]
    BY <2>3 DEF Quiet, NoTags
  <2>7. One(c, "alarm")'
    BY <2>5, <2>6 DEF One, NoTags, Kinds
  <2>8. Queued(c, "alarm")'
    BY <2>3, <2>4, <2>7 DEF Queued, Quiet, Unattended
  <2> QED
    BY <2>2, <2>3, <2>4, <2>8 DEF UnaryLife, JobHolds
<1>3. CASE EndJob(c)
  <2>1. CASE Freed(c)
    BY <1>3, <2>1, SameUnary DEF EndJob, Crash
  <2>2. CASE ~Freed(c)
    <3>1. /\ call' = [call EXCEPT ![c] = Release(k)]
          /\ job' = [job EXCEPT ![c] = "done"]
          /\ tags' = tags /\ turn' = turn
          /\ job[c] = "ending"
      BY <1>3, <2>2 DEF EndJob
    <3>2. Release(k).state = k.state /\ Release(k).refs = k.refs - 1
      BY <1>0, StateWrites, Zenon DEF Call
    <3>3. /\ call'[c] = Release(k) /\ job'[c] = "done" /\ tags'[c] = tags[c]
          /\ turn'[c] = turn[c]
      BY <1>0, <3>1 DEF Typed
    <3> QED
      BY <1>q, <3>1, <3>2, <3>3 DEF UnaryLife, JobHolds, Kinds
  <2> QED BY <2>1, <2>2
<1>4. job[c] # "yielded"
  BY DEF UnaryLife
<1> QED
  BY <1>0, <1>1, <1>2, <1>3, <1>4
     DEF Work, ProduceEvent, ServiceFails, MarkProducerComplete

(* The server's part of every other call is left alone. *)
ServerStep(c) == Poll(c) \/ (\E t \in Threads : Turn(t, c)) \/ Work(c)

LEMMA ServerStepIsLocal ==
    ASSUME Typed, NEW c \in Calls, ServerStep(c)
    PROVE  /\ kind' = kind
           /\ \A d \in Calls \ {c} : /\ call'[d] = call[d] /\ tags'[d] = tags[d]
                                     /\ turn'[d] = turn[d] /\ job'[d] = job[d]
<1>0. CASE Crash
  BY <1>0 DEF Crash
<1>1. CASE Poll(c)
  <2>1. PICK t \in Threads, tag \in Kinds, ok \in BOOLEAN : TakeTag(t, c, tag, ok)
    BY <1>1 DEF Poll
  <2>2. Crash \/ Elsewhere(c)
    BY <2>1, TakeFacts
  <2> QED
    BY <1>0, <2>2 DEF Elsewhere
<1>2. CASE \E t \in Threads : Turn(t, c)
  BY <1>0, <1>2, TurnEffect DEF Elsewhere
<1>3. CASE Work(c)
  <2>1. /\ kind' = kind /\ turn' = turn
        /\ \A d \in Calls \ {c} : call'[d] = call[d] /\ job'[d] = job[d]
    BY <1>3 DEF Work, StartJob, ExecuteRequest, ProduceEvent, ServiceFails,
                MarkProducerComplete, EndJob, EnqueueEvent, Notify, Crash, Typed
  <2>2. \A d \in Calls \ {c} : tags'[d] = tags[d]
    BY <1>3 DEF Work, StartJob, ExecuteRequest, ProduceEvent, ServiceFails,
                MarkProducerComplete, EndJob, EnqueueEvent, Notify, Crash, Typed
  <2> QED BY <2>1, <2>2
<1> QED
  BY <1>1, <1>2, <1>3 DEF ServerStep

LEMMA UnaryLivesInductive == Typed /\ UnaryLives /\ [Next]_vars => UnaryLives'
<1> SUFFICES ASSUME Typed, UnaryLives, [Next]_vars PROVE UnaryLives'
  OBVIOUS
<1>1. ASSUME NEW c \in Calls, ServerStep(c) PROVE UnaryLives'
  <2>1. Unary' = Unary
    BY <1>1, ServerStepIsLocal DEF Unary
  <2> SUFFICES ASSUME NEW d \in Unary PROVE UnaryLife(d)'
    BY <2>1 DEF UnaryLives
  <2>2. UnaryLife(d) /\ d \in Calls
    BY DEF UnaryLives, Unary
  <2>3. CASE d # c
    BY <1>1, <2>2, <2>3, ServerStepIsLocal, SameUnary
  <2>4. CASE Crash
    BY <2>2, <2>4, SameUnary DEF Crash
  <2>5. CASE d = c /\ Work(c)
    BY <2>2, <2>5, UnaryWork
  <2>6. CASE d = c /\ Poll(c) /\ ~Crash
    <3>1. PICK t \in Threads, tag \in Kinds, ok \in BOOLEAN : TakeTag(t, c, tag, ok)
      BY <2>6 DEF Poll
    <3> QED BY <2>2, <2>6, <3>1, UnaryTake
  <2>7. CASE d = c /\ (\E t \in Threads : Turn(t, c)) /\ ~Crash
    <3>1. PICK t \in Threads : Turn(t, c)
      BY <2>7
    <3>2. Effect(t, c) /\ turn[c][t] # "idle"
      BY <2>7, <3>1, TurnEffect DEF Turn
    <3> QED BY <2>2, <2>7, <3>2, UnaryTurn
  <2> QED BY <1>1, <2>3, <2>4, <2>5, <2>6, <2>7 DEF ServerStep
<1>2. CASE UNCHANGED <<kind, call, tags, turn, job>>
  <2> SUFFICES ASSUME NEW d \in Unary PROVE UnaryLife(d)'
    BY <1>2 DEF UnaryLives, Unary
  <2> QED BY <1>2, SameUnary DEF UnaryLives
<1> QED
  BY <1>1, <1>2
     DEF Next, ServerStep, PollClient, Consume, Invoke, Abandon, BreakCall, StopServer,
         ServerStopped, CompleteUnary, CompleteStart, CompleteRead,
         CompleteLastRead, CompleteFinish, WaitNext, StreamOver, vars

(* A unary call object is never freed while a tag of it is outstanding, a  *)
(* thread of the queue is in it or its job may still use it, in any order  *)
(* of completions and with any number of threads: at any time one tag or   *)
(* one thread has the call, and the server takes its reference for the job *)
(* before the job can end.                                                 *)
THEOREM UnaryCallsAreSafe == Spec => []UnaryOutlivesItsTags
<1>1. Init => UnaryLives
  <2> SUFFICES ASSUME Init, NEW c \in Unary PROVE UnaryLife(c)
    BY DEF UnaryLives
  <2>1. c \in Calls
    BY DEF Unary
  <2>2. call[c] = NewCall /\ job[c] = "none" /\ Queued(c, "request")
    BY <2>1 DEF Init, Queued, One, Unattended
  <2> QED BY <2>2 DEF UnaryLife, NewCall
<1>2. UnaryLives => UnaryOutlivesItsTags
  BY DEF UnaryLives, UnaryLife, UnaryOutlivesItsTags, Freed, JobHolds, Quiet
<1> QED
  BY <1>1, <1>2, InitTyped, NextTyped, UnaryLivesInductive, PTL DEF Spec

-----------------------------------------------------------------------------
(***************************************************************************)
(* Streams, with one thread on the queue.  An event is in one of five      *)
(* places: pending in the server's call object, taken by the thread for    *)
(* its next write, on the wire, in the client's inbox, or with the         *)
(* consumer.                                                               *)
(***************************************************************************)
OneThread == \A s, t \in Threads : s = t

Got(c) == Len(client[c].got)
Received(c) == Got(c) + Len(client[c].inbox)
Read(c) == Received(c) + Len(wire[c])

(* The events that are still the server's: the one taken for the next      *)
(* write, and those pending.                                               *)
Held(c) == \E t \in Threads : turn[c][t] \in {"mark", "write"}

Backlog(c) == IF Held(c) THEN <<call[c].current>> \o call[c].pending ELSE call[c].pending

(* The server's side: the request's tag is alone, no event exists before   *)
(* the job, the status is sent after the last event, and events are thrown *)
(* away only once the call is broken.                                      *)
ThreadSide(c, t) ==
    /\ turn[c][t] # "response"
    /\ turn[c][t] = "accept" =>
          call[c].state = "Requesting" /\ tags[c]["request"] <= 0
          /\ conn[c] # "none" /\ job[c] = "none"
    /\ turn[c][t] = "refused" => conn[c] = "broken"
    /\ turn[c][t] = "finish" =>
          call[c].complete /\ call[c].pending = <<>> /\ call[c].state = "Finishing"
    /\ call[c].state = "Requesting" => turn[c][t] \in {"idle", "accept", "release"}
    /\ conn[c] = "none" => turn[c][t] \in {"idle", "release"}
    /\ conn[c] = "ok" => turn[c][t] \in {"idle", "complete", "release"}
    /\ tags[c]["request"] > 0 => turn[c][t] = "idle"

ServerSide(c) ==
    /\ tags[c]["request"] \in {0, 1}
    /\ tags[c]["request"] > 0 => call[c].state = "Requesting"
    /\ call[c].state = "Requesting" =>
          job[c] = "none" /\ \A tag \in Kinds : tags[c][tag] > 0 => tag = "request"
    /\ conn[c] = "none" => call[c].state = "Requesting"
    /\ job[c] = "none" => yielded[c] = 0 /\ call[c].pending = <<>>
    /\ call[c].complete <=> job[c] \in {"ending", "done"}
    /\ call[c].clientClosed => conn[c] = "broken"
    /\ conn[c] = "ok" =>
          /\ call[c].complete /\ call[c].pending = <<>>
          /\ call[c].state \in {"Finishing", "Completed"}
    /\ \A t \in Threads : ThreadSide(c, t)

(* The client's side: how a stream comes to be closed. *)
Clean(c) ==
    /\ \A i \in 1..Got(c) : client[c].got[i] # TransportError
    /\ \A i \in 1..Len(client[c].inbox) : client[c].inbox[i] # TransportError

ClientSide(c) ==
    /\ client[c].state = "idle" <=> conn[c] = "none"
    /\ client[c].state = "idle" => Read(c) = 0
    /\ client[c].closed <=> client[c].state = "Completed"
    /\ client[c].cancelled => client[c].over = "abandoned"
    /\ client[c].state = "Finishing" =>
          conn[c] = "broken" \/ (conn[c] = "ok" /\ wire[c] = <<>>)
    /\ client[c].closed /\ client[c].over = "no" /\ Clean(c) =>
          conn[c] = "ok" /\ Received(c) = yielded[c]

(* The flow: wherever an event is, its number says what came before it. A  *)
(* transport error is the last thing a client is given.                    *)
FlowOf(got, inbox, w, pending, y, closed, broken) ==
    LET g == Len(got)
        received == g + Len(inbox)
        read == received + Len(w)
    IN  /\ \A i \in 1..g :
              \/ got[i] = i /\ i <= y
              \/ got[i] = TransportError /\ i = received /\ closed
        /\ \A i \in 1..Len(inbox) :
              \/ inbox[i] = g + i /\ g + i <= y
              \/ inbox[i] = TransportError /\ g + i = received /\ closed
        /\ ~closed => read <= y /\ \A i \in 1..Len(w) : w[i] = received + i
        /\ ~closed /\ ~broken =>
              /\ read + Len(pending) = y
              /\ \A i \in 1..Len(pending) : pending[i] = read + i

Flow(c) ==
    FlowOf(client[c].got, client[c].inbox, wire[c], Backlog(c), yielded[c],
           client[c].closed, conn[c] = "broken")

StreamLife(c) == ServerSide(c) /\ ClientSide(c) /\ Flow(c)

StreamInv == \A c \in Streams : StreamLife(c)

(* A sequence with one more element in front. *)
LEMMA Taken1 ==
    ASSUME NEW x \in Nat, NEW p \in Seq(Nat)
    PROVE  /\ <<x>> \o p \in Seq(Nat) /\ <<x>> \o p # <<>>
           /\ Head(<<x>> \o p) = x /\ Tail(<<x>> \o p) = p
           /\ \A e \in Nat : Append(<<x>> \o p, e) = <<x>> \o Append(p, e)
           /\ p # <<>> => <<Head(p)>> \o Tail(p) = p
<1>1. /\ <<x>> \o p \in Seq(Nat) /\ <<x>> \o p # <<>>
      /\ Head(<<x>> \o p) = x
  OBVIOUS
<1>2. Tail(<<x>> \o p) = p
  OBVIOUS
<1>3. \A e \in Nat : Append(<<x>> \o p, e) = <<x>> \o Append(p, e)
  OBVIOUS
<1>4. p # <<>> => <<Head(p)>> \o Tail(p) = p
  OBVIOUS
<1> QED BY <1>1, <1>2, <1>3, <1>4

(* The sequences of a call and the lengths the flow counts. *)
LEMMA StreamTypes ==
    ASSUME Typed, NEW c \in Calls
    PROVE  /\ client[c].got \in Seq(Nat) /\ client[c].inbox \in Seq(Nat)
           /\ wire[c] \in Seq(Nat) /\ call[c].pending \in Seq(Nat)
           /\ call[c].current \in Nat /\ Backlog(c) \in Seq(Nat)
           /\ Got(c) \in Nat /\ Received(c) \in Nat /\ Read(c) \in Nat
           /\ yielded[c] \in Nat
<1>1. /\ client[c].got \in Seq(Nat) /\ client[c].inbox \in Seq(Nat)
      /\ wire[c] \in Seq(Nat) /\ call[c].pending \in Seq(Nat)
      /\ call[c].current \in Nat /\ yielded[c] \in Nat
  BY GrpcAssumption DEF Typed, ClientObjects, CallObjects
<1>2. Len(client[c].got) \in Nat /\ Len(client[c].inbox) \in Nat /\ Len(wire[c]) \in Nat
  BY <1>1, LenProperties
<1>3. \A x, y \in Nat : x + y \in Nat
  OBVIOUS
<1>4. Backlog(c) \in Seq(Nat)
  BY <1>1, Taken1 DEF Backlog
<1> QED
  BY <1>1, <1>2, <1>3, <1>4, Zenon DEF Got, Received, Read

(***************************************************************************)
(* What each operation makes of the flow: a write, a broken call, a new    *)
(* event, a read, a transport error, the end, and what the consumer takes. *)
(***************************************************************************)
LEMMA FlowWrite ==
    ASSUME NEW got \in Seq(Nat), NEW inbox \in Seq(Nat), NEW w \in Seq(Nat),
           NEW p \in Seq(Nat), NEW y \in Nat, NEW closed \in BOOLEAN,
           NEW broken \in BOOLEAN, ~broken, p # <<>>,
           FlowOf(got, inbox, w, p, y, closed, broken)
    PROVE  FlowOf(got, inbox, Append(w, Head(p)), Tail(p), y, closed, broken)
<1> DEFINE r == Len(got) + Len(inbox)
           v == Append(w, Head(p))
           q == Tail(p)
           m == Len(w)
           n == Len(p)
<1>1. r \in Nat /\ m \in Nat /\ n \in Nat /\ n > 0
  OBVIOUS
<1>2. Len(v) = m + 1 /\ Len(q) = n - 1
  OBVIOUS
<1>3. (\A i \in 1..m : v[i] = w[i]) /\ v[m + 1] = p[1]
  OBVIOUS
<1>4. \A i \in 1..Len(q) : q[i] = p[i + 1]
  OBVIOUS
<1>5. ASSUME ~closed
      PROVE  /\ \A i \in 1..m : w[i] = r + i
             /\ r + m + n = y
             /\ \A i \in 1..n : p[i] = r + m + i
  BY <1>5 DEF FlowOf
<1> HIDE DEF r, v, q, m, n
<1>6. ASSUME ~closed
      PROVE  /\ r + Len(v) <= y
             /\ r + Len(v) + Len(q) = y
  BY <1>1, <1>2, <1>5, <1>6
<1>7. ASSUME ~closed, NEW i \in 1..Len(v)
      PROVE  v[i] = r + i
  <2>1. i \in Int /\ (i \in 1..m \/ i = m + 1)
    BY <1>1, <1>2
  <2>2. p[1] = r + m + 1
    BY <1>1, <1>5, <1>7
  <2>3. r + m + 1 = r + (m + 1)
    BY <1>1
  <2> QED BY <1>3, <1>5, <1>7, <2>1, <2>2, <2>3
<1>8. ASSUME ~closed, NEW i \in 1..Len(q)
      PROVE  q[i] = r + Len(v) + i
  <2>1. i + 1 \in 1..n /\ r + m + (i + 1) = r + Len(v) + i
    BY <1>1, <1>2
  <2> QED BY <1>4, <1>5, <1>8, <2>1
<1> QED
  BY <1>6, <1>7, <1>8 DEF FlowOf, r, v, q

LEMMA FlowBreaks ==
    ASSUME NEW got, NEW inbox, NEW w, NEW p, NEW q, NEW y, NEW closed, NEW broken,
           FlowOf(got, inbox, w, p, y, closed, broken)
    PROVE  FlowOf(got, inbox, w, q, y, closed, TRUE)
BY DEF FlowOf

LEMMA FlowYields ==
    ASSUME NEW got \in Seq(Nat), NEW inbox \in Seq(Nat), NEW w \in Seq(Nat),
           NEW p \in Seq(Nat), NEW y \in Nat, NEW closed \in BOOLEAN,
           NEW broken \in BOOLEAN,
           FlowOf(got, inbox, w, p, y, closed, broken)
    PROVE  FlowOf(got, inbox, w, Append(p, y + 1), y + 1, closed, broken)
<1> DEFINE g == Len(got)
           r == Len(got) + Len(inbox)
           q == Append(p, y + 1)
           m == Len(w)
           n == Len(p)
<1>1. g \in Nat /\ r \in Nat /\ m \in Nat /\ n \in Nat /\ Len(inbox) \in Nat
  OBVIOUS
<1>2. Len(q) = n + 1 /\ (\A i \in 1..n : q[i] = p[i]) /\ q[n + 1] = y + 1
  OBVIOUS
<1>3. /\ \A i \in 1..g : \/ got[i] = i /\ i <= y
                         \/ got[i] = TransportError /\ i = r /\ closed
      /\ \A i \in 1..Len(inbox) : \/ inbox[i] = g + i /\ g + i <= y
                                  \/ inbox[i] = TransportError /\ g + i = r /\ closed
  BY DEF FlowOf
<1>4. ~closed => r + m <= y /\ \A i \in 1..m : w[i] = r + i
  BY DEF FlowOf
<1>5. ~closed /\ ~broken => r + m + n = y /\ \A i \in 1..n : p[i] = r + m + i
  BY DEF FlowOf
<1> HIDE DEF g, r, q, m, n
<1>6. /\ \A i \in 1..g : \/ got[i] = i /\ i <= y + 1
                         \/ got[i] = TransportError /\ i = r /\ closed
      /\ \A i \in 1..Len(inbox) : \/ inbox[i] = g + i /\ g + i <= y + 1
                                  \/ inbox[i] = TransportError /\ g + i = r /\ closed
  BY <1>1, <1>3
<1>7. ~closed => r + m <= y + 1
  BY <1>1, <1>4
<1>8. ~closed /\ ~broken => r + m + Len(q) = y + 1
  BY <1>1, <1>2, <1>5
<1>9. ASSUME ~closed, ~broken, NEW i \in 1..Len(q)
      PROVE  q[i] = r + m + i
  <2>1. i \in 1..n \/ i = n + 1
    BY <1>1, <1>2
  <2>2. r + m + (n + 1) = y + 1
    BY <1>1, <1>5, <1>9
  <2> QED BY <1>2, <1>5, <1>9, <2>1, <2>2
<1> QED
  BY <1>4, <1>6, <1>7, <1>8, <1>9 DEF FlowOf, g, r, q, m

LEMMA FlowRead ==
    ASSUME NEW got \in Seq(Nat), NEW inbox \in Seq(Nat), NEW w \in Seq(Nat),
           NEW p \in Seq(Nat), NEW y \in Nat, NEW broken \in BOOLEAN, w # <<>>,
           FlowOf(got, inbox, w, p, y, FALSE, broken)
    PROVE  FlowOf(got, Append(inbox, Head(w)), Tail(w), p, y, FALSE, broken)
<1> DEFINE g == Len(got)
           n == Len(inbox)
           b == Append(inbox, Head(w))
           v == Tail(w)
<1>1. /\ g \in Nat /\ n \in Nat /\ Len(w) \in Nat /\ Len(w) > 0 /\ Len(p) \in Nat
      /\ Len(b) = n + 1 /\ Len(v) = Len(w) - 1 /\ b[n + 1] = w[1]
      /\ \A i \in 1..n : b[i] = inbox[i]
      /\ \A i \in 1..Len(v) : v[i] = w[i + 1]
  OBVIOUS
<1>2. /\ \A i \in 1..g : got[i] = i /\ i <= y
      /\ \A i \in 1..n : inbox[i] = g + i /\ g + i <= y
      /\ g + n + Len(w) <= y /\ \A i \in 1..Len(w) : w[i] = g + n + i
      /\ ~broken => /\ g + n + Len(w) + Len(p) = y
                    /\ \A i \in 1..Len(p) : p[i] = g + n + Len(w) + i
  BY DEF FlowOf
<1> HIDE DEF g, n, b, v
<1>3. ASSUME NEW i \in 1..Len(b) PROVE b[i] = g + i /\ g + i <= y
  <2>1. i \in 1..n \/ i = n + 1
    BY <1>1
  <2>2. w[1] = g + n + 1 /\ g + n + 1 <= y
    BY <1>1, <1>2
  <2> QED BY <1>1, <1>2, <2>1, <2>2
<1>4. g + Len(b) + Len(v) = g + n + Len(w)
  BY <1>1
<1>5. \A i \in 1..Len(v) : v[i] = g + Len(b) + i
  BY <1>1, <1>2
<1> QED
  BY <1>2, <1>3, <1>4, <1>5 DEF FlowOf, g, b, v

LEMMA FlowError ==
    ASSUME NEW got \in Seq(Nat), NEW inbox \in Seq(Nat), NEW w \in Seq(Nat),
           NEW p \in Seq(Nat), NEW y \in Nat, NEW broken \in BOOLEAN,
           FlowOf(got, inbox, w, p, y, FALSE, broken)
    PROVE  FlowOf(got, Append(inbox, TransportError), w, p, y, TRUE, broken)
<1> DEFINE g == Len(got)
           n == Len(inbox)
           b == Append(inbox, TransportError)
<1>1. /\ g \in Nat /\ n \in Nat /\ Len(b) = n + 1 /\ b[n + 1] = TransportError
      /\ \A i \in 1..n : b[i] = inbox[i]
  BY DEF TransportError
<1>2. /\ \A i \in 1..g : got[i] = i /\ i <= y
      /\ \A i \in 1..n : inbox[i] = g + i /\ g + i <= y
  BY DEF FlowOf
<1> HIDE DEF g, n, b
<1>3. ASSUME NEW i \in 1..Len(b)
      PROVE  \/ b[i] = g + i /\ g + i <= y
             \/ b[i] = TransportError /\ g + i = g + Len(b)
  <2>1. i \in 1..n \/ i = n + 1
    BY <1>1
  <2> QED BY <1>1, <1>2, <2>1
<1> QED
  BY <1>2, <1>3 DEF FlowOf, g, b

LEMMA FlowClose ==
    ASSUME NEW got, NEW inbox, NEW w, NEW p, NEW y, NEW closed, NEW broken,
           FlowOf(got, inbox, w, p, y, closed, broken)
    PROVE  FlowOf(got, inbox, w, p, y, TRUE, broken)
BY DEF FlowOf

LEMMA FlowTake ==
    ASSUME NEW got \in Seq(Nat), NEW inbox \in Seq(Nat), NEW w \in Seq(Nat),
           NEW p \in Seq(Nat), NEW y \in Nat, NEW closed \in BOOLEAN,
           NEW broken \in BOOLEAN, inbox # <<>>,
           FlowOf(got, inbox, w, p, y, closed, broken)
    PROVE  FlowOf(Append(got, Head(inbox)), Tail(inbox), w, p, y, closed, broken)
<1> DEFINE g == Len(got)
           n == Len(inbox)
           h == Append(got, Head(inbox))
           b == Tail(inbox)
<1>1. /\ g \in Nat /\ n \in Nat /\ n > 0 /\ Len(h) \in Nat /\ Len(b) \in Nat
      /\ Len(h) = g + 1 /\ h[g + 1] = inbox[1]
      /\ \A i \in 1..g : h[i] = got[i]
      /\ Len(b) = n - 1
      /\ \A i \in 1..Len(b) : b[i] = inbox[i + 1]
  OBVIOUS
<1>2. /\ \A i \in 1..g : \/ got[i] = i /\ i <= y
                         \/ got[i] = TransportError /\ i = g + n /\ closed
      /\ \A i \in 1..n : \/ inbox[i] = g + i /\ g + i <= y
                         \/ inbox[i] = TransportError /\ g + i = g + n /\ closed
      /\ ~closed => g + n + Len(w) <= y /\ \A i \in 1..Len(w) : w[i] = g + n + i
      /\ ~closed /\ ~broken => /\ g + n + Len(w) + Len(p) = y
                               /\ \A i \in 1..Len(p) : p[i] = g + n + Len(w) + i
  BY DEF FlowOf
<1> HIDE DEF g, n, h, b
<1>3. Len(h) + Len(b) = g + n
  BY <1>1
<1>4. ASSUME NEW i \in 1..Len(h)
      PROVE  \/ h[i] = i /\ i <= y
             \/ h[i] = TransportError /\ i = g + n /\ closed
  <2>1. i \in 1..g \/ i = g + 1
    BY <1>1
  <2>2. \/ inbox[1] = g + 1 /\ g + 1 <= y
        \/ inbox[1] = TransportError /\ g + 1 = g + n /\ closed
    BY <1>1, <1>2
  <2>3. CASE i \in 1..g
    BY <1>1, <1>2, <2>3
  <2>4. CASE i = g + 1
    BY <1>1, <2>2, <2>4
  <2> QED BY <2>1, <2>3, <2>4
<1>5. \A i \in 1..Len(b) : \/ b[i] = Len(h) + i /\ Len(h) + i <= y
                           \/ b[i] = TransportError /\ Len(h) + i = g + n /\ closed
  <2> SUFFICES ASSUME NEW i \in 1..Len(b)
               PROVE  \/ b[i] = Len(h) + i /\ Len(h) + i <= y
                      \/ b[i] = TransportError /\ Len(h) + i = g + n /\ closed
    OBVIOUS
  <2>1. i + 1 \in 1..n /\ b[i] = inbox[i + 1] /\ Len(h) + i = g + (i + 1)
    BY <1>1
  <2> QED BY <1>2, <2>1
<1> QED
  BY <1>2, <1>3, <1>4, <1>5 DEF FlowOf, h, b

(* A step of something else leaves a call alone, or breaks its connection. *)
Steady(c) ==
    /\ call'[c] = call[c] /\ tags'[c] = tags[c] /\ turn'[c] = turn[c] /\ job'[c] = job[c]
    /\ yielded'[c] = yielded[c] /\ wire'[c] = wire[c] /\ client'[c] = client[c]
    /\ conn'[c] = conn[c] \/ (conn[c] = "open" /\ conn'[c] = "broken")

LEMMA SameBacklog ==
    ASSUME NEW c, call'[c] = call[c], turn'[c] = turn[c]
    PROVE  Backlog(c)' = Backlog(c)
BY DEF Backlog, Held

(* The server's side sees of the client only the connection. *)
LEMMA SameServer ==
    ASSUME NEW c, ServerSide(c), call'[c] = call[c], tags'[c] = tags[c], turn'[c] = turn[c],
           job'[c] = job[c], yielded'[c] = yielded[c],
           \/ conn'[c] = conn[c]
           \/ conn[c] = "open" /\ conn'[c] = "broken"
           \/ conn[c] = "none" /\ conn'[c] \in {"open", "broken"}
    PROVE  ServerSide(c)'
<1>1. ASSUME NEW t \in Threads PROVE ThreadSide(c, t)'
  BY DEF ServerSide, ThreadSide
<1> QED
  BY <1>1 DEF ServerSide

LEMMA SteadyStream ==
    ASSUME NEW c, StreamLife(c), Steady(c)
    PROVE  StreamLife(c)'
<1>1. ServerSide(c)'
  BY SameServer DEF StreamLife, Steady
<1>2. ClientSide(c)'
  BY DEF StreamLife, Steady, ClientSide, Clean, Read, Received, Got
<1>3. Flow(c)'
  <2>1. (conn'[c] = "broken") = (conn[c] = "broken") \/ (conn'[c] = "broken") = TRUE
    BY DEF Steady
  <2>2. Backlog(c)' = Backlog(c)
    BY SameBacklog DEF Steady
  <2> QED
    BY <2>1, <2>2, FlowBreaks DEF StreamLife, Steady, Flow
<1> QED
  BY <1>1, <1>2, <1>3 DEF StreamLife

(* A thread takes a tag of a stream. *)
LEMMA StreamTake ==
    ASSUME Typed, NEW c \in Calls, c \notin Unary, StreamLife(c), NEW t \in Threads,
           NEW tag \in Kinds, NEW ok \in BOOLEAN, TakeTag(t, c, tag, ok), ~Crash
    PROVE  StreamLife(c)'
<1>0. call[c] \in CallObjects /\ turn[c] \in [Threads -> Points] /\ tags[c] \in [Kinds -> Int]
  BY DEF Typed
<1>a. PICK at \in Points : at = Proceed(c, ok)
  BY <1>0, ProceedByState
<1>1. /\ tags[c][tag] > 0 /\ ComesBack(c, tag, ok)
      /\ Moves(t, c, "idle", at)
      /\ tags'[c] = [tags[c] EXCEPT ![tag] = @ - 1]
      /\ call'[c] = call[c]
      /\ job'[c] = job[c] /\ conn'[c] = conn[c] /\ wire'[c] = wire[c]
      /\ client'[c] = client[c] /\ yielded'[c] = yielded[c]
  BY <1>a, TakeFacts DEF Elsewhere
<1>2. turn'[c][t] = at /\ \A u \in Threads \ {t} : turn'[c][u] = turn[c][u]
  BY <1>0, <1>1 DEF Moves
<1>3. /\ at \in {"accept", "release", "complete", "notification", "written", "refused"}
      /\ at = "accept" => call[c].state = "Requesting" /\ ok
      /\ at = "refused" => call[c].state = "Writing" /\ ~ok
      /\ call[c].state = "Requesting" => at \in {"accept", "release"} /\ (at = "accept" => ok)
      /\ call[c].state \in {"Finishing", "Completed"} => at \in {"complete", "release"}
  <2>1. call[c].state \in CallStates
    BY <1>0 DEF CallObjects
  <2> QED BY <1>0, <1>a, <2>1, ProceedByState DEF CallStates
<1>4. "request" \in Kinds /\ tags[c]["request"] \in Int
  BY <1>0 DEF Kinds
<1>5. /\ tag = "request" => tags'[c]["request"] = 0
      /\ tag # "request" => tags'[c]["request"] = tags[c]["request"]
      /\ \A x \in Kinds : tags'[c][x] > 0 => tags[c][x] > 0
  BY <1>0, <1>1, <1>4 DEF StreamLife, ServerSide
<1>6. /\ call[c].state = "Requesting" => tag = "request"
      /\ conn[c] = "none" => call[c].state = "Requesting"
      /\ tag = "request" => call[c].state = "Requesting"
  BY <1>1 DEF StreamLife, ServerSide
<1>7. /\ at = "accept" => conn[c] = "open" /\ tag = "request"
      /\ at = "refused" => conn[c] = "broken"
  <2>1. at = "accept" => conn[c] = "open" /\ tag = "request"
    BY <1>1, <1>3, <1>6, ComesBackByTag
  <2>2. ASSUME at = "refused" PROVE conn[c] = "broken"
    <3>1. tag # "request" /\ tag # "alarm" /\ conn[c] \in {"ok", "broken"}
      BY <1>1, <1>3, <1>6, <2>2, ComesBackByTag DEF Kinds
    <3>2. conn[c] # "ok"
      BY <1>3, <2>2 DEF StreamLife, ServerSide
    <3> QED BY <3>1, <3>2
  <2> QED BY <2>1, <2>2
<1>8. ThreadSide(c, t)'
  <2>1. conn[c] = "ok" => call[c].state \in {"Finishing", "Completed"}
    BY DEF StreamLife, ServerSide
  <2>2. call[c].state = "Requesting" => job[c] = "none"
    BY DEF StreamLife, ServerSide
  <2>3. tags'[c]["request"] <= 0
    BY <1>3, <1>5, <1>6 DEF StreamLife, ServerSide
  <2>4. tags'[c]["request"] \in Int /\ ~(tags'[c]["request"] > 0)
    BY <1>4, <1>5, <2>3
  <2>5. /\ at # "response" /\ at # "finish" /\ at # "idle"
        /\ conn[c] = "none" => at \in {"idle", "release"}
        /\ conn[c] = "ok" => at \in {"idle", "complete", "release"}
    BY <1>3, <1>6, <1>7, <2>1
  <2>6. /\ turn'[c][t] = at /\ call'[c] = call[c] /\ conn'[c] = conn[c] /\ job'[c] = job[c]
    BY <1>1, <1>2
  <2>7. at = "accept" => call[c].state = "Requesting" /\ conn[c] # "none" /\ job[c] = "none"
    BY <1>3, <1>7, <2>2
  <2> QED BY <1>3, <1>7, <2>3, <2>4, <2>5, <2>6, <2>7, Zenon DEF ThreadSide
<1>9. ASSUME NEW u \in Threads, u # t PROVE ThreadSide(c, u)'
  <2>1. ThreadSide(c, u) /\ turn'[c][u] = turn[c][u]
    BY <1>2, <1>9 DEF StreamLife, ServerSide
  <2>2. tags'[c]["request"] > 0 => tags[c]["request"] > 0
    BY <1>4, <1>5
  <2>3. tags[c]["request"] <= 0 => tags'[c]["request"] <= 0
    BY <1>4, <1>5
  <2> QED BY <1>1, <2>1, <2>2, <2>3 DEF ThreadSide
<1>10. ServerSide(c)'
  <2>1. /\ tags'[c]["request"] \in {0, 1}
        /\ tags'[c]["request"] > 0 => tags[c]["request"] > 0
    BY <1>4, <1>5 DEF StreamLife, ServerSide
  <2>2. \A u \in Threads : ThreadSide(c, u)'
    BY <1>8, <1>9
  <2> QED BY <1>1, <1>5, <2>1, <2>2 DEF StreamLife, ServerSide
<1>11. ClientSide(c)'
  BY <1>1 DEF StreamLife, ClientSide, Clean, Read, Received, Got
<1>12. Held(c)' <=> Held(c)
  BY <1>1, <1>2, <1>3 DEF Held, Moves
<1>13. Backlog(c)' = Backlog(c)
  BY <1>1, <1>12 DEF Backlog
<1> QED
  BY <1>1, <1>10, <1>11, <1>13 DEF StreamLife, Flow

(* A step of the thread's turn leaves the client's side alone. *)
LEMMA TurnOnClient ==
    ASSUME NEW c, ClientSide(c), client'[c] = client[c], yielded'[c] = yielded[c],
           conn'[c] = conn[c] \/ (conn[c] = "open" /\ conn'[c] = "ok"),
           wire'[c] = wire[c] \/ conn[c] = "open"
    PROVE  ClientSide(c)'
BY DEF ClientSide, Clean, Read, Received, Got

(* A step of a turn in which no event leaves the server. *)
LEMMA TurnKeepsFlow ==
    ASSUME NEW c, ClientSide(c), Flow(c), client'[c] = client[c], yielded'[c] = yielded[c],
           conn'[c] = conn[c] \/ (conn[c] = "open" /\ conn'[c] = "ok"), wire'[c] = wire[c],
           Backlog(c)' = Backlog(c) \/ conn[c] = "broken"
    PROVE  ClientSide(c)' /\ Flow(c)'
<1>1. ClientSide(c)'
  BY TurnOnClient
<1>2. (conn'[c] = "broken") = (conn[c] = "broken")
  OBVIOUS
<1>3. CASE Backlog(c)' = Backlog(c)
  <2>1. PICK b \in BOOLEAN : b = (conn[c] = "broken")
    OBVIOUS
  <2>2. FlowOf(client[c].got, client[c].inbox, wire[c], Backlog(c), yielded[c],
               client[c].closed, b)
    BY <2>1 DEF Flow
  <2>3. b = (conn'[c] = "broken")
    BY <1>2, <2>1
  <2> QED BY <1>1, <1>3, <2>2, <2>3, Zenon DEF Flow
<1>4. CASE conn[c] = "broken"
  <2>1. FlowOf(client[c].got, client[c].inbox, wire[c], Backlog(c)', yielded[c],
               client[c].closed, TRUE)
    BY FlowBreaks DEF Flow
  <2>2. (conn'[c] = "broken") = TRUE
    BY <1>2, <1>4
  <2> QED BY <1>1, <2>1, <2>2, Zenon DEF Flow
<1> QED
  BY <1>1, <1>3, <1>4

(* With one thread, what it is at is all there is to say of the queue. *)
LEMMA OneServerSide ==
    ASSUME OneThread, NEW c, NEW t \in Threads,
           (tags[c]["request"] \in {0, 1})',
           (tags[c]["request"] > 0 => call[c].state = "Requesting")',
           (call[c].state = "Requesting" => job[c] = "none")',
           (call[c].state = "Requesting" => \A tag \in Kinds : tags[c][tag] > 0 => tag = "request")',
           (conn[c] = "none" => call[c].state = "Requesting")',
           (job[c] = "none" => yielded[c] = 0 /\ call[c].pending = <<>>)',
           (call[c].complete <=> job[c] \in {"ending", "done"})',
           (call[c].clientClosed => conn[c] = "broken")',
           (conn[c] = "ok" => /\ call[c].complete /\ call[c].pending = <<>>
                              /\ call[c].state \in {"Finishing", "Completed"})',
           ThreadSide(c, t)'
    PROVE  ServerSide(c)'
<1>1. ASSUME NEW u \in Threads PROVE ThreadSide(c, u)'
  <2>1. u = t
    BY DEF OneThread
  <2> QED BY <2>1, Zenon
<1> QED BY <1>1, Zenon DEF ServerSide

(* A step of a turn keeps the server's side. *)
LEMMA TurnServerSide ==
    ASSUME Typed, OneThread, NEW c \in Calls, ServerSide(c), NEW t \in Threads,
           Effect(t, c), yielded'[c] = yielded[c]
    PROVE  ServerSide(c)'
<1> DEFINE k == call[c]
           j == call'[c]
<1>0. /\ turn[c] \in [Threads -> Points] /\ tags[c] \in [Kinds -> Int]
      /\ {"request", "write", "finish"} \subseteq Kinds
      /\ tags[c]["request"] \in Int
  BY DEF Typed, Kinds
<1>1. ASSUME NEW from, NEW to, Moves(t, c, from, to)
      PROVE  turn[c][t] = from /\ turn'[c][t] = to
  BY <1>0, <1>1 DEF Moves
<1>2. ThreadSide(c, t)
  BY DEF ServerSide
<1>3. ASSUME turn[c][t] \notin {"idle", "accept", "release"}
      PROVE  /\ k.state # "Requesting" /\ tags[c]["request"] = 0 /\ conn[c] # "none"
             /\ ~(tags[c]["request"] > 0)
  BY <1>2, <1>3 DEF ThreadSide, ServerSide
<1>4. /\ k.complete <=> job[c] \in {"ending", "done"}
      /\ k.clientClosed => conn[c] = "broken"
      /\ job[c] = "none" => yielded[c] = 0 /\ k.pending = <<>>
      /\ conn[c] = "ok" => /\ k.complete /\ k.pending = <<>>
                           /\ k.state \in {"Finishing", "Completed"}
      /\ conn[c] = "none" => k.state = "Requesting"
      /\ tags[c]["request"] \in {0, 1}
      /\ tags[c]["request"] > 0 => k.state = "Requesting"
      /\ k.state = "Requesting" => job[c] = "none"
      /\ k.state = "Requesting" => \A tag \in Kinds : tags[c][tag] > 0 => tag = "request"
  BY DEF ServerSide
(* A step inside the turn, of a call that is past its request. *)
<1>5. ASSUME NEW from, NEW to, Moves(t, c, from, to), from \notin {"idle", "accept", "release"},
             to \notin {"accept", "response", "refused"},
             job'[c] = job[c], conn'[c] \in {conn[c], "ok"}, conn'[c] = "ok" => conn[c] # "broken",
             tags'[c]["request"] = tags[c]["request"],
             j.complete = k.complete, j.state # "Requesting",
             j.clientClosed => conn'[c] = "broken",
             j.pending # <<>> => k.pending # <<>>,
             to = "finish" => k.complete /\ j.pending = <<>> /\ j.state = "Finishing",
             conn'[c] = "ok" => /\ to \in {"idle", "complete"} /\ k.complete /\ j.pending = <<>>
                                /\ j.state \in {"Finishing", "Completed"}
      PROVE  ServerSide(c)'
  <2>1. turn[c][t] = from /\ turn'[c][t] = to
    BY <1>1, <1>5
  <2>2. /\ tags[c]["request"] = 0 /\ conn[c] # "none" /\ ~(tags[c]["request"] > 0)
    BY <1>3, <1>5, <2>1
  <2>3. conn'[c] # "none" /\ tags'[c]["request"] = 0 /\ ~(tags'[c]["request"] > 0)
    BY <1>5, <2>2
  <2>4. ThreadSide(c, t)'
    BY <1>5, <2>1, <2>3, Zenon DEF ThreadSide
  <2> QED BY <1>4, <1>5, <2>3, <2>4, OneServerSide
<1>c. ASSUME conn[c] = "ok" PROVE turn[c][t] \in {"idle", "complete", "release"}
  BY <1>2, <1>c DEF ThreadSide
<1>6. CASE /\ Moves(t, c, "accept", "idle") /\ job'[c] = "queued"
           /\ tags'[c] = tags[c] /\ conn'[c] = conn[c] /\ wire'[c] = wire[c]
           /\ Became(c, "Waiting", k.refs + 1, k.pending, k.current, k.clientClosed, k.notified)
  <2>1. /\ k.state = "Requesting" /\ conn[c] # "none" /\ job[c] = "none"
        /\ tags'[c]["request"] = 0 /\ ~(tags'[c]["request"] > 0) /\ conn[c] # "ok"
    BY <1>0, <1>1, <1>2, <1>4, <1>6 DEF ThreadSide
  <2>2. j.state = "Waiting" /\ j.complete = k.complete /\ j.pending = k.pending
        /\ j.clientClosed = k.clientClosed
    BY <1>6 DEF Became, Call
  <2>3. turn'[c][t] = "idle"
    BY <1>1, <1>6
  <2>4. ThreadSide(c, t)'
    BY <1>6, <2>1, <2>2, <2>3 DEF ThreadSide
  <2> QED BY <1>4, <1>6, <2>1, <2>2, <2>4, OneServerSide
<1>7. CASE /\ Moves(t, c, "release", "idle") /\ Inner(c)
           /\ Became(c, k.state, k.refs - 1, k.pending, k.current, k.clientClosed, k.notified)
  <2>2. j.state = k.state /\ j.complete = k.complete /\ j.pending = k.pending
        /\ j.clientClosed = k.clientClosed
    BY <1>7 DEF Became, Call
  <2>3. /\ turn'[c][t] = "idle" /\ job'[c] = job[c] /\ tags'[c] = tags[c]
        /\ conn'[c] = conn[c]
    BY <1>1, <1>7 DEF Inner
  <2>4. ThreadSide(c, t)'
    BY <2>3 DEF ThreadSide
  <2> QED BY <1>4, <2>2, <2>3, <2>4, OneServerSide
<1>8. CASE /\ Moves(t, c, "complete", "idle") /\ Inner(c)
           /\ Became(c, "Completed", k.refs - 1, k.pending, k.current, k.clientClosed, k.notified)
  <2>1. j.state = "Completed" /\ j.complete = k.complete /\ j.pending = k.pending
        /\ j.clientClosed = k.clientClosed
    BY <1>8 DEF Became, Call
  <2> QED BY <1>4, <1>5, <1>8, <2>1 DEF Inner
<1>9. CASE turn[c][t] = "response"
  BY <1>2, <1>9 DEF ThreadSide
<1>10. CASE \E from \in {"notification", "written"}, to \in {"write", "mark"}, n \in BOOLEAN,
               s \in {"Writing", k.state} :
            /\ Moves(t, c, from, to) /\ Inner(c) /\ k.pending # <<>>
            /\ Became(c, s, k.refs, Tail(k.pending), Head(k.pending), k.clientClosed, n)
  <2>1. PICK from \in {"notification", "written"}, to \in {"write", "mark"}, n \in BOOLEAN,
             s \in {"Writing", k.state} :
            /\ Moves(t, c, from, to) /\ Inner(c) /\ k.pending # <<>>
            /\ Became(c, s, k.refs, Tail(k.pending), Head(k.pending), k.clientClosed, n)
    BY <1>10
  <2>2. j.state = s /\ j.complete = k.complete /\ j.clientClosed = k.clientClosed
    BY <2>1 DEF Became, Call
  <2>3. turn[c][t] = from /\ conn[c] # "ok" /\ k.state # "Requesting"
    BY <1>1, <1>3, <1>c, <2>1
  <2> QED BY <1>4, <1>5, <2>1, <2>2, <2>3 DEF Inner
<1>11. CASE \E from \in {"notification", "written"}, n \in BOOLEAN :
            /\ Moves(t, c, from, "finish") /\ Inner(c) /\ k.pending = <<>> /\ k.complete
            /\ Became(c, "Finishing", k.refs, k.pending, k.current, k.clientClosed, n)
  <2>1. PICK from \in {"notification", "written"}, n \in BOOLEAN :
            /\ Moves(t, c, from, "finish") /\ Inner(c) /\ k.pending = <<>> /\ k.complete
            /\ Became(c, "Finishing", k.refs, k.pending, k.current, k.clientClosed, n)
    BY <1>11
  <2>2. j.state = "Finishing" /\ j.complete = k.complete /\ j.clientClosed = k.clientClosed
        /\ j.pending = k.pending
    BY <2>1 DEF Became, Call
  <2>3. turn[c][t] = from /\ conn[c] # "ok"
    BY <1>1, <1>c, <2>1
  <2> QED BY <1>4, <1>5, <2>1, <2>2, <2>3 DEF Inner
<1>12. CASE \E from \in {"notification", "written", "mark"}, to \in {"idle", "write"},
               n \in BOOLEAN, s \in {"Waiting", "Writing", k.state} :
            /\ Moves(t, c, from, to) /\ Inner(c)
            /\ Became(c, s, k.refs, k.pending, k.current, k.clientClosed, n)
  <2>1. PICK from \in {"notification", "written", "mark"}, to \in {"idle", "write"},
             n \in BOOLEAN, s \in {"Waiting", "Writing", k.state} :
            /\ Moves(t, c, from, to) /\ Inner(c)
            /\ Became(c, s, k.refs, k.pending, k.current, k.clientClosed, n)
    BY <1>12
  <2>2. j.state = s /\ j.complete = k.complete /\ j.clientClosed = k.clientClosed
        /\ j.pending = k.pending
    BY <2>1 DEF Became, Call
  <2>3. turn[c][t] = from /\ conn[c] # "ok" /\ k.state # "Requesting"
    BY <1>1, <1>3, <1>c, <2>1
  <2> QED BY <1>4, <1>5, <2>1, <2>2, <2>3 DEF Inner
<1>13. CASE /\ Moves(t, c, "refused", "complete") /\ Inner(c)
            /\ Became(c, k.state, k.refs, <<>>, k.current, TRUE, k.notified)
  <2>2. j.state = k.state /\ j.complete = k.complete /\ j.pending = <<>>
    BY <1>13 DEF Became, Call
  <2>3. turn[c][t] = "refused" /\ conn[c] = "broken" /\ k.state # "Requesting"
    BY <1>1, <1>2, <1>3, <1>13 DEF ThreadSide
  <2> QED BY <1>4, <1>5, <1>13, <2>2, <2>3 DEF Inner
<1>14. CASE /\ Moves(t, c, "write", "idle") /\ job'[c] = job[c] /\ conn'[c] = conn[c]
            /\ tags'[c] = [tags[c] EXCEPT !["write"] = @ + 1]
            /\ Became(c, k.state, k.refs, k.pending, k.current, k.clientClosed, k.notified)
  <2>1. j.state = k.state /\ j.complete = k.complete /\ j.pending = k.pending
        /\ j.clientClosed = k.clientClosed
    BY <1>14 DEF Became, Call
  <2>2. tags'[c]["request"] = tags[c]["request"]
    BY <1>0, <1>14
  <2>3. turn[c][t] = "write" /\ conn[c] # "ok" /\ k.state # "Requesting"
    BY <1>1, <1>3, <1>c, <1>14
  <2> QED BY <1>4, <1>5, <1>14, <2>1, <2>2, <2>3
<1>15. CASE /\ Moves(t, c, "finish", "idle") /\ job'[c] = job[c]
            /\ tags'[c] = [tags[c] EXCEPT !["finish"] = @ + 1]
            /\ conn'[c] = IF conn[c] = "open" THEN "ok" ELSE conn[c]
            /\ Became(c, k.state, k.refs, k.pending, k.current, k.clientClosed, k.notified)
  <2>1. j.state = k.state /\ j.complete = k.complete /\ j.pending = k.pending
        /\ j.clientClosed = k.clientClosed
    BY <1>15 DEF Became, Call
  <2>2. tags'[c]["request"] = tags[c]["request"]
    BY <1>0, <1>15
  <2>3. /\ turn[c][t] = "finish" /\ k.complete /\ k.pending = <<>> /\ k.state = "Finishing"
    BY <1>1, <1>2, <1>15 DEF ThreadSide
  <2> QED BY <1>4, <1>5, <1>15, <2>1, <2>2, <2>3
<1>n. k.notified \in BOOLEAN
  BY DEF Typed, CallObjects
<1>m. Moves(t, c, "response", "finish") => turn[c][t] = "response"
  BY DEF Moves
<1> HIDE DEF k, j
<1> QED
  BY <1>6, <1>7, <1>8, <1>9, <1>10, <1>11, <1>12, <1>13, <1>14, <1>15, <1>n, <1>m DEF Effect, k

(* A step of a turn keeps the flow: an event taken from pending is held    *)
(* until it is written.                                                    *)
LEMMA TurnFlow ==
    ASSUME Typed, Typed', OneThread, NEW c \in Calls, c \notin Unary, StreamLife(c),
           NEW t \in Threads, Effect(t, c), client'[c] = client[c], yielded'[c] = yielded[c]
    PROVE  ClientSide(c)' /\ Flow(c)'
<1> DEFINE k == call[c]
           j == call'[c]
<1>0. /\ turn[c] \in [Threads -> Points] /\ k.pending \in Seq(Nat) /\ k.current \in Nat
      /\ k.notified \in BOOLEAN /\ conn[c] \in {"none", "open", "ok", "broken"}
  BY StreamTypes DEF Typed, CallObjects
<1>1. ASSUME NEW from, NEW to, Moves(t, c, from, to)
      PROVE  /\ turn[c][t] = from /\ turn'[c][t] = to
             /\ Held(c) <=> from \in {"mark", "write"}
             /\ Held(c)' <=> to \in {"mark", "write"}
  BY <1>0, <1>1 DEF Moves, Held, OneThread
<1>2. ThreadSide(c, t) /\ ClientSide(c) /\ Flow(c)
  BY DEF StreamLife, ServerSide
(* A step that moves no event. *)
<1>3. ASSUME NEW from, NEW to, Moves(t, c, from, to),
             from \in {"mark", "write"} <=> to \in {"mark", "write"},
             j.pending = k.pending, j.current = k.current,
             conn'[c] = conn[c] \/ (conn[c] = "open" /\ conn'[c] = "ok"), wire'[c] = wire[c]
      PROVE  ClientSide(c)' /\ Flow(c)'
  <2>1. Backlog(c)' = Backlog(c)
    BY <1>1, <1>3 DEF Backlog
  <2> QED BY <1>2, <1>3, <2>1, TurnKeepsFlow
<1>4. ASSUME NEW from, NEW to, Moves(t, c, from, to), Inner(c), NEW s, NEW r, NEW l, NEW n,
             from \in {"mark", "write"} <=> to \in {"mark", "write"},
             Became(c, s, r, k.pending, k.current, l, n)
      PROVE  ClientSide(c)' /\ Flow(c)'
  BY <1>3, <1>4 DEF Became, Call, Inner
<1>5. CASE /\ Moves(t, c, "accept", "idle")
           /\ conn'[c] = conn[c] /\ wire'[c] = wire[c]
           /\ Became(c, "Waiting", k.refs + 1, k.pending, k.current, k.clientClosed, k.notified)
  BY <1>3, <1>5 DEF Became, Call
<1>6. CASE \E from \in {"notification", "written"}, to \in {"write", "mark"}, n \in BOOLEAN,
               s \in {"Writing", k.state} :
            /\ Moves(t, c, from, to) /\ Inner(c) /\ k.pending # <<>>
            /\ Became(c, s, k.refs, Tail(k.pending), Head(k.pending), k.clientClosed, n)
  <2>1. PICK from \in {"notification", "written"}, to \in {"write", "mark"}, n \in BOOLEAN,
             s \in {"Writing", k.state} :
            /\ Moves(t, c, from, to) /\ Inner(c) /\ k.pending # <<>>
            /\ Became(c, s, k.refs, Tail(k.pending), Head(k.pending), k.clientClosed, n)
    BY <1>6
  <2>2. j.current = Head(k.pending) /\ j.pending = Tail(k.pending)
    BY <2>1 DEF Became, Call
  <2>3. Backlog(c)' = <<Head(k.pending)>> \o Tail(k.pending)
    BY <1>1, <2>1, <2>2 DEF Backlog
  <2>4. Backlog(c) = k.pending
    BY <1>1, <2>1 DEF Backlog
  <2>5. Backlog(c)' = Backlog(c)
    BY <1>0, <2>1, <2>3, <2>4, Taken1
  <2> QED BY <1>2, <2>1, <2>5, TurnKeepsFlow DEF Inner
<1>7. CASE /\ Moves(t, c, "refused", "complete") /\ Inner(c)
           /\ Became(c, k.state, k.refs, <<>>, k.current, TRUE, k.notified)
  <2>1. conn[c] = "broken"
    BY <1>1, <1>2, <1>7 DEF ThreadSide
  <2> QED BY <1>2, <1>7, <2>1, TurnKeepsFlow DEF Inner
<1>8. CASE /\ Moves(t, c, "write", "idle") /\ conn'[c] = conn[c]
           /\ wire'[c] = IF conn[c] = "open" THEN Append(wire[c], k.current) ELSE wire[c]
           /\ Became(c, k.state, k.refs, k.pending, k.current, k.clientClosed, k.notified)
  <2>1. j.pending = k.pending
    BY <1>8 DEF Became, Call
  <2>2. Backlog(c) = <<k.current>> \o k.pending /\ Backlog(c)' = k.pending
    BY <1>1, <1>8, <2>1 DEF Backlog
  <2>3. conn[c] \in {"open", "broken"}
    BY <1>0, <1>1, <1>2, <1>8 DEF ThreadSide
  <2>4. CASE conn[c] = "broken"
    BY <1>2, <1>8, <2>4, TurnKeepsFlow
  <2>5. CASE conn[c] = "open"
    <3>a. PICK b \in Seq(Nat) : b = Backlog(c)
      BY StreamTypes
    <3>b. b # <<>> /\ Head(b) = k.current /\ Tail(b) = k.pending
      <4> HIDE DEF k
      <4>1. b = <<k.current>> \o k.pending
        BY <2>2, <3>a
      <4> QED BY <1>0, <4>1, Taken1
    <3>1. wire'[c] = Append(wire[c], Head(b)) /\ Backlog(c)' = Tail(b)
      BY <1>8, <2>2, <2>5, <3>b
    <3>2. (conn[c] = "broken") = FALSE /\ (conn'[c] = "broken") = FALSE
      BY <1>8, <2>5
    <3>3. FlowOf(client[c].got, client[c].inbox, wire[c], b, yielded[c],
                 client[c].closed, FALSE)
      BY <1>2, <3>2, <3>a, Zenon DEF Flow
    <3>4. /\ client[c].closed \in BOOLEAN /\ client[c].got \in Seq(Nat)
          /\ client[c].inbox \in Seq(Nat) /\ wire[c] \in Seq(Nat) /\ yielded[c] \in Nat
      BY StreamTypes DEF Typed, ClientObjects
    <3>w. FlowOf(client[c].got, client[c].inbox, Append(wire[c], Head(b)), Tail(b), yielded[c],
                 client[c].closed, FALSE)
      BY <3>3, <3>4, <3>b, FlowWrite
    <3>5. FlowOf(client[c].got, client[c].inbox, wire'[c], Backlog(c)', yielded[c],
                 client[c].closed, FALSE)
      BY <3>1, <3>w, Zenon
    <3>6. Flow(c)'
      BY <3>2, <3>5, Zenon DEF Flow
    <3>7. ClientSide(c)'
      BY <1>2, <1>8, <2>5, TurnOnClient
    <3> QED BY <3>6, <3>7
  <2> QED BY <2>3, <2>4, <2>5
<1>9. CASE /\ Moves(t, c, "finish", "idle")
           /\ conn'[c] = IF conn[c] = "open" THEN "ok" ELSE conn[c]
           /\ wire'[c] = IF conn[c] = "open" /\ c \in Unary THEN Append(wire[c], Response)
                         ELSE wire[c]
           /\ Became(c, k.state, k.refs, k.pending, k.current, k.clientClosed, k.notified)
  <2>1. j.pending = k.pending /\ j.current = k.current
    BY <1>9 DEF Became, Call
  <2> QED BY <1>3, <1>9, <2>1
<1>10. CASE \E from, to \in Points \ {"mark", "write"}, s \in CallStates, r \in Int, n \in BOOLEAN :
            /\ Moves(t, c, from, to) /\ Inner(c)
            /\ Became(c, s, r, k.pending, k.current, k.clientClosed, n)
  BY <1>4, <1>10
<1>11. CASE /\ Moves(t, c, "mark", "write") /\ Inner(c)
            /\ Became(c, "Writing", k.refs, k.pending, k.current, k.clientClosed, k.notified)
  BY <1>4, <1>11
<1>12. /\ k.state \in CallStates /\ "Completed" \in CallStates /\ "Finishing" \in CallStates
       /\ "Waiting" \in CallStates /\ k.refs \in Int /\ k.refs - 1 \in Int /\ FALSE \in BOOLEAN
       /\ {"release", "idle", "complete", "response", "finish", "notification", "written"}
             \subseteq Points \ {"mark", "write"}
  BY DEF Typed, CallObjects, CallStates, Points
<1> HIDE DEF k, j
<1>13. ASSUME NEW from \in {"release", "complete", "response", "notification", "written"},
              NEW to \in {"idle", "finish"}, NEW s \in CallStates, NEW r \in Int,
              NEW n \in BOOLEAN, Moves(t, c, from, to), Inner(c),
              Became(c, s, r, k.pending, k.current, k.clientClosed, n)
       PROVE  ClientSide(c)' /\ Flow(c)'
  BY <1>10, <1>12, <1>13
<1> QED
  BY <1>0, <1>5, <1>6, <1>7, <1>8, <1>9, <1>11, <1>12, <1>13 DEF Effect, k

LEMMA StreamTurn ==
    ASSUME Typed, Typed', OneThread, NEW c \in Calls, c \notin Unary, StreamLife(c),
           NEW t \in Threads, Effect(t, c), Elsewhere(c)
    PROVE  StreamLife(c)'
<1>1. client'[c] = client[c] /\ yielded'[c] = yielded[c]
  BY DEF Elsewhere
<1>2. ServerSide(c)'
  BY <1>1, TurnServerSide DEF StreamLife
<1> QED
  BY <1>1, <1>2, TurnFlow DEF StreamLife

(* The job only adds events, and none once it is complete. *)
LEMMA WorkServerSide ==
    ASSUME Typed, NEW c \in Calls, ServerSide(c),
           turn'[c] = turn[c], conn'[c] = conn[c], tags'[c]["request"] = tags[c]["request"],
           call'[c].state = call[c].state, call'[c].clientClosed = call[c].clientClosed,
           job[c] # "none", job'[c] # "none",
           call'[c].complete <=> job'[c] \in {"ending", "done"},
           call[c].complete => call'[c].complete /\ call'[c].pending = call[c].pending
    PROVE  ServerSide(c)'
<1>1. call[c].state # "Requesting" /\ conn[c] # "none" /\ tags[c]["request"] = 0
      /\ ~(tags[c]["request"] > 0)
  BY DEF ServerSide
<1>2. ASSUME NEW t \in Threads PROVE ThreadSide(c, t)'
  <2>1. ThreadSide(c, t) /\ turn'[c][t] = turn[c][t]
    BY DEF ServerSide
  <2> QED BY <1>1, <2>1, Zenon DEF ThreadSide
<1> QED BY <1>1, <1>2 DEF ServerSide

LEMMA BacklogGrows ==
    ASSUME Typed, NEW c \in Calls, NEW e \in Nat, turn'[c] = turn[c],
           call'[c].current = call[c].current,
           call'[c].pending = Append(call[c].pending, e)
    PROVE  Backlog(c)' = Append(Backlog(c), e)
<1>1. PICK p \in Seq(Nat), x \in Nat : p = call[c].pending /\ x = call[c].current
  BY StreamTypes
<1>2. Held(c)' <=> Held(c)
  BY DEF Held
<1>3. Append(<<x>> \o p, e) = <<x>> \o Append(p, e)
  BY Taken1
<1> QED BY <1>1, <1>2, <1>3 DEF Backlog

LEMMA StreamYields ==
    ASSUME Typed, NEW c \in Calls, StreamLife(c), EnqueueEvent(c, yielded[c] + 1),
           job[c] = "running",
           yielded'[c] = IF call[c].clientClosed THEN yielded[c] ELSE yielded[c] + 1,
           job'[c] \in {"running", "yielded"},
           UNCHANGED <<turn, conn, wire, client>>
    PROVE  StreamLife(c)'
<1> DEFINE y == yielded[c]
           k == call[c]
<1>1. ~k.complete /\ conn[c] \notin {"none", "ok"}
  BY DEF StreamLife, ServerSide
<1>2. CASE k.clientClosed
  <2>1. call' = call /\ tags' = tags /\ yielded'[c] = yielded[c]
    BY <1>2 DEF EnqueueEvent
  <2>2. ServerSide(c)'
    BY <1>1, <2>1, WorkServerSide DEF StreamLife
  <2>3. ClientSide(c)'
    BY <2>1 DEF StreamLife, ClientSide, Clean, Read, Received, Got
  <2>4. Flow(c)'
    BY <2>1, SameBacklog DEF StreamLife, Flow
  <2> QED
    BY <2>2, <2>3, <2>4 DEF StreamLife
<1>3. CASE ~k.clientClosed
  <2> DEFINE p == Append(k.pending, y + 1)
             j == [k EXCEPT !.pending = p]
  <2>1. /\ k \in CallObjects /\ p \in Seq(Nat) /\ y \in Nat
        /\ client[c].got \in Seq(Nat) /\ client[c].inbox \in Seq(Nat)
        /\ wire[c] \in Seq(Nat) /\ Backlog(c) \in Seq(Nat)
        /\ client[c].closed \in BOOLEAN /\ k.clientClosed \in BOOLEAN
        /\ tags[c] \in [Kinds -> Int] /\ "request" \in Kinds
    BY StreamTypes DEF Typed, CallObjects, ClientObjects, Kinds
  <2>2. Notify(c, j)
    BY <1>3, Zenon DEF EnqueueEvent
  <2>3. Call(j, k.state, k.refs, p, k.current, k.complete, k.clientClosed, k.notified)
    <3> HIDE DEF k, p
    <3> QED BY <2>1, CallWrites, Zenon
  <2> HIDE DEF j
  <2>4. Call(Alarmed(j), k.state, k.refs, p, k.current, k.complete, k.clientClosed, TRUE)
    <3> HIDE DEF k, p
    <3>1. Call(Alarmed(j), j.state, j.refs, j.pending, j.current, j.complete, j.clientClosed, TRUE)
      BY <2>3, CallWrites DEF Call
    <3> QED BY <2>3, <3>1, Zenon DEF Call
  <2>5. call'[c] = Alarmed(j) /\ tags'[c]["request"] = tags[c]["request"]
    BY <2>1, <2>2 DEF Notify, Typed
  <2>6. /\ call'[c].state = k.state /\ call'[c].pending = p /\ call'[c].complete = k.complete
        /\ call'[c].clientClosed = k.clientClosed /\ call'[c].current = k.current
    BY <2>4, <2>5, Zenon DEF Call
  <2>7. yielded'[c] = y + 1
    BY <1>3
  <2>8. ServerSide(c)'
    <3> HIDE DEF p
    <3> QED BY <1>1, <2>5, <2>6, WorkServerSide DEF StreamLife
  <2>9. ClientSide(c)'
    BY <1>1 DEF StreamLife, ClientSide, Clean, Read, Received, Got
  <2>10. FlowOf(client[c].got, client[c].inbox, wire[c], Append(Backlog(c), y + 1), y + 1,
                client[c].closed, conn[c] = "broken")
    <3>1. PICK broken \in BOOLEAN : broken = (conn[c] = "broken")
      OBVIOUS
    <3>2. FlowOf(client[c].got, client[c].inbox, wire[c], Backlog(c), y,
                 client[c].closed, broken)
      BY <3>1 DEF StreamLife, Flow
    <3>3. FlowOf(client[c].got, client[c].inbox, wire[c], Append(Backlog(c), y + 1), y + 1,
                 client[c].closed, broken)
      <4>1. PICK b \in Seq(Nat), n \in Nat : b = Backlog(c) /\ n = yielded[c]
        BY <2>1, Zenon
      <4>2. PICK g \in Seq(Nat), i \in Seq(Nat), w \in Seq(Nat), l \in BOOLEAN :
                /\ g = client[c].got /\ i = client[c].inbox /\ w = wire[c] /\ l = client[c].closed
        BY <2>1, Zenon
      <4>3. FlowOf(g, i, w, b, n, l, broken)
        BY <3>2, <4>1, <4>2, Zenon
      <4>4. FlowOf(g, i, w, Append(b, n + 1), n + 1, l, broken)
        BY <4>3, FlowYields
      <4> QED BY <4>1, <4>2, <4>4, Zenon
    <3> QED BY <3>1, <3>3
  <2>b. Backlog(c)' = Append(Backlog(c), y + 1)
    <3>1. y + 1 \in Nat
      BY <2>1
    <3> QED BY <2>6, <3>1, BacklogGrows DEF p
  <2>11. Flow(c)'
    BY <2>7, <2>10, <2>b, Zenon DEF Flow
  <2> QED
    BY <2>8, <2>9, <2>11 DEF StreamLife
<1> QED
  BY <1>2, <1>3

LEMMA StreamWork ==
    ASSUME Typed, NEW c \in Calls, c \notin Unary, StreamLife(c), Work(c)
    PROVE  StreamLife(c)'
<1> DEFINE k == call[c]
<1>0. k \in CallObjects
  BY DEF Typed
<1>1. ASSUME Crash PROVE StreamLife(c)'
  <2>1. Steady(c)
    BY <1>1 DEF Crash, Steady, Typed
  <2> QED BY <2>1, SteadyStream
(* A step of the job alone, or one that ends it. *)
<1>2. ASSUME NEW j \in CallObjects, call'[c] = j, j.state = k.state, j.pending = k.pending,
             j.clientClosed = k.clientClosed, j.current = k.current,
             j.complete <=> job'[c] \in {"ending", "done"}, k.complete => j.complete,
             tags'[c]["request"] = tags[c]["request"],
             job[c] # "none", job'[c] # "none",
             UNCHANGED <<turn, yielded, conn, wire, client>>
      PROVE  StreamLife(c)'
  <2>1. Backlog(c)' = Backlog(c)
    BY <1>2 DEF Backlog, Held
  <2>2. ServerSide(c)'
    BY <1>2, WorkServerSide DEF StreamLife
  <2>3. ClientSide(c)'
    BY <1>2 DEF StreamLife, ClientSide, Clean, Read, Received, Got
  <2>4. Flow(c)'
    BY <1>2, <2>1 DEF StreamLife, Flow
  <2> QED
    BY <2>2, <2>3, <2>4 DEF StreamLife
<1>3. CASE StartJob(c)
  <2>1. call'[c] = k /\ tags'[c] = tags[c] /\ job[c] = "queued" /\ job'[c] = "running"
        /\ turn' = turn
    BY <1>3 DEF StartJob, Typed
  <2>2. ~k.complete
    BY <2>1 DEF StreamLife, ServerSide
  <2> HIDE DEF k
  <2> QED BY <1>0, <1>2, <1>3, <2>1, <2>2 DEF StartJob
<1>4. CASE ProduceEvent(c)
  <2>1. CASE Freed(c)
    BY <1>1, <1>4, <2>1 DEF ProduceEvent
  <2>2. CASE ~Freed(c)
    <3>1. /\ EnqueueEvent(c, yielded[c] + 1) /\ job[c] = "running"
          /\ UNCHANGED <<turn, conn, wire, client>>
      BY <1>4, <2>2 DEF ProduceEvent
    <3>2. yielded'[c] = IF call[c].clientClosed THEN yielded[c] ELSE yielded[c] + 1
      BY <1>4, <2>2 DEF ProduceEvent, Typed
    <3>3. job'[c] \in {"running", "yielded"}
      BY <1>4, <2>2, <3>1 DEF ProduceEvent, Typed
    <3> QED BY <3>1, <3>2, <3>3, StreamYields
  <2> QED BY <2>1, <2>2
<1>5. CASE ServiceFails(c)
  <2>1. /\ EnqueueEvent(c, yielded[c] + 1) /\ job[c] = "running"
        /\ UNCHANGED <<turn, conn, wire, client>>
    BY <1>5 DEF ServiceFails
  <2>2. yielded'[c] = IF call[c].clientClosed THEN yielded[c] ELSE yielded[c] + 1
    BY <1>5 DEF ServiceFails, Typed
  <2>3. job'[c] \in {"running", "yielded"}
    BY <1>5 DEF ServiceFails, Typed
  <2> QED BY <2>1, <2>2, <2>3, StreamYields
<1>6. CASE MarkProducerComplete(c)
  <2>1. CASE Freed(c)
    BY <1>1, <1>6, <2>1 DEF MarkProducerComplete
  <2>2. CASE ~Freed(c)
    <3> DEFINE j == [k EXCEPT !.complete = TRUE]
    <3>1. Call(j, k.state, k.refs, k.pending, k.current, TRUE, k.clientClosed, k.notified)
      BY <1>0, CallWrites, Zenon
    <3>2. Notify(c, j)
      BY <1>6, <2>2, Zenon DEF MarkProducerComplete
    <3> HIDE DEF j
    <3>3. Call(Alarmed(j), j.state, j.refs, j.pending, j.current, j.complete, j.clientClosed, TRUE)
      BY <3>1, CallWrites DEF Call
    <3>4. call'[c] = Alarmed(j) /\ tags'[c]["request"] = tags[c]["request"]
      BY <3>2 DEF Notify, Typed, Kinds
    <3>5. job[c] = "yielded" /\ job'[c] = "ending" /\ UNCHANGED <<turn, yielded, conn, wire, client>>
      BY <1>6, <2>2 DEF MarkProducerComplete, Typed
    <3>6. /\ Alarmed(j) \in CallObjects /\ Alarmed(j).state = k.state
          /\ Alarmed(j).pending = k.pending /\ Alarmed(j).clientClosed = k.clientClosed
          /\ Alarmed(j).complete /\ Alarmed(j).current = k.current
      <4> HIDE DEF k
      <4> QED BY <3>1, <3>3, Zenon DEF Call
    <3> HIDE DEF k
    <3> QED BY <1>2, <3>4, <3>5, <3>6
  <2> QED BY <2>1, <2>2
<1>7. CASE EndJob(c)
  <2>1. CASE Freed(c)
    BY <1>1, <1>7, <2>1 DEF EndJob
  <2>2. CASE ~Freed(c)
    <3> DEFINE j == Release(k)
    <3>1. Call(j, k.state, k.refs - 1, k.pending, k.current, k.complete, k.clientClosed,
               k.notified)
      BY <1>0, StateWrites
    <3>2. /\ call'[c] = j /\ tags'[c] = tags[c] /\ job[c] = "ending" /\ job'[c] = "done"
          /\ UNCHANGED <<turn, yielded, conn, wire, client>>
      BY <1>7, <2>2 DEF EndJob, Typed
    <3>3. k.complete
      BY <3>2 DEF StreamLife, ServerSide
    <3>4. /\ j \in CallObjects /\ j.state = k.state /\ j.pending = k.pending
          /\ j.clientClosed = k.clientClosed /\ j.complete /\ j.current = k.current
      <4> HIDE DEF k, j
      <4> QED BY <3>1, <3>3, Zenon DEF Call
    <3> HIDE DEF k, j
    <3> QED BY <1>2, <3>2, <3>4
  <2> QED BY <2>1, <2>2
<1> QED
  BY <1>3, <1>4, <1>5, <1>6, <1>7 DEF Work, ExecuteRequest

(* Steps of the client that touch neither its events nor the connection. *)
LEMMA StreamIsRead ==
    ASSUME Typed, NEW c \in Calls, StreamLife(c), NEW j \in ClientObjects,
           client'[c] = j, UNCHANGED <<call, tags, turn, job, yielded, conn, wire>>,
           j.inbox = client[c].inbox, j.got = client[c].got, j.closed = client[c].closed,
           j.state = "idle" <=> client[c].state = "idle",
           j.closed <=> j.state = "Completed",
           j.cancelled => j.over = "abandoned",
           j.state = "Finishing" => conn[c] = "broken" \/ (conn[c] = "ok" /\ wire[c] = <<>>),
           j.over = "no" => client[c].over = "no"
    PROVE  StreamLife(c)'
<1>1. ServerSide(c)'
  BY SameServer DEF StreamLife
<1>b. Backlog(c)' = Backlog(c)
  BY SameBacklog
<1>2. Clean(c)' <=> Clean(c)
  BY DEF Clean, Got
<1>3. Got(c)' = Got(c) /\ Received(c)' = Received(c) /\ Read(c)' = Read(c)
  BY DEF Got, Received, Read
<1>4. ClientSide(c)'
  BY <1>2, <1>3 DEF StreamLife, ClientSide
<1>5. Flow(c)'
  BY <1>b DEF StreamLife, Flow
<1> QED
  BY <1>1, <1>4, <1>5 DEF StreamLife

(* A stream is closed: all was read, or the call had broken. *)
LEMMA StreamCloses ==
    ASSUME Typed, NEW c \in Calls, StreamLife(c), client[c].state \in {"Starting", "Finishing"},
           NEW j \in ClientObjects, client'[c] = j,
           UNCHANGED <<call, tags, turn, job, yielded, conn, wire>>,
           \/ conn[c] = "broken" /\ j = Fails(client[c])
           \/ conn[c] = "ok" /\ client[c].state = "Finishing" /\ j = Close(client[c])
    PROVE  StreamLife(c)'
<1> DEFINE k == client[c]
<1>0. /\ k \in ClientObjects /\ ~k.closed
      /\ k.got \in Seq(Nat) /\ k.inbox \in Seq(Nat) /\ wire[c] \in Seq(Nat)
      /\ Backlog(c) \in Seq(Nat) /\ yielded[c] \in Nat /\ k.closed = FALSE
  <2>1. k \in ClientObjects /\ ~k.closed /\ k.closed \in BOOLEAN
    BY DEF StreamLife, ClientSide, Typed, ClientObjects
  <2> QED BY <2>1, StreamTypes
<1>1. ServerSide(c)'
  BY SameServer DEF StreamLife
<1>b. Backlog(c)' = Backlog(c)
  BY SameBacklog
<1>2. PICK broken \in BOOLEAN : broken = (conn[c] = "broken")
  OBVIOUS
<1>3. FlowOf(k.got, k.inbox, wire[c], Backlog(c), yielded[c], FALSE, broken)
  BY <1>0, <1>2 DEF StreamLife, Flow
<1>4. CASE conn[c] = "broken" /\ ~k.cancelled
  <2>1. Client(j, "Completed", Append(k.inbox, TransportError), TRUE, k.cancelled, k.got, k.over)
    BY <1>0, <1>4, FailsForm
  <2>2. /\ j.state = "Completed" /\ j.closed /\ j.got = k.got /\ j.cancelled = k.cancelled
        /\ j.inbox = Append(k.inbox, TransportError) /\ j.closed = TRUE
    BY <2>1, Zenon DEF Client
  <2>3. FlowOf(k.got, Append(k.inbox, TransportError), wire[c], Backlog(c), yielded[c],
               TRUE, broken)
    <3> HIDE DEF k
    <3> QED BY <1>0, <1>3, FlowError
  <2>4. Flow(c)'
    BY <1>2, <1>b, <2>2, <2>3 DEF Flow
  <2>5. ~Clean(c)'
    <3>1. Len(j.inbox) \in 1..Len(j.inbox) /\ j.inbox[Len(j.inbox)] = TransportError
      BY <1>0, <2>2 DEF TransportError
    <3> QED BY <3>1 DEF Clean
  <2>6. ClientSide(c)'
    BY <1>4, <2>2, <2>5 DEF StreamLife, ClientSide
  <2> QED BY <1>1, <2>4, <2>6 DEF StreamLife
<1>5. CASE conn[c] = "broken" /\ k.cancelled
  <2>1. Client(j, "Completed", k.inbox, TRUE, k.cancelled, k.got, k.over)
    BY <1>0, <1>5, FailsForm
  <2>2. /\ j.state = "Completed" /\ j.closed = TRUE /\ j.got = k.got /\ j.inbox = k.inbox
        /\ j.over = "abandoned"
    <3>1. k.over = "abandoned"
      BY <1>5 DEF StreamLife, ClientSide
    <3> QED BY <2>1, <3>1, Zenon DEF Client
  <2>3. FlowOf(k.got, k.inbox, wire[c], Backlog(c), yielded[c], TRUE, broken)
    BY <1>3, FlowClose
  <2>4. Flow(c)'
    BY <1>2, <1>b, <2>2, <2>3 DEF Flow
  <2>5. ClientSide(c)'
    BY <1>5, <2>2 DEF StreamLife, ClientSide
  <2> QED BY <1>1, <2>4, <2>5 DEF StreamLife
<1>6. CASE conn[c] = "ok"
  <2>0. j = Close(k) /\ wire[c] = <<>> /\ Backlog(c) = <<>>
    <3>1. ~Held(c)
      BY <1>6 DEF StreamLife, ServerSide, ThreadSide, Held
    <3> QED BY <1>6, <3>1 DEF StreamLife, ServerSide, ClientSide, Backlog
  <2>1. Client(j, "Completed", k.inbox, TRUE, k.cancelled, k.got, k.over)
    BY <1>0, <2>0, CloseForm
  <2>2. /\ j.state = "Completed" /\ j.closed = TRUE /\ j.got = k.got /\ j.inbox = k.inbox
        /\ j.over = k.over /\ j.cancelled = k.cancelled
    BY <2>1, Zenon DEF Client
  <2>3. FlowOf(k.got, k.inbox, wire[c], Backlog(c), yielded[c], TRUE, broken)
    BY <1>3, FlowClose
  <2>4. Flow(c)'
    BY <1>2, <1>b, <2>2, <2>3 DEF Flow
  <2>5. Received(c)' = yielded'[c]
    <3>1. Len(k.got) + Len(k.inbox) + Len(wire[c]) + Len(Backlog(c)) = yielded[c]
      BY <1>2, <1>3, <1>6 DEF FlowOf
    <3>2. Len(wire[c]) = 0 /\ Len(Backlog(c)) = 0
      BY <2>0
    <3>3. Len(k.got) \in Nat /\ Len(k.inbox) \in Nat
      BY <1>0
    <3>4. Len(k.got) + Len(k.inbox) = yielded[c]
      <4>1. \A x, y \in Nat : x + y + 0 + 0 = x + y
        OBVIOUS
      <4>2. Len(k.got) + Len(k.inbox) + 0 + 0 = yielded[c]
        BY <3>1, <3>2, Zenon
      <4> QED BY <3>3, <4>1, <4>2, Zenon
    <3> QED BY <2>2, <3>4 DEF Received, Got
  <2>6. ClientSide(c)'
    BY <1>6, <2>2, <2>5 DEF StreamLife, ClientSide
  <2> QED BY <1>1, <2>4, <2>6 DEF StreamLife
<1> QED
  BY <1>4, <1>5, <1>6

LEMMA StreamClient ==
    ASSUME Typed, NEW c \in Calls, c \notin Unary, StreamLife(c),
           PollClient(c) \/ Consume(c) \/ Invoke(c) \/ Abandon(c)
    PROVE  StreamLife(c)'
<1> DEFINE k == client[c]
<1>0. /\ k \in ClientObjects /\ k.got \in Seq(Nat) /\ k.inbox \in Seq(Nat)
      /\ wire[c] \in Seq(Nat) /\ Backlog(c) \in Seq(Nat) /\ yielded[c] \in Nat
      /\ k.closed \in BOOLEAN
  BY StreamTypes DEF Typed, ClientObjects
<1>1. PICK broken \in BOOLEAN : broken = (conn[c] = "broken")
  OBVIOUS
<1>2. FlowOf(k.got, k.inbox, wire[c], Backlog(c), yielded[c], k.closed, broken)
  BY <1>1 DEF StreamLife, Flow
<1>b. ASSUME UNCHANGED <<call, turn>> PROVE Backlog(c)' = Backlog(c)
  BY <1>b, SameBacklog
<1>3. /\ k.state = "idle" <=> conn[c] = "none"
      /\ k.closed <=> k.state = "Completed"
      /\ k.cancelled => k.over = "abandoned"
      /\ k.state = "Finishing" => conn[c] = "broken" \/ (conn[c] = "ok" /\ wire[c] = <<>>)
  BY DEF StreamLife, ClientSide
<1>4. \A x \in ClientStates :
         Client([k EXCEPT !.state = x], x, k.inbox, k.closed, k.cancelled, k.got, k.over)
  BY <1>0, ClientWrites
<1>5. ASSUME NEW ok \in BOOLEAN, CompleteStart(c, ok) PROVE StreamLife(c)'
  <2>0. UNCHANGED <<call, tags, turn, job, yielded, conn, wire>> /\ k.state = "Starting"
    BY <1>5 DEF CompleteStart
  <2>1. CASE ok
    <3> DEFINE j == [k EXCEPT !.state = "Reading"]
    <3>1. client' = [client EXCEPT ![c] = j]
      BY <1>5, <2>1, Zenon DEF CompleteStart
    <3>2. Client(j, "Reading", k.inbox, k.closed, k.cancelled, k.got, k.over)
      BY <1>4, Zenon DEF ClientStates
    <3> HIDE DEF j
    <3>3. client'[c] = j
      BY <3>1 DEF Typed
    <3> QED BY <1>3, <2>0, <3>2, <3>3, StreamIsRead DEF Client
  <2>2. CASE ~ok
    <3>1. client'[c] = Fails(k) /\ conn[c] = "broken"
      BY <1>5, <2>2 DEF CompleteStart, Typed
    <3>2. Fails(k) \in ClientObjects
      BY <1>0, FailsForm DEF Client
    <3> QED BY <2>0, <3>1, <3>2, StreamCloses
  <2> QED BY <2>1, <2>2
<1>6. CASE CompleteRead(c)
  <2> DEFINE e == Head(wire[c])
             j == Push(k, e)
  <2>1. /\ client' = [client EXCEPT ![c] = j] /\ wire' = [wire EXCEPT ![c] = Tail(@)]
        /\ UNCHANGED <<call, tags, turn, job, yielded, conn>> /\ wire[c] # <<>> /\ k.state = "Reading"
    BY <1>6 DEF CompleteRead
  <2>2. e \in Nat
    BY <1>0, <2>1
  <2>3. Client(j, k.state, Append(k.inbox, e), k.closed, k.cancelled, k.got, k.over)
    BY <1>0, <2>2, PushForm
  <2> HIDE DEF j
  <2>4. client'[c] = j /\ wire'[c] = Tail(wire[c])
    BY <2>1 DEF Typed
  <2>5. /\ j.state = k.state /\ j.inbox = Append(k.inbox, e) /\ j.closed = k.closed
        /\ j.cancelled = k.cancelled /\ j.got = k.got /\ j.over = k.over
    BY <2>3, Zenon DEF Client
  <2>6. k.closed = FALSE
    BY <1>0, <1>3, <2>1
  <2>7. FlowOf(k.got, Append(k.inbox, e), Tail(wire[c]), Backlog(c), yielded[c], FALSE, broken)
    <3> HIDE DEF k
    <3> QED BY <1>0, <1>2, <2>1, <2>6, FlowRead
  <2>8. ServerSide(c)'
    BY <2>1, SameServer DEF StreamLife
  <2>9. ClientSide(c)'
    BY <1>3, <2>1, <2>4, <2>5, <2>6 DEF ClientSide
  <2>10. Flow(c)'
    BY <1>1, <2>1, <2>4, <2>5, <2>6, <2>7, <1>b DEF Flow
  <2> QED BY <2>8, <2>9, <2>10 DEF StreamLife
<1>7. CASE CompleteLastRead(c)
  <2> DEFINE j == [k EXCEPT !.state = "Finishing"]
  <2>1. /\ client' = [client EXCEPT ![c] = j] /\ k.state = "Reading"
        /\ conn[c] = "broken" \/ (conn[c] = "ok" /\ wire[c] = <<>>)
        /\ UNCHANGED <<call, tags, turn, job, yielded, conn, wire>>
    BY <1>7, Zenon DEF CompleteLastRead
  <2>2. Client(j, "Finishing", k.inbox, k.closed, k.cancelled, k.got, k.over)
    BY <1>4, Zenon DEF ClientStates
  <2> HIDE DEF j
  <2>3. client'[c] = j
    BY <2>1 DEF Typed
  <2> QED BY <1>3, <2>1, <2>2, <2>3, StreamIsRead DEF Client
<1>8. CASE CompleteFinish(c)
  <2>1. /\ UNCHANGED <<call, tags, turn, job, yielded, conn, wire>> /\ k.state = "Finishing"
        /\ client'[c] = IF conn[c] = "ok" THEN Close(k) ELSE Fails(k)
    BY <1>8 DEF CompleteFinish, Typed
  <2>2. Fails(k) \in ClientObjects /\ Close(k) \in ClientObjects
    BY <1>0, FailsForm, CloseForm DEF Client
  <2> QED BY <1>3, <2>1, <2>2, StreamCloses
<1>9. CASE WaitNext(c)
  <2> DEFINE j == Take(k)
  <2>1. /\ client' = [client EXCEPT ![c] = j] /\ k.inbox # <<>>
        /\ UNCHANGED <<call, tags, turn, job, yielded, conn, wire>>
    BY <1>9 DEF WaitNext
  <2>2. Client(j, k.state, Tail(k.inbox), k.closed, k.cancelled, Append(k.got, Head(k.inbox)), k.over)
    BY <1>0, <2>1, TakeForm
  <2> HIDE DEF j
  <2>3. client'[c] = j
    BY <2>1 DEF Typed
  <2>4. /\ j.state = k.state /\ j.inbox = Tail(k.inbox) /\ j.closed = k.closed
        /\ j.cancelled = k.cancelled /\ j.got = Append(k.got, Head(k.inbox)) /\ j.over = k.over
    BY <2>2, Zenon DEF Client
  <2>5. FlowOf(Append(k.got, Head(k.inbox)), Tail(k.inbox), wire[c], Backlog(c), yielded[c],
               k.closed, broken)
    <3> HIDE DEF k
    <3> QED BY <1>0, <1>2, <2>1, FlowTake
  <2>6. /\ Len(Append(k.got, Head(k.inbox))) = Len(k.got) + 1
        /\ Len(Tail(k.inbox)) = Len(k.inbox) - 1
        /\ Len(k.got) \in Nat /\ Len(k.inbox) \in Nat /\ Len(wire[c]) \in Nat
    BY <1>0, <2>1
  <2>7. Received(c)' = Received(c) /\ Read(c)' = Read(c)
    <3>1. Got(c)' = Len(k.got) + 1 /\ Len(client'[c].inbox) = Len(k.inbox) - 1
      BY <2>3, <2>4, <2>6 DEF Got
    <3>2. Received(c)' = Len(k.got) + 1 + (Len(k.inbox) - 1)
      BY <3>1 DEF Received
    <3>3. Received(c)' = Len(k.got) + Len(k.inbox)
      <4>1. \A x, y \in Nat : x + 1 + (y - 1) = x + y
        OBVIOUS
      <4> QED BY <2>6, <3>2, <4>1, Zenon
    <3> QED BY <2>1, <3>3 DEF Received, Read, Got
  <2>8. Clean(c)' => Clean(c)
    <3> SUFFICES ASSUME Clean(c)' PROVE Clean(c)
      OBVIOUS
    <3>1. ASSUME NEW i \in 1..Len(k.got) PROVE k.got[i] # TransportError
      <4>1. i \in 1..Len(j.got) /\ j.got[i] = k.got[i]
        BY <1>0, <2>1, <2>4
      <4> QED BY <2>3, <4>1 DEF Clean, Got
    <3>2. ASSUME NEW i \in 1..Len(k.inbox) PROVE k.inbox[i] # TransportError
      <4>1. CASE i = 1
        <5>1. Len(j.got) \in 1..Len(j.got) /\ j.got[Len(j.got)] = k.inbox[1]
          BY <1>0, <2>1, <2>4
        <5> QED BY <2>3, <4>1, <5>1 DEF Clean, Got
      <4>2. CASE i # 1
        <5>1. i - 1 \in 1..(Len(k.inbox) - 1) /\ (i - 1) + 1 = i
          BY <2>6, <4>2
        <5>2. \A n \in 1..(Len(k.inbox) - 1) : Tail(k.inbox)[n] = k.inbox[n + 1]
          <6> HIDE DEF k
          <6> QED BY <1>0, <2>1
        <5>3. i - 1 \in 1..Len(j.inbox) /\ j.inbox[i - 1] = k.inbox[i]
          BY <2>4, <2>6, <5>1, <5>2, Zenon
        <5> QED BY <2>3, <5>3 DEF Clean
      <4> QED BY <4>1, <4>2
    <3> QED BY <3>1, <3>2 DEF Clean, Got
  <2>9. ServerSide(c)'
    BY <2>1, SameServer DEF StreamLife
  <2>10. ClientSide(c)'
    <3> HIDE DEF k
    <3> QED BY <2>1, <2>3, <2>4, <2>7, <2>8 DEF StreamLife, ClientSide, k
  <2>11. Flow(c)'
    BY <1>1, <2>1, <2>3, <2>4, <2>5, <1>b DEF Flow
  <2> QED BY <2>9, <2>10, <2>11 DEF StreamLife
<1>10. CASE StreamOver(c)
  <2> DEFINE j == [k EXCEPT !.over = "ended"]
  <2>1. /\ client' = [client EXCEPT ![c] = j] /\ k.over = "no"
        /\ UNCHANGED <<call, tags, turn, job, yielded, conn, wire>>
    BY <1>10, Zenon DEF StreamOver
  <2>2. Client(j, k.state, k.inbox, k.closed, k.cancelled, k.got, "ended")
    BY <1>0, ClientWrites, Zenon
  <2> HIDE DEF j
  <2>3. client'[c] = j
    BY <2>1 DEF Typed
  <2> QED BY <1>3, <2>1, <2>2, <2>3, StreamIsRead DEF Client
<1>11. CASE Invoke(c)
  <2> DEFINE j == [k EXCEPT !.state = "Starting"]
  <2>1. /\ client' = [client EXCEPT ![c] = j] /\ k.state = "idle"
        /\ UNCHANGED <<call, tags, turn, job, yielded, wire>>
    BY <1>11, Zenon DEF Invoke
  <2>2. conn'[c] \in {"open", "broken"}
    BY <1>11 DEF Invoke, Typed
  <2>3. Client(j, "Starting", k.inbox, k.closed, k.cancelled, k.got, k.over)
    BY <1>4, Zenon DEF ClientStates
  <2> HIDE DEF j
  <2>4. client'[c] = j
    BY <2>1 DEF Typed
  <2>5. /\ j.state = "Starting" /\ j.inbox = k.inbox /\ j.closed = k.closed
        /\ j.cancelled = k.cancelled /\ j.got = k.got /\ j.over = k.over
    BY <2>3, Zenon DEF Client
  <2>6. conn[c] = "none" /\ ~k.closed
    BY <1>3, <2>1
  <2>7. ServerSide(c)'
    BY <2>1, <2>2, <2>6, SameServer DEF StreamLife
  <2>8. ClientSide(c)'
    BY <1>3, <2>2, <2>4, <2>5, <2>6 DEF ClientSide
  <2>9. FlowOf(k.got, k.inbox, wire[c], Backlog(c), yielded[c], k.closed, FALSE)
    <3>1. broken = FALSE
      BY <1>1, <2>6
    <3> QED BY <1>2, <3>1
  <2>10. Flow(c)'
    <3>1. CASE conn'[c] = "open"
      <4>1. (conn'[c] = "broken") = FALSE
        BY <3>1
      <4> QED BY <2>1, <2>4, <2>5, <2>9, <4>1, <1>b DEF Flow
    <3>2. CASE conn'[c] = "broken"
      <4>1. (conn'[c] = "broken") = TRUE
        BY <3>2
      <4>2. FlowOf(k.got, k.inbox, wire[c], Backlog(c), yielded[c], k.closed, TRUE)
        BY <2>9, FlowBreaks
      <4> QED BY <2>1, <2>4, <2>5, <4>1, <4>2, <1>b DEF Flow
    <3> QED BY <2>2, <3>1, <3>2
  <2> QED BY <2>7, <2>8, <2>10 DEF StreamLife
<1>12. CASE Abandon(c)
  <2> DEFINE j == WalkAway(k)
  <2>1. /\ client' = [client EXCEPT ![c] = j] /\ k.state # "idle"
        /\ UNCHANGED <<call, tags, turn, job, yielded, wire>>
    BY <1>12 DEF Abandon
  <2>2. conn'[c] = IF conn[c] = "open" /\ ~k.closed THEN "broken" ELSE conn[c]
    BY <1>12 DEF Abandon, Typed
  <2>3. Client(j, k.state, k.inbox, k.closed, ~k.closed, k.got, "abandoned")
    BY <1>0, WalkAwayForm
  <2> HIDE DEF j
  <2>4. client'[c] = j
    BY <2>1 DEF Typed
  <2>5. /\ j.state = k.state /\ j.inbox = k.inbox /\ j.closed = k.closed
        /\ j.got = k.got /\ j.over = "abandoned"
    BY <2>3, Zenon DEF Client
  <2>6. ServerSide(c)'
    BY <2>1, <2>2, SameServer DEF StreamLife
  <2>7. ClientSide(c)'
    BY <1>3, <2>1, <2>2, <2>4, <2>5 DEF ClientSide
  <2>8. Flow(c)'
    <3>1. CASE conn'[c] = conn[c]
      BY <1>1, <1>2, <2>1, <2>4, <2>5, <3>1, <1>b DEF Flow
    <3>2. CASE conn'[c] = "broken"
      <4>1. (conn'[c] = "broken") = TRUE
        BY <3>2
      <4>2. FlowOf(k.got, k.inbox, wire[c], Backlog(c), yielded[c], k.closed, TRUE)
        BY <1>2, FlowBreaks
      <4> QED BY <2>1, <2>4, <2>5, <4>1, <4>2, <1>b DEF Flow
    <3> QED BY <2>2, <3>1, <3>2
  <2> QED BY <2>6, <2>7, <2>8 DEF StreamLife
<1> QED
  BY <1>5, <1>6, <1>7, <1>8, <1>9, <1>10, <1>11, <1>12
     DEF PollClient, Consume, CompleteUnary

(* What a step of one call is to the others. *)
LEMMA OthersAreSteady ==
    ASSUME Typed, NEW c \in Calls, NEW d \in Calls, d # c,
           \/ Poll(c) \/ (\E t \in Threads : Turn(t, c)) \/ Work(c)
           \/ PollClient(c) \/ Consume(c) \/ Invoke(c) \/ Abandon(c)
    PROVE  kind' = kind /\ Steady(d)
<1>1. ASSUME Crash PROVE kind' = kind /\ Steady(d)
  BY <1>1 DEF Crash, Steady, Typed
<1>2. CASE Poll(c)
  <2>1. PICK t \in Threads, tag \in Kinds, ok \in BOOLEAN : TakeTag(t, c, tag, ok)
    BY <1>2 DEF Poll
  <2>2. CASE ~Crash
    <3>1. Elsewhere(c)
      BY <2>1, <2>2, TakeFacts
    <3> QED BY <3>1 DEF Elsewhere, Steady
  <2> QED
    BY <1>1, <2>2
<1>t. ASSUME NEW t \in Threads, Turn(t, c) PROVE kind' = kind /\ Steady(d)
  <2>1. CASE Elsewhere(c)
    BY <2>1 DEF Elsewhere, Steady
  <2> QED
    BY <1>1, <1>t, <2>1, TurnEffect
<1>3. CASE Work(c)
  <2>1. CASE ~Crash
    BY <1>3, <2>1 DEF Work, StartJob, ExecuteRequest, ProduceEvent, ServiceFails,
              MarkProducerComplete, EndJob, EnqueueEvent, Notify, Typed, Steady
  <2> QED BY <1>1, <2>1
<1>4. CASE PollClient(c) \/ Consume(c) \/ Invoke(c) \/ Abandon(c)
  BY <1>4 DEF PollClient, Consume, Invoke, Abandon, CompleteUnary, CompleteStart,
              CompleteRead, CompleteLastRead, CompleteFinish, WaitNext, StreamOver,
              Typed, Steady
<1> QED
  BY <1>2, <1>3, <1>4, <1>t

LEMMA StepKeepsKind ==
    ASSUME Typed, [Next]_vars
    PROVE  kind' = kind
<1>1. ASSUME NEW c \in Calls, Poll(c) PROVE kind' = kind
  <2>1. PICK t \in Threads, tag \in Kinds, ok \in BOOLEAN : TakeTag(t, c, tag, ok)
    BY <1>1 DEF Poll
  <2> QED BY <2>1 DEF TakeTag, Crash
<1>t. ASSUME NEW c \in Calls, NEW t \in Threads, Turn(t, c) PROVE kind' = kind
  BY <1>t, TurnEffect DEF Elsewhere, Crash
<1>2. ASSUME NEW c \in Calls, Work(c) PROVE kind' = kind
  BY <1>2 DEF Work, StartJob, ExecuteRequest, ProduceEvent, ServiceFails,
              MarkProducerComplete, EndJob, Crash
<1>3. ASSUME NEW c \in Calls, PollClient(c) \/ Consume(c) \/ Invoke(c) \/ Abandon(c)
      PROVE  kind' = kind
  BY <1>3 DEF PollClient, Consume, Invoke, Abandon, CompleteUnary, CompleteStart,
              CompleteRead, CompleteLastRead, CompleteFinish, WaitNext, StreamOver
<1> QED
  BY <1>1, <1>2, <1>3, <1>t DEF Next, BreakCall, StopServer, ServerStopped, vars

LEMMA BreaksAreSteady ==
    ASSUME Typed, (\E c \in Calls : BreakCall(c)) \/ StopServer \/ ServerStopped \/ Crash
                  \/ UNCHANGED vars
    PROVE  kind' = kind /\ \A d \in Calls : Steady(d)
BY DEF BreakCall, StopServer, ServerStopped, Crash, vars, Steady, Typed

LEMMA StreamInvInductive ==
    ASSUME OneThread
    PROVE  Typed /\ StreamInv /\ [Next]_vars => StreamInv'
<1> SUFFICES ASSUME Typed, StreamInv, [Next]_vars PROVE StreamInv'
  OBVIOUS
<1>9. Typed'
  BY NextTyped
<1>0. ASSUME kind' = kind PROVE Streams' = Streams /\ Unary' = Unary
  BY <1>0 DEF Streams, Unary
<1>1. ASSUME NEW c \in Calls,
             \/ Poll(c) \/ (\E t \in Threads : Turn(t, c)) \/ Work(c)
             \/ PollClient(c) \/ Consume(c) \/ Invoke(c) \/ Abandon(c),
             kind' = kind
      PROVE  StreamInv'
  <2> SUFFICES ASSUME NEW d \in Streams PROVE StreamLife(d)'
    BY <1>0, <1>1 DEF StreamInv
  <2>1. StreamLife(d) /\ d \in Calls /\ d \notin Unary
    BY DEF StreamInv, Streams
  <2>2. CASE d # c
    BY <1>1, <2>1, <2>2, OthersAreSteady, SteadyStream
  <2>3. CASE d = c /\ Poll(c)
    <3>1. PICK t \in Threads, tag \in Kinds, ok \in BOOLEAN : TakeTag(t, c, tag, ok)
      BY <2>3 DEF Poll
    <3>2. CASE Crash
      BY <2>1, <3>2, BreaksAreSteady, SteadyStream
    <3>3. CASE ~Crash
      BY <2>1, <2>3, <3>1, <3>3, StreamTake
    <3> QED BY <3>2, <3>3
  <2>t. ASSUME d = c, NEW t \in Threads, Turn(t, c) PROVE StreamLife(d)'
    <3>2. CASE Crash
      BY <2>1, <3>2, BreaksAreSteady, SteadyStream
    <3>3. CASE Effect(t, c) /\ Elsewhere(c)
      BY <1>9, <2>1, <2>t, <3>3, StreamTurn
    <3> QED BY <2>t, <3>2, <3>3, TurnEffect
  <2>4. CASE d = c /\ Work(c)
    BY <2>1, <2>4, StreamWork
  <2>5. CASE d = c /\ (PollClient(c) \/ Consume(c) \/ Invoke(c) \/ Abandon(c))
    BY <2>1, <2>5, StreamClient
  <2> QED BY <1>1, <2>2, <2>3, <2>4, <2>5, <2>t
<1>2. CASE (\E c \in Calls : BreakCall(c)) \/ StopServer \/ ServerStopped \/ UNCHANGED vars
  <2>1. kind' = kind /\ \A d \in Calls : Steady(d)
    BY <1>2, BreaksAreSteady
  <2> SUFFICES ASSUME NEW d \in Streams PROVE StreamLife(d)'
    BY <1>0, <2>1 DEF StreamInv
  <2>2. StreamLife(d) /\ Steady(d)
    BY <2>1 DEF StreamInv, Streams
  <2> QED BY <2>2, SteadyStream
<1>3. kind' = kind
  BY StepKeepsKind
<1> QED
  BY <1>1, <1>2, <1>3 DEF Next

LEMMA InitStreams == Init => StreamInv
<1> SUFFICES ASSUME Init, NEW c \in Streams PROVE StreamLife(c)
  BY DEF StreamInv
<1>1. /\ call[c] = NewCall /\ client[c] = NewClient /\ wire[c] = <<>> /\ yielded[c] = 0
      /\ conn[c] = "none" /\ tags[c] = [NoTags EXCEPT !["request"] = 1] /\ job[c] = "none"
      /\ turn[c] = [t \in Threads |-> "idle"]
  BY DEF Init, Streams
<1>2. ServerSide(c)
  BY <1>1 DEF ServerSide, ThreadSide, NewCall, NoTags, Kinds
<1>3. ClientSide(c)
  BY <1>1 DEF ClientSide, NewClient, Read, Received, Got, Clean
<1>4. Flow(c)
  BY <1>1 DEF Flow, FlowOf, NewClient, NewCall, Backlog, Held
<1> QED
  BY <1>2, <1>3, <1>4 DEF StreamLife

-----------------------------------------------------------------------------
(***************************************************************************)
(* The refinement.                                                         *)
(***************************************************************************)
Sent == [c \in Calls |-> [i \in 1..yielded[c] |-> i]]
Completed == [c \in Calls |-> c \in Streams /\ call[c].complete]
Seen == [c \in Calls |-> IF c \in Streams THEN Delivered(client[c]) ELSE <<>>]
Ending == [c \in Calls |-> IF c \in Streams THEN Outcome(client[c]) ELSE "open"]

(* A call whose step the channel does not show. *)
Hidden(c) ==
    /\ yielded'[c] = yielded[c]
    /\ c \in Streams => /\ call'[c].complete = call[c].complete
                        /\ client'[c].got = client[c].got
                        /\ client'[c].over = client[c].over

LEMMA HiddenFields ==
    ASSUME kind' = kind, NEW c \in Calls, Hidden(c)
    PROVE  /\ Sent'[c] = Sent[c] /\ Completed'[c] = Completed[c]
           /\ Seen'[c] = Seen[c] /\ Ending'[c] = Ending[c]
<1>1. (c \in Streams)' <=> c \in Streams
  BY DEF Streams, Unary
<1>2. Sent'[c] = Sent[c]
  BY DEF Hidden, Sent
<1>3. Completed'[c] = Completed[c]
  BY <1>1 DEF Hidden, Completed
<1>4. Seen'[c] = Seen[c]
  BY <1>1 DEF Hidden, Seen, Delivered
<1>5. Ending'[c] = Ending[c]
  BY <1>1 DEF Hidden, Ending, Outcome
<1> QED
  BY <1>2, <1>3, <1>4, <1>5

LEMMA HiddenStep ==
    ASSUME kind' = kind, \A c \in Calls : Hidden(c)
    PROVE  UNCHANGED <<Sent, Completed, Seen, Ending>>
<1>1. \A c \in Calls : /\ Sent'[c] = Sent[c] /\ Completed'[c] = Completed[c]
                       /\ Seen'[c] = Seen[c] /\ Ending'[c] = Ending[c]
  BY HiddenFields
<1>2. Sent' = Sent
  BY <1>1 DEF Sent
<1>3. Completed' = Completed
  BY <1>1 DEF Completed
<1>4. Seen' = Seen
  BY <1>1 DEF Seen
<1>5. Ending' = Ending
  BY <1>1 DEF Ending
<1> QED
  BY <1>2, <1>3, <1>4, <1>5

LEMMA OneShown ==
    ASSUME kind' = kind, NEW c \in Calls, \A d \in Calls \ {c} : Hidden(d)
    PROVE  /\ Sent' = [Sent EXCEPT ![c] = Sent'[c]]
           /\ Completed' = [Completed EXCEPT ![c] = Completed'[c]]
           /\ Seen' = [Seen EXCEPT ![c] = Seen'[c]]
           /\ Ending' = [Ending EXCEPT ![c] = Ending'[c]]
<1>1. \A d \in Calls \ {c} : /\ Sent'[d] = Sent[d] /\ Completed'[d] = Completed[d]
                             /\ Seen'[d] = Seen[d] /\ Ending'[d] = Ending[d]
  BY HiddenFields
<1>2. ASSUME NEW f, NEW g, f = [d \in Calls |-> f[d]], g = [d \in Calls |-> g[d]],
             \A d \in Calls \ {c} : g[d] = f[d]
      PROVE  g = [f EXCEPT ![c] = g[c]]
  BY <1>2
<1>3. /\ Sent = [d \in Calls |-> Sent[d]] /\ Sent' = [d \in Calls |-> Sent'[d]]
      /\ Completed = [d \in Calls |-> Completed[d]] /\ Completed' = [d \in Calls |-> Completed'[d]]
      /\ Seen = [d \in Calls |-> Seen[d]] /\ Seen' = [d \in Calls |-> Seen'[d]]
      /\ Ending = [d \in Calls |-> Ending[d]] /\ Ending' = [d \in Calls |-> Ending'[d]]
  <2>1. Sent = [d \in Calls |-> Sent[d]] /\ Sent' = [d \in Calls |-> Sent'[d]]
    BY DEF Sent
  <2>2. Completed = [d \in Calls |-> Completed[d]] /\ Completed' = [d \in Calls |-> Completed'[d]]
    BY DEF Completed
  <2>3. Seen = [d \in Calls |-> Seen[d]] /\ Seen' = [d \in Calls |-> Seen'[d]]
    BY DEF Seen
  <2>4. Ending = [d \in Calls |-> Ending[d]] /\ Ending' = [d \in Calls |-> Ending'[d]]
    BY DEF Ending
  <2> QED BY <2>1, <2>2, <2>3, <2>4
<1>4. Sent' = [Sent EXCEPT ![c] = Sent'[c]]
  BY <1>1, <1>2, <1>3
<1>5. Completed' = [Completed EXCEPT ![c] = Completed'[c]]
  BY <1>1, <1>2, <1>3
<1>6. Seen' = [Seen EXCEPT ![c] = Seen'[c]]
  BY <1>1, <1>2, <1>3
<1>7. Ending' = [Ending EXCEPT ![c] = Ending'[c]]
  BY <1>1, <1>2, <1>3
<1> QED
  BY <1>4, <1>5, <1>6, <1>7

(* One step of the channel, from what it shows of the call that moves. *)
LEMMA ShownStep ==
    ASSUME kind' = kind, NEW c \in Calls, \A d \in Calls \ {c} : Hidden(d),
           \/ /\ ~Completed[c] /\ Len(Sent[c]) < MaxEvents
              /\ Sent'[c] = Append(Sent[c], Len(Sent[c]) + 1)
              /\ Completed'[c] = Completed[c] /\ Seen'[c] = Seen[c] /\ Ending'[c] = Ending[c]
           \/ /\ ~Completed[c] /\ Completed'[c] = TRUE
              /\ Sent'[c] = Sent[c] /\ Seen'[c] = Seen[c] /\ Ending'[c] = Ending[c]
           \/ /\ Ending[c] = "open" /\ Len(Seen[c]) < Len(Sent[c])
              /\ Seen'[c] = Append(Seen[c], Sent[c][Len(Seen[c]) + 1])
              /\ Sent'[c] = Sent[c] /\ Completed'[c] = Completed[c] /\ Ending'[c] = Ending[c]
           \/ /\ Ending[c] = "open" /\ Completed[c] /\ Seen[c] = Sent[c] /\ Ending'[c] = "ended"
              /\ Sent'[c] = Sent[c] /\ Completed'[c] = Completed[c] /\ Seen'[c] = Seen[c]
           \/ /\ Ending[c] = "open" /\ Ending'[c] = "broken"
              /\ Sent'[c] = Sent[c] /\ Completed'[c] = Completed[c] /\ Seen'[c] = Seen[c]
    PROVE  Channel!Next
<1>1. /\ Sent' = [Sent EXCEPT ![c] = Sent'[c]]
      /\ Completed' = [Completed EXCEPT ![c] = Completed'[c]]
      /\ Seen' = [Seen EXCEPT ![c] = Seen'[c]]
      /\ Ending' = [Ending EXCEPT ![c] = Ending'[c]]
  BY OneShown
<1>2. /\ Sent'[c] = Sent[c] => Sent' = Sent
      /\ Completed'[c] = Completed[c] => Completed' = Completed
      /\ Seen'[c] = Seen[c] => Seen' = Seen
      /\ Ending'[c] = Ending[c] => Ending' = Ending
  <2>1. Sent'[c] = Sent[c] => Sent' = Sent
    BY <1>1 DEF Sent
  <2>2. Completed'[c] = Completed[c] => Completed' = Completed
    BY <1>1 DEF Completed
  <2>3. Seen'[c] = Seen[c] => Seen' = Seen
    BY <1>1 DEF Seen
  <2>4. Ending'[c] = Ending[c] => Ending' = Ending
    BY <1>1 DEF Ending
  <2> QED BY <2>1, <2>2, <2>3, <2>4
<1>3. /\ Channel!Yield(c) <=>
            /\ ~Completed[c] /\ Len(Sent[c]) < MaxEvents
            /\ Sent' = [Sent EXCEPT ![c] = Append(Sent[c], Len(Sent[c]) + 1)]
            /\ UNCHANGED <<Completed, Seen, Ending>>
      /\ Channel!Complete(c) <=>
            /\ ~Completed[c] /\ Completed' = [Completed EXCEPT ![c] = TRUE]
            /\ UNCHANGED <<Sent, Seen, Ending>>
      /\ Channel!Receive(c) <=>
            /\ Ending[c] = "open" /\ Len(Seen[c]) < Len(Sent[c])
            /\ Seen' = [Seen EXCEPT ![c] = Append(Seen[c], Sent[c][Len(Seen[c]) + 1])]
            /\ UNCHANGED <<Sent, Completed, Ending>>
      /\ Channel!End(c) <=>
            /\ Ending[c] = "open" /\ Completed[c] /\ Seen[c] = Sent[c]
            /\ Ending' = [Ending EXCEPT ![c] = "ended"]
            /\ UNCHANGED <<Sent, Completed, Seen>>
      /\ Channel!Break(c) <=>
            /\ Ending[c] = "open" /\ Ending' = [Ending EXCEPT ![c] = "broken"]
            /\ UNCHANGED <<Sent, Completed, Seen>>
  BY Zenon DEF Channel!Yield, Channel!Complete, Channel!Receive, Channel!End, Channel!Break,
               Sent, Completed, Seen, Ending
<1>4. \/ Channel!Yield(c) \/ Channel!Complete(c) \/ Channel!Receive(c)
      \/ Channel!End(c) \/ Channel!Break(c)
  BY <1>1, <1>2, <1>3
<1> QED
  BY <1>4 DEF Channel!Next

Steps(c) ==
    \/ Poll(c) \/ (\E t \in Threads : Turn(t, c)) \/ Work(c)
    \/ PollClient(c) \/ Consume(c) \/ Invoke(c) \/ Abandon(c)

LEMMA OthersAreHidden ==
    ASSUME Typed, NEW c \in Calls, Steps(c)
    PROVE  \A d \in Calls \ {c} : Hidden(d)
BY OthersAreSteady DEF Steady, Hidden, Steps

(* The queue's turns are hidden: proceed() moves events, and the channel   *)
(* only sees them yielded and taken.                                       *)
LEMMA TurnsAreHidden ==
    ASSUME Typed, NEW c \in Calls, Poll(c) \/ \E t \in Threads : Turn(t, c)
    PROVE  Hidden(c)
<1>1. CASE Crash
  BY <1>1 DEF Crash, Hidden
<1>2. ASSUME Poll(c), ~Crash PROVE Hidden(c)
  <2>1. PICK t \in Threads, tag \in Kinds, ok \in BOOLEAN : TakeTag(t, c, tag, ok)
    BY <1>2 DEF Poll
  <2>2. call'[c] = call[c] /\ UNCHANGED <<yielded, client>>
    BY <1>2, <2>1, TakeFacts DEF Elsewhere
  <2> QED BY <2>2 DEF Hidden
<1>3. ASSUME NEW t \in Threads, Turn(t, c), ~Crash PROVE Hidden(c)
  <2>1. Effect(t, c) /\ UNCHANGED <<yielded, client>>
    BY <1>3, TurnEffect DEF Elsewhere
  <2>2. call'[c].complete = call[c].complete
    BY <2>1 DEF Effect, Became, Call
  <2> QED BY <2>1, <2>2 DEF Hidden
<1> QED
  BY <1>1, <1>2, <1>3

(* Everything a unary call does is hidden. *)
LEMMA UnaryIsHidden ==
    ASSUME Typed, NEW c \in Calls, c \in Unary, Steps(c)
    PROVE  Hidden(c)
<1>1. c \notin Streams
  BY DEF Streams
<1>2. yielded'[c] = yielded[c]
  <2>1. CASE Poll(c) \/ \E t \in Threads : Turn(t, c)
    BY <2>1, TurnsAreHidden DEF Hidden
  <2>2. CASE Work(c)
    BY <1>1, <2>2 DEF Work, StartJob, ExecuteRequest, ProduceEvent, ServiceFails,
                MarkProducerComplete, EndJob, Crash
  <2>3. CASE PollClient(c) \/ Consume(c) \/ Invoke(c) \/ Abandon(c)
    BY <2>3 DEF PollClient, Consume, Invoke, Abandon, CompleteUnary, CompleteStart,
                CompleteRead, CompleteLastRead, CompleteFinish, WaitNext, StreamOver
  <2> QED BY <2>1, <2>2, <2>3 DEF Steps
<1> QED
  BY <1>1, <1>2 DEF Hidden

(* The producer: an event it queues is yielded, and then it is done. *)
LEMMA EnqueueIsShown ==
    ASSUME Typed, NEW c \in Calls, c \notin Unary, StreamLife(c), kind' = kind,
           \A d \in Calls \ {c} : Hidden(d),
           EnqueueEvent(c, yielded[c] + 1), job[c] = "running", yielded[c] < MaxEvents,
           yielded'[c] = IF call[c].clientClosed THEN yielded[c] ELSE yielded[c] + 1,
           client' = client
    PROVE  Channel!Next \/ UNCHANGED <<Sent, Completed, Seen, Ending>>
<1> DEFINE k == call[c]
<1>0. c \in Streams /\ c \in Streams'
  BY DEF Streams, Unary
<1>1. CASE k.clientClosed
  <2>1. call' = call /\ yielded'[c] = yielded[c]
    BY <1>1 DEF EnqueueEvent
  <2>2. Hidden(c)
    BY <2>1 DEF Hidden
  <2> QED BY <2>2, HiddenStep
<1>2. CASE ~k.clientClosed
  <2> DEFINE y == yielded[c]
             p == Append(k.pending, y + 1)
             j == [k EXCEPT !.pending = p]
  <2>1. k \in CallObjects /\ p \in Seq(Nat) /\ y \in Nat
    BY StreamTypes DEF Typed, CallObjects
  <2>2. Notify(c, j)
    BY <1>2, Zenon DEF EnqueueEvent
  <2>3. Call(j, k.state, k.refs, p, k.current, k.complete, k.clientClosed, k.notified)
    <3> HIDE DEF k, p
    <3> QED BY <2>1, CallWrites, Zenon
  <2> HIDE DEF j
  <2>4. Call(Alarmed(j), j.state, j.refs, j.pending, j.current, j.complete, j.clientClosed, TRUE)
    BY <2>3, CallWrites DEF Call
  <2>5. call'[c] = Alarmed(j)
    BY <2>2 DEF Notify, Typed
  <2>6. call'[c].complete = k.complete
    <3> HIDE DEF k
    <3> QED BY <2>3, <2>4, <2>5, Zenon DEF Call
  <2>7. ~k.complete
    BY DEF StreamLife, ServerSide
  <2>8. yielded'[c] = y + 1
    BY <1>2
  <2>9. ~Completed[c] /\ Completed'[c] = Completed[c]
    BY <1>0, <2>6, <2>7 DEF Completed
  <2>10. Seen'[c] = Seen[c] /\ Ending'[c] = Ending[c]
    BY <1>0 DEF Seen, Ending
  <2>11. Sent[c] = [i \in 1..y |-> i] /\ Sent'[c] = [i \in 1..(y + 1) |-> i]
    BY <2>8 DEF Sent
  <2>12. Len(Sent[c]) = y /\ Sent'[c] = Append(Sent[c], y + 1)
    <3>1. /\ [i \in 1..y |-> i] \in Seq(Nat) /\ Len([i \in 1..y |-> i]) = y
          /\ [i \in 1..(y + 1) |-> i] = Append([i \in 1..y |-> i], y + 1)
      <4> HIDE DEF y
      <4> QED BY <2>1
    <3> QED BY <2>11, <3>1
  <2> QED
    BY <2>9, <2>10, <2>12, ShownStep
<1> QED
  BY <1>1, <1>2

LEMMA WorkIsShown ==
    ASSUME Typed, NEW c \in Calls, c \notin Unary, StreamLife(c), kind' = kind, Work(c)
    PROVE  Channel!Next \/ UNCHANGED <<Sent, Completed, Seen, Ending>>
<1> DEFINE k == call[c]
<1>0. k \in CallObjects /\ c \in Streams /\ c \in Streams' /\ \A d \in Calls \ {c} : Hidden(d)
  BY OthersAreHidden DEF Steps, Typed, Streams, Unary
<1>1. ASSUME Hidden(c) PROVE UNCHANGED <<Sent, Completed, Seen, Ending>>
  BY <1>0, <1>1, HiddenStep
<1>2. CASE StartJob(c) \/ Crash
  <2>1. Hidden(c)
    BY <1>2 DEF StartJob, Crash, Hidden
  <2> QED BY <1>1, <2>1
<1>3. CASE ProduceEvent(c) /\ ~Freed(c)
  <2>1. yielded'[c] = IF call[c].clientClosed THEN yielded[c] ELSE yielded[c] + 1
    BY <1>3 DEF ProduceEvent, Typed
  <2>2. /\ EnqueueEvent(c, yielded[c] + 1) /\ job[c] = "running" /\ yielded[c] < MaxEvents
        /\ client' = client
    BY <1>3 DEF ProduceEvent
  <2> QED BY <1>0, <2>1, <2>2, EnqueueIsShown
<1>4. CASE ServiceFails(c)
  <2>1. yielded'[c] = IF call[c].clientClosed THEN yielded[c] ELSE yielded[c] + 1
    BY <1>4 DEF ServiceFails, Typed
  <2>2. /\ EnqueueEvent(c, yielded[c] + 1) /\ job[c] = "running" /\ yielded[c] < MaxEvents
        /\ client' = client
    BY <1>4 DEF ServiceFails
  <2> QED BY <1>0, <2>1, <2>2, EnqueueIsShown
<1>5. CASE MarkProducerComplete(c) /\ ~Freed(c)
  <2> DEFINE j == [k EXCEPT !.complete = TRUE]
  <2>1. Call(j, k.state, k.refs, k.pending, k.current, TRUE, k.clientClosed, k.notified)
    BY <1>0, CallWrites, Zenon
  <2>2. Notify(c, j)
    BY <1>5, Zenon DEF MarkProducerComplete
  <2> HIDE DEF j
  <2>3. Call(Alarmed(j), j.state, j.refs, j.pending, j.current, j.complete, j.clientClosed, TRUE)
    BY <2>1, CallWrites DEF Call
  <2>4. call'[c] = Alarmed(j)
    BY <2>2 DEF Notify, Typed
  <2>5. call'[c].complete = TRUE
    BY <2>1, <2>3, <2>4, Zenon DEF Call
  <2>6. job[c] = "yielded" /\ yielded' = yielded /\ client' = client
    BY <1>5 DEF MarkProducerComplete
  <2>7. ~k.complete
    BY <2>6 DEF StreamLife, ServerSide
  <2>8. ~Completed[c] /\ Completed'[c] = TRUE
    BY <1>0, <2>5, <2>7 DEF Completed
  <2>9. Sent'[c] = Sent[c] /\ Seen'[c] = Seen[c] /\ Ending'[c] = Ending[c]
    BY <1>0, <2>6 DEF Sent, Seen, Ending
  <2> QED
    BY <1>0, <2>8, <2>9, ShownStep
<1>6. CASE EndJob(c) /\ ~Freed(c)
  <2> DEFINE j == Release(k)
  <2>1. Call(j, k.state, k.refs - 1, k.pending, k.current, k.complete, k.clientClosed, k.notified)
    BY <1>0, StateWrites
  <2>2. call'[c] = j /\ yielded' = yielded /\ client' = client
    BY <1>6 DEF EndJob, Typed
  <2>3. call'[c].complete = k.complete
    <3> HIDE DEF j, k
    <3> QED BY <2>1, <2>2, Zenon DEF Call
  <2>4. Hidden(c)
    BY <2>2, <2>3 DEF Hidden
  <2> QED BY <1>1, <2>4
<1>7. CASE ExecuteRequest(c)
  BY <1>7 DEF ExecuteRequest
<1> QED
  BY <1>2, <1>3, <1>4, <1>5, <1>6, <1>7
     DEF Work, ProduceEvent, MarkProducerComplete, EndJob

(* The consumer: an event it takes was received, a transport error breaks  *)
(* the channel, and so does walking away; when it sees the end, it has     *)
(* received every event.                                                   *)
LEMMA NoErrorYet ==
    ASSUME Typed, NEW c \in Calls, StreamLife(c), client[c].over = "no",
           \/ client[c].inbox # <<>>
           \/ \A i \in 1..Got(c) : client[c].got[i] # TransportError
    PROVE  /\ Delivered(client[c]) = client[c].got
           /\ Outcome(client[c]) = "open"
           /\ \A i \in 1..Got(c) : client[c].got[i] = i /\ i <= yielded[c]
<1> DEFINE k == client[c]
           g == Len(k.got)
           n == Len(k.inbox)
<1>1. /\ k.got \in Seq(Nat) /\ g \in Nat /\ n \in Nat /\ DOMAIN k.got = 1..g
      /\ k.inbox # <<>> => n > 0
  <2>1. k.got \in Seq(Nat) /\ k.inbox \in Seq(Nat)
    BY StreamTypes
  <2> QED BY <2>1
<1>2. \A i \in 1..g : \/ k.got[i] = i /\ i <= yielded[c]
                      \/ k.got[i] = TransportError /\ i = g + n /\ k.closed
  BY DEF StreamLife, Flow, FlowOf
<1>3. ASSUME NEW i \in 1..g PROVE k.got[i] = i /\ i <= yielded[c] /\ k.got[i] # TransportError
  <2>1. CASE k.inbox # <<>>
    <3>1. i # g + n /\ i # 0
      <4> HIDE DEF g, n, k
      <4> QED BY <1>1, <2>1
    <3> HIDE DEF g, n, k
    <3> QED BY <1>2, <3>1 DEF TransportError
  <2>2. CASE \A m \in 1..Got(c) : client[c].got[m] # TransportError
    BY <1>2, <2>2 DEF Got
  <2> QED BY <2>1, <2>2
<1>4. Delivered(k) = k.got
  <2>1. g > 0 => k.got[g] # TransportError
    <3> HIDE DEF g
    <3> QED BY <1>1, <1>3
  <2> QED BY <2>1 DEF Delivered
<1>5. Outcome(k) = "open"
  <2>1. TransportError \notin {k.got[i] : i \in DOMAIN k.got}
    BY <1>1, <1>3
  <2> QED BY <2>1 DEF Outcome
<1> QED
  BY <1>3, <1>4, <1>5 DEF Got

LEMMA WaitNextIsShown ==
    ASSUME Typed, NEW c \in Calls, c \notin Unary, StreamLife(c), kind' = kind, WaitNext(c)
    PROVE  Channel!Next
<1> DEFINE k == client[c]
           g == Len(k.got)
           e == Head(k.inbox)
           j == Take(k)
           y == yielded[c]
<1>0. c \in Streams /\ c \in Streams' /\ \A d \in Calls \ {c} : Hidden(d)
  BY OthersAreHidden DEF Steps, Consume, Streams, Unary
<1>1. /\ k \in ClientObjects /\ k.got \in Seq(Nat) /\ k.inbox \in Seq(Nat) /\ y \in Nat
      /\ k.inbox # <<>> /\ k.over = "no"
      /\ client' = [client EXCEPT ![c] = j] /\ UNCHANGED <<call, yielded>>
  BY StreamTypes DEF WaitNext, Typed
<1>2. e \in Nat /\ g \in Nat /\ Len(k.inbox) \in Nat /\ e = k.inbox[1] /\ Len(k.inbox) > 0
  BY <1>1
<1>3. /\ Delivered(k) = k.got /\ Outcome(k) = "open"
      /\ \A i \in 1..g : k.got[i] = i /\ i <= y
  BY <1>1, NoErrorYet DEF Got
<1>4. \/ e = g + 1 /\ g + 1 <= y
      \/ e = TransportError
  <2>1. \A i \in 1..Len(k.inbox) : \/ k.inbox[i] = g + i /\ g + i <= y
                                   \/ k.inbox[i] = TransportError
    BY DEF StreamLife, Flow, FlowOf
  <2>2. 1 \in 1..Len(k.inbox)
    BY <1>2
  <2> QED BY <1>2, <2>1, <2>2
<1>5. Client(j, k.state, Tail(k.inbox), k.closed, k.cancelled, Append(k.got, e), k.over)
  BY <1>1, TakeForm
<1>6. client'[c] = j
  <2> HIDE DEF j
  <2> QED BY <1>1 DEF Typed
<1> HIDE DEF j
<1>7. j.got = Append(k.got, e) /\ j.over = "no"
  BY <1>1, <1>5 DEF Client
<1>8. /\ Sent'[c] = Sent[c] /\ Completed'[c] = Completed[c]
      /\ Seen[c] = k.got /\ Ending[c] = "open"
      /\ Seen'[c] = Delivered(j) /\ Ending'[c] = Outcome(j)
  <2>1. Sent'[c] = Sent[c] /\ Completed'[c] = Completed[c]
    BY <1>0, <1>1 DEF Sent, Completed
  <2>2. Seen[c] = k.got /\ Ending[c] = "open"
    BY <1>0, <1>3 DEF Seen, Ending
  <2>3. Seen'[c] = Delivered(j) /\ Ending'[c] = Outcome(j)
    BY <1>0, <1>6 DEF Seen, Ending
  <2> QED BY <2>1, <2>2, <2>3
<1> DEFINE h == Append(k.got, e)
<1>9. /\ h \in Seq(Nat) /\ Len(h) = g + 1 /\ h[g + 1] = e /\ \A i \in 1..g : h[i] = k.got[i]
      /\ DOMAIN h = 1..(g + 1)
  BY <1>1, <1>2
<1>10. Sent[c] = [i \in 1..y |-> i] /\ Len(Sent[c]) = y
  <2>1. Len([i \in 1..y |-> i]) = y
    <3> HIDE DEF y
    <3> QED BY <1>1
  <2>2. Sent[c] = [i \in 1..y |-> i]
    BY DEF Sent
  <2> QED BY <2>1, <2>2
<1>11. CASE e = g + 1 /\ g + 1 <= y
  <2>1. Delivered(j) = h
    <3>1. h[g + 1] # TransportError /\ Len(j.got) = g + 1
      BY <1>2, <1>7, <1>9, <1>11 DEF TransportError
    <3> QED BY <1>2, <1>7, <3>1 DEF Delivered
  <2>2. Outcome(j) = "open"
    <3>1. ASSUME NEW i \in 1..(g + 1) PROVE h[i] # TransportError
      <4> HIDE DEF g, h, e, k
      <4>1. i \in 1..g \/ i = g + 1
        BY <1>2
      <4> QED BY <1>2, <1>3, <1>9, <1>11, <4>1 DEF TransportError
    <3>2. TransportError \notin {j.got[i] : i \in DOMAIN j.got}
      BY <1>7, <1>9, <3>1
    <3> QED BY <1>7, <3>2 DEF Outcome
  <2>3. Len(Seen[c]) < Len(Sent[c]) /\ Sent[c][Len(Seen[c]) + 1] = e
    <3>1. g + 1 \in 1..y /\ g < y
      BY <1>1, <1>2, <1>11
    <3> QED BY <1>8, <1>10, <1>11, <3>1
  <2> HIDE DEF g, e
  <2> QED
    BY <1>0, <1>8, <2>1, <2>2, <2>3, ShownStep DEF h
<1>12. CASE e = TransportError
  <2>1. Delivered(j) = k.got
    <3>1. Delivered(j) = SubSeq(h, 1, g)
      <4>1. Len(j.got) = g + 1 /\ j.got[g + 1] = TransportError /\ g + 1 > 0 /\ (g + 1) - 1 = g
        BY <1>2, <1>7, <1>9, <1>12
      <4> QED BY <1>7, <4>1 DEF Delivered
    <3>2. SubSeq(h, 1, g) = k.got
      BY <1>1, <1>2, <1>9
    <3> QED BY <3>1, <3>2
  <2>2. Outcome(j) = "broken"
    <3>1. g + 1 \in DOMAIN j.got /\ j.got[g + 1] = TransportError
      BY <1>2, <1>7, <1>9, <1>12
    <3> QED BY <3>1 DEF Outcome
  <2> QED
    BY <1>0, <1>8, <2>1, <2>2, ShownStep
<1> QED
  BY <1>4, <1>11, <1>12

LEMMA StreamOverIsShown ==
    ASSUME Typed, NEW c \in Calls, c \notin Unary, StreamLife(c), kind' = kind, StreamOver(c)
    PROVE  Channel!Next \/ UNCHANGED <<Sent, Completed, Seen, Ending>>
<1> DEFINE k == client[c]
           g == Len(k.got)
           j == [k EXCEPT !.over = "ended"]
           y == yielded[c]
           Failed == TransportError \in {k.got[i] : i \in DOMAIN k.got}
<1>0. c \in Streams /\ c \in Streams' /\ \A d \in Calls \ {c} : Hidden(d)
  BY OthersAreHidden DEF Steps, Consume, Streams, Unary
<1>1. /\ client' = [client EXCEPT ![c] = j] /\ k.over = "no" /\ k.inbox = <<>> /\ k.closed
      /\ UNCHANGED <<call, yielded>>
  BY Zenon DEF StreamOver
<1>2. k \in ClientObjects /\ k.got \in Seq(Nat) /\ y \in Nat
  BY StreamTypes DEF Typed
<1>3. Client(j, k.state, k.inbox, k.closed, k.cancelled, k.got, "ended")
  BY <1>2, ClientWrites, Zenon
<1> HIDE DEF j
<1>4. client'[c] = j /\ j.got = k.got /\ j.over = "ended"
  <2>1. client'[c] = j
    BY <1>1 DEF Typed
  <2> QED BY <1>3, <2>1, Zenon DEF Client
<1>5. Sent'[c] = Sent[c] /\ Completed'[c] = Completed[c]
  BY <1>0, <1>1 DEF Sent, Completed
<1>6. Seen'[c] = Seen[c]
  BY <1>0, <1>4 DEF Seen, Delivered
<1>7. Ending[c] = Outcome(k) /\ Ending'[c] = Outcome(j)
  BY <1>0, <1>4 DEF Ending
<1>8. CASE Failed
  <2>1. Ending'[c] = Ending[c]
    BY <1>4, <1>7, <1>8 DEF Outcome
  <2>2. \A d \in Calls : /\ Sent'[d] = Sent[d] /\ Completed'[d] = Completed[d]
                         /\ Seen'[d] = Seen[d] /\ Ending'[d] = Ending[d]
    BY <1>0, <1>5, <1>6, <2>1, HiddenFields
  <2> QED BY <2>2 DEF Sent, Completed, Seen, Ending
<1>9. CASE ~Failed
  <2>1. /\ g \in Nat /\ DOMAIN k.got = 1..g /\ Len(k.inbox) = 0
        /\ \A i \in 1..g : k.got[i] # TransportError
    BY <1>1, <1>2, <1>9
  <2>2. Clean(c)
    BY <2>1 DEF Clean, Got
  <2>3. conn[c] = "ok" /\ Received(c) = y
    BY <1>1, <2>2 DEF StreamLife, ClientSide
  <2>4. g = y
    BY <2>1, <2>3 DEF Received, Got
  <2>5. call[c].complete
    BY <2>3 DEF StreamLife, ServerSide
  <2>6. /\ Delivered(k) = k.got /\ Outcome(k) = "open"
        /\ \A i \in 1..g : k.got[i] = i
    BY <1>1, <2>1, NoErrorYet DEF Got
  <2>7. k.got = [i \in 1..y |-> i]
    <3> HIDE DEF k
    <3> QED BY <1>2, <2>1, <2>4, <2>6
  <2>8. Seen[c] = Sent[c] /\ Completed[c]
    BY <1>0, <2>5, <2>6, <2>7 DEF Seen, Sent, Completed
  <2>9. Ending[c] = "open" /\ Ending'[c] = "ended"
    BY <1>4, <1>7, <1>9, <2>6 DEF Outcome
  <2> QED
    BY <1>0, <1>5, <1>6, <2>8, <2>9, ShownStep
<1> QED
  BY <1>8, <1>9

LEMMA AbandonIsShown ==
    ASSUME Typed, NEW c \in Calls, c \notin Unary, StreamLife(c), kind' = kind, Abandon(c)
    PROVE  Channel!Next \/ UNCHANGED <<Sent, Completed, Seen, Ending>>
<1> DEFINE k == client[c]
           j == WalkAway(k)
<1>0. c \in Streams /\ c \in Streams' /\ \A d \in Calls \ {c} : Hidden(d)
  BY OthersAreHidden DEF Steps, Streams, Unary
<1>1. /\ client' = [client EXCEPT ![c] = j] /\ k.over = "no" /\ UNCHANGED <<call, yielded>>
  BY DEF Abandon
<1>2. Client(j, k.state, k.inbox, k.closed, ~k.closed, k.got, "abandoned")
  BY WalkAwayForm DEF Typed
<1> HIDE DEF j
<1>3. client'[c] = j /\ j.got = k.got /\ j.over = "abandoned"
  <2>1. client'[c] = j
    BY <1>1 DEF Typed
  <2> QED BY <1>2, <2>1, Zenon DEF Client
<1>4. Sent'[c] = Sent[c] /\ Completed'[c] = Completed[c]
  BY <1>0, <1>1 DEF Sent, Completed
<1>5. Seen'[c] = Seen[c]
  BY <1>0, <1>3 DEF Seen, Delivered
<1>6. Ending[c] \in {"open", "broken"} /\ Ending'[c] = "broken"
  BY <1>0, <1>1, <1>3 DEF Ending, Outcome
<1>7. CASE Ending[c] = "open"
  BY <1>0, <1>4, <1>5, <1>6, <1>7, ShownStep
<1>8. CASE Ending[c] = "broken"
  <2>1. \A d \in Calls : /\ Sent'[d] = Sent[d] /\ Completed'[d] = Completed[d]
                         /\ Seen'[d] = Seen[d] /\ Ending'[d] = Ending[d]
    BY <1>0, <1>4, <1>5, <1>6, <1>8, HiddenFields
  <2> QED BY <2>1 DEF Sent, Completed, Seen, Ending
<1> QED
  BY <1>6, <1>7, <1>8

(* The client's own steps are hidden: the consumer has not looked yet. *)
LEMMA ClientIsHidden ==
    ASSUME Typed, NEW c \in Calls, c \notin Unary, PollClient(c) \/ Invoke(c)
    PROVE  Hidden(c)
<1> DEFINE k == client[c]
<1>0. k \in ClientObjects /\ wire[c] \in Seq(Nat)
  BY DEF Typed
<1>1. ASSUME NEW j, client' = [client EXCEPT ![c] = j], j.got = k.got, j.over = k.over,
             UNCHANGED <<call, yielded>>
      PROVE  Hidden(c)
  BY <1>1 DEF Hidden, Typed
<1>2. \A x \in ClientStates : /\ [k EXCEPT !.state = x].got = k.got
                              /\ [k EXCEPT !.state = x].over = k.over
  BY <1>0, ClientWrites, Zenon DEF Client
<1>3. /\ Fails(k).got = k.got /\ Fails(k).over = k.over
      /\ Close(k).got = k.got /\ Close(k).over = k.over
  BY <1>0, FailsForm, CloseForm, Zenon DEF Client
<1>4. ASSUME NEW ok \in BOOLEAN, CompleteStart(c, ok) PROVE Hidden(c)
  <2> DEFINE j == IF ok THEN [k EXCEPT !.state = "Reading"] ELSE Fails(k)
  <2>1. client' = [client EXCEPT ![c] = j] /\ UNCHANGED <<call, yielded>>
    BY <1>4, Zenon DEF CompleteStart
  <2>2. j.got = k.got /\ j.over = k.over
    BY <1>2, <1>3, Zenon DEF ClientStates
  <2> HIDE DEF j
  <2> QED BY <1>1, <2>1, <2>2
<1>5. CASE CompleteRead(c)
  <2> DEFINE e == Head(wire[c])
             j == Push(k, e)
  <2>1. client' = [client EXCEPT ![c] = j] /\ UNCHANGED <<call, yielded>> /\ wire[c] # <<>>
    BY <1>5 DEF CompleteRead
  <2>2. e \in Nat
    BY <1>0, <2>1
  <2>3. j.got = k.got /\ j.over = k.over
    <3> HIDE DEF e, k
    <3> QED BY <1>0, <2>2, PushForm, Zenon DEF Client
  <2> HIDE DEF j
  <2> QED BY <1>1, <2>1, <2>3
<1>6. CASE CompleteLastRead(c)
  <2> DEFINE j == [k EXCEPT !.state = "Finishing"]
  <2>1. client' = [client EXCEPT ![c] = j] /\ UNCHANGED <<call, yielded>>
    BY <1>6, Zenon DEF CompleteLastRead
  <2>2. j.got = k.got /\ j.over = k.over
    BY <1>2, Zenon DEF ClientStates
  <2> HIDE DEF j
  <2> QED BY <1>1, <2>1, <2>2
<1>7. CASE CompleteFinish(c)
  <2> DEFINE j == IF conn[c] = "ok" THEN Close(k) ELSE Fails(k)
  <2>1. client' = [client EXCEPT ![c] = j] /\ UNCHANGED <<call, yielded>>
    BY <1>7, Zenon DEF CompleteFinish
  <2>2. j.got = k.got /\ j.over = k.over
    BY <1>3, Zenon
  <2> HIDE DEF j
  <2> QED BY <1>1, <2>1, <2>2
<1>8. CASE Invoke(c)
  <2> DEFINE j == [k EXCEPT !.state = "Starting"]
  <2>1. client' = [client EXCEPT ![c] = j] /\ UNCHANGED <<call, yielded>>
    BY <1>8, Zenon DEF Invoke
  <2>2. j.got = k.got /\ j.over = k.over
    BY <1>2, Zenon DEF ClientStates
  <2> HIDE DEF j
  <2> QED BY <1>1, <2>1, <2>2
<1> QED
  BY <1>4, <1>5, <1>6, <1>7, <1>8 DEF PollClient, CompleteUnary

LEMMA StepImplementsChannel ==
    ASSUME Typed, StreamInv, [Next]_vars
    PROVE  Channel!Next \/ UNCHANGED <<Sent, Completed, Seen, Ending>>
<1>0. kind' = kind
  BY StepKeepsKind
<1>1. ASSUME NEW c \in Calls, Steps(c)
      PROVE  Channel!Next \/ UNCHANGED <<Sent, Completed, Seen, Ending>>
  <2>0. ASSUME Hidden(c) PROVE UNCHANGED <<Sent, Completed, Seen, Ending>>
    BY <1>0, <1>1, <2>0, HiddenStep, OthersAreHidden
  <2>1. CASE c \in Unary
    BY <1>1, <2>0, <2>1, UnaryIsHidden
  <2>2. CASE c \notin Unary
    <3>1. StreamLife(c)
      BY <2>2 DEF StreamInv, Streams
    <3>2. CASE Poll(c) \/ \E t \in Threads : Turn(t, c)
      BY <2>0, <3>2, TurnsAreHidden
    <3>3. CASE Work(c)
      BY <1>0, <2>2, <3>1, <3>3, WorkIsShown
    <3>4. CASE PollClient(c) \/ Invoke(c)
      BY <2>0, <2>2, <3>4, ClientIsHidden
    <3>5. CASE Consume(c)
      BY <1>0, <2>2, <3>1, <3>5, WaitNextIsShown, StreamOverIsShown DEF Consume
    <3>6. CASE Abandon(c)
      BY <1>0, <2>2, <3>1, <3>6, AbandonIsShown
    <3> QED BY <1>1, <3>2, <3>3, <3>4, <3>5, <3>6 DEF Steps
  <2> QED BY <2>1, <2>2
<1>2. CASE (\E c \in Calls : BreakCall(c)) \/ StopServer \/ ServerStopped \/ UNCHANGED vars
  <2>1. \A d \in Calls : Hidden(d)
    BY <1>2, BreaksAreSteady DEF Steady, Hidden
  <2> QED BY <1>0, <2>1, HiddenStep
<1> QED
  BY <1>1, <1>2 DEF Next, Steps

LEMMA InitImplementsChannel == Init => Channel!Init
<1> SUFFICES ASSUME Init PROVE Channel!Init
  OBVIOUS
<1>1. ASSUME NEW c \in Calls
      PROVE  /\ [i \in 1..yielded[c] |-> i] = <<>>
             /\ (c \in Streams /\ call[c].complete) = FALSE
             /\ (IF c \in Streams THEN Delivered(client[c]) ELSE <<>>) = <<>>
             /\ (IF c \in Streams THEN Outcome(client[c]) ELSE "open") = "open"
  <2>1. call[c] = NewCall /\ client[c] = NewClient /\ yielded[c] = 0
    BY <1>1 DEF Init
  <2>2. NewClient.got = <<>> /\ NewClient.over = "no" /\ NewCall.complete = FALSE
    BY DEF NewClient, NewCall
  <2>3. [i \in 1..0 |-> i] = <<>>
    OBVIOUS
  <2>4. Delivered(NewClient) = <<>>
    BY <2>2 DEF Delivered
  <2>5. Outcome(NewClient) = "open"
    BY <2>2 DEF Outcome
  <2> QED BY <2>1, <2>2, <2>3, <2>4, <2>5
<1> QED
  BY <1>1, Zenon DEF Channel!Init

(* With one thread on the queue: whatever breaks, is cancelled, is stopped *)
(* or crashes, and in whatever order the tags of a stream come back, its   *)
(* consumer sees the service's events in order and without gaps, and an    *)
(* end without an error only after the last of them.                       *)
THEOREM StreamsImplementChannel ==
    ASSUME OneThread
    PROVE  Spec => ImplementsChannel
<1> DEFINE Inv == Typed /\ StreamInv
<1>1. Init => Inv
  BY InitTyped, InitStreams
<1>2. Inv /\ [Next]_vars => Inv'
  BY NextTyped, StreamInvInductive
<1>3. Inv /\ [Next]_vars => [Channel!Next]_<<Sent, Completed, Seen, Ending>>
  BY StepImplementsChannel
<1> HIDE DEF Inv
<1> QED
  BY <1>1, <1>2, <1>3, InitImplementsChannel, PTL
     DEF Spec, ImplementsChannel, Channel!Spec, Sent, Completed, Seen, Ending

-----------------------------------------------------------------------------
(***************************************************************************)
(* The order of events, with any number of threads.  Threads may take each *)
(* other's event or write one twice, but the events pending are always the *)
(* next ones after the one taken last, and a write puts that one behind    *)
(* all that were written before.                                           *)
(***************************************************************************)
Rising(s) ==
    \A i, j \in 1..Len(s) :
        i < j => s[i] # TransportError /\ (s[j] = TransportError \/ s[i] <= s[j])

Upto(s, n) == \A i \in 1..Len(s) : s[i] <= n

NoError(s) == \A i \in 1..Len(s) : s[i] # TransportError

(* What the consumer has seen, will see or may yet see of what was sent. *)
Shown(c) ==
    IF client[c].closed THEN client[c].got \o client[c].inbox
    ELSE (client[c].got \o client[c].inbox) \o wire[c]

(* The events the server holds. *)
Numbered(c) ==
    LET k == call[c] IN
    /\ k.current + Len(k.pending) <= yielded[c]
    /\ ~k.clientClosed => k.current + Len(k.pending) = yielded[c]
    /\ \A i \in 1..Len(k.pending) : k.pending[i] = k.current + i
    /\ Held(c) => k.current > 0

Ordered(c) ==
    /\ client[c].closed <=> client[c].state = "Completed"
    /\ Rising(Shown(c)) /\ Upto(Shown(c), call[c].current)
    /\ ~client[c].closed => NoError(Shown(c))

OrderInv == \A c \in Streams : Numbered(c) /\ Ordered(c)

LEMMA PassOn ==
    ASSUME NEW s \in Seq(Nat), NEW r \in Seq(Nat), r # <<>>
    PROVE  Append(s, Head(r)) \o Tail(r) = s \o r
OBVIOUS

LEMMA PrefixInOrder ==
    ASSUME NEW s \in Seq(Nat), NEW r \in Seq(Nat), NEW n \in Nat
    PROVE  /\ s \o r \in Seq(Nat)
           /\ Rising(s \o r) => Rising(s)
           /\ Upto(s \o r, n) => Upto(s, n)
           /\ NoError(s \o r) => NoError(s)
<1>1. /\ s \o r \in Seq(Nat) /\ Len(s \o r) = Len(s) + Len(r) /\ Len(s) \in Nat /\ Len(r) \in Nat
      /\ \A i \in 1..Len(s) : (s \o r)[i] = s[i]
  OBVIOUS
<1>2. \A i \in 1..Len(s) : i \in 1..Len(s \o r)
  BY <1>1
<1>3. Rising(s \o r) => Rising(s)
  BY <1>1, <1>2 DEF Rising
<1>4. Upto(s \o r, n) => Upto(s, n)
  BY <1>1, <1>2 DEF Upto
<1>5. NoError(s \o r) => NoError(s)
  BY <1>1, <1>2 DEF NoError
<1> QED BY <1>1, <1>3, <1>4, <1>5

LEMMA AppendInOrder ==
    ASSUME NEW s \in Seq(Nat), NEW e \in Nat, NEW n \in Nat, Rising(s), Upto(s, n), NoError(s),
           e = n \/ e = TransportError
    PROVE  /\ Append(s, e) \in Seq(Nat) /\ Rising(Append(s, e)) /\ Upto(Append(s, e), n)
           /\ e # TransportError => NoError(Append(s, e))
<1> DEFINE r == Append(s, e)
           m == Len(s)
<1>1. /\ r \in Seq(Nat) /\ m \in Nat /\ Len(r) = m + 1 /\ r[m + 1] = e
      /\ \A i \in 1..m : r[i] = s[i] /\ s[i] \in Nat
  OBVIOUS
<1>2. /\ \A i \in 1..m : s[i] <= n /\ s[i] # TransportError
      /\ \A i, j \in 1..m : i < j => s[i] # TransportError /\ (s[j] = TransportError \/ s[i] <= s[j])
  BY DEF Rising, Upto, NoError
<1> HIDE DEF r, m
<1>3. \A i \in 1..(m + 1) : i \in 1..m \/ i = m + 1
  BY <1>1
<1>4. ASSUME NEW i \in 1..(m + 1), NEW j \in 1..(m + 1), i < j
      PROVE  r[i] # TransportError /\ (r[j] = TransportError \/ r[i] <= r[j])
  <2>1. i \in 1..m
    BY <1>1, <1>4
  <2>2. CASE j \in 1..m
    BY <1>1, <1>2, <1>4, <2>1, <2>2
  <2>3. CASE j = m + 1
    BY <1>1, <1>2, <2>1, <2>3
  <2> QED BY <1>3, <2>2, <2>3
<1>5. ASSUME NEW i \in 1..(m + 1)
      PROVE  r[i] <= n /\ (e # TransportError => r[i] # TransportError)
  <2>1. e <= n
    BY DEF TransportError
  <2> QED BY <1>1, <1>2, <1>3, <2>1
<1> QED BY <1>1, <1>4, <1>5 DEF Rising, Upto, NoError, r

LEMMA UptoMore ==
    ASSUME NEW s \in Seq(Nat), NEW n \in Nat, NEW m \in Nat, n <= m, Upto(s, n)
    PROVE  Upto(s, m)
<1>1. \A i \in 1..Len(s) : s[i] \in Nat
  OBVIOUS
<1> QED BY <1>1 DEF Upto

LEMMA ShownTypes ==
    ASSUME Typed, NEW c \in Calls
    PROVE  Shown(c) \in Seq(Nat)
<1>1. client[c].got \in Seq(Nat) /\ client[c].inbox \in Seq(Nat) /\ wire[c] \in Seq(Nat)
  BY StreamTypes
<1>2. \A s, r \in Seq(Nat) : s \o r \in Seq(Nat)
  BY ConcatProperties
<1> QED BY <1>1, <1>2, Zenon DEF Shown

(* What a step of its client does to what a stream shows. *)
LEMMA ClientKeepsOrder ==
    ASSUME Typed, NEW c \in Calls, c \notin Unary, Ordered(c),
           PollClient(c) \/ Consume(c) \/ Invoke(c) \/ Abandon(c)
    PROVE  Ordered(c)' /\ UNCHANGED <<call, turn, yielded>>
<1> DEFINE k == client[c]
           cur == call[c].current
<1>0. /\ k \in ClientObjects /\ k.got \in Seq(Nat) /\ k.inbox \in Seq(Nat)
      /\ wire[c] \in Seq(Nat) /\ cur \in Nat /\ k.closed \in BOOLEAN /\ Shown(c) \in Seq(Nat)
  BY StreamTypes, ShownTypes DEF Typed, ClientObjects
<1>1. k.closed <=> k.state = "Completed"
  BY DEF Ordered
<1>2. /\ client \in [Calls -> ClientObjects] /\ wire \in [Calls -> Seq(Nat)]
      /\ "Starting" \in ClientStates /\ "Reading" \in ClientStates /\ "Finishing" \in ClientStates
  BY DEF Typed, ClientStates
<1>3. \A x \in ClientStates :
         Client([k EXCEPT !.state = x], x, k.inbox, k.closed, k.cancelled, k.got, k.over)
  BY <1>0, ClientWrites
(* The consumer is shown what it was shown before. *)
<1>4. ASSUME NEW j \in ClientObjects, client' = [client EXCEPT ![c] = j],
             UNCHANGED <<call, turn, yielded>>,
             j.closed <=> j.state = "Completed", j.closed = k.closed,
             IF k.closed THEN j.got \o j.inbox = k.got \o k.inbox
             ELSE (j.got \o j.inbox) \o wire'[c] = (k.got \o k.inbox) \o wire[c]
      PROVE  Ordered(c)' /\ UNCHANGED <<call, turn, yielded>>
  <2>1. client'[c] = j
    BY <1>2, <1>4
  <2>2. Shown(c)' = Shown(c)
    BY <1>4, <2>1 DEF Shown
  <2> QED BY <1>4, <2>1, <2>2 DEF Ordered
<1>5. ASSUME NEW j \in ClientObjects, client' = [client EXCEPT ![c] = j],
             UNCHANGED <<call, turn, yielded, wire>>,
             j.state = "Completed" <=> k.state = "Completed",
             j.closed = k.closed, j.got = k.got, j.inbox = k.inbox
      PROVE  Ordered(c)' /\ UNCHANGED <<call, turn, yielded>>
  BY <1>1, <1>4, <1>5
(* The stream is closed: what was not read is gone. *)
<1>6. ASSUME NEW j \in ClientObjects, client' = [client EXCEPT ![c] = j],
             UNCHANGED <<call, turn, yielded>>, k.state # "Completed",
             j.state = "Completed", j.closed = TRUE, j.got = k.got,
             j.inbox = k.inbox \/ j.inbox = Append(k.inbox, TransportError)
      PROVE  Ordered(c)' /\ UNCHANGED <<call, turn, yielded>>
  <2>1. client'[c] = j /\ ~k.closed
    BY <1>1, <1>2, <1>6
  <2>2. PICK s \in Seq(Nat) : s = k.got \o k.inbox
    BY <1>0, ConcatProperties
  <2>3. Shown(c) = s \o wire[c] /\ Shown(c)' = j.got \o j.inbox
    BY <1>6, <2>1, <2>2 DEF Shown
  <2>4. Rising(s) /\ Upto(s, cur) /\ NoError(s)
    <3>1. Rising(s \o wire[c]) /\ Upto(s \o wire[c], cur) /\ NoError(s \o wire[c])
      BY <2>1, <2>3 DEF Ordered
    <3> HIDE DEF cur
    <3> QED BY <1>0, <3>1, PrefixInOrder
  <2>5. j.got \o j.inbox = s \/ j.got \o j.inbox = Append(s, TransportError)
    <3>1. CASE j.inbox = k.inbox
      BY <1>6, <2>2, <3>1
    <3>2. CASE j.inbox = Append(k.inbox, TransportError)
      <4>1. \A a, b \in Seq(Nat), e \in Nat : a \o Append(b, e) = Append(a \o b, e)
        OBVIOUS
      <4>2. TransportError \in Nat
        BY DEF TransportError
      <4>3. k.got \o Append(k.inbox, TransportError) = Append(k.got \o k.inbox, TransportError)
        BY <1>0, <4>1, <4>2, Zenon
      <4> QED BY <1>6, <2>2, <3>2, <4>3
    <3> QED BY <1>6, <3>1, <3>2
  <2>6. Rising(Shown(c)') /\ Upto(Shown(c)', cur)
    <3>1. TransportError \in Nat
      BY DEF TransportError
    <3>2. Rising(Append(s, TransportError)) /\ Upto(Append(s, TransportError), cur)
      <4> HIDE DEF cur
      <4> QED BY <1>0, <2>4, <3>1, AppendInOrder
    <3> QED BY <2>3, <2>4, <2>5, <3>2
  <2> QED BY <1>6, <2>1, <2>6 DEF Ordered
<1>7. ASSUME client' = [client EXCEPT ![c] = Fails(k)], k.state # "Completed",
             UNCHANGED <<call, turn, yielded>>
      PROVE  Ordered(c)' /\ UNCHANGED <<call, turn, yielded>>
  <2>1. Client(Fails(k), "Completed", k.inbox, TRUE, k.cancelled, k.got, k.over)
        \/ Client(Fails(k), "Completed", Append(k.inbox, TransportError), TRUE, k.cancelled,
                  k.got, k.over)
    BY <1>0, FailsForm
  <2> QED BY <1>6, <1>7, <2>1 DEF Client
<1>8. ASSUME NEW ok \in BOOLEAN, CompleteStart(c, ok)
      PROVE  Ordered(c)' /\ UNCHANGED <<call, turn, yielded>>
  <2>0. UNCHANGED <<call, turn, yielded, wire>> /\ k.state = "Starting"
    BY <1>8 DEF CompleteStart
  <2>1. CASE ok
    <3> DEFINE j == [k EXCEPT !.state = "Reading"]
    <3>1. client' = [client EXCEPT ![c] = j]
      BY <1>8, <2>1, Zenon DEF CompleteStart
    <3>2. Client(j, "Reading", k.inbox, k.closed, k.cancelled, k.got, k.over)
      BY <1>2, <1>3, Zenon
    <3> HIDE DEF j
    <3> QED BY <1>5, <2>0, <3>1, <3>2 DEF Client
  <2>2. CASE ~ok
    <3>1. client' = [client EXCEPT ![c] = Fails(k)]
      BY <1>8, <2>2, Zenon DEF CompleteStart
    <3> QED BY <1>7, <2>0, <3>1
  <2> QED BY <2>1, <2>2
<1>9. CASE CompleteRead(c)
  <2> DEFINE e == Head(wire[c])
             j == Push(k, e)
  <2>1. /\ client' = [client EXCEPT ![c] = j] /\ wire' = [wire EXCEPT ![c] = Tail(@)]
        /\ UNCHANGED <<call, turn, yielded>> /\ wire[c] # <<>> /\ k.state = "Reading"
    BY <1>9 DEF CompleteRead
  <2>2. e \in Nat
    BY <1>0, <2>1
  <2>3. Client(j, k.state, Append(k.inbox, e), k.closed, k.cancelled, k.got, k.over)
    BY <1>0, <2>2, PushForm
  <2>4. wire'[c] = Tail(wire[c]) /\ ~k.closed
    BY <1>1, <1>2, <2>1
  <2>5. (k.got \o Append(k.inbox, e)) \o Tail(wire[c]) = (k.got \o k.inbox) \o wire[c]
    <3>1. \A a, b \in Seq(Nat), x \in Nat : a \o Append(b, x) = Append(a \o b, x)
      OBVIOUS
    <3>2. k.got \o Append(k.inbox, e) = Append(k.got \o k.inbox, e)
      BY <1>0, <2>2, <3>1, Zenon
    <3>3. PICK s \in Seq(Nat) : s = k.got \o k.inbox
      BY <1>0, ConcatProperties
    <3>4. Append(s, e) \o Tail(wire[c]) = s \o wire[c]
      BY <1>0, <2>1, PassOn
    <3> QED BY <3>2, <3>3, <3>4, Zenon
  <2> HIDE DEF j, e
  <2>6. /\ j \in ClientObjects /\ j.state = k.state /\ j.closed = k.closed
        /\ j.got = k.got /\ j.inbox = Append(k.inbox, e)
    BY <2>3, Zenon DEF Client
  <2>7. (j.got \o j.inbox) \o wire'[c] = (k.got \o k.inbox) \o wire[c]
    BY <2>4, <2>5, <2>6, Zenon
  <2> QED BY <1>1, <1>4, <2>1, <2>4, <2>6, <2>7, Zenon
<1>10. CASE CompleteLastRead(c)
  <2> DEFINE j == [k EXCEPT !.state = "Finishing"]
  <2>1. /\ client' = [client EXCEPT ![c] = j] /\ k.state = "Reading"
        /\ UNCHANGED <<call, turn, yielded, wire>>
    BY <1>10, Zenon DEF CompleteLastRead
  <2>2. Client(j, "Finishing", k.inbox, k.closed, k.cancelled, k.got, k.over)
    BY <1>2, <1>3, Zenon
  <2> HIDE DEF j
  <2> QED BY <1>5, <2>1, <2>2 DEF Client
<1>11. CASE CompleteFinish(c)
  <2>1. /\ UNCHANGED <<call, turn, yielded, wire>> /\ k.state = "Finishing"
        /\ \/ client' = [client EXCEPT ![c] = Close(k)]
           \/ client' = [client EXCEPT ![c] = Fails(k)]
    BY <1>11, Zenon DEF CompleteFinish
  <2>2. Client(Close(k), "Completed", k.inbox, TRUE, k.cancelled, k.got, k.over)
    BY <1>0, CloseForm
  <2>3. CASE client' = [client EXCEPT ![c] = Close(k)]
    <3> DEFINE j == Close(k)
    <3>1. /\ j \in ClientObjects /\ j.state = "Completed" /\ j.closed = TRUE /\ j.got = k.got
          /\ j.inbox = k.inbox /\ client' = [client EXCEPT ![c] = j]
      BY <2>2, <2>3, Zenon DEF Client
    <3> HIDE DEF j
    <3> QED BY <1>6, <2>1, <3>1
  <2>4. CASE client' = [client EXCEPT ![c] = Fails(k)]
    BY <1>7, <2>1, <2>4
  <2> QED BY <2>1, <2>3, <2>4
<1>12. CASE WaitNext(c)
  <2> DEFINE j == Take(k)
  <2>1. /\ client' = [client EXCEPT ![c] = j] /\ k.inbox # <<>>
        /\ UNCHANGED <<call, turn, yielded, wire>>
    BY <1>12 DEF WaitNext
  <2>2. Client(j, k.state, Tail(k.inbox), k.closed, k.cancelled, Append(k.got, Head(k.inbox)), k.over)
    BY <1>0, <2>1, TakeForm
  <2> HIDE DEF j
  <2>3. /\ j \in ClientObjects /\ j.state = k.state /\ j.closed = k.closed
        /\ j.got = Append(k.got, Head(k.inbox)) /\ j.inbox = Tail(k.inbox)
    BY <2>2, Zenon DEF Client
  <2>4. Append(k.got, Head(k.inbox)) \o Tail(k.inbox) = k.got \o k.inbox
    <3> HIDE DEF k
    <3> QED BY <1>0, <2>1, PassOn
  <2>5. j.got \o j.inbox = k.got \o k.inbox /\ wire'[c] = wire[c]
    BY <2>1, <2>3, <2>4, Zenon
  <2> HIDE DEF k
  <2> QED BY <1>1, <1>4, <2>1, <2>3, <2>5
<1>13. CASE StreamOver(c)
  <2> DEFINE j == [k EXCEPT !.over = "ended"]
  <2>1. client' = [client EXCEPT ![c] = j] /\ UNCHANGED <<call, turn, yielded, wire>>
    BY <1>13, Zenon DEF StreamOver
  <2>2. Client(j, k.state, k.inbox, k.closed, k.cancelled, k.got, "ended")
    BY <1>0, ClientWrites, Zenon
  <2> HIDE DEF j
  <2> QED BY <1>5, <2>1, <2>2 DEF Client
<1>14. CASE Invoke(c)
  <2> DEFINE j == [k EXCEPT !.state = "Starting"]
  <2>1. /\ client' = [client EXCEPT ![c] = j] /\ k.state = "idle"
        /\ UNCHANGED <<call, turn, yielded, wire>>
    BY <1>14, Zenon DEF Invoke
  <2>2. Client(j, "Starting", k.inbox, k.closed, k.cancelled, k.got, k.over)
    BY <1>2, <1>3, Zenon
  <2> HIDE DEF j
  <2> QED BY <1>5, <2>1, <2>2 DEF Client
<1>15. CASE Abandon(c)
  <2> DEFINE j == WalkAway(k)
  <2>1. client' = [client EXCEPT ![c] = j] /\ UNCHANGED <<call, turn, yielded, wire>>
    BY <1>15 DEF Abandon
  <2>2. Client(j, k.state, k.inbox, k.closed, ~k.closed, k.got, "abandoned")
    BY <1>0, WalkAwayForm
  <2> HIDE DEF j
  <2> QED BY <1>5, <2>1, <2>2 DEF Client
<1> QED
  BY <1>8, <1>9, <1>10, <1>11, <1>12, <1>13, <1>14, <1>15
     DEF PollClient, Consume, CompleteUnary

(* A step of a turn: the next event is taken, all that are pending are     *)
(* thrown away, the one taken last is written, or no event moves.          *)
LEMMA TurnKeepsOrder ==
    ASSUME Typed, NEW c \in Calls, c \notin Unary, Numbered(c), Ordered(c), NEW t \in Threads,
           Effect(t, c), client'[c] = client[c], yielded'[c] = yielded[c]
    PROVE  Numbered(c)' /\ Ordered(c)'
<1> DEFINE k == call[c]
           j == call'[c]
           n == Len(k.pending)
<1>0. /\ turn[c] \in [Threads -> Points] /\ k.pending \in Seq(Nat) /\ k.current \in Nat
      /\ n \in Nat /\ wire[c] \in Seq(Nat) /\ Shown(c) \in Seq(Nat) /\ yielded[c] \in Nat
      /\ client[c].got \in Seq(Nat) /\ client[c].inbox \in Seq(Nat)
  <2>1. turn[c] \in [Threads -> Points]
    BY DEF Typed
  <2> QED BY <2>1, StreamTypes, ShownTypes, LenProperties
<1>1. ASSUME NEW from, NEW to, Moves(t, c, from, to), Held(c)', to \notin {"mark", "write"}
      PROVE  Held(c)
  BY <1>0, <1>1 DEF Moves, Held
<1>2. ASSUME NEW from, NEW to, Moves(t, c, from, to), from \in {"mark", "write"}
      PROVE  Held(c)
  BY <1>2 DEF Moves, Held
<1>3. ASSUME wire'[c] = wire[c] PROVE Shown(c)' = Shown(c)
  BY <1>3 DEF Shown
<1>4. ASSUME NEW from, NEW to, Moves(t, c, from, to),
             to \in {"mark", "write"} => from \in {"mark", "write"},
             j.pending = k.pending, j.current = k.current, j.clientClosed = k.clientClosed
      PROVE  Numbered(c)'
  BY <1>1, <1>2, <1>4 DEF Numbered
<1>5. ASSUME wire'[c] = wire[c], j.current = k.current PROVE Ordered(c)'
  BY <1>3, <1>5 DEF Ordered
<1>6. ASSUME NEW from, NEW to, Moves(t, c, from, to), Inner(c), NEW s, NEW r, NEW b,
             to \in {"mark", "write"} => from \in {"mark", "write"},
             Became(c, s, r, k.pending, k.current, k.clientClosed, b)
      PROVE  Numbered(c)' /\ Ordered(c)'
  BY <1>4, <1>5, <1>6 DEF Became, Call, Inner
<1>7. ASSUME Inner(c), k.pending # <<>>, NEW s, NEW b,
             Became(c, s, k.refs, Tail(k.pending), Head(k.pending), k.clientClosed, b)
      PROVE  Numbered(c)' /\ Ordered(c)'
  <2>1. /\ j.pending = Tail(k.pending) /\ j.current = Head(k.pending)
        /\ j.clientClosed = k.clientClosed
    BY <1>7 DEF Became, Call
  <2>2. /\ n > 0 /\ Len(Tail(k.pending)) = n - 1 /\ Head(k.pending) = k.pending[1]
        /\ \A i \in 1..(n - 1) : Tail(k.pending)[i] = k.pending[i + 1]
    <3> HIDE DEF k
    <3> QED BY <1>0, <1>7
  <2>3. /\ k.current + n <= yielded[c]
        /\ ~k.clientClosed => k.current + n = yielded[c]
        /\ \A i \in 1..n : k.pending[i] = k.current + i
    BY DEF Numbered
  <2>4. j.current = k.current + 1 /\ Len(j.pending) = n - 1
    <3>1. \A m \in Nat : m > 0 => 1 \in 1..m
      OBVIOUS
    <3>2. k.pending[1] = k.current + 1
      BY <1>0, <2>2, <2>3, <3>1, Zenon
    <3> QED BY <2>1, <2>2, <3>2, Zenon
  <2>5. /\ j.current + Len(j.pending) = k.current + n /\ j.current > 0 /\ j.current \in Nat
        /\ k.current <= j.current
    <3>1. \A x, m \in Nat : m > 0 => /\ (x + 1) + (m - 1) = x + m /\ x + 1 > 0
                                    /\ x + 1 \in Nat /\ x <= x + 1
      OBVIOUS
    <3>2. PICK x \in Nat, m \in Nat : x = k.current /\ m = n /\ m > 0
      BY <1>0, <2>2
    <3>3. j.current = x + 1 /\ Len(j.pending) = m - 1
      BY <2>4, <3>2
    <3>4. (x + 1) + (m - 1) = x + m /\ x + 1 > 0 /\ x + 1 \in Nat /\ x <= x + 1
      BY <3>1, <3>2
    <3> HIDE DEF k, j, n
    <3> QED BY <3>2, <3>3, <3>4, Zenon
  <2>6. ASSUME NEW i \in 1..Len(j.pending) PROVE j.pending[i] = j.current + i
    <3>1. i \in 1..(n - 1) /\ i + 1 \in 1..n /\ k.current + (i + 1) = k.current + 1 + i
      <4>1. \A x, m \in Nat : \A l \in 1..(m - 1) : l + 1 \in 1..m /\ x + (l + 1) = x + 1 + l
        OBVIOUS
      <4>2. i \in 1..(n - 1)
        BY <2>4
      <4> QED BY <1>0, <4>1, <4>2, Zenon
    <3>2. k.pending[i + 1] = k.current + (i + 1)
      BY <2>3, <3>1
    <3> QED BY <2>1, <2>2, <2>4, <3>1, <3>2
  <2>7. Numbered(c)'
    BY <2>1, <2>3, <2>5, <2>6 DEF Numbered
  <2>8. Upto(Shown(c), j.current)
    <3>1. Upto(Shown(c), k.current)
      BY DEF Ordered
    <3> HIDE DEF k, j
    <3> QED BY <1>0, <2>5, <3>1, UptoMore
  <2>9. Shown(c)' = Shown(c)
    BY <1>3, <1>7 DEF Inner
  <2>10. Ordered(c)'
    BY <2>8, <2>9 DEF Ordered
  <2> QED BY <2>7, <2>10
<1>8. CASE /\ Moves(t, c, "refused", "complete") /\ Inner(c)
           /\ Became(c, k.state, k.refs, <<>>, k.current, TRUE, k.notified)
  <2>1. j.pending = <<>> /\ j.current = k.current /\ j.clientClosed = TRUE
    BY <1>8 DEF Became, Call
  <2>2. j.current + Len(j.pending) <= yielded[c]
    <3>1. k.current + n <= yielded[c]
      BY DEF Numbered
    <3>2. k.current + 0 <= yielded[c]
      <4> HIDE DEF k, n
      <4> QED BY <1>0, <3>1
    <3> QED BY <2>1, <3>2
  <2>3. Held(c)' => j.current > 0
    BY <1>1, <1>8, <2>1 DEF Numbered
  <2>4. Numbered(c)'
    BY <2>1, <2>2, <2>3 DEF Numbered
  <2> QED BY <1>5, <1>8, <2>1, <2>4 DEF Inner
<1>9. CASE /\ Moves(t, c, "write", "idle")
           /\ wire'[c] = IF conn[c] = "open" THEN Append(wire[c], k.current) ELSE wire[c]
           /\ Became(c, k.state, k.refs, k.pending, k.current, k.clientClosed, k.notified)
  <2>1. j.pending = k.pending /\ j.current = k.current /\ j.clientClosed = k.clientClosed
    BY <1>9 DEF Became, Call
  <2>2. Numbered(c)'
    BY <1>4, <1>9, <2>1
  <2>3. k.current > 0
    BY <1>2, <1>9 DEF Numbered
  <2>4. CASE wire'[c] = wire[c] \/ client[c].closed
    <3>1. Shown(c)' = Shown(c)
      BY <2>4 DEF Shown
    <3> QED BY <2>1, <2>2, <3>1 DEF Ordered
  <2>5. CASE wire'[c] = Append(wire[c], k.current) /\ ~client[c].closed
    <3>1. PICK s \in Seq(Nat), w \in Seq(Nat), x \in Nat :
              s = client[c].got \o client[c].inbox /\ w = wire[c] /\ x = k.current
      BY <1>0, ConcatProperties
    <3>2. s \o Append(w, x) = Append(s \o w, x)
      OBVIOUS
    <3>3. Shown(c) = s \o w /\ Shown(c)' = s \o Append(w, x)
      BY <2>5, <3>1 DEF Shown
    <3>4. Rising(s \o w) /\ Upto(s \o w, x) /\ NoError(s \o w) /\ s \o w \in Seq(Nat)
      BY <1>0, <2>5, <3>1, <3>3 DEF Ordered
    <3>5. /\ Rising(Append(s \o w, x)) /\ Upto(Append(s \o w, x), x)
          /\ NoError(Append(s \o w, x))
      <4>1. x # TransportError
        BY <2>3, <3>1 DEF TransportError
      <4> QED BY <3>4, <4>1, AppendInOrder
    <3>6. Rising(Shown(c)') /\ Upto(Shown(c)', j.current) /\ NoError(Shown(c)')
      BY <2>1, <3>1, <3>2, <3>3, <3>5
    <3> QED BY <2>2, <3>6 DEF Ordered
  <2> QED BY <1>9, <2>4, <2>5
<1>10. CASE /\ Moves(t, c, "accept", "idle") /\ wire'[c] = wire[c]
            /\ Became(c, "Waiting", k.refs + 1, k.pending, k.current, k.clientClosed, k.notified)
  BY <1>4, <1>5, <1>10 DEF Became, Call
<1>11. CASE /\ Moves(t, c, "finish", "idle")
            /\ wire'[c] = IF conn[c] = "open" /\ c \in Unary THEN Append(wire[c], Response)
                          ELSE wire[c]
            /\ Became(c, k.state, k.refs, k.pending, k.current, k.clientClosed, k.notified)
  BY <1>4, <1>5, <1>11 DEF Became, Call
<1> HIDE DEF k, j, n
<1>12. CASE \/ Moves(t, c, "accept", "idle") \/ Moves(t, c, "finish", "idle")
            \/ Moves(t, c, "write", "idle") \/ Moves(t, c, "refused", "complete")
  BY <1>8, <1>9, <1>10, <1>11, <1>12 DEF Effect, Moves, k
<1>13. CASE ~(\/ Moves(t, c, "accept", "idle") \/ Moves(t, c, "finish", "idle")
              \/ Moves(t, c, "write", "idle") \/ Moves(t, c, "refused", "complete"))
  <2>1. Inner(c)
    BY <1>13 DEF Effect
  <2>2. \/ \E s, b : k.pending # <<>>
                     /\ Became(c, s, k.refs, Tail(k.pending), Head(k.pending), k.clientClosed, b)
        \/ \E from, to, s, r, b :
              /\ Moves(t, c, from, to)
              /\ to \in {"mark", "write"} => from \in {"mark", "write"}
              /\ Became(c, s, r, k.pending, k.current, k.clientClosed, b)
    BY <1>13, Zenon DEF Effect, k
  <2> QED BY <1>6, <1>7, <2>1, <2>2
<1> QED BY <1>12, <1>13

(* What others do leaves the order alone. *)
LEMMA SameOrder ==
    ASSUME NEW c, Numbered(c), Ordered(c), turn'[c] = turn[c], yielded'[c] = yielded[c],
           wire'[c] = wire[c], client'[c] = client[c],
           call'[c].pending = call[c].pending, call'[c].current = call[c].current,
           call'[c].clientClosed = call[c].clientClosed
    PROVE  Numbered(c)' /\ Ordered(c)'
<1>1. (Held(c)' <=> Held(c)) /\ Shown(c)' = Shown(c)
  BY DEF Held, Shown
<1> QED BY <1>1 DEF Numbered, Ordered

LEMMA EnqueueKeepsOrder ==
    ASSUME Typed, NEW c \in Calls, Numbered(c), Ordered(c), EnqueueEvent(c, yielded[c] + 1),
           yielded'[c] = IF call[c].clientClosed THEN yielded[c] ELSE yielded[c] + 1,
           UNCHANGED <<turn, wire, client>>
    PROVE  Numbered(c)' /\ Ordered(c)'
<1> DEFINE y == yielded[c]
           k == call[c]
<1>1. CASE k.clientClosed
  <2>1. call' = call /\ yielded'[c] = yielded[c]
    BY <1>1 DEF EnqueueEvent
  <2> QED BY <2>1, SameOrder
<1>2. CASE ~k.clientClosed
  <2> DEFINE p == Append(k.pending, y + 1)
             j == [k EXCEPT !.pending = p]
             n == Len(k.pending)
  <2>1. /\ k \in CallObjects /\ p \in Seq(Nat) /\ y \in Nat /\ k.current \in Nat
        /\ k.pending \in Seq(Nat) /\ n \in Nat
        /\ Len(p) = n + 1 /\ p[n + 1] = y + 1 /\ \A i \in 1..n : p[i] = k.pending[i]
    <3>1. k \in CallObjects
      BY DEF Typed
    <3>2. y \in Nat /\ y + 1 \in Nat /\ k.current \in Nat /\ k.pending \in Seq(Nat)
      BY StreamTypes
    <3> HIDE DEF k, y
    <3> QED BY <3>1, <3>2
  <2>2. Notify(c, j)
    BY <1>2, Zenon DEF EnqueueEvent
  <2>3. Call(j, k.state, k.refs, p, k.current, k.complete, k.clientClosed, k.notified)
    <3> HIDE DEF k, p
    <3> QED BY <2>1, CallWrites, Zenon
  <2> HIDE DEF j
  <2>4. Call(Alarmed(j), j.state, j.refs, j.pending, j.current, j.complete, j.clientClosed, TRUE)
    BY <2>3, CallWrites DEF Call
  <2>5. call'[c] = Alarmed(j)
    BY <2>2 DEF Notify, Typed
  <2>6. /\ call'[c].pending = p /\ call'[c].current = k.current
        /\ call'[c].clientClosed = k.clientClosed
    <3> HIDE DEF k, p
    <3> QED BY <2>3, <2>4, <2>5, Zenon DEF Call
  <2>7. /\ k.current + n = y /\ \A i \in 1..n : k.pending[i] = k.current + i
        /\ Held(c) => k.current > 0
    BY <1>2 DEF Numbered
  <2> HIDE DEF p, k, y, n
  <2>8. k.current + (n + 1) = y + 1
    <3>1. \A x, m \in Nat : x + (m + 1) = (x + m) + 1
      OBVIOUS
    <3> QED BY <2>1, <2>7, <3>1, Zenon
  <2>9. ASSUME NEW i \in 1..(n + 1) PROVE p[i] = k.current + i
    <3>1. i \in 1..n \/ i = n + 1
      BY <2>1
    <3> QED BY <2>1, <2>7, <2>8, <3>1
  <2>10. Held(c)' <=> Held(c)
    BY DEF Held
  <2>11. yielded'[c] = y + 1
    BY <1>2 DEF k, y
  <2>12. y + 1 <= y + 1
    BY <2>1
  <2>13. Numbered(c)'
    BY <1>2, <2>1, <2>6, <2>7, <2>8, <2>9, <2>10, <2>11, <2>12 DEF Numbered
  <2>14. Ordered(c)'
    <3>1. Shown(c)' = Shown(c)
      BY DEF Shown
    <3> QED BY <2>6, <3>1 DEF Ordered, k
  <2> QED BY <2>13, <2>14
<1> QED
  BY <1>1, <1>2

LEMMA WorkKeepsOrder ==
    ASSUME Typed, NEW c \in Calls, c \notin Unary, Numbered(c), Ordered(c), Work(c)
    PROVE  Numbered(c)' /\ Ordered(c)'
<1> DEFINE k == call[c]
<1>0. k \in CallObjects
  BY DEF Typed
<1>1. CASE StartJob(c) \/ Crash
  <2>1. UNCHANGED <<call, turn, yielded, wire, client>>
    BY <1>1 DEF StartJob, Crash
  <2> QED BY <2>1, SameOrder
<1>2. CASE ProduceEvent(c) /\ ~Freed(c)
  <2>1. /\ yielded'[c] = IF call[c].clientClosed THEN yielded[c] ELSE yielded[c] + 1
        /\ EnqueueEvent(c, yielded[c] + 1) /\ UNCHANGED <<turn, wire, client>>
    BY <1>2 DEF ProduceEvent, Typed
  <2> QED BY <2>1, EnqueueKeepsOrder
<1>3. CASE ServiceFails(c)
  <2>1. /\ yielded'[c] = IF call[c].clientClosed THEN yielded[c] ELSE yielded[c] + 1
        /\ EnqueueEvent(c, yielded[c] + 1) /\ UNCHANGED <<turn, wire, client>>
    BY <1>3 DEF ServiceFails, Typed
  <2> QED BY <2>1, EnqueueKeepsOrder
<1>4. CASE MarkProducerComplete(c) /\ ~Freed(c)
  <2> DEFINE j == [k EXCEPT !.complete = TRUE]
  <2>1. Call(j, k.state, k.refs, k.pending, k.current, TRUE, k.clientClosed, k.notified)
    BY <1>0, CallWrites, Zenon
  <2>2. Notify(c, j)
    BY <1>4, Zenon DEF MarkProducerComplete
  <2> HIDE DEF j
  <2>3. Call(Alarmed(j), j.state, j.refs, j.pending, j.current, j.complete, j.clientClosed, TRUE)
    BY <2>1, CallWrites DEF Call
  <2>4. call'[c] = Alarmed(j)
    BY <2>2 DEF Notify, Typed
  <2>5. /\ call'[c].pending = k.pending /\ call'[c].current = k.current
        /\ call'[c].clientClosed = k.clientClosed
    <3> HIDE DEF k
    <3> QED BY <2>1, <2>3, <2>4, Zenon DEF Call
  <2>6. UNCHANGED <<turn, yielded, wire, client>>
    BY <1>4 DEF MarkProducerComplete
  <2> QED BY <2>5, <2>6, SameOrder
<1>5. CASE EndJob(c) /\ ~Freed(c)
  <2> DEFINE j == Release(k)
  <2>1. Call(j, k.state, k.refs - 1, k.pending, k.current, k.complete, k.clientClosed, k.notified)
    BY <1>0, StateWrites
  <2>2. call'[c] = j /\ UNCHANGED <<turn, yielded, wire, client>>
    BY <1>5 DEF EndJob, Typed
  <2>3. /\ call'[c].pending = k.pending /\ call'[c].current = k.current
        /\ call'[c].clientClosed = k.clientClosed
    <3> HIDE DEF j, k
    <3> QED BY <2>1, <2>2, Zenon DEF Call
  <2> QED BY <2>2, <2>3, SameOrder
<1>6. CASE ExecuteRequest(c)
  BY <1>6 DEF ExecuteRequest
<1> QED
  BY <1>1, <1>2, <1>3, <1>4, <1>5, <1>6
     DEF Work, ProduceEvent, MarkProducerComplete, EndJob

LEMMA OrderInvInductive == Typed /\ OrderInv /\ [Next]_vars => OrderInv'
<1> SUFFICES ASSUME Typed, OrderInv, [Next]_vars PROVE OrderInv'
  OBVIOUS
<1>0. kind' = kind /\ Streams' = Streams
  BY StepKeepsKind DEF Streams, Unary
<1> SUFFICES ASSUME NEW d \in Streams PROVE Numbered(d)' /\ Ordered(d)'
  BY <1>0 DEF OrderInv
<1>1. Numbered(d) /\ Ordered(d) /\ d \in Calls /\ d \notin Unary
  BY DEF OrderInv, Streams
<1>2. ASSUME Steady(d) PROVE Numbered(d)' /\ Ordered(d)'
  BY <1>1, <1>2, SameOrder DEF Steady
<1>3. ASSUME NEW c \in Calls, Steps(c) PROVE Numbered(d)' /\ Ordered(d)'
  <2>1. CASE d # c
    BY <1>1, <1>2, <1>3, <2>1, OthersAreSteady DEF Steps
  <2>2. CASE Crash
    BY <1>1, <1>2, <2>2, BreaksAreSteady
  <2>3. CASE d = c /\ Poll(c) /\ ~Crash
    <3>1. PICK t \in Threads, tag \in Kinds, ok \in BOOLEAN : TakeTag(t, c, tag, ok)
      BY <2>3 DEF Poll
    <3>a. PICK at \in Points : at = Proceed(c, ok)
      <4>1. call[c] \in CallObjects
        BY DEF Typed
      <4> QED BY <4>1, ProceedByState
    <3>2. /\ Moves(t, c, "idle", at) /\ call'[c] = call[c] /\ wire'[c] = wire[c]
          /\ UNCHANGED <<client, yielded>>
      BY <2>3, <3>1, <3>a, TakeFacts DEF Elsewhere
    <3>3. at \notin {"mark", "write"}
      <4>1. call[c] \in CallObjects /\ call[c].state \in CallStates
        BY DEF Typed, CallObjects
      <4> QED BY <3>a, <4>1, ProceedByState DEF CallStates
    <3>4. (Held(c)' => Held(c)) /\ Shown(c)' = Shown(c)
      <4>1. turn[c] \in [Threads -> Points]
        BY DEF Typed
      <4> QED BY <3>2, <3>3, <4>1 DEF Moves, Held, Shown
    <3> QED BY <1>1, <2>3, <3>2, <3>4 DEF Numbered, Ordered
  <2>4. ASSUME d = c, NEW t \in Threads, Turn(t, c), ~Crash PROVE Numbered(d)' /\ Ordered(d)'
    <3>1. Effect(t, c) /\ UNCHANGED <<client, yielded>>
      BY <2>4, TurnEffect DEF Elsewhere
    <3> QED BY <1>1, <2>4, <3>1, TurnKeepsOrder
  <2>5. CASE d = c /\ Work(c)
    BY <1>1, <2>5, WorkKeepsOrder
  <2>6. CASE d = c /\ (PollClient(c) \/ Consume(c) \/ Invoke(c) \/ Abandon(c))
    <3>1. Ordered(c)' /\ UNCHANGED <<call, turn, yielded>>
      BY <1>1, <2>6, ClientKeepsOrder
    <3> QED BY <1>1, <2>6, <3>1 DEF Numbered, Held
  <2> QED BY <1>3, <2>1, <2>2, <2>3, <2>4, <2>5, <2>6 DEF Steps
<1>4. CASE (\E c \in Calls : BreakCall(c)) \/ StopServer \/ ServerStopped \/ UNCHANGED vars
  BY <1>1, <1>2, <1>4, BreaksAreSteady
<1> QED
  BY <1>3, <1>4 DEF Next, Steps

LEMMA InitOrder == Init => OrderInv
<1> SUFFICES ASSUME Init, NEW c \in Streams PROVE Numbered(c) /\ Ordered(c)
  BY DEF OrderInv
<1>1. /\ call[c] = NewCall /\ client[c] = NewClient /\ wire[c] = <<>> /\ yielded[c] = 0
      /\ turn[c] = [t \in Threads |-> "idle"]
  BY DEF Init, Streams
<1>2. Numbered(c)
  BY <1>1 DEF Numbered, NewCall, Held
<1>3. Shown(c) = <<>>
  BY <1>1 DEF Shown, NewClient
<1> QED
  BY <1>1, <1>2, <1>3 DEF Ordered, Rising, Upto, NoError, NewClient

LEMMA OrderImplies == Typed /\ OrderInv => EventsInOrder
<1> SUFFICES ASSUME Typed, OrderInv, NEW c \in Streams
             PROVE  LET got == client[c].got
                    IN  /\ \A i \in DOMAIN got : got[i] <= yielded[c]
                        /\ \A i, j \in DOMAIN got : i < j =>
                              got[i] # TransportError /\ (got[j] = TransportError \/ got[i] <= got[j])
  BY DEF EventsInOrder
<1> DEFINE got == client[c].got
<1>1. /\ c \in Calls /\ Numbered(c) /\ Ordered(c)
  BY DEF OrderInv, Streams
<1>2. /\ got \in Seq(Nat) /\ client[c].inbox \in Seq(Nat) /\ wire[c] \in Seq(Nat)
      /\ call[c].current \in Nat /\ call[c].pending \in Seq(Nat) /\ yielded[c] \in Nat
  BY <1>1, StreamTypes
<1>3. PICK rest \in Seq(Nat) : Shown(c) = got \o rest
  <2>1. /\ client[c].inbox \o wire[c] \in Seq(Nat)
        /\ (got \o client[c].inbox) \o wire[c] = got \o (client[c].inbox \o wire[c])
    <3>1. \A s, r, w \in Seq(Nat) : r \o w \in Seq(Nat) /\ (s \o r) \o w = s \o (r \o w)
      BY ConcatProperties, ConcatAssociative
    <3> HIDE DEF got
    <3> QED BY <1>2, <3>1, Zenon
  <2> QED BY <1>2, <2>1 DEF Shown
<1>4. Rising(got) /\ Upto(got, call[c].current)
  BY <1>1, <1>2, <1>3, PrefixInOrder DEF Ordered
<1>5. call[c].current <= yielded[c]
  <2>1. call[c].current + Len(call[c].pending) <= yielded[c] /\ Len(call[c].pending) \in Nat
    BY <1>1, <1>2, LenProperties DEF Numbered
  <2> QED BY <1>2, <2>1
<1>6. Upto(got, yielded[c]) /\ DOMAIN got = 1..Len(got)
  BY <1>2, <1>4, <1>5, UptoMore
<1> HIDE DEF got
<1> QED
  BY <1>4, <1>6 DEF Rising, Upto, got

(* With any number of threads on the queue, whose turns on one stream may  *)
(* overlap at any step: what a consumer has seen rises, was yielded, and   *)
(* ends with the transport error if there is one.                          *)
THEOREM EventsStayInOrder == Spec => []EventsInOrder
<1> DEFINE Inv == Typed /\ OrderInv
<1>1. Init => Inv
  BY InitTyped, InitOrder
<1>2. Inv /\ [Next]_vars => Inv'
  BY NextTyped, OrderInvInductive
<1>3. Inv => EventsInOrder
  BY OrderImplies
<1> HIDE DEF Inv
<1> QED
  BY <1>1, <1>2, <1>3, PTL DEF Spec
=============================================================================
