--------------------------- MODULE GrpcTransport ----------------------------
(***************************************************************************)
(* The gRPC transport: call objects of the server driven by tags of its    *)
(* completion queue, the work of a call on the shared executor, the        *)
(* client's call objects and the stream state its consumer waits on.       *)
(*                                                                         *)
(* A server call has one tag, its address, for everything it starts: the   *)
(* request, an alarm, a write, the final status.  The queue's threads take *)
(* them in any order, several at a time, and proceed() tells them apart by *)
(* state_ alone, which it reads and writes outside the call's mutex.  A    *)
(* call object is freed when its last reference goes.  A step on a freed   *)
(* object, a second status, or an operation started while one of its kind  *)
(* is outstanding may end the process: crashed.                            *)
(*                                                                         *)
(* gRPC itself, the network and the service are external: a call breaks    *)
(* when its deadline passes, when the network fails or when the client     *)
(* cancels, and then anything not yet read may be lost.                    *)
(***************************************************************************)
EXTENDS Integers, Sequences, FiniteSets

CONSTANTS
    Calls,             \* the calls that are made
    Threads,           \* the threads of the server's completion queue
    MaxEvents,         \* how many events a service stream yields, at most
    Faults             \* what may go wrong: "break", "cancel", "fail", "stop"

ASSUME GrpcAssumption ==
    /\ MaxEvents \in Nat
    /\ Faults \subseteq {"break", "cancel", "fail", "stop"}

VARIABLES
    kind,         \* of each call: "unary" or "stream"
    server,       \* "up", "stopping" or "stopped"
    crashed,      \* the server process has aborted or corrupted itself
    call,         \* the server's call objects
    tags,         \* how many tags of each kind it has on the completion queue
    turn,         \* what each thread of the queue does next with it
    job,          \* its work on the executor: "none", "queued", "running", "done"
    yielded,      \* how many events the service has yielded to it
    conn,         \* the RPC: "none", "open", "ok" (status sent) or "broken"
    wire,         \* messages sent and not yet read
    client        \* the client's call object and stream state

vars == <<kind, server, crashed, call, tags, turn, job, yielded, conn, wire, client>>

Unary == {c \in Calls : kind[c] = "unary"}
Streams == Calls \ Unary

(* Events are numbered as the service yields them; the error event the     *)
(* server adds when the service's stream throws is the last of them.  The  *)
(* client's own transport error is none of them.                           *)
TransportError == 0
Response == 1

(* current is the event of the write under way: current_event_.            *)
NewCall ==
    [state |-> "Requesting", refs |-> 1, pending |-> <<>>, current |-> 0,
     complete |-> FALSE, clientClosed |-> FALSE, notified |-> FALSE,
     finished |-> FALSE]

Kinds == {"request", "alarm", "write", "finish"}
NoTags == [tag \in Kinds |-> 0]

NewClient ==
    [state |-> "idle", inbox |-> <<>>, closed |-> FALSE, cancelled |-> FALSE,
     got |-> <<>>, over |-> "no"]

Init ==
    /\ kind \in [Calls -> {"unary", "stream"}]
    /\ server = "up" /\ crashed = FALSE
    /\ call = [c \in Calls |-> NewCall]
    /\ tags = [c \in Calls |-> [NoTags EXCEPT !["request"] = 1]]
    /\ turn = [c \in Calls |-> [t \in Threads |-> "idle"]]
    /\ job = [c \in Calls |-> "none"]
    /\ yielded = [c \in Calls |-> 0]
    /\ conn = [c \in Calls |-> "none"]
    /\ wire = [c \in Calls |-> <<>>]
    /\ client = [c \in Calls |-> NewClient]

Crash ==
    /\ crashed' = TRUE
    /\ conn' = [c \in Calls |-> IF conn[c] = "open" THEN "broken" ELSE conn[c]]
    /\ UNCHANGED <<kind, server, call, tags, turn, job, yielded, wire, client>>

Freed(c) == call[c].refs = 0

-----------------------------------------------------------------------------
(***************************************************************************)
(* The threads of the completion queue.  proceed(ok) of a call is a turn   *)
(* of several steps: it reads state_, does what follows from it, partly    *)
(* under the mutex, and starts an operation of the call.                   *)
(***************************************************************************)
Proceed(c, ok) ==
    LET state == call[c].state IN
    CASE state = "Requesting" -> IF ok THEN "accept" ELSE "release"
      [] state = "Waiting" -> IF ~ok THEN "complete"
                              ELSE IF c \in Unary THEN "response" ELSE "notification"
      [] state = "Writing" -> IF ok THEN "written" ELSE "refused"
      [] state = "Finishing" -> "complete"
      [] state = "Completed" -> "release"

(* What a tag may come back with: a request fails when the server shuts    *)
(* down, an operation when the call is broken, a write also once the       *)
(* status is sent.                                                         *)
ComesBack(c, tag, ok) ==
    CASE tag = "request" -> IF ok THEN conn[c] = "open" /\ server = "up" ELSE server = "stopping"
      [] tag = "alarm" -> ok
      [] tag = "write" -> ok \/ conn[c] \in {"ok", "broken"}
      [] tag = "finish" -> ok \/ conn[c] = "broken"

Idle(t) == \A c \in Calls : turn[c][t] = "idle"

(* poll_completion_queue: a thread takes a tag and reads the call's state. *)
TakeTag(t, c, tag, ok) ==
    /\ ~crashed /\ Idle(t) /\ tags[c][tag] > 0 /\ ComesBack(c, tag, ok)
    /\ IF Freed(c) THEN Crash
       ELSE /\ tags' = [tags EXCEPT ![c][tag] = @ - 1]
            /\ turn' = [turn EXCEPT ![c][t] = Proceed(c, ok)]
            /\ UNCHANGED <<kind, server, crashed, call, job, yielded, conn, wire, client>>

(* A step of a turn that leaves the call object as k and goes on to at.    *)
Goes(t, c, k, at) ==
    /\ call' = [call EXCEPT ![c] = k]
    /\ turn' = [turn EXCEPT ![c][t] = at]

Accept_noReference(k) == [k EXCEPT !.state = "Waiting"]

Accept(k) == [k EXCEPT !.state = "Waiting", !.refs = @ + 1]

Release(k) == [k EXCEPT !.refs = @ - 1]

Accepts(t, c) ==
    /\ turn[c][t] = "accept"
    /\ Goes(t, c, Accept(call[c]), "idle")
    /\ job' = [job EXCEPT ![c] = "queued"]
    /\ UNCHANGED <<kind, server, crashed, tags, yielded, conn, wire, client>>

Releases(t, c) ==
    /\ turn[c][t] = "release"
    /\ Goes(t, c, Release(call[c]), "idle")
    /\ UNCHANGED <<kind, server, crashed, tags, job, yielded, conn, wire, client>>

Completes(t, c) ==
    /\ turn[c][t] = "complete"
    /\ Goes(t, c, Release([call[c] EXCEPT !.state = "Completed"]), "idle")
    /\ UNCHANGED <<kind, server, crashed, tags, job, yielded, conn, wire, client>>

HandleResponseReady(t, c) ==
    /\ turn[c][t] = "response"
    /\ Goes(t, c, [call[c] EXCEPT !.notified = FALSE, !.state = "Finishing"], "finish")
    /\ UNCHANGED <<kind, server, crashed, tags, job, yielded, conn, wire, client>>

Pop_back(k) ==
    [k EXCEPT !.current = k.pending[Len(k.pending)],
              !.pending = SubSeq(@, 1, Len(@) - 1)]

Pop(k) == [k EXCEPT !.current = Head(k.pending), !.pending = Tail(@)]

HandleNotification_stillPending(t, c) ==
    LET k == call[c]
    IN  /\ turn[c][t] = "notification"
        /\ \/ /\ k.pending # <<>>
              /\ Goes(t, c, [Pop(k) EXCEPT !.state = "Writing"], "write")
           \/ /\ k.pending = <<>> /\ k.complete
              /\ Goes(t, c, [k EXCEPT !.state = "Finishing"], "finish")
           \/ k.pending = <<>> /\ ~k.complete /\ Goes(t, c, k, "idle")
        /\ UNCHANGED <<kind, server, crashed, tags, job, yielded, conn, wire, client>>

(* Under the mutex the next event is taken, or found to be the last.  The  *)
(* state is Writing before an alarm's turn unlocks; a write's turn marks   *)
(* it later.                                                               *)
HandleNotification(t, c) ==
    LET k == [call[c] EXCEPT !.notified = FALSE]
    IN  /\ turn[c][t] = "notification"
        /\ \/ /\ k.pending # <<>>
              /\ Goes(t, c, [Pop(k) EXCEPT !.state = "Writing"], "write")
           \/ /\ k.pending = <<>> /\ k.complete
              /\ Goes(t, c, [k EXCEPT !.state = "Finishing"], "finish")
           \/ k.pending = <<>> /\ ~k.complete /\ Goes(t, c, k, "idle")
        /\ UNCHANGED <<kind, server, crashed, tags, job, yielded, conn, wire, client>>

HandleWriteComplete(t, c) ==
    LET k == call[c]
    IN  /\ turn[c][t] = "written"
        /\ \/ k.pending # <<>> /\ Goes(t, c, Pop(k), "mark")
           \/ /\ k.pending = <<>> /\ k.complete
              /\ Goes(t, c, [k EXCEPT !.state = "Finishing"], "finish")
           \/ /\ k.pending = <<>> /\ ~k.complete
              /\ Goes(t, c, [k EXCEPT !.state = "Waiting"], "idle")
        /\ UNCHANGED <<kind, server, crashed, tags, job, yielded, conn, wire, client>>

MarkWriting(t, c) ==
    /\ turn[c][t] = "mark"
    /\ Goes(t, c, [call[c] EXCEPT !.state = "Writing"], "write")
    /\ UNCHANGED <<kind, server, crashed, tags, job, yielded, conn, wire, client>>

HandleWriteRefused(t, c) ==
    /\ turn[c][t] = "refused"
    /\ Goes(t, c, [call[c] EXCEPT !.clientClosed = TRUE, !.pending = <<>>], "complete")
    /\ UNCHANGED <<kind, server, crashed, tags, job, yielded, conn, wire, client>>

(* An event is taken into current_event_ while another thread hands it to  *)
(* Write: what is written may be neither event.                            *)
TornEvent(t, c) ==
    /\ turn[c][t] \in {"notification", "written"} /\ call[c].pending # <<>>
    /\ \E u \in Threads : turn[c][u] = "write"
    /\ Crash

(* Write, on the wire while the call is open; gRPC aborts on a write that  *)
(* is started before the last one is done.                                 *)
WriteEvent(t, c) ==
    /\ turn[c][t] = "write"
    /\ turn' = [turn EXCEPT ![c][t] = "idle"]
    /\ tags' = [tags EXCEPT ![c]["write"] = @ + 1]
    /\ wire' = [wire EXCEPT ![c] =
          IF conn[c] = "open" THEN Append(@, call[c].current) ELSE @]
    /\ UNCHANGED <<kind, server, crashed, call, job, yielded, conn, client>>

SecondWrite(t, c) ==
    /\ turn[c][t] = "write" /\ tags[c]["write"] > 0
    /\ Crash

(* Finish, with the response of a unary call; gRPC aborts on a second one. *)
FinishCall(t, c) ==
    /\ turn[c][t] = "finish"
    /\ IF call[c].finished THEN Crash
       ELSE /\ Goes(t, c, [call[c] EXCEPT !.finished = TRUE], "idle")
            /\ tags' = [tags EXCEPT ![c]["finish"] = @ + 1]
            /\ conn' = [conn EXCEPT ![c] = IF @ = "open" THEN "ok" ELSE @]
            /\ wire' = [wire EXCEPT ![c] =
                  IF conn[c] = "open" /\ c \in Unary THEN Append(@, Response) ELSE @]
            /\ UNCHANGED <<kind, server, crashed, job, yielded, client>>

Turn(t, c) ==
    /\ ~crashed /\ turn[c][t] # "idle"
    /\ IF Freed(c) THEN Crash
       ELSE \/ Accepts(t, c) \/ Releases(t, c) \/ Completes(t, c)
            \/ HandleResponseReady(t, c) \/ HandleNotification(t, c)
            \/ HandleWriteComplete(t, c) \/ MarkWriting(t, c) \/ HandleWriteRefused(t, c)
            \/ WriteEvent(t, c) \/ SecondWrite(t, c) \/ TornEvent(t, c) \/ FinishCall(t, c)

-----------------------------------------------------------------------------
(***************************************************************************)
(* The work of a call on the executor, which holds a reference of its own. *)
(***************************************************************************)
Alarmed_unmarked(k) == k

Alarmed(k) == [k EXCEPT !.notified = TRUE]

(* schedule_notification: one alarm at a time. *)
Notify(c, k) ==
    /\ call' = [call EXCEPT ![c] = Alarmed(k)]
    /\ tags' = [tags EXCEPT ![c]["alarm"] = IF k.notified THEN @ ELSE @ + 1]

StartJob(c) ==
    /\ ~crashed /\ job[c] = "queued"
    /\ job' = [job EXCEPT ![c] = "running"]
    /\ UNCHANGED <<kind, server, crashed, call, tags, turn, yielded, conn, wire, client>>

(* execute_request: the response is stored and announced. *)
ExecuteRequest(c) ==
    /\ c \in Unary /\ ~crashed /\ job[c] = "running"
    /\ Notify(c, call[c])
    /\ job' = [job EXCEPT ![c] = "ending"]
    /\ UNCHANGED <<kind, server, crashed, turn, yielded, conn, wire, client>>

(* enqueue_event, for the next event or for the error of a failed stream.  *)
EnqueueEvent(c, event) ==
    IF call[c].clientClosed THEN UNCHANGED <<call, tags>>
    ELSE Notify(c, [call[c] EXCEPT !.pending = Append(@, event)])

ProduceEvent(c) ==
    /\ c \in Streams /\ ~crashed /\ job[c] = "running" /\ yielded[c] < MaxEvents
    /\ IF Freed(c) THEN Crash
       ELSE /\ EnqueueEvent(c, yielded[c] + 1)
            /\ yielded' = [yielded EXCEPT ![c] = IF call[c].clientClosed THEN @ ELSE @ + 1]
            /\ job' = [job EXCEPT ![c] =
                  IF call[c].clientClosed \/ yielded[c] + 1 = MaxEvents THEN "yielded" ELSE @]
            /\ UNCHANGED <<kind, server, crashed, turn, conn, wire, client>>

(* The service's stream throws: produce_events adds an error event. *)
ServiceFails(c) ==
    /\ "fail" \in Faults
    /\ c \in Streams /\ ~crashed /\ job[c] = "running" /\ ~Freed(c)
    /\ yielded[c] < MaxEvents
    /\ EnqueueEvent(c, yielded[c] + 1)
    /\ yielded' = [yielded EXCEPT ![c] = IF call[c].clientClosed THEN @ ELSE @ + 1]
    /\ job' = [job EXCEPT ![c] = "yielded"]
    /\ UNCHANGED <<kind, server, crashed, turn, conn, wire, client>>

MarkProducerComplete(c) ==
    /\ ~crashed /\ job[c] = "yielded"
    /\ IF Freed(c) THEN Crash
       ELSE /\ Notify(c, [call[c] EXCEPT !.complete = TRUE])
            /\ job' = [job EXCEPT ![c] = "ending"]
            /\ UNCHANGED <<kind, server, crashed, turn, yielded, conn, wire, client>>

EndJob_keepsReference(c) ==
    /\ ~crashed /\ job[c] = "ending"
    /\ job' = [job EXCEPT ![c] = "done"]
    /\ UNCHANGED <<kind, server, crashed, call, tags, turn, yielded, conn, wire, client>>

(* release_reference, the last thing the job does. *)
EndJob(c) ==
    /\ ~crashed /\ job[c] = "ending"
    /\ IF Freed(c) THEN Crash
       ELSE /\ call' = [call EXCEPT ![c] = Release(@)]
            /\ job' = [job EXCEPT ![c] = "done"]
            /\ UNCHANGED <<kind, server, crashed, tags, turn, yielded, conn, wire, client>>

(* stop(): no new request is taken; Shutdown returns when every call it    *)
(* has taken is gone, then the queue is drained and its threads join.      *)
StopServer ==
    /\ "stop" \in Faults /\ ~crashed /\ server = "up"
    /\ server' = "stopping"
    /\ conn' = [c \in Calls |->
          IF conn[c] = "open" /\ tags[c]["request"] > 0 THEN "broken" ELSE conn[c]]
    /\ UNCHANGED <<kind, crashed, call, tags, turn, job, yielded, wire, client>>

Unattended(c) == \A t \in Threads : turn[c][t] = "idle"

ServerStopped ==
    /\ ~crashed /\ server = "stopping"
    /\ \A c \in Calls : Freed(c) /\ tags[c] = NoTags /\ Unattended(c)
    /\ server' = "stopped"
    /\ UNCHANGED <<kind, crashed, call, tags, turn, job, yielded, conn, wire, client>>

Work(c) ==
    \/ StartJob(c) \/ ExecuteRequest(c) \/ ProduceEvent(c) \/ ServiceFails(c)
    \/ MarkProducerComplete(c) \/ EndJob(c)

-----------------------------------------------------------------------------
(***************************************************************************)
(* The client.  finish_and_delete and the promise both close the call.     *)
(***************************************************************************)
Push(k, event) == [k EXCEPT !.inbox = Append(@, event)]
Close(k) == [k EXCEPT !.state = "Completed", !.closed = TRUE]
Fails_leavesOpen(k) ==
    IF k.cancelled THEN Close(k)
    ELSE Push([k EXCEPT !.state = "Completed"], TransportError)

Fails(k) == Close(IF k.cancelled THEN k ELSE Push(k, TransportError))

Invoke(c) ==
    /\ client[c].state = "idle"
    /\ client' = [client EXCEPT ![c].state = IF c \in Unary THEN "Finishing" ELSE "Starting"]
    /\ conn' = [conn EXCEPT ![c] = IF server = "up" /\ ~crashed THEN "open" ELSE "broken"]
    /\ UNCHANGED <<kind, server, crashed, call, tags, turn, job, yielded, wire>>

(* The unary call's only tag: its response, or why there is none. *)
CompleteUnary(c) ==
    /\ c \in Unary /\ client[c].state = "Finishing" /\ conn[c] \in {"ok", "broken"}
    /\ client' = [client EXCEPT ![c] =
          Close(Push(@, IF conn[c] = "ok" THEN Response ELSE TransportError))]
    /\ UNCHANGED <<kind, server, crashed, call, tags, turn, job, yielded, conn, wire>>

CompleteStart(c, ok) ==
    /\ client[c].state = "Starting" /\ (ok \/ conn[c] = "broken")
    /\ client' = [client EXCEPT ![c] =
          IF ok THEN [@ EXCEPT !.state = "Reading"] ELSE Fails(@)]
    /\ UNCHANGED <<kind, server, crashed, call, tags, turn, job, yielded, conn, wire>>

CompleteRead(c) ==
    /\ client[c].state = "Reading" /\ wire[c] # <<>>
    /\ client' = [client EXCEPT ![c] = Push(@, Head(wire[c]))]
    /\ wire' = [wire EXCEPT ![c] = Tail(@)]
    /\ UNCHANGED <<kind, server, crashed, call, tags, turn, job, yielded, conn>>

(* Read fails: all was read, or the rest of a broken call is lost. *)
CompleteLastRead(c) ==
    /\ client[c].state = "Reading"
    /\ conn[c] = "broken" \/ (conn[c] = "ok" /\ wire[c] = <<>>)
    /\ client' = [client EXCEPT ![c].state = "Finishing"]
    /\ UNCHANGED <<kind, server, crashed, call, tags, turn, job, yielded, conn, wire>>

CompleteFinish_silent(c) ==
    /\ c \in Streams /\ client[c].state = "Finishing"
    /\ client' = [client EXCEPT ![c] = Close(@)]
    /\ UNCHANGED <<kind, server, crashed, call, tags, turn, job, yielded, conn, wire>>

CompleteFinish(c) ==
    /\ c \in Streams /\ client[c].state = "Finishing"
    /\ client' = [client EXCEPT ![c] = IF conn[c] = "ok" THEN Close(@) ELSE Fails(@)]
    /\ UNCHANGED <<kind, server, crashed, call, tags, turn, job, yielded, conn, wire>>

PollClient(c) ==
    \/ CompleteUnary(c) \/ CompleteRead(c) \/ CompleteLastRead(c) \/ CompleteFinish(c)
    \/ \E ok \in BOOLEAN : CompleteStart(c, ok)

(* The consumer: wait_next, the future's get, or dropping the generator,   *)
(* whose guard then cancels the call.                                      *)
Take(k) == [k EXCEPT !.got = Append(@, Head(k.inbox)), !.inbox = Tail(@)]
WalkAway(k) == [k EXCEPT !.over = "abandoned", !.cancelled = ~k.closed]

WaitNext(c) ==
    /\ client[c].over = "no" /\ client[c].inbox # <<>>
    /\ client' = [client EXCEPT ![c] = Take(@)]
    /\ UNCHANGED <<kind, server, crashed, call, tags, turn, job, yielded, conn, wire>>

StreamOver(c) ==
    /\ client[c].over = "no" /\ client[c].inbox = <<>> /\ client[c].closed
    /\ client' = [client EXCEPT ![c].over = "ended"]
    /\ UNCHANGED <<kind, server, crashed, call, tags, turn, job, yielded, conn, wire>>

Abandon(c) ==
    /\ "cancel" \in Faults
    /\ c \in Streams /\ client[c].state # "idle" /\ client[c].over = "no"
    /\ client' = [client EXCEPT ![c] = WalkAway(@)]
    /\ conn' = [conn EXCEPT ![c] =
          IF @ = "open" /\ ~client[c].closed THEN "broken" ELSE @]
    /\ UNCHANGED <<kind, server, crashed, call, tags, turn, job, yielded, wire>>

Consume(c) == WaitNext(c) \/ StreamOver(c)

(* The deadline every call carries, or the network. *)
BreakCall(c) ==
    /\ "break" \in Faults /\ conn[c] = "open"
    /\ conn' = [conn EXCEPT ![c] = "broken"]
    /\ UNCHANGED <<kind, server, crashed, call, tags, turn, job, yielded, wire, client>>

Poll(c) == \E t \in Threads, tag \in Kinds, ok \in BOOLEAN : TakeTag(t, c, tag, ok)

Next ==
    \/ \E c \in Calls :
          \/ Poll(c) \/ (\E t \in Threads : Turn(t, c)) \/ Work(c) \/ PollClient(c)
          \/ Consume(c) \/ Invoke(c) \/ Abandon(c) \/ BreakCall(c)
    \/ StopServer \/ ServerStopped

(* The queue gives every call its turn, its threads and the executor keep  *)
(* working, the consumer keeps reading, and the deadline of a call comes.  *)
Fairness ==
    /\ \A c \in Calls :
          /\ SF_vars(Poll(c)) /\ WF_vars(Work(c))
          /\ \A t \in Threads : WF_vars(Turn(t, c))
          /\ WF_vars(PollClient(c)) /\ WF_vars(Consume(c)) /\ WF_vars(BreakCall(c))
    /\ WF_vars(ServerStopped)

Spec == Init /\ [][Next]_vars /\ Fairness

-----------------------------------------------------------------------------
(***************************************************************************)
(* With one thread on its queue the transport implements EventChannel:     *)
(* over cancellations, broken calls, a stopping server and even its crash, *)
(* what a consumer has seen is a prefix of what the service yielded, and a *)
(* stream that ends without an error event has delivered all of it.        *)
(***************************************************************************)
(* What the consumer has seen of the service's events: all it got, but for *)
(* the transport error that may have come last.                            *)
Delivered(k) ==
    LET n == Len(k.got)
    IN  IF n > 0 /\ k.got[n] = TransportError THEN SubSeq(k.got, 1, n - 1) ELSE k.got

Outcome(k) ==
    IF k.over = "abandoned" \/ TransportError \in {k.got[i] : i \in DOMAIN k.got}
    THEN "broken" ELSE IF k.over = "ended" THEN "ended" ELSE "open"

Channel == INSTANCE EventChannel WITH
    Channels <- Calls,
    sent <- [c \in Calls |-> [i \in 1..yielded[c] |-> i]],
    complete <- [c \in Calls |-> c \in Streams /\ call[c].complete],
    received <- [c \in Calls |-> IF c \in Streams THEN Delivered(client[c]) ELSE <<>>],
    outcome <- [c \in Calls |-> IF c \in Streams THEN Outcome(client[c]) ELSE "open"]

ImplementsChannel == Channel!Spec

(***************************************************************************)
(* With any number of threads, whose turns on one call may overlap, events *)
(* may be lost or repeated, but a consumer never sees an earlier event     *)
(* after a later one, nor one the service did not yield, nor anything      *)
(* after a transport error.                                                *)
(***************************************************************************)
EventsInOrder ==
    \A c \in Streams :
        LET got == client[c].got
        IN  /\ \A i \in DOMAIN got : got[i] <= yielded[c]
            /\ \A i, j \in DOMAIN got : i < j =>
                  got[i] # TransportError /\ (got[j] = TransportError \/ got[i] <= got[j])

(***************************************************************************)
(* A unary call is freed once, after its last tag, its last turn and its   *)
(* job: nothing of it can come back to a freed object.                     *)
(***************************************************************************)
UnaryOutlivesItsTags ==
    \A c \in Unary : Freed(c) =>
        tags[c] = NoTags /\ Unattended(c) /\ job[c] \in {"none", "done"}

(* An alarm is never set while it is set, which gRPC does not allow: each  *)
(* is taken, and notification_pending_ reset, before the next.             *)
OneAlarmAtATime ==
    \A c \in Calls : tags[c]["alarm"] > 0 => call[c].notified

(* Every call a client makes ends for its caller, with an answer or an     *)
(* error: thanks to its deadline, even if the server has died.             *)
ClientResolves ==
    \A c \in Calls : client[c].state # "idle" ~> client[c].over # "no"

(* A call that is not freed and that nothing will ever come back to.       *)
Stranded(c) ==
    ~Freed(c) /\ tags[c] = NoTags /\ Unattended(c) /\ job[c] = "done"

(* stop() returns, though it waits for the calls in progress and for the   *)
(* tags they have outstanding.  Where the queue has several threads, two   *)
(* turns of one stream may leave it stranded, and stop() waits for good.   *)
StopCompletes ==
    server = "stopping" ~>
        server = "stopped" \/ crashed \/ \E c \in Streams : Stranded(c)

(***************************************************************************)
(* What README.md says of the streaming RPCs: they "end with a terminal    *)
(* event that carries the final RuntimeApiResponse".  The last event the   *)
(* service yields carries it.                                              *)
(***************************************************************************)
StreamEndsWithResponse ==
    \A c \in Streams : client[c].over = "ended" =>
        client[c].got # <<>> /\ client[c].got[Len(client[c].got)] = yielded[c]
=============================================================================
