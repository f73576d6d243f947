----------------------------- MODULE HttpServer -----------------------------
(***************************************************************************)
(* The HTTP server: an accept thread, a pool of worker threads that each   *)
(* hold one connection until it ends, the set of open sockets that stop()  *)
(* closes, and the dashboard streams, which hold their worker and follow   *)
(* the update feed.                                                        *)
(*                                                                         *)
(* Sockets are abstracted to whether the server's end is open; a write     *)
(* fails on a broken one and is otherwise taken by the client at once.  A  *)
(* client speaks when it likes, and may hang up.  One connection carries   *)
(* one request, as in the code.                                            *)
(***************************************************************************)
EXTENDS OperatorService, HttpRouting

CONSTANTS
    Scripts,    \* the loads: pool size, TLS, control plane, the requests of the
                \* connections made, and whether all is calm: clients send at
                \* once and stay, and the service is not stopped
    NotSent     \* no detail of a workflow was sent

\* The ids that a request's body or query names are among those considered.
ASSUME ScriptsAssumption ==
    \A s \in Scripts :
        /\ s.pool \in Nat \ {0} /\ DOMAIN s.request \subseteq Threads
        /\ \A c \in DOMAIN s.request :
              /\ s.request[c].body.wf \in Workflows \cup {""}
              /\ s.request[c].body.task \in Tasks \cup {""}
              /\ s.request[c].query \in Workflows \cup {""}

VARIABLES
    script,      \* the load of this behaviour
    running,     \* is_running
    listening,   \* the acceptor is open
    pool,        \* worker_pool: none, up or stopped
    stage,       \* connection |-> where its handler is
    socket,      \* connection |-> none, open or broken
    spoken,      \* connections whose client has sent its request
    registered,  \* active_sockets
    swept,       \* history: stop() has closed the registered sockets
    missed,      \* history: connections registered after that
    answer,      \* connection |-> what the client received
    last,        \* stream |-> last_event_id
    note,        \* stream |-> the workflow of the update being served
    shown,       \* stream |-> the selected workflow the client was told
    seen,        \* stream |-> workflow |-> the latest detail sent
    lapped       \* history: streams that skipped an update no longer kept

streamVars == <<last, note, shown, seen, lapped>>
poolVars == <<script, running, listening, pool, swept>>
connVars == <<stage, socket, spoken, registered, missed, answer>>
serverVars == <<poolVars, connVars, streamVars>>

Request(c) == script.request[c]

Stages == {"away", "refused", "backlog", "queued", "checked", "handshake",
           "reading", "serving", "replying", "opening", "dash", "loop", "wait",
           "update", "ending", "closing", "parting", "done"}

\* The stages in which a handler occupies a worker.
Handling == Stages \ {"away", "refused", "backlog", "queued", "done"}
Busy == {c \in Threads : stage[c] \in Handling}

ServerInit ==
    /\ script \in Scripts
    /\ running = FALSE /\ listening = FALSE /\ pool = "none" /\ swept = FALSE
    /\ stage = [c \in Threads |-> "away"]
    /\ socket = [c \in Threads |-> "none"]
    /\ spoken = {} /\ registered = {} /\ missed = {} /\ lapped = {}
    /\ answer = [c \in Threads |-> 0]
    /\ last = [c \in Threads |-> 0]
    /\ note = [c \in Threads |-> ""]
    /\ shown = [c \in Threads |-> ""]
    /\ seen = [c \in Threads |-> [w \in Workflows |-> NotSent]]

ServerTypeOK ==
    /\ script \in Scripts
    /\ running \in BOOLEAN /\ listening \in BOOLEAN /\ swept \in BOOLEAN
    /\ pool \in {"none", "up", "stopped"}
    /\ stage \in [Threads -> Stages]
    /\ socket \in [Threads -> {"none", "open", "broken"}]
    /\ spoken \cup registered \cup missed \cup lapped \subseteq Threads
    /\ answer \in [Threads -> {0, 200, 400, 404, 405, 503}]
    /\ last \in [Threads -> Nat]

To(c, s) == stage' = [stage EXCEPT ![c] = s]

-----------------------------------------------------------------------------
(* Clients. *)

\* invoke_plain, invoke_tls: the connection is refused, or waits to be accepted.
Connect(c) ==
    /\ stage[c] = "away" /\ c \in DOMAIN script.request
    /\ script.calm => listening
    /\ IF listening THEN To(c, "backlog") /\ socket' = [socket EXCEPT ![c] = "open"]
                    ELSE To(c, "refused") /\ UNCHANGED socket
    /\ spoken' = IF script.calm THEN spoken \cup {c} ELSE spoken
    /\ UNCHANGED <<poolVars, registered, missed, answer, streamVars, serviceVars>>

Send(c) ==
    /\ socket[c] = "open" /\ c \notin spoken
    /\ spoken' = spoken \cup {c}
    /\ UNCHANGED <<poolVars, stage, socket, registered, missed, answer, streamVars, serviceVars>>

\* The client goes away; the server notices at its next read or write.
HangUp(c) ==
    /\ socket[c] = "open" /\ ~script.calm
    /\ socket' = [socket EXCEPT ![c] = "broken"]
    /\ UNCHANGED <<poolVars, stage, spoken, registered, missed, answer, streamVars, serviceVars>>

\* What invoke returns: a parsed answer, or an error once the connection is
\* refused or ended without one.  Its timeout covers asynchronous operations
\* only, and it uses none: it waits for as long as the server keeps it.
Result(c) ==
    IF answer[c] # 0 THEN "answered"
    ELSE IF stage[c] \in {"refused", "parting", "done"} THEN "transport_error"
    ELSE "waiting"

-----------------------------------------------------------------------------
(* The accept thread and the pool. *)

AcceptLoop(c) ==
    /\ running /\ listening /\ stage[c] = "backlog"
    /\ To(c, "queued")
    /\ UNCHANGED <<poolVars, socket, spoken, registered, missed, answer, streamVars, serviceVars>>

\* Deliberate fault: one thread of the pool takes no connection.
HandleConnection_oneShort(c) ==
    /\ stage[c] = "queued" /\ pool = "up" /\ Cardinality(Busy) + 1 < script.pool
    /\ To(c, IF running THEN "checked" ELSE "done")
    /\ socket' = IF running THEN socket ELSE [socket EXCEPT ![c] = "broken"]
    /\ UNCHANGED <<poolVars, spoken, registered, missed, answer, streamVars, serviceVars>>

\* A free worker takes the connection; the socket goes with the handler when
\* the server is stopping.
HandleConnection(c) ==
    /\ stage[c] = "queued" /\ pool = "up" /\ Cardinality(Busy) < script.pool
    /\ To(c, IF running THEN "checked" ELSE "done")
    /\ socket' = IF running THEN socket ELSE [socket EXCEPT ![c] = "broken"]
    /\ UNCHANGED <<poolVars, spoken, registered, missed, answer, streamVars, serviceVars>>

RegisterSocket(c) ==
    /\ stage[c] = "checked"
    /\ To(c, IF script.tls THEN "handshake" ELSE "reading")
    /\ registered' = registered \cup {c}
    /\ missed' = IF swept THEN missed \cup {c} ELSE missed
    /\ UNCHANGED <<poolVars, socket, spoken, answer, streamVars, serviceVars>>

\* Deliberate fault: the early return of a failed handshake leaves the
\* pointer to the socket in active_sockets.
Handshake_leaves(c) ==
    /\ stage[c] = "handshake"
    /\ \/ c \in spoken /\ socket[c] = "open" /\ To(c, "reading")
          /\ UNCHANGED <<socket, registered>>
       \/ (c \in spoken \/ socket[c] = "broken") /\ To(c, "done")
          /\ socket' = [socket EXCEPT ![c] = "broken"]
          /\ UNCHANGED registered
    /\ UNCHANGED <<poolVars, spoken, missed, answer, streamVars, serviceVars>>

\* handle_tls_connection: a failed handshake ends the connection.
Handshake(c) ==
    /\ stage[c] = "handshake"
    /\ \/ c \in spoken /\ socket[c] = "open" /\ To(c, "reading")
          /\ UNCHANGED <<socket, registered>>
       \/ (c \in spoken \/ socket[c] = "broken") /\ To(c, "done")
          /\ socket' = [socket EXCEPT ![c] = "broken"]
          /\ registered' = registered \ {c}
    /\ UNCHANGED <<poolVars, spoken, missed, answer, streamVars, serviceVars>>

-----------------------------------------------------------------------------
(* process_http_session. *)

ReadFails(c) ==
    /\ stage[c] = "reading"
    /\ socket[c] = "broken" \/ (c \in spoken /\ Request(c).method = "garbled")
    /\ To(c, "closing")
    /\ UNCHANGED <<poolVars, socket, spoken, registered, missed, answer, streamVars, serviceVars>>

\* Without a control plane the runtime service keeps its workflows in memory
\* only, and there is nothing to record.
Dispatch(c) ==
    /\ stage[c] = "reading" /\ c \in spoken /\ socket[c] = "open"
    /\ Request(c).method # "garbled"
    /\ LET r == Request(c)  o == Route(r, script.control)
       IN IF IsStreamRequest(r) /\ script.control
          THEN To(c, "opening") /\ UNCHANGED serviceVars
          ELSE IF ~script.control \/ o.status # 200
          THEN To(c, "replying") /\ UNCHANGED serviceVars
          ELSE To(c, "serving") /\ Begin(c, o, r.asks)
    /\ UNCHANGED <<poolVars, socket, spoken, registered, missed, answer, streamVars>>

Serve(c) ==
    /\ stage[c] = "serving" /\ ServiceStep(c)
    /\ UNCHANGED serverVars

Status(c) == LET r == Request(c)
             IN IF IsStreamRequest(r) THEN 503 ELSE Route(r, script.control).status

\* The response is written; a broken socket loses it.
Reply(c) ==
    /\ stage[c] = "replying" \/ (stage[c] = "serving" /\ job[c].at = "done")
    /\ answer' = IF socket[c] = "open" THEN [answer EXCEPT ![c] = Status(c)] ELSE answer
    /\ To(c, "closing")
    /\ UNCHANGED <<poolVars, socket, spoken, registered, missed, streamVars, serviceVars>>

\* The socket is no longer one that stop() closes.  A plain connection is shut
\* down and gone; over TLS, tls_stream.shutdown first says goodbye.
Close(c) ==
    /\ stage[c] = "closing"
    /\ To(c, IF script.tls THEN "parting" ELSE "done")
    /\ registered' = registered \ {c}
    /\ socket' = IF script.tls THEN socket ELSE [socket EXCEPT ![c] = "broken"]
    /\ UNCHANGED <<poolVars, spoken, missed, answer, streamVars, serviceVars>>

\* tls_stream.shutdown returns: it blocks the handler until the client has said
\* goodbye too, or is gone.
TlsShutdown(c) ==
    /\ stage[c] = "parting" /\ socket[c] = "broken"
    /\ To(c, "done")
    /\ UNCHANGED <<poolVars, socket, spoken, registered, missed, answer, streamVars, serviceVars>>

-----------------------------------------------------------------------------
(* process_operator_dashboard_stream. *)

Query(c) == Request(c).query

\* The client is told of the selected workflow, and its detail when sent.
Show(c, withDetail) ==
    LET w == Selected(Query(c))
    IN /\ shown' = [shown EXCEPT ![c] = w]
       /\ seen' = IF withDetail THEN [seen EXCEPT ![c][w] = Detail(w)] ELSE seen

\* The feed's position is read before the dashboard; then the headers are
\* written.
StreamOpen(c) ==
    /\ stage[c] = "opening"
    /\ last' = [last EXCEPT ![c] = feed.latest]
    /\ To(c, IF socket[c] = "open" THEN "dash" ELSE "closing")
    /\ UNCHANGED <<poolVars, socket, spoken, registered, missed, answer,
                   note, shown, seen, lapped, serviceVars>>

StreamDashboard(c) ==
    /\ stage[c] = "dash"
    /\ IF socket[c] = "open"
       THEN Show(c, TRUE) /\ To(c, "loop")
       ELSE To(c, "closing") /\ UNCHANGED <<shown, seen>>
    /\ UNCHANGED <<poolVars, socket, spoken, registered, missed, answer,
                   last, note, lapped, serviceVars>>

StreamLoop(c) ==
    /\ stage[c] = "loop"
    /\ To(c, IF running THEN "wait" ELSE "ending")
    /\ UNCHANGED <<poolVars, socket, spoken, registered, missed, answer, streamVars, serviceVars>>

\* wait_for_update returned an update.
StreamUpdate(c) ==
    /\ stage[c] = "wait" /\ UpdatesAfter(feed, last[c]) # {}
    /\ LET u == NextUpdate(feed, last[c])
       IN /\ last' = [last EXCEPT ![c] = u.id]
          /\ note' = [note EXCEPT ![c] = u.wf]
          /\ lapped' = IF u.id > last[c] + 1 THEN lapped \cup {c} ELSE lapped
    /\ To(c, "update")
    /\ UNCHANGED <<poolVars, socket, spoken, registered, missed, answer, shown, seen, serviceVars>>

\* It returned nothing, at its timeout or because the feed is shut down: a
\* keepalive comment is written.
StreamKeepalive(c) ==
    /\ stage[c] = "wait"
    /\ Ready(feed, last[c]) => feed.down
    /\ To(c, IF socket[c] = "open" THEN "loop" ELSE "ending")
    /\ UNCHANGED <<poolVars, socket, spoken, registered, missed, answer, streamVars, serviceVars>>

\* Deliberate fault: after an update the stream goes on from the feed's latest.
StreamPush_fromLatest(c) ==
    /\ stage[c] = "update"
    /\ IF socket[c] = "open"
       THEN Show(c, Selected(Query(c)) = note[c]) /\ To(c, "loop")
       ELSE To(c, "ending") /\ UNCHANGED <<shown, seen>>
    /\ last' = [last EXCEPT ![c] = feed.latest]
    /\ UNCHANGED <<poolVars, socket, spoken, registered, missed, answer,
                   note, lapped, serviceVars>>

\* build_dashboard_update: the detail goes along when the update is about the
\* selected workflow.
StreamPush(c) ==
    /\ stage[c] = "update"
    /\ IF socket[c] = "open"
       THEN Show(c, Selected(Query(c)) = note[c]) /\ To(c, "loop")
       ELSE To(c, "ending") /\ UNCHANGED <<shown, seen>>
    /\ UNCHANGED <<poolVars, socket, spoken, registered, missed, answer,
                   last, note, lapped, serviceVars>>

\* The last chunk is written, or fails.
StreamEnd(c) ==
    /\ stage[c] = "ending"
    /\ To(c, "closing")
    /\ UNCHANGED <<poolVars, socket, spoken, registered, missed, answer, streamVars, serviceVars>>

HandlerStep(c) ==
    \/ RegisterSocket(c) \/ Handshake(c) \/ ReadFails(c) \/ Dispatch(c)
    \/ Serve(c) \/ Reply(c) \/ Close(c) \/ TlsShutdown(c)
    \/ StreamOpen(c) \/ StreamDashboard(c) \/ StreamLoop(c) \/ StreamUpdate(c)
    \/ StreamKeepalive(c) \/ StreamPush(c) \/ StreamEnd(c)
=============================================================================
