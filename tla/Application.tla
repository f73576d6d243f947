---------------------------- MODULE Application ----------------------------
(***************************************************************************)
(* The service mode of the application: the main thread starts the         *)
(* servers, serves until it is told to stop, and stops everything in a     *)
(* fixed order.  Composes the HTTP server, the operator service and the    *)
(* update feed.  The gRPC server is GrpcTransport's: here it starts or     *)
(* does not, and its stop returns.                                         *)
(***************************************************************************)
EXTENDS HttpServer

VARIABLES
    main,     \* where run_service_mode is
    failed    \* it returns EXIT_FAILURE

vars == <<main, failed, serverVars, serviceVars>>

Phases == {"start_http", "start_grpc", "serving", "stop_feed", "stop_grpc",
           "stop_http", "close_acceptor", "stop_pool", "close_sockets",
           "join_pool", "stop_executor", "exited"}

Init == ServiceInit /\ ServerInit /\ main = "start_http" /\ failed = FALSE

Step(from, to) == main = from /\ main' = to

-----------------------------------------------------------------------------
(* Start. *)

\* BeastHttpWorkflowApiServer::start, whatever step of it fails.
StartHttp ==
    /\ \/ Step("start_http", "start_grpc") /\ running' = TRUE /\ listening' = TRUE
          /\ pool' = "up" /\ UNCHANGED failed
       \/ ~script.calm /\ Step("start_http", "exited") /\ failed' = TRUE
          /\ UNCHANGED <<running, listening, pool>>
    /\ UNCHANGED <<script, swept, connVars, streamVars, serviceVars>>

\* When the gRPC server does not start, the HTTP server is stopped; the feed
\* and the executor are left as they are.
StartGrpc ==
    /\ \/ Step("start_grpc", "serving") /\ UNCHANGED failed
       \/ ~script.calm /\ Step("start_grpc", "stop_http") /\ failed' = TRUE
    /\ UNCHANGED <<serverVars, serviceVars>>

\* A signal, the end of the CLI's input, or its quit command.
StopRequested ==
    /\ ~script.calm /\ Step("serving", "stop_feed")
    /\ UNCHANGED <<failed, serverVars, serviceVars>>

-----------------------------------------------------------------------------
(* Stop. *)

StopFeed ==
    /\ Step("stop_feed", "stop_grpc")
    /\ feed' = ShutDown(feed)
    /\ UNCHANGED <<failed, serverVars, record, audits, first, job, wanted, raced>>

StopGrpc ==
    /\ Step("stop_grpc", "stop_http")
    /\ UNCHANGED <<failed, serverVars, serviceVars>>

\* Impl::stop, one step per call that other threads see.
StopHttp ==
    /\ Step("stop_http", "close_acceptor")
    /\ running' = FALSE
    /\ UNCHANGED <<failed, script, listening, pool, swept, connVars, streamVars, serviceVars>>

\* The connections not yet accepted are reset; the accept thread has ended.
CloseAcceptor ==
    /\ Step("close_acceptor", "stop_pool")
    /\ listening' = FALSE
    /\ stage' = [c \in Threads |-> IF stage[c] = "backlog" THEN "refused" ELSE stage[c]]
    /\ socket' = [c \in Threads |-> IF stage[c] = "backlog" THEN "broken" ELSE socket[c]]
    /\ UNCHANGED <<failed, script, running, pool, swept, spoken, registered, missed,
                   answer, streamVars, serviceVars>>

StopPool ==
    /\ Step("stop_pool", "close_sockets")
    /\ pool' = "stopped"
    /\ UNCHANGED <<failed, script, running, listening, swept, connVars, streamVars, serviceVars>>

\* Deliberate fault: the sockets are left open.
CloseActiveSockets_skipped ==
    /\ Step("close_sockets", "join_pool")
    /\ swept' = TRUE
    /\ UNCHANGED <<failed, script, running, listening, pool, connVars, streamVars, serviceVars>>

CloseActiveSockets ==
    /\ Step("close_sockets", "join_pool")
    /\ swept' = TRUE
    /\ socket' = [c \in Threads |-> IF c \in registered THEN "broken" ELSE socket[c]]
    /\ UNCHANGED <<failed, script, running, listening, pool, stage, spoken, registered,
                   missed, answer, streamVars, serviceVars>>

\* join waits for the handlers that run; queued connections go with the pool.
JoinPool ==
    /\ Busy = {}
    /\ Step("join_pool", IF failed THEN "exited" ELSE "stop_executor")
    /\ pool' = "none"
    /\ stage' = [c \in Threads |-> IF stage[c] = "queued" THEN "done" ELSE stage[c]]
    /\ socket' = [c \in Threads |-> IF stage[c] = "queued" THEN "broken" ELSE socket[c]]
    /\ UNCHANGED <<failed, script, running, listening, swept, spoken, registered,
                   missed, answer, streamVars, serviceVars>>

StopExecutor ==
    /\ Step("stop_executor", "exited")
    /\ UNCHANGED <<failed, serverVars, serviceVars>>

Stopping ==
    \/ StopFeed \/ StopGrpc \/ StopHttp \/ CloseAcceptor \/ StopPool
    \/ CloseActiveSockets \/ JoinPool \/ StopExecutor

\* The process is over: no thread takes a step.
Server(c) ==
    /\ main # "exited"
    /\ AcceptLoop(c) \/ HandleConnection(c) \/ HandlerStep(c)
    /\ UNCHANGED <<main, failed>>

Client(c) ==
    /\ main # "exited"
    /\ Connect(c) \/ Send(c) \/ HangUp(c)
    /\ UNCHANGED <<main, failed>>

Next ==
    \/ StartHttp \/ StartGrpc \/ StopRequested \/ Stopping
    \/ \E c \in Threads : Server(c) \/ Client(c)

\* Threads that can run do run; whether clients speak, or a stop is asked for,
\* is not the program's.
Fairness ==
    /\ WF_vars(Stopping)
    /\ \A c \in Threads : WF_vars(Server(c))

Spec == Init /\ [][Next]_vars /\ Fairness

-----------------------------------------------------------------------------
(* Properties. *)

\* Every variable has its type.
TypeOK == ServiceTypeOK /\ ServerTypeOK /\ main \in Phases /\ failed \in BOOLEAN

\* A dashboard stream that waits for the next update, has taken all there are
\* and skipped none, shows the selected workflow as it is stored, once the
\* writes to it are published: process_operator_dashboard_stream takes its
\* position before it reads, build_dashboard_update sends the detail whenever
\* the update is about it.  (The selection of the first workflow can change
\* with a stale copy's time, when edits overlapped.)
CaughtUpIsFresh ==
    \A c \in Threads \ lapped :
        /\ stage[c] = "wait" /\ last[c] = feed.latest
        /\ ~Unpublished(shown[c])
        /\ Query(c) = "" => raced = {}
        => seen[c][shown[c]] = Detail(shown[c])

\* When edits of a workflow did not overlap and none is under way, its record
\* has the tasks the requests asked for, one audit row for each edit and
\* action, and a counter that says so: routing took each request for what it
\* asked, and append_audit_entry wrote back no stale copy.
QuietRecordIsExact ==
    \A w \in Workflows \ raced :
        (\A h \in Threads : Active(h) => job[h].wf # w) =>
            IF record[w] = NoRecord THEN wanted[w] = NoRecord
            ELSE /\ wanted[w] # NoRecord
                 /\ record[w].tasks = wanted[w].tasks
                 /\ record[w].audits = wanted[w].audits
                 /\ DOMAIN audits[w] = 1..record[w].audits

\* Loads of the console and the runtime client, and of requests that ask for
\* nothing: streams, dashboards, refused ones, and ones for workflows unknown.
GenuineLoads ==
    \A s \in Scripts : \A c \in DOMAIN s.request :
        LET r == s.request[c]  o == Route(r, s.control) IN
        \/ \E w \in Workflows, t \in Tasks : IsEditOf(r, w, t)
        \/ /\ r.asks = Nothing
           /\ \/ IsStreamRequest(r) \/ o.status # 200
              \/ o.op = "dashboard" \/ o.wf \notin Workflows

\* A submission restarts the counter and leaves the audit rows: what is
\* submitted is not audited in the same load.
SubmittedUnaudited ==
    \A s \in Scripts : \A c, d \in DOMAIN s.request :
        /\ s.request[c].asks.op = "submit"
        /\ s.request[d].asks.wf = s.request[c].asks.wf
        => s.request[d].asks.op \in {"submit", "reorchestrate"}

\* close_active_sockets only dereferences sockets whose handler still runs,
\* and no handler outlives stop(): handle_plain_connection and
\* handle_tls_connection keep the socket on their stack.
SocketsOutliveTheirPointers ==
    registered \subseteq Busy /\ (main \in {"stop_executor", "exited"} => Busy = {})

\* A handler that registered its socket after stop() closed the registered
\* ones, and whose client says nothing.
Overlooked(c) == c \in missed /\ stage[c] \in {"handshake", "reading"} /\ c \notin spoken

\* A handler that has answered over TLS, unregistered its socket, and waits for
\* the goodbye of a client that keeps the connection.
Lingers(c) == stage[c] = "parting" /\ socket[c] = "open"

Hung == \E c \in Threads : Overlooked(c) \/ (main = "join_pool" /\ Lingers(c))

\* Once it is told to stop, the application exits, unless a connection was
\* taken up between stop()'s steps and its client stays silent for ever, or a
\* TLS client that was served keeps its connection: stop() closes neither, and
\* joins both handlers.
ShutdownCompletes == <>[]Hung \/ (main = "stop_feed" ~> main = "exited")

\* All workers are held by streams, by clients that say nothing, or by TLS
\* clients that stay.
PoolHeld ==
    Cardinality({c \in Busy : IsStreamRequest(Request(c)) \/ c \notin spoken \/ Lingers(c)})
        >= script.pool

\* A request that was sent is answered or fails, unless the worker pool is
\* held for good by streams, silent clients and TLS clients that stay, or the
\* stop hangs on one of those.
RequestResolves ==
    <>[](PoolHeld \/ Hung) \/
    \A c \in Threads :
        (c \in spoken /\ ~IsStreamRequest(Request(c)))
            ~> (Result(c) # "waiting" \/ main = "exited")

\* A waiting stream takes every update published, or ends.
StreamCatchesUp ==
    \A c \in Threads :
        (stage[c] = "wait" /\ last[c] < feed.latest)
            ~> (last[c] = feed.latest \/ stage[c] \in {"parting", "done"})
=============================================================================
