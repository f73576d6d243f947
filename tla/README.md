# Verification of task_orchestrator

TLA+ modules for task_orchestrator, TLC configurations that check
them on small instances, and TLAPS proofs of the properties that matter most.
Paths are relative to the repository root (`src/` here); line numbers are in
`PROJECT.json`, which maps every modelled definition to its code.

## 1. The system

task_orchestrator plans workflows (phases of processes with dependencies,
deadlines, demands and mutual exclusion) onto actors with capacity and
availability windows, dispatches the plan as time goes by, replans on feedback,
and wraps that in a durable service with an operator interface.

| Component | State it keeps | Operations | What makes it hard | Correct when |
|---|---|---|---|---|
| Workflow, Process (`task_orchestrator/src/core/workflow.cpp`, `src/data`) | phases, processes, sub-processes; constant once set | ready phases, tasks of a phase, lookups | phase and task ids that do not match | lookups agree with the definition |
| PlannerStateMachine (`core/planner_fsm.cpp`) | the Boost.MSM state, and a copy of it | six events | two copies of one state, events filtered by the copy | the copies agree |
| Scheduler (`core/scheduler.cpp`) | none between calls; tables during `plan` | `plan(workflow, state, now)` | load that is planned, in flight and foreign at once; order of equal tasks | capacity, windows, precedence, exclusion |
| Orchestrator (`core/orchestrator.cpp`) | WorkflowState, actor registry, schedule, replan flag | configuration, `start`, `tick`, `notify_*`, `mark_task_resumable`, `complete_phase`, `set_actor_unavailable` | calls in any order; a schedule older than the state it is applied to | load accounted for; nothing dispatched wrongly; work goes on |
| Actor (`core/actor.cpp`) | load, capacity, windows | read by scheduler and orchestrator | two copies of its load | load is what is in flight |
| ControlPlanService (`control_plane/src/service/control_plan_service.cpp`) | set of hydrated workflows | submit, re-orchestrate, pause, resume, cancel, intervene, recover, queries | concurrent handlers with stale copies, stops between statements, retries, abandoned streams | the durable record, its tables and the runtime agree |
| SqliteWorkflowStore (`control_plane/src/store`) | records, events, plan versions, audit, idempotency | upserts, lookups, pruning | `INSERT OR REPLACE`; deletion by age and number | history is append-only; the newest rows stay |
| EventStorageManagementService | retention settings | prune at start, storage metrics | clock steps, boots | see the store |
| WorkflowUpdateFeed (`workflow_update_feed.cpp`) | bounded list of updates, cursor | publish, wait, shutdown | slow subscribers, restart of numbering | nobody misses the last update |
| plan_diff | none | compare two plans | duplicates and reordering | the diff explains the change |
| InMemoryWorkflowRuntimeService (`application/runtime_service`) | sessions by workflow | submit, re-orchestrate, overrides | overrides live in memory only | the session is the submission minus what completed |
| WorkflowOptimizer, indexes, backends (`task_orchestrator/src/optimizer`, `optimizer_backend`) | per call | formulate, solve, select a backend | search pruning, discretisation | the schedule is feasible, and best for the exact backend |
| Application, runner (`application/runner`) | servers, shutdown flag | start, recover, bootstrap, serve, stop | order of start and stop; starts that fail half-way | nothing is served before recovery; a stop ends |
| OperatorService (`application/operator`) | none; copies of records during an edit | edits of workflows and tasks, actions, dashboards | each edit is a dozen calls on store, control plane and feed | the record and the audit trail are what was asked for |
| HTTP transport (`protocol/src/http_transport.cpp`) | acceptor, worker pool, set of open sockets | serve requests, stream dashboards, stop | streams hold workers; sockets closed from another thread; TLS goodbyes that block | requests end, streams show what is stored, stop returns |
| gRPC transport (`protocol/src/grpc_transport.cpp`) | call objects counted by hand, tags, alarms | unary and streaming calls, both ends, stop | one tag for alarms and writes; several queue threads in one call; cancellation; crash | events in order, calls that end, objects that outlive their tags; with one queue thread, a consumer never takes a cut stream for a whole one |
| SimClock, TaskExecutor, Generator (`utils`) | queues | schedule, run, stop | work left at shutdown | what is accepted runs or is reported |
| Operator UI (`operator_ui`) | polling state | refresh, act | answers out of order | it shows the newest answer |
| Config loader, NLP parser, connector registry, benchmarks | none shared | parse, measure | | |

How they interact. The scenario tests call the Orchestrator directly, from one
thread: it has no lock, and every call runs to completion. The service path is
different: a transport thread calls ControlPlanService, which keeps the durable
record around calls of the runtime service; the runtime calls the optimiser and
returns a generator of events; the service logs each event, stores the record
again and publishes to the feed. The operator console reaches the same record
through OperatorService, and its dashboard streams wait on the feed, each on a
worker thread of the HTTP server. Service, store, runtime and feed have one mutex
each, and nothing is held across two store calls, so handlers interleave at each
of them. The application starts the servers after recovery, and stops feed, gRPC
server, HTTP server and executor in that order.

## 2. Modules

| Module | Models | State and actions |
|---|---|---|
| `Workflow` | workflow.cpp, process.cpp, the fields of Actor that do not change | constants with their assumptions; `ReadyPhases`, `TaskIdsForPhase`, demand of a set of tasks |
| `PlannerFsm` | planner_fsm.cpp | `Fire(planner, event)` on the pair of the MSM state and the wrapper's copy |
| `Scheduler` | scheduler.cpp and the strategies | WorkflowState and registry as variables; one call of `plan` as `BeginPlan`, `CollectReadyTasks`, `DropTask`, `AssignTask`, `EndPlan`: the iterations of its loops. Reservation and completion tables are operators over that state |
| `Orchestrator` | orchestrator.cpp | one action per public method; `tick` is `TickPlan` or `TickDispatch` by the code's conditions. `Spec` lets a caller do anything; `DrivenSpec` follows the protocol of the scenario tests |
| `OrchestratorDriver` | the loop of the scenario tests | `DrivenSpec` with time, failures, and the toggle of a marker actor the multi-phase tests use; execution is punctual or late, chosen at the start; fairness |
| `ControlPlane` | control_plan_service.cpp, the store, the runtime service's sessions and event streams, start-up | durable tables, runtime memory, and for each handler where it is in its code and its own copy of the record; one action per call on shared state |
| `OptimizerModel` | constraint_index.cpp, discrete_time_formulation.cpp, the functions of the exact backend, the rows of the two solver backends, the runner's translation of a configuration | operators only: candidates, bound, score, options, rows, objective |
| `Optimizer` | workflow_optimizer.cpp, backend_registry.cpp, `dfs`, what the backends do with a solver's answer | one request and one build; one action per search node (`Prune`, `Leaf`, `Branch`) and per kind of solver answer |
| `EventChannel` | abstract: what a consumer of an event stream is promised | `sent`, `complete`, `received`, `outcome`; no code of its own |
| `GrpcTransport` | grpc_transport.cpp, both ends of a call | the call objects' states and reference counts, their outstanding tags, where each queue thread is in `proceed`, the job on the executor, the wire, the client's queue; one action per step between two accesses to shared state, job step and consumer call |
| `UpdateFeed` | workflow_update_feed.cpp | functions on the feed's value: it has a mutex, every operation is one step |
| `OperatorService` | operator_service.cpp | store tables, feed, and for each thread where it is in its edit and its copy of the record; one action per call |
| `HttpRouting` | the routes of http_transport_detail.hpp | operators from a request to an operation or an error status, and the requests that the operator console and the runtime client send |
| `HttpServer` | http_transport.cpp | worker pool, connections, sockets, dashboard streams; extends `OperatorService` and `HttpRouting` |
| `Application` | service mode of application.cpp | the main thread's start and stop over `HttpServer`; fairness and the properties of the composition |
| `MCInstances`, `MCOrchestrator`, `MCDriver`, `MCControlPlane`, `MCOptimizer`, `MCGrpc`, `MCApplication` | | workflows, requests and bounds for TLC |
| `OrchestratorProofs` | | theorems about `Orchestrator` with any caller, and about the plan |
| `DrivenProofs` | | theorems about `DrivenSpec` and, for punctual execution, `DriverSpec` |
| `LoadProofs` | | theorems about a caller that sets up once (extends `MCOrchestrator`, whose history variable says so) |
| `ControlPlaneProofs`, `GrpcProofs`, `ApplicationProofs` | | theorems about the module of that name |
| `OptimizerProofs` | | theorems about the exact search and the solvers' rows |
| `SequentialProofs` | | the types of `ControlPlane`, and theorems about requests that do not overlap |

`OrchestratorDriver` extends `Orchestrator`, which extends `Scheduler` (over
`Workflow`) and `PlannerFsm`. `ControlPlane` stands alone: the service plans with
the optimiser, not with the Orchestrator. `Application` extends `HttpServer`,
which extends `OperatorService` (over `UpdateFeed`) and `HttpRouting`.
`GrpcTransport` implements `EventChannel` (`INSTANCE EventChannel WITH ...`).

A definition with a suffix, such as `HasCapacity_shortInterval` or
`Load_fresh`, is a deliberate fault: the definition it is named after with one
plausible mistake. `PROJECT.json` pairs each with a property that must then fail.

### Abstractions

Orchestration core. Ids are numbers, because only their order is used. Vectors
of WorkflowState that are only searched are sets. The EDF comparator leaves ties
that come out in the order of an unordered set, so any order it allows is
allowed here. `task_planned_end_time` is derived from the start. Type and
capability constraints of a process are folded into the set `Allowed`.
`apply_dispatch` is one step: no assignment of a pass enables or blocks another.

Control plane. One workflow (handlers of different workflows share no row). A
store call is one step: it holds the store's mutex and is one statement, or one
transaction in the case of pruning. What the optimiser answers is free: it
succeeds, with or without assignments, or fails. A plan is the set of tasks it was made for. Authorisation,
messages and timestamps are left out; because the wall clock may step, pruning
may delete any row of an earlier boot that is below the newest one the record
counts. The process may stop at any step; a power loss that drops the tail of
the write-ahead log is the same as an earlier stop. The submission made at
start-up from a configuration file is a request like any other.

Optimiser. Ids are numbers; doubles are in thousandths, the factor the code
scales them by; a missing bound is a time past all others. The external solvers
are what their contract says: a point of the rows that no other beats by more
than the relative gap (the status is OPTIMAL within it; without one in the options
the MIP library's own applies), some point that satisfies them, or no answer. The
MIP backend sets coefficients and does not add them, so of a task that depends on
itself the later ones stay (`MipDependencyRow`). `ExactIsBest` compares with the search's own tree (one order
of tasks, earliest starts), as "exact" means in that backend; it assumes that no
priority exceeds the bound per task of the code, here 3 at a weight of 1000.

gRPC. The library is external: a tag comes back with a result its documentation
allows, a second write while one is outstanding aborts the process, a freed call
that is touched is a crash. The server starts as many queue threads as its options
say, two by default (`kDefaultIoThreads`) and four in shipped configurations, so
`Threads` is a constant. `proceed` is a turn of several steps: a thread takes a tag
and reads `state_` (`TakeTag`), does what happens under the mutex
(`HandleNotification`, `HandleWriteComplete`), sets `state_` after unlocking where
the code does (`MarkWriting`), and starts the next operation (`WriteEvent`,
`FinishCall`). In between other threads handle the call's other tags. Where two
threads use `current_event_` at once, what is written may be neither event
(`TornEvent`). Calls meet only in a stop or a crash, so a behaviour has one call, of
either kind. After a crash the clients go on.

HTTP and application. A connection carries one request. A socket is open or
broken; an answer written to an open one arrives. A TLS handler that has answered
unregisters its socket and then blocks in `tls_stream.shutdown` until its client
says goodbye or goes (`Close`, `TlsShutdown`). The console's targets carry ids as
`encodeURIComponent` writes them (a constant operator) and the server compares
them as they are, so an edit of an id that the encoding changes is refused. Of the control plane's calls
`OperatorService` keeps the first write and one write for the planning pass,
each with its publication (`ControlPlane` has them in full), and of a record the
tasks, the state, the audit counter and whether its last response was good. A
dashboard is read in one step; the wall clock does not step back. Paths have at
most four segments after their root, and ids no separators. The loop's check and
its accept are one step: an accept that returns during a stop is a connection
that is then not taken up. The gRPC server's stop returns, which is
`StopCompletes` of `GrpcTransport`, where its one exception is named.

## 3. Runs

| Run | Property | Instance and why it is enough |
|---|---|---|
| `any_caller` | `TypeOK`, `FsmAgreement`, `InFlightExclusive`, `LoadAccounts`, `NoDispatchToUnavailable`, `DispatchesAfterPhases` | two phases of one task (task 2 of two units), two actors that register with foreign load 0 or 1, an unknown phase, an actor id nobody registered; 4 calls beyond ticks and set-up: enough to start, complete and fail a task and complete a phase around replans. A history variable tells `LoadAccounts` and `DispatchesAfterPhases` whether the workflow was reloaded or an actor replaced; all six are also theorems |
| `driven_caller` | `PlanWithinCapacity`, `PlanRespectsDependencies`, `MutualExclusion`, `InFlightInOrder` | five tasks: a sub-process, a symmetric exclusion, a dependency within a phase and one across phases, one task of two units; an actor with a gap in its windows; two strategies, two ranking profiles; 5 calls, which completes the first phase and works in the second; all four are also theorems |
| `progress` | `WorkflowCompletes`, `CapacityRespected` | three tasks in two phases, two of them on the one unit of an actor; two failures or absences; punctual and late execution; `FairSpec`; the second is also a theorem |
| `cp_unary` | `HistoryAppendOnly`, `PlanCoversOutstanding`, `PlanningEnds` | one handler, four calls of eight kinds, unary, `FairSpec`; the first two are also theorems, and so are `PlanningInProgress` and `HeldIsRefused` for such clients |
| `cp_restart` | `OnePlanPerKey`, `SessionFound`, `VersionTokenHonoured` | one handler, three streaming calls with keys and tokens, two stops anywhere, recovery on or off; all three are also theorems |
| `cp_concurrent` | `TypeOK`, `LatestRowsStored`, `UpdatesPublished` | two interchangeable handlers (symmetry), two calls, a stop anywhere, reboot, pruning and recovery each on or off. Two handlers are what a lost update needs; the last two are theorems for any number |
| `cp_forget` (violation) | `CompletedNotPlanned` | complete a task, stop, recover, ask for another plan |
| `cp_held` (violation) | `HeldIsRefused` | two handlers: a pause during a re-orchestration, then another re-orchestration |
| `optimizer` | `RowsAreTheSchedules`, `ExactPlanIsASchedule`, `ExactIsBest`, `OptimumFulfilsMost`, `SearchIsBounded` | some 230 requests of two to four tasks and one or two actors: a chain over a gap in the windows, an important task against two others, every combination of dependency, exclusion, deadline, demand and duration of three tasks, odd requests (unknown dependency, no duration, preemptible, nobody capable, a task that depends on itself), weights that compete (a fulfilled task at 100, priorities at 20, costs; gaps of none, 5 and 100 percent); four builds. Small enough that every selection of options is tried against the rows |
| `grpc` | `UnaryOutlivesItsTags`, `EventsInOrder`, `OneAlarmAtATime`, `OneThreadStrandsNone`, `OneThreadImplementsChannel`, `ClientResolves`, `StopCompletes` | one queue thread or two (`MCGrpc`: the behaviour chooses), one call of either kind, two events, breaks, cancellation, a failing service, a stop. A call has at most two tags outstanding, so two threads are all that can be in it at once; two events are what a queue behind an outstanding write needs. The first two are theorems for any number of threads, and `StreamsImplementChannel` proves the fifth for a queue with one |
| `grpc_stream` (violation) | `StreamEndsWithResponse` | one queue thread, two events, no fault |
| `http` | `TypeOK`, `CaughtUpIsFresh`, `QuietRecordIsExact`, `SocketsOutliveTheirPointers`, `ShutdownCompletes`, `RequestResolves`, `StreamCatchesUp` | sixteen loads of two or three connections over pools of one to three workers: streams among edits of the same and of another workflow, edits that overlap and that queue, requests that must change nothing (calm loads: no stop, clients that speak at once); slow, silent and departing clients, TLS clients that stay after their answer, no control plane, failing starts and a stop (the others). The feed keeps two updates, so that a stream can be lapped |

What they show. With any caller the core keeps its books: a task is never in
flight and done at once, the two FSM copies never part, and no dispatch goes to
an absent actor although `apply_dispatch` looks at no flag. As long as workflow
and actors are set once the load is exact. With a caller that keeps to the protocol,
exclusion and order hold across failures and replans. The control plane is right
for one client at a time, and its record stays consistent with its tables under
concurrency and stops; its guards on state are not, because each handler writes
back the copy it read. The two solver backends describe exactly the schedules
the request means (the MIP's except for a task that depends on itself), and the
exact search loses nothing to pruning. The solvers fulfil as many tasks as the
search where `FulfilmentDominates`: one fulfilled task outweighs all else. With
the shipped weights (100 for a fulfilled task, 20 per unit of priority), or with
large costs, it need not, and they may prefer one important task to two others. A
consumer of a gRPC stream served by one queue thread is never told that a cut
stream is whole, even when the server dies, and it does die: the shared tag is
found with no fault at all. With two threads, the default, a stream can be cut and
end normally, an event can be lost or repeated, and a call can be left with
`notification_pending_` set and no tag, for which stop waits for good; what stays
true is that events come in order, that every call ends for its caller and that
unary calls are safe. Edits of the console that do not overlap leave the record
they asked for, dashboard streams that have caught up are fresh, and the
application exits unless a client that says nothing got in between two steps of
the stop, or a TLS client that was served keeps its connection.

Deadlock is not checked in the runs of the core, where a caller may stop
calling (and the bounds end every behaviour), nor in those of the transports, where a
service waits for clients and a process ends; there the liveness properties say
what may not wait. It is checked in those of the control plane and the
optimiser, where `Finished` and `Done` are the only rest.

### Bounds

`MaxTime` bounds the clock, `MaxCalls` (MCOrchestrator) the calls beyond
configuration, ticks and planning, `MaxFailures` failures and absences;
`MaxCalls` and `MaxCrashes` (ControlPlane) requests and stops, `MaxEvents`
(GrpcTransport) the events of a stream, `Retained` (UpdateFeed) the updates kept
(256 in the code). `LargeTime` and `PriorityBound` are constants
of the code, scaled down. The theorems hold for all values of the bounds.

### Fairness

`OrchestratorDriver!Fairness`: `plan` ends (each pass removes tasks or is the
last), the driver keeps ticking, and the simulated clock fires every event it
was given, so tasks in flight end, failed tasks are made resumable, absent
actors return, settled phases are completed and the toggle is made. These calls
are disabled while `plan` runs, hence strong fairness for them. Nothing is
assumed of failures.

`ControlPlane!FairSpec`: a handler goes on with the request it serves, and so
does recovery. Every mutex holder releases it, the runtime returns a complete
stream, and a unary call drains it. Nothing is assumed of requests, stops or
abandoned streams.

`GrpcTransport!Fairness`: the queue's threads, the executor and the client's
thread go on, a call whose tags wait on the queue gets a thread again and again
while other calls keep the threads busy (strong fairness of `Poll`), the consumer goes on reading, and a call that lasts reaches the
deadline every call carries (`BreakCall`). Nothing is assumed of cancellation,
stops, or calls being made.

`Application!Fairness`: each thread of the server takes its steps, and the main
thread those of a stop it has begun. A wait on the feed ends at its timeout.
Nothing is assumed of clients: whether they speak, stay or leave is theirs.

## 4. Disagreements between documents and code

With a run and a finding in `PROJECT.json`:

* Recovery replays the original configuration; completed tasks are planned again
  (`cp_forget`).
* A pause stored during a re-orchestration is overwritten by that handler's old
  copy (`cp_held`).
* A streaming gRPC call takes an alarm for the completion of a write and starts a
  second write (`grpc_stream`).

Met while modelling, and reproducible by changing what is named:

* `complete_phase` requests no replan, so the next phase is never planned unless
  another call does: `WorkflowCompletes` without `TogglesMarker`.
* `apply_dispatch` does not compare load with capacity: behind a late task, or
  with a task of no duration, the actor is overloaded (`CapacityRespected`
  without its `punctual`).
* `set_workflow` forgets tasks in flight but not their load in the registry:
  `LoadAccounting` fails once `disturbed` is dropped from `LoadAccounts`.
* With an id that is no phase, `complete_phase` fires AllPhasesComplete with a
  phase open, and the planner goes to Idle.
* A submission without `replace_existing` starts the counters at zero and writes
  over stored rows: `HistoryAppendOnly` in `cp_unary` with `replace` "no" or
  "unset".
* Row and counter are two statements: with one stop, `HistoryAppendOnly` fails;
  a stop during planning also leaves the durable state at planning for good
  (`PlanningInProgress`).
* A re-orchestration without `trigger_reorchestration` stores a plan version that
  has no assignment: `PlanCoversOutstanding` with `trigger` FALSE.
* With two handlers the expected plan version is compared with a stale copy
  (`VersionTokenHonoured`), and two copies of a request with one key both plan
  (`OnePlanPerKey`). A re-orchestration that overlaps the first submission takes
  the workflow for known before the runtime has its session, and finds none
  (`SessionFound`).
* `resume_workflow` brings a cancelled workflow back; a retry that carries a
  version token is refused, because the version is compared before the key is
  looked up.
* Edits of one workflow that overlap lose edits and audit rows: `QuietRecordIsExact`
  without `raced`. An edit answered with ok = false is stored all the same.
* Stop hangs on a connection registered after the sockets were closed, if its
  client says nothing: `ShutdownCompletes` without `Hung`. A client queued behind
  it waits too, because the HTTP client's timeout covers asynchronous operations
  only. An HTTP start that fails leaves the acceptor open. A TLS handler waits for its
  client's goodbye with its socket no longer registered, so stop cannot end the wait:
  `ShutdownCompletes` and `RequestResolves` without `Lingers`.
* The console encodes the ids in its targets and the server does not decode them: an
  edit of a workflow whose id holds a space is refused (a load of `http` has one).
* With two queue threads, the default, a gRPC stream may be finished with OK before
  the event that the other thread has popped is written, so a cut stream ends
  normally: `OneThreadImplementsChannel` with `Streams` for `Watched`. A call may be
  stranded, and stop then never returns: `OneThreadStrandsNone` without `single`,
  `StopCompletes` without `Stranded`. A second `Finish` of one call and an event
  written twice are reachable too.
* A cancelled gRPC stream may be freed while its job still uses it
  (`GrpcTransport`, `Freed` in `ProduceEvent`); the unary call is not
  (`UnaryOutlivesItsTags`).
* Exact backend: a task of no duration skips the windows, an exclusion listed on
  one side only is not seen from the other (`Regular`); a task that depends on an
  unknown id is never placed, while the solvers ignore the id; a required task
  whose optional dependency was given up is missing from a plan that says ok. The
  automatic choice of a backend does not fall back when the chosen one turns a
  preemptible task down. The MIP's rows accept a task that depends on itself, CP-SAT's
  refuse it and the search never places it (`SelfDependent`). A solver may leave more
  tasks out than the search where other weights outweigh a fulfilled task
  (`OptimumFulfilsMost` without `FulfilmentDominates`).

## 5. Proofs

TLAPS checks them for every value of the constants that satisfies the
assumptions in the modules: finite sets of ids, natural durations, demands,
capacities and times; `Main` not a handler; what a request and a start look like
(`RequestsAssumption`, `StartsAssumption`); the markers for no session and no
record are not values of those kinds (`SessionAssumption`, `RecordAssumption`); `GrpcAssumption` (a natural
number of events, faults among the four known); `EncodingAssumption` (the encoding
of the empty id is empty); `ScriptsAssumption` (the
ids that a body or a query names are among those considered, or missing);
`NoRecordAssumption` (the operator service's marker for no record); and
Optimizer's `RequestsAssumption` (a request is `WellFormed`: finitely many tasks
and actors, integers where numbers are meant, times, durations and demands that
are not negative).

What a theorem assumes beyond that is an explicit hypothesis of its statement
(`ASSUME ... PROVE`). Each such hypothesis is met by the instance of the run that
checks the property, and the bullet says what goes wrong without it.

Orchestration core, any caller (`Spec`):

* `TypeCorrect`: `Spec => []TypeOK`. The planner's partial results are typed
  because every candidate start is a natural number, which rests on lemmas about
  completion, release and window times.
* `FsmAgrees`: `Spec => []FsmAgreement`, by the transition table: the wrapper
  forwards an event exactly where the machine has a row for it.
* `InFlightIsExclusive`: `Spec => []InFlightExclusive`, inductive with `TypeOK`.
* `DispatchAvoidsUnavailable`: `Spec => NoDispatchToUnavailable`. The action
  property is not inductive in itself: the invariant says that while no replan is
  requested the schedule names only registered and available actors, and the
  same of a plan in progress.
* `PlanFitsCapacity`: `Spec => []PlanWithinCapacity`. A task is placed where it
  fits, but the property is about every placed task at all its instants; the
  proof shows that adding one task changes the demand of one actor over one
  interval by its own demand (`TotalDemand` is additive on disjoint sets), and
  that nothing `plan` reads changes while it runs.

Orchestration core, a caller that sets up once (`MCAnySpec`):

* `LoadsAreAccountedFor`: `MCAnySpec => []LoadAccounts`. Inductive with
  `OwnersRegistered` (the actors that the schedule, a plan in progress and the
  tasks in flight name are in the registry): a
  dispatch adds a task's demand to the one actor that becomes its owner, and a
  completion or failure takes it from that owner; the sum over the tasks in
  flight changes by the same amount.
* `PhasesStartInOrder`: `MCAnySpec => DispatchesAfterPhases`. The invariant
  `ScheduleReached` says of the schedule, and of a plan in progress, that every
  task in it belongs to a phase whose predecessors are complete; phases stay
  complete, so an old schedule still satisfies it when it is dispatched.

Orchestration core, a caller that follows the protocol (`DrivenSpec`):

* `TasksExcludeEachOther`: `DrivenSpec => []MutualExclusion`; `TasksRunInOrder`:
  `DrivenSpec => []InFlightInOrder`; `PlanKeepsPrecedence`:
  `DrivenSpec => []PlanRespectsDependencies`. None is inductive: a dispatch works
  from a schedule computed earlier. The invariant adds that the schedule's tasks
  are compatible with each other and with what runs or has run
  (`ScheduleCompatible`), that while no replan is asked for the scheduled tasks
  are of open phases and not settled (`ScheduleLeftToRun`), that a resumable task
  is not in flight (`ResumableNotInFlight`), and that a plan in progress has left
  only tasks that neither run nor are done (`PlanPlacesOnlyIdle`).

Orchestration core, the driver of the scenario tests (`DriverSpec`):

* `PunctualLoadsFit`: `PositiveDurations` and `InitialLoadsFit` imply
  `DriverSpec => []CapacityRespected`. `apply_dispatch` adds load without a
  comparison, so the property rests on the plan, made at an earlier time for an
  earlier state. While execution keeps to the planned times, every task in flight
  is within its planned interval (`OnTime`), and at every instant from now on the
  tasks that will still be dispatched from the schedule fit on their actors beside
  those in flight, an overdue one waiting for a dependency (`ScheduleFits`). A
  dispatch therefore finds room at its own instant; a plan made now starts nothing
  earlier (`PlanStartsNow`, `PlansInTheirTime`), and its capacity check is exactly
  `ScheduleFits` of its result. A task of no duration skips that check, and an
  actor that is registered with more load than it has breaks the property at once.

Control plane:

* `NewestRowsStored`: `Spec => []LatestRowsStored`. An upsert stores a handler's
  copy, so the invariant (`RowsInv`) also says that every copy that may still be
  stored counts only rows that exist, that such a copy has the shape of a record,
  and that no handler is active while the process is down; pruning runs only
  then, so it cannot take a row a copy counts.
* `EveryWriteIsPublished`: `Spec => []UpdatesPublished`. The invariant
  (`PublishInv`): after a write that nobody was told of, some handler is at a
  step from which a publish follows.
* `ControlPlaneIsTyped`: `Spec => []TypeOK`. A handler's stage must be one of the
  operation it serves, which depends on the events still to come: the invariant
  (`TypesInv`) says that what is left of a stream has exactly one event with a
  response, its last, and that a copy has been taken before it is used.

Control plane, requests that do not overlap (`OneHandler`: one handler at most;
the main thread still recovers, and the process still stops anywhere unless a
theorem says otherwise):

* `SessionIsFound`: `OneHandler` implies `Spec => []SessionFound`. A workflow
  taken for known (`hydrated`) has a session unless a submission is about to
  create it (`SessionInv`), and then no other thread is at work (`Alone`). With
  two handlers it is false (section 4).
* `TokensAreHonoured`: `OneHandler` implies `Spec => VersionTokenHonoured`. The
  version is compared with a copy at the start of a call and used many steps
  later. `CopyInv`: the copy of the thread at work counts as many plan versions
  as the stored record, or one more between `write_plan_version` and the upsert;
  `TokenInv`: until then the copy has the version the request expects.
* `KeysHaveOnePlan`: `OneHandler`, `Continuing` and `NoPruning` imply
  `Spec => []OnePlanPerKey`. The plan's row is written before the key's, so a
  stop in between leaves a plan whose key is unknown. `KeyInv` says that such a
  row can only be the one after the last the record counts, which the next plan
  writes over; every other keyed row has its key stored. A submission that does
  not replace restarts the count, and pruning removes keys: either lets a key
  have two plans.
* `PlanningIsServed`: `OneHandler` and `Undisturbed` imply
  `Spec => []PlanningInProgress`. `PlanningInv`: while the record says planning
  some thread has an event with a response ahead, and a copy that has taken in a
  response no longer says planning. A stop or an abandoned stream leaves the
  record at planning, so `Undisturbed` excludes both.
* `HistoryIsAppendOnly`: `OneHandler`, `Continuing` and `NoStops` imply
  `Spec => HistoryAppendOnly`. `LogInv`: the copy that the thread at work carries
  counts what the stored record counts and what it has added itself
  (`CopyCounts`), and no row has a number beyond (`RowsCount`), so the number it
  writes next is new; a stream can only be abandoned where all that was written
  is counted. `Steady` says that nothing is left to recover.
  A stop between row and counter, or a submission that restarts the counters,
  makes the next row replace an old one.
* `HoldsAreRespected`: the same hypotheses imply `Spec => HeldIsRefused`. The
  property reads the hold off the event and audit tables, the code decides on
  the state in the record: `HoldInv` says that when the last word of the tables is a
  pause or a cancellation the record, or the copy about to be stored, says so too,
  through every write of the record. With two handlers it is false (`cp_held`).
* `PlansCoverOutstanding`: with `Replanning` (every re-orchestration asks for a
  plan, and only completions name tasks) and unary clients besides,
  `Spec => PlanCoversOutstanding`. `MemoryInv` relates runtime memory to the log:
  the session holds the submitted tasks less those that logged events, and the
  events still to be logged of the stream at hand, have as completed. A stop
  forgets the session (`cp_forget`), an abandoned stream leaves a completion out of
  the log, and a re-orchestration without trigger stores an empty plan.

Optimiser:

* `ExactReturnsASchedule`: `Spec => []ExactPlanIsASchedule`. `SearchInv`: every
  node on the stack and the best plan so far (`SoundState`) consist of allowed
  placements that fit together, and drop a required task only with a dependency of
  it. The check made when a task is placed looks only at the tasks placed before
  it; the proof shows that this is enough for every pair and every instant.
* `ExactReturnsTheBest`: `Spec => []ExactIsBest`. `BestSearchInv` adds that every
  state reached is a state of the tree (`TreeInv`), and that every leaf of the tree
  is below some node of the stack or does not beat the best plan so far
  (`CoverInv`). Pruning keeps this because the bound of a node is at least the
  score of each leaf below it, component by component and then in the
  lexicographic order.
* `SearchEntersEachStateOnce`: `Spec => []SearchIsBounded`. `BoundedSearchInv`:
  the states entered and those below the stack's nodes together are at most those
  of the tree, which is finite; the subtrees on the stack are disjoint.
* `RowsMeanSchedules`: `Spec => []RowsAreTheSchedules`, whose equivalence is claimed
  of the MIP's rows only where no task depends on itself. The invariant only says
  that the form is the one of the request; the theorem is about operators
  (`RowsMeaning`): capacity rows per slot, ordering rows, the constraint
  backend's implications and the big-M rows of the other, each read as the
  condition on schedules it stands for.

  These theorems are about finite sums and a tree of unbounded depth, where
  induction would be the usual means. Instead the proofs take a counterexample
  with a least measure (`LeastOfNat`), and sums are counted (`SumOf` is the size of
  a set of unit slots), so that the library's facts on cardinality apply.

gRPC transport:

* `UnaryCallsAreSafe`: `Spec => []UnaryOutlivesItsTags`, for any number of queue
  threads. The invariant (`UnaryLives`) lists, for each state of the call object,
  which tag is outstanding or which one thread is at work on it, where its job is,
  and the references that makes: one for the tag or turn and one for a job that may
  still touch the object.
* `StreamsImplementChannel`: with one queue thread (`OneThread`),
  `Spec => ImplementsChannel`, the refinement of `EventChannel`. `StreamInv` relates,
  for each stream, what the job has produced, what is queued and on the wire, what
  the client's thread has read and what the consumer has taken: in this order they
  are one sequence without gaps (`Flow`), an event that the thread has popped and
  not yet written included (`Backlog`), and an ordinary end is on its way only
  behind the last event (`ServerSide`, `ClientSide`). Each step is then either
  hidden from the consumer (`Hidden`) or a step of the channel (`ShownStep`). It
  holds through broken and cancelled calls, stops, and the crash that the shared tag
  leads to. Two threads break it (section 4).
* `EventsStayInOrder`: `Spec => []EventsInOrder`, for any number of queue threads.
  What the consumer has, its queue and the wire make up (`Shown`) does not go down
  and stays at or below `current_event_`, and what is pending continues from there
  without gaps up to what was yielded (`Numbered`, `Ordered`): a race on
  `current_event_` may skip or repeat an event, and only a pop, under the mutex,
  moves it on.

Operator service, HTTP server and service mode:

* `ApplicationIsTyped`: `Spec => []TypeOK` of `Application`. Strengthened by what
  is known of a job at each step (`SoundJob`): an edit that is past its first
  read is of a known workflow, an action is one of the four. That rests on lemmas
  about the routes (`RouteIsSound`) and about the feed (`FeedOK`: the numbers of
  the kept updates are consecutive and end with the latest).
* `SocketsAreAlive`: `Spec => []SocketsOutliveTheirPointers`, by `SocketsOK`:
  registered sockets belong to busy handlers, without a pool no handler is busy,
  and before the start and after the stop there is no pool.
* `CaughtUpStreamsAreFresh`: `Spec => []CaughtUpIsFresh`. The invariant
  (`FollowersOK`) says of the workflow that a stream shows, and of the one it
  would select now, that the client has its latest detail, or the writer has not
  published yet, or an update of it is kept and not taken, or has just been
  taken, or updates after the stream's position were dropped. The second half is
  needed because the first workflow of the list can change without an update of
  the workflow shown; `PublishKeeps` and `NextUpdateIs` say what a publication and
  a wait do to a position.
* `QuietRecordsAreExact`: `GenuineLoads` and `SubmittedUnaudited` imply
  `Spec => []QuietRecordIsExact`. The invariant (`EditsOK`) says, for each workflow
  whose edits have not overlapped, that its record and audit rows are those asked
  for when no thread is at work on it, and otherwise that the one thread's copy
  and the steps ahead of it lead there (`Tracks`, one case per step). It rests on
  `EditsAreUnderstood`: what the console and the runtime client send is routed to
  the operation, workflow and task they mean. `GenuineLoads` says that requests
  come from these clients or change nothing. A submission of an audited workflow
  restarts the audit counter and keeps the rows, so the counter is then wrong:
  `SubmittedUnaudited` excludes it.

Only model-checked:

* liveness (`WorkflowCompletes`, `PlanningEnds`, `ClientResolves`,
  `StopCompletes`, `ShutdownCompletes`, `RequestResolves`, `StreamCatchesUp`):
  fairness and ENABLED are out of the prover's reach;
* `OptimumFulfilsMost`: under `FulfilmentDominates` the claim is about sums of terms
  of very different size (10^6 per fulfilled task), which needs induction over the
  tasks; counting the sum in unit slots, as elsewhere in the module, would be out of
  TLC's reach at these weights;
* `OneAlarmAtATime` and `OneThreadStrandsNone`: their inductive invariants have to
  count the tags and turns of a call together (at most two, and two only while
  `notification_pending_` is set).

Every other invariant and action property of the passing runs is also a theorem.
No module uses a RECURSIVE operator.

## 6. Not modelled

The external solvers and the gRPC and Beast libraries (modelled by their
contract), the NLP parser and the configuration loader (text; what they return is
an input of `Optimizer` and of a submission), TLS credentials, logging, message
conversion, explanations of a plan, plan diff (display only), the connector
registry (no caller), the simulated clock (tests and benchmarks only), the
application's interactive commands (they submit as clients do), the UI beyond the
requests its client builds, benchmarks, scripts. Queries and metrics of the store change no state. `Actor::can_accept_at`
and `next_available_start` have no caller in the system. Zero durations and
preemptible processes are allowed by the core's modules and theorems, but no
instance of the core has them. Restart of the process resets the feed's numbers:
a stream ends with the process, and a new one starts from the feed's position,
so no cursor outlives it.

## 7. Plan

1. *Done*: orchestration core, control plane, optimiser with its backends, both
   transports, operator service, update feed and service mode; the refinement of
   the abstract event channel, model-checked and proved; theorems for every safety
   property of the runs but three.
2. *Proofs left*: `OptimumFulfilsMost`, `OneAlarmAtATime`, `OneThreadStrandsNone`.
3. *Models left*: plan diffs as operators, the UI's polling hook, two gRPC calls
   that meet in a stop, and a versioned register as the abstract specification
   of the control plane with one handler.
