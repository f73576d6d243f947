---------------------------- MODULE HttpRouting ----------------------------
(***************************************************************************)
(* How the HTTP server turns a request into an operation: the runtime      *)
(* routes, the operator routes, their error answers.                       *)
(*                                                                         *)
(* A request target is abstracted to the first segments the routes tell    *)
(* apart (root), the segments after them (rest, at most four) and the verb *)
(* after the last colon; the query to the workflow it selects; the body to *)
(* whether it is empty or garbled and to the ids it names ("" when it      *)
(* names none).  Credentials and wording are left out.  The console        *)
(* encodes the ids of a target; the server decodes queries, not targets.   *)
(***************************************************************************)
EXTENDS Naturals, Sequences

CONSTANT EncodeURIComponent(_)  \* the form of an id in the console's targets

ASSUME EncodingAssumption == EncodeURIComponent("") = ""

\* An operation of the runtime or operator service, and an error status.
Operation(op, wf, task) == [op |-> op, wf |-> wf, task |-> task, status |-> 200]
Refusal(status) == [op |-> "none", wf |-> "", task |-> "", status |-> status]

IsStreamRequest(r) ==
    /\ r.method = "GET"
    /\ r.path = [root |-> "operator", rest |-> <<"dashboard">>, verb |-> "stream"]

-----------------------------------------------------------------------------
(* The ids a target names, and {} when it does not have the route's shape. *)

\* /v1/workflows/<id>:reorchestrate; the id may itself hold separators, which
\* no stored workflow has.
WorkflowOfTarget(p) ==
    IF p.root = "workflows" /\ p.verb = "reorchestrate" /\ p.rest # << >> /\ p.rest # <<"">>
    THEN {p.rest[1]} ELSE {}

\* /v1/operator/workflows/<id>:<verb>
OperatorWorkflow(p, verb) ==
    IF /\ p.root = "operator" /\ p.verb = verb
       /\ Len(p.rest) = 2 /\ p.rest[1] = "workflows" /\ p.rest[2] # ""
    THEN {p.rest[2]} ELSE {}

\* /v1/operator/workflows/<id>/tasks.  In /v1/operator/workflows/tasks prefix
\* and suffix share a separator, the size of the id wraps around to a huge
\* number, and the id is all that follows the prefix.
OperatorTaskWorkflow(p) ==
    IF ~(p.root = "operator" /\ p.verb = "none" /\ Len(p.rest) >= 2
         /\ p.rest[1] = "workflows" /\ p.rest[Len(p.rest)] = "tasks") THEN {}
    ELSE IF Len(p.rest) = 2 THEN {"tasks"}
    ELSE IF Len(p.rest) = 3 /\ p.rest[2] # "" THEN {p.rest[2]} ELSE {}

\* /v1/operator/workflows/<id>/tasks/<task>:delete
OperatorTaskDelete(p) ==
    IF /\ p.root = "operator" /\ p.verb = "delete" /\ Len(p.rest) = 4
       /\ p.rest[1] = "workflows" /\ p.rest[3] = "tasks"
       /\ p.rest[2] # "" /\ p.rest[4] # ""
    THEN {[wf |-> p.rest[2], task |-> p.rest[4]]} ELSE {}

-----------------------------------------------------------------------------
(* The routes, tried in the order of the code. *)

\* The id in the body may be left out; it must not name another object.
Agrees(id, named) == named = "" \/ named = id

\* A request to a route with ids in its target.
Addressed(r, op, wf, task) ==
    IF r.body.garbled \/ ~Agrees(wf, r.body.wf) \/ ~Agrees(task, r.body.task)
    THEN Refusal(400) ELSE Operation(op, wf, task)

\* The bodies of task and action requests may be empty where the code allows.
Verbs == [pause |-> "pause", resume |-> "resume", cancel |-> "cancel",
          manualIntervention |-> "manual"]

OperatorRoute(r) ==
    CASE r.method = "GET" /\ r.path.rest = <<"dashboard">> /\ r.path.verb = "none" ->
           Operation("dashboard", r.query, "")
      [] r.method = "POST" /\ r.path.rest = <<"workflows">> /\ r.path.verb = "none" ->
           IF r.body.garbled THEN Refusal(400)
           ELSE Operation("upsert_workflow", r.body.wf, "")
      [] r.method = "POST" /\ OperatorTaskWorkflow(r.path) # {} ->
           \* The task's id is the body's: the target names the workflow only.
           LET w == CHOOSE w \in OperatorTaskWorkflow(r.path) : TRUE
           IN Addressed(r, "upsert_task", w, r.body.task)
      [] r.method = "POST" /\ OperatorTaskDelete(r.path) # {} ->
           LET d == CHOOSE d \in OperatorTaskDelete(r.path) : TRUE
           IN Addressed(r, "delete_task", d.wf, d.task)
      [] r.method = "POST" /\ \E v \in DOMAIN Verbs : OperatorWorkflow(r.path, v) # {} ->
           LET w == CHOOSE w \in OperatorWorkflow(r.path, r.path.verb) : TRUE
           IN Addressed(r, Verbs[r.path.verb], w, r.body.task)
      [] OTHER -> Refusal(404)

\* handle_http_request: control says whether the operator service is there.
Route(r, control) ==
    CASE r.path.root = "operator" ->
           IF control THEN OperatorRoute(r) ELSE Refusal(503)
      [] r.path.root # "operator" /\ r.method # "POST" -> Refusal(405)
      [] r.path.root = "submit" /\ r.method = "POST" ->
           IF r.body.garbled THEN Refusal(400) ELSE Operation("submit", r.body.wf, "")
      [] WorkflowOfTarget(r.path) # {} /\ r.method = "POST" ->
           LET w == CHOOSE w \in WorkflowOfTarget(r.path) : TRUE
           IN Addressed(r, "reorchestrate", w, r.body.task)
      [] OTHER -> Refusal(404)

-----------------------------------------------------------------------------
(***************************************************************************)
(* What the console and the runtime client send.  Beside the request, asks *)
(* says what its sender wants done: nothing reads it but the properties.   *)
(***************************************************************************)
Path(root, rest, verb) == [root |-> root, rest |-> rest, verb |-> verb]
Body(wf, task) == [garbled |-> FALSE, wf |-> wf, task |-> task]
Asks(op, wf, task) == [op |-> op, wf |-> wf, task |-> task]
Nothing == Asks("none", "", "")

Get(path, query) ==
    [method |-> "GET", path |-> path, query |-> query, body |-> Body("", ""), asks |-> Nothing]
Post(path, body, asks) ==
    [method |-> "POST", path |-> path, query |-> "", body |-> body, asks |-> asks]

\* The console's targets.
OnWorkflow(w, verb) == Path("operator", <<"workflows", EncodeURIComponent(w)>>, verb)
OnTasks(w) == Path("operator", <<"workflows", EncodeURIComponent(w), "tasks">>, "none")
OnTask(w, t) ==
    Path("operator", <<"workflows", EncodeURIComponent(w), "tasks", EncodeURIComponent(t)>>, "delete")

Dashboard(w) == Get(Path("operator", <<"dashboard">>, "none"), w)
DashboardStream(w) == Get(Path("operator", <<"dashboard">>, "stream"), w)

UpsertWorkflow(w) ==
    Post(Path("operator", <<"workflows">>, "none"), Body(w, ""), Asks("upsert_workflow", w, ""))
UpsertTask(w, t) == Post(OnTasks(w), Body(w, t), Asks("upsert_task", w, t))
DeleteTask(w, t) == Post(OnTask(w, t), Body(w, t), Asks("delete_task", w, t))
PauseWorkflow(w) == Post(OnWorkflow(w, "pause"), Body(w, ""), Asks("pause", w, ""))
ResumeWorkflow(w) == Post(OnWorkflow(w, "resume"), Body(w, ""), Asks("resume", w, ""))
CancelWorkflow(w) == Post(OnWorkflow(w, "cancel"), Body(w, ""), Asks("cancel", w, ""))
ManualIntervention(w) ==
    Post(OnWorkflow(w, "manualIntervention"), Body(w, ""), Asks("manual", w, ""))

\* The runtime client's targets have the id as it is.
SubmitWorkflow(w) == Post(Path("submit", << >>, "none"), Body(w, ""), Asks("submit", w, ""))
Reorchestrate(w) ==
    Post(Path("workflows", <<w>>, "reorchestrate"), Body(w, ""), Asks("reorchestrate", w, ""))

\* The requests of these clients that change something.
IsEditOf(r, w, t) ==
    r \in {UpsertWorkflow(w), UpsertTask(w, t), DeleteTask(w, t), PauseWorkflow(w),
           ResumeWorkflow(w), CancelWorkflow(w), ManualIntervention(w),
           SubmitWorkflow(w), Reorchestrate(w)}
=============================================================================
