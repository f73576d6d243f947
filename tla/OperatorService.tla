-------------------------- MODULE OperatorService --------------------------
(***************************************************************************)
(* The operator service: the console's edits and actions on stored         *)
(* workflows, and the dashboards it builds.  An edit is made of calls on   *)
(* the store, on the control plane and on the feed; each call is atomic,   *)
(* the edit is not, and the copies of the record that the thread holds     *)
(* between two calls miss what other threads store.                        *)
(*                                                                         *)
(* ControlPlane models the control plane's own calls in full.  Here a      *)
(* submission is its first write and one write for the events of the       *)
(* planning pass, each followed by a publication; an action is its writes  *)
(* and its publication.  Of a record only the tasks, the state, the audit  *)
(* counter and whether its latest response is a good one are kept.         *)
(***************************************************************************)
EXTENDS UpdateFeed, FiniteSets

CONSTANTS
    Threads,       \* the threads that serve requests, one per connection
    Workflows,     \* workflow ids
    Tasks,         \* task ids
    Submitted,     \* the tasks of a configuration that is submitted whole
    Stored,        \* the workflows with a record at the start
    Original,      \* the tasks of those records
    Listed,        \* the one of them that is listed first at the start
    NoRecord       \* no record

ASSUME StoredAssumption ==
    Stored \subseteq Workflows /\ Listed \in Stored /\ Submitted \cup Original \subseteq Tasks

VARIABLES
    record,        \* workflow |-> row of workflow_records, or NoRecord
    audits,        \* workflow |-> audit rows: sequence |-> action
    feed,          \* the update feed
    first,         \* the workflow that list_workflows returns first
    job,           \* what each thread is doing
    wanted,        \* history: the record the edits asked for, one by one
    raced          \* history: workflows with edits that overlapped

serviceVars == <<record, audits, feed, first, job, wanted, raced>>

Record == [tasks : SUBSET Tasks, audits : Nat, answered : BOOLEAN,
           state : {"submitted", "planned", "failed", "paused", "cancelled"}]

ASSUME NoRecordAssumption == NoRecord \notin Record

FreshRecord == [tasks |-> {}, state |-> "submitted", audits |-> 0, answered |-> FALSE]

Steps == {"idle", "edit", "submit", "save", "announce", "plan", "publish",
          "log", "act", "mark", "row", "stamp", "tell", "reorchestrate", "done"}

Idle == [at |-> "idle", op |-> "none", wf |-> "", task |-> "", tasks |-> {},
         rec |-> FreshRecord]

ServiceInit ==
    /\ record = [w \in Workflows |-> IF w \in Stored THEN [FreshRecord EXCEPT !.tasks = Original]
                                   ELSE NoRecord]
    /\ audits = [w \in Workflows |-> << >>]
    /\ feed = EmptyFeed
    /\ first = Listed
    /\ job = [h \in Threads |-> Idle]
    /\ wanted = record
    /\ raced = {}

ServiceTypeOK ==
    /\ \A w \in Workflows : record[w] \in Record \cup {NoRecord}
    /\ \A w \in Workflows : DOMAIN audits[w] \subseteq Nat
    /\ feed.latest \in Nat /\ Len(feed.events) <= KeptEvents
    /\ first \in Workflows
    /\ \A h \in Threads : job[h].at \in Steps /\ job[h].tasks \subseteq Tasks
    /\ raced \subseteq Workflows

-----------------------------------------------------------------------------
(* The operations, and where each one starts. *)

Actions == {"pause", "resume", "cancel", "manual"}

\* Operator edits end with append_audit_entry.
Audited(op) == op \in {"upsert_workflow", "upsert_task", "delete_task"}

FirstStep(op) ==
    CASE op \in {"upsert_task", "delete_task"} -> "edit"
      [] op \in {"upsert_workflow", "submit"} -> "submit"
      [] op \in Actions -> "act"
      [] op = "reorchestrate" -> "reorchestrate"
      [] OTHER -> "done"                  \* dashboard: reads only

Active(h) == job[h].at \notin {"idle", "done"}

\* Requests that lack an id are answered before anything is read.
Complete(o) == o.wf # "" /\ (o.op = "upsert_task" => o.task # "")

StateAfter(op, rec) ==
    CASE op = "pause" -> "paused" [] op = "cancel" -> "cancelled"
      [] op = "resume" -> IF rec.answered THEN "planned" ELSE "submitted"
      [] OTHER -> rec.state

\* History: the tasks and the audit entries of a record after an operation,
\* when it runs alone.
Intended(o, rec) ==
    LET audited(r) == [r EXCEPT !.audits = @ + 1]
        before == IF rec = NoRecord THEN FreshRecord ELSE rec
    IN CASE o.op = "upsert_workflow" -> audited([before EXCEPT !.tasks = Submitted])
         [] o.op = "submit" -> [FreshRecord EXCEPT !.tasks = Submitted]
         [] o.op = "upsert_task" /\ rec # NoRecord ->
              audited([rec EXCEPT !.tasks = @ \cup {o.task}])
         [] o.op = "delete_task" /\ rec # NoRecord /\ o.task \in before.tasks ->
              audited([rec EXCEPT !.tasks = @ \ {o.task}])
         [] o.op \in Actions /\ rec # NoRecord -> audited(rec)
         [] OTHER -> rec

\* A thread takes up operation o of a request that asked for operation asked.
Begin(h, o, asked) ==
    /\ job' = [job EXCEPT ![h] =
           [Idle EXCEPT !.at = IF Complete(o) THEN FirstStep(o.op) ELSE "done",
                        !.op = o.op, !.wf = o.wf, !.task = o.task, !.tasks = Submitted]]
    /\ IF asked.wf \in Workflows /\ Complete(asked)
       THEN /\ wanted' = [wanted EXCEPT ![asked.wf] = Intended(asked, @)]
            /\ raced' = IF \E g \in Threads \ {h} : Active(g) /\ job[g].wf = asked.wf
                        THEN raced \cup {asked.wf} ELSE raced
       ELSE UNCHANGED <<wanted, raced>>
    /\ UNCHANGED <<record, audits, feed, first>>

-----------------------------------------------------------------------------
(* One call each. *)

At(h, step) == job[h].at = step
Goto(h, step) == job' = [job EXCEPT ![h].at = step]
Holding(h, step, rec) == job' = [job EXCEPT ![h].at = step, ![h].rec = rec]
Fetched(h) == IF job[h].wf \in Workflows THEN record[job[h].wf] ELSE NoRecord

\* upsert_workflow: the row is replaced.  The list is ordered by the time of
\* the last update, in milliseconds: the workflow comes first unless another
\* was written in the same millisecond, or its own row took an older time
\* from a stale copy.
Store(w, rec) ==
    /\ record' = [record EXCEPT ![w] = rec]
    /\ first' \in {w, first} \cup
                  (IF w = first /\ w \in raced
                   THEN {v \in Workflows : record[v] # NoRecord} ELSE {})

Announce(h) == feed' = Publish(feed, job[h].wf)

\* upsert_task and delete_task read the configuration they edit.
EditConfig(h) ==
    /\ At(h, "edit")
    /\ LET rec == Fetched(h)  t == job[h].task
           refused == rec = NoRecord \/ (job[h].op = "delete_task" /\ t \notin rec.tasks)
       IN IF refused THEN Goto(h, "done")
          ELSE job' = [job EXCEPT ![h].at = "submit",
                   ![h].tasks = IF job[h].op = "upsert_task"
                                THEN rec.tasks \cup {t} ELSE rec.tasks \ {t}]
    /\ UNCHANGED <<record, audits, feed, first, wanted, raced>>

\* stream_submit_workflow continues the stored record when it replaces.
SubmitRead(h) ==
    /\ At(h, "submit")
    /\ LET old == IF Fetched(h) = NoRecord \/ job[h].op = "submit"
                  THEN FreshRecord ELSE Fetched(h)
       IN Holding(h, "save", [old EXCEPT !.tasks = job[h].tasks, !.state = "submitted"])
    /\ UNCHANGED <<record, audits, feed, first, wanted, raced>>

SubmitSave(h) ==
    /\ At(h, "save") /\ Goto(h, "announce")
    /\ Store(job[h].wf, job[h].rec)
    /\ UNCHANGED <<audits, feed, wanted, raced>>

\* The planning pass writes the thread's copy again, whatever came of it.
PlanSave(h) ==
    /\ At(h, "plan")
    /\ \E state \in {"planned", "failed"} :
         LET rec == [job[h].rec EXCEPT !.state = state, !.answered = (state = "planned")]
         IN Holding(h, "publish", rec) /\ Store(job[h].wf, rec)
    /\ UNCHANGED <<audits, feed, wanted, raced>>

\* reorchestrate refuses paused and cancelled workflows.
ReorchestrateRead(h) ==
    /\ At(h, "reorchestrate")
    /\ LET rec == Fetched(h)
       IN IF rec = NoRecord \/ (rec # NoRecord /\ rec.state \in {"paused", "cancelled"})
          THEN Goto(h, "done") ELSE Holding(h, "plan", rec)
    /\ UNCHANGED <<record, audits, feed, first, wanted, raced>>

\* Pause, resume, cancel and manual intervention start from a copy.
ActRead(h) ==
    /\ At(h, "act")
    /\ LET rec == Fetched(h)  op == job[h].op
       IN IF rec = NoRecord THEN Goto(h, "done")
          ELSE Holding(h, IF op = "manual" THEN "row" ELSE "mark",
                       [rec EXCEPT !.state = StateAfter(op, rec)])
    /\ UNCHANGED <<record, audits, feed, first, wanted, raced>>

ActMark(h) ==
    /\ At(h, "mark") /\ Goto(h, "row")
    /\ Store(job[h].wf, job[h].rec)
    /\ UNCHANGED <<audits, feed, wanted, raced>>

-----------------------------------------------------------------------------
(* append_audit_entry, and the same three calls in the control plane. *)

LogRead(h) ==
    /\ At(h, "log")
    /\ IF Fetched(h) = NoRecord THEN Goto(h, "done") ELSE Holding(h, "row", Fetched(h))
    /\ UNCHANGED <<record, audits, feed, first, wanted, raced>>

\* INSERT OR REPLACE at one more than the copy's counter.
AuditRow(h) ==
    /\ At(h, "row")
    /\ LET seq == job[h].rec.audits + 1  w == job[h].wf
       IN /\ audits' = [audits EXCEPT ![w] =
                [s \in DOMAIN @ \cup {seq} |-> IF s = seq THEN job[h].op ELSE @[s]]]
          /\ Holding(h, "stamp", [job[h].rec EXCEPT !.audits = seq])
    /\ UNCHANGED <<record, feed, first, wanted, raced>>

\* Deliberate fault: the counter is advanced in the copy only.
AuditStamp_skipped(h) ==
    /\ At(h, "stamp") /\ Goto(h, "tell")
    /\ UNCHANGED <<record, audits, feed, first, wanted, raced>>

AuditStamp(h) ==
    /\ At(h, "stamp") /\ Goto(h, "tell")
    /\ Store(job[h].wf, job[h].rec)
    /\ UNCHANGED <<audits, feed, wanted, raced>>

\* The publications, and what follows each.
Publication(h) ==
    /\ \/ At(h, "announce") /\ Goto(h, "plan")
       \/ At(h, "publish") /\ Goto(h, IF Audited(job[h].op) THEN "log" ELSE "done")
       \/ At(h, "tell") /\ Goto(h, IF job[h].op = "manual" THEN "reorchestrate" ELSE "done")
    /\ Announce(h)
    /\ UNCHANGED <<record, audits, first, wanted, raced>>

ServiceStep(h) ==
    \/ EditConfig(h) \/ SubmitRead(h) \/ SubmitSave(h) \/ PlanSave(h)
    \/ ReorchestrateRead(h) \/ ActRead(h) \/ ActMark(h)
    \/ LogRead(h) \/ AuditRow(h) \/ AuditStamp(h) \/ Publication(h)

-----------------------------------------------------------------------------
(* Dashboards. *)

\* The selected workflow's history, as one dashboard shows it.
Detail(w) == [rec |-> record[w], rows |-> audits[w]]

\* resolve_selected_workflow_id: "" selects the first of the list.
Selected(query) == IF query = "" THEN first ELSE query

\* A thread has written to w and not published it yet.
Unpublished(w) ==
    \E h \in Threads :
        /\ job[h].wf = w
        /\ \/ job[h].at \in {"announce", "publish", "stamp", "tell"}
           \/ job[h].at = "row" /\ job[h].op \in Actions
=============================================================================
