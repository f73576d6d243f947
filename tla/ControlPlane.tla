---------------------------- MODULE ControlPlane ----------------------------
(***************************************************************************)
(* The durable control plane: ControlPlanService wraps the in-memory       *)
(* runtime service and keeps, for one workflow, a record with counters, an *)
(* event log, plan versions, an audit trail and idempotency records in     *)
(* SQLite.                                                                 *)
(*                                                                         *)
(* A request is served by a thread (a handler).  The only atomic steps are *)
(* the calls it makes on shared state: one store call takes the store's    *)
(* mutex and is one SQL statement, one runtime call takes the runtime's    *)
(* mutex.  The handler's own copy of the record (job.rec) lives across     *)
(* those calls, and what another handler stores meanwhile is not seen.     *)
(* The process may stop between any two steps and start again, with or     *)
(* without a reboot of the machine.                                        *)
(*                                                                         *)
(* Left out: authorisation, names and messages, timestamps (a pruned row   *)
(* is any row of an earlier boot: the wall clock may step), the contents   *)
(* of a plan beyond the tasks it was made for, other workflows.            *)
(***************************************************************************)
EXTENDS Naturals, Sequences, FiniteSets

CONSTANTS
    Handlers,      \* threads serving requests
    Main,          \* the thread that runs recovery at start
    Requests,      \* the requests clients send
    Tasks,         \* the tasks of the submitted configuration
    NoKey,         \* no idempotency key
    AnyVersion,    \* no expected_plan_version
    NoRecord,      \* no durable record
    NoSession,     \* no workflow in runtime memory
    Starts,        \* the ways the process is started: reboot, prune, recover
    Streaming,     \* clients use the streaming calls, which they may abandon
    MaxCalls,      \* bound: requests served in a behaviour
    MaxCrashes     \* bound: stops of the process in a behaviour

ASSUME MainAssumption == Main \notin Handlers
ASSUME StartsAssumption ==
    Starts \subseteq [reboot : BOOLEAN, prune : BOOLEAN, recover : BOOLEAN]
ASSUME BoundAssumption == MaxCalls \in Nat /\ MaxCrashes \in Nat
ASSUME SessionAssumption == \A tasks \in SUBSET Tasks : tasks # NoSession

\* The operations of the service; the overrides of a request, each as the event
\* that the runtime yields for it.
ASSUME RequestsAssumption ==
    \A r \in Requests :
        /\ r.op \in {"submit", "reorchestrate", "manual", "pause", "resume", "cancel"}
        /\ r.op \in {"reorchestrate", "manual"} =>
              r.overrides \in Seq([type : {"override", "completed"}, tasks : SUBSET Tasks])

VARIABLES
    record,    \* durable: the row of workflow_records, or NoRecord
    events,    \* durable: sequence |-> event row
    plans,     \* durable: version |-> plan row
    audits,    \* durable: sequence |-> audit row
    idem,      \* durable: key |-> idempotency record
    boot,      \* the machine's boot id
    up,        \* the process runs
    session,   \* the tasks of the workflow in runtime memory, or NoSession
    hydrated,  \* the workflow is in hydrated_workflows_
    unseen,    \* the record was written and no update was published since
    job,       \* what each handler is doing
    calls,     \* requests received so far (numbers the calls)
    crashes    \* stops of the process so far

durable == <<record, events, plans, audits, idem>>
memory == <<session, hydrated>>
bounds == <<boot, up, calls, crashes>>
vars == <<durable, memory, bounds, unseen, job>>

Workers == Handlers \cup {Main}

-----------------------------------------------------------------------------
(* Events, records and rows. *)

States == {"submitted", "planning", "planned", "paused", "cancelled", "failed"}

EventTypes == {"accepted", "replanning", "planned", "override", "completed",
               "finished", "failed", "rejected"}

Event == [type : EventTypes, tasks : SUBSET Tasks]

\* An event, with the tasks it is about: the one marked completed, or the
\* tasks the plan of a successful terminal response was made for.
EventOf(type, tasks) == [type |-> type, tasks |-> tasks]

\* The events that carry a response.
HasResponse(e) == e.type \in {"finished", "failed", "rejected"}

WorkflowRecord == [state : States, plan : Nat, events : Nat, audits : Nat,
                   response : {"none", "ok", "error"}]

ASSUME RecordAssumption == NoRecord \notin WorkflowRecord

\* A record that starts from zero: no plan, no event, no audit entry.
FreshRecord == [state |-> "submitted", plan |-> 0, events |-> 0, audits |-> 0,
                response |-> "none"]

\* Deliberate faults: the default branch forgets the current state; a finished
\* pass keeps it.
StateForEvent_unknown(e, current) ==
    CASE e.type = "accepted" -> "submitted"
      [] e.type = "replanning" -> "planning"
      [] e.type \in {"planned", "finished"} -> "planned"
      [] e.type \in {"failed", "rejected"} -> "failed"
      [] OTHER -> "unspecified"

StateForEvent_finished(e, current) ==
    CASE e.type = "accepted" -> "submitted"
      [] e.type = "replanning" -> "planning"
      [] e.type = "planned" -> "planned"
      [] e.type \in {"failed", "rejected"} -> "failed"
      [] OTHER -> current

\* The lifecycle state after an event.
StateForEvent(e, current) ==
    CASE e.type = "accepted" -> "submitted"
      [] e.type = "replanning" -> "planning"
      [] e.type \in {"planned", "finished"} -> "planned"
      [] e.type \in {"failed", "rejected"} -> "failed"
      [] OTHER -> current

\* The handler's copy of the record once it has taken in an event; the plan
\* version follows when the plan is stored.
Noted(rec, e) ==
    [rec EXCEPT !.events = @ + 1,
                !.state = StateForEvent(e, @),
                !.response = IF ~HasResponse(e) THEN @
                             ELSE IF e.type = "finished" THEN "ok" ELSE "error"]

\* INSERT OR REPLACE: the row with this key, whatever it was, is now row.
Put(table, key, row) ==
    [k \in DOMAIN table \cup {key} |-> IF k = key THEN row ELSE table[k]]

\* What a key's request must equal to be answered from the stored response.
\* A manual intervention passes its key on with the re-orchestration it makes.
Fingerprint(r) == IF r.op = "manual" THEN [r EXCEPT !.op = "reorchestrate"] ELSE r

-----------------------------------------------------------------------------
(* Jobs: the local state of a handler. *)

Stages == {"idle", "lookup", "load", "save", "announce", "hydrate", "run",
           "plan", "idem", "event", "upsert", "publish", "yield",
           "fetch", "mark", "audit", "close", "notify",
           "check", "rehydrate", "recover", "replay"}

NoRequest == [op |-> "none", key |-> NoKey]

Idle == [stage |-> "idle", call |-> 0, req |-> NoRequest, rec |-> NoRecord,
         stream |-> <<>>]

At(h, stage) == up /\ job[h].stage = stage

Rec(h) == job[h].rec
Req(h) == job[h].req
Current(h) == Head(job[h].stream)

Become(h, j) == job' = [job EXCEPT ![h] = j]
Goto(h, stage) == Become(h, [job[h] EXCEPT !.stage = stage])
GotoWith(h, stage, rec) == Become(h, [job[h] EXCEPT !.stage = stage, !.rec = rec])
Leave(h) == Become(h, Idle)

-----------------------------------------------------------------------------
(* The runtime service: what a call leaves in memory, and the event stream *)
(* it returns.  Whether the optimiser succeeds is not decided here.        *)

PlanningStreams(tasks) ==
    { <<EventOf("replanning", {})>> \o assigned \o <<last>> :
        assigned \in {<<>>, <<EventOf("planned", {})>>},
        last \in {EventOf("finished", tasks), EventOf("failed", {})} }

Refusal == <<EventOf("rejected", {})>>

\* The runtime replaces the workflow unless replace_existing is given as false.
RuntimeSubmit(r) ==
    IF r.replace = "no" /\ session # NoSession
    THEN {[session |-> session, stream |-> Refusal]}
    ELSE {[session |-> Tasks, stream |-> <<EventOf("accepted", {})>> \o s] :
            s \in PlanningStreams(Tasks)}

\* A deliberate fault: only the first override is stored.
AfterOverrides_first(tasks, overrides) ==
    IF overrides = <<>> THEN tasks ELSE tasks \ Head(overrides).tasks

\* The tasks left when the completed ones of the overrides are erased.
AfterOverrides(tasks, overrides) ==
    tasks \ UNION {overrides[i].tasks : i \in DOMAIN overrides}

RuntimeReorchestrate(r) ==
    IF session = NoSession
    THEN {[session |-> session, stream |-> Refusal]}
    ELSE LET rest == AfterOverrides(session, r.overrides)
             planning == IF r.trigger THEN PlanningStreams(rest)
                                      ELSE {<<EventOf("finished", {})>>}
         IN  {[session |-> rest, stream |-> r.overrides \o s] : s \in planning}

-----------------------------------------------------------------------------
Init ==
    /\ record = NoRecord
    /\ events = <<>> /\ plans = <<>> /\ audits = <<>>
    /\ idem = <<>>
    /\ boot = 0
    /\ up = TRUE
    /\ session = NoSession
    /\ hydrated = FALSE
    /\ unseen = FALSE
    /\ job = [h \in Workers |-> Idle]
    /\ calls = 0
    /\ crashes = 0

\* A request arrives at an idle handler, once recovery is over.
Begin(h, r) ==
    /\ up /\ job[Main].stage = "idle"
    /\ job[h].stage = "idle"
    /\ calls < MaxCalls
    /\ calls' = calls + 1
    /\ Become(h, [Idle EXCEPT
                    !.call = calls', !.req = r,
                    !.stage = CASE r.op = "submit" -> "lookup"
                                [] r.op = "reorchestrate" -> "check"
                                [] OTHER -> "fetch"])
    /\ UNCHANGED <<durable, memory, unseen, boot, up, crashes>>

\* get_idempotency_record: a known key ends the call, with the cached
\* response or with a refusal when the payload differs.
Lookup(h) ==
    /\ At(h, "lookup")
    /\ IF Req(h).key # NoKey /\ Req(h).key \in DOMAIN idem
       THEN Leave(h)
       ELSE Goto(h, IF Req(h).op = "submit" THEN "load" ELSE "run")
    /\ UNCHANGED <<durable, memory, bounds, unseen>>

\* A deliberate fault: the stored record is never continued.
Load_fresh(h) ==
    /\ At(h, "load")
    /\ GotoWith(h, "save", FreshRecord)
    /\ UNCHANGED <<durable, memory, bounds, unseen>>

\* The stored record is continued only when replace_existing is given as true.
Load(h) ==
    /\ At(h, "load")
    /\ LET base == IF Req(h).replace = "yes" /\ record # NoRecord
                   THEN record ELSE FreshRecord
       IN  GotoWith(h, "save", [base EXCEPT !.state = "submitted"])
    /\ UNCHANGED <<durable, memory, bounds, unseen>>

\* A deliberate fault: the event loop does not publish.
AfterUpsert_silent(stage) ==
    CASE stage = "save" -> "announce"
      [] stage = "mark" -> "audit"
      [] stage = "close" -> "notify"
      [] stage = "upsert" -> "yield"

\* upsert_workflow: the handler's copy replaces the stored record.
AfterUpsert(stage) ==
    CASE stage = "save" -> "announce"
      [] stage = "mark" -> "audit"
      [] stage = "close" -> "notify"
      [] stage = "upsert" -> "publish"

Upsert(h) ==
    /\ up /\ job[h].stage \in {"save", "mark", "close", "upsert"}
    /\ record' = Rec(h)
    /\ unseen' = TRUE
    /\ Goto(h, AfterUpsert(job[h].stage))
    /\ UNCHANGED <<events, plans, audits, idem, memory, bounds>>

\* publish_workflow_update: subscribers of the feed fetch the record again.
AfterPublish(h) ==
    IF job[h].stage = "announce" THEN [job[h] EXCEPT !.stage = "hydrate"]
    ELSE IF job[h].stage = "publish" THEN [job[h] EXCEPT !.stage = "yield"]
    ELSE IF Req(h).op = "manual" THEN [job[h] EXCEPT !.stage = "check"]
    ELSE IF Req(h).op = "recover" THEN [job[h] EXCEPT !.stage = "replay"]
    ELSE Idle

Publish(h) ==
    /\ up /\ job[h].stage \in {"announce", "notify", "publish"}
    /\ unseen' = FALSE
    /\ Become(h, AfterPublish(h))
    /\ UNCHANGED <<durable, memory, bounds>>

Hydrate(h) ==
    /\ At(h, "hydrate")
    /\ hydrated' = TRUE
    /\ Goto(h, "run")
    /\ UNCHANGED <<durable, session, bounds, unseen>>

-----------------------------------------------------------------------------
(* The event loop shared by submission and re-orchestration. *)

\* The job that takes in the first event of a stream.
Receive(j, stream) ==
    LET e == Head(stream)
    IN  [j EXCEPT !.stream = stream,
                  !.rec = Noted(@, e),
                  !.stage = IF e.type = "finished" THEN "plan"
                            ELSE IF HasResponse(e) /\ j.req.key # NoKey THEN "idem"
                            ELSE "event"]

Run(h) ==
    /\ At(h, "run")
    /\ \E answer \in IF Req(h).op = "submit" THEN RuntimeSubmit(Req(h))
                                             ELSE RuntimeReorchestrate(Req(h)) :
         /\ session' = answer.session
         /\ Become(h, Receive(job[h], answer.stream))
    /\ UNCHANGED <<durable, hydrated, bounds, unseen>>

\* A deliberate fault: only failures are recorded under the key.
WritePlan_unkeyed(h) ==
    /\ At(h, "plan")
    /\ plans' = Put(plans, Rec(h).plan + 1,
                    [call |-> job[h].call, key |-> Req(h).key, boot |-> boot,
                     tasks |-> Current(h).tasks])
    /\ GotoWith(h, "event", [Rec(h) EXCEPT !.plan = @ + 1])
    /\ UNCHANGED <<record, events, audits, idem, memory, bounds, unseen>>

\* write_plan_version, for a successful terminal response.
WritePlan(h) ==
    /\ At(h, "plan")
    /\ LET version == Rec(h).plan + 1
       IN  /\ plans' = Put(plans, version,
                           [call |-> job[h].call, key |-> Req(h).key, boot |-> boot,
                            tasks |-> Current(h).tasks])
           /\ GotoWith(h, IF Req(h).key # NoKey THEN "idem" ELSE "event",
                       [Rec(h) EXCEPT !.plan = version])
    /\ UNCHANGED <<record, events, audits, idem, memory, bounds, unseen>>

\* put_idempotency_record, with the terminal response whatever it is.
PutIdempotency(h) ==
    /\ At(h, "idem")
    /\ idem' = Put(idem, Req(h).key,
                   [request |-> Fingerprint(Req(h)), boot |-> boot,
                    response |-> Rec(h).response])
    /\ Goto(h, "event")
    /\ UNCHANGED <<record, events, plans, audits, memory, bounds, unseen>>

WriteEvent(h) ==
    /\ At(h, "event")
    /\ events' = Put(events, Rec(h).events,
                     [call |-> job[h].call, boot |-> boot, event |-> Current(h)])
    /\ Goto(h, "upsert")
    /\ UNCHANGED <<record, plans, audits, idem, memory, bounds, unseen>>

\* The consumer takes the event and asks for the next one.
Resume(h) ==
    /\ At(h, "yield")
    /\ LET rest == Tail(job[h].stream)
       IN  IF rest = <<>> THEN Leave(h) ELSE Become(h, Receive(job[h], rest))
    /\ UNCHANGED <<durable, memory, bounds, unseen>>

\* The consumer of a stream goes away: the generator is destroyed where it
\* last yielded.  A manual intervention drains its own stream.
Abandon(h) ==
    /\ Streaming /\ Req(h).op # "manual"
    /\ At(h, "yield")
    /\ Leave(h)
    /\ UNCHANGED <<durable, memory, bounds, unseen>>

-----------------------------------------------------------------------------
(* Re-orchestration up to its run, and the operator's actions. *)

\* Deliberate fault: the token is ignored.
Refused_token(rec, r) == rec = NoRecord \/ rec.state \in {"paused", "cancelled"}

\* get_workflow and the guards on the record it returned.
Refused(rec, r) ==
    \/ rec = NoRecord
    \/ rec.state \in {"paused", "cancelled"}
    \/ r.expected # AnyVersion /\ r.expected # rec.plan

Check(h) ==
    /\ At(h, "check")
    /\ IF Refused(record, Req(h)) THEN Leave(h) ELSE GotoWith(h, "rehydrate", record)
    /\ UNCHANGED <<durable, memory, bounds, unseen>>

\* A deliberate fault: the workflow is taken for known without a replay.
Rehydrate_skip(h) ==
    /\ At(h, "rehydrate")
    /\ hydrated' = TRUE
    /\ Goto(h, "lookup")
    /\ UNCHANGED <<durable, session, bounds, unseen>>

\* Under hydrated_mutex_: a workflow this process does not know is submitted
\* again from its stored configuration; a replay that fails ends the call.
Rehydrate(h) ==
    /\ At(h, "rehydrate")
    /\ \/ /\ hydrated
          /\ Goto(h, "lookup")
          /\ UNCHANGED memory
       \/ /\ ~hydrated
          /\ session' = Tasks
          /\ \/ hydrated' = TRUE /\ Goto(h, "lookup")
             \/ hydrated' = FALSE /\ Leave(h)
    /\ UNCHANGED <<durable, bounds, unseen>>

\* The record with the state an operator's action gives it.
Marked(rec, op) ==
    [rec EXCEPT !.state =
        CASE op = "pause" -> "paused"
          [] op = "cancel" -> "cancelled"
          [] op = "resume" -> IF rec.response = "ok" THEN "planned" ELSE "submitted"
          [] OTHER -> @]

\* Pause, resume, cancel and manual intervention read the record; the first
\* three store its new state before they write the audit entry.
Fetch(h) ==
    /\ At(h, "fetch")
    /\ IF record = NoRecord
       THEN Leave(h)
       ELSE GotoWith(h, IF Req(h).op = "manual" THEN "audit" ELSE "mark",
                     Marked(record, Req(h).op))
    /\ UNCHANGED <<durable, memory, bounds, unseen>>

WriteAudit(h) ==
    /\ At(h, "audit")
    /\ LET sequence == Rec(h).audits + 1
       IN  /\ audits' = Put(audits, sequence,
                            [call |-> job[h].call, boot |-> boot, action |-> Req(h).op])
           /\ GotoWith(h, "close", [Rec(h) EXCEPT !.audits = sequence])
    /\ UNCHANGED <<record, events, plans, idem, memory, bounds, unseen>>

-----------------------------------------------------------------------------
(* Stop and start. *)

\* The process stops: what is not in the database is gone.  Subscribers of
\* the feed lose their connection and fetch the record when they return.
Crash ==
    /\ up
    /\ crashes < MaxCrashes
    /\ up' = FALSE
    /\ crashes' = crashes + 1
    /\ session' = NoSession
    /\ hydrated' = FALSE
    /\ unseen' = FALSE
    /\ job' = [h \in Workers |-> Idle]
    /\ UNCHANGED <<durable, boot, calls>>

Restrict(table, keys) == [k \in keys |-> table[k]]

\* A deliberate fault: the newest row counts as older than itself.
StaleRows_newest(table, newest, now) ==
    {k \in DOMAIN table : table[k].boot # now /\ k <= newest}

\* Rows that prune_stale_boot_data may delete: written in an earlier boot and
\* older than the newest row the record counts.
StaleRows(table, newest, now) ==
    {k \in DOMAIN table : table[k].boot # now /\ k < newest}

StaleKeys(now) == {k \in DOMAIN idem : idem[k].boot # now}

\* One transaction deletes those of the stale rows that are old enough.
Prune(now) ==
    LET counts == IF record = NoRecord THEN [events |-> 0, plan |-> 0, audits |-> 0]
                                       ELSE record
    IN  /\ \E old \in SUBSET StaleRows(events, counts.events, now) :
             events' = Restrict(events, DOMAIN events \ old)
        /\ \E old \in SUBSET StaleRows(plans, counts.plan, now) :
             plans' = Restrict(plans, DOMAIN plans \ old)
        /\ \E old \in SUBSET StaleRows(audits, counts.audits, now) :
             audits' = Restrict(audits, DOMAIN audits \ old)
        /\ \E old \in SUBSET StaleKeys(now) :
             idem' = Restrict(idem, DOMAIN idem \ old)

\* run_service_mode: open the store, prune if configured, then recover if
\* configured.
Start(s) ==
    /\ ~up
    /\ up' = TRUE
    /\ boot' = IF s.reboot THEN boot + 1 ELSE boot
    /\ IF s.prune THEN Prune(boot') ELSE UNCHANGED <<events, plans, audits, idem>>
    /\ IF s.recover
       THEN Become(Main, [Idle EXCEPT !.stage = "recover",
                            !.req = [NoRequest EXCEPT !.op = "recover"]])
       ELSE UNCHANGED job
    /\ UNCHANGED <<record, memory, unseen, calls, crashes>>

\* recover_active_workflows: cancelled and failed workflows are passed over.
Recover ==
    /\ At(Main, "recover")
    /\ IF record = NoRecord \/ record.state \in {"cancelled", "failed"}
       THEN Leave(Main)
       ELSE GotoWith(Main, "audit", record)
    /\ UNCHANGED <<durable, memory, bounds, unseen>>

\* The stored configuration is submitted to the runtime; the outcome is only
\* logged.
Replay ==
    /\ At(Main, "replay")
    /\ session' = Tasks
    /\ hydrated' = TRUE
    /\ Leave(Main)
    /\ UNCHANGED <<durable, bounds, unseen>>

Step(h) ==
    \/ Lookup(h) \/ Load(h) \/ Upsert(h) \/ Publish(h) \/ Hydrate(h)
    \/ Run(h) \/ WritePlan(h) \/ PutIdempotency(h) \/ WriteEvent(h) \/ Resume(h)
    \/ Check(h) \/ Rehydrate(h) \/ Fetch(h) \/ WriteAudit(h)

Quiet == \A h \in Workers : job[h].stage = "idle"

\* No request is left and nothing runs.
Finished ==
    /\ up /\ Quiet
    /\ calls = MaxCalls
    /\ UNCHANGED vars

Next ==
    \/ \E h \in Handlers : (\E r \in Requests : Begin(h, r)) \/ Step(h) \/ Abandon(h)
    \/ Step(Main) \/ Recover \/ Replay
    \/ Crash
    \/ \E s \in Starts : Start(s)
    \/ Finished

Spec == Init /\ [][Next]_vars

\* A thread that serves a request, or recovers, goes on with it: the mutexes
\* it takes are released by every holder, and a unary call drains its stream.
FairSpec == Spec /\ \A h \in Workers : WF_vars(Step(h))
                 /\ WF_vars(Recover) /\ WF_vars(Replay)

-----------------------------------------------------------------------------
(* Properties. *)

\* The values every variable ranges over: counters of the tables are positive
\* naturals, and a job's copy of the record is a record or none.
TypeOK ==
    /\ record = NoRecord \/ record \in WorkflowRecord
    /\ DOMAIN events \subseteq Nat /\ DOMAIN plans \subseteq Nat /\ DOMAIN audits \subseteq Nat
    /\ \A n \in DOMAIN events : events[n].event \in Event
    /\ \A v \in DOMAIN plans : plans[v].tasks \subseteq Tasks
    /\ up \in BOOLEAN /\ hydrated \in BOOLEAN /\ unseen \in BOOLEAN
    /\ session = NoSession \/ session \subseteq Tasks
    /\ boot \in Nat /\ calls \in Nat /\ crashes \in Nat
    /\ DOMAIN job = Workers
    /\ \A h \in Workers : /\ job[h].stage \in Stages
                          /\ job[h].rec = NoRecord \/ job[h].rec \in WorkflowRecord
                          /\ job[h].call \in Nat

\* Whatever the interleaving of handlers, and wherever the process stops or
\* prunes, the newest event, plan version and audit entry that the stored
\* record counts are in their tables: get_workflow_history and get_plan_diff
\* can always show what the record says is the latest (rows are written before
\* the upsert that counts them, and prune_stale_boot_data keeps the counted row).
CountedRow(table, n) == n = 0 \/ n \in DOMAIN table

LatestRowsStored ==
    record # NoRecord => /\ CountedRow(events, record.events)
                         /\ CountedRow(plans, record.plan)
                         /\ CountedRow(audits, record.audits)

\* A stored event, plan version or audit entry never changes: the log is
\* append-only (write_event, write_plan_version and write_audit_entry replace
\* a row that has the same number).
Unchanging(old, new) == \A n \in DOMAIN old \cap DOMAIN new : new[n] = old[n]

HistoryAppendOnly ==
    [][Unchanging(events, events') /\ Unchanging(plans, plans')
         /\ Unchanging(audits, audits')]_vars

\* A request with an idempotency key leaves at most one plan version behind,
\* however often it is sent (a call cut short between write_plan_version and
\* put_idempotency_record stores its version again, under the same number).
OnePlanPerKey ==
    \A v, w \in DOMAIN plans : plans[v].key = plans[w].key /\ plans[v].key # NoKey => v = w

\* The operator's last word, as the audit trail has it, is to hold the workflow:
\* no resumption and no new submission came after a pause or a cancellation.
Held ==
    \E n \in DOMAIN audits :
        /\ audits[n].action \in {"pause", "cancel"}
        /\ \A m \in DOMAIN audits :
              audits[m].action = "resume" => audits[m].call < audits[n].call
        /\ \A m \in DOMAIN events :
              events[m].event.type = "accepted" => events[m].call < audits[n].call

\* No re-orchestration is let through once a pause or cancellation is in the
\* audit trail (stream_reorchestrate refuses by the state in the record, which
\* every handler writes).
HeldIsRefused ==
    [][\A h \in Handlers : Check(h) /\ Held => job'[h].stage = "idle"]_vars

\* A plan version that a re-orchestration stores under an expected plan version
\* follows exactly that version of the stored record.
VersionTokenHonoured ==
    [][\A h \in Handlers :
         (WritePlan(h) /\ Req(h).op # "submit" /\ Req(h).expected # AnyVersion)
            => record.plan = Req(h).expected]_vars

\* The tasks whose completion was logged since the workflow was last submitted.
CompletedTasks ==
    UNION {events[n].event.tasks : n \in
        {n \in DOMAIN events :
            /\ events[n].event.type = "completed"
            /\ \A m \in DOMAIN events : events[m].event.type = "accepted" => m < n}}

\* A task marked completed takes no part in later plans of that submission
\* (apply_task_override erases it from the configuration in memory).
CompletedNotPlanned ==
    [][\A h \in Handlers : WritePlan(h) => Current(h).tasks \cap CompletedTasks = {}]_vars

\* A stored plan version was made for every task of the workflow that is not
\* completed: the configuration in memory and the durable log agree.
PlanCoversOutstanding ==
    [][\A h \in Handlers : WritePlan(h) => Current(h).tasks = Tasks \ CompletedTasks]_vars

\* While the process runs, the durable state says planning only if a handler
\* (or recovery) is at work.
PlanningInProgress == up /\ record # NoRecord /\ record.state = "planning" => ~Quiet

\* A planning pass ends: the durable state does not stay at planning.
Planning == record # NoRecord /\ record.state = "planning"

PlanningEnds == Planning ~> ~Planning

\* A re-orchestration that was let through finds its workflow in runtime
\* memory: recovery or rehydration put it back after a restart.
SessionFound == \A h \in Handlers : At(h, "run") /\ Req(h).op # "submit" => session # NoSession

\* When nothing runs, subscribers of the feed have been told of the record's
\* latest version (every upsert is followed by a publish before a handler
\* ends, yields or can be abandoned).
UpdatesPublished == Quiet => ~unseen
=============================================================================
