----------------------------- MODULE Scheduler ------------------------------
(***************************************************************************)
(* Scheduler::plan, the greedy list scheduler, as a state machine whose    *)
(* steps are the iterations of its loops, together with the WorkflowState  *)
(* and the ActorRegistry it reads.  The reservation table and the table of *)
(* completion times are functions of that state and of the assignments     *)
(* made so far, so they are operators here.                                *)
(*                                                                         *)
(* The vectors of WorkflowState hold no duplicates and are only searched,  *)
(* so they are sets; its unordered_maps are functions on the set of keys   *)
(* present.  task_planned_end_time is always written with                  *)
(* task_planned_start_time, as start + duration, and is derived from it.   *)
(***************************************************************************)
EXTENDS Workflow, Sequences

CONSTANTS
    Strategies,   \* subset of {"edf", "fifo", "priority", "sjf"}
    Profiles      \* ranking profiles: sequences of criteria

Criteria == {"start", "completion", "distance", "cost", "utilisation",
             "load", "preferred"}

ASSUME StrategyAssumption ==
    /\ Strategies \subseteq {"edf", "fifo", "priority", "sjf"}
    /\ Profiles \subseteq Seq(Criteria)

VARIABLES
    completed_phases, assigned_tasks, completed_tasks,
    resumable_tasks, unresumable_tasks, unavailable_actors,
    task_actor,                  \* owner of every task that has one
    actor_load,                  \* the state's copy of the actors' loads
    task_planned_start_time,
    task_actual_completion_time

VARIABLES
    registered,                  \* ids in the ActorRegistry
    current_load,                \* Actor::current_load
    strategy, ranking_profile

VARIABLES
    planning,                    \* a call of plan is in progress
    plan_now,                    \* its argument now
    plan_ok,                     \* result.ok
    remaining,                   \* remaining_task_ids
    ready,                       \* ready_tasks not yet visited in this pass
    progress,                    \* the pass assigned a task (or is the first)
    result                       \* result.assignments, by task

stateVars == <<completed_phases, assigned_tasks, completed_tasks,
               resumable_tasks, unresumable_tasks, unavailable_actors,
               task_actor, actor_load, task_planned_start_time,
               task_actual_completion_time>>
registryVars == <<registered, current_load>>
settingVars == <<strategy, ranking_profile>>
planVars == <<planning, plan_now, plan_ok, remaining, ready, progress, result>>

Assignments == [actor : Actors, start : Time]
IsMap(f, S, T) == DOMAIN f \subseteq S /\ f \in [DOMAIN f -> T]

(* map[k] = v and map.erase(k). *)
Put(f, k, v) == [x \in DOMAIN f \cup {k} |-> IF x = k THEN v ELSE f[x]]
Erase(f, k) == [x \in DOMAIN f \ {k} |-> f[x]]

EmptyMap == [x \in {} |-> 0]

Largest(x, y) == IF x >= y THEN x ELSE y
Greatest(S) == {x \in S : \A y \in S : y <= x}
Least(S) == {x \in S : \A y \in S : x <= y}

-----------------------------------------------------------------------------
(***************************************************************************)
(* Strategies: Before(t, u) is the comparator that order_tasks sorts by.   *)
(* std::ranges::sort is unstable and the EDF comparator leaves ties, which *)
(* reach it in the iteration order of an unordered_set: any order that the *)
(* comparator allows may come out.                                         *)
(***************************************************************************)
EdfBefore(t, u) ==
    LET p == ProcessOf[t]  q == ProcessOf[u]
        dp == p \in DOMAIN Deadline  dq == q \in DOMAIN Deadline
    IN  \/ Priority[p] > Priority[q]
        \/ /\ Priority[p] = Priority[q]
           /\ \/ dp /\ ~dq
              \/ dp /\ dq /\ Deadline[p] < Deadline[q]

FifoBefore(t, u) ==
    \/ PhaseOfTask(t) < PhaseOfTask(u)
    \/ PhaseOfTask(t) = PhaseOfTask(u) /\ t < u

PriorityBefore(t, u) ==
    LET p == Priority[ProcessOf[t]]  q == Priority[ProcessOf[u]]
    IN  p > q \/ (p = q /\ t < u)

SjfBefore(t, u) ==
    \/ DurationOf(t) < DurationOf(u)
    \/ DurationOf(t) = DurationOf(u) /\ PriorityBefore(t, u)

Before(t, u) ==
    CASE strategy = "edf"      -> EdfBefore(t, u)
      [] strategy = "fifo"     -> FifoBefore(t, u)
      [] strategy = "priority" -> PriorityBefore(t, u)
      [] strategy = "sjf"      -> SjfBefore(t, u)

-----------------------------------------------------------------------------
(* collect_pending_tasks. *)
PendingTasks ==
    {t \in Tasks :
        /\ PhaseOfTask(t) \in ReadyPhases(completed_phases)
        /\ t \notin assigned_tasks \ resumable_tasks
        /\ t \notin completed_tasks
        /\ t \notin unresumable_tasks}

(***************************************************************************)
(* The reservation table.  An in-flight task holds its actor over its      *)
(* planned interval; load the table cannot explain is an opaque            *)
(* reservation from now on; tasks assigned by this plan come on top.       *)
(***************************************************************************)
PlannedStart(t) ==
    IF t \in DOMAIN task_planned_start_time THEN task_planned_start_time[t]
    ELSE plan_now
PlannedEnd(t) == PlannedStart(t) + DurationOf(t)

HeldAt(a, instant) ==
    {t \in assigned_tasks \cap DOMAIN task_actor :
        task_actor[t] = a /\ PlannedStart(t) <= instant /\ instant < PlannedEnd(t)}

ResultEnd(t) == result[t].start + DurationOf(t)

PlannedAt(a, instant) ==
    {t \in DOMAIN result :
        /\ result[t].actor = a
        /\ result[t].start <= instant
        /\ instant < ResultEnd(t)}

BaselineLoad(a) ==
    IF a \in DOMAIN actor_load THEN actor_load[a] ELSE current_load[a]

OpaqueDemand(a) == Largest(0, BaselineLoad(a) - TotalDemand(HeldAt(a, plan_now)))

ConcurrentDemandAt(a, instant) ==
    TotalDemand(HeldAt(a, instant)) + TotalDemand(PlannedAt(a, instant))
      + (IF plan_now <= instant THEN OpaqueDemand(a) ELSE 0)

(* Fault: the last instant of the interval is not looked at. *)
HasCapacity_shortInterval(a, t, start) ==
    \A instant \in start..(start + DurationOf(t) - 2) :
        ConcurrentDemandAt(a, instant) + DemandOf(t) <= Capacity[a]

(* has_capacity_for_interval(start, start + duration). *)
HasCapacity(a, t, start) ==
    \A instant \in start..(start + DurationOf(t) - 1) :
        ConcurrentDemandAt(a, instant) + DemandOf(t) <= Capacity[a]

(***************************************************************************)
(* Completion times of tasks done, in flight or assigned by this plan.     *)
(***************************************************************************)
CompletionKnown == completed_tasks \cup assigned_tasks \cup DOMAIN result

CompletionTime(t) ==
    CASE t \in DOMAIN result -> ResultEnd(t)
      [] t \notin DOMAIN result /\ t \in assigned_tasks -> PlannedEnd(t)
      [] t \notin DOMAIN result \cup assigned_tasks ->
            IF t \in DOMAIN task_actual_completion_time
            THEN task_actual_completion_time[t]
            ELSE IF t \in DOMAIN task_planned_start_time THEN PlannedEnd(t)
            ELSE plan_now

DependenciesKnown(t) == DepsOf(t) \subseteq CompletionKnown

(***************************************************************************)
(* now, the release time and dependency_ready_time bound the start from    *)
(* below; the earliest release is the greatest of these bounds.            *)
(***************************************************************************)
ReleaseBounds_ignoresDeps(t) == {plan_now, ReleaseTime[ProcessOf[t]]}

ReleaseBounds(t) ==
    {plan_now, ReleaseTime[ProcessOf[t]]} \cup {CompletionTime(d) : d \in DepsOf(t)}

(* Fault: only tasks of the same plan are looked at. *)
MutexConflict_planOnly(t) == MutexOf(t) \cap DOMAIN result # {}

MutexConflict(t) ==
    MutexOf(t) \cap (completed_tasks \cup assigned_tasks \cup DOMAIN result) # {}

(* collect_ready_tasks. *)
ReadyTasks == {t \in remaining : ~MutexConflict(t) /\ DependenciesKnown(t)}

(***************************************************************************)
(* earliest_start: the least start at or after release that lies inside a  *)
(* window and finds capacity.  The code scans the windows in order of      *)
(* their start and returns the first hit, which is the least one.  A task  *)
(* without a positive duration starts at release, unchecked.               *)
(***************************************************************************)
FeasibleStarts(a, t, release) ==
    IF DurationOf(t) = 0 THEN {release}
    ELSE {s \in UNION {Largest(w.start, release)..(w.end - DurationOf(t)) :
                         w \in Windows[a]} : HasCapacity(a, t, s)}

InTime(t, s) ==
    LET p == ProcessOf[t]
    IN  /\ p \in DOMAIN LatestStart => s <= LatestStart[p]
        /\ p \in DOMAIN Deadline => s + Duration[p] <= Deadline[p]

ActorIsAllowed(t, a) == a \in Allowed[ProcessOf[t]] /\ DemandOf(t) <= Capacity[a]

StartsOn(a, t) ==
    {s \in UNION {Least(FeasibleStarts(a, t, r)) : r \in Greatest(ReleaseBounds(t))} :
        InTime(t, s)}

(* The candidates select_best_candidate compares for a task. *)
Candidates(t) ==
    UNION {{[actor |-> a, start |-> s] : s \in StartsOn(a, t)} :
             a \in {b \in registered \ unavailable_actors : ActorIsAllowed(t, b)}}

(***************************************************************************)
(* compare_candidates: criteria in the order of the profile, then the      *)
(* actor id.  Utilisation is load over capacity and prefers the larger.    *)
(***************************************************************************)
Load(c) == ConcurrentDemandAt(c.actor, c.start)

Prefers(criterion, t, c, d) ==
    CASE criterion \in {"start", "completion"} -> c.start < d.start
      [] criterion = "distance" ->
            DistanceToWork(t, c.actor) < DistanceToWork(t, d.actor)
      [] criterion = "cost" ->
            ExecutionCost[c.actor] * DurationOf(t) < ExecutionCost[d.actor] * DurationOf(t)
      [] criterion = "utilisation" ->
            Load(c) * Largest(Capacity[d.actor], 1) > Load(d) * Largest(Capacity[c.actor], 1)
      [] criterion = "load" -> Load(c) < Load(d)
      [] criterion = "preferred" ->
            c.actor \in Preferred[ProcessOf[t]] /\ d.actor \notin Preferred[ProcessOf[t]]

BetterCandidate(t, c, d) ==
    LET tied(k) == /\ ~Prefers(ranking_profile[k], t, c, d)
                   /\ ~Prefers(ranking_profile[k], t, d, c)
        n == Len(ranking_profile)
    IN  \/ \E k \in 1..n : /\ \A j \in 1..(k - 1) : tied(j)
                           /\ Prefers(ranking_profile[k], t, c, d)
        \/ (\A j \in 1..n : tied(j)) /\ c.actor < d.actor

-----------------------------------------------------------------------------
(***************************************************************************)
(* The steps of plan.                                                      *)
(***************************************************************************)
SchedulerInit ==
    /\ planning = FALSE
    /\ plan_now = 0
    /\ plan_ok = TRUE
    /\ remaining = {}
    /\ ready = {}
    /\ progress = FALSE
    /\ result = EmptyMap

(* Entry of plan: pending tasks, none of them when one is preemptible. *)
BeginPlan(now) ==
    LET unsupported == \E t \in PendingTasks : ProcessOf[t] \in Preemptible
    IN  /\ ~planning
        /\ planning' = TRUE
        /\ plan_now' = now
        /\ plan_ok' = ~unsupported
        /\ remaining' = IF unsupported THEN {} ELSE PendingTasks
        /\ ready' = {}
        /\ progress' = TRUE
        /\ result' = EmptyMap

(* The head of the while loop, when some remaining task is ready. *)
CollectReadyTasks ==
    /\ planning
    /\ ready = {}
    /\ progress
    /\ ReadyTasks # {}
    /\ ready' = ReadyTasks
    /\ progress' = FALSE
    /\ UNCHANGED <<planning, plan_now, plan_ok, remaining, result>>

NextReady(t) == t \in ready /\ \A u \in ready : ~Before(u, t)

(* A ready task that a mutex now blocks, or that no actor can take. *)
DropTask(t) ==
    /\ planning
    /\ NextReady(t)
    /\ MutexConflict(t) \/ Candidates(t) = {}
    /\ ready' = ready \ {t}
    /\ remaining' = remaining \ {t}
    /\ UNCHANGED <<planning, plan_now, plan_ok, progress, result>>

AssignTask(t, c) ==
    /\ planning
    /\ NextReady(t)
    /\ ~MutexConflict(t)
    /\ c \in Candidates(t)
    /\ \A d \in Candidates(t) \ {c} : BetterCandidate(t, c, d)
    /\ result' = Put(result, t, c)
    /\ ready' = ready \ {t}
    /\ remaining' = remaining \ {t}
    /\ progress' = TRUE
    /\ UNCHANGED <<planning, plan_now, plan_ok>>

PlanStep ==
    \/ CollectReadyTasks
    \/ \E t \in ready : DropTask(t)
    \/ \E t \in ready : \E c \in Candidates(t) : AssignTask(t, c)

(* The loop ended: nothing is ready, or a whole pass assigned nothing. *)
PlanDone == planning /\ ready = {} /\ (~progress \/ ReadyTasks = {})

EndPlan ==
    /\ PlanDone
    /\ planning' = FALSE
    /\ plan_now' = 0
    /\ plan_ok' = TRUE
    /\ remaining' = {}
    /\ ready' = {}
    /\ progress' = FALSE
    /\ result' = EmptyMap
=============================================================================
