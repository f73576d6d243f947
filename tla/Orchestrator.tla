---------------------------- MODULE Orchestrator ----------------------------
(***************************************************************************)
(* The Orchestrator: one action per public method.  It is not thread-safe  *)
(* and its methods run to completion, so no call starts while a call of    *)
(* Scheduler::plan made by start() or tick() is in progress.               *)
(*                                                                         *)
(* Spec lets the environment call any method with any known id at any      *)
(* time: late and repeated notifications, phases completed early or twice, *)
(* actors flapping, a second start().  DrivenSpec is the caller that the   *)
(* scenario tests and the header comments describe.                        *)
(***************************************************************************)
EXTENDS Scheduler, PlannerFsm

CONSTANTS
    MaxTime,          \* bound on the times passed to tick and notifications
    InitialLoads      \* Actor::current_load values a caller registers with

ASSUME BoundsAssumption ==
    /\ MaxTime \in Nat
    /\ InitialLoads \subseteq Nat

VARIABLES
    planner,            \* fsm_: [last_known, msm]
    started,            \* started_
    replan_requested,   \* replan_requested_
    latest_schedule,    \* latest_schedule_.assignments, by task
    now,                \* the greatest time passed to tick so far
    external_load       \* history: current_load each actor registered with

orchestratorVars == <<planner, started, replan_requested, latest_schedule>>
vars == <<stateVars, registryVars, settingVars, planVars, orchestratorVars,
          now, external_load>>

Init ==
    /\ completed_phases = {}
    /\ assigned_tasks = {}
    /\ completed_tasks = {}
    /\ resumable_tasks = {}
    /\ unresumable_tasks = {}
    /\ unavailable_actors = {}
    /\ task_actor = EmptyMap
    /\ actor_load = EmptyMap
    /\ task_planned_start_time = EmptyMap
    /\ task_actual_completion_time = EmptyMap
    /\ registered = {}
    /\ current_load = [a \in Actors |-> 0]
    /\ strategy \in Strategies
    /\ ranking_profile \in Profiles
    /\ SchedulerInit
    /\ planner = PlannerInit
    /\ started = FALSE
    /\ replan_requested = FALSE
    /\ latest_schedule = EmptyMap
    /\ now = 0
    /\ external_load = [a \in Actors |-> 0]

-----------------------------------------------------------------------------
(***************************************************************************)
(* Configuration.                                                          *)
(***************************************************************************)

(* set_workflow, with the workflow it already has: only the state resets. *)
SetWorkflow ==
    /\ ~planning
    /\ completed_phases' = {}
    /\ assigned_tasks' = {}
    /\ completed_tasks' = {}
    /\ resumable_tasks' = {}
    /\ unresumable_tasks' = {}
    /\ unavailable_actors' = {}
    /\ task_actor' = EmptyMap
    /\ actor_load' = EmptyMap
    /\ task_planned_start_time' = EmptyMap
    /\ task_actual_completion_time' = EmptyMap
    /\ UNCHANGED <<registryVars, settingVars, planVars, orchestratorVars, now,
                   external_load>>

(* register_actor: the entry is replaced, its load with it. *)
RegisterActor(a, load) ==
    /\ ~planning
    /\ registered' = registered \cup {a}
    /\ current_load' = [current_load EXCEPT ![a] = load]
    /\ external_load' = [external_load EXCEPT ![a] = load]
    /\ UNCHANGED <<stateVars, settingVars, planVars, orchestratorVars, now>>

SetSchedulingStrategy(s) ==
    /\ ~planning
    /\ strategy' = s
    /\ UNCHANGED <<stateVars, registryVars, ranking_profile, planVars,
                   orchestratorVars, now, external_load>>

SetActorRankingProfile(p) ==
    /\ ~planning
    /\ ranking_profile' = p
    /\ UNCHANGED <<stateVars, registryVars, strategy, planVars,
                   orchestratorVars, now, external_load>>

-----------------------------------------------------------------------------
(***************************************************************************)
(* Planning: start() and tick() enter run_planning, FinishPlanning leaves  *)
(* it, with plan's steps in between.                                       *)
(***************************************************************************)
Start ==
    /\ BeginPlan(0)
    /\ started' = TRUE
    /\ planner' = Fire(planner, "StartPlanning")
    /\ UNCHANGED <<stateVars, registryVars, settingVars, replan_requested,
                   latest_schedule, now, external_load>>

(* tick in a state where it plans: a replan is due, or Idle, or Planning. *)
TickPlans_notInPlanning ==
    started /\ planner.last_known # "Planning" /\ (replan_requested \/ planner.last_known = "Idle")

TickPlans == started /\ (replan_requested \/ planner.last_known \in {"Idle", "Planning"})

TickPlan(n) ==
    /\ TickPlans
    /\ BeginPlan(n)
    /\ planner' = IF planner.last_known = "Planning" THEN planner
                  ELSE Fire(planner, "StartPlanning")
    /\ replan_requested' = FALSE
    /\ now' = n
    /\ UNCHANGED <<stateVars, registryVars, settingVars, started,
                   latest_schedule, external_load>>

PlanInternal ==
    /\ PlanStep
    /\ UNCHANGED <<stateVars, registryVars, settingVars, orchestratorVars, now,
                   external_load>>

(* The tail of run_planning. *)
FinishPlanning ==
    /\ EndPlan
    /\ latest_schedule' = result
    /\ planner' = IF plan_ok /\ DOMAIN result # {}
                  THEN Fire(planner, "ScheduleReady") ELSE planner
    /\ UNCHANGED <<stateVars, registryVars, settingVars, started,
                   replan_requested, now, external_load>>

-----------------------------------------------------------------------------
(***************************************************************************)
(* Dispatching: the assignments that are due and not blocked take effect   *)
(* together.  No assignment of the pass can enable or block another one,   *)
(* because the pass completes no task and plans each task at most once.    *)
(***************************************************************************)
(* Faults: unresumable tasks, or missing dependencies, are not looked at. *)
Dispatchable_ignoresBlocked(n) ==
    {t \in DOMAIN latest_schedule :
        /\ latest_schedule[t].start <= n
        /\ DepsOf(t) \subseteq completed_tasks
        /\ t \notin completed_tasks
        /\ t \notin assigned_tasks}

Dispatchable_ignoresDeps(n) ==
    {t \in DOMAIN latest_schedule :
        /\ latest_schedule[t].start <= n
        /\ t \notin completed_tasks
        /\ t \notin assigned_tasks
        /\ t \notin unresumable_tasks}

Dispatchable(n) ==
    {t \in DOMAIN latest_schedule :
        /\ latest_schedule[t].start <= n
        /\ DepsOf(t) \subseteq completed_tasks
        /\ t \notin completed_tasks
        /\ t \notin assigned_tasks
        /\ t \notin unresumable_tasks}

Given(D, a) == {t \in D : latest_schedule[t].actor = a}

ApplyDispatch(n) ==
    LET D == Dispatchable(n)
        busy == {latest_schedule[t].actor : t \in D}
    IN  /\ assigned_tasks' = assigned_tasks \cup D
        /\ resumable_tasks' = resumable_tasks \ D
        /\ task_actor' = [t \in DOMAIN task_actor \cup D |->
                             IF t \in D THEN latest_schedule[t].actor ELSE task_actor[t]]
        /\ current_load' = [a \in Actors |->
                             IF a \in registered
                             THEN current_load[a] + TotalDemand(Given(D, a))
                             ELSE current_load[a]]
        /\ actor_load' = [a \in DOMAIN actor_load \cup busy |->
                             IF a \in busy
                             THEN IF a \in registered
                                  THEN current_load[a] + TotalDemand(Given(D, a)) ELSE 0
                             ELSE actor_load[a]]
        /\ task_planned_start_time' =
             [t \in DOMAIN task_planned_start_time \cup D |->
                IF t \in D THEN latest_schedule[t].start ELSE task_planned_start_time[t]]
        /\ UNCHANGED <<completed_phases, completed_tasks, unresumable_tasks,
                       unavailable_actors, task_actual_completion_time>>

(* tick in Dispatching or Running with no replan due. *)
TickDispatch(n) ==
    /\ ~planning
    /\ started
    /\ ~replan_requested
    /\ planner.last_known \in {"Dispatching", "Running"}
    /\ ApplyDispatch(n)
    /\ planner' = IF planner.last_known = "Dispatching"
                  THEN Fire(planner, "DispatchComplete")
                  ELSE Fire(planner, "Tick")
    /\ now' = n
    /\ UNCHANGED <<registered, settingVars, planVars, started,
                   replan_requested, latest_schedule, external_load>>

-----------------------------------------------------------------------------
(***************************************************************************)
(* Feedback from execution.                                                *)
(***************************************************************************)
(* Fault: no replan is requested. *)
SetActorUnavailable_noReplan(a, unavailable) ==
    /\ ~planning
    /\ unavailable <=> a \notin unavailable_actors
    /\ unavailable_actors' = IF unavailable THEN unavailable_actors \cup {a}
                             ELSE unavailable_actors \ {a}
    /\ UNCHANGED <<completed_phases, assigned_tasks, completed_tasks,
                   resumable_tasks, unresumable_tasks, task_actor, actor_load,
                   task_planned_start_time, task_actual_completion_time,
                   registryVars, settingVars, planVars, orchestratorVars, now,
                   external_load>>

SetActorUnavailable(a, unavailable) ==
    /\ ~planning
    /\ unavailable <=> a \notin unavailable_actors
    /\ unavailable_actors' = IF unavailable THEN unavailable_actors \cup {a}
                             ELSE unavailable_actors \ {a}
    /\ replan_requested' = TRUE
    /\ UNCHANGED <<completed_phases, assigned_tasks, completed_tasks,
                   resumable_tasks, unresumable_tasks, task_actor, actor_load,
                   task_planned_start_time, task_actual_completion_time,
                   registryVars, settingVars, planVars, planner, started,
                   latest_schedule, now, external_load>>

(* Faults: the load is not clamped, or every task gives back one unit. *)
ReleaseOwner_unclamped(t) ==
    LET owner == task_actor[t]
        load == current_load[owner] - DemandOf(t)
        releases == t \in DOMAIN task_actor /\ owner \in registered
    IN  /\ current_load' = IF releases THEN [current_load EXCEPT ![owner] = load]
                           ELSE current_load
        /\ actor_load' = IF releases THEN Put(actor_load, owner, load) ELSE actor_load
        /\ task_actor' = Erase(task_actor, t)

ReleaseOwner_oneUnit(t) ==
    LET owner == task_actor[t]
        load == Largest(0, current_load[owner] - 1)
        releases == t \in DOMAIN task_actor /\ owner \in registered
    IN  /\ current_load' = IF releases THEN [current_load EXCEPT ![owner] = load]
                           ELSE current_load
        /\ actor_load' = IF releases THEN Put(actor_load, owner, load) ELSE actor_load
        /\ task_actor' = Erase(task_actor, t)

(* Both notifications: the owner, if any, gets the task's demand back. *)
ReleaseOwner(t) ==
    LET owner == task_actor[t]
        load == Largest(0, current_load[owner] - DemandOf(t))
        releases == /\ t \in DOMAIN task_actor
                    /\ owner \in registered
                    /\ current_load[owner] > 0
    IN  /\ current_load' = IF releases THEN [current_load EXCEPT ![owner] = load]
                           ELSE current_load
        /\ actor_load' = IF releases THEN Put(actor_load, owner, load) ELSE actor_load
        /\ task_actor' = Erase(task_actor, t)

NotifyTaskFailed(t, resumable) ==
    /\ ~planning
    /\ assigned_tasks' = assigned_tasks \ {t}
    /\ completed_tasks' = completed_tasks \ {t}
    /\ ReleaseOwner(t)
    /\ IF resumable
       THEN /\ resumable_tasks' = resumable_tasks \cup {t}
            /\ unresumable_tasks' = unresumable_tasks \ {t}
            /\ replan_requested' = TRUE
       ELSE /\ resumable_tasks' = resumable_tasks \ {t}
            /\ unresumable_tasks' = unresumable_tasks \cup {t}
            /\ UNCHANGED replan_requested
    /\ UNCHANGED <<completed_phases, unavailable_actors, task_planned_start_time,
                   task_actual_completion_time, registered, settingVars,
                   planVars, planner, started, latest_schedule, now,
                   external_load>>

NotifyTaskCompleted(t, at) ==
    /\ ~planning
    /\ assigned_tasks' = assigned_tasks \ {t}
    /\ completed_tasks' = completed_tasks \cup {t}
    /\ ReleaseOwner(t)
    /\ task_actual_completion_time' = Put(task_actual_completion_time, t, at)
    /\ replan_requested' = TRUE
    /\ UNCHANGED <<completed_phases, resumable_tasks, unresumable_tasks,
                   unavailable_actors, task_planned_start_time, registered,
                   settingVars, planVars, planner, started, latest_schedule,
                   now, external_load>>

MarkTaskResumable(t) ==
    /\ ~planning
    /\ unresumable_tasks' = unresumable_tasks \ {t}
    /\ resumable_tasks' = resumable_tasks \cup {t}
    /\ replan_requested' = TRUE
    /\ UNCHANGED <<completed_phases, assigned_tasks, completed_tasks,
                   unavailable_actors, task_actor, actor_load,
                   task_planned_start_time, task_actual_completion_time,
                   registryVars, settingVars, planVars, planner, started,
                   latest_schedule, now, external_load>>

(* complete_phase: the comparison is of sizes, unknown ids included. *)
CompletePhase(ph) ==
    /\ ~planning
    /\ completed_phases' = completed_phases \cup {ph}
    /\ LET fired == Fire(planner, "PhaseComplete")
       IN  planner' = IF Cardinality(completed_phases') >= Cardinality(Phases)
                      THEN Fire(fired, "AllPhasesComplete") ELSE fired
    /\ UNCHANGED <<assigned_tasks, completed_tasks, resumable_tasks,
                   unresumable_tasks, unavailable_actors, task_actor,
                   actor_load, task_planned_start_time,
                   task_actual_completion_time, registryVars, settingVars,
                   planVars, started, replan_requested, latest_schedule, now,
                   external_load>>

-----------------------------------------------------------------------------
(***************************************************************************)
(* Callers.                                                                *)
(***************************************************************************)
Configure ==
    \/ \E a \in Actors \ registered, load \in InitialLoads : RegisterActor(a, load)
    \/ \E s \in Strategies \ {strategy} : SetSchedulingStrategy(s)
    \/ \E p \in Profiles \ {ranking_profile} : SetActorRankingProfile(p)

Execute ==
    \/ \E n \in now..MaxTime : TickPlan(n) \/ TickDispatch(n)
    \/ PlanInternal
    \/ FinishPlanning

Flap == \E a \in ActorIds, b \in BOOLEAN : SetActorUnavailable(a, b)

AnyFeedback ==
    \/ \E t \in Tasks, resumable \in BOOLEAN : NotifyTaskFailed(t, resumable)
    \/ \E t \in Tasks, at \in 0..MaxTime : NotifyTaskCompleted(t, at)
    \/ \E t \in Tasks : MarkTaskResumable(t)
    \/ \E ph \in PhaseIds : CompletePhase(ph)

(* Any call at any time, with any id the workflow knows. *)
Next ==
    \/ Configure
    \/ SetWorkflow
    \/ \E a \in registered, load \in InitialLoads : RegisterActor(a, load)
    \/ Start
    \/ Execute
    \/ Flap
    \/ AnyFeedback

Spec == Init /\ [][Next]_vars

(***************************************************************************)
(* The caller of the scenario tests: it registers its actors, starts once, *)
(* reports on tasks in flight, makes resumable what had failed, and        *)
(* completes a phase once no task of it is left to run: each is done or    *)
(* excluded by one that is.                                                *)
(***************************************************************************)
Settled(t) == t \in completed_tasks \/ MutexOf(t) \cap completed_tasks # {}

PhaseSettled(ph) ==
    /\ ph \in ReadyPhases(completed_phases)
    /\ \A t \in TaskIdsForPhase(ph) : Settled(t) /\ t \notin assigned_tasks

DrivenFeedback ==
    \/ \E t \in assigned_tasks, resumable \in BOOLEAN : NotifyTaskFailed(t, resumable)
    \/ \E t \in assigned_tasks : NotifyTaskCompleted(t, now)
    \/ \E t \in unresumable_tasks : MarkTaskResumable(t)
    \/ \E ph \in Phases : PhaseSettled(ph) /\ CompletePhase(ph)

DrivenSetup == ~started /\ (Configure \/ (registered = Actors /\ Start))

DrivenNext == DrivenSetup \/ Execute \/ (started /\ (Flap \/ DrivenFeedback))

DrivenSpec == Init /\ [][DrivenNext]_vars

-----------------------------------------------------------------------------
(***************************************************************************)
(* Properties of any use of the orchestrator.                              *)
(***************************************************************************)

(* The state is made of known ids, and loads and times are never negative: *)
(* what every use of the maps of WorkflowState relies on.                  *)
TypeOK ==
    /\ completed_phases \subseteq PhaseIds
    /\ assigned_tasks \subseteq Tasks
    /\ completed_tasks \subseteq Tasks
    /\ resumable_tasks \subseteq Tasks
    /\ unresumable_tasks \subseteq Tasks
    /\ unavailable_actors \subseteq ActorIds
    /\ IsMap(task_actor, Tasks, Actors)
    /\ IsMap(actor_load, Actors, Nat)
    /\ IsMap(task_planned_start_time, Tasks, Time)
    /\ IsMap(task_actual_completion_time, Tasks, Time)
    /\ registered \subseteq Actors
    /\ current_load \in [Actors -> Nat]
    /\ external_load \in [Actors -> Nat]
    /\ strategy \in Strategies
    /\ ranking_profile \in Profiles
    /\ planning \in BOOLEAN
    /\ plan_now \in Time
    /\ plan_ok \in BOOLEAN
    /\ remaining \subseteq Tasks
    /\ ready \subseteq Tasks
    /\ progress \in BOOLEAN
    /\ IsMap(result, Tasks, Assignments)
    /\ planner \in [last_known : PlannerStates, msm : PlannerStates]
    /\ started \in BOOLEAN
    /\ replan_requested \in BOOLEAN
    /\ IsMap(latest_schedule, Tasks, Assignments)
    /\ now \in 0..MaxTime

(* PlannerStateMachine: the copy of the state that current_state() reports *)
(* is the state of the MSM machine, whatever the order of calls.           *)
FsmAgreement == planner.last_known = planner.msm

(* A task has an owner exactly while it is in flight, and a task in flight *)
(* is neither completed nor blocked: however late or often notify_task_*   *)
(* and mark_task_resumable are called, no task is done and running at once.*)
InFlightExclusive ==
    /\ DOMAIN task_actor = assigned_tasks
    /\ assigned_tasks \cap completed_tasks = {}
    /\ assigned_tasks \cap unresumable_tasks = {}
    /\ resumable_tasks \cap unresumable_tasks = {}

(* apply_dispatch never hands a task to an actor flagged unavailable, even *)
(* though it looks at no flag and the schedule may be old: the replan that *)
(* set_actor_unavailable requests always comes first.                      *)
NoDispatchToUnavailable ==
    [][\A t \in assigned_tasks' \ assigned_tasks :
          task_actor'[t] \in registered \ unavailable_actors]_vars

(* The greedy plan never promises more of an actor than its capacity at an *)
(* instant when one of the tasks it placed runs, counting tasks in flight, *)
(* opaque load and the tasks placed before and after.                      *)
PlanWithinCapacity ==
    \A t \in DOMAIN result :
        \A instant \in result[t].start..(ResultEnd(t) - 1) :
            ConcurrentDemandAt(result[t].actor, instant) <= Capacity[result[t].actor]

(* The plan respects precedence: a planned task starts no earlier than the *)
(* completion of each dependency, be it done, in flight or planned.        *)
PlanRespectsDependencies ==
    \A t \in DOMAIN result :
        /\ DepsOf(t) \subseteq CompletionKnown
        /\ \A d \in DepsOf(t) : CompletionTime(d) <= result[t].start

-----------------------------------------------------------------------------
(***************************************************************************)
(* A property that needs a caller who sets up once.                        *)
(***************************************************************************)
InFlightOn(a) == {t \in DOMAIN task_actor : task_actor[t] = a}

(* Actor::current_load is the load the actor came with plus the demand of  *)
(* the tasks in flight on it, and WorkflowState::actor_load never departs  *)
(* from it, under late, repeated and contradictory notifications.          *)
LoadAccounting ==
    /\ \A a \in registered :
          current_load[a] = external_load[a] + TotalDemand(InFlightOn(a))
    /\ \A a \in DOMAIN actor_load : actor_load[a] = current_load[a]

(***************************************************************************)
(* Properties that need a caller who follows the protocol (DrivenSpec).    *)
(***************************************************************************)
Excludes(t, u) == t \in MutexOf(u) /\ u \in MutexOf(t)

(* Of two tasks that list each other as mutually exclusive, at most one    *)
(* ever runs or has run, across failures, resumptions and replans.         *)
MutualExclusion ==
    \A t, u \in assigned_tasks \cup completed_tasks : t # u => ~Excludes(t, u)

(* A task in flight has all its dependencies done, and belongs to a phase  *)
(* that is open: not complete, and not waiting for another phase.          *)
InFlightInOrder ==
    \A t \in assigned_tasks :
        /\ DepsOf(t) \subseteq completed_tasks
        /\ PhaseOfTask(t) \in ReadyPhases(completed_phases)
=============================================================================
