---------------------------- MODULE DrivenProofs ----------------------------
(***************************************************************************)
(* What the orchestrator guarantees to the caller of the scenario tests    *)
(* (DrivenSpec), for every workflow.  Each of these properties fails for   *)
(* some caller of Spec, so each proof shows which part of the protocol it  *)
(* rests on.                                                               *)
(***************************************************************************)
EXTENDS OrchestratorDriver, OrchestratorProofs

-----------------------------------------------------------------------------
(***************************************************************************)
(* A driven caller is a caller: what holds of Spec holds of DrivenSpec.    *)
(***************************************************************************)
LEMMA DrivenStepIsStep ==
    TypeOK /\ [DrivenNext]_vars => [Next]_vars
<1> SUFFICES ASSUME TypeOK, DrivenNext PROVE Next
  OBVIOUS
<1>1. /\ assigned_tasks \subseteq Tasks
      /\ unresumable_tasks \subseteq Tasks
      /\ Phases \subseteq PhaseIds
      /\ now \in 0..MaxTime
  BY PhasesAssumption DEF TypeOK
<1>2. CASE DrivenSetup
  BY <1>2 DEF DrivenSetup, Next
<1>3. CASE Execute \/ Flap
  BY <1>3 DEF Next
<1>4. CASE DrivenFeedback
  BY <1>1, <1>4 DEF DrivenFeedback, AnyFeedback, Next
<1> QED
  BY <1>2, <1>3, <1>4 DEF DrivenNext

LEMMA DrivenIsAnyUse == DrivenSpec => Spec
<1>1. TypeOK /\ [DrivenNext]_vars => TypeOK'
  BY DrivenStepIsStep, NextTypeOK
<1> QED
  BY <1>1, InitTypeOK, DrivenStepIsStep, PTL DEF DrivenSpec, Spec

-----------------------------------------------------------------------------
(***************************************************************************)
(* Mutual exclusion.  select checks a task against what is done, in flight *)
(* or already in the plan; apply_dispatch checks nothing.  So the schedule *)
(* that is in force must stay compatible with every task that runs or ran  *)
(* since it was made, not only with those that did when it was made.       *)
(***************************************************************************)
Compatible(S) == \A t, u \in S : t # u => ~Excludes(t, u)

ScheduleCompatible ==
    /\ Compatible(assigned_tasks \cup completed_tasks \cup DOMAIN latest_schedule)
    /\ Compatible(assigned_tasks \cup completed_tasks \cup DOMAIN result)

LEMMA CompatibleInductive ==
    TypeOK /\ PlanBookkeeping /\ ScheduleCompatible /\ [DrivenNext]_vars => ScheduleCompatible'
<1> SUFFICES ASSUME TypeOK, PlanBookkeeping, ScheduleCompatible, [DrivenNext]_vars
             PROVE  ScheduleCompatible'
  OBVIOUS
<1> USE DEF ScheduleCompatible, Compatible, stateVars, planVars, orchestratorVars
<1>1. CASE Start
  BY <1>1 DEF Start, BeginPlan, EmptyMap
<1>2. ASSUME NEW n \in now..MaxTime, TickPlan(n) PROVE ScheduleCompatible'
  BY <1>2 DEF TickPlan, BeginPlan, EmptyMap
<1>3. ASSUME NEW n \in now..MaxTime, TickDispatch(n) PROVE ScheduleCompatible'
  <2>1. /\ assigned_tasks' \subseteq assigned_tasks \cup DOMAIN latest_schedule
        /\ completed_tasks' = completed_tasks
        /\ latest_schedule' = latest_schedule
        /\ result' = result
        /\ ~planning
    BY <1>3 DEF TickDispatch, ApplyDispatch, Dispatchable
  <2>2. DOMAIN result = {}
    BY <2>1 DEF PlanBookkeeping
  <2> QED
    BY <2>1, <2>2
<1>4. CASE PlanInternal
  <2>1. CASE CollectReadyTasks
    BY <1>4, <2>1 DEF PlanInternal, CollectReadyTasks
  <2>2. ASSUME NEW t \in ready, DropTask(t) PROVE ScheduleCompatible'
    BY <1>4, <2>2 DEF PlanInternal, DropTask
  <2>3. ASSUME NEW t \in ready, NEW c \in Candidates(t), AssignTask(t, c)
        PROVE  ScheduleCompatible'
    <3>1. /\ assigned_tasks' = assigned_tasks
          /\ completed_tasks' = completed_tasks
          /\ latest_schedule' = latest_schedule
          /\ DOMAIN result' = DOMAIN result \cup {t}
      BY <1>4, <2>3 DEF PlanInternal, AssignTask, Put
    <3>2. \A u \in assigned_tasks \cup completed_tasks \cup DOMAIN result :
             ~Excludes(t, u) /\ ~Excludes(u, t)
      BY <2>3 DEF AssignTask, MutexConflict, Excludes
    <3> QED
      BY <3>1, <3>2
  <2> QED
    BY <1>4, <2>1, <2>2, <2>3 DEF PlanInternal, PlanStep
<1>5. CASE FinishPlanning
  BY <1>5 DEF FinishPlanning, EndPlan, EmptyMap
<1>6. ASSUME NEW t \in assigned_tasks, NEW b \in BOOLEAN, NotifyTaskFailed(t, b)
      PROVE  ScheduleCompatible'
  BY <1>6 DEF NotifyTaskFailed
<1>7. ASSUME NEW t \in assigned_tasks, NotifyTaskCompleted(t, now)
      PROVE  ScheduleCompatible'
  BY <1>7 DEF NotifyTaskCompleted
<1>8. CASE UNCHANGED <<assigned_tasks, completed_tasks, latest_schedule, result>>
  BY <1>8
<1> QED
  BY <1>1, <1>2, <1>3, <1>4, <1>5, <1>6, <1>7, <1>8
     DEF DrivenNext, DrivenSetup, Configure, Execute, Flap, DrivenFeedback,
         RegisterActor, SetSchedulingStrategy, SetActorRankingProfile,
         SetActorUnavailable, MarkTaskResumable, CompletePhase, vars

(* Two tasks that exclude each other never both run or have run, although  *)
(* apply_dispatch works from a schedule made before the failures and       *)
(* completions it has been told of.                                        *)
THEOREM TasksExcludeEachOther == DrivenSpec => []MutualExclusion
<1>1. Init => PlanBookkeeping /\ ScheduleCompatible
  BY DEF Init, SchedulerInit, EmptyMap, PlanBookkeeping, ScheduleCompatible, Compatible
<1>2. TypeOK /\ PlanBookkeeping /\ [DrivenNext]_vars => PlanBookkeeping'
  BY DrivenStepIsStep, BookkeepingInductive
<1>3. ScheduleCompatible => MutualExclusion
  BY DEF ScheduleCompatible, Compatible, MutualExclusion
<1> QED
  BY <1>1, <1>2, <1>3, CompatibleInductive, DrivenIsAnyUse, TypeCorrect, PTL DEF DrivenSpec

-----------------------------------------------------------------------------
(***************************************************************************)
(* Order.  apply_dispatch looks at task dependencies but at no phase, and  *)
(* the caller completes phases while an older schedule is in force.  What  *)
(* protects the dispatch: a caller completes only phases none of whose     *)
(* tasks is left to run, and every task of the schedule is left to run     *)
(* unless a completion reported since then has a replan pending.           *)
(***************************************************************************)
PhaseOpen(t) == PhaseOfTask(t) \in ReadyPhases(completed_phases)

ScheduleLeftToRun ==
    /\ planning => \A t \in remaining : PhaseOpen(t) /\ t \notin completed_tasks
    /\ planning => \A t \in DOMAIN result : PhaseOpen(t) /\ ~Settled(t)
    /\ ~planning /\ ~replan_requested =>
          \A t \in DOMAIN latest_schedule : PhaseOpen(t) /\ ~Settled(t)

(* What plan starts from is left to run. *)
LEMMA BeginPlanLeftToRun ==
    ASSUME NEW n, BeginPlan(n), UNCHANGED stateVars
    PROVE  ScheduleLeftToRun'
<1>1. \A t \in PendingTasks : PhaseOpen(t) /\ t \notin completed_tasks
  BY DEF PendingTasks, PhaseOpen
<1>2. \A t : PhaseOpen(t)' <=> PhaseOpen(t)
  BY DEF PhaseOpen, stateVars
<1>3. remaining' \subseteq PendingTasks /\ planning' /\ DOMAIN result' = {}
  BY DEF BeginPlan, EmptyMap
<1>4. completed_tasks' = completed_tasks
  BY DEF stateVars
<1> QED
  BY <1>1, <1>2, <1>3, <1>4 DEF ScheduleLeftToRun

(* A phase the caller completes is the phase of no task left to run or in  *)
(* flight, so completing it closes no other phase.                         *)
LEMMA CompletePhaseKeepsOpen ==
    ASSUME NEW ph \in Phases, PhaseSettled(ph), CompletePhase(ph),
           NEW t \in Tasks, PhaseOpen(t), ~Settled(t) \/ t \in assigned_tasks
    PROVE  PhaseOpen(t)'
<1>1. PhaseOfTask(t) # ph
  BY DEF PhaseSettled, TaskIdsForPhase, PhaseOfTask
<1>2. completed_phases' = completed_phases \cup {ph}
  BY DEF CompletePhase
<1> QED
  BY <1>1, <1>2 DEF PhaseOpen, ReadyPhases

LEMMA LeftToRunInductive ==
    TypeOK /\ PlanBookkeeping /\ ScheduleLeftToRun /\ [DrivenNext]_vars => ScheduleLeftToRun'
<1> SUFFICES ASSUME TypeOK, PlanBookkeeping, ScheduleLeftToRun, [DrivenNext]_vars
             PROVE  ScheduleLeftToRun'
  OBVIOUS
<1>1. CASE Start
  BY <1>1, BeginPlanLeftToRun DEF Start
<1>2. ASSUME NEW n \in now..MaxTime, TickPlan(n) PROVE ScheduleLeftToRun'
  BY <1>2, BeginPlanLeftToRun DEF TickPlan
<1> USE DEF ScheduleLeftToRun, stateVars, planVars, orchestratorVars
<1>3. ASSUME NEW n \in now..MaxTime, TickDispatch(n) PROVE ScheduleLeftToRun'
  BY <1>3 DEF TickDispatch, ApplyDispatch, PhaseOpen, Settled
<1>4. CASE PlanInternal
  <2> USE DEF PhaseOpen, Settled
  <2>1. CASE CollectReadyTasks
    BY <1>4, <2>1 DEF PlanInternal, CollectReadyTasks
  <2>2. ASSUME NEW t \in ready, DropTask(t) PROVE ScheduleLeftToRun'
    BY <1>4, <2>2 DEF PlanInternal, DropTask
  <2>3. ASSUME NEW t \in ready, NEW c \in Candidates(t), AssignTask(t, c)
        PROVE  ScheduleLeftToRun'
    <3>1. /\ t \in remaining
          /\ MutexOf(t) \cap completed_tasks = {}
          /\ remaining' \subseteq remaining
          /\ DOMAIN result' = DOMAIN result \cup {t}
          /\ planning /\ planning'
      BY <2>3 DEF AssignTask, MutexConflict, PlanBookkeeping, Put
    <3>2. completed_tasks' = completed_tasks /\ completed_phases' = completed_phases
      BY <1>4 DEF PlanInternal
    <3> QED
      BY <3>1, <3>2
  <2> QED
    BY <1>4, <2>1, <2>2, <2>3 DEF PlanInternal, PlanStep
<1>5. CASE FinishPlanning
  BY <1>5 DEF FinishPlanning, EndPlan, PlanDone, PhaseOpen, Settled
<1>6. ASSUME NEW t \in assigned_tasks, NEW b \in BOOLEAN, NotifyTaskFailed(t, b)
      PROVE  ScheduleLeftToRun'
  BY <1>6 DEF NotifyTaskFailed, PhaseOpen, Settled
<1>7. ASSUME NEW t \in assigned_tasks, NotifyTaskCompleted(t, now)
      PROVE  ScheduleLeftToRun'
  BY <1>7 DEF NotifyTaskCompleted
<1>8. ASSUME NEW ph \in Phases, PhaseSettled(ph), CompletePhase(ph)
      PROVE  ScheduleLeftToRun'
  <2>1. /\ ~planning /\ ~planning'
        /\ UNCHANGED <<completed_tasks, replan_requested, latest_schedule>>
    BY <1>8 DEF CompletePhase
  <2>2. DOMAIN latest_schedule \subseteq Tasks
    BY DEF TypeOK, IsMap
  <2> QED
    BY <1>8, <2>1, <2>2, CompletePhaseKeepsOpen DEF Settled
<1>9. ASSUME NEW a \in ActorIds, NEW b \in BOOLEAN, SetActorUnavailable(a, b)
      PROVE  ScheduleLeftToRun'
  BY <1>9 DEF SetActorUnavailable
<1>10. ASSUME NEW t \in unresumable_tasks, MarkTaskResumable(t) PROVE ScheduleLeftToRun'
  BY <1>10 DEF MarkTaskResumable
<1>11. CASE UNCHANGED <<completed_phases, completed_tasks, planning, remaining,
                        result, replan_requested, latest_schedule>>
  BY <1>11 DEF PhaseOpen, Settled
<1> QED
  BY <1>1, <1>2, <1>3, <1>4, <1>5, <1>6, <1>7, <1>8, <1>9, <1>10, <1>11
     DEF DrivenNext, DrivenSetup, Configure, Execute, Flap, DrivenFeedback,
         RegisterActor, SetSchedulingStrategy, SetActorRankingProfile, vars

LEMMA InOrderInductive ==
    /\ TypeOK /\ InFlightExclusive /\ ScheduleLeftToRun /\ InFlightInOrder
    /\ [DrivenNext]_vars
    => InFlightInOrder'
<1> SUFFICES ASSUME TypeOK, InFlightExclusive, ScheduleLeftToRun, InFlightInOrder,
                    [DrivenNext]_vars
             PROVE  InFlightInOrder'
  OBVIOUS
<1> USE DEF InFlightInOrder, stateVars
<1>1. ASSUME NEW n \in now..MaxTime, TickDispatch(n) PROVE InFlightInOrder'
  <2>1. /\ completed_tasks' = completed_tasks
        /\ completed_phases' = completed_phases
        /\ ~planning /\ ~replan_requested
    BY <1>1 DEF TickDispatch, ApplyDispatch
  <2>2. assigned_tasks' = assigned_tasks \cup Dispatchable(n)
    BY <1>1 DEF TickDispatch, ApplyDispatch
  <2>3. \A t \in Dispatchable(n) : DepsOf(t) \subseteq completed_tasks /\ PhaseOpen(t)
    BY <2>1 DEF Dispatchable, ScheduleLeftToRun
  <2> QED
    BY <2>1, <2>2, <2>3 DEF PhaseOpen
<1>2. ASSUME NEW t \in assigned_tasks, NEW b \in BOOLEAN, NotifyTaskFailed(t, b)
      PROVE  InFlightInOrder'
  <2>1. completed_tasks' = completed_tasks
    BY <1>2 DEF NotifyTaskFailed, InFlightExclusive
  <2> QED
    BY <1>2, <2>1 DEF NotifyTaskFailed
<1>3. ASSUME NEW t \in assigned_tasks, NotifyTaskCompleted(t, now)
      PROVE  InFlightInOrder'
  BY <1>3 DEF NotifyTaskCompleted
<1>4. ASSUME NEW ph \in Phases, PhaseSettled(ph), CompletePhase(ph)
      PROVE  InFlightInOrder'
  <2>1. assigned_tasks' = assigned_tasks /\ completed_tasks' = completed_tasks
    BY <1>4 DEF CompletePhase
  <2>2. \A t \in assigned_tasks : t \in Tasks /\ PhaseOpen(t)
    BY DEF TypeOK, PhaseOpen
  <2>3. \A t \in assigned_tasks : PhaseOpen(t)'
    BY <1>4, <2>2, CompletePhaseKeepsOpen
  <2> QED
    BY <2>1, <2>3 DEF PhaseOpen
<1>5. CASE UNCHANGED <<completed_phases, completed_tasks, assigned_tasks>>
  BY <1>5
<1> QED
  BY <1>1, <1>2, <1>3, <1>4, <1>5
     DEF DrivenNext, DrivenSetup, Configure, Execute, Flap, DrivenFeedback,
         RegisterActor, SetSchedulingStrategy, SetActorRankingProfile, Start,
         TickPlan, PlanInternal, FinishPlanning, SetActorUnavailable,
         MarkTaskResumable, vars

(* A task in flight has every dependency done and its phase open, although *)
(* nothing rechecks the phase of a task between plan and dispatch.         *)
THEOREM TasksRunInOrder == DrivenSpec => []InFlightInOrder
<1>1. Init => PlanBookkeeping /\ ScheduleLeftToRun /\ InFlightInOrder
  BY DEF Init, SchedulerInit, EmptyMap, PlanBookkeeping, ScheduleLeftToRun, InFlightInOrder
<1>2. TypeOK /\ PlanBookkeeping /\ [DrivenNext]_vars => PlanBookkeeping'
  BY DrivenStepIsStep, BookkeepingInductive
<1> QED
  BY <1>1, <1>2, LeftToRunInductive, InOrderInductive, DrivenIsAnyUse, TypeCorrect,
     InFlightIsExclusive, PTL DEF DrivenSpec

-----------------------------------------------------------------------------
(***************************************************************************)
(* Precedence in the plan.  The completion time of a dependency is fixed   *)
(* when the plan places the task that waits for it, so no later assignment *)
(* of the same plan may move it: plan must not place again a task that is  *)
(* done or in flight.  collect_pending_tasks lets a task in flight through *)
(* when it is marked resumable; a driven caller marks only failed tasks.   *)
(***************************************************************************)
ResumableNotInFlight == resumable_tasks \cap assigned_tasks = {}

PlanPlacesOnlyIdle ==
    /\ planning => remaining \cap (assigned_tasks \cup completed_tasks) = {}
    /\ planning => \A t \in ready : DependenciesKnown(t)

LEMMA ResumableInductive ==
    InFlightExclusive /\ ResumableNotInFlight /\ [DrivenNext]_vars => ResumableNotInFlight'
<1> SUFFICES ASSUME InFlightExclusive, ResumableNotInFlight, [DrivenNext]_vars
             PROVE  ResumableNotInFlight'
  OBVIOUS
<1> USE DEF ResumableNotInFlight, stateVars
<1>1. ASSUME NEW n \in now..MaxTime, TickDispatch(n) PROVE ResumableNotInFlight'
  BY <1>1 DEF TickDispatch, ApplyDispatch
<1>2. ASSUME NEW t \in assigned_tasks, NEW b \in BOOLEAN, NotifyTaskFailed(t, b)
      PROVE  ResumableNotInFlight'
  BY <1>2 DEF NotifyTaskFailed
<1>3. ASSUME NEW t \in assigned_tasks, NotifyTaskCompleted(t, now)
      PROVE  ResumableNotInFlight'
  BY <1>3 DEF NotifyTaskCompleted
<1>4. ASSUME NEW t \in unresumable_tasks, MarkTaskResumable(t)
      PROVE  ResumableNotInFlight'
  BY <1>4 DEF MarkTaskResumable, InFlightExclusive
<1>5. CASE UNCHANGED <<resumable_tasks, assigned_tasks>>
  BY <1>5
<1> QED
  BY <1>1, <1>2, <1>3, <1>4, <1>5
     DEF DrivenNext, DrivenSetup, Configure, Execute, Flap, DrivenFeedback,
         RegisterActor, SetSchedulingStrategy, SetActorRankingProfile, Start,
         TickPlan, PlanInternal, FinishPlanning, SetActorUnavailable,
         CompletePhase, vars

LEMMA BeginPlanPlacesIdle ==
    ASSUME ResumableNotInFlight, NEW n, BeginPlan(n), UNCHANGED stateVars
    PROVE  PlanPlacesOnlyIdle'
<1>1. PendingTasks \cap (assigned_tasks \cup completed_tasks) = {}
  BY DEF PendingTasks, ResumableNotInFlight
<1>2. remaining' \subseteq PendingTasks /\ ready' = {}
  BY DEF BeginPlan
<1> QED
  BY <1>1, <1>2 DEF PlanPlacesOnlyIdle, stateVars

(* A placed task joins the tasks whose completion is known, and as it was  *)
(* not one of them, the completion times of the others do not change.      *)
LEMMA PlacingKeepsCompletions ==
    ASSUME PlanStays, NEW t, t \notin CompletionKnown, NEW c, result' = Put(result, t, c)
    PROVE  /\ CompletionKnown' = CompletionKnown \cup {t}
           /\ \A d \in CompletionKnown : CompletionTime(d)' = CompletionTime(d)
<1>1. /\ DOMAIN result' = DOMAIN result \cup {t}
      /\ \A d \in DOMAIN result : d # t /\ result'[d] = result[d]
  BY DEF Put, CompletionKnown
<1>2. UNCHANGED <<completed_tasks, assigned_tasks, task_actual_completion_time,
                  task_planned_start_time, plan_now>>
  BY DEF PlanStays, stateVars
<1>3. \A d : PlannedEnd(d)' = PlannedEnd(d)
  BY <1>2 DEF PlannedEnd, PlannedStart
<1>4. ASSUME NEW d \in CompletionKnown PROVE CompletionTime(d)' = CompletionTime(d)
  <2>1. d # t
    OBVIOUS
  <2>2. CASE d \in DOMAIN result
    <3>1. d \in DOMAIN result' /\ result'[d] = result[d]
      BY <1>1, <2>2
    <3> QED
      BY <2>2, <3>1 DEF CompletionTime, ResultEnd
  <2>3. CASE d \notin DOMAIN result
    <3>1. d \notin DOMAIN result'
      BY <1>1, <2>1, <2>3
    <3> QED
      BY <1>2, <1>3, <2>3, <3>1 DEF CompletionTime
  <2> QED
    BY <2>2, <2>3
<1> QED
  BY <1>1, <1>2, <1>4 DEF CompletionKnown

LEMMA DependenciesInductive ==
    /\ TypeOK /\ PlanBookkeeping /\ ResumableNotInFlight
    /\ PlanPlacesOnlyIdle /\ PlanRespectsDependencies
    /\ [DrivenNext]_vars
    => PlanPlacesOnlyIdle' /\ PlanRespectsDependencies'
<1> SUFFICES ASSUME TypeOK, PlanBookkeeping, ResumableNotInFlight,
                    PlanPlacesOnlyIdle, PlanRespectsDependencies, [DrivenNext]_vars
             PROVE  PlanPlacesOnlyIdle' /\ PlanRespectsDependencies'
  OBVIOUS
<1>1. ASSUME NEW n, BeginPlan(n), UNCHANGED stateVars
      PROVE  PlanPlacesOnlyIdle' /\ PlanRespectsDependencies'
  <2>1. PlanPlacesOnlyIdle'
    BY <1>1, BeginPlanPlacesIdle
  <2>2. DOMAIN result' = {}
    BY <1>1 DEF BeginPlan, EmptyMap
  <2> QED
    BY <2>1, <2>2 DEF PlanRespectsDependencies
<1>2. CASE Start \/ \E n \in now..MaxTime : TickPlan(n)
  BY <1>1, <1>2 DEF Start, TickPlan
<1>3. ASSUME PlanStays, result' = result
      PROVE  PlanRespectsDependencies' /\ CompletionKnown' = CompletionKnown
  <2>1. \A d : CompletionTime(d)' = CompletionTime(d)
    BY <1>3 DEF PlanStays, stateVars, CompletionTime, ResultEnd, PlannedEnd, PlannedStart
  <2>2. CompletionKnown' = CompletionKnown
    BY <1>3 DEF PlanStays, stateVars, CompletionKnown
  <2> QED
    BY <1>3, <2>1, <2>2 DEF PlanRespectsDependencies
<1>4. CASE PlanInternal
  <2>1. UNCHANGED <<assigned_tasks, completed_tasks>>
    BY <1>4 DEF PlanInternal, stateVars
  <2>2. CASE CollectReadyTasks
    <3>1. PlanStays /\ UNCHANGED <<result, remaining>> /\ ready' = ReadyTasks
      BY <1>4, <2>2 DEF PlanInternal, CollectReadyTasks, PlanStays
    <3>2. \A t \in ready' : DependenciesKnown(t)
      BY <3>1 DEF ReadyTasks
    <3> QED
      BY <1>3, <2>1, <3>1, <3>2 DEF PlanPlacesOnlyIdle, DependenciesKnown, PlanStays
  <2>3. ASSUME NEW t \in ready, DropTask(t)
        PROVE  PlanPlacesOnlyIdle' /\ PlanRespectsDependencies'
    <3>1. PlanStays /\ result' = result /\ ready' \subseteq ready /\ remaining' \subseteq remaining
      BY <1>4, <2>3 DEF PlanInternal, DropTask, PlanStays
    <3> QED
      BY <1>3, <2>1, <3>1 DEF PlanPlacesOnlyIdle, DependenciesKnown, PlanStays
  <2>4. ASSUME NEW t \in ready, NEW c \in Candidates(t), AssignTask(t, c)
        PROVE  PlanPlacesOnlyIdle' /\ PlanRespectsDependencies'
    <3>1. /\ PlanStays
          /\ planning
          /\ result' = Put(result, t, c)
          /\ ready' \subseteq ready
          /\ remaining' \subseteq remaining
      BY <1>4, <2>4 DEF PlanInternal, AssignTask, PlanStays
    <3>2. t \in Tasks /\ t \notin CompletionKnown /\ DepsOf(t) \subseteq CompletionKnown
      BY <3>1 DEF TypeOK, PlanBookkeeping, PlanPlacesOnlyIdle, CompletionKnown, DependenciesKnown
    <3>3. /\ CompletionKnown' = CompletionKnown \cup {t}
          /\ \A d \in CompletionKnown : CompletionTime(d)' = CompletionTime(d)
      BY <3>1, <3>2, PlacingKeepsCompletions
    <3>4. \A d \in DepsOf(t) : CompletionTime(d) <= c.start
      BY <3>2, CandidateFits DEF ReleaseBounds
    <3>5. /\ DOMAIN result' = DOMAIN result \cup {t}
          /\ result'[t] = c
          /\ \A u \in DOMAIN result : u # t /\ result'[u] = result[u]
      BY <3>1, <3>2 DEF Put, CompletionKnown
    <3>6. PlanRespectsDependencies'
      BY <3>2, <3>3, <3>4, <3>5 DEF PlanRespectsDependencies
    <3> QED
      BY <2>1, <3>1, <3>3, <3>6 DEF PlanPlacesOnlyIdle, DependenciesKnown
  <2> QED
    BY <1>4, <2>2, <2>3, <2>4 DEF PlanInternal, PlanStep
<1>5. CASE FinishPlanning
  BY <1>5 DEF FinishPlanning, EndPlan, EmptyMap, PlanPlacesOnlyIdle, PlanRespectsDependencies
<1>6. CASE UNCHANGED vars
  <2>1. PlanStays /\ UNCHANGED <<result, ready, remaining>>
    BY <1>6 DEF vars, PlanStays, planVars
  <2> QED
    BY <1>3, <2>1 DEF PlanPlacesOnlyIdle, DependenciesKnown, PlanStays, stateVars
<1>7. CASE ~planning /\ ~planning' /\ result' = result
  BY <1>7 DEF PlanBookkeeping, PlanPlacesOnlyIdle, PlanRespectsDependencies
<1> QED
  BY <1>2, <1>4, <1>5, <1>6, <1>7
     DEF DrivenNext, DrivenSetup, Configure, Execute, Flap, DrivenFeedback,
         RegisterActor, SetSchedulingStrategy, SetActorRankingProfile,
         TickDispatch, SetActorUnavailable, NotifyTaskFailed,
         NotifyTaskCompleted, MarkTaskResumable, CompletePhase, planVars

(* The plan never starts a task before the completion of a dependency that *)
(* is done, in flight or placed by the same plan.                          *)
THEOREM PlanKeepsPrecedence == DrivenSpec => []PlanRespectsDependencies
<1>1. Init => /\ PlanBookkeeping /\ ResumableNotInFlight
              /\ PlanPlacesOnlyIdle /\ PlanRespectsDependencies
  BY DEF Init, SchedulerInit, EmptyMap, PlanBookkeeping, ResumableNotInFlight,
         PlanPlacesOnlyIdle, PlanRespectsDependencies
<1>2. TypeOK /\ PlanBookkeeping /\ [DrivenNext]_vars => PlanBookkeeping'
  BY DrivenStepIsStep, BookkeepingInductive
<1> QED
  BY <1>1, <1>2, ResumableInductive, DependenciesInductive, DrivenIsAnyUse, TypeCorrect,
     InFlightIsExclusive, PTL DEF DrivenSpec

-----------------------------------------------------------------------------
(***************************************************************************)
(* Capacity in execution.  plan reserves by planned times; apply_dispatch  *)
(* raises an actor's load without comparing it with the capacity.  The two *)
(* agree while execution is punctual: a task in flight has not reached its *)
(* planned end, so the reservation table knows of all of them, and what a  *)
(* dispatch starts is due at that very tick.                               *)
(***************************************************************************)

(* Two hypotheses on the input: a task of no duration skips the capacity   *)
(* check of plan, and a load an actor registers with is not checked at all.*)
PositiveDurations == \A p \in Processes : Duration[p] > 0
InitialLoadsFit == \A load \in InitialLoads, a \in Actors : load <= Capacity[a]

(* Tasks of the schedule in force that may still be dispatched from it. *)
Awaited ==
    {t \in DOMAIN latest_schedule :
        t \notin assigned_tasks \cup completed_tasks \cup unresumable_tasks}

(* What an actor is booked for at an instant to come. *)
RunningAt(a, i) == {t \in InFlightOn(a) : i < PlannedEnd(t)}
AwaitedAt(a, i) ==
    {t \in Awaited : /\ latest_schedule[t].actor = a
                     /\ latest_schedule[t].start <= i
                     /\ i < latest_schedule[t].start + DurationOf(t)}
Booked(a, i) == RunningAt(a, i) \cup AwaitedAt(a, i)

(* Nothing happened yet before start(). *)
NotBegun ==
    ~started => /\ ~planning /\ now = 0
                /\ assigned_tasks = {} /\ DOMAIN latest_schedule = {}

PlansInTheirTime == planning => plan_now = now

OnTime ==
    \A t \in assigned_tasks :
        /\ t \in DOMAIN task_planned_start_time
        /\ task_planned_start_time[t] <= now
        /\ now < PlannedEnd(t)

(* An awaited task that is overdue waits for a dependency, and at every    *)
(* instant to come at which one would run, its actor's bookings fit.       *)
Overdue(t) == latest_schedule[t].start < now

ScheduleFits ==
    ~planning /\ ~replan_requested =>
        \A t \in Awaited :
            /\ Overdue(t) => ~(DepsOf(t) \subseteq completed_tasks)
            /\ \A i \in Nat :
                  /\ now <= i
                  /\ latest_schedule[t].start <= i
                  /\ i < latest_schedule[t].start + DurationOf(t)
                  => external_load[latest_schedule[t].actor]
                       + TotalDemand(Booked(latest_schedule[t].actor, i))
                     <= Capacity[latest_schedule[t].actor]

(***************************************************************************)
(* The steps of the driver, without its own bookkeeping.  The tick that    *)
(* dispatches for a punctual driver comes at the present time, or at the   *)
(* next instant if nothing is left to do at the present one.               *)
(***************************************************************************)
Punctually(n) == n = now \/ (n = now + 1 /\ Quiet)

DriverMove ==
    \/ ~started /\ (Configure \/ Start)
    \/ \E n \in now..MaxTime : /\ punctual => Punctually(n)
                               /\ TickPlan(n) \/ TickDispatch(n)
    \/ PlanInternal
    \/ FinishPlanning
    \/ Flap
    \/ \E t \in assigned_tasks, resumable \in BOOLEAN : NotifyTaskFailed(t, resumable)
    \/ \E t \in assigned_tasks, at \in 0..MaxTime : NotifyTaskCompleted(t, at)
    \/ \E t \in Tasks : MarkTaskResumable(t)
    \/ \E ph \in PhaseIds : CompletePhase(ph)
    \/ TogglesMarker

(* A step of the driver is a move of the orchestrator, or none. *)
LEMMA DriverStepIsMove ==
    TypeOK /\ [DriverNext]_driverVars => [DriverMove]_vars /\ punctual' = punctual
<1> SUFFICES ASSUME TypeOK, DriverNext PROVE DriverMove /\ punctual' = punctual
  BY DEF driverVars
<1> USE DEF Others
<1>1. /\ now \in 0..MaxTime /\ MaxTime \in Nat
      /\ Phases \subseteq PhaseIds /\ Actors \subseteq ActorIds
  BY PhasesAssumption, BoundsAssumption DEF TypeOK, ActorIds
<1>2. CASE Setup
  BY <1>2 DEF Setup, DrivenSetup, DriverMove
<1>3. ASSUME NEW n \in {now, now + 1}, punctual => Punctually(n), Ticks(n)
      PROVE  DriverMove /\ punctual' = punctual
  <2>1. n \in now..MaxTime
    BY <1>1, <1>3 DEF Ticks
  <2> QED
    BY <1>3, <2>1 DEF Ticks, DriverMove
<1>4. CASE Plan
  BY <1>4 DEF Plan, DriverMove
<1>5. ASSUME NEW t \in Tasks, Completes(t) PROVE DriverMove /\ punctual' = punctual
  <2>1. PICK at \in {now, now + 1} : at <= MaxTime /\ NotifyTaskCompleted(t, at)
    BY <1>5 DEF Completes
  <2>2. at \in 0..MaxTime
    BY <1>1, <2>1
  <2> QED
    BY <1>5, <2>1, <2>2 DEF DriverMove, Completes
<1>6. CASE \E t \in Tasks, resumable \in BOOLEAN : Fails(t, resumable)
  BY <1>6 DEF Fails, DriverMove
<1>7. CASE \E t \in Tasks : Resumes(t)
  BY <1>7 DEF Resumes, DriverMove
<1>8. CASE \E ph \in Phases : EndsPhase(ph)
  BY <1>1, <1>8 DEF EndsPhase, DriverMove
<1>9. CASE TogglesMarker
  BY <1>9 DEF TogglesMarker, DriverMove
<1>10. CASE \E a \in Actors : ActorLeaves(a) \/ ActorReturns(a)
  BY <1>1, <1>10 DEF ActorLeaves, ActorReturns, DriverMove, Flap
<1> QED
  BY <1>2, <1>3, <1>4, <1>5, <1>6, <1>7, <1>8, <1>9, <1>10
     DEF DriverNext, TickAgain, TickLater, Punctually

(* A move reloads no workflow and replaces no actor; the toggle of the     *)
(* marker only requests a replan.                                          *)
LEMMA DriverMoveIsCalm ==
    TypeOK /\ [DriverMove]_vars => [CalmNext]_vars \/ TogglesMarker
<1>1. TypeOK => assigned_tasks \subseteq Tasks
  BY DEF TypeOK
<1> QED
  BY <1>1 DEF DriverMove, CalmNext, Execute, AnyFeedback

(* What holds of any caller that sets up once, and of its loads. *)
Sound ==
    /\ TypeOK /\ InFlightExclusive /\ OwnersRegistered /\ LoadAccounting
    /\ PlanBookkeeping /\ PlanWithinCapacity

LEMMA SoundInductive == Sound /\ [DriverMove]_vars => Sound'
<1> SUFFICES ASSUME Sound, [DriverMove]_vars PROVE Sound'
  OBVIOUS
<1>1. CASE [CalmNext]_vars
  <2>1. [Next]_vars
    BY <1>1 DEF CalmNext, Next
  <2> QED
    BY <1>1, <2>1, NextTypeOK, ExclusiveInductive, OwnersRegisteredInductive,
       LoadAccountingInductive, BookkeepingInductive, CapacityInductive DEF Sound
<1>2. CASE TogglesMarker
  <2> USE <1>2 DEF TogglesMarker, stateVars, registryVars, settingVars, planVars
  <2>1. TypeOK'
    BY DEF Sound, TypeOK, IsMap
  <2>2. InFlightExclusive' /\ OwnersRegistered' /\ PlanBookkeeping'
    BY DEF Sound, InFlightExclusive, OwnersRegistered, PlanBookkeeping
  <2>3. LoadAccounting'
    BY DEF Sound, LoadAccounting, InFlightOn
  <2>4. PlanWithinCapacity'
    BY DemandStays DEF Sound, PlanStays, PlanWithinCapacity, ResultEnd
  <2> QED
    BY <2>1, <2>2, <2>3, <2>4 DEF Sound
<1> QED
  BY <1>1, <1>2, DriverMoveIsCalm DEF Sound

(* Before start() nothing is planned, and a plan is made for the last tick. *)
LEMMA TimesInductive ==
    NotBegun /\ PlansInTheirTime /\ [DriverMove]_vars => NotBegun' /\ PlansInTheirTime'
<1> SUFFICES ASSUME NotBegun, PlansInTheirTime, [DriverMove]_vars
             PROVE  NotBegun' /\ PlansInTheirTime'
  OBVIOUS
<1> USE DEF NotBegun, PlansInTheirTime, stateVars, planVars, orchestratorVars
<1>1. CASE TogglesMarker
  BY <1>1 DEF TogglesMarker
<1>2. CASE ~started /\ Start
  BY <1>2 DEF Start, BeginPlan
<1>3. ASSUME NEW n \in now..MaxTime, TickPlan(n) PROVE NotBegun' /\ PlansInTheirTime'
  BY <1>3 DEF TickPlan, BeginPlan, TickPlans
<1>4. ASSUME NEW n \in now..MaxTime, TickDispatch(n) PROVE NotBegun' /\ PlansInTheirTime'
  BY <1>4 DEF TickDispatch
<1>5. CASE PlanInternal
  BY <1>5 DEF PlanInternal, PlanStep, CollectReadyTasks, DropTask, AssignTask
<1>6. CASE FinishPlanning
  BY <1>6 DEF FinishPlanning, EndPlan, PlanDone
<1>7. ASSUME NEW t \in assigned_tasks,
             (\E b \in BOOLEAN : NotifyTaskFailed(t, b))
               \/ (\E at \in 0..MaxTime : NotifyTaskCompleted(t, at))
      PROVE  NotBegun' /\ PlansInTheirTime'
  BY <1>7 DEF NotifyTaskFailed, NotifyTaskCompleted
<1>8. CASE UNCHANGED <<started, planning, plan_now, now, assigned_tasks, latest_schedule>>
  BY <1>8
<1> QED
  BY <1>1, <1>2, <1>3, <1>4, <1>5, <1>6, <1>7, <1>8
     DEF DriverMove, Configure, Flap, RegisterActor, MarkTaskResumable,
         SetSchedulingStrategy, SetActorRankingProfile, SetActorUnavailable,
         CompletePhase, vars

-----------------------------------------------------------------------------
(***************************************************************************)
(* Bookings.                                                               *)
(***************************************************************************)

(* More tasks demand no less. *)
LEMMA DemandMonotone ==
    ASSUME NEW S \in SUBSET Tasks, NEW R \in SUBSET S
    PROVE  TotalDemand(R) <= TotalDemand(S)
<1>1. S = R \cup (S \ R)
  OBVIOUS
<1>2. TotalDemand(R \cup (S \ R)) = TotalDemand(R) + TotalDemand(S \ R)
  BY DemandOfUnion
<1>3. TotalDemand(R) \in Nat /\ TotalDemand(S \ R) \in Nat
  BY SlotsFinite
<1>4. TotalDemand(S) = TotalDemand(R) + TotalDemand(S \ R)
  BY <1>1, <1>2, Zenon
<1> QED
  BY <1>3, <1>4

(* Bookings are made of tasks. *)
LEMMA BookedTasks ==
    ASSUME TypeOK, NEW a, NEW i
    PROVE  Booked(a, i) \in SUBSET Tasks /\ InFlightOn(a) \in SUBSET Tasks
BY DEF TypeOK, IsMap, Booked, RunningAt, AwaitedAt, Awaited, InFlightOn

(* Fewer bookings on fewer awaited tasks keep the schedule fitting. *)
LEMMA FewerBookingsFit ==
    ASSUME TypeOK, TypeOK', ScheduleFits, ~planning, ~replan_requested,
           UNCHANGED <<latest_schedule, external_load>>, now <= now',
           Awaited' \subseteq Awaited,
           \A t \in Awaited' : Overdue(t)' => ~(DepsOf(t) \subseteq completed_tasks'),
           \A a \in Actors : \A i \in Nat : now' <= i => Booked(a, i)' \subseteq Booked(a, i)
    PROVE  ScheduleFits'
<1> SUFFICES ASSUME NEW t \in Awaited', NEW a, a = latest_schedule[t].actor,
                    NEW i \in Nat, now' <= i, latest_schedule[t].start <= i,
                    i < latest_schedule[t].start + DurationOf(t)
             PROVE  external_load[a] + TotalDemand(Booked(a, i)') <= Capacity[a]
  BY DEF ScheduleFits
<1>1. t \in Awaited /\ now <= i
  BY DEF TypeOK
<1>2. a \in Actors
  BY <1>1 DEF Awaited, TypeOK, IsMap, Assignments
<1>3. external_load[a] + TotalDemand(Booked(a, i)) <= Capacity[a]
  BY <1>1 DEF ScheduleFits
<1>4. Booked(a, i)' \in SUBSET Booked(a, i) /\ Booked(a, i) \in SUBSET Tasks
  BY <1>2, BookedTasks
<1>5. TotalDemand(Booked(a, i)') <= TotalDemand(Booked(a, i))
  BY <1>4, DemandMonotone
<1>6. TotalDemand(Booked(a, i)') \in Nat /\ TotalDemand(Booked(a, i)) \in Nat
  <2>1. Booked(a, i)' \in SUBSET Tasks
    BY <1>4
  <2> QED BY <1>4, <2>1, SlotsFinite
<1>7. external_load[a] \in Nat /\ Capacity[a] \in Nat
  BY <1>2, ActorsAssumption DEF TypeOK
<1> QED
  BY <1>3, <1>5, <1>6, <1>7

(* A punctual driver's tasks are dispatched by the tick of their start. *)
LEMMA DispatchedWhenDue ==
    ASSUME TypeOK, ScheduleFits, ~planning, ~replan_requested,
           NEW n \in Nat, Punctually(n), NEW t \in Dispatchable(n)
    PROVE  t \in Awaited /\ latest_schedule[t].start = n
<1>1. /\ t \in Awaited
      /\ DepsOf(t) \subseteq completed_tasks
      /\ latest_schedule[t].start <= n
  BY DEF Dispatchable, Awaited
<1>2. latest_schedule[t].start \in Nat /\ now \in Nat
  BY <1>1 DEF Awaited, TypeOK, IsMap, Assignments, Time
<1>3. CASE n = now
  <2>1. ~(latest_schedule[t].start < now)
    BY <1>1 DEF ScheduleFits, Overdue
  <2> QED
    BY <1>1, <1>2, <1>3, <2>1
<1>4. CASE n = now + 1 /\ Quiet
  <2>1. t \notin Dispatchable(now)
    BY <1>4 DEF Quiet
  <2>2. ~(latest_schedule[t].start <= now)
    BY <2>1 DEF Dispatchable
  <2> QED
    BY <1>1, <1>2, <1>4, <2>2
<1> QED
  BY <1>1, <1>3, <1>4 DEF Punctually

-----------------------------------------------------------------------------
(* plan starts nothing before the time it plans at. *)
PlanStartsNow == \A t \in DOMAIN result : plan_now <= result[t].start

LEMMA StartsNowInductive ==
    TypeOK /\ PlanBookkeeping /\ PlanStartsNow /\ [DriverMove]_vars => PlanStartsNow'
<1> SUFFICES ASSUME TypeOK, PlanBookkeeping, PlanStartsNow, [DriverMove]_vars
             PROVE  PlanStartsNow'
  OBVIOUS
<1> USE DEF PlanStartsNow
<1>1. CASE UNCHANGED <<plan_now, result>>
  BY <1>1
<1>2. CASE DOMAIN result' = {}
  BY <1>2
<1>3. ASSUME NEW t \in ready, NEW c \in Candidates(t), AssignTask(t, c)
      PROVE  PlanStartsNow'
  <2>1. t \in Tasks
    BY DEF TypeOK
  <2>2. plan_now <= c.start
    BY <2>1, CandidateFits DEF ReleaseBounds
  <2> QED
    BY <1>3, <2>2 DEF AssignTask, Put
<1>4. CASE PlanInternal
  BY <1>1, <1>3, <1>4 DEF PlanInternal, PlanStep, CollectReadyTasks, DropTask
<1>5. CASE Start \/ (\E n \in now..MaxTime : TickPlan(n)) \/ FinishPlanning
  BY <1>2, <1>5 DEF Start, TickPlan, FinishPlanning, BeginPlan, EndPlan, EmptyMap
<1> QED
  BY <1>1, <1>4, <1>5
     DEF DriverMove, Configure, Flap, RegisterActor, MarkTaskResumable,
         SetSchedulingStrategy, SetActorRankingProfile, SetActorUnavailable,
         CompletePhase, TickDispatch, NotifyTaskFailed, NotifyTaskCompleted,
         TogglesMarker, vars, planVars

(* Tasks that leave, at the same time, leave the others on time. *)
LEMMA FewerOnTime ==
    ASSUME OnTime, assigned_tasks' \subseteq assigned_tasks,
           UNCHANGED <<task_planned_start_time, now>>
    PROVE  OnTime'
BY DEF OnTime, PlannedEnd, PlannedStart

(* A punctual tick comes before the planned end of every task in flight. *)
LEMMA OnTimeInductive ==
    ASSUME PositiveDurations, Sound, NotBegun, OnTime, ScheduleFits, punctual,
           [DriverMove]_vars
    PROVE  OnTime'
<1> USE DEF Sound
<1>1. CASE /\ assigned_tasks' \subseteq assigned_tasks
           /\ UNCHANGED <<task_planned_start_time, now>>
  BY <1>1, FewerOnTime
<1>2. ASSUME NEW n \in now..MaxTime, Punctually(n), UNCHANGED task_planned_start_time,
             NEW t \in assigned_tasks, now' = n
      PROVE  /\ t \in DOMAIN task_planned_start_time
             /\ task_planned_start_time[t] <= now'
             /\ now' < task_planned_start_time[t] + DurationOf(t)
  <2>1. /\ t \in DOMAIN task_planned_start_time
        /\ task_planned_start_time[t] <= now
        /\ now < task_planned_start_time[t] + DurationOf(t)
    BY DEF OnTime, PlannedEnd, PlannedStart
  <2>2. /\ task_planned_start_time[t] \in Nat /\ now \in Nat
        /\ DurationOf(t) \in Nat
    BY <2>1, TaskAttributes DEF TypeOK, IsMap, Time
  <2>3. Quiet => now + 1 < task_planned_start_time[t] + DurationOf(t)
    BY <2>1 DEF Quiet, PlannedEnd, PlannedStart
  <2> QED
    BY <1>2, <2>1, <2>2, <2>3 DEF Punctually
<1>3. ASSUME NEW n \in now..MaxTime, Punctually(n), TickPlan(n)
      PROVE  OnTime'
  <2>1. now' = n /\ UNCHANGED <<task_planned_start_time, assigned_tasks>>
    BY <1>3 DEF TickPlan, stateVars
  <2> QED
    BY <1>2, <1>3, <2>1 DEF OnTime, PlannedEnd, PlannedStart
<1>4. ASSUME NEW n \in now..MaxTime, Punctually(n), TickDispatch(n)
      PROVE  OnTime'
  <2>1. /\ now' = n /\ n \in Nat
        /\ ~planning /\ ~replan_requested
        /\ assigned_tasks' = assigned_tasks \cup Dispatchable(n)
        /\ task_planned_start_time' =
             [t \in DOMAIN task_planned_start_time \cup Dispatchable(n) |->
                IF t \in Dispatchable(n) THEN latest_schedule[t].start
                ELSE task_planned_start_time[t]]
    BY <1>4 DEF TickDispatch, ApplyDispatch, TypeOK
  <2> SUFFICES ASSUME NEW t \in assigned_tasks'
               PROVE  /\ t \in DOMAIN task_planned_start_time'
                      /\ task_planned_start_time'[t] <= now'
                      /\ now' < task_planned_start_time'[t] + DurationOf(t)
    BY DEF OnTime, PlannedEnd, PlannedStart
  <2>2. CASE t \in Dispatchable(n)
    <3>1. latest_schedule[t].start = n /\ t \in Awaited
      BY <1>4, <2>1, <2>2, DispatchedWhenDue
    <3>2. DurationOf(t) \in Nat /\ DurationOf(t) > 0
      <4>1. t \in Tasks
        BY <3>1 DEF Awaited, TypeOK, IsMap
      <4> QED
        BY <4>1, TaskAttributes DEF PositiveDurations, DurationOf
    <3> QED
      BY <2>1, <2>2, <3>1, <3>2
  <2>3. CASE t \notin Dispatchable(n)
    <3>1. t \in assigned_tasks
      BY <2>1, <2>3
    <3>2. /\ t \in DOMAIN task_planned_start_time
          /\ task_planned_start_time[t] <= now
          /\ now < task_planned_start_time[t] + DurationOf(t)
      BY <3>1 DEF OnTime, PlannedEnd, PlannedStart
    <3>3. /\ task_planned_start_time[t] \in Nat /\ now \in Nat
          /\ DurationOf(t) \in Nat
      BY <3>1, <3>2, TaskAttributes DEF TypeOK, IsMap, Time
    <3>4. Quiet => now + 1 < task_planned_start_time[t] + DurationOf(t)
      BY <3>1, <3>2 DEF Quiet, PlannedEnd, PlannedStart
    <3> QED
      BY <1>4, <2>1, <2>3, <3>2, <3>3, <3>4 DEF Punctually
  <2> QED
    BY <2>2, <2>3
<1>5. CASE ~started /\ Start
  BY <1>1, <1>5 DEF Start, stateVars
<1>6. CASE PlanInternal \/ FinishPlanning
  BY <1>1, <1>6 DEF PlanInternal, FinishPlanning, stateVars
<1>7. CASE \/ \E t \in assigned_tasks, b \in BOOLEAN : NotifyTaskFailed(t, b)
           \/ \E t \in assigned_tasks, at \in 0..MaxTime : NotifyTaskCompleted(t, at)
  BY <1>1, <1>7 DEF NotifyTaskFailed, NotifyTaskCompleted
<1> QED
  BY <1>1, <1>3, <1>4, <1>5, <1>6, <1>7
     DEF DriverMove, Configure, Flap, RegisterActor, MarkTaskResumable,
         SetSchedulingStrategy, SetActorRankingProfile, SetActorUnavailable,
         CompletePhase, TogglesMarker, vars, stateVars

(***************************************************************************)
(* The schedule plan hands over fits: what it reserved at its instants is  *)
(* what the driver will see, because every task in flight is on time.      *)
(***************************************************************************)
LEMMA HeldIsRunning ==
    ASSUME TypeOK, InFlightExclusive, OnTime, NEW a, NEW i \in Nat, now <= i
    PROVE  /\ HeldAt(a, i) = RunningAt(a, i)
           /\ i = now => HeldAt(a, i) = InFlightOn(a)
<1>1. now \in Nat
  BY DEF TypeOK
<1>2. ASSUME NEW t \in assigned_tasks
      PROVE  PlannedStart(t) <= i /\ now < PlannedEnd(t)
  <2>1. /\ t \in DOMAIN task_planned_start_time
        /\ task_planned_start_time[t] <= now
        /\ now < PlannedEnd(t)
    BY DEF OnTime
  <2>2. task_planned_start_time[t] \in Nat
    BY <2>1 DEF TypeOK, IsMap, Time
  <2> QED
    BY <1>1, <2>1, <2>2 DEF PlannedStart
<1>3. HeldAt(a, i) = RunningAt(a, i)
  BY <1>2 DEF HeldAt, RunningAt, InFlightOn, InFlightExclusive
<1>4. i = now => HeldAt(a, i) = InFlightOn(a)
  BY <1>2 DEF HeldAt, InFlightOn, InFlightExclusive
<1> QED
  BY <1>3, <1>4

(* The load plan cannot explain is the load the actor registered with. *)
LEMMA OpaqueIsExternal ==
    ASSUME Sound, OnTime, plan_now = now, NEW a \in registered
    PROVE  OpaqueDemand(a) = external_load[a]
<1> USE DEF Sound
<1>1. HeldAt(a, plan_now) = InFlightOn(a)
  <2>1. now \in Nat
    BY DEF TypeOK
  <2> QED
    BY <2>1, HeldIsRunning
<1>2. BaselineLoad(a) = external_load[a] + TotalDemand(InFlightOn(a))
  BY DEF BaselineLoad, LoadAccounting
<1>3. external_load[a] \in Nat
  BY DEF TypeOK
<1>4. TotalDemand(InFlightOn(a)) \in Nat
  <2>1. InFlightOn(a) \in SUBSET Tasks
    BY BookedTasks
  <2> QED BY <2>1, SlotsFinite
<1> QED
  BY <1>1, <1>2, <1>3, <1>4 DEF OpaqueDemand, Largest

LEMMA FinishedPlanFits ==
    ASSUME Sound, Sound', PlanStartsNow, OnTime, plan_now = now, FinishPlanning
    PROVE  ScheduleFits'
<1> USE DEF Sound
<1>1. /\ latest_schedule' = result
      /\ UNCHANGED <<now, external_load, assigned_tasks, completed_tasks,
                     unresumable_tasks, task_actor, task_planned_start_time>>
  BY DEF FinishPlanning, stateVars
<1> SUFFICES ASSUME NEW t \in Awaited', NEW a, a = result[t].actor
             PROVE  /\ Overdue(t)' => ~(DepsOf(t) \subseteq completed_tasks')
                    /\ \A i \in Nat :
                          /\ now <= i
                          /\ result[t].start <= i
                          /\ i < result[t].start + DurationOf(t)
                          => external_load[a] + TotalDemand(Booked(a, i)') <= Capacity[a]
  BY <1>1 DEF ScheduleFits
<1>2. t \in DOMAIN result
  BY <1>1 DEF Awaited
<1>3. /\ t \in Tasks
      /\ result[t].actor \in registered
      /\ result[t].actor \in Actors
      /\ result[t].start \in Nat
      /\ ResultEnd(t) = result[t].start + DurationOf(t)
      /\ now \in Nat
      /\ DurationOf(t) \in Nat
  BY <1>2, ResultTimes, TaskAttributes DEF OwnersRegistered, TypeOK
<1>4. ~(result[t].start < now)
  BY <1>2, <1>3 DEF PlanStartsNow
<1>5. ASSUME NEW i \in Nat, now <= i, result[t].start <= i,
             i < result[t].start + DurationOf(t)
      PROVE  external_load[a] + TotalDemand(Booked(a, i)') <= Capacity[a]
  <2>1. a \in registered
    BY <1>3
  <2>2. i \in result[t].start..(ResultEnd(t) - 1)
    BY <1>3, <1>5
  <2>3. ConcurrentDemandAt(a, i) <= Capacity[a]
    BY <1>2, <2>2 DEF PlanWithinCapacity
  <2>4. ConcurrentDemandAt(a, i)
          = TotalDemand(HeldAt(a, i)) + TotalDemand(PlannedAt(a, i)) + external_load[a]
    BY <1>5, <2>1, OpaqueIsExternal DEF ConcurrentDemandAt
  <2>5. HeldAt(a, i) = RunningAt(a, i)
    BY <1>5, HeldIsRunning
  <2>6. RunningAt(a, i)' = RunningAt(a, i)
    <3>1. ASSUME NEW u \in DOMAIN task_actor PROVE PlannedEnd(u)' = PlannedEnd(u)
      BY <1>1 DEF OnTime, InFlightExclusive, PlannedEnd, PlannedStart
    <3> QED
      BY <1>1, <3>1 DEF RunningAt, InFlightOn
  <2>7. /\ AwaitedAt(a, i)' \in SUBSET PlannedAt(a, i)
        /\ RunningAt(a, i) \cap AwaitedAt(a, i)' = {}
    BY <1>1 DEF AwaitedAt, PlannedAt, ResultEnd, Awaited, RunningAt, InFlightOn,
                InFlightExclusive
  <2>8. a \in Actors
    BY <2>1 DEF TypeOK
  <2>9. /\ RunningAt(a, i) \in SUBSET Tasks
        /\ PlannedAt(a, i) \in SUBSET Tasks
        /\ AwaitedAt(a, i)' \in SUBSET Tasks
    BY <2>5, <2>7, <2>8, DemandAtType
  <2>10. Booked(a, i)' = RunningAt(a, i) \cup AwaitedAt(a, i)'
    BY <2>6 DEF Booked
  <2>11. TotalDemand(Booked(a, i)')
           = TotalDemand(RunningAt(a, i)) + TotalDemand(AwaitedAt(a, i)')
    BY <2>7, <2>9, <2>10, DemandOfUnion
  <2>12. TotalDemand(AwaitedAt(a, i)') <= TotalDemand(PlannedAt(a, i))
    BY <2>7, <2>9, DemandMonotone
  <2>13. /\ TotalDemand(RunningAt(a, i)) \in Nat
         /\ TotalDemand(PlannedAt(a, i)) \in Nat
         /\ TotalDemand(AwaitedAt(a, i)') \in Nat
    BY <2>9, SlotsFinite
  <2>14. external_load[a] \in Nat /\ Capacity[a] \in Nat
    BY <2>8, ActorsAssumption DEF TypeOK
  <2> QED
    BY <2>3, <2>4, <2>5, <2>11, <2>12, <2>13, <2>14
<1> QED
  BY <1>1, <1>4, <1>5 DEF Overdue

(* A dispatched task goes on to occupy its actor as it was booked to. *)
LEMMA DispatchKeepsBookings ==
    ASSUME TypeOK, InFlightExclusive, OnTime, NEW n \in Nat, now' = n, ApplyDispatch(n),
           UNCHANGED latest_schedule, NEW a, NEW i \in Nat, now' <= i
    PROVE  Booked(a, i)' \subseteq Booked(a, i)
<1> DEFINE D == Dispatchable(n)
<1>1. /\ assigned_tasks' = assigned_tasks \cup D
      /\ task_actor' = [t \in DOMAIN task_actor \cup D |->
                          IF t \in D THEN latest_schedule[t].actor ELSE task_actor[t]]
      /\ task_planned_start_time' =
           [t \in DOMAIN task_planned_start_time \cup D |->
              IF t \in D THEN latest_schedule[t].start ELSE task_planned_start_time[t]]
      /\ UNCHANGED <<completed_tasks, unresumable_tasks>>
  BY DEF ApplyDispatch
<1>2. D \subseteq Awaited /\ \A t \in D : latest_schedule[t].start <= n
  BY DEF Dispatchable, Awaited
<1>3. AwaitedAt(a, i)' \subseteq AwaitedAt(a, i)
  BY <1>1 DEF AwaitedAt, Awaited
<1>4. ASSUME NEW t \in RunningAt(a, i)', t \in D PROVE t \in AwaitedAt(a, i)
  <2>1. PlannedEnd(t)' = latest_schedule[t].start + DurationOf(t)
    BY <1>1, <1>4 DEF PlannedEnd, PlannedStart
  <2>2. latest_schedule[t].start \in Nat
    BY <1>2, <1>4 DEF Awaited, TypeOK, IsMap, Assignments, Time
  <2> HIDE DEF D
  <2>3. t \in Awaited /\ latest_schedule[t].actor = a
    BY <1>1, <1>2, <1>4 DEF RunningAt, InFlightOn
  <2>4. latest_schedule[t].start <= n /\ n <= i
    BY <1>2, <1>4
  <2>5. i < latest_schedule[t].start + DurationOf(t)
    BY <2>1, <1>4 DEF RunningAt
  <2> QED
    BY <2>2, <2>3, <2>4, <2>5 DEF AwaitedAt
<1>5. ASSUME NEW t \in RunningAt(a, i)', t \notin D PROVE t \in RunningAt(a, i)
  <2> HIDE DEF D
  <2>1. t \in DOMAIN task_actor /\ task_actor[t] = a
    BY <1>1, <1>5 DEF RunningAt, InFlightOn
  <2>2. t \in DOMAIN task_planned_start_time
    BY <2>1 DEF OnTime, InFlightExclusive
  <2>3. PlannedEnd(t)' = PlannedEnd(t)
    BY <1>1, <1>5, <2>2 DEF PlannedEnd, PlannedStart
  <2> QED
    BY <1>5, <2>1, <2>3 DEF RunningAt, InFlightOn
<1> QED
  BY <1>3, <1>4, <1>5 DEF Booked

LEMMA DispatchKeepsFit ==
    ASSUME Sound, Sound', OnTime, ScheduleFits,
           NEW n \in now..MaxTime, TickDispatch(n)
    PROVE  ScheduleFits'
<1> USE DEF Sound
<1>1. /\ now' = n /\ n \in Nat /\ now \in Nat /\ now <= n
      /\ ~planning /\ ~replan_requested /\ ApplyDispatch(n)
      /\ UNCHANGED <<latest_schedule, external_load>>
  BY BoundsAssumption DEF TickDispatch, TypeOK
<1>2. /\ assigned_tasks' = assigned_tasks \cup Dispatchable(n)
      /\ UNCHANGED <<completed_tasks, unresumable_tasks>>
  BY <1>1 DEF ApplyDispatch
<1>3. Awaited' \subseteq Awaited /\ Awaited' \cap Dispatchable(n) = {}
  BY <1>1, <1>2 DEF Awaited
<1>4. ASSUME NEW t \in Awaited', Overdue(t)'
      PROVE  ~(DepsOf(t) \subseteq completed_tasks')
  <2>1. latest_schedule[t].start <= n
    <3>1. latest_schedule[t].start \in Nat
      BY <1>3 DEF Awaited, TypeOK, IsMap, Assignments, Time
    <3> QED BY <1>1, <1>4, <3>1 DEF Overdue
  <2> QED
    BY <1>2, <1>3, <2>1 DEF Dispatchable, Awaited
<1>5. \A a \in Actors : \A i \in Nat : now' <= i => Booked(a, i)' \subseteq Booked(a, i)
  BY <1>1, DispatchKeepsBookings
<1> QED
  BY <1>1, <1>3, <1>4, <1>5, FewerBookingsFit

(* A task that fails for good only frees its actor. *)
LEMMA FailureKeepsFit ==
    ASSUME Sound, Sound', ScheduleFits, NEW t \in assigned_tasks,
           NotifyTaskFailed(t, FALSE)
    PROVE  ScheduleFits'
<1> USE DEF Sound
<1>1. /\ assigned_tasks' = assigned_tasks \ {t}
      /\ completed_tasks' = completed_tasks
      /\ unresumable_tasks' = unresumable_tasks \cup {t}
      /\ task_actor' = Erase(task_actor, t)
      /\ ~planning
      /\ UNCHANGED <<replan_requested, latest_schedule, external_load, now, plan_now,
                     task_planned_start_time>>
  BY DEF NotifyTaskFailed, ReleaseOwner, InFlightExclusive, planVars
<1>2. Awaited' \subseteq Awaited
  BY <1>1 DEF Awaited
<1>3. \A a, i : Booked(a, i)' \subseteq Booked(a, i)
  BY <1>1, <1>2 DEF Booked, RunningAt, AwaitedAt, InFlightOn, Erase, PlannedEnd, PlannedStart
<1>4. now <= now'
  BY <1>1 DEF TypeOK
<1>5. CASE replan_requested
  BY <1>1, <1>5 DEF ScheduleFits
<1>6. CASE ~replan_requested
  <2>1. \A u \in Awaited' : Overdue(u)' => ~(DepsOf(u) \subseteq completed_tasks')
    BY <1>1, <1>2, <1>6 DEF ScheduleFits, Overdue
  <2> QED
    BY <1>1, <1>2, <1>3, <1>4, <1>6, <2>1, FewerBookingsFit
<1> QED
  BY <1>5, <1>6

LEMMA ScheduleFitsInductive ==
    ASSUME Sound, Sound', NotBegun, PlansInTheirTime, PlanStartsNow, OnTime, ScheduleFits,
           [DriverMove]_vars
    PROVE  ScheduleFits'
<1> USE DEF stateVars, registryVars, planVars, orchestratorVars
<1>1. CASE planning' \/ replan_requested'
  BY <1>1 DEF ScheduleFits
<1>2. CASE ~started /\ Configure
  <2>1. DOMAIN latest_schedule' = {}
    BY <1>2 DEF NotBegun, Configure, RegisterActor, SetSchedulingStrategy,
                SetActorRankingProfile
  <2> QED
    BY <2>1 DEF ScheduleFits, Awaited
<1>3. CASE Start \/ (\E n \in now..MaxTime : TickPlan(n)) \/ PlanInternal
  BY <1>1, <1>3 DEF Start, TickPlan, BeginPlan, PlanInternal, PlanStep,
                    CollectReadyTasks, DropTask, AssignTask
<1>4. CASE FinishPlanning
  BY <1>4, FinishedPlanFits DEF PlansInTheirTime, FinishPlanning, EndPlan, PlanDone
<1>5. ASSUME NEW n \in now..MaxTime, TickDispatch(n) PROVE ScheduleFits'
  BY <1>5, DispatchKeepsFit
<1>6. ASSUME NEW t \in assigned_tasks, NEW b \in BOOLEAN, NotifyTaskFailed(t, b)
      PROVE  ScheduleFits'
  <2>1. CASE b
    BY <1>1, <1>6, <2>1 DEF NotifyTaskFailed
  <2>2. CASE ~b
    BY <1>6, <2>2, FailureKeepsFit
  <2> QED
    BY <2>1, <2>2
<1>7. CASE \/ \E t \in assigned_tasks, at \in 0..MaxTime : NotifyTaskCompleted(t, at)
           \/ \E t \in Tasks : MarkTaskResumable(t)
           \/ TogglesMarker \/ Flap
  BY <1>1, <1>7 DEF NotifyTaskCompleted, MarkTaskResumable, TogglesMarker, Flap,
                    SetActorUnavailable
<1>8. CASE UNCHANGED <<planning, plan_now, replan_requested, latest_schedule, now,
                       assigned_tasks, completed_tasks, unresumable_tasks, task_actor,
                       task_planned_start_time, external_load>>
  <2>1. Awaited' = Awaited
    BY <1>8 DEF Awaited
  <2>2. \A a, i : Booked(a, i)' = Booked(a, i)
    BY <1>8, <2>1 DEF Booked, RunningAt, AwaitedAt, InFlightOn, PlannedEnd, PlannedStart
  <2> QED
    BY <1>8, <2>1, <2>2 DEF ScheduleFits, Overdue
<1> QED
  BY <1>2, <1>3, <1>4, <1>5, <1>6, <1>7, <1>8 DEF DriverMove, CompletePhase, vars

-----------------------------------------------------------------------------
LoadsFit == \A a \in registered : current_load[a] <= Capacity[a]

(* What a dispatch leaves running was booked on its actor for that instant. *)
LEMMA DispatchFits ==
    ASSUME Sound, Sound', OnTime, OnTime', ScheduleFits, LoadsFit,
           NEW n \in now..MaxTime, Punctually(n), PositiveDurations, TickDispatch(n)
    PROVE  LoadsFit'
<1> USE DEF Sound
<1>1. /\ now' = n /\ n \in Nat /\ now \in Nat /\ now <= n
      /\ ~planning /\ ~replan_requested /\ ApplyDispatch(n)
      /\ UNCHANGED <<registered, latest_schedule, external_load>>
  BY BoundsAssumption DEF TickDispatch, TypeOK
<1> DEFINE D == Dispatchable(n)
<1>2. \A a \in Actors : current_load'[a] = IF a \in registered
                                           THEN current_load[a] + TotalDemand(Given(D, a))
                                           ELSE current_load[a]
  BY <1>1 DEF ApplyDispatch
<1> HIDE DEF D
<1> SUFFICES ASSUME NEW a \in registered PROVE current_load'[a] <= Capacity[a]
  BY <1>1 DEF LoadsFit
<1>3. a \in Actors
  BY DEF TypeOK
<1>4. CASE Given(D, a) = {}
  <2>1. TotalDemand(Given(D, a)) = 0
    BY <1>4, DemandOfEmpty
  <2>2. current_load[a] \in Nat /\ current_load[a] <= Capacity[a]
    BY <1>3 DEF TypeOK, LoadsFit
  <2> QED
    BY <1>2, <1>3, <2>1, <2>2
<1>5. ASSUME NEW t \in Given(D, a) PROVE current_load'[a] <= Capacity[a]
  <2>1. t \in Dispatchable(n) /\ latest_schedule[t].actor = a
    BY DEF Given, D
  <2>2. t \in Awaited /\ latest_schedule[t].start = n
    BY <1>1, <2>1, DispatchedWhenDue
  <2>3. DurationOf(t) \in Nat /\ DurationOf(t) > 0
    <3>1. t \in Tasks
      BY <2>2 DEF Awaited, TypeOK, IsMap
    <3> QED
      BY <3>1, TaskAttributes DEF PositiveDurations, DurationOf
  <2>4. external_load[a] + TotalDemand(Booked(a, n)) <= Capacity[a]
    BY <1>1, <2>1, <2>2, <2>3 DEF ScheduleFits
  <2>5. current_load'[a] = external_load[a] + TotalDemand(InFlightOn(a)')
    BY <1>1 DEF LoadAccounting
  <2>6. InFlightOn(a)' \in SUBSET Booked(a, n) /\ Booked(a, n) \in SUBSET Tasks
    <3>1. InFlightOn(a)' \subseteq RunningAt(a, n)'
      BY <1>1 DEF OnTime, InFlightExclusive, RunningAt, InFlightOn
    <3>2. Booked(a, n)' \subseteq Booked(a, n)
      BY <1>1, DispatchKeepsBookings
    <3>3. Booked(a, n) \in SUBSET Tasks
      BY BookedTasks
    <3> QED
      BY <3>1, <3>2, <3>3 DEF Booked
  <2>7. TotalDemand(InFlightOn(a)') <= TotalDemand(Booked(a, n))
    BY <2>6, DemandMonotone
  <2>8. TotalDemand(InFlightOn(a)') \in Nat /\ TotalDemand(Booked(a, n)) \in Nat
    <3>1. InFlightOn(a)' \in SUBSET Tasks
      BY <2>6
    <3> QED BY <2>6, <3>1, SlotsFinite
  <2>9. external_load[a] \in Nat /\ Capacity[a] \in Nat
    BY <1>3, ActorsAssumption DEF TypeOK
  <2> QED
    BY <2>4, <2>5, <2>7, <2>8, <2>9
<1> QED
  BY <1>4, <1>5

(* A task that ends takes load away. *)
LEMMA ReleaseFits ==
    ASSUME Sound, Sound', LoadsFit, NEW t, task_actor' = Erase(task_actor, t),
           UNCHANGED <<registered, external_load>>
    PROVE  LoadsFit'
<1> USE DEF Sound
<1> SUFFICES ASSUME NEW a \in registered PROVE current_load'[a] <= Capacity[a]
  BY DEF LoadsFit
<1>1. /\ current_load[a] = external_load[a] + TotalDemand(InFlightOn(a))
      /\ current_load'[a] = external_load[a] + TotalDemand(InFlightOn(a)')
      /\ current_load[a] <= Capacity[a]
  BY DEF LoadAccounting, LoadsFit
<1>2. InFlightOn(a)' \in SUBSET InFlightOn(a) /\ InFlightOn(a) \in SUBSET Tasks
  BY BookedTasks DEF InFlightOn, Erase
<1>3. TotalDemand(InFlightOn(a)') <= TotalDemand(InFlightOn(a))
  BY <1>2, DemandMonotone
<1>4. TotalDemand(InFlightOn(a)') \in Nat /\ TotalDemand(InFlightOn(a)) \in Nat
  <2>1. InFlightOn(a)' \in SUBSET Tasks
    BY <1>2
  <2> QED BY <1>2, <2>1, SlotsFinite
<1>5. external_load[a] \in Nat /\ Capacity[a] \in Nat
  <2>1. a \in Actors
    BY DEF TypeOK
  <2> QED BY <2>1, ActorsAssumption DEF TypeOK
<1> QED
  BY <1>1, <1>3, <1>4, <1>5

LEMMA LoadsFitInductive ==
    ASSUME PositiveDurations, InitialLoadsFit, Sound, Sound', OnTime, OnTime', ScheduleFits,
           LoadsFit, punctual, [DriverMove]_vars
    PROVE  LoadsFit'
<1> USE DEF stateVars, registryVars, planVars, orchestratorVars
<1>1. ASSUME NEW a \in Actors, NEW load \in InitialLoads, RegisterActor(a, load)
      PROVE  LoadsFit'
  <2>1. current_load \in [Actors -> Nat] /\ load <= Capacity[a]
    BY DEF Sound, TypeOK, InitialLoadsFit
  <2>2. registered \subseteq Actors
    BY DEF Sound, TypeOK
  <2> QED
    BY <1>1, <2>1, <2>2 DEF RegisterActor, LoadsFit
<1>2. ASSUME NEW n \in now..MaxTime, Punctually(n), TickDispatch(n) PROVE LoadsFit'
  BY <1>2, DispatchFits
<1>3. CASE \/ \E t \in assigned_tasks, b \in BOOLEAN : NotifyTaskFailed(t, b)
           \/ \E t \in assigned_tasks, at \in 0..MaxTime : NotifyTaskCompleted(t, at)
  BY <1>3, ReleaseFits DEF NotifyTaskFailed, NotifyTaskCompleted, ReleaseOwner
<1>4. CASE UNCHANGED <<registered, current_load>>
  BY <1>4 DEF LoadsFit
<1> QED
  BY <1>1, <1>2, <1>3, <1>4
     DEF DriverMove, Configure, Start, TickPlan, PlanInternal, FinishPlanning, Flap,
         SetSchedulingStrategy, SetActorRankingProfile, SetActorUnavailable,
         MarkTaskResumable, CompletePhase, TogglesMarker, vars

(* While execution keeps to the planned times, no registered actor is ever *)
(* loaded beyond its capacity, for every workflow, set of actors, strategy *)
(* and interleaving of the driver with plan, although apply_dispatch adds  *)
(* to current_load without a comparison: if no task has zero duration and  *)
(* no actor is registered with more load than it can take.                 *)
THEOREM PunctualLoadsFit ==
    ASSUME PositiveDurations, InitialLoadsFit
    PROVE  DriverSpec => []CapacityRespected
<1> DEFINE Bookings == /\ Sound /\ NotBegun /\ PlansInTheirTime /\ PlanStartsNow
                       /\ punctual => OnTime /\ ScheduleFits /\ LoadsFit
<1>1. DriverInit => Bookings
  <2> SUFFICES ASSUME Init PROVE Bookings
    BY DEF DriverInit
  <2>1. TypeOK
    BY InitTypeOK
  <2> QED
    BY <2>1 DEF Init, SchedulerInit, EmptyMap, Sound, InFlightExclusive, OwnersRegistered,
       LoadAccounting, PlanBookkeeping, PlanWithinCapacity, NotBegun, PlansInTheirTime,
       PlanStartsNow, OnTime, ScheduleFits, Awaited, LoadsFit
<1>2. Bookings /\ [DriverNext]_driverVars => Bookings'
  <2> SUFFICES ASSUME Bookings, [DriverMove]_vars, punctual' = punctual PROVE Bookings'
    BY DriverStepIsMove DEF Sound
  <2>1. Sound' /\ NotBegun' /\ PlansInTheirTime' /\ PlanStartsNow'
    BY SoundInductive, TimesInductive, StartsNowInductive DEF Sound
  <2>2. punctual => OnTime'
    BY OnTimeInductive
  <2>3. punctual => ScheduleFits' /\ LoadsFit'
    BY <2>1, <2>2, ScheduleFitsInductive, LoadsFitInductive
  <2> QED
    BY <2>1, <2>2, <2>3
<1>3. Bookings => CapacityRespected
  BY DEF CapacityRespected, LoadsFit
<1> QED
  BY <1>1, <1>2, <1>3, PTL DEF DriverSpec
=============================================================================
