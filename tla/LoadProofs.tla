----------------------------- MODULE LoadProofs -----------------------------
(***************************************************************************)
(* What survives any sequence of late, repeated and contradictory calls,   *)
(* as long as the workflow and the actors are set once (MCAnySpec, for     *)
(* every bound on the number of calls): the accounting of the actors'      *)
(* loads, and the order of phases.                                         *)
(***************************************************************************)
EXTENDS MCOrchestrator, OrchestratorProofs

-----------------------------------------------------------------------------
(***************************************************************************)
(* The counted specification takes steps of Next; unless it disturbs, they *)
(* reload no workflow and replace no actor.                                *)
(***************************************************************************)
LEMMA CountedStepIsStep ==
    [MCAnyNext]_mcVars => [Next]_vars /\ (disturbed => disturbed')
BY DEF MCAnyNext, Free, Counted, Disturbing, Next, mcVars

LEMMA UndisturbedStepIsCalm ==
    [MCAnyNext]_mcVars => disturbed' \/ [CalmNext]_vars
BY DEF MCAnyNext, Free, Counted, Disturbing, CalmNext, mcVars

LEMMA CountedIsAnyUse == MCAnySpec => Spec
BY CountedStepIsStep, PTL DEF MCAnySpec, MCInit, Spec

-----------------------------------------------------------------------------
(* Actor::current_load and WorkflowState::actor_load account exactly for   *)
(* the tasks in flight, whatever notifications arrive and however often.   *)
THEOREM LoadsAreAccountedFor == MCAnySpec => []LoadAccounts
<1>1. Init => OwnersRegistered /\ LoadAccounting
  <2> SUFFICES ASSUME Init PROVE OwnersRegistered /\ LoadAccounting
    OBVIOUS
  <2> QED
    BY DEF Init, SchedulerInit, EmptyMap, OwnersRegistered, LoadAccounting
<1>2. /\ TypeOK /\ InFlightExclusive /\ OwnersRegistered /\ LoadAccounts
      /\ [MCAnyNext]_mcVars
      => LoadAccounts'
  BY CountedStepIsStep, UndisturbedStepIsCalm, LoadAccountingInductive DEF LoadAccounts
<1>3. MCInit => OwnersRegistered /\ LoadAccounts
  BY <1>1 DEF MCInit, LoadAccounts
<1> QED
  BY <1>2, <1>3, OwnersRegisteredInductive, CountedStepIsStep, CountedIsAnyUse,
     TypeCorrect, InFlightIsExclusive, PTL DEF MCAnySpec

-----------------------------------------------------------------------------
(***************************************************************************)
(* Phases.  complete_phase may be called early, twice and for unknown ids, *)
(* and a schedule may be old when it is dispatched; but completed phases   *)
(* stay completed, so what waited for them when it was planned needs no    *)
(* second look.                                                            *)
(***************************************************************************)
PhaseReached(t) == PhaseDeps[PhaseOfTask(t)] \subseteq completed_phases

ScheduleReached ==
    \A t \in remaining \cup DOMAIN result \cup DOMAIN latest_schedule : PhaseReached(t)

LEMMA ReachedInductive ==
    TypeOK /\ PlanBookkeeping /\ ScheduleReached /\ [CalmNext]_vars => ScheduleReached'
<1> SUFFICES ASSUME TypeOK, PlanBookkeeping, ScheduleReached, [CalmNext]_vars
             PROVE  ScheduleReached'
  OBVIOUS
<1> USE DEF ScheduleReached, PhaseReached, stateVars, planVars, orchestratorVars
<1>1. CASE Start \/ \E n \in now..MaxTime : TickPlan(n)
  <2>1. PICK n : BeginPlan(n)
    BY <1>1 DEF Start, TickPlan
  <2>2. \A t \in PendingTasks : PhaseReached(t)
    BY DEF PendingTasks, ReadyPhases
  <2>3. remaining' \subseteq PendingTasks /\ DOMAIN result' = {}
    BY <2>1 DEF BeginPlan, EmptyMap
  <2>4. completed_phases' = completed_phases /\ latest_schedule' = latest_schedule
    BY <1>1 DEF Start, TickPlan
  <2> QED
    BY <2>2, <2>3, <2>4
<1>2. CASE PlanInternal
  <2>1. CASE CollectReadyTasks
    BY <1>2, <2>1 DEF PlanInternal, CollectReadyTasks
  <2>2. ASSUME NEW t \in ready, DropTask(t) PROVE ScheduleReached'
    BY <1>2, <2>2 DEF PlanInternal, DropTask
  <2>3. ASSUME NEW t \in ready, NEW c \in Candidates(t), AssignTask(t, c)
        PROVE  ScheduleReached'
    BY <1>2, <2>3 DEF PlanInternal, AssignTask, Put, PlanBookkeeping
  <2> QED
    BY <1>2, <2>1, <2>2, <2>3 DEF PlanInternal, PlanStep
<1>3. CASE FinishPlanning
  BY <1>3 DEF FinishPlanning, EndPlan, EmptyMap
<1>4. CASE \E n \in now..MaxTime : TickDispatch(n)
  BY <1>4 DEF TickDispatch, ApplyDispatch
<1>5. CASE \E ph \in PhaseIds : CompletePhase(ph)
  BY <1>5 DEF CompletePhase
<1>6. CASE UNCHANGED <<completed_phases, remaining, result, latest_schedule>>
  BY <1>6
<1> QED
  BY <1>1, <1>2, <1>3, <1>4, <1>5, <1>6
     DEF CalmNext, Configure, Execute, Flap, AnyFeedback, RegisterActor,
         SetSchedulingStrategy, SetActorRankingProfile, SetActorUnavailable,
         NotifyTaskFailed, NotifyTaskCompleted, MarkTaskResumable, vars

LEMMA DispatchIsReached ==
    ASSUME ScheduleReached, CalmNext, NEW t \in assigned_tasks' \ assigned_tasks
    PROVE  PhaseReached(t)
<1> USE DEF stateVars
<1>1. CASE \E n \in now..MaxTime : TickDispatch(n)
  BY <1>1 DEF TickDispatch, ApplyDispatch, Dispatchable, ScheduleReached
<1> QED
  BY <1>1
     DEF CalmNext, Configure, Execute, Flap, AnyFeedback, RegisterActor,
         SetSchedulingStrategy, SetActorRankingProfile, Start, TickPlan,
         PlanInternal, FinishPlanning, SetActorUnavailable, NotifyTaskFailed,
         NotifyTaskCompleted, MarkTaskResumable, CompletePhase

(* No task starts before the phases its phase depends on are complete, for *)
(* any order of calls, although apply_dispatch looks at no phase.          *)
THEOREM PhasesStartInOrder == MCAnySpec => DispatchesAfterPhases
<1> DEFINE I == disturbed \/ ScheduleReached
           A == disturbed' \/ \A t \in assigned_tasks' \ assigned_tasks :
                   PhaseDeps[PhaseOfTask(t)] \subseteq completed_phases
<1>1. MCInit => I /\ PlanBookkeeping
  BY DEF MCInit, Init, SchedulerInit, EmptyMap, ScheduleReached, PlanBookkeeping
<1>2. TypeOK /\ PlanBookkeeping /\ I /\ [MCAnyNext]_mcVars => I'
  BY CountedStepIsStep, UndisturbedStepIsCalm, ReachedInductive
<1>3. I /\ [MCAnyNext]_mcVars => [A]_mcVars
  <2> SUFFICES ASSUME I, MCAnyNext, ~disturbed',
                      NEW t \in assigned_tasks' \ assigned_tasks
               PROVE  PhaseDeps[PhaseOfTask(t)] \subseteq completed_phases
    BY DEF A
  <2>1. ~disturbed /\ [CalmNext]_vars
    BY CountedStepIsStep, UndisturbedStepIsCalm
  <2>2. CalmNext
    BY <2>1 DEF vars, stateVars
  <2> QED
    BY <2>1, <2>2, DispatchIsReached DEF PhaseReached
<1> HIDE DEF I, A
<1>4. MCAnySpec => [][A]_mcVars
  BY <1>1, <1>2, <1>3, BookkeepingInductive, CountedStepIsStep, CountedIsAnyUse,
     TypeCorrect, PTL DEF MCAnySpec
<1> QED
  BY <1>4 DEF DispatchesAfterPhases, A
=============================================================================
