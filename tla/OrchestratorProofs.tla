------------------------ MODULE OrchestratorProofs --------------------------
(***************************************************************************)
(* Theorems about Orchestrator, for every workflow and every set of        *)
(* actors.                                                                 *)
(***************************************************************************)
EXTENDS Orchestrator, TLAPS, FiniteSetTheorems

-----------------------------------------------------------------------------
(***************************************************************************)
(* Demand of sets of tasks.                                                *)
(***************************************************************************)

(* The attributes of a task have the types of its process. *)
LEMMA TaskAttributes ==
    ASSUME NEW t \in Tasks
    PROVE  /\ ProcessOf[t] \in Processes
           /\ DurationOf(t) \in Nat
           /\ DemandOf(t) \in Nat
           /\ DepsOf(t) \subseteq Tasks
           /\ MutexOf(t) \subseteq Tasks
           /\ PhaseOfTask(t) \in Phases
           /\ ReleaseTime[ProcessOf[t]] \in Nat
BY TasksAssumption, AttributesAssumption, PhasesAssumption
   DEF DurationOf, DemandOf, DepsOf, MutexOf, PhaseOfTask, Time

(* The slots of one task: finite, and as many as its demand. *)
LEMMA SlotsOfTask ==
    ASSUME NEW t \in Tasks
    PROVE  /\ IsFiniteSet({t} \X (1..DemandOf(t)))
           /\ Cardinality({t} \X (1..DemandOf(t))) = DemandOf(t)
<1>1. DemandOf(t) \in Nat
  BY TaskAttributes
<1>2. IsFiniteSet({t}) /\ Cardinality({t}) = 1
  BY FS_Singleton
<1>3. IsFiniteSet(1..DemandOf(t)) /\ Cardinality(1..DemandOf(t)) = DemandOf(t)
  BY <1>1, FS_Interval
<1> QED
  BY <1>1, <1>2, <1>3, FS_Product

(* Slots of a set of tasks are finitely many, so its demand is a number. *)
LEMMA SlotsFinite ==
    ASSUME NEW S \in SUBSET Tasks
    PROVE  IsFiniteSet(Slots(S)) /\ TotalDemand(S) \in Nat
<1> DEFINE R == {{t} \X (1..DemandOf(t)) : t \in S}
           f == [t \in S |-> {t} \X (1..DemandOf(t))]
<1>1. IsFiniteSet(S)
  BY TasksAssumption, FS_Subset
<1>2. f \in Surjection(S, R)
  BY DEF Surjection
<1>3. IsFiniteSet(R)
  <2> HIDE DEF f, R
  <2> QED BY <1>1, <1>2, FS_Surjection
<1>4. \A T \in R : IsFiniteSet(T)
  BY SlotsOfTask
<1>5. IsFiniteSet(UNION R)
  <2> HIDE DEF R
  <2> QED BY <1>3, <1>4, FS_UNION
<1> QED
  BY <1>5, FS_CardinalityType DEF Slots, TotalDemand

(* Demand adds up over disjoint sets of tasks. *)
LEMMA DemandOfUnion ==
    ASSUME NEW S \in SUBSET Tasks, NEW T \in SUBSET Tasks, S \cap T = {}
    PROVE  TotalDemand(S \cup T) = TotalDemand(S) + TotalDemand(T)
<1>1. Slots(S \cup T) = Slots(S) \cup Slots(T)
  BY DEF Slots
<1>2. Slots(S) \cap Slots(T) = {}
  <2> SUFFICES ASSUME NEW x \in Slots(S), x \in Slots(T) PROVE FALSE
    OBVIOUS
  <2>1. PICK s \in S : x \in {s} \X (1..DemandOf(s))
    BY DEF Slots
  <2>2. PICK t \in T : x \in {t} \X (1..DemandOf(t))
    BY DEF Slots
  <2> QED BY <2>1, <2>2
<1>3. IsFiniteSet(Slots(S)) /\ IsFiniteSet(Slots(T))
  BY SlotsFinite
<1>4. Cardinality(Slots(S)) \in Nat /\ Cardinality(Slots(T)) \in Nat
  BY <1>3, FS_CardinalityType
<1>5. Cardinality(Slots(S) \cup Slots(T)) =
        Cardinality(Slots(S)) + Cardinality(Slots(T)) - Cardinality(Slots(S) \cap Slots(T))
  BY <1>3, FS_Union
<1>6. Cardinality(Slots(S) \cap Slots(T)) = 0
  BY <1>2, FS_EmptySet
<1>7. TotalDemand(S \cup T) = Cardinality(Slots(S) \cup Slots(T))
  BY <1>1, Zenon DEF TotalDemand
<1> QED
  BY <1>4, <1>5, <1>6, <1>7 DEF TotalDemand

(* The demand of one task, and of a set a task is taken out of. *)
LEMMA DemandOfSingleton ==
    ASSUME NEW t \in Tasks
    PROVE  TotalDemand({t}) = DemandOf(t)
<1>1. Slots({t}) = {t} \X (1..DemandOf(t))
  BY DEF Slots
<1> QED
  BY <1>1, SlotsOfTask DEF TotalDemand

LEMMA DemandOfEmpty == TotalDemand({}) = 0
BY FS_EmptySet DEF TotalDemand, Slots

LEMMA DemandWithout ==
    ASSUME NEW S \in SUBSET Tasks, NEW t \in S
    PROVE  TotalDemand(S) = TotalDemand(S \ {t}) + DemandOf(t)
<1>1. S = (S \ {t}) \cup {t}
  OBVIOUS
<1>2. TotalDemand((S \ {t}) \cup {t}) = TotalDemand(S \ {t}) + TotalDemand({t})
  BY DemandOfUnion
<1> QED
  BY <1>1, <1>2, DemandOfSingleton

-----------------------------------------------------------------------------
(***************************************************************************)
(* Types of what plan computes.                                            *)
(***************************************************************************)
LEMMA PlannedTimes ==
    ASSUME TypeOK, NEW t \in Tasks
    PROVE  PlannedStart(t) \in Nat /\ PlannedEnd(t) \in Nat
<1>1. PlannedStart(t) \in Nat
  BY DEF TypeOK, IsMap, PlannedStart, Time
<1> QED
  BY <1>1, TaskAttributes DEF PlannedEnd

LEMMA ResultTimes ==
    ASSUME TypeOK, NEW t \in DOMAIN result
    PROVE  /\ t \in Tasks
           /\ result[t].actor \in Actors
           /\ result[t].start \in Nat
           /\ ResultEnd(t) \in Nat
           /\ ResultEnd(t) = result[t].start + DurationOf(t)
<1>1. t \in Tasks /\ result[t] \in Assignments
  BY DEF TypeOK, IsMap
<1> QED
  BY <1>1, TaskAttributes DEF Assignments, Time, ResultEnd

LEMMA CompletionTimes ==
    ASSUME TypeOK, NEW t \in Tasks
    PROVE  CompletionTime(t) \in Nat
<1>1. CASE t \in DOMAIN result
  BY <1>1, ResultTimes DEF CompletionTime
<1>2. CASE t \notin DOMAIN result /\ t \in assigned_tasks
  BY <1>2, PlannedTimes DEF CompletionTime
<1>3. CASE t \notin DOMAIN result \cup assigned_tasks
  <2>1. t \in DOMAIN task_actual_completion_time => task_actual_completion_time[t] \in Nat
    BY DEF TypeOK, IsMap, Time
  <2>2. plan_now \in Nat
    BY DEF TypeOK, Time
  <2> QED
    BY <1>3, <2>1, <2>2, PlannedTimes DEF CompletionTime
<1> QED
  BY <1>1, <1>2, <1>3

LEMMA ReleaseTimes ==
    ASSUME TypeOK, NEW t \in Tasks
    PROVE  ReleaseBounds(t) \subseteq Nat
<1>1. plan_now \in Nat
  BY DEF TypeOK, Time
<1>2. \A d \in DepsOf(t) : CompletionTime(d) \in Nat
  BY TaskAttributes, CompletionTimes
<1> QED
  BY <1>1, <1>2, TaskAttributes DEF ReleaseBounds

LEMMA FeasibleTimes ==
    ASSUME NEW a \in Actors, NEW t \in Tasks, NEW r \in Nat
    PROVE  FeasibleStarts(a, t, r) \subseteq Nat
<1>1. CASE DurationOf(t) = 0
  BY <1>1 DEF FeasibleStarts
<1>2. CASE DurationOf(t) # 0
  <2> SUFFICES ASSUME NEW w \in Windows[a],
                      NEW s \in Largest(w.start, r)..(w.end - DurationOf(t))
               PROVE  s \in Nat
    BY <1>2 DEF FeasibleStarts
  <2>1. w.start \in Nat /\ w.end \in Nat
    BY ActorsAssumption DEF Time
  <2> QED
    BY <2>1, TaskAttributes DEF Largest
<1> QED
  BY <1>1, <1>2

(* A candidate is an available, registered actor, with a feasible start no *)
(* earlier than every bound on the release.                                *)
LEMMA CandidateFacts ==
    ASSUME TypeOK, NEW t \in Tasks, NEW c \in Candidates(t)
    PROVE  /\ c \in Assignments
           /\ c.actor \in registered \ unavailable_actors
           /\ \E r \in Nat : /\ r \in Greatest(ReleaseBounds(t))
                             /\ c.start \in FeasibleStarts(c.actor, t, r)
<1>0. PICK a \in registered \ unavailable_actors :
         c \in {[actor |-> a, start |-> s] : s \in StartsOn(a, t)}
  BY DEF Candidates
<1>1. PICK s \in StartsOn(a, t) : c = [actor |-> a, start |-> s]
  BY <1>0
<1>2. a \in Actors
  BY DEF TypeOK
<1>3. PICK r \in Greatest(ReleaseBounds(t)) : s \in FeasibleStarts(a, t, r)
  BY DEF StartsOn, Least
<1>4. r \in Nat
  BY ReleaseTimes DEF Greatest
<1>5. s \in Nat
  BY <1>2, <1>3, <1>4, FeasibleTimes
<1> QED
  BY <1>1, <1>2, <1>3, <1>4, <1>5 DEF Assignments, Time

-----------------------------------------------------------------------------
(***************************************************************************)
(* Type correctness.                                                       *)
(***************************************************************************)
LEMMA TypeOfPut ==
    ASSUME NEW S, NEW T, NEW f, IsMap(f, S, T), NEW k \in S, NEW v \in T
    PROVE  IsMap(Put(f, k, v), S, T)
BY DEF IsMap, Put

LEMMA TypeOfErase ==
    ASSUME NEW S, NEW T, NEW f, IsMap(f, S, T), NEW k
    PROVE  IsMap(Erase(f, k), S, T)
BY DEF IsMap, Erase

LEMMA TypeOfEmpty ==
    ASSUME NEW S, NEW T
    PROVE  IsMap(EmptyMap, S, T)
BY DEF IsMap, EmptyMap

LEMMA TypeOfFire ==
    ASSUME NEW p \in [last_known : PlannerStates, msm : PlannerStates], NEW ev \in Events
    PROVE  Fire(p, ev) \in [last_known : PlannerStates, msm : PlannerStates]
<1>1. MsmStep(p.msm, ev) \in PlannerStates
  BY DEF MsmStep
<1>2. Recorded(ev, p.last_known) \in PlannerStates
  BY DEF Recorded, Events, PlannerStates
<1> QED
  BY <1>1, <1>2 DEF Fire

LEMMA InitTypeOK == Init => TypeOK
<1> SUFFICES ASSUME Init PROVE TypeOK
  OBVIOUS
<1>1. planner \in [last_known : PlannerStates, msm : PlannerStates]
  BY DEF Init, PlannerInit, PlannerStates
<1>2. now \in 0..MaxTime
  BY BoundsAssumption DEF Init
<1> QED
  BY <1>1, <1>2, TypeOfEmpty DEF Init, SchedulerInit, TypeOK, Time

LEMMA PendingTasksType == PendingTasks \subseteq Tasks
BY DEF PendingTasks

LEMMA BeginPlanType ==
    ASSUME TypeOK, NEW n \in Nat, BeginPlan(n)
    PROVE  /\ planning' \in BOOLEAN
           /\ plan_now' \in Time
           /\ plan_ok' \in BOOLEAN
           /\ remaining' \subseteq Tasks
           /\ ready' \subseteq Tasks
           /\ progress' \in BOOLEAN
           /\ IsMap(result', Tasks, Assignments)
BY PendingTasksType, TypeOfEmpty DEF BeginPlan, Time

LEMMA ReleaseOwnerType ==
    ASSUME TypeOK, NEW t \in Tasks, ReleaseOwner(t)
    PROVE  /\ current_load' \in [Actors -> Nat]
           /\ IsMap(actor_load', Actors, Nat)
           /\ IsMap(task_actor', Tasks, Actors)
<1> DEFINE owner == task_actor[t]
           load == Largest(0, current_load[owner] - DemandOf(t))
<1>1. IsMap(task_actor', Tasks, Actors)
  BY TypeOfErase DEF TypeOK, ReleaseOwner
<1>2. CASE t \in DOMAIN task_actor
  <2>1. owner \in Actors
    BY <1>2 DEF TypeOK, IsMap
  <2>2. load \in Nat
    BY <2>1, TaskAttributes DEF TypeOK, Largest
  <2>3. IsMap(Put(actor_load, owner, load), Actors, Nat)
    <3> HIDE DEF load, owner
    <3> QED BY <2>1, <2>2, TypeOfPut DEF TypeOK
  <2>4. [current_load EXCEPT ![owner] = load] \in [Actors -> Nat]
    <3> HIDE DEF load, owner
    <3> QED BY <2>1, <2>2 DEF TypeOK
  <2> QED
    BY <1>1, <2>3, <2>4 DEF ReleaseOwner, TypeOK
<1>3. CASE t \notin DOMAIN task_actor
  BY <1>1, <1>3 DEF ReleaseOwner, TypeOK
<1> QED
  BY <1>2, <1>3

LEMMA ApplyDispatchType ==
    ASSUME TypeOK, NEW n \in Nat, ApplyDispatch(n)
    PROVE  /\ assigned_tasks' \subseteq Tasks
           /\ resumable_tasks' \subseteq Tasks
           /\ IsMap(task_actor', Tasks, Actors)
           /\ IsMap(actor_load', Actors, Nat)
           /\ IsMap(task_planned_start_time', Tasks, Time)
           /\ current_load' \in [Actors -> Nat]
<1> DEFINE D == Dispatchable(n)
           busy == {latest_schedule[t].actor : t \in D}
<1>1. /\ D \subseteq Tasks
      /\ \A t \in D : latest_schedule[t].actor \in Actors /\ latest_schedule[t].start \in Time
  BY DEF TypeOK, IsMap, Assignments, Dispatchable
<1>2. \A a \in Actors : current_load[a] + TotalDemand(Given(D, a)) \in Nat
  <2> TAKE a \in Actors
  <2>1. Given(D, a) \in SUBSET Tasks
    BY <1>1 DEF Given
  <2>2. TotalDemand(Given(D, a)) \in Nat
    BY <2>1, SlotsFinite
  <2> QED BY <2>2 DEF TypeOK
<1>3. assigned_tasks' \subseteq Tasks /\ resumable_tasks' \subseteq Tasks
  BY <1>1 DEF ApplyDispatch, TypeOK
<1>4. IsMap(task_actor', Tasks, Actors)
  BY <1>1 DEF ApplyDispatch, TypeOK, IsMap
<1>5. IsMap(task_planned_start_time', Tasks, Time)
  BY <1>1 DEF ApplyDispatch, TypeOK, IsMap
<1>6. current_load' \in [Actors -> Nat]
  BY <1>2 DEF ApplyDispatch, TypeOK
<1>7. IsMap(actor_load', Actors, Nat)
  <2>1. busy \subseteq Actors
    BY <1>1
  <2>2. actor_load' = [a \in DOMAIN actor_load \cup busy |->
                         IF a \in busy
                         THEN IF a \in registered
                              THEN current_load[a] + TotalDemand(Given(D, a)) ELSE 0
                         ELSE actor_load[a]]
    BY DEF ApplyDispatch
  <2> HIDE DEF busy, D
  <2> QED
    BY <1>2, <2>1, <2>2 DEF TypeOK, IsMap
<1> QED
  BY <1>3, <1>4, <1>5, <1>6, <1>7

(* One step per action; those that write to maps rest on the lemmas above. *)
LEMMA NextTypeOK == TypeOK /\ [Next]_vars => TypeOK'
<1> SUFFICES ASSUME TypeOK, [Next]_vars PROVE TypeOK'
  OBVIOUS
<1> USE DEF stateVars, registryVars, settingVars, planVars, orchestratorVars, ActorIds
<1>1. ASSUME SetWorkflow PROVE TypeOK'
  BY <1>1, TypeOfEmpty DEF SetWorkflow, TypeOK
<1>2. ASSUME NEW a \in Actors, NEW load \in InitialLoads, RegisterActor(a, load)
      PROVE  TypeOK'
  BY <1>2, BoundsAssumption DEF RegisterActor, TypeOK
<1>3. ASSUME NEW x \in Strategies, SetSchedulingStrategy(x) PROVE TypeOK'
  BY <1>3 DEF SetSchedulingStrategy, TypeOK
<1>4. ASSUME NEW p \in Profiles, SetActorRankingProfile(p) PROVE TypeOK'
  BY <1>4 DEF SetActorRankingProfile, TypeOK
<1>5. ASSUME Start PROVE TypeOK'
  <2>1. planner' \in [last_known : PlannerStates, msm : PlannerStates]
    BY <1>5, TypeOfFire DEF Start, TypeOK, Events
  <2> QED
    BY <1>5, <2>1, BeginPlanType DEF Start, TypeOK
<1>6. ASSUME NEW n \in now..MaxTime, TickPlan(n) PROVE TypeOK'
  <2>1. planner' \in [last_known : PlannerStates, msm : PlannerStates]
    BY <1>6, TypeOfFire DEF TickPlan, TypeOK, Events
  <2>2. n \in Nat
    BY BoundsAssumption DEF TypeOK, Time
  <2>3. BeginPlan(n)
    BY <1>6 DEF TickPlan
  <2>4. now' \in 0..MaxTime
    BY <1>6, BoundsAssumption DEF TickPlan, TypeOK
  <2> QED
    BY <1>6, <2>1, <2>2, <2>3, <2>4, BeginPlanType DEF TickPlan, TypeOK
<1>7. ASSUME NEW n \in now..MaxTime, TickDispatch(n) PROVE TypeOK'
  <2>1. planner' \in [last_known : PlannerStates, msm : PlannerStates]
    BY <1>7, TypeOfFire DEF TickDispatch, TypeOK, Events
  <2>2. n \in Nat
    BY BoundsAssumption DEF TypeOK, Time
  <2>3. ApplyDispatch(n)
    BY <1>7 DEF TickDispatch
  <2>4. UNCHANGED <<completed_phases, completed_tasks, unresumable_tasks,
                    unavailable_actors, task_actual_completion_time>>
    BY <2>3 DEF ApplyDispatch
  <2>5. now' \in 0..MaxTime
    BY <1>7, BoundsAssumption DEF TickDispatch, TypeOK
  <2> QED
    BY <1>7, <2>1, <2>2, <2>3, <2>4, <2>5, ApplyDispatchType DEF TickDispatch, TypeOK
<1>8. ASSUME PlanInternal PROVE TypeOK'
  <2>1. CASE CollectReadyTasks
    BY <1>8, <2>1 DEF PlanInternal, CollectReadyTasks, ReadyTasks, TypeOK
  <2>2. ASSUME NEW t \in ready, DropTask(t) PROVE TypeOK'
    BY <1>8, <2>2 DEF PlanInternal, DropTask, TypeOK
  <2>3. ASSUME NEW t \in ready, NEW c \in Candidates(t), AssignTask(t, c) PROVE TypeOK'
    <3>1. t \in Tasks /\ c \in Assignments
      BY CandidateFacts DEF TypeOK
    <3>2. IsMap(result', Tasks, Assignments)
      BY <2>3, <3>1, TypeOfPut DEF AssignTask, TypeOK
    <3> QED
      BY <1>8, <2>3, <3>2 DEF PlanInternal, AssignTask, TypeOK
  <2> QED
    BY <1>8, <2>1, <2>2, <2>3 DEF PlanInternal, PlanStep
<1>9. ASSUME FinishPlanning PROVE TypeOK'
  <2>1. planner' \in [last_known : PlannerStates, msm : PlannerStates]
    BY <1>9, TypeOfFire DEF FinishPlanning, TypeOK, Events
  <2> QED
    BY <1>9, <2>1, TypeOfEmpty DEF FinishPlanning, EndPlan, TypeOK, Time
<1>10. ASSUME NEW a \in ActorIds, NEW b \in BOOLEAN, SetActorUnavailable(a, b) PROVE TypeOK'
  BY <1>10 DEF SetActorUnavailable, TypeOK
<1>11. ASSUME NEW t \in Tasks, NEW b \in BOOLEAN, NotifyTaskFailed(t, b) PROVE TypeOK'
  <2>1. ReleaseOwner(t)
    BY <1>11 DEF NotifyTaskFailed
  <2> QED
    BY <1>11, <2>1, ReleaseOwnerType DEF NotifyTaskFailed, TypeOK
<1>12. ASSUME NEW t \in Tasks, NEW at \in 0..MaxTime, NotifyTaskCompleted(t, at) PROVE TypeOK'
  <2>1. ReleaseOwner(t)
    BY <1>12 DEF NotifyTaskCompleted
  <2>2. IsMap(task_actual_completion_time', Tasks, Time)
    BY <1>12, TypeOfPut, BoundsAssumption DEF NotifyTaskCompleted, TypeOK, Time
  <2> QED
    BY <1>12, <2>1, <2>2, ReleaseOwnerType DEF NotifyTaskCompleted, TypeOK
<1>13. ASSUME NEW t \in Tasks, MarkTaskResumable(t) PROVE TypeOK'
  BY <1>13 DEF MarkTaskResumable, TypeOK
<1>14. ASSUME NEW ph \in PhaseIds, CompletePhase(ph) PROVE TypeOK'
  <2>1. planner' \in [last_known : PlannerStates, msm : PlannerStates]
    BY <1>14, TypeOfFire DEF CompletePhase, TypeOK, Events
  <2> QED
    BY <1>14, <2>1 DEF CompletePhase, TypeOK
<1>15. CASE UNCHANGED vars
  BY <1>15 DEF vars, TypeOK
<1>16. registered \subseteq Actors
  BY DEF TypeOK
<1> QED
  BY <1>1, <1>2, <1>3, <1>4, <1>5, <1>6, <1>7, <1>8, <1>9, <1>10, <1>11, <1>12,
     <1>13, <1>14, <1>15, <1>16
     DEF Next, Configure, Execute, Flap, AnyFeedback

(* Whatever a caller does with known ids, WorkflowState and the registry   *)
(* hold known ids, and loads and times stay numbers: no notification can   *)
(* drive a load below zero.                                                *)
THEOREM TypeCorrect == Spec => []TypeOK
BY InitTypeOK, NextTypeOK, PTL DEF Spec

-----------------------------------------------------------------------------
(***************************************************************************)
(* The wrapper's copy and the MSM machine.                                 *)
(***************************************************************************)

(* Where the wrapper forwards an event, the table has the row it expects.  *)
LEMMA TablesAgree ==
    ASSUME NEW ev \in Events, NEW s \in Forwarded(ev)
    PROVE  s \in PlannerStates /\ MsmStep(s, ev) = Recorded(ev, s)
<1>1. s \in PlannerStates
  BY DEF Forwarded, Events, PlannerStates
<1>2. \A d \in PlannerStates : <<s, ev, d>> \in Rows <=> d = Recorded(ev, s)
  <2>1. CASE ev = "StartPlanning"
    BY <1>1, <2>1 DEF Forwarded, Recorded, Rows, PlannerStates
  <2>2. CASE ev = "ScheduleReady"
    BY <1>1, <2>2 DEF Forwarded, Recorded, Rows, PlannerStates
  <2>3. CASE ev = "DispatchComplete"
    BY <1>1, <2>3 DEF Forwarded, Recorded, Rows, PlannerStates
  <2>4. CASE ev = "PhaseComplete"
    BY <1>1, <2>4 DEF Forwarded, Recorded, Rows, PlannerStates
  <2>5. CASE ev = "AllPhasesComplete"
    BY <1>1, <2>5 DEF Forwarded, Recorded, Rows, PlannerStates
  <2>6. CASE ev = "Tick"
    BY <1>1, <2>6 DEF Forwarded, Recorded, Rows, PlannerStates
  <2> QED
    BY <2>1, <2>2, <2>3, <2>4, <2>5, <2>6 DEF Events
<1>3. Recorded(ev, s) \in PlannerStates
  BY <1>1 DEF Recorded, Events, PlannerStates
<1> QED
  BY <1>1, <1>2, <1>3 DEF MsmStep

LEMMA FireAgrees ==
    ASSUME NEW p \in [last_known : PlannerStates, msm : PlannerStates],
           NEW ev \in Events, p.last_known = p.msm
    PROVE  Fire(p, ev).last_known = Fire(p, ev).msm
BY TablesAgree DEF Fire

(* current_state() never lies: PlannerStateMachine::Impl::last_known_state *)
(* is the state of the MSM machine after any sequence of calls.            *)
THEOREM FsmAgrees == Spec => []FsmAgreement
<1>1. Init => FsmAgreement
  BY DEF Init, PlannerInit, FsmAgreement
<1>2. TypeOK /\ FsmAgreement /\ [Next]_vars => FsmAgreement'
  <2> SUFFICES ASSUME TypeOK, FsmAgreement, [Next]_vars PROVE FsmAgreement'
    OBVIOUS
  <2> USE DEF FsmAgreement, orchestratorVars
  <2>1. planner \in [last_known : PlannerStates, msm : PlannerStates]
    BY DEF TypeOK
  <2>2. \A ev \in Events : Fire(planner, ev).last_known = Fire(planner, ev).msm
    BY <2>1, FireAgrees
  <2>3. ASSUME NEW ph \in PhaseIds, CompletePhase(ph) PROVE FsmAgreement'
    <3> DEFINE fired == Fire(planner, "PhaseComplete")
    <3>1. fired \in [last_known : PlannerStates, msm : PlannerStates]
      BY <2>1, TypeOfFire DEF Events
    <3>2. fired.last_known = fired.msm
      BY <2>2 DEF Events
    <3>3. Fire(fired, "AllPhasesComplete").last_known = Fire(fired, "AllPhasesComplete").msm
      <4> HIDE DEF fired
      <4> QED BY <3>1, <3>2, FireAgrees DEF Events
    <3> QED
      BY <2>3, <3>2, <3>3 DEF CompletePhase
  <2>4. CASE Start
    BY <2>2, <2>4 DEF Start, Events
  <2>5. ASSUME NEW n \in now..MaxTime, TickPlan(n) \/ TickDispatch(n) PROVE FsmAgreement'
    BY <2>2, <2>5 DEF TickPlan, TickDispatch, Events
  <2>6. CASE FinishPlanning
    BY <2>2, <2>6 DEF FinishPlanning, Events
  <2>7. CASE planner' = planner
    BY <2>7
  <2> QED
    BY <2>3, <2>4, <2>5, <2>6, <2>7
       DEF Next, Configure, Execute, Flap, AnyFeedback, SetWorkflow, RegisterActor,
           SetSchedulingStrategy, SetActorRankingProfile, PlanInternal,
           SetActorUnavailable, NotifyTaskFailed, NotifyTaskCompleted,
           MarkTaskResumable, vars
<1> QED
  BY <1>1, <1>2, TypeCorrect, PTL DEF Spec

-----------------------------------------------------------------------------
(***************************************************************************)
(* Tasks in flight.                                                        *)
(***************************************************************************)

(* Every step keeps what is in flight apart from what is done or blocked. *)
LEMMA ExclusiveInductive == InFlightExclusive /\ [Next]_vars => InFlightExclusive'
<1> SUFFICES ASSUME InFlightExclusive, [Next]_vars PROVE InFlightExclusive'
  OBVIOUS
<1> USE DEF InFlightExclusive, stateVars
<1>1. CASE SetWorkflow
  BY <1>1 DEF SetWorkflow, EmptyMap
<1>2. ASSUME NEW n \in now..MaxTime, TickDispatch(n) PROVE InFlightExclusive'
  BY <1>2 DEF TickDispatch, ApplyDispatch, Dispatchable
<1>3. ASSUME NEW t \in Tasks, NEW b \in BOOLEAN, NotifyTaskFailed(t, b)
      PROVE  InFlightExclusive'
  BY <1>3 DEF NotifyTaskFailed, ReleaseOwner, Erase
<1>4. ASSUME NEW t \in Tasks, NEW at \in 0..MaxTime, NotifyTaskCompleted(t, at)
      PROVE  InFlightExclusive'
  BY <1>4 DEF NotifyTaskCompleted, ReleaseOwner, Erase
<1>5. ASSUME NEW t \in Tasks, MarkTaskResumable(t) PROVE InFlightExclusive'
  BY <1>5 DEF MarkTaskResumable
<1>6. CASE UNCHANGED <<task_actor, assigned_tasks, completed_tasks,
                       resumable_tasks, unresumable_tasks>>
  BY <1>6
<1> QED
  BY <1>1, <1>2, <1>3, <1>4, <1>5, <1>6
     DEF Next, Configure, Execute, Flap, AnyFeedback, RegisterActor,
         SetSchedulingStrategy, SetActorRankingProfile, Start, TickPlan,
         PlanInternal, FinishPlanning, SetActorUnavailable, CompletePhase, vars

(* No sequence of notifications makes a task owned and not in flight, or   *)
(* in flight and completed, or in flight and blocked.                      *)
THEOREM InFlightIsExclusive == Spec => []InFlightExclusive
<1>1. Init => InFlightExclusive
  BY DEF Init, InFlightExclusive, EmptyMap
<1> QED
  BY <1>1, ExclusiveInductive, PTL DEF Spec

-----------------------------------------------------------------------------
(***************************************************************************)
(* Availability.  apply_dispatch does not look at unavailable_actors; what *)
(* protects it is that every actor the schedule names was available when   *)
(* the schedule was made, and that a flag raised since then leaves a       *)
(* replan pending, which tick serves before it dispatches.                 *)
(***************************************************************************)
ActorsAvailable(s) ==
    \A t \in DOMAIN s : s[t].actor \in registered \ unavailable_actors

ScheduleAvailable ==
    /\ planning => ActorsAvailable(result)
    /\ ~planning /\ ~replan_requested => ActorsAvailable(latest_schedule)

LEMMA ScheduleAvailableInductive ==
    TypeOK /\ ScheduleAvailable /\ [Next]_vars => ScheduleAvailable'
<1> SUFFICES ASSUME TypeOK, ScheduleAvailable, [Next]_vars PROVE ScheduleAvailable'
  OBVIOUS
<1> USE DEF ScheduleAvailable, ActorsAvailable, stateVars, registryVars, planVars,
            orchestratorVars
<1>1. CASE SetWorkflow
  BY <1>1 DEF SetWorkflow
<1>2. ASSUME NEW a \in Actors, NEW load \in InitialLoads, RegisterActor(a, load)
      PROVE  ScheduleAvailable'
  BY <1>2 DEF RegisterActor
<1>3. CASE Start
  BY <1>3 DEF Start, BeginPlan, EmptyMap
<1>4. ASSUME NEW n \in now..MaxTime, TickPlan(n) PROVE ScheduleAvailable'
  BY <1>4 DEF TickPlan, BeginPlan, EmptyMap
<1>5. ASSUME NEW n \in now..MaxTime, TickDispatch(n) PROVE ScheduleAvailable'
  BY <1>5 DEF TickDispatch, ApplyDispatch
<1>6. CASE PlanInternal
  <2>1. CASE CollectReadyTasks
    BY <1>6, <2>1 DEF PlanInternal, CollectReadyTasks
  <2>2. ASSUME NEW t \in ready, DropTask(t) PROVE ScheduleAvailable'
    BY <1>6, <2>2 DEF PlanInternal, DropTask
  <2>3. ASSUME NEW t \in ready, NEW c \in Candidates(t), AssignTask(t, c)
        PROVE  ScheduleAvailable'
    <3>1. c.actor \in registered \ unavailable_actors
      BY CandidateFacts DEF TypeOK
    <3> QED
      BY <1>6, <2>3, <3>1 DEF PlanInternal, AssignTask, Put
  <2> QED
    BY <1>6, <2>1, <2>2, <2>3 DEF PlanInternal, PlanStep
<1>7. CASE FinishPlanning
  BY <1>7 DEF FinishPlanning, EndPlan, PlanDone
<1>8. ASSUME NEW a \in ActorIds, NEW b \in BOOLEAN, SetActorUnavailable(a, b)
      PROVE  ScheduleAvailable'
  BY <1>8 DEF SetActorUnavailable
<1>9. ASSUME NEW t \in Tasks, NEW b \in BOOLEAN, NotifyTaskFailed(t, b)
      PROVE  ScheduleAvailable'
  BY <1>9 DEF NotifyTaskFailed
<1>10. ASSUME NEW t \in Tasks, NEW at \in 0..MaxTime, NotifyTaskCompleted(t, at)
       PROVE  ScheduleAvailable'
  BY <1>10 DEF NotifyTaskCompleted
<1>11. CASE UNCHANGED <<planning, result, registered, unavailable_actors,
                        replan_requested, latest_schedule>>
  BY <1>11
<1>12. ASSUME NEW t \in Tasks, MarkTaskResumable(t) PROVE ScheduleAvailable'
  BY <1>12 DEF MarkTaskResumable
<1>13. registered \subseteq Actors
  BY DEF TypeOK
<1> QED
  BY <1>1, <1>2, <1>3, <1>4, <1>5, <1>6, <1>7, <1>8, <1>9, <1>10, <1>11, <1>12, <1>13
     DEF Next, Configure, Execute, Flap, AnyFeedback, SetSchedulingStrategy,
         SetActorRankingProfile, CompletePhase, vars

LEMMA DispatchIsAvailable ==
    TypeOK /\ ScheduleAvailable /\ [Next]_vars =>
        [\A t \in assigned_tasks' \ assigned_tasks :
            task_actor'[t] \in registered \ unavailable_actors]_vars
<1> SUFFICES ASSUME TypeOK, ScheduleAvailable, Next,
                    NEW t \in assigned_tasks' \ assigned_tasks
             PROVE  task_actor'[t] \in registered \ unavailable_actors
  OBVIOUS
<1> USE DEF stateVars
<1>1. ASSUME NEW n \in now..MaxTime, TickDispatch(n)
      PROVE  task_actor'[t] \in registered \ unavailable_actors
  BY <1>1 DEF TickDispatch, ApplyDispatch, Dispatchable, ScheduleAvailable, ActorsAvailable
<1>2. ASSUME NEW u \in Tasks, NEW b \in BOOLEAN, NotifyTaskFailed(u, b) PROVE FALSE
  BY <1>2 DEF NotifyTaskFailed
<1>3. ASSUME NEW u \in Tasks, NEW at \in 0..MaxTime, NotifyTaskCompleted(u, at) PROVE FALSE
  BY <1>3 DEF NotifyTaskCompleted
<1>4. CASE SetWorkflow
  BY <1>4 DEF SetWorkflow
<1> QED
  BY <1>1, <1>2, <1>3, <1>4
     DEF Next, Configure, Execute, Flap, AnyFeedback, RegisterActor,
         SetSchedulingStrategy, SetActorRankingProfile, Start, TickPlan,
         PlanInternal, FinishPlanning, SetActorUnavailable, MarkTaskResumable,
         CompletePhase

(* No dispatch ever goes to an actor that is flagged unavailable or not    *)
(* registered, for any sequence of calls.                                  *)
THEOREM DispatchAvoidsUnavailable == Spec => NoDispatchToUnavailable
<1>1. Init => ScheduleAvailable
  BY DEF Init, SchedulerInit, ScheduleAvailable, ActorsAvailable, EmptyMap
<1> QED
  BY <1>1, ScheduleAvailableInductive, DispatchIsAvailable, TypeCorrect, PTL
     DEF Spec, NoDispatchToUnavailable

-----------------------------------------------------------------------------
(* The loops visit a task once: what is ready remains, and what remains    *)
(* has no assignment yet.                                                  *)
PlanBookkeeping ==
    /\ ~planning => DOMAIN result = {}
    /\ ready \subseteq remaining
    /\ remaining \cap DOMAIN result = {}

LEMMA BookkeepingInductive ==
    PlanBookkeeping /\ [Next]_vars => PlanBookkeeping'
<1> SUFFICES ASSUME PlanBookkeeping, [Next]_vars PROVE PlanBookkeeping'
  OBVIOUS
<1> USE DEF PlanBookkeeping, planVars
<1>1. CASE Start
  BY <1>1 DEF Start, BeginPlan, EmptyMap
<1>2. ASSUME NEW n \in now..MaxTime, TickPlan(n) PROVE PlanBookkeeping'
  BY <1>2 DEF TickPlan, BeginPlan, EmptyMap
<1>3. CASE PlanInternal
  <2>1. CASE CollectReadyTasks
    BY <2>1 DEF CollectReadyTasks, ReadyTasks
  <2>2. ASSUME NEW t \in ready, DropTask(t) PROVE PlanBookkeeping'
    BY <2>2 DEF DropTask
  <2>3. ASSUME NEW t \in ready, NEW c \in Candidates(t), AssignTask(t, c)
        PROVE  PlanBookkeeping'
    BY <2>3 DEF AssignTask, Put
  <2> QED
    BY <1>3, <2>1, <2>2, <2>3 DEF PlanInternal, PlanStep
<1>4. CASE FinishPlanning
  BY <1>4 DEF FinishPlanning, EndPlan, EmptyMap
<1>5. CASE UNCHANGED planVars
  BY <1>5
<1> QED
  BY <1>1, <1>2, <1>3, <1>4, <1>5
     DEF Next, Configure, Execute, Flap, AnyFeedback, SetWorkflow, RegisterActor,
         SetSchedulingStrategy, SetActorRankingProfile, TickDispatch,
         SetActorUnavailable, NotifyTaskFailed, NotifyTaskCompleted,
         MarkTaskResumable, CompletePhase, vars

-----------------------------------------------------------------------------
(***************************************************************************)
(* The reservation table.                                                  *)
(***************************************************************************)
LEMMA DemandAtType ==
    ASSUME TypeOK, NEW a \in Actors, NEW i
    PROVE  /\ HeldAt(a, i) \in SUBSET Tasks
           /\ PlannedAt(a, i) \in SUBSET Tasks
           /\ OpaqueDemand(a) \in Nat
           /\ TotalDemand(HeldAt(a, i)) \in Nat
           /\ TotalDemand(PlannedAt(a, i)) \in Nat
           /\ ConcurrentDemandAt(a, i) \in Nat
<1>1. HeldAt(a, i) \in SUBSET Tasks /\ HeldAt(a, plan_now) \in SUBSET Tasks
  BY DEF HeldAt, TypeOK
<1>2. PlannedAt(a, i) \in SUBSET Tasks
  BY DEF PlannedAt, TypeOK, IsMap
<1>3. BaselineLoad(a) \in Nat
  BY DEF BaselineLoad, TypeOK, IsMap
<1>4. /\ TotalDemand(HeldAt(a, i)) \in Nat
      /\ TotalDemand(HeldAt(a, plan_now)) \in Nat
      /\ TotalDemand(PlannedAt(a, i)) \in Nat
  BY <1>1, <1>2, SlotsFinite
<1>5. OpaqueDemand(a) \in Nat
  BY <1>3, <1>4 DEF OpaqueDemand, Largest
<1> QED
  BY <1>1, <1>2, <1>4, <1>5 DEF ConcurrentDemandAt

(* What does not depend on the assignments made so far. *)
PlanStays ==
    UNCHANGED <<stateVars, registryVars, settingVars, planning, plan_now>>

LEMMA HeldStays ==
    ASSUME PlanStays, NEW a, NEW i
    PROVE  HeldAt(a, i)' = HeldAt(a, i) /\ OpaqueDemand(a)' = OpaqueDemand(a)
<1>1. \A j : HeldAt(a, j)' = HeldAt(a, j)
  BY DEF PlanStays, stateVars, HeldAt, PlannedStart, PlannedEnd
<1>2. BaselineLoad(a)' = BaselineLoad(a)
  BY DEF PlanStays, stateVars, registryVars, BaselineLoad
<1>3. HeldAt(a, plan_now)' = HeldAt(a, plan_now)
  BY DEF PlanStays, stateVars, HeldAt, PlannedStart, PlannedEnd
<1> QED
  BY <1>1, <1>2, <1>3 DEF OpaqueDemand

LEMMA DemandStays ==
    ASSUME PlanStays, result' = result, NEW a, NEW i
    PROVE  ConcurrentDemandAt(a, i)' = ConcurrentDemandAt(a, i)
<1>1. PlannedAt(a, i)' = PlannedAt(a, i)
  BY DEF PlannedAt, ResultEnd
<1> QED
  BY <1>1, HeldStays DEF ConcurrentDemandAt, PlanStays

(* An assignment adds the demand of its task at the instants it covers. *)
LEMMA DemandGrows ==
    ASSUME TypeOK, PlanStays, NEW t \in Tasks, t \notin DOMAIN result,
           NEW c \in Assignments, result' = Put(result, t, c),
           NEW a \in Actors, NEW i \in Int
    PROVE  ConcurrentDemandAt(a, i)' =
             ConcurrentDemandAt(a, i)
               + (IF a = c.actor /\ c.start <= i /\ i < c.start + DurationOf(t)
                  THEN DemandOf(t) ELSE 0)
<1> DEFINE covers == a = c.actor /\ c.start <= i /\ i < c.start + DurationOf(t)
<1>1. DOMAIN result' = DOMAIN result \cup {t}
  BY DEF Put
<1>2. result'[t] = c /\ \A u \in DOMAIN result : result'[u] = result[u]
  BY DEF Put
<1>3. PlannedAt(a, i)' = IF covers THEN PlannedAt(a, i) \cup {t} ELSE PlannedAt(a, i)
  BY <1>1, <1>2 DEF PlannedAt, ResultEnd
<1>4. t \notin PlannedAt(a, i)
  BY DEF PlannedAt
<1>5. TotalDemand(PlannedAt(a, i) \cup {t}) = TotalDemand(PlannedAt(a, i)) + DemandOf(t)
  <2>1. TotalDemand(PlannedAt(a, i) \cup {t}) = TotalDemand(PlannedAt(a, i)) + TotalDemand({t})
    BY <1>4, DemandAtType, DemandOfUnion
  <2> QED
    BY <2>1, DemandOfSingleton
<1>6. TotalDemand(PlannedAt(a, i))' =
        TotalDemand(PlannedAt(a, i)) + (IF covers THEN DemandOf(t) ELSE 0)
  <2>1. CASE covers
    BY <2>1, <1>3, <1>5
  <2>2. CASE ~covers
    <3>1. TotalDemand(PlannedAt(a, i)) \in Nat
      BY DemandAtType
    <3> QED BY <2>2, <1>3, <3>1
  <2> QED BY <2>1, <2>2
<1>7. /\ TotalDemand(HeldAt(a, i))' = TotalDemand(HeldAt(a, i))
      /\ OpaqueDemand(a)' = OpaqueDemand(a)
      /\ plan_now' = plan_now
  BY HeldStays DEF PlanStays
<1>8. /\ TotalDemand(HeldAt(a, i)) \in Nat
      /\ TotalDemand(PlannedAt(a, i)) \in Nat
      /\ OpaqueDemand(a) \in Nat
      /\ DemandOf(t) \in Nat
  BY DemandAtType, TaskAttributes
<1> HIDE DEF covers
<1>9. ConcurrentDemandAt(a, i)' =
        ConcurrentDemandAt(a, i) + (IF covers THEN DemandOf(t) ELSE 0)
  BY <1>6, <1>7, <1>8 DEF ConcurrentDemandAt
<1> QED
  BY <1>9 DEF covers

-----------------------------------------------------------------------------
(***************************************************************************)
(* Capacity.                                                               *)
(***************************************************************************)

(* A candidate was found to fit at every instant it would run, and starts  *)
(* no earlier than each bound on its release.                              *)
LEMMA CandidateFits ==
    ASSUME TypeOK, NEW t \in Tasks, NEW c \in Candidates(t)
    PROVE  /\ \A i \in c.start..(c.start + DurationOf(t) - 1) :
                 ConcurrentDemandAt(c.actor, i) + DemandOf(t) <= Capacity[c.actor]
           /\ \A b \in ReleaseBounds(t) : b <= c.start
<1>1. /\ c.actor \in Actors
      /\ c.start \in Nat
  BY CandidateFacts DEF Assignments, Time
<1>2. PICK r \in Nat : /\ r \in Greatest(ReleaseBounds(t))
                       /\ c.start \in FeasibleStarts(c.actor, t, r)
  BY CandidateFacts
<1>3. DurationOf(t) \in Nat
  BY TaskAttributes
<1>4. r <= c.start
  <2>1. CASE DurationOf(t) = 0
    BY <1>2, <2>1 DEF FeasibleStarts
  <2>2. CASE DurationOf(t) # 0
    <3>1. PICK w \in Windows[c.actor] :
             c.start \in Largest(w.start, r)..(w.end - DurationOf(t))
      BY <1>2, <2>2 DEF FeasibleStarts
    <3>2. w.start \in Nat /\ w.end \in Nat
      BY <1>1, ActorsAssumption DEF Time
    <3> QED
      BY <1>1, <1>3, <3>1, <3>2 DEF Largest
  <2> QED BY <2>1, <2>2
<1>5. \A b \in ReleaseBounds(t) : b <= c.start
  <2>1. \A b \in ReleaseBounds(t) : b \in Nat /\ b <= r
    BY <1>2, ReleaseTimes DEF Greatest
  <2> QED BY <1>1, <1>4, <2>1
<1>6. \A i \in c.start..(c.start + DurationOf(t) - 1) :
         ConcurrentDemandAt(c.actor, i) + DemandOf(t) <= Capacity[c.actor]
  <2>1. CASE DurationOf(t) = 0
    BY <1>1, <2>1
  <2>2. CASE DurationOf(t) # 0
    BY <1>2, <2>2 DEF FeasibleStarts, HasCapacity
  <2> QED BY <2>1, <2>2
<1> QED
  BY <1>5, <1>6

LEMMA CapacityInductive ==
    TypeOK /\ PlanBookkeeping /\ PlanWithinCapacity /\ [Next]_vars => PlanWithinCapacity'
<1> SUFFICES ASSUME TypeOK, PlanBookkeeping, PlanWithinCapacity, [Next]_vars
             PROVE  PlanWithinCapacity'
  OBVIOUS
<1>1. CASE DOMAIN result' = {}
  BY <1>1 DEF PlanWithinCapacity
<1>2. ASSUME PlanStays, result' = result PROVE PlanWithinCapacity'
  BY <1>2, DemandStays DEF PlanWithinCapacity, ResultEnd
<1>3. ASSUME PlanInternal, NEW t \in ready, NEW c \in Candidates(t), AssignTask(t, c)
      PROVE  PlanWithinCapacity'
  <2>1. t \in Tasks /\ t \notin DOMAIN result
    BY DEF TypeOK, PlanBookkeeping
  <2>2. c \in Assignments /\ c.actor \in Actors /\ c.start \in Nat
    BY <2>1, CandidateFacts DEF Assignments, Time
  <2>3. PlanStays /\ result' = Put(result, t, c)
    BY <1>3 DEF PlanInternal, AssignTask, PlanStays, stateVars, registryVars, settingVars
  <2>4. /\ DOMAIN result' = DOMAIN result \cup {t}
        /\ result'[t] = c
        /\ \A u \in DOMAIN result : u # t /\ result'[u] = result[u]
    BY <2>1, <2>3 DEF Put
  <2>5. DurationOf(t) \in Nat /\ DemandOf(t) \in Nat
    BY <2>1, TaskAttributes
  <2> SUFFICES ASSUME NEW u \in Tasks, NEW i \in Int, NEW a \in Actors,
                      u \in DOMAIN result', a = result'[u].actor,
                      result'[u].start <= i, i < result'[u].start + DurationOf(u)
               PROVE  ConcurrentDemandAt(a, i)' <= Capacity[a]
    <3>1. \A u \in DOMAIN result' :
             u \in Tasks /\ result'[u].actor \in Actors /\ result'[u].start \in Nat
      BY <2>1, <2>2, <2>4, ResultTimes
    <3>2. \A u \in Tasks : DurationOf(u) \in Nat
      BY TaskAttributes
    <3> QED
      BY <3>1, <3>2 DEF PlanWithinCapacity, ResultEnd
  <2>8. ConcurrentDemandAt(a, i)' =
           ConcurrentDemandAt(a, i)
             + (IF a = c.actor /\ c.start <= i /\ i < c.start + DurationOf(t)
                THEN DemandOf(t) ELSE 0)
    BY <2>1, <2>2, <2>3, DemandGrows
  <2>9. ConcurrentDemandAt(a, i) \in Nat
    BY DemandAtType
  <2>10. CASE a = c.actor /\ c.start <= i /\ i < c.start + DurationOf(t)
    <3>1. i \in c.start..(c.start + DurationOf(t) - 1)
      BY <2>2, <2>5, <2>10
    <3>2. ConcurrentDemandAt(c.actor, i) + DemandOf(t) <= Capacity[c.actor]
      BY <2>1, <3>1, CandidateFits
    <3> QED
      BY <2>8, <2>10, <3>2
  <2>11. CASE ~(a = c.actor /\ c.start <= i /\ i < c.start + DurationOf(t))
    <3>1. u \in DOMAIN result
      BY <2>2, <2>4, <2>5, <2>11
    <3>2. /\ a = result[u].actor
          /\ i \in result[u].start..(ResultEnd(u) - 1)
      <4>1. result'[u] = result[u] /\ result[u].start \in Nat /\ DurationOf(u) \in Nat
        BY <2>4, <3>1, ResultTimes, TaskAttributes
      <4> QED BY <4>1 DEF ResultEnd
    <3>3. ConcurrentDemandAt(a, i) <= Capacity[a]
      <4>1. \A j \in result[u].start..(ResultEnd(u) - 1) :
               ConcurrentDemandAt(result[u].actor, j) <= Capacity[result[u].actor]
        BY <3>1, Zenon DEF PlanWithinCapacity
      <4>2. ConcurrentDemandAt(result[u].actor, i) <= Capacity[result[u].actor]
        BY <3>2, <4>1, Zenon
      <4> QED BY <3>2, <4>2, Zenon
    <3> QED
      BY <2>8, <2>9, <2>11, <3>3
  <2> QED BY <2>10, <2>11
<1>4. CASE PlanInternal
  <2>1. CASE CollectReadyTasks
    BY <1>2, <1>4, <2>1
       DEF PlanInternal, CollectReadyTasks, PlanStays, stateVars, registryVars, settingVars
  <2>2. ASSUME NEW t \in ready, DropTask(t) PROVE PlanWithinCapacity'
    BY <1>2, <1>4, <2>2
       DEF PlanInternal, DropTask, PlanStays, stateVars, registryVars, settingVars
  <2> QED
    BY <1>3, <1>4, <2>1, <2>2 DEF PlanInternal, PlanStep
<1>5. CASE UNCHANGED vars
  BY <1>2, <1>5 DEF vars, PlanStays, planVars
<1>6. CASE Start \/ FinishPlanning \/ \E n \in now..MaxTime : TickPlan(n)
  BY <1>1, <1>6 DEF Start, TickPlan, BeginPlan, FinishPlanning, EndPlan, EmptyMap
<1>7. CASE ~planning /\ result' = result
  BY <1>1, <1>7 DEF PlanBookkeeping
<1> QED
  BY <1>4, <1>5, <1>6, <1>7
     DEF Next, Configure, Execute, Flap, AnyFeedback, SetWorkflow, RegisterActor,
         SetSchedulingStrategy, SetActorRankingProfile, TickDispatch,
         SetActorUnavailable, NotifyTaskFailed, NotifyTaskCompleted,
         MarkTaskResumable, CompletePhase, planVars

(* Scheduler::plan never overbooks: at every instant at which a task it    *)
(* placed runs, the tasks in flight, the opaque load and everything it     *)
(* placed together fit the actor's capacity.                               *)
THEOREM PlanFitsCapacity == Spec => []PlanWithinCapacity
<1>1. Init => PlanBookkeeping /\ PlanWithinCapacity
  BY DEF Init, SchedulerInit, EmptyMap, PlanBookkeeping, PlanWithinCapacity
<1> QED
  BY <1>1, BookkeepingInductive, CapacityInductive, TypeCorrect, PTL DEF Spec

-----------------------------------------------------------------------------
(***************************************************************************)
(* Load.  The two copies of an actor's load are written only by dispatch   *)
(* and by the release of a task, so they stay exact if each in-flight task *)
(* has a registered owner to give its demand back to, and if the clamp at  *)
(* zero never cuts anything off.                                           *)
(***************************************************************************)

(* The calls that reload no workflow and replace no actor. *)
CalmNext == Configure \/ Execute \/ Start \/ Flap \/ AnyFeedback

OwnersRegistered ==
    /\ \A t \in DOMAIN result : result[t].actor \in registered
    /\ \A t \in DOMAIN latest_schedule : latest_schedule[t].actor \in registered
    /\ \A t \in DOMAIN task_actor : task_actor[t] \in registered
    /\ DOMAIN actor_load \subseteq registered

LEMMA OwnersRegisteredInductive ==
    TypeOK /\ OwnersRegistered /\ [Next]_vars => OwnersRegistered'
<1> SUFFICES ASSUME TypeOK, OwnersRegistered, [Next]_vars PROVE OwnersRegistered'
  OBVIOUS
<1> USE DEF OwnersRegistered, stateVars, registryVars, planVars, orchestratorVars
<1>1. CASE SetWorkflow
  BY <1>1 DEF SetWorkflow, EmptyMap
<1>2. ASSUME NEW a \in Actors, NEW load \in InitialLoads, RegisterActor(a, load)
      PROVE  OwnersRegistered'
  BY <1>2 DEF RegisterActor
<1>3. CASE Start \/ \E n \in now..MaxTime : TickPlan(n)
  BY <1>3 DEF Start, TickPlan, BeginPlan, EmptyMap
<1>4. ASSUME NEW n \in now..MaxTime, TickDispatch(n) PROVE OwnersRegistered'
  BY <1>4 DEF TickDispatch, ApplyDispatch, Dispatchable
<1>5. CASE PlanInternal
  <2>1. CASE CollectReadyTasks
    BY <1>5, <2>1 DEF PlanInternal, CollectReadyTasks
  <2>2. ASSUME NEW t \in ready, DropTask(t) PROVE OwnersRegistered'
    BY <1>5, <2>2 DEF PlanInternal, DropTask
  <2>3. ASSUME NEW t \in ready, NEW c \in Candidates(t), AssignTask(t, c)
        PROVE  OwnersRegistered'
    <3>1. c.actor \in registered
      BY CandidateFacts DEF TypeOK
    <3> QED
      BY <1>5, <2>3, <3>1 DEF PlanInternal, AssignTask, Put
  <2> QED
    BY <1>5, <2>1, <2>2, <2>3 DEF PlanInternal, PlanStep
<1>6. CASE FinishPlanning
  BY <1>6 DEF FinishPlanning, EndPlan, EmptyMap
<1>7. ASSUME NEW t \in Tasks, ReleaseOwner(t),
             UNCHANGED <<result, latest_schedule, registered>>
      PROVE  OwnersRegistered'
  BY <1>7 DEF ReleaseOwner, Put, Erase
<1>8. CASE \E t \in Tasks, b \in BOOLEAN : NotifyTaskFailed(t, b)
  BY <1>7, <1>8 DEF NotifyTaskFailed
<1>9. CASE \E t \in Tasks, at \in 0..MaxTime : NotifyTaskCompleted(t, at)
  BY <1>7, <1>9 DEF NotifyTaskCompleted
<1>10. CASE UNCHANGED <<result, latest_schedule, task_actor, actor_load, registered>>
  BY <1>10
<1>11. registered \subseteq Actors
  BY DEF TypeOK
<1> QED
  BY <1>1, <1>2, <1>3, <1>4, <1>5, <1>6, <1>8, <1>9, <1>10, <1>11
     DEF Next, Configure, Execute, Flap, AnyFeedback, SetSchedulingStrategy,
         SetActorRankingProfile, SetActorUnavailable, MarkTaskResumable,
         CompletePhase, vars

(* Where the loads are accounted for, the clamp is idle: giving back what  *)
(* a task in flight takes leaves the demand of the others.                 *)
LEMMA ReleaseIsExact ==
    ASSUME TypeOK, OwnersRegistered, LoadAccounting, NEW t \in Tasks, ReleaseOwner(t),
           UNCHANGED <<registered, external_load>>
    PROVE  LoadAccounting'
<1>1. CASE t \notin DOMAIN task_actor
  <2>1. /\ current_load' = current_load /\ actor_load' = actor_load
        /\ DOMAIN task_actor' = DOMAIN task_actor
        /\ \A u \in DOMAIN task_actor : task_actor'[u] = task_actor[u]
    BY <1>1 DEF ReleaseOwner, Erase
  <2>2. \A a : InFlightOn(a)' = InFlightOn(a)
    BY <2>1 DEF InFlightOn
  <2> QED
    BY <2>1, <2>2 DEF LoadAccounting
<1>2. CASE t \in DOMAIN task_actor
  <2> DEFINE o == task_actor[t]
  <2>1. o \in registered /\ o \in Actors
    BY <1>2 DEF OwnersRegistered, TypeOK
  <2>2. \A a : InFlightOn(a) \in SUBSET Tasks
    BY DEF InFlightOn, TypeOK, IsMap
  <2>3. \A a : InFlightOn(a)' = IF a = o THEN InFlightOn(a) \ {t} ELSE InFlightOn(a)
    BY <1>2 DEF ReleaseOwner, Erase, InFlightOn
  <2>4. t \in InFlightOn(o)
    BY <1>2 DEF InFlightOn
  <2>5. TotalDemand(InFlightOn(o)) = TotalDemand(InFlightOn(o) \ {t}) + DemandOf(t)
    BY <2>2, <2>4, DemandWithout
  <2>6. TotalDemand(InFlightOn(o) \ {t}) \in Nat /\ DemandOf(t) \in Nat
    <3>1. InFlightOn(o) \ {t} \in SUBSET Tasks
      BY <2>2
    <3> QED BY <3>1, SlotsFinite, TaskAttributes
  <2>7. current_load[o] = external_load[o] + TotalDemand(InFlightOn(o))
    BY <2>1 DEF LoadAccounting
  <2>8. external_load[o] \in Nat /\ current_load[o] \in Nat
    BY <2>1 DEF TypeOK
  <2>9. Largest(0, current_load[o] - DemandOf(t)) =
          external_load[o] + TotalDemand(InFlightOn(o) \ {t})
    BY <2>5, <2>6, <2>7, <2>8 DEF Largest
  <2>10. /\ current_load'[o] = external_load[o] + TotalDemand(InFlightOn(o) \ {t})
         /\ \A a \in Actors \ {o} : current_load'[a] = current_load[a]
    <3>1. CASE current_load[o] > 0
      BY <1>2, <2>1, <2>9, <3>1 DEF ReleaseOwner, TypeOK
    <3>2. CASE current_load[o] = 0
      BY <1>2, <2>1, <2>5, <2>6, <2>7, <2>8, <3>2 DEF ReleaseOwner
    <3> QED BY <2>8, <3>1, <3>2
  <2>11. /\ DOMAIN actor_load' \subseteq DOMAIN actor_load \cup {o}
         /\ \A a \in DOMAIN actor_load \ {o} : actor_load'[a] = actor_load[a]
    BY <1>2 DEF ReleaseOwner, Put
  <2>12. o \in DOMAIN actor_load' => actor_load'[o] = current_load'[o]
    <3>1. CASE current_load[o] > 0
      <4>1. actor_load' = Put(actor_load, o, Largest(0, current_load[o] - DemandOf(t)))
        BY <1>2, <2>1, <3>1 DEF ReleaseOwner
      <4> QED BY <2>9, <2>10, <4>1 DEF Put
    <3>2. CASE current_load[o] = 0
      BY <1>2, <2>1, <3>2 DEF ReleaseOwner, LoadAccounting
    <3> QED BY <2>8, <3>1, <3>2
  <2>13. registered \subseteq Actors /\ DOMAIN actor_load \subseteq Actors
    BY DEF TypeOK, IsMap
  <2>14. \A a \in registered :
            current_load'[a] = external_load[a] + TotalDemand(InFlightOn(a)')
    <3> TAKE a \in registered
    <3>1. CASE a = o
      BY <2>3, <2>10, <3>1
    <3>2. CASE a # o
      BY <2>3, <2>10, <2>13, <3>2 DEF LoadAccounting
    <3> QED BY <3>1, <3>2
  <2>15. \A a \in DOMAIN actor_load' : actor_load'[a] = current_load'[a]
    <3> HIDE DEF o
    <3> QED BY <2>10, <2>11, <2>12, <2>13 DEF LoadAccounting
  <2> QED
    BY <2>14, <2>15 DEF LoadAccounting
<1> QED
  BY <1>1, <1>2

(* A pass of apply_dispatch gives each actor the demand of its new tasks,  *)
(* none of which was in flight.                                            *)
LEMMA DispatchIsExact ==
    ASSUME TypeOK, InFlightExclusive, OwnersRegistered, LoadAccounting,
           NEW n, ApplyDispatch(n), UNCHANGED <<registered, external_load>>
    PROVE  LoadAccounting'
<1> DEFINE D == Dispatchable(n)
           busy == {latest_schedule[t].actor : t \in D}
<1>1. /\ D \subseteq Tasks
      /\ D \cap DOMAIN task_actor = {}
      /\ \A t \in D : latest_schedule[t].actor \in registered
  BY DEF Dispatchable, TypeOK, IsMap, InFlightExclusive, OwnersRegistered
<1>2. \A a : InFlightOn(a)' = InFlightOn(a) \cup Given(D, a)
  <2>1. task_actor' = [t \in DOMAIN task_actor \cup D |->
                          IF t \in D THEN latest_schedule[t].actor ELSE task_actor[t]]
    BY DEF ApplyDispatch
  <2> HIDE DEF D
  <2> QED BY <1>1, <2>1 DEF InFlightOn, Given
<1>3. \A a \in registered : current_load'[a] = current_load[a] + TotalDemand(Given(D, a))
  BY DEF ApplyDispatch, TypeOK
<1>4. ASSUME NEW a \in registered
      PROVE  current_load'[a] = external_load[a] + TotalDemand(InFlightOn(a)')
  <2>1. InFlightOn(a) \in SUBSET Tasks /\ Given(D, a) \in SUBSET Tasks
    BY <1>1 DEF InFlightOn, Given, TypeOK, IsMap
  <2>2. InFlightOn(a) \cap Given(D, a) = {}
    BY <1>1 DEF InFlightOn, Given
  <2>3. TotalDemand(InFlightOn(a) \cup Given(D, a)) =
           TotalDemand(InFlightOn(a)) + TotalDemand(Given(D, a))
    BY <2>1, <2>2, DemandOfUnion
  <2>4. TotalDemand(InFlightOn(a)) \in Nat /\ TotalDemand(Given(D, a)) \in Nat
    BY <2>1, SlotsFinite
  <2>5. external_load[a] \in Nat
    BY DEF TypeOK
  <2>6. current_load[a] = external_load[a] + TotalDemand(InFlightOn(a))
    BY DEF LoadAccounting
  <2>7. TotalDemand(InFlightOn(a)') = TotalDemand(InFlightOn(a)) + TotalDemand(Given(D, a))
    BY <1>2, <2>3, Zenon
  <2>8. current_load'[a] = current_load[a] + TotalDemand(Given(D, a))
    BY <1>3
  <2> HIDE DEF D
  <2> QED
    BY <2>4, <2>5, <2>6, <2>7, <2>8
<1>5. ASSUME NEW a \in DOMAIN actor_load' PROVE actor_load'[a] = current_load'[a]
  <2>1. actor_load' = [b \in DOMAIN actor_load \cup busy |->
                         IF b \in busy
                         THEN IF b \in registered
                              THEN current_load[b] + TotalDemand(Given(D, b)) ELSE 0
                         ELSE actor_load[b]]
    BY DEF ApplyDispatch
  <2>2. busy \subseteq registered /\ DOMAIN actor_load \subseteq registered
    BY <1>1 DEF OwnersRegistered
  <2>3. CASE a \in busy
    <3> HIDE DEF busy, D
    <3> QED BY <1>3, <2>1, <2>2, <2>3
  <2>4. CASE a \notin busy
    <3>1. Given(D, a) = {}
      BY <2>4 DEF Given
    <3>2. a \in DOMAIN actor_load /\ actor_load'[a] = actor_load[a]
      <4> HIDE DEF busy, D
      <4> QED BY <2>1, <2>4
    <3>3. current_load[a] \in Nat
      BY <3>2 DEF TypeOK, IsMap
    <3>4. current_load'[a] = current_load[a]
      <4>1. current_load'[a] = current_load[a] + TotalDemand(Given(D, a))
        BY <1>3, <2>2, <3>2
      <4> HIDE DEF D
      <4> QED BY <3>1, <3>3, <4>1, DemandOfEmpty
    <3> QED
      BY <3>2, <3>4 DEF LoadAccounting
  <2> QED
    BY <2>3, <2>4
<1> QED
  BY <1>4, <1>5 DEF LoadAccounting

LEMMA LoadAccountingInductive ==
    /\ TypeOK /\ InFlightExclusive /\ OwnersRegistered /\ LoadAccounting
    /\ [CalmNext]_vars
    => LoadAccounting'
<1> SUFFICES ASSUME TypeOK, InFlightExclusive, OwnersRegistered, LoadAccounting,
                    [CalmNext]_vars
             PROVE  LoadAccounting'
  OBVIOUS
<1> USE DEF stateVars, registryVars
<1>1. ASSUME NEW a \in Actors \ registered, NEW load \in InitialLoads, RegisterActor(a, load)
      PROVE  LoadAccounting'
  <2>1. \A b : InFlightOn(b)' = InFlightOn(b)
    BY <1>1 DEF RegisterActor, InFlightOn
  <2>2. InFlightOn(a) = {} /\ a \notin DOMAIN actor_load
    BY DEF InFlightOn, OwnersRegistered
  <2>3. load \in Nat /\ TotalDemand(InFlightOn(a)) = 0
    BY <2>2, BoundsAssumption, DemandOfEmpty
  <2>4. /\ registered' = registered \cup {a}
        /\ current_load'[a] = load /\ external_load'[a] = load
        /\ \A b \in Actors \ {a} : /\ current_load'[b] = current_load[b]
                                   /\ external_load'[b] = external_load[b]
        /\ actor_load' = actor_load
    BY <1>1 DEF RegisterActor, TypeOK
  <2>5. registered \subseteq Actors /\ DOMAIN actor_load \subseteq Actors
    BY DEF TypeOK, IsMap
  <2>6. \A b \in registered' :
           current_load'[b] = external_load'[b] + TotalDemand(InFlightOn(b)')
    <3> TAKE b \in registered'
    <3>1. CASE b = a
      BY <2>1, <2>3, <2>4, <3>1
    <3>2. CASE b # a
      BY <2>1, <2>4, <2>5, <3>2 DEF LoadAccounting
    <3> QED BY <3>1, <3>2
  <2> QED
    BY <2>2, <2>4, <2>5, <2>6 DEF LoadAccounting
<1>2. ASSUME NEW n \in now..MaxTime, TickDispatch(n) PROVE LoadAccounting'
  BY <1>2, DispatchIsExact DEF TickDispatch
<1>3. CASE \E t \in Tasks, b \in BOOLEAN : NotifyTaskFailed(t, b)
  BY <1>3, ReleaseIsExact DEF NotifyTaskFailed
<1>4. CASE \E t \in Tasks, at \in 0..MaxTime : NotifyTaskCompleted(t, at)
  BY <1>4, ReleaseIsExact DEF NotifyTaskCompleted
<1>5. CASE UNCHANGED <<task_actor, actor_load, registered, current_load, external_load>>
  BY <1>5 DEF LoadAccounting, InFlightOn
<1> QED
  BY <1>1, <1>2, <1>3, <1>4, <1>5
     DEF CalmNext, Configure, Execute, Flap, AnyFeedback, SetSchedulingStrategy,
         SetActorRankingProfile, Start, TickPlan, PlanInternal, FinishPlanning,
         SetActorUnavailable, MarkTaskResumable, CompletePhase, vars
=============================================================================
