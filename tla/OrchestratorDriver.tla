------------------------- MODULE OrchestratorDriver -------------------------
(***************************************************************************)
(* The loop that drives an Orchestrator in the scenario tests: it ticks    *)
(* the orchestrator as simulated time goes by and reports what execution   *)
(* did.  After complete_phase it toggles the marker actor, as the multi-   *)
(* phase tests do, because complete_phase itself requests no replan.  A    *)
(* punctual driver lets time move on only when the orchestrator has        *)
(* nothing left to do at the present time, and has reported on a task by   *)
(* the tick of its planned end; execution under the others may be late.    *)
(***************************************************************************)
EXTENDS Orchestrator

CONSTANT MaxFailures       \* bound on the failures execution reports

ASSUME DriverAssumption == MaxFailures \in Nat

VARIABLES
    punctual,       \* execution keeps to the planned times
    owes_replan,    \* the driver completed a phase and has not toggled yet
    failures        \* failures reported so far

driverVars == <<vars, punctual, owes_replan, failures>>

DriverInit == Init /\ punctual \in BOOLEAN /\ owes_replan = FALSE /\ failures = 0

Quiet ==
    /\ ~replan_requested
    /\ planner.last_known # "Dispatching"
    /\ Dispatchable(now) = {}
    /\ \A t \in assigned_tasks : now + 1 < PlannedEnd(t)

Others == UNCHANGED <<punctual, owes_replan, failures>>

Setup == DrivenSetup /\ Others

Ticks(n) == n <= MaxTime /\ (TickPlan(n) \/ TickDispatch(n)) /\ Others

TickAgain == Ticks(now)
TickLater == (punctual => Quiet) /\ Ticks(now + 1)

Plan == (PlanInternal \/ FinishPlanning) /\ Others

(* Reported between tick(now) and tick(now + 1). *)
Completes(t) ==
    /\ t \in assigned_tasks
    /\ \E at \in {now, now + 1} : at <= MaxTime /\ NotifyTaskCompleted(t, at)
    /\ Others

Fails(t, resumable) ==
    /\ t \in assigned_tasks
    /\ failures < MaxFailures
    /\ NotifyTaskFailed(t, resumable)
    /\ failures' = failures + 1
    /\ UNCHANGED <<punctual, owes_replan>>

Resumes(t) == t \in unresumable_tasks /\ MarkTaskResumable(t) /\ Others

EndsPhase(ph) ==
    /\ PhaseSettled(ph)
    /\ CompletePhase(ph)
    /\ owes_replan' = TRUE
    /\ UNCHANGED <<punctual, failures>>

(* TriggerReplan of the tests: marker unavailable, then available again. *)
TogglesMarker ==
    /\ ~planning
    /\ owes_replan
    /\ replan_requested' = TRUE
    /\ owes_replan' = FALSE
    /\ UNCHANGED <<stateVars, registryVars, settingVars, planVars, planner,
                   started, latest_schedule, now, external_load, punctual,
                   failures>>

ActorLeaves(a) ==
    /\ started
    /\ failures < MaxFailures
    /\ SetActorUnavailable(a, TRUE)
    /\ failures' = failures + 1
    /\ UNCHANGED <<punctual, owes_replan>>

ActorReturns(a) == SetActorUnavailable(a, FALSE) /\ Others

DriverNext ==
    \/ Setup
    \/ TickAgain
    \/ TickLater
    \/ Plan
    \/ \E t \in Tasks : Completes(t)
    \/ \E t \in Tasks, resumable \in BOOLEAN : Fails(t, resumable)
    \/ \E t \in Tasks : Resumes(t)
    \/ \E ph \in Phases : EndsPhase(ph)
    \/ TogglesMarker
    \/ \E a \in Actors : ActorLeaves(a) \/ ActorReturns(a)

DriverSpec == DriverInit /\ [][DriverNext]_driverVars

(***************************************************************************)
(* Fairness.  plan terminates and the driver keeps ticking; every task in  *)
(* flight ends, every failed task is made resumable, every actor that left *)
(* returns, every settled phase is completed and every toggle owed is      *)
(* made: the simulated clock fires every event it was given.  The calls    *)
(* are disabled while plan runs, so the fairness of the driver's own calls *)
(* is strong.                                                              *)
(***************************************************************************)
Fairness ==
    /\ WF_driverVars(Setup)
    /\ WF_driverVars(Plan)
    /\ SF_driverVars(TickAgain)
    /\ SF_driverVars(TickLater)
    /\ SF_driverVars(\E t \in Tasks : Completes(t))
    /\ SF_driverVars(\E t \in Tasks : Resumes(t))
    /\ SF_driverVars(\E ph \in Phases : EndsPhase(ph))
    /\ SF_driverVars(TogglesMarker)
    /\ SF_driverVars(\E a \in Actors : ActorReturns(a))

FairSpec == DriverSpec /\ Fairness

-----------------------------------------------------------------------------
(* The workflow keeps moving: every phase is completed and every task is   *)
(* done or excluded, whatever fails and resumes on the way.                *)
WorkflowCompletes ==
    <>(Phases \subseteq completed_phases /\ \A t \in Tasks : Settled(t))

(* When execution keeps to the planned times, no actor is given more than  *)
(* its capacity, although apply_dispatch raises current_load without       *)
(* comparing the two.                                                      *)
CapacityRespected ==
    punctual => \A a \in registered : current_load[a] <= Capacity[a]
=============================================================================
