--------------------------- MODULE MCOrchestrator ---------------------------
(***************************************************************************)
(* Orchestrator for TLC: the number of calls its environment makes, which  *)
(* the specifications leave open, is bounded by a counter.                 *)
(***************************************************************************)
EXTENDS Orchestrator, MCInstances

CONSTANT MaxCalls     \* bound on the feedback and reconfiguration calls

VARIABLES
    calls,        \* how many of them were made
    disturbed     \* history: the workflow was reloaded or an actor replaced

mcVars == <<vars, calls, disturbed>>

Free(A) == A /\ UNCHANGED <<calls, disturbed>>
Counted(A) == calls < MaxCalls /\ A /\ calls' = calls + 1 /\ UNCHANGED disturbed
Disturbing(A) == calls < MaxCalls /\ A /\ calls' = calls + 1 /\ disturbed' = TRUE

MCInit == Init /\ calls = 0 /\ disturbed = FALSE

(* Next and DrivenNext with their calls counted. *)
MCAnyNext ==
    \/ Free(Configure)
    \/ Free(Execute)
    \/ Counted(Start)
    \/ Disturbing(SetWorkflow)
    \/ Disturbing(\E a \in registered, load \in InitialLoads : RegisterActor(a, load))
    \/ Counted(Flap)
    \/ Counted(AnyFeedback)

MCDrivenNext ==
    \/ Free(DrivenSetup)
    \/ Free(Execute)
    \/ started /\ Counted(Flap)
    \/ started /\ Counted(DrivenFeedback)

MCAnySpec == MCInit /\ [][MCAnyNext]_mcVars
MCDrivenSpec == MCInit /\ [][MCDrivenNext]_mcVars

-----------------------------------------------------------------------------
(* Under late, repeated and contradictory notifications the two copies of  *)
(* an actor's load account for the tasks in flight on it, as long as the   *)
(* workflow and the actors are set once.                                   *)
LoadAccounts == disturbed \/ LoadAccounting

(* apply_dispatch does not look at phases, and the schedule it uses may be *)
(* old: still no task starts before the phases its phase depends on, as    *)
(* long as the workflow and the actors are set once.                       *)
DispatchesAfterPhases ==
    [][disturbed' \/ \A t \in assigned_tasks' \ assigned_tasks :
          PhaseDeps[PhaseOfTask(t)] \subseteq completed_phases]_mcVars
=============================================================================
