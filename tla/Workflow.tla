------------------------------ MODULE Workflow ------------------------------
(***************************************************************************)
(* The static input of the orchestration core: phases, processes, the      *)
(* tasks they give rise to, and the actors that may run them.  A Workflow  *)
(* is set once and only read afterwards, so it is a set of constants.      *)
(*                                                                         *)
(* Identifiers are strings in the code; only their lexicographic order is  *)
(* ever used (to break ties), so here they are numbers.  A std::optional   *)
(* field is a function whose domain is the processes that have the field.  *)
(***************************************************************************)
EXTENDS Integers, FiniteSets

CONSTANTS
    Processes,    \* ids of the Process objects
    Tasks,        \* ids of schedulable tasks: processes and sub-processes
    ProcessOf,    \* the process a task belongs to
    Phases,       \* ids of the Phase objects
    PhaseIds,     \* ids a caller may pass to complete_phase (maybe unknown)
    PhaseOf,      \* the phase that lists a process in process_ids
    PhaseDeps,    \* dependency_phase_ids
    Duration, Priority, Demand, ReleaseTime,    \* fields of Process
    Deadline, LatestStart,                      \* optional fields of Process
    Preemptible,  \* the processes flagged preemptible
    Deps,         \* dependency_task_ids of a process
    Mutex,        \* mutually_exclusive_task_ids of a process
    Allowed,      \* actors passing the id, type and capability constraints
    Preferred,    \* preferred_actor_ids
    Distances     \* actor_distances: a partial function on actors

CONSTANTS
    Actors,       \* ids of the actors that may be registered
    Marker,       \* an id no registered actor has
    Capacity, ExecutionCost,
    Windows       \* availability_windows: a set of [start, end] records

Time == Nat
ActorIds == Actors \cup {Marker}

(***************************************************************************)
(* Assumptions on the input that the code relies on without checking them: *)
(* demands and capacities are not negative, a process is its own task, and *)
(* the sets are finite.                                                    *)
(***************************************************************************)
ASSUME TasksAssumption ==
    /\ IsFiniteSet(Tasks)
    /\ Tasks \subseteq Nat
    /\ Processes \subseteq Tasks
    /\ ProcessOf \in [Tasks -> Processes]
    /\ \A p \in Processes : ProcessOf[p] = p

ASSUME PhasesAssumption ==
    /\ IsFiniteSet(PhaseIds)
    /\ Phases \subseteq PhaseIds
    /\ PhaseIds \subseteq Nat
    /\ PhaseOf \in [Processes -> Phases]
    /\ PhaseDeps \in [Phases -> SUBSET Phases]

ASSUME AttributesAssumption ==
    /\ Duration \in [Processes -> Nat]
    /\ Priority \in [Processes -> Int]
    /\ Demand \in [Processes -> Nat]
    /\ ReleaseTime \in [Processes -> Time]
    /\ Deadline \in [DOMAIN Deadline -> Time]
    /\ LatestStart \in [DOMAIN LatestStart -> Time]
    /\ Preemptible \subseteq Processes
    /\ Deps \in [Processes -> SUBSET Tasks]
    /\ Mutex \in [Processes -> SUBSET Tasks]
    /\ Allowed \in [Processes -> SUBSET Actors]
    /\ Preferred \in [Processes -> SUBSET Actors]
    /\ \A p \in Processes : Distances[p] \in [DOMAIN Distances[p] -> Time]

ASSUME ActorsAssumption ==
    /\ IsFiniteSet(Actors)
    /\ Actors \subseteq Nat
    /\ Marker \notin Actors
    /\ Capacity \in [Actors -> Nat]
    /\ ExecutionCost \in [Actors -> Nat]
    /\ \A a \in Actors : \A w \in Windows[a] : w.start \in Time /\ w.end \in Time

-----------------------------------------------------------------------------
(* Fault: the dependencies of a phase are not looked at. *)
ReadyPhases_ignoresDeps(completed) == Phases \ completed

(* Phases none of whose dependencies is missing and that are not complete. *)
ReadyPhases(completed) ==
    {ph \in Phases \ completed : PhaseDeps[ph] \subseteq completed}

(* The tasks of the processes a phase lists, sub-processes included. *)
TaskIdsForPhase(ph) == {t \in Tasks : PhaseOf[ProcessOf[t]] = ph}

DurationOf(t) == Duration[ProcessOf[t]]
DemandOf(t) == Demand[ProcessOf[t]]
DepsOf(t) == Deps[ProcessOf[t]]
MutexOf(t) == Mutex[ProcessOf[t]]
PhaseOfTask(t) == PhaseOf[ProcessOf[t]]

(***************************************************************************)
(* The demand of a set of tasks, as the number of unit slots they take.    *)
(***************************************************************************)
Slots(S) == UNION {{t} \X (1..DemandOf(t)) : t \in S}
TotalDemand(S) == Cardinality(Slots(S))

(* Farthest known distance plus padding, or 0 when no distance is known. *)
FallbackDistance(d) ==
    IF DOMAIN d = {} THEN 0
    ELSE 1 + (CHOOSE m \in {d[a] : a \in DOMAIN d} : \A b \in DOMAIN d : d[b] <= m)

DistanceToWork(t, a) ==
    LET d == Distances[ProcessOf[t]]
    IN  IF a \in DOMAIN d THEN d[a] ELSE FallbackDistance(d)
=============================================================================
