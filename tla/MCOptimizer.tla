---------------------------- MODULE MCOptimizer -----------------------------
(***************************************************************************)
(* Requests small enough for TLC to enumerate every selection of options,  *)
(* and such that each rule of the model decides one of them.               *)
(***************************************************************************)
EXTENDS Optimizer

Task(duration, priority) ==
    [duration |-> duration, release |-> 0, latest |-> 0, deadline |-> 0,
     priority |-> priority, demand |-> 1, mandatory |-> TRUE, preemptible |-> FALSE,
     types |-> {}, actorIds |-> {}, preferred |-> {}, caps |-> {}, deps |-> {},
     mutex |-> {}, distances |-> <<>>, earlyBonus |-> 0]

Actor(type, capacity, windows) ==
    [type |-> type, capacity |-> capacity, windows |-> windows, caps |-> {}, cost |-> 1]

Window(start, end) == [start |-> start, end |-> end]

Opts(name, partial) == [DefaultOptions EXCEPT !.backend = name, !.partial = partial]

RequestTo(names, actors, tasks) ==
    {[text |-> FALSE, options |-> Opts(name, partial), actors |-> actors, tasks |-> tasks] :
        name \in names, partial \in BOOLEAN}

Request(actors, tasks) == RequestTo({"indexed_exact", "mip", "any"}, actors, tasks)

(* A chain over two actors, one of them with a gap between its windows and *)
(* room for two; the last task must not be late.                           *)
Chain == Request(
    <<Actor("robot", 2, <<Window(0, 1), Window(2, 4)>>), Actor("human", 1, <<Window(1, 3)>>)>>,
    <<[Task(1, 1) EXCEPT !.actorIds = {1}, !.demand = 2],
      [Task(2, 2) EXCEPT !.deps = {1}, !.deadline = 4, !.preferred = {2},
                         !.distances = (1 :> 2)],
      [Task(1, 0) EXCEPT !.types = {"robot"}, !.release = 2, !.mandatory = FALSE]>>)

(* The most important task takes the room of two others, which together    *)
(* weigh more than it does with the task that hangs on it.                 *)
Trade == Request(
    <<Actor("robot", 2, <<Window(0, 2)>>), Actor("human", 1, <<Window(0, 2)>>)>>,
    <<[Task(2, 3) EXCEPT !.actorIds = {1}, !.demand = 2, !.mandatory = FALSE],
      [Task(2, 2) EXCEPT !.types = {"robot"}],
      [Task(2, 2) EXCEPT !.actorIds = {1, 2}, !.types = {"robot"}, !.mandatory = FALSE],
      [Task(1, 0) EXCEPT !.deps = {1}, !.types = {"human"}, !.mandatory = FALSE]>>)

(* Requests the solvers turn down, or that no backend can place whole, an  *)
(* exclusion, a dependency on an unknown task, a task of no duration and a *)
(* task that depends on itself.                                            *)
Odd ==
    Request(<<Actor("robot", 1, <<Window(0, 2)>>)>>,
            <<[Task(2, 1) EXCEPT !.preemptible = TRUE], [Task(1, 1) EXCEPT !.caps = {"lift"}]>>)
    \cup Request(<<Actor("robot", 1, <<Window(0, 3)>>)>>,
            <<Task(3, 1), [Task(2, 1) EXCEPT !.caps = {"lift"}]>>)
    \cup Request(<<Actor("robot", 2, <<Window(1, 3)>>)>>,
            <<[Task(1, 1) EXCEPT !.mutex = {2}], [Task(2, 2) EXCEPT !.mutex = {1}],
              [Task(1, 0) EXCEPT !.deps = {9}], [Task(0, 1) EXCEPT !.mandatory = FALSE]>>)
    \cup Request(<<Actor("robot", 1, <<Window(0, 2)>>)>>,
            <<[Task(1, 1) EXCEPT !.deps = {1}, !.mandatory = FALSE], Task(1, 2)>>)

(* Every combination of a dependency, an exclusion, a deadline, a demand   *)
(* and a duration among three tasks that compete for two actors.           *)
Family == UNION {RequestTo({"any"},
    <<Actor("robot", 2, <<Window(0, 1), Window(2, 4)>>), Actor("human", 1, <<Window(1, 3)>>)>>,
    <<[Task(duration, 1) EXCEPT !.demand = demand, !.actorIds = {1}],
      [Task(1, 2) EXCEPT !.deps = deps, !.deadline = deadline, !.mutex = mutex, !.types = {"robot"}],
      [Task(2, 0) EXCEPT !.deps = deps3, !.mutex = IF mutex = {} THEN {} ELSE {2},
                         !.mandatory = (deadline = 0)]>>) :
    duration \in 1..2, demand \in 1..2, deps \in {{}, {1}}, deadline \in {0, 3},
    mutex \in {{}, {3}}, deps3 \in {{}, {1}, {2}}}

(* A task that would fit at its start but not around one placed before it. *)
Gap == Request(
    <<Actor("robot", 1, <<Window(0, 4)>>)>>,
    <<[Task(1, 2) EXCEPT !.release = 1, !.latest = 1], Task(2, 1)>>)

(* The weights, the gap and a priority of the configurations shipped: the  *)
(* important task outweighs the two whose room it takes.  Without weight   *)
(* on the priority fulfilment comes first, unless the gap is wide.         *)
Rivals == UNION {{[r EXCEPT !.options.fulfilledWeight = 100, !.options.priorityWeight = weight,
                            !.options.gap = gap] :
    r \in Request(
        <<[Actor("robot", 2, <<Window(0, 2)>>) EXCEPT !.cost = 2]>>,
        <<[Task(2, 10) EXCEPT !.demand = 2, !.mandatory = FALSE],
          [Task(2, 1) EXCEPT !.mandatory = FALSE], [Task(1, 0) EXCEPT !.mandatory = FALSE]>>)} :
    weight \in {0, 20}, gap \in {0, 500, 10000}}

Texts ==
    {[r EXCEPT !.text = TRUE,
               !.tasks = [t \in DOMAIN @ |-> ToOptimizerTask(@[t])]] :
        r \in {q \in Chain : q.options.partial}}

MCBuilds ==
    {{}, {"indexed_exact"}, {"indexed_exact", "commercial_mip"},
     {"indexed_exact", "commercial_mip", "ortools_cp_sat"}}

MCRequests == Chain \cup Trade \cup Gap \cup Rivals \cup Family \cup Odd \cup Texts
=============================================================================
