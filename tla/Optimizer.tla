----------------------------- MODULE Optimizer ------------------------------
(***************************************************************************)
(* One run of the workflow optimiser, from the runner's request to the     *)
(* exit code: the backend registry picks a backend; the exact backend      *)
(* searches depth first, one node of dfs at a time, or a solver backend    *)
(* builds its rows and hands them to an external solver, which may return  *)
(* an optimum, merely a feasible point, or nothing.                        *)
(***************************************************************************)
EXTENDS OptimizerModel

CONSTANTS
    Requests,     \* the requests the runner may be given
    Builds        \* the sets of backends a binary may have been linked with

VARIABLES
    request,     \* the configuration or the text's model being optimised
    linked,      \* the backends registered in this binary
    model,       \* the OptimizationModel it is translated to
    form,        \* the discrete-time formulation of a solver backend
    phase,       \* "requested", "search", "solve" or "done"
    backend,     \* the kind create_backend returned
    stack,       \* search states dfs has yet to enter, the next one first
    nodes,       \* stats.search_nodes: how many states dfs has entered
    best,        \* the best leaf so far: <<>> or <<search state>>
    result       \* the RunResult and exit code once done

vars == <<request, linked, model, form, phase, backend, stack, nodes, best, result>>

BackendAutoOrder == <<"ortools_cp_sat", "commercial_mip", "indexed_exact">>

(* The names of a backend a configuration may use; any other means auto. *)
BackendKindFromString(name) ==
    CASE name \in {"indexed_exact", "indexed_branch_and_bound"} -> "indexed_exact"
      [] name \in {"ortools_cp_sat", "cp_sat", "ortools"} -> "ortools_cp_sat"
      [] name \in {"commercial_mip", "mip"} -> "commercial_mip"
      [] OTHER -> "auto"

(* create_backend: the registered kind asked for, or the first in order. *)
CreateBackend(kind) ==
    LET order == IF kind = "auto" THEN BackendAutoOrder ELSE <<kind>>
    IN  SelectSeq(order, LAMBDA k : k \in linked)

(* A text request is optimised with the default options. *)
DefaultOptions ==
    [backend |-> "auto", partial |-> TRUE, priorityWeight |-> 1000, fulfilledWeight |-> 1000000,
     makespanWeight |-> -1, travelWeight |-> -1, costWeight |-> -1, preferredWeight |-> 10,
     gap |-> 0]

ToOptions == IF request.text THEN DefaultOptions ELSE request.options

ModelOf(r) ==
    IF r.text THEN [actors |-> r.actors, tasks |-> r.tasks] ELSE ToModel(r)

(***************************************************************************)
(* What the model's data are: ids and times are numbers, durations and     *)
(* demands are not negative, and there are finitely many of each.          *)
(***************************************************************************)
WellFormed(m) ==
    /\ IsFiniteSet(DOMAIN m.tasks) /\ DOMAIN m.tasks \subseteq Int
    /\ IsFiniteSet(DOMAIN m.actors) /\ DOMAIN m.actors \subseteq Int
    /\ \A t \in DOMAIN m.tasks :
          LET task == m.tasks[t] IN
          /\ {task.duration, task.demand, task.release, task.latest, task.deadline}
             \subseteq Nat
          /\ task.priority \in Int
          /\ \A a \in DOMAIN task.distances : task.distances[a] \in Int
    /\ \A a \in DOMAIN m.actors :
          /\ m.actors[a].capacity \in Int
          /\ IsFiniteSet(DOMAIN m.actors[a].windows) /\ DOMAIN m.actors[a].windows \subseteq Nat
          /\ \A i \in DOMAIN m.actors[a].windows :
                {m.actors[a].windows[i].start, m.actors[a].windows[i].end} \subseteq Nat

ASSUME RequestsAssumption ==
    /\ LargeTime \in Nat /\ PriorityBound \in Nat
    /\ \A r \in Requests : /\ WellFormed(ModelOf(r))
                           /\ ~r.text => r.options.priorityWeight \in Int

NoForm ==
    [options |-> {}, horizon |-> 0, slots |-> {}, dependencies |-> {}, exclusions |-> {}]

-----------------------------------------------------------------------------
(* to_run_result, and the exit code of the one-shot mode. *)
Report(ok, assigned, unfulfilled) ==
    [ok |-> ok, optimal |-> FALSE, assigned |-> assigned, unfulfilled |-> unfulfilled,
     exit |-> IF ~ok \/ unfulfilled # {} THEN 1 ELSE 0]

Failure == Report(FALSE, {}, {})

Planned(assigned) ==
    Report(TRUE, assigned, DOMAIN model.tasks \ {x.task : x \in assigned})

Finish(r) == phase' = "done" /\ result' = r

Init ==
    /\ request \in Requests
    /\ linked \in Builds
    /\ model = ModelOf(request)
    /\ form = NoForm
    /\ phase = "requested"
    /\ backend = "none"
    /\ stack = <<>>
    /\ nodes = 0
    /\ best = <<>>
    /\ result = Failure

(* optimize_text: the text cannot be parsed. *)
ParseFails ==
    /\ phase = "requested" /\ request.text
    /\ Finish(Failure)
    /\ UNCHANGED <<request, linked, model, form, backend, stack, nodes, best>>

(* WorkflowOptimizer::optimize up to the call of the backend's solve. *)
Optimize ==
    LET found == CreateBackend(BackendKindFromString(ToOptions.backend)) IN
    /\ phase = "requested"
    /\ \/ found = <<>> /\ Finish(Failure) /\ UNCHANGED <<backend, form, stack>>
       \/ /\ found # <<>>
          /\ backend' = Head(found)
          /\ phase' = IF Head(found) = "indexed_exact" THEN "search" ELSE "solve"
          /\ stack' = IF Head(found) = "indexed_exact"
                      THEN <<[assigned |-> {}, dropped |-> {}]>> ELSE <<>>
          /\ form' = IF Head(found) = "indexed_exact" THEN form ELSE Formulate(model)
          /\ UNCHANGED result
    /\ UNCHANGED <<request, linked, model, nodes, best>>

-----------------------------------------------------------------------------
(* dfs, on the state at the head of the stack. *)
Node == DropDescendants(model, Head(stack))

Score(s) == ScoreFor(model, ToOptions, s)

Hopeless ==
    /\ best # <<>>
    /\ ~BetterScore(Optimistic(model, ToOptions, Node), Score(best[1]))

Prune ==
    /\ phase = "search" /\ stack # <<>> /\ Hopeless
    /\ stack' = Tail(stack) /\ nodes' = nodes + 1
    /\ UNCHANGED <<request, linked, model, form, phase, backend, best, result>>

Leaf ==
    /\ phase = "search" /\ stack # <<>> /\ ~Hopeless
    /\ ReadyTasks(model, Node) = {}
    /\ best' = IF best = <<>> \/ BetterScore(Score(Node), Score(best[1]))
               THEN <<Node>> ELSE best
    /\ stack' = Tail(stack) /\ nodes' = nodes + 1
    /\ UNCHANGED <<request, linked, model, form, phase, backend, result>>

Branch ==
    /\ phase = "search" /\ stack # <<>> /\ ~Hopeless
    /\ ReadyTasks(model, Node) # {}
    /\ \E next \in Branches(model, ToOptions, Node) : stack' = next \o Tail(stack)
    /\ nodes' = nodes + 1
    /\ UNCHANGED <<request, linked, model, form, phase, backend, best, result>>

SearchEnds ==
    /\ phase = "search" /\ stack = <<>>
    /\ Finish(IF best = <<>> THEN Failure ELSE Planned(best[1].assigned))
    /\ UNCHANGED <<request, linked, model, form, backend, stack, nodes, best>>

-----------------------------------------------------------------------------
(* The solver backends. *)
Solvable ==
    /\ \A t \in DOMAIN model.tasks : ~model.tasks[t].preemptible
    /\ \A t \in DOMAIN model.tasks :
          Required(model, ToOptions, t) => TaskOptions(model, t) # {}

RejectModel ==
    /\ phase = "solve" /\ ~Solvable
    /\ Finish(Failure)
    /\ UNCHANGED <<request, linked, model, form, backend, stack, nodes, best>>

(* This build of OR-Tools has no mixed-integer engine. *)
MipUnavailable ==
    /\ phase = "solve" /\ Solvable /\ backend = "commercial_mip"
    /\ Finish(Failure)
    /\ UNCHANGED <<request, linked, model, form, backend, stack, nodes, best>>

(* The solve ended with a status that carries no solution. *)
SolverFails ==
    /\ phase = "solve" /\ Solvable
    /\ Finish(Failure)
    /\ UNCHANGED <<request, linked, model, form, backend, stack, nodes, best>>

RowsHold(sel) ==
    IF backend = "commercial_mip" THEN MipRowsHold(model, ToOptions, form, sel)
    ELSE CpSatRowsHold(model, ToOptions, form, sel)

Objective(sel) == SolverObjective(model, ToOptions, form, sel)

(* The relative gap the solve runs with, in ten-thousandths: without one   *)
(* in the options the MIP solver's own applies, and CP-SAT has none.       *)
MipGap == 1
SolverGap ==
    IF ToOptions.gap > 0 THEN ToOptions.gap
    ELSE IF backend = "commercial_mip" THEN MipGap ELSE 0

Abs(x) == Max({x, -x})
WithinGap(value) == (SolverGap * Max({1, Abs(value)})) \div 10000

(* OPTIMAL: no feasible point is better by more than the gap.              *)
SolverOptimal ==
    /\ phase = "solve" /\ Solvable
    /\ \E feasible \in {{sel \in SUBSET form.options : RowsHold(sel)}} :
         \E sel \in feasible :
            /\ \A other \in feasible :
                  Objective(other) <= Objective(sel) + WithinGap(Objective(sel))
            /\ Finish([Planned(sel) EXCEPT !.optimal = TRUE])
    /\ UNCHANGED <<request, linked, model, form, backend, stack, nodes, best>>

(* FEASIBLE: the time limit ended the solve early. *)
SolverSelects ==
    /\ phase = "solve" /\ Solvable
    /\ \E sel \in SUBSET form.options :
         /\ RowsHold(sel)
         /\ Finish(Planned(sel))
    /\ UNCHANGED <<request, linked, model, form, backend, stack, nodes, best>>

Done == phase = "done" /\ UNCHANGED vars

Next ==
    \/ ParseFails \/ Optimize
    \/ Prune \/ Leaf \/ Branch \/ SearchEnds
    \/ RejectModel \/ MipUnavailable \/ SolverFails \/ SolverOptimal \/ SolverSelects
    \/ Done

Spec == Init /\ [][Next]_vars

-----------------------------------------------------------------------------
(***************************************************************************)
(* What a schedule is, independently of how a backend finds one: where a   *)
(* task may be placed, and which placements go together.                   *)
(***************************************************************************)
PlacementAllowed(p) ==
    LET task == model.tasks[p.task]
        actor == model.actors[p.actor]
    IN  /\ task.actorIds = {} \/ p.actor \in task.actorIds
        /\ task.types = {} \/ actor.type \in task.types
        /\ task.caps \subseteq actor.caps
        /\ task.demand <= actor.capacity
        /\ p.end = p.start + task.duration
        /\ p.start >= task.release /\ p.start <= task.latest /\ p.end <= task.deadline
        /\ \E w \in Range(actor.windows) : w.start <= p.start /\ p.end <= w.end

Compatible(plan) ==
    /\ \A p, q \in plan : p.task = q.task => p = q
    /\ \A p, q \in plan : q.task \in model.tasks[p.task].mutex => p = q
    /\ \A p \in plan : \A d \in model.tasks[p.task].deps \cap DOMAIN model.tasks :
          \E q \in plan : q.task = d /\ q.end <= p.start
    /\ \A p \in plan : \A instant \in p.start..(p.end - 1) :
          SumOf([q \in {r \in plan : /\ r.actor = p.actor
                                     /\ r.start <= instant /\ instant < r.end}
                   |-> model.tasks[q.task].demand])
          <= model.actors[p.actor].capacity

Complete(plan) ==
    \A t \in DOMAIN model.tasks :
        Required(model, ToOptions, t) => \E p \in plan : p.task = t

Placements ==
    {[task |-> t, actor |-> a, start |-> s, end |-> s + model.tasks[t].duration] :
        t \in DOMAIN model.tasks, a \in DOMAIN model.actors,
        s \in 0..Max({w.end : w \in UNION {Range(model.actors[a].windows) :
                                             a \in DOMAIN model.actors}})}

(***************************************************************************)
(* The rows say what is meant: the options of the solver backends are the  *)
(* placements the request allows, and a selection satisfies the linear     *)
(* rows (the big-M ones included) exactly when it is a complete schedule.  *)
(* The MIP's rows let a task that depends on itself pass: its coefficients *)
(* as the successor are overwritten.                                       *)
(***************************************************************************)
SelfDependent == {t \in DOMAIN model.tasks : t \in model.tasks[t].deps}

RowsAreTheSchedules ==
    phase = "solve" =>
        /\ form.options = {p \in Placements : PlacementAllowed(p)}
        /\ (backend = "commercial_mip" => SelfDependent = {}) =>
              \A sel \in SUBSET form.options :
                 RowsHold(sel) <=> (Compatible(sel) /\ Complete(sel))

(***************************************************************************)
(* The exact backend, which shares no row with the solvers, returns a plan *)
(* they would accept: allowed placements that fit together.  A task of no  *)
(* duration skips its windows and an exclusion listed on one side only is  *)
(* not seen from the other, so both are excluded; a required task may be   *)
(* left out only when a dependency of it was.                              *)
(***************************************************************************)
Regular ==
    /\ \A t \in DOMAIN model.tasks : model.tasks[t].duration > 0
    /\ \A t, u \in DOMAIN model.tasks :
          t \in model.tasks[u].mutex => u \in model.tasks[t].mutex

ExactPlanIsASchedule ==
    (phase = "done" /\ backend = "indexed_exact" /\ result.ok /\ Regular) =>
        /\ \A p \in result.assigned : PlacementAllowed(p)
        /\ Compatible(result.assigned)
        /\ \A t \in result.unfulfilled :
              Required(model, ToOptions, t) =>
                  ~(model.tasks[t].deps \subseteq {p.task : p \in result.assigned})

(* The whole search tree, expanded level by level without bounds. *)
Children(m, options, s) == UNION {Range(next) : next \in Branches(m, options, s)}

Grow(m, options, S) ==
    {DropDescendants(m, k) : k \in
        UNION {Children(m, options, s) : s \in {q \in S : ReadyTasks(m, q) # {}}}}

TreeOf(m, options) ==
    LET root == DropDescendants(m, [assigned |-> {}, dropped |-> {}])
        level[d \in 0..Cardinality(DOMAIN m.tasks)] ==
            IF d = 0 THEN {root} ELSE Grow(m, options, level[d - 1])
    IN  UNION {level[d] : d \in DOMAIN level}

Tree == TreeOf(model, ToOptions)

Leaves == {s \in Tree : ReadyTasks(model, s) = {}}

(***************************************************************************)
(* Pruning loses nothing: when the search ends, no leaf of the whole tree  *)
(* beats the plan returned, as long as no task weighs more than the bound  *)
(* allows for.                                                             *)
(***************************************************************************)
ExactIsBest ==
    (phase = "done" /\ backend = "indexed_exact"
     /\ \A t \in DOMAIN model.tasks :
           model.tasks[t].priority * ToOptions.priorityWeight <= PriorityBound) =>
        /\ result.ok <=> Leaves # {}
        /\ result.ok => \A s \in Leaves : ~BetterScore(Score(s), Score(best[1]))

(***************************************************************************)
(* The backends agree on what comes first: a solver's optimum fulfils at   *)
(* least as many tasks as any plan the exact search weighs, although the   *)
(* one adds up weights and the other compares tuples.  They agree when one *)
(* task's fulfilled weight exceeds all that the other terms of two plans,  *)
(* their makespans and the gap can add up to.                              *)
(***************************************************************************)
OtherTerms(o) ==
    LET task == model.tasks[o.task]
        furthest == Max({0} \cup {Abs(task.distances[a]) : a \in DOMAIN task.distances}) + 1
    IN  Abs(task.priority * ToOptions.priorityWeight) + Abs(furthest * ToOptions.travelWeight)
        + Abs(model.actors[o.actor].cost * task.duration * ToOptions.costWeight)
        + Abs(task.earlyBonus * o.start) + Abs(ToOptions.preferredWeight)

FulfilmentDominates ==
    LET tasks == Cardinality(DOMAIN model.tasks)
        terms == Max({0} \cup {OtherTerms(o) : o \in form.options})
        makespan == Abs(ToOptions.makespanWeight) * form.horizon
    IN  (2 * tasks - 1) * terms + makespan
        + WithinGap(tasks * (ToOptions.fulfilledWeight + terms) + makespan)
        < ToOptions.fulfilledWeight

OptimumFulfilsMost ==
    (phase = "done" /\ result.optimal /\ Regular /\ FulfilmentDominates) =>
        \A s \in Leaves : Complete(s.assigned) =>
            Cardinality(s.assigned) <= Cardinality(result.assigned)

(***************************************************************************)
(* dfs ends: it never enters more states than the tree has, so it neither  *)
(* visits a state twice nor descends without deciding a task.              *)
(***************************************************************************)
SearchIsBounded == phase = "search" => nodes <= Cardinality(Tree)
=============================================================================
