--------------------------- MODULE OptimizerModel ---------------------------
(***************************************************************************)
(* What the optimiser is given and what its backends compute from it: the  *)
(* runner's translation of a workflow configuration, the ConstraintIndex,  *)
(* the steps of the exact branch-and-bound search, and the discrete-time   *)
(* formulation the two solver backends share.  Everything here is a        *)
(* function of its arguments; Optimizer runs it.                           *)
(*                                                                         *)
(* Identifiers are numbers (only their order is used), lists whose order   *)
(* no result depends on are sets, and doubles are in thousandths, the      *)
(* factor scale_double multiplies them by.  A missing std::optional bound  *)
(* is LargeTime, past every time of an instance, as kLargeTime is.         *)
(***************************************************************************)
EXTENDS Integers, FiniteSets, FiniteSetsExt, Sequences, SequencesExt

CONSTANTS
    LargeTime,         \* kLargeTime
    PriorityBound      \* kPriorityOptimizationUpperBoundPerTask

(* The sum of the values of a function, counted in unit slots: as many     *)
(* slots as the positive values ask for, less those of the negative ones.  *)
UnitSlots(f) == UNION {{x} \X (1..f[x]) : x \in DOMAIN f}
SumOf(f) ==
    Cardinality(UnitSlots(f)) - Cardinality(UnitSlots([x \in DOMAIN f |-> -f[x]]))

Least(S) == {x \in S : \A y \in S : x <= y}
Greatest(S) == {x \in S : \A y \in S : y <= x}

(* std::tuple's operator<. *)
LexLess(u, v) ==
    \E i \in DOMAIN u : u[i] < v[i] /\ \A j \in 1..(i - 1) : u[j] = v[j]

-----------------------------------------------------------------------------
(* The runner: a bound of 0 in a configuration means there is none. *)
OptionalTime(t) == IF t > 0 THEN t ELSE LargeTime

ToOptimizerTask(c) ==
    [c EXCEPT !.latest = OptionalTime(@), !.deadline = OptionalTime(@)]

ToModel(config) ==
    [actors |-> config.actors,
     tasks |-> [t \in DOMAIN config.tasks |-> ToOptimizerTask(config.tasks[t])]]

-----------------------------------------------------------------------------
(* The constraint index. *)
EligibleActors(m, t) ==
    {a \in DOMAIN m.actors :
        /\ m.tasks[t].actorIds # {} => a \in m.tasks[t].actorIds
        /\ m.tasks[t].types # {} => m.actors[a].type \in m.tasks[t].types}

DependenciesSatisfied(m, t, s) ==
    m.tasks[t].deps \subseteq ({x.task : x \in s.assigned} \ s.dropped)

DependencyBlocked(m, t, dropped) == m.tasks[t].deps \cap dropped # {}

(* The two checks both kinds of backend make on an eligible actor. *)
Capable(m, t, a) ==
    /\ m.tasks[t].demand <= m.actors[a].capacity
    /\ m.tasks[t].caps \subseteq m.actors[a].caps

-----------------------------------------------------------------------------
(***************************************************************************)
(* The exact search.  A SearchState is the assignments made so far, as     *)
(* [task, actor, start, end] records, and the tasks given up; the          *)
(* scheduled set, the reservations and the completion times of the code    *)
(* are read off the assignments.                                           *)
(***************************************************************************)
Scheduled(s) == {x.task : x \in s.assigned}
Decided(s) == Scheduled(s) \cup s.dropped

DemandAt(m, s, a, instant) ==
    SumOf([x \in {y \in s.assigned : /\ y.actor = a
                                     /\ y.start <= instant /\ instant < y.end}
             |-> m.tasks[x.task].demand])

HasCapacity_atStart(m, s, a, t, start) ==
    DemandAt(m, s, a, start) + m.tasks[t].demand <= m.actors[a].capacity

HasCapacity(m, s, a, t, start) ==
    \A i \in start..(start + m.tasks[t].duration - 1) :
        DemandAt(m, s, a, i) + m.tasks[t].demand <= m.actors[a].capacity

(* The first feasible start in the first window that has one, if any. *)
EarliestStart(m, s, a, t, release) ==
    LET windows == m.actors[a].windows
        from(i) == IF windows[i].start >= release THEN windows[i].start ELSE release
        starts(i) == {c \in from(i)..(windows[i].end - m.tasks[t].duration) :
                        HasCapacity(m, s, a, t, c)}
        usable == {i \in DOMAIN windows : starts(i) # {}}
    IN  IF m.tasks[t].duration <= 0 THEN {release}
        ELSE UNION {Least(starts(i)) : i \in Least(usable)}

MutexBlocked(m, t, s) == m.tasks[t].mutex \cap Scheduled(s) # {}

ReadyKey(m, t) ==
    <<-m.tasks[t].priority, m.tasks[t].deadline, m.tasks[t].release,
      m.tasks[t].duration, t>>

ReadyTasks(m, s) ==
    {t \in DOMAIN m.tasks \ Decided(s) :
        ~DependencyBlocked(m, t, s.dropped) /\ DependenciesSatisfied(m, t, s)}

(* The front of the sorted list of ready tasks, if there is one. *)
NextTask(m, s) ==
    {t \in ReadyTasks(m, s) : \A u \in ReadyTasks(m, s) \ {t} :
        LexLess(ReadyKey(m, t), ReadyKey(m, u))}

CandidateKey(m, s, c) ==
    LET task == m.tasks[c.task] IN
    <<IF c.actor \in task.preferred THEN 0 ELSE 1, c.end, c.start,
      IF c.actor \in DOMAIN task.distances THEN task.distances[c.actor] ELSE LargeTime,
      DemandAt(m, s, c.actor, c.start), c.actor>>

CandidatesForTask(m, t, s) ==
    LET task == m.tasks[t]
        release == Greatest({task.release}
                            \cup {x.end : x \in {y \in s.assigned : y.task \in task.deps}})
        starts(a) == UNION {EarliestStart(m, s, a, t, r) : r \in release}
        found(a) == {[task |-> t, actor |-> a, start |-> i, end |-> i + task.duration] :
                       i \in starts(a)}
        capable == {a \in EligibleActors(m, t) : Capable(m, t, a)}
    IN  {c \in UNION {found(a) : a \in capable} :
            ~MutexBlocked(m, t, s) /\ c.start <= task.latest /\ c.end <= task.deadline}

(* The candidates in the order they are tried; their keys all differ. *)
CandidateOrders(m, t, s) ==
    LET C == CandidatesForTask(m, t, s) IN
    {order \in [1..Cardinality(C) -> C] :
        \A i, j \in 1..Cardinality(C) :
            i < j => LexLess(CandidateKey(m, s, order[i]), CandidateKey(m, s, order[j]))}

(* Tasks waiting on a given-up task are given up too, until none is left:  *)
(* the least set that holds the ones given up and is closed under waiting. *)
DropDescendants(m, s) ==
    LET closed(D) ==
            /\ s.dropped \subseteq D
            /\ \A t \in DOMAIN m.tasks \ Scheduled(s) : DependencyBlocked(m, t, D) => t \in D
    IN  [assigned |-> s.assigned,
         dropped |-> {t \in DOMAIN m.tasks :
                        \A D \in SUBSET DOMAIN m.tasks : closed(D) => t \in D}]

(* An ObjectiveScore, as the tuple better_score compares. *)
ScoreFor(m, options, s) ==
    <<Cardinality(s.assigned),
      SumOf([x \in s.assigned |-> m.tasks[x.task].priority]) * options.priorityWeight,
      -Max({0} \cup {x.end : x \in s.assigned})>>

BetterScore(lhs, rhs) == LexLess(rhs, lhs)

Optimistic_countsOneLess(m, options, s) ==
    LET score == ScoreFor(m, options, s)
        remaining == Cardinality(DOMAIN m.tasks) - Cardinality(Decided(s)) - 1
    IN  <<score[1] + remaining, score[2] + remaining * PriorityBound, score[3]>>

(* What a node could still reach if every undecided task could be placed. *)
Optimistic(m, options, s) ==
    LET score == ScoreFor(m, options, s)
        remaining == Cardinality(DOMAIN m.tasks) - Cardinality(Decided(s))
    IN  <<score[1] + remaining, score[2] + remaining * PriorityBound, score[3]>>

Place(s, c) == [assigned |-> s.assigned \cup {c}, dropped |-> s.dropped]
GiveUp(s, t) == [assigned |-> s.assigned, dropped |-> s.dropped \cup {t}]

Branches_dropForgotten(m, options, s) ==
    LET placed(order) == [i \in DOMAIN order |-> Place(s, order[i])]
        without(t) == IF options.partial \/ ~m.tasks[t].mandatory THEN <<s>> ELSE <<>>
    IN  UNION {{placed(order) \o without(t) : order \in CandidateOrders(m, t, s)} :
                 t \in NextTask(m, s)}

(* The search states dfs recurses into, in order: a candidate each, then   *)
(* the state without the task if it may be given up.                       *)
Branches(m, options, s) ==
    LET placed(order) == [i \in DOMAIN order |-> Place(s, order[i])]
        without(t) == IF options.partial \/ ~m.tasks[t].mandatory
                      THEN <<GiveUp(s, t)>> ELSE <<>>
    IN  UNION {{placed(order) \o without(t) : order \in CandidateOrders(m, t, s)} :
                 t \in NextTask(m, s)}

-----------------------------------------------------------------------------
(***************************************************************************)
(* The discrete-time formulation: a 0/1 variable for every placement of a  *)
(* task on an actor at a start time, and linear rows over them.            *)
(* Overlapping windows of an actor give the code equal options; they are   *)
(* one here, which the at-most-one row of the task makes no difference to. *)
(***************************************************************************)
LatestFeasibleStart(task, window) ==
    Min({window.end - task.duration, task.latest, task.deadline - task.duration})

TaskOptions(m, t) ==
    LET task == m.tasks[t]
        options(a, window) ==
            {[task |-> t, actor |-> a, start |-> start, end |-> start + task.duration] :
                start \in Max({window.start, task.release})
                          ..LatestFeasibleStart(task, window)}
        actors == {a \in EligibleActors(m, t) : Capable(m, t, a)}
        windows(a) == {w \in Range(m.actors[a].windows) : w.end >= task.duration}
    IN  UNION {UNION {options(a, w) : w \in windows(a)} : a \in actors}

Options(m) == UNION {TaskOptions(m, t) : t \in DOMAIN m.tasks}

Required(m, options, t) == ~options.partial /\ m.tasks[t].mandatory

(* An actor and an instant of the option. *)
SlotsOf(o) == {o.actor} \X (o.start..(o.end - 1))

(* The known dependencies, and each exclusion once whichever task lists it. *)
DependencyRows(m) ==
    {r \in (DOMAIN m.tasks) \X (DOMAIN m.tasks) : r[1] \in m.tasks[r[2]].deps}

MutexRows(m) ==
    {r \in (DOMAIN m.tasks) \X (DOMAIN m.tasks) :
        r[1] < r[2] /\ (r[2] \in m.tasks[r[1]].mutex \/ r[1] \in m.tasks[r[2]].mutex)}

Formulate(m) ==
    [options |-> Options(m),
     horizon |-> Max({0} \cup {o.end : o \in Options(m)}),
     slots |-> UNION {SlotsOf(o) : o \in Options(m)},
     dependencies |-> DependencyRows(m),
     exclusions |-> MutexRows(m)]

(* task_selected, task_start and task_end of the rows, for a selection. *)
Of(sel, t) == {o \in sel : o.task = t}
TaskSelected(sel, t) == Cardinality(Of(sel, t))
TaskStart(sel, t) == SumOf([o \in Of(sel, t) |-> o.start])
TaskEnd(sel, t) == SumOf([o \in Of(sel, t) |-> o.end])

SelectionRow(m, options, sel, t) ==
    /\ TaskSelected(sel, t) <= 1
    /\ Required(m, options, t) => TaskSelected(sel, t) = 1

CapacityRow(m, sel, slot) ==
    SumOf([o \in {x \in sel : slot \in SlotsOf(x)} |-> m.tasks[o.task].demand])
    <= m.actors[slot[1]].capacity

MutexRow(sel, t, u) == TaskSelected(sel, t) + TaskSelected(sel, u) <= 1

(* The rows of the two solvers: the CP-SAT model subtracts expressions per *)
(* task; the MIP sets the coefficient of each option of the successor and  *)
(* then of the predecessor, and of one that is both the later one stays.   *)
CpSatDependencyRow_lateStart(bigM, sel, p, t) ==
    /\ TaskSelected(sel, t) <= TaskSelected(sel, p)
    /\ TaskStart(sel, t) - TaskEnd(sel, p) - (bigM - 1) * TaskSelected(sel, t) >= -bigM

CpSatDependencyRow(bigM, sel, p, t) ==
    /\ TaskSelected(sel, t) <= TaskSelected(sel, p)
    /\ TaskStart(sel, t) - TaskEnd(sel, p) - bigM * TaskSelected(sel, t) >= -bigM

MipDependencyRow(bigM, sel, p, t) ==
    LET named == Of(sel, t) \cup Of(sel, p) IN
    /\ SumOf([o \in named |-> IF o.task = p THEN -1 ELSE 1]) <= 0
    /\ SumOf([o \in named |-> IF o.task = p THEN -o.end ELSE o.start - bigM]) >= -bigM

CpSatRowsHold(m, options, form, sel) ==
    /\ \A t \in DOMAIN m.tasks : SelectionRow(m, options, sel, t)
    /\ \A slot \in form.slots : CapacityRow(m, sel, slot)
    /\ \A r \in form.dependencies : CpSatDependencyRow(form.horizon, sel, r[1], r[2])
    /\ \A r \in form.exclusions : MutexRow(sel, r[1], r[2])

MipRowsHold(m, options, form, sel) ==
    /\ \A t \in DOMAIN m.tasks : SelectionRow(m, options, sel, t)
    /\ \A slot \in form.slots : CapacityRow(m, sel, slot)
    /\ \A r \in form.dependencies : MipDependencyRow(form.horizon, sel, r[1], r[2])
    /\ \A r \in form.exclusions : MutexRow(sel, r[1], r[2])

FallbackDistance(task) ==
    IF DOMAIN task.distances = {} THEN 0
    ELSE Max({task.distances[a] : a \in DOMAIN task.distances}) + 1

OptionCoefficient_costsOnly(m, options, o) ==
    m.actors[o.actor].cost * m.tasks[o.task].duration * options.costWeight
    - m.tasks[o.task].earlyBonus * o.start

(* Options end by their deadline, so the tardiness terms are zero. *)
OptionCoefficient(m, options, o) ==
    LET task == m.tasks[o.task]
        distance == IF o.actor \in DOMAIN task.distances THEN task.distances[o.actor]
                    ELSE FallbackDistance(task)
    IN  options.fulfilledWeight + task.priority * options.priorityWeight
        + distance * options.travelWeight
        + m.actors[o.actor].cost * task.duration * options.costWeight
        - task.earlyBonus * o.start
        + IF o.actor \in task.preferred THEN options.preferredWeight ELSE 0

(* The objective, at the best makespan variable the rows leave it. *)
SolverObjective(m, options, form, sel) ==
    MapThenSumSet(LAMBDA o : OptionCoefficient(m, options, o), sel)
    + options.makespanWeight *
      (IF options.makespanWeight > 0 THEN form.horizon
       ELSE Max({0} \cup {o.end : o \in sel}))
=============================================================================
