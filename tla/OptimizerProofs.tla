-------------------------- MODULE OptimizerProofs ---------------------------
(***************************************************************************)
(* What the exact search of the optimiser returns, for every request and   *)
(* every build.                                                            *)
(***************************************************************************)
EXTENDS Optimizer, TLAPS, FiniteSetTheorems, SequenceTheorems, WellFoundedInduction

(***************************************************************************)
(* Numbers: least elements stand in for induction.                         *)
(***************************************************************************)
LEMMA LeastOfNat ==
    ASSUME NEW S \in SUBSET Nat, S # {}
    PROVE  \E x \in S : \A y \in S : x <= y
<1>1. \E x \in S : \A y \in S : ~(<<y, x>> \in OpToRel(<, Nat))
  BY NatLessThanWellFounded, WFMin
<1>2. PICK x \in S : \A y \in S : ~(<<y, x>> \in OpToRel(<, Nat))
  BY <1>1
<1>3. \A y \in S : ~(y < x)
  BY <1>2 DEF OpToRel
<1> QED
  BY <1>3

(* A finite set of numbers has a greatest element. *)
LEMMA GreatestOfFinite ==
    ASSUME NEW S \in SUBSET Int, S # {}, IsFiniteSet(S)
    PROVE  \E x \in S : \A y \in S : y <= x
<1> DEFINE Bad == {n \in Nat : \E T \in SUBSET S :
                     /\ T # {} /\ IsFiniteSet(T) /\ Cardinality(T) = n
                     /\ \A x \in T : \E y \in T : ~(y <= x)}
<1> SUFFICES ASSUME Bad # {} PROVE FALSE
  BY FS_CardinalityType
<1>1. PICK n \in Bad : \A k \in Bad : n <= k
  BY LeastOfNat
<1>2. PICK T \in SUBSET S : /\ T # {} /\ IsFiniteSet(T) /\ Cardinality(T) = n
                            /\ \A x \in T : \E y \in T : ~(y <= x)
  BY <1>1
<1>3. PICK x \in T : TRUE
  BY <1>2
<1> DEFINE R == T \ {x}
<1>4. R \in SUBSET S /\ IsFiniteSet(R) /\ Cardinality(R) = n - 1 /\ Cardinality(R) \in Nat
  BY <1>2, <1>3, FS_RemoveElement, FS_CardinalityType
<1>5. n - 1 \notin Bad
  BY <1>1, <1>4
<1>6. CASE R = {}
  BY <1>2, <1>3, <1>6
<1>7. CASE R # {}
  <2>1. PICK y \in R : \A z \in R : z <= y
    BY <1>4, <1>5, <1>7
  <2>2. x \in Int /\ y \in Int /\ \A z \in T : z = x \/ z \in R
    BY <1>3
  <2> QED
    BY <1>2, <2>1, <2>2
<1> QED
  BY <1>6, <1>7

LEMMA MaxOfFinite ==
    ASSUME NEW S \in SUBSET Int, S # {}, IsFiniteSet(S)
    PROVE  Max(S) \in S /\ \A y \in S : y <= Max(S)
BY GreatestOfFinite DEF Max

(***************************************************************************)
(* Sums.                                                                   *)
(***************************************************************************)
LEMMA SlotsOfOne ==
    ASSUME NEW x, NEW n \in Int
    PROVE  /\ IsFiniteSet({x} \X (1..n))
           /\ Cardinality({x} \X (1..n)) = IF n > 0 THEN n ELSE 0
<1>1. IsFiniteSet(1..n) /\ Cardinality(1..n) = IF 1 > n THEN 0 ELSE n - 1 + 1
  BY FS_Interval
<1>2. IsFiniteSet({x}) /\ Cardinality({x}) = 1
  BY FS_Singleton
<1>3. /\ IsFiniteSet({x} \X (1..n))
      /\ Cardinality({x} \X (1..n)) = Cardinality({x}) * Cardinality(1..n)
  BY <1>1, <1>2, FS_Product
<1> QED
  BY <1>1, <1>2, <1>3

LEMMA SlotsAreFinite ==
    ASSUME NEW S, IsFiniteSet(S), NEW f \in [S -> Int]
    PROVE  IsFiniteSet(UnitSlots(f)) /\ Cardinality(UnitSlots(f)) \in Nat
<1> DEFINE image == {{x} \X (1..f[x]) : x \in S}
           g == [x \in S |-> {x} \X (1..f[x])]
<1>1. g \in Surjection(S, image)
  BY DEF Surjection
<1>2. IsFiniteSet(image)
  BY <1>1, FS_Surjection
<1>3. ASSUME NEW T \in image PROVE IsFiniteSet(T)
  <2>1. PICK x \in S : T = {x} \X (1..f[x])
    OBVIOUS
  <2>2. f[x] \in Int
    OBVIOUS
  <2> QED BY <2>1, <2>2, SlotsOfOne
<1>4. IsFiniteSet(UNION image)
  BY <1>2, <1>3, FS_UNION
<1>5. UnitSlots(f) = UNION image
  BY DEF UnitSlots
<1> QED
  BY <1>4, <1>5, FS_CardinalityType

LEMMA SlotsGrow ==
    ASSUME NEW S, IsFiniteSet(S), NEW x, x \notin S, NEW f \in [S -> Int],
           NEW g \in [S \cup {x} -> Int], \A y \in S : g[y] = f[y]
    PROVE  Cardinality(UnitSlots(g))
             = Cardinality(UnitSlots(f)) + (IF g[x] > 0 THEN g[x] ELSE 0)
<1> DEFINE new == {x} \X (1..g[x])
<1>1. UnitSlots(g) = UnitSlots(f) \cup new
  <2>1. DOMAIN f = S /\ DOMAIN g = S \cup {x}
    OBVIOUS
  <2> QED
    BY <2>1 DEF UnitSlots
<1>2. UnitSlots(f) \cap new = {}
  BY DEF UnitSlots
<1>3. IsFiniteSet(UnitSlots(f)) /\ Cardinality(UnitSlots(f)) \in Nat
  BY SlotsAreFinite
<1>4. g[x] \in Int
  OBVIOUS
<1>5. IsFiniteSet(new) /\ Cardinality(new) = IF g[x] > 0 THEN g[x] ELSE 0
  BY <1>4, SlotsOfOne
<1> HIDE DEF new
<1>6. Cardinality(UnitSlots(f) \cup new)
        = Cardinality(UnitSlots(f)) + Cardinality(new) - Cardinality(UnitSlots(f) \cap new)
  BY <1>3, <1>5, FS_Union
<1>7. Cardinality(UnitSlots(f) \cap new) = 0
  BY <1>2, FS_EmptySet
<1> QED
  BY <1>1, <1>3, <1>4, <1>5, <1>6, <1>7

LEMMA SumType ==
    ASSUME NEW S, IsFiniteSet(S), NEW f \in [S -> Int]
    PROVE  SumOf(f) \in Int
<1>1. Cardinality(UnitSlots(f)) \in Nat
  BY SlotsAreFinite
<1>2. Cardinality(UnitSlots([x \in DOMAIN f |-> -f[x]])) \in Nat
  <2>1. [x \in DOMAIN f |-> -f[x]] \in [S -> Int]
    OBVIOUS
  <2> QED BY <2>1, SlotsAreFinite
<1> QED
  BY <1>1, <1>2 DEF SumOf

LEMMA SumOfNone ==
    ASSUME NEW f, DOMAIN f = {}
    PROVE  SumOf(f) = 0
<1>1. UnitSlots(f) = {} /\ UnitSlots([x \in DOMAIN f |-> -f[x]]) = {}
  BY DEF UnitSlots
<1> QED
  BY <1>1, FS_EmptySet DEF SumOf

(* A sum over one element more is larger by its value. *)
LEMMA SumGrows ==
    ASSUME NEW S, IsFiniteSet(S), NEW x, x \notin S, NEW f \in [S -> Int],
           NEW g \in [S \cup {x} -> Int], \A y \in S : g[y] = f[y]
    PROVE  SumOf(g) = SumOf(f) + g[x]
<1> DEFINE nf == [y \in DOMAIN f |-> -f[y]]
           ng == [y \in DOMAIN g |-> -g[y]]
<1>1. nf \in [S -> Int] /\ ng \in [S \cup {x} -> Int] /\ \A y \in S : ng[y] = nf[y]
  OBVIOUS
<1>2. ng[x] = -g[x] /\ g[x] \in Int
  OBVIOUS
<1>3. Cardinality(UnitSlots(g)) = Cardinality(UnitSlots(f)) + (IF g[x] > 0 THEN g[x] ELSE 0)
  BY SlotsGrow
<1> HIDE DEF nf, ng
<1>4. Cardinality(UnitSlots(ng)) = Cardinality(UnitSlots(nf)) + (IF ng[x] > 0 THEN ng[x] ELSE 0)
  BY <1>1, SlotsGrow
<1>5. Cardinality(UnitSlots(f)) \in Nat /\ Cardinality(UnitSlots(nf)) \in Nat
  BY <1>1, SlotsAreFinite
<1>6. /\ SumOf(f) = Cardinality(UnitSlots(f)) - Cardinality(UnitSlots(nf))
      /\ SumOf(g) = Cardinality(UnitSlots(g)) - Cardinality(UnitSlots(ng))
  BY DEF SumOf, nf, ng
<1> QED
  BY <1>2, <1>3, <1>4, <1>5, <1>6

LEMMA SumOfOne ==
    ASSUME NEW x, NEW f \in [{x} -> Int]
    PROVE  SumOf(f) = f[x]
<1> DEFINE e == [y \in {} |-> 0]
<1>1. e \in [{} -> Int] /\ IsFiniteSet({}) /\ f \in [{} \cup {x} -> Int] /\ f[x] \in Int
  BY FS_EmptySet
<1>2. SumOf(e) = 0
  BY SumOfNone
<1>3. SumOf(f) = SumOf(e) + f[x]
  <2> HIDE DEF e
  <2> QED BY <1>1, SumGrows
<1> QED
  BY <1>1, <1>2, <1>3

LEMMA SumOfTwo ==
    ASSUME NEW x, NEW y, x # y, NEW f \in [{x, y} -> Int]
    PROVE  SumOf(f) = f[x] + f[y]
<1>1. PICK S : S = {x}
  OBVIOUS
<1>2. PICK g : g = [z \in S |-> f[z]]
  OBVIOUS
<1>3. IsFiniteSet(S) /\ y \notin S /\ S \cup {y} = {x, y}
  BY <1>1, FS_Singleton
<1>4. g \in [S -> Int] /\ g \in [{x} -> Int] /\ g[x] = f[x] /\ \A z \in S : f[z] = g[z]
  BY <1>1, <1>2
<1>5. f \in [S \cup {y} -> Int]
  BY <1>3
<1>6. SumOf(g) = f[x]
  BY <1>4, SumOfOne
<1>7. SumOf(f) = SumOf(g) + f[y]
  BY <1>3, <1>4, <1>5, SumGrows
<1> QED
  BY <1>6, <1>7

-----------------------------------------------------------------------------
(***************************************************************************)
(* Search states: what is placed and what is given up stay apart, and no   *)
(* task is placed twice.                                                   *)
(***************************************************************************)
Places(m) == [task : DOMAIN m.tasks, actor : DOMAIN m.actors, start : Nat, end : Nat]
Nodes(m) == [assigned : SUBSET Places(m), dropped : SUBSET DOMAIN m.tasks]

Consistent(m, s) ==
    /\ s \in Nodes(m)
    /\ IsFiniteSet(s.assigned)
    /\ \A x, y \in s.assigned : x.task = y.task => x = y
    /\ Scheduled(s) \cap s.dropped = {}

LEMMA TaskData ==
    ASSUME NEW m, WellFormed(m), NEW t \in DOMAIN m.tasks
    PROVE  /\ m.tasks[t].duration \in Nat /\ m.tasks[t].demand \in Nat
           /\ m.tasks[t].release \in Nat /\ m.tasks[t].latest \in Nat
           /\ m.tasks[t].deadline \in Nat /\ m.tasks[t].priority \in Int
           /\ t \in Int
BY DEF WellFormed

LEMMA WindowData ==
    ASSUME NEW m, WellFormed(m), NEW a \in DOMAIN m.actors, NEW i \in DOMAIN m.actors[a].windows
    PROVE  /\ m.actors[a].windows[i].start \in Nat
           /\ m.actors[a].windows[i].end \in Nat
BY DEF WellFormed

(* The starts earliest_start may return. *)
LEMMA StartFacts ==
    ASSUME NEW m, WellFormed(m), NEW s, NEW a \in DOMAIN m.actors, NEW t \in DOMAIN m.tasks,
           NEW r \in Nat, NEW i \in EarliestStart(m, s, a, t, r)
    PROVE  /\ i \in Nat /\ r <= i
           /\ m.tasks[t].duration > 0 =>
                /\ HasCapacity(m, s, a, t, i)
                /\ \E k \in DOMAIN m.actors[a].windows :
                      /\ m.actors[a].windows[k].start <= i
                      /\ i + m.tasks[t].duration <= m.actors[a].windows[k].end
<1> DEFINE windows == m.actors[a].windows
           from(k) == IF windows[k].start >= r THEN windows[k].start ELSE r
           dur == m.tasks[t].duration
<1>1. dur \in Nat
  BY TaskData
<1>2. CASE dur <= 0
  BY <1>1, <1>2 DEF EarliestStart
<1>3. CASE ~(dur <= 0)
  <2>1. PICK k \in DOMAIN windows : /\ i \in from(k)..(windows[k].end - dur)
                                    /\ HasCapacity(m, s, a, t, i)
    BY <1>3 DEF EarliestStart, Least
  <2>2. windows[k].start \in Nat /\ windows[k].end \in Nat
    BY WindowData
  <2>3. i \in Nat /\ r <= i /\ windows[k].start <= i /\ i + dur <= windows[k].end
    BY <1>1, <2>1, <2>2
  <2> QED
    BY <2>1, <2>3
<1> QED
  BY <1>2, <1>3

(* What candidates_for_task promises of a candidate. *)
LEMMA CandidateFacts ==
    ASSUME NEW m, WellFormed(m), NEW s, s \in Nodes(m), NEW t \in DOMAIN m.tasks,
           NEW c \in CandidatesForTask(m, t, s)
    PROVE  /\ c \in Places(m) /\ c.task = t
           /\ c.actor \in EligibleActors(m, t) /\ Capable(m, t, c.actor)
           /\ c.end = c.start + m.tasks[t].duration
           /\ ~MutexBlocked(m, t, s)
           /\ c.start <= m.tasks[t].latest /\ c.end <= m.tasks[t].deadline
           /\ m.tasks[t].release <= c.start
           /\ \A y \in s.assigned : y.task \in m.tasks[t].deps => y.end <= c.start
           /\ m.tasks[t].duration > 0 =>
                /\ HasCapacity(m, s, c.actor, t, c.start)
                /\ \E k \in DOMAIN m.actors[c.actor].windows :
                      /\ m.actors[c.actor].windows[k].start <= c.start
                      /\ c.end <= m.actors[c.actor].windows[k].end
<1> DEFINE task == m.tasks[t]
           bounds == {task.release}
                       \cup {x.end : x \in {y \in s.assigned : y.task \in task.deps}}
<1>1. PICK a \in EligibleActors(m, t), r \in Greatest(bounds) :
         \E i \in EarliestStart(m, s, a, t, r) :
            /\ Capable(m, t, a)
            /\ c = [task |-> t, actor |-> a, start |-> i, end |-> i + task.duration]
  BY DEF CandidatesForTask
<1>2. PICK i \in EarliestStart(m, s, a, t, r) :
         c = [task |-> t, actor |-> a, start |-> i, end |-> i + task.duration]
  BY <1>1
<1>3. /\ ~MutexBlocked(m, t, s)
      /\ c.start <= m.tasks[t].latest /\ c.end <= m.tasks[t].deadline
  BY DEF CandidatesForTask
<1>4. task.duration \in Nat /\ task.release \in Nat
  BY TaskData
<1>5. bounds \subseteq Nat
  BY <1>4 DEF Nodes, Places
<1>6. r \in Nat /\ \A b \in bounds : b <= r
  BY <1>5 DEF Greatest
<1>7. a \in DOMAIN m.actors
  BY DEF EligibleActors
<1>8. /\ i \in Nat /\ r <= i
      /\ task.duration > 0 =>
           /\ HasCapacity(m, s, a, t, i)
           /\ \E k \in DOMAIN m.actors[a].windows :
                 /\ m.actors[a].windows[k].start <= i
                 /\ i + task.duration <= m.actors[a].windows[k].end
  BY <1>6, <1>7, StartFacts
<1>9. c.task = t /\ c.actor = a /\ c.start = i /\ c.end = i + task.duration
  BY <1>2
<1>10. c \in Places(m)
  BY <1>2, <1>4, <1>7, <1>8 DEF Places
<1>11. ASSUME NEW b \in bounds PROVE b <= i
  <2> HIDE DEF bounds
  <2>1. b \in Nat /\ b <= r
    BY <1>5, <1>6
  <2> QED BY <1>6, <1>8, <2>1
<1>12. /\ task.release \in bounds
       /\ \A y \in s.assigned : y.task \in task.deps => y.end \in bounds
  OBVIOUS
<1> HIDE DEF bounds
<1> QED
  BY <1>1, <1>3, <1>8, <1>9, <1>10, <1>11, <1>12

-----------------------------------------------------------------------------
(***************************************************************************)
(* drop_descendants_if_blocked.                                            *)
(***************************************************************************)
ClosedDrop(m, s, D) ==
    /\ s.dropped \subseteq D
    /\ \A t \in DOMAIN m.tasks \ Scheduled(s) : DependencyBlocked(m, t, D) => t \in D

LEMMA DropFacts ==
    ASSUME NEW m, NEW s, s \in Nodes(m), NEW d, d = DropDescendants(m, s)
    PROVE  /\ d.assigned = s.assigned
           /\ d.dropped \in SUBSET DOMAIN m.tasks
           /\ ClosedDrop(m, s, d.dropped)
           /\ \A t \in d.dropped \ s.dropped :
                 t \notin Scheduled(s) /\ DependencyBlocked(m, t, d.dropped)
<1> DEFINE T == DOMAIN m.tasks
           R == {t \in T : \A D \in SUBSET T : ClosedDrop(m, s, D) => t \in D}
<1>1. d.assigned = s.assigned /\ d.dropped = R
  BY DEF DropDescendants, ClosedDrop
<1>2. s.dropped \in SUBSET T
  BY DEF Nodes
<1>3. ClosedDrop(m, s, R)
  BY <1>2 DEF ClosedDrop, DependencyBlocked
<1>4. ASSUME NEW t \in R \ s.dropped
      PROVE  t \notin Scheduled(s) /\ DependencyBlocked(m, t, R)
  <2> SUFFICES ASSUME ~(t \notin Scheduled(s) /\ DependencyBlocked(m, t, R)) PROVE FALSE
    OBVIOUS
  <2> DEFINE D == R \ {t}
  <2>1. D \in SUBSET T
    OBVIOUS
  <2>2. ClosedDrop(m, s, D)
    <3>1. s.dropped \subseteq D
      BY <1>3 DEF ClosedDrop
    <3>2. ASSUME NEW u \in T \ Scheduled(s), DependencyBlocked(m, u, D) PROVE u \in D
      <4>1. DependencyBlocked(m, u, R)
        BY <3>2 DEF DependencyBlocked
      <4>2. u \in R
        BY <1>3, <4>1 DEF ClosedDrop
      <4> QED
        BY <4>1, <4>2
    <3> HIDE DEF D
    <3> QED
      BY <3>1, <3>2 DEF ClosedDrop
  <2> QED
    BY <2>1, <2>2
<1> HIDE DEF R
<1>5. R \in SUBSET T
  BY DEF R
<1> QED
  BY <1>1, <1>3, <1>4, <1>5

LEMMA DropIsConsistent ==
    ASSUME NEW m, NEW s, Consistent(m, s)
    PROVE  Consistent(m, DropDescendants(m, s))
<1> DEFINE d == DropDescendants(m, s)
<1>1. s \in Nodes(m)
  BY DEF Consistent
<1>2. d = [assigned |-> d.assigned, dropped |-> d.dropped]
  BY DEF DropDescendants
<1> HIDE DEF d
<1>3. /\ d.assigned = s.assigned
      /\ d.dropped \in SUBSET DOMAIN m.tasks
      /\ \A t \in d.dropped \ s.dropped : t \notin Scheduled(s)
  BY <1>1, DropFacts DEF d
<1>4. d \in Nodes(m)
  BY <1>1, <1>2, <1>3 DEF Nodes
<1>5. Scheduled(d) = Scheduled(s)
  BY <1>3 DEF Scheduled
<1>6. Consistent(m, d)
  BY <1>3, <1>4, <1>5 DEF Consistent
<1> QED
  BY <1>6 DEF d

-----------------------------------------------------------------------------
(***************************************************************************)
(* The branches of a node.                                                 *)
(***************************************************************************)
IsKid(m, options, s, t, k) ==
    \/ \E c \in CandidatesForTask(m, t, s) : k = Place(s, c)
    \/ ~Required(m, options, t) /\ k = GiveUp(s, t)

LEMMA ReadyFacts ==
    ASSUME NEW m, NEW s, NEW t \in ReadyTasks(m, s)
    PROVE  /\ t \in DOMAIN m.tasks /\ t \notin Scheduled(s) /\ t \notin s.dropped
           /\ m.tasks[t].deps \subseteq Scheduled(s)
BY DEF ReadyTasks, Decided, DependenciesSatisfied, Scheduled

LEMMA KidIsConsistent ==
    ASSUME NEW m, WellFormed(m), NEW options, NEW s, Consistent(m, s),
           NEW t \in ReadyTasks(m, s), NEW k, IsKid(m, options, s, t, k)
    PROVE  Consistent(m, k)
<1>1. /\ t \in DOMAIN m.tasks /\ t \notin Scheduled(s) /\ t \notin s.dropped
  BY ReadyFacts
<1>2. ASSUME NEW c \in CandidatesForTask(m, t, s), k = Place(s, c) PROVE Consistent(m, k)
  <2>1. c \in Places(m) /\ c.task = t
    BY <1>1, CandidateFacts DEF Consistent
  <2>2. k.assigned = s.assigned \cup {c} /\ k.dropped = s.dropped /\ k \in Nodes(m)
    BY <1>2, <2>1 DEF Place, Nodes, Consistent
  <2>3. IsFiniteSet(s.assigned \cup {c})
    BY FS_AddElement DEF Consistent
  <2>4. Scheduled(k) = Scheduled(s) \cup {t}
    BY <2>1, <2>2 DEF Scheduled
  <2>5. \A x \in s.assigned : x.task # t
    BY <1>1 DEF Scheduled
  <2> QED
    BY <1>1, <2>1, <2>2, <2>3, <2>4, <2>5 DEF Consistent
<1>3. ASSUME k = GiveUp(s, t) PROVE Consistent(m, k)
  <2>1. k.assigned = s.assigned /\ k.dropped = s.dropped \cup {t} /\ k \in Nodes(m)
    BY <1>1, <1>3 DEF GiveUp, Nodes, Consistent
  <2>2. Scheduled(k) = Scheduled(s)
    BY <2>1 DEF Scheduled
  <2> QED
    BY <1>1, <2>1, <2>2 DEF Consistent
<1> QED
  BY <1>2, <1>3 DEF IsKid

LEMMA LexIrreflexive ==
    ASSUME NEW u, \A i \in DOMAIN u : u[i] \in Int
    PROVE  ~LexLess(u, u)
BY DEF LexLess

LEMMA DemandType ==
    ASSUME NEW m, WellFormed(m), NEW s, Consistent(m, s), NEW a, NEW i
    PROVE  DemandAt(m, s, a, i) \in Int
<1> DEFINE S == {y \in s.assigned : y.actor = a /\ y.start <= i /\ i < y.end}
           f == [x \in S |-> m.tasks[x.task].demand]
<1>1. IsFiniteSet(S)
  BY FS_Subset DEF Consistent
<1>2. ASSUME NEW x \in S PROVE m.tasks[x.task].demand \in Int
  <2>1. x.task \in DOMAIN m.tasks
    BY DEF Consistent, Nodes, Places
  <2> QED BY <2>1, TaskData
<1>3. f \in [S -> Int]
  BY <1>2
<1>4. DemandAt(m, s, a, i) = SumOf(f)
  BY DEF DemandAt
<1> HIDE DEF S, f
<1> QED
  BY <1>1, <1>3, <1>4, SumType

(* earliest_start returns one start at most. *)
LEMMA StartUnique ==
    ASSUME NEW m, WellFormed(m), NEW s, NEW a \in DOMAIN m.actors, NEW t \in DOMAIN m.tasks,
           NEW r \in Nat, NEW i \in EarliestStart(m, s, a, t, r),
           NEW j \in EarliestStart(m, s, a, t, r)
    PROVE  i = j
<1> DEFINE windows == m.actors[a].windows
           from(k) == IF windows[k].start >= r THEN windows[k].start ELSE r
           dur == m.tasks[t].duration
           starts(k) == {c \in from(k)..(windows[k].end - dur) : HasCapacity(m, s, a, t, c)}
           usable == {k \in DOMAIN windows : starts(k) # {}}
<1>1. CASE dur <= 0
  BY <1>1 DEF EarliestStart
<1>2. CASE ~(dur <= 0)
  <2>1. /\ i \in UNION {Least(starts(k)) : k \in Least(usable)}
        /\ j \in UNION {Least(starts(k)) : k \in Least(usable)}
    BY <1>2 DEF EarliestStart
  <2>2. PICK k \in Least(usable), l \in Least(usable) : i \in Least(starts(k)) /\ j \in Least(starts(l))
    BY <2>1
  <2>3. usable \subseteq Nat
    BY DEF WellFormed
  <2>4. k = l
    <3> HIDE DEF usable
    <3> QED BY <2>3 DEF Least
  <2>5. i \in Nat /\ j \in Nat
    BY StartFacts
  <2> QED
    BY <2>2, <2>4, <2>5 DEF Least
<1> QED
  BY <1>1, <1>2

(* An actor gives one candidate at most, so there are finitely many. *)
LEMMA CandidatesFinite ==
    ASSUME NEW m, WellFormed(m), NEW s, s \in Nodes(m), NEW t \in DOMAIN m.tasks
    PROVE  IsFiniteSet(CandidatesForTask(m, t, s))
<1> DEFINE C == CandidatesForTask(m, t, s)
           task == m.tasks[t]
           bounds == {task.release}
                       \cup {x.end : x \in {y \in s.assigned : y.task \in task.deps}}
           f == [c \in C |-> c.actor]
<1>1. ASSUME NEW c \in C
      PROVE  \E r \in Greatest(bounds) : c.start \in EarliestStart(m, s, c.actor, t, r)
  BY DEF CandidatesForTask
<1>2. task.release \in Nat
  BY TaskData
<1>3. bounds \subseteq Nat
  BY <1>2 DEF Nodes, Places
<1>4. \A r, q \in Greatest(bounds) : r \in Nat /\ r = q
  <2> HIDE DEF bounds
  <2> QED BY <1>3 DEF Greatest
<1> HIDE DEF bounds
<1>5. ASSUME NEW c \in C
      PROVE  /\ c \in Places(m) /\ c.task = t /\ c.end = c.start + task.duration
             /\ c.actor \in DOMAIN m.actors
  BY CandidateFacts DEF EligibleActors
<1>6. ASSUME NEW c \in C, NEW d \in C, c.actor = d.actor PROVE c = d
  <2>1. PICK r \in Greatest(bounds) : c.start \in EarliestStart(m, s, c.actor, t, r)
    BY <1>1
  <2>2. d.start \in EarliestStart(m, s, c.actor, t, r) /\ r \in Nat
    BY <1>1, <1>4, <1>6
  <2>3. c.start = d.start
    BY <1>5, <2>1, <2>2, StartUnique
  <2> QED
    BY <1>5, <1>6, <2>3 DEF Places
<1>7. f \in Injection(C, DOMAIN m.actors)
  <2> HIDE DEF C
  <2> QED BY <1>5, <1>6 DEF Injection, IsInjective
<1> QED
  BY <1>7, FS_Injection DEF WellFormed

(* An order of the candidates lists each of them once. *)
LEMMA OrderFacts ==
    ASSUME NEW m, WellFormed(m), NEW s, Consistent(m, s), NEW t \in DOMAIN m.tasks,
           NEW order \in CandidateOrders(m, t, s)
    PROVE  \E n \in Nat :
             /\ order \in [1..n -> CandidatesForTask(m, t, s)]
             /\ \A i, j \in 1..n : i # j => order[i] # order[j]
             /\ \A c \in CandidatesForTask(m, t, s) : \E i \in 1..n : order[i] = c
<1> DEFINE C == CandidatesForTask(m, t, s)
           n == Cardinality(C)
<1>1. IsFiniteSet(C) /\ n \in Nat
  BY CandidatesFinite, FS_CardinalityType DEF Consistent
<1>2. /\ order \in [1..n -> C]
      /\ \A i, j \in 1..n :
            i < j => LexLess(CandidateKey(m, s, order[i]), CandidateKey(m, s, order[j]))
  BY DEF CandidateOrders
<1>3. ASSUME NEW c \in C PROVE ~LexLess(CandidateKey(m, s, c), CandidateKey(m, s, c))
  <2>1. c \in Places(m) /\ c.task = t /\ c.actor \in DOMAIN m.actors /\ c.actor \in Int
    BY CandidateFacts DEF EligibleActors, Consistent, WellFormed
  <2>2. c.start \in Int /\ c.end \in Int
    BY <2>1 DEF Places
  <2>3. DemandAt(m, s, c.actor, c.start) \in Int
    BY DemandType
  <2>4. (IF c.actor \in DOMAIN m.tasks[t].distances THEN m.tasks[t].distances[c.actor]
         ELSE LargeTime) \in Int
    BY RequestsAssumption DEF WellFormed
  <2> DEFINE k1 == IF c.actor \in m.tasks[t].preferred THEN 0 ELSE 1
             k4 == IF c.actor \in DOMAIN m.tasks[t].distances
                   THEN m.tasks[t].distances[c.actor] ELSE LargeTime
             k5 == DemandAt(m, s, c.actor, c.start)
  <2>5. CandidateKey(m, s, c) = <<k1, c.end, c.start, k4, k5, c.actor>>
    BY <2>1 DEF CandidateKey
  <2>6. k1 \in Int
    OBVIOUS
  <2> HIDE DEF k1, k4, k5
  <2>7. k4 \in Int /\ k5 \in Int
    BY <2>3, <2>4 DEF k4, k5
  <2>8. \A i \in DOMAIN CandidateKey(m, s, c) : CandidateKey(m, s, c)[i] \in Int
    BY <2>1, <2>2, <2>5, <2>6, <2>7
  <2> QED
    BY <2>8, LexIrreflexive
<1> HIDE DEF C
<1>4. \A i, j \in 1..n : i # j => order[i] # order[j]
  <2> SUFFICES ASSUME NEW i \in 1..n, NEW j \in 1..n, i # j, order[i] = order[j] PROVE FALSE
    OBVIOUS
  <2>1. i < j \/ j < i
    BY <1>1
  <2>2. order[i] \in C
    BY <1>2
  <2> QED
    BY <1>2, <1>3, <2>1, <2>2
<1>5. order \in Injection(1..n, C)
  BY <1>2, <1>4 DEF Injection, IsInjective
<1>6. Cardinality(1..n) = n
  BY <1>1, FS_Interval
<1>7. order \in Surjection(1..n, C)
  BY <1>1, <1>5, <1>6, FS_Injection
<1>8. \A c \in C : \E i \in 1..n : order[i] = c
  BY <1>7 DEF Surjection
<1> QED
  BY <1>1, <1>2, <1>4, <1>8 DEF C

(* Placing different candidates, or giving up, leads to different states. *)
LEMMA KidsDiffer ==
    ASSUME NEW s, NEW c, NEW d, NEW t, c \notin s.assigned, c # d
    PROVE  Place(s, c) # Place(s, d) /\ Place(s, c) # GiveUp(s, t)
<1>1. /\ Place(s, c).assigned = s.assigned \cup {c}
      /\ Place(s, d).assigned = s.assigned \cup {d}
      /\ GiveUp(s, t).assigned = s.assigned
  BY DEF Place, GiveUp
<1>2. s.assigned \cup {c} # s.assigned \cup {d} /\ s.assigned \cup {c} # s.assigned
  OBVIOUS
<1> QED
  BY <1>1, <1>2

(* The branches of a node are its kids, each once. *)
LEMMA BranchFacts ==
    ASSUME NEW m, WellFormed(m), NEW options, NEW s, Consistent(m, s),
           NEW next \in Branches(m, options, s)
    PROVE  \E t \in NextTask(m, s) :
             /\ next \in Seq(Nodes(m))
             /\ \A i \in 1..Len(next) : IsKid(m, options, s, t, next[i])
             /\ \A k : IsKid(m, options, s, t, k) => \E i \in 1..Len(next) : next[i] = k
             /\ \A i, j \in 1..Len(next) : i # j => next[i] # next[j]
<1> DEFINE placed(order) == [i \in DOMAIN order |-> Place(s, order[i])]
           without(t) == IF options.partial \/ ~m.tasks[t].mandatory
                         THEN <<GiveUp(s, t)>> ELSE <<>>
<1>0. PICK t \in NextTask(m, s) : \E order \in CandidateOrders(m, t, s) :
         next = placed(order) \o without(t)
  BY DEF Branches
<1>1. PICK order \in CandidateOrders(m, t, s) : next = placed(order) \o without(t)
  BY <1>0
<1>2. t \in ReadyTasks(m, s)
  BY DEF NextTask
<1>3. t \in DOMAIN m.tasks /\ t \notin Scheduled(s) /\ t \notin s.dropped
  BY <1>2, ReadyFacts
<1> DEFINE C == CandidatesForTask(m, t, s)
<1>4. PICK n \in Nat :
         /\ order \in [1..n -> C]
         /\ \A i, j \in 1..n : i # j => order[i] # order[j]
         /\ \A c \in C : \E i \in 1..n : order[i] = c
  BY <1>3, OrderFacts
<1>5. PICK p : p = placed(order)
  OBVIOUS
<1>6. PICK q : q = without(t)
  OBVIOUS
<1>7. ASSUME NEW k, IsKid(m, options, s, t, k) PROVE k \in Nodes(m)
  BY <1>2, <1>7, KidIsConsistent DEF Consistent
<1>8. ASSUME NEW i \in 1..n
      PROVE  /\ order[i] \in C /\ p[i] = Place(s, order[i])
             /\ IsKid(m, options, s, t, p[i])
  BY <1>4, <1>5 DEF IsKid
<1>9. p \in Seq(Nodes(m)) /\ Len(p) = n /\ DOMAIN p = 1..n
  <2>1. p \in [1..n -> Nodes(m)]
    BY <1>4, <1>5, <1>7, <1>8
  <2> QED BY <1>4, <2>1
<1>10. Required(m, options, t) <=> ~(options.partial \/ ~m.tasks[t].mandatory)
  BY DEF Required
<1>11. CASE Required(m, options, t)
  <2>1. q = <<>>
    BY <1>6, <1>10, <1>11
  <2>2. next = p
    BY <1>1, <1>5, <1>6, <1>9, <2>1, ConcatEmptySeq
  <2>3. ASSUME NEW k, IsKid(m, options, s, t, k) PROVE \E i \in 1..n : p[i] = k
    BY <1>4, <1>8, <1>11, <2>3 DEF IsKid
  <2>4. ASSUME NEW i \in 1..n, NEW j \in 1..n, i # j PROVE p[i] # p[j]
    <3>1. order[i] # order[j]
      BY <1>4, <2>4
    <3>2. /\ order[i] \notin s.assigned
      BY <1>3, <1>8, CandidateFacts DEF Scheduled, Consistent
    <3> QED
      BY <1>8, <3>1, <3>2, KidsDiffer
  <2> QED
    BY <1>8, <1>9, <2>2, <2>3, <2>4
<1>12. CASE ~Required(m, options, t)
  <2>1. q = <<GiveUp(s, t)>>
    BY <1>6, <1>10, <1>12
  <2>2. IsKid(m, options, s, t, GiveUp(s, t))
    BY <1>12 DEF IsKid
  <2>3. q \in Seq(Nodes(m)) /\ Len(q) = 1 /\ q[1] = GiveUp(s, t)
    BY <1>7, <2>1, <2>2
  <2>4. /\ next \in Seq(Nodes(m)) /\ Len(next) = n + 1
        /\ \A i \in 1..(n + 1) : next[i] = IF i <= n THEN p[i] ELSE q[i - n]
    BY <1>1, <1>5, <1>6, <1>9, <2>3, ConcatProperties
  <2>5. /\ \A i \in 1..n : next[i] = p[i]
        /\ next[n + 1] = GiveUp(s, t)
    BY <2>3, <2>4
  <2>6. ASSUME NEW k, IsKid(m, options, s, t, k) PROVE \E i \in 1..(n + 1) : next[i] = k
    <3>1. CASE k = GiveUp(s, t)
      BY <2>5, <3>1
    <3>2. CASE \E c \in C : k = Place(s, c)
      <4>1. PICK i \in 1..n : k = Place(s, order[i])
        BY <1>4, <3>2
      <4>2. i \in 1..(n + 1) /\ next[i] = k
        BY <1>8, <2>5, <4>1
      <4> QED BY <4>2
    <3> QED
      BY <2>6, <3>1, <3>2 DEF IsKid
  <2>7. ASSUME NEW i \in 1..n PROVE order[i] \notin s.assigned
    BY <1>3, <1>8, CandidateFacts DEF Scheduled, Consistent
  <2>8. ASSUME NEW i \in 1..(n + 1), NEW j \in 1..(n + 1), i # j PROVE next[i] # next[j]
    <3>1. CASE i \in 1..n /\ j \in 1..n
      <4>1. order[i] # order[j]
        BY <1>4, <2>8, <3>1
      <4> QED
        BY <1>8, <2>5, <2>7, <3>1, <4>1, KidsDiffer
    <3>2. ASSUME NEW k \in 1..n PROVE next[k] # next[n + 1]
      BY <1>8, <2>5, <2>7, KidsDiffer
    <3>3. (i \in 1..n \/ i = n + 1) /\ (j \in 1..n \/ j = n + 1)
      OBVIOUS
    <3> QED
      BY <2>8, <3>1, <3>2, <3>3
  <2>9. ASSUME NEW i \in 1..(n + 1) PROVE IsKid(m, options, s, t, next[i])
    <3>1. i \in 1..n \/ i = n + 1
      OBVIOUS
    <3> QED
      BY <1>8, <2>2, <2>5, <3>1
  <2> QED
    BY <2>4, <2>6, <2>8, <2>9
<1> QED
  BY <1>11, <1>12

-----------------------------------------------------------------------------
(***************************************************************************)
(* The plan of every search state is a schedule.                           *)
(***************************************************************************)

(* Placing a candidate adds its demand where it runs. *)
LEMMA DemandGrows ==
    ASSUME NEW m, WellFormed(m), NEW s, Consistent(m, s), NEW c \in Places(m),
           c \notin s.assigned, NEW a, NEW i \in Int
    PROVE  DemandAt(m, Place(s, c), a, i) =
             DemandAt(m, s, a, i) + (IF c.actor = a /\ c.start <= i /\ i < c.end
                                     THEN m.tasks[c.task].demand ELSE 0)
<1> DEFINE runs(x) == x.actor = a /\ x.start <= i /\ i < x.end
           S == {x \in s.assigned : runs(x)}
           R == {x \in s.assigned \cup {c} : runs(x)}
           f == [x \in S |-> m.tasks[x.task].demand]
           g == [x \in R |-> m.tasks[x.task].demand]
<1>1. Place(s, c).assigned = s.assigned \cup {c}
  BY DEF Place
<1>2. DemandAt(m, s, a, i) = SumOf(f)
  BY DEF DemandAt
<1>3. DemandAt(m, Place(s, c), a, i) = SumOf(g)
  BY <1>1 DEF DemandAt
<1>4. IsFiniteSet(S)
  BY FS_Subset DEF Consistent
<1>5. ASSUME NEW x \in s.assigned \cup {c} PROVE m.tasks[x.task].demand \in Int
  <2>1. x.task \in DOMAIN m.tasks
    BY DEF Consistent, Nodes, Places
  <2> QED BY <2>1, TaskData
<1>6. CASE runs(c)
  <2>1. R = S \cup {c} /\ c \notin S
    BY <1>6
  <2>2. f \in [S -> Int] /\ g \in [S \cup {c} -> Int] /\ \A x \in S : g[x] = f[x]
    BY <1>5, <2>1
  <2>3. g[c] = m.tasks[c.task].demand
    BY <2>1
  <2> HIDE DEF S, R, f, g
  <2>4. SumOf(g) = SumOf(f) + g[c]
    BY <1>4, <2>1, <2>2, SumGrows
  <2> QED
    BY <1>2, <1>3, <1>6, <2>3, <2>4
<1>7. CASE ~runs(c)
  <2>1. R = S
    BY <1>7
  <2>2. g = f
    BY <2>1
  <2>3. SumOf(f) \in Int
    <3>1. f \in [S -> Int]
      BY <1>5
    <3> QED
      BY <1>4, <3>1, SumType
  <2> HIDE DEF S, R, f, g
  <2> QED
    BY <1>2, <1>3, <1>7, <2>2, <2>3
<1> QED
  BY <1>6, <1>7

SoundState(s) ==
    /\ Consistent(model, s)
    /\ Regular => (\A p \in s.assigned : PlacementAllowed(p)) /\ Compatible(s.assigned)
    /\ \A t \in s.dropped :
          Required(model, ToOptions, t) => model.tasks[t].deps \cap s.dropped # {}

LEMMA DropIsSound ==
    ASSUME NEW s, SoundState(s)
    PROVE  SoundState(DropDescendants(model, s))
<1> DEFINE d == DropDescendants(model, s)
<1>1. Consistent(model, d)
  BY DropIsConsistent DEF SoundState
<1>2. /\ d.assigned = s.assigned
      /\ s.dropped \subseteq d.dropped
      /\ \A t \in d.dropped \ s.dropped : DependencyBlocked(model, t, d.dropped)
  BY DropFacts DEF ClosedDrop, SoundState, Consistent
<1> HIDE DEF d
<1>3. SoundState(d)
  BY <1>1, <1>2 DEF SoundState, DependencyBlocked
<1> QED
  BY <1>3 DEF d

LEMMA CandidateAllowed ==
    ASSUME WellFormed(model), Regular, NEW s, s \in Nodes(model), NEW t \in DOMAIN model.tasks,
           NEW c \in CandidatesForTask(model, t, s)
    PROVE  PlacementAllowed(c)
<1>1. /\ c.task = t /\ c.actor \in EligibleActors(model, t)
      /\ Capable(model, t, c.actor)
      /\ c.end = c.start + model.tasks[t].duration
      /\ c.start <= model.tasks[t].latest /\ c.end <= model.tasks[t].deadline
      /\ model.tasks[t].release <= c.start
      /\ c \in Places(model)
      /\ model.tasks[t].duration > 0 =>
           \E k \in DOMAIN model.actors[c.actor].windows :
              /\ model.actors[c.actor].windows[k].start <= c.start
              /\ c.end <= model.actors[c.actor].windows[k].end
  BY CandidateFacts
<1>2. model.tasks[t].duration > 0
  BY DEF Regular
<1>3. \E w \in Range(model.actors[c.actor].windows) : w.start <= c.start /\ c.end <= w.end
  BY <1>1, <1>2 DEF Range
<1>4. c.start >= model.tasks[t].release
  BY <1>1, TaskData DEF Places
<1>5. /\ model.tasks[t].actorIds = {} \/ c.actor \in model.tasks[t].actorIds
      /\ model.tasks[t].types = {} \/ model.actors[c.actor].type \in model.tasks[t].types
  BY <1>1 DEF EligibleActors
<1> QED
  BY <1>1, <1>3, <1>4, <1>5 DEF PlacementAllowed, Capable

LEMMA PlaceIsCompatible ==
    ASSUME WellFormed(model), Regular, NEW s, Consistent(model, s), Compatible(s.assigned),
           NEW t \in ReadyTasks(model, s), NEW c \in CandidatesForTask(model, t, s)
    PROVE  Compatible(s.assigned \cup {c})
<1> DEFINE plan == s.assigned \cup {c}
<1>1. t \in DOMAIN model.tasks /\ t \notin Scheduled(s) /\ model.tasks[t].deps \subseteq Scheduled(s)
  BY ReadyFacts
<1>2. /\ c \in Places(model) /\ c.task = t
      /\ ~MutexBlocked(model, t, s)
      /\ c.end = c.start + model.tasks[t].duration
      /\ \A y \in s.assigned : y.task \in model.tasks[t].deps => y.end <= c.start
      /\ model.tasks[t].duration > 0 => HasCapacity(model, s, c.actor, t, c.start)
  BY <1>1, CandidateFacts DEF Consistent
<1>3. \A x \in s.assigned : x \in Places(model) /\ x.task # t
  BY <1>1 DEF Consistent, Nodes, Scheduled
<1>4. \A p, q \in plan : p.task = q.task => p = q
  BY <1>2, <1>3 DEF Consistent
<1>5. \A p, q \in plan : q.task \in model.tasks[p.task].mutex => p = q
  <2>1. ASSUME NEW x \in s.assigned
        PROVE  x.task \notin model.tasks[t].mutex /\ t \notin model.tasks[x.task].mutex
    <3>1. x.task \in DOMAIN model.tasks
      BY <1>3 DEF Places
    <3> QED
      BY <1>1, <1>2, <3>1 DEF MutexBlocked, Scheduled, Regular
  <2> QED
    BY <1>2, <2>1 DEF Compatible
<1>6. \A p \in plan : \A d \in model.tasks[p.task].deps \cap DOMAIN model.tasks :
          \E q \in plan : q.task = d /\ q.end <= p.start
  <2>1. ASSUME NEW d \in model.tasks[t].deps PROVE \E q \in plan : q.task = d /\ q.end <= c.start
    BY <1>1, <1>2 DEF Scheduled
  <2> QED
    BY <1>2, <2>1 DEF Compatible
<1>7. ASSUME NEW p \in plan, NEW i \in p.start..(p.end - 1)
      PROVE  DemandAt(model, Place(s, c), p.actor, i) <= model.actors[p.actor].capacity
  <2>1. c \notin s.assigned
    BY <1>2, <1>3
  <2>2. p \in Places(model) /\ i \in Int
    BY <1>2, <1>3
  <2>3. c.start \in Nat /\ c.end \in Nat /\ p.start \in Nat /\ p.end \in Nat
    BY <1>2, <2>2 DEF Places
  <2>4. DemandAt(model, Place(s, c), p.actor, i) =
          DemandAt(model, s, p.actor, i)
            + (IF c.actor = p.actor /\ c.start <= i /\ i < c.end
               THEN model.tasks[t].demand ELSE 0)
    BY <1>2, <2>1, <2>2, DemandGrows
  <2>5. DemandAt(model, s, p.actor, i) \in Int
    BY DemandType
  <2>6. CASE c.actor = p.actor /\ c.start <= i /\ i < c.end
    <3>1. model.tasks[t].duration > 0 /\ model.tasks[t].duration \in Nat
      BY <1>1, TaskData DEF Regular
    <3>2. i \in c.start..(c.start + model.tasks[t].duration - 1)
      BY <1>2, <2>2, <2>3, <2>6, <3>1
    <3>3. DemandAt(model, s, c.actor, i) + model.tasks[t].demand
            <= model.actors[c.actor].capacity
      BY <1>2, <3>1, <3>2 DEF HasCapacity
    <3> QED
      BY <2>4, <2>6, <3>3
  <2>7. CASE ~(c.actor = p.actor /\ c.start <= i /\ i < c.end)
    <3>1. p \in s.assigned
      BY <2>2, <2>3, <2>7
    <3>2. DemandAt(model, s, p.actor, i) <= model.actors[p.actor].capacity
      BY <3>1 DEF Compatible, DemandAt
    <3> QED
      BY <2>4, <2>5, <2>7, <3>2
  <2> QED
    BY <2>6, <2>7
<1>8. Place(s, c).assigned = plan
  BY DEF Place
<1>9. \A p \in plan : \A i \in p.start..(p.end - 1) :
         SumOf([q \in {r \in plan : /\ r.actor = p.actor
                                    /\ r.start <= i /\ i < r.end}
                  |-> model.tasks[q.task].demand])
         <= model.actors[p.actor].capacity
  BY <1>7, <1>8 DEF DemandAt
<1> QED
  BY <1>4, <1>5, <1>6, <1>9 DEF Compatible

LEMMA KidIsSound ==
    ASSUME WellFormed(model), NEW s, SoundState(s), NEW t \in ReadyTasks(model, s),
           NEW k, IsKid(model, ToOptions, s, t, k)
    PROVE  SoundState(k)
<1>1. Consistent(model, k)
  BY KidIsConsistent DEF SoundState
<1>2. t \in DOMAIN model.tasks
  BY ReadyFacts
<1>3. ASSUME NEW c \in CandidatesForTask(model, t, s), k = Place(s, c) PROVE SoundState(k)
  <2>1. k.assigned = s.assigned \cup {c} /\ k.dropped = s.dropped
    BY <1>3 DEF Place
  <2>2. Regular => PlacementAllowed(c) /\ Compatible(s.assigned \cup {c})
    BY <1>2, CandidateAllowed, PlaceIsCompatible DEF SoundState, Consistent
  <2> QED
    BY <1>1, <2>1, <2>2 DEF SoundState
<1>4. ASSUME ~Required(model, ToOptions, t), k = GiveUp(s, t) PROVE SoundState(k)
  <2>1. k.assigned = s.assigned /\ k.dropped = s.dropped \cup {t}
    BY <1>4 DEF GiveUp
  <2> QED
    BY <1>1, <1>4, <2>1 DEF SoundState
<1> QED
  BY <1>3, <1>4 DEF IsKid

-----------------------------------------------------------------------------
(***************************************************************************)
(* The search.  Every state it has yet to enter is sound, and so is the    *)
(* best leaf, which leaves no task ready.                                  *)
(***************************************************************************)
InputInv == request \in Requests /\ model = ModelOf(request)

PhaseInv ==
    /\ phase \in {"requested", "search", "solve", "done"}
    /\ phase = "requested" => backend = "none" /\ stack = <<>> /\ best = <<>>
    /\ phase = "search" => backend = "indexed_exact"
    /\ phase = "solve" => backend # "indexed_exact"

StackInv == stack \in Seq(Nodes(model)) /\ \A i \in 1..Len(stack) : SoundState(stack[i])

BestInv ==
    best # <<>> => /\ best = <<best[1]>>
                   /\ SoundState(best[1]) /\ ReadyTasks(model, best[1]) = {}

ResultInv ==
    phase = "done" /\ backend = "indexed_exact" =>
        IF best = <<>> THEN ~result.ok
        ELSE result = Planned(best[1].assigned) /\ result.ok

SearchInv == InputInv /\ PhaseInv /\ StackInv /\ BestInv /\ ResultInv

LEMMA InputFacts == InputInv => WellFormed(model)
BY RequestsAssumption DEF InputInv

LEMMA SoundStays ==
    ASSUME UNCHANGED <<request, model>>, NEW s
    PROVE  SoundState(s)' <=> SoundState(s)
BY DEF SoundState, Regular, PlacementAllowed, Compatible, ToOptions

LEMMA RootIsSound ==
    ASSUME NEW root, root = [assigned |-> {}, dropped |-> {}]
    PROVE  root \in Nodes(model) /\ SoundState(root)
<1>1. root \in Nodes(model)
  BY DEF Nodes
<1>2. Consistent(model, root)
  BY <1>1, FS_EmptySet DEF Consistent, Scheduled
<1> QED
  BY <1>1, <1>2 DEF SoundState, Compatible

(* The state dfs works on, and what it leaves on the stack. *)
LEMMA NodeFacts ==
    ASSUME StackInv, stack # <<>>
    PROVE  /\ Head(stack) \in Nodes(model) /\ SoundState(Head(stack))
           /\ Node \in Nodes(model) /\ SoundState(Node)
           /\ Tail(stack) \in Seq(Nodes(model))
           /\ Len(Tail(stack)) = Len(stack) - 1
           /\ \A i \in 1..Len(Tail(stack)) : Tail(stack)[i] = stack[i + 1]
           /\ Len(stack) \in Nat \ {0} /\ Head(stack) = stack[1]
<1>1. stack \in Seq(Nodes(model))
  BY DEF StackInv
<1>2. /\ Head(stack) \in Nodes(model) /\ Tail(stack) \in Seq(Nodes(model))
      /\ Len(Tail(stack)) = Len(stack) - 1
      /\ \A i \in 1..Len(Tail(stack)) : Tail(stack)[i] = stack[i + 1]
  BY <1>1, HeadTailProperties
<1>3. Len(stack) \in Nat \ {0} /\ Head(stack) = stack[1]
  BY <1>1, EmptySeq
<1>4. SoundState(stack[1])
  BY <1>3 DEF StackInv
<1>5. SoundState(Node)
  BY <1>3, <1>4, DropIsSound DEF Node
<1>6. Node \in Nodes(model)
  BY <1>5 DEF SoundState, Consistent
<1> QED
  BY <1>2, <1>3, <1>4, <1>5, <1>6

LEMMA TailIsSound ==
    ASSUME StackInv, stack # <<>>, stack' = Tail(stack), UNCHANGED <<request, model>>
    PROVE  StackInv'
<1>1. ASSUME NEW i \in 1..Len(stack') PROVE SoundState(stack'[i])
  <2>1. stack'[i] = stack[i + 1] /\ i + 1 \in 1..Len(stack)
    BY NodeFacts
  <2> QED BY <2>1 DEF StackInv
<1> QED
  BY <1>1, NodeFacts, SoundStays DEF StackInv

LEMMA BranchIsSound ==
    ASSUME InputInv, StackInv, Branch
    PROVE  StackInv'
<1>1. stack # <<>> /\ UNCHANGED <<request, model>>
  BY DEF Branch
<1>2. PICK next \in Branches(model, ToOptions, Node) : stack' = next \o Tail(stack)
  BY DEF Branch
<1>3. SoundState(Node) /\ Consistent(model, Node) /\ WellFormed(model)
  BY <1>1, NodeFacts, InputFacts DEF SoundState
<1>4. PICK t \in NextTask(model, Node) :
         /\ next \in Seq(Nodes(model))
         /\ \A i \in 1..Len(next) : IsKid(model, ToOptions, Node, t, next[i])
  BY <1>3, BranchFacts
<1>5. t \in ReadyTasks(model, Node)
  BY DEF NextTask
<1>6. ASSUME NEW i \in 1..Len(next) PROVE SoundState(next[i])
  BY <1>3, <1>4, <1>5, KidIsSound
<1>7. ASSUME NEW i \in 1..Len(Tail(stack)) PROVE SoundState(Tail(stack)[i])
  <2>1. Tail(stack)[i] = stack[i + 1] /\ i + 1 \in 1..Len(stack)
    BY <1>1, NodeFacts
  <2> QED BY <2>1 DEF StackInv
<1>8. PICK rest \in Seq(Nodes(model)) : rest = Tail(stack)
  BY <1>1, NodeFacts
<1>9. /\ stack' \in Seq(Nodes(model))
      /\ Len(stack') = Len(next) + Len(rest)
      /\ \A i \in 1..(Len(next) + Len(rest)) :
            stack'[i] = IF i <= Len(next) THEN next[i] ELSE rest[i - Len(next)]
  BY <1>2, <1>4, <1>8, ConcatProperties
<1>10. Len(next) \in Nat /\ Len(rest) \in Nat
  BY <1>4, LenProperties
<1>11. ASSUME NEW i \in 1..Len(stack') PROVE SoundState(stack'[i])
  <2>1. CASE i <= Len(next)
    <3>1. i \in 1..Len(next) /\ stack'[i] = next[i]
      BY <1>9, <1>10, <2>1
    <3> QED BY <1>6, <3>1
  <2>2. CASE ~(i <= Len(next))
    <3>1. i - Len(next) \in 1..Len(rest) /\ stack'[i] = rest[i - Len(next)]
      BY <1>9, <1>10, <2>2
    <3> QED BY <1>7, <1>8, <3>1
  <2> QED BY <2>1, <2>2
<1> QED
  BY <1>1, <1>9, <1>11, SoundStays DEF StackInv

LEMMA SearchInvInit == Init => SearchInv
<1> SUFFICES ASSUME Init PROVE SearchInv
  OBVIOUS
<1>1. stack \in Seq(Nodes(model)) /\ Len(stack) = 0
  BY EmptySeq DEF Init
<1> QED
  BY <1>1 DEF Init, SearchInv, InputInv, PhaseInv, StackInv, BestInv, ResultInv

LEMMA SearchInvNext == SearchInv /\ [Next]_vars => SearchInv'
<1> SUFFICES ASSUME SearchInv, [Next]_vars PROVE SearchInv'
  OBVIOUS
<1> USE DEF SearchInv
<1>1. UNCHANGED <<request, model>>
  BY DEF Next, ParseFails, Optimize, Prune, Leaf, Branch, SearchEnds, RejectModel,
         MipUnavailable, SolverFails, SolverOptimal, SolverSelects, Done, vars
<1>2. InputInv'
  BY <1>1 DEF InputInv
<1>3. ASSUME UNCHANGED best PROVE BestInv'
  BY <1>1, <1>3, SoundStays DEF BestInv
<1>4. ASSUME UNCHANGED stack PROVE StackInv'
  BY <1>1, <1>4, SoundStays DEF StackInv
<1>5. CASE UNCHANGED vars
  BY <1>2, <1>3, <1>4, <1>5 DEF vars, PhaseInv, ResultInv, Planned
<1>6. CASE \/ ParseFails \/ RejectModel \/ MipUnavailable \/ SolverFails
           \/ SolverOptimal \/ SolverSelects
  <2>1. /\ phase \in {"requested", "solve"} /\ phase' = "done"
        /\ UNCHANGED <<backend, stack, best>>
    BY <1>6 DEF ParseFails, RejectModel, MipUnavailable, SolverFails, SolverOptimal,
                SolverSelects, Finish
  <2>2. backend' # "indexed_exact"
    BY <2>1 DEF PhaseInv
  <2> QED
    BY <1>2, <1>3, <1>4, <2>1, <2>2 DEF PhaseInv, ResultInv
<1>7. CASE Optimize
  <2>1. phase = "requested" /\ best = <<>> /\ best' = <<>> /\ stack = <<>> /\ backend = "none"
    BY <1>7 DEF Optimize, PhaseInv
  <2> DEFINE found == CreateBackend(BackendKindFromString(ToOptions.backend))
  <2>2. CASE found = <<>> /\ Finish(Failure) /\ UNCHANGED <<backend, form, stack>>
    BY <1>2, <1>3, <1>4, <2>1, <2>2 DEF PhaseInv, ResultInv, Finish
  <2>3. CASE /\ backend' = Head(found)
             /\ phase' = IF Head(found) = "indexed_exact" THEN "search" ELSE "solve"
             /\ stack' = IF Head(found) = "indexed_exact"
                         THEN <<[assigned |-> {}, dropped |-> {}]>> ELSE <<>>
    <3> HIDE DEF found
    <3>1. PhaseInv' /\ ResultInv'
      BY <2>3 DEF PhaseInv, ResultInv
    <3>2. PICK root : root = [assigned |-> {}, dropped |-> {}]
      OBVIOUS
    <3>3. root \in Nodes(model) /\ SoundState(root)
      BY <3>2, RootIsSound
    <3>4. CASE Head(found) = "indexed_exact"
      <4>1. stack' = <<root>>
        BY <2>3, <3>2, <3>4
      <4>2. stack' \in Seq(Nodes(model)) /\ Len(stack') = 1 /\ stack'[1] = root
        BY <3>3, <4>1
      <4>3. \A i \in 1..Len(stack') : SoundState(stack'[i])
        BY <3>3, <4>2
      <4> QED
        BY <1>1, <1>2, <1>3, <2>1, <3>1, <4>2, <4>3, SoundStays DEF StackInv
    <3>5. CASE Head(found) # "indexed_exact"
      BY <1>2, <1>3, <1>4, <2>1, <2>3, <3>1, <3>5
    <3> QED
      BY <3>4, <3>5
  <2> QED
    BY <1>7, <2>2, <2>3 DEF Optimize
<1>8. CASE Prune
  BY <1>1, <1>2, <1>3, <1>8, TailIsSound DEF Prune, PhaseInv, ResultInv
<1>9. CASE Branch
  BY <1>2, <1>3, <1>9, BranchIsSound DEF Branch, PhaseInv, ResultInv
<1>10. CASE Leaf
  <2>1. StackInv'
    BY <1>1, <1>10, TailIsSound DEF Leaf
  <2>2. SoundState(Node) /\ ReadyTasks(model, Node) = {}
    BY <1>10, NodeFacts DEF Leaf
  <2>3. BestInv'
    <3>1. CASE best' = best
      BY <1>3, <3>1
    <3>2. CASE best' = <<Node>>
      <4>1. PICK b : b = Node
        OBVIOUS
      <4>2. best' = <<b>> /\ best'[1] = b /\ SoundState(b)' /\ ReadyTasks(model', b) = {}
        BY <1>1, <2>2, <3>2, <4>1, SoundStays
      <4> QED
        BY <4>2 DEF BestInv
    <3> QED
      BY <1>10, <3>1, <3>2 DEF Leaf
  <2> QED
    BY <1>2, <1>10, <2>1, <2>3 DEF Leaf, PhaseInv, ResultInv
<1>11. CASE SearchEnds
  <2>1. ResultInv'
    BY <1>1, <1>11 DEF SearchEnds, Finish, ResultInv, Failure, Report, Planned
  <2> QED
    BY <1>2, <1>3, <1>4, <1>11, <2>1 DEF SearchEnds, Finish, PhaseInv
<1>12. CASE Done
  BY <1>5, <1>12 DEF Done
<1> QED
  BY <1>5, <1>6, <1>7, <1>8, <1>9, <1>10, <1>11, <1>12 DEF Next

(* The exact backend returns a schedule the solvers would accept, for every *)
(* request and build: allowed placements that fit together, and a required  *)
(* task is left out only when a dependency of it is.                        *)
THEOREM ExactReturnsASchedule == Spec => []ExactPlanIsASchedule
<1>1. SearchInv => ExactPlanIsASchedule
  <2> SUFFICES ASSUME SearchInv, phase = "done", backend = "indexed_exact", result.ok, Regular
               PROVE  /\ \A p \in result.assigned : PlacementAllowed(p)
                      /\ Compatible(result.assigned)
                      /\ \A t \in result.unfulfilled :
                            Required(model, ToOptions, t) =>
                               ~(model.tasks[t].deps \subseteq {p.task : p \in result.assigned})
    BY DEF ExactPlanIsASchedule
  <2>1. best # <<>> /\ result = Planned(best[1].assigned)
    BY DEF SearchInv, ResultInv
  <2>2. PICK b : b = best[1] /\ SoundState(b) /\ ReadyTasks(model, b) = {}
    BY <2>1 DEF SearchInv, BestInv
  <2>3. result.assigned = b.assigned /\ result.unfulfilled = DOMAIN model.tasks \ Scheduled(b)
    BY <2>1, <2>2 DEF Planned, Report, Scheduled
  <2>4. ASSUME NEW t \in result.unfulfilled, Required(model, ToOptions, t),
               model.tasks[t].deps \subseteq Scheduled(b)
        PROVE  FALSE
    <3>1. Scheduled(b) \cap b.dropped = {}
      BY <2>2 DEF SoundState, Consistent
    <3>2. t \notin b.dropped
      BY <2>2, <2>4, <3>1 DEF SoundState
    <3>3. t \in ReadyTasks(model, b)
      BY <2>3, <2>4, <3>1, <3>2
         DEF ReadyTasks, Decided, DependencyBlocked, DependenciesSatisfied, Scheduled
    <3> QED
      BY <2>2, <3>3
  <2> QED
    BY <2>2, <2>3, <2>4 DEF SoundState, Scheduled
<1> QED
  BY <1>1, SearchInvInit, SearchInvNext, PTL DEF Spec
-----------------------------------------------------------------------------
(***************************************************************************)
(* The search tree.  Universe is where dfs can be; Leads is one step down; *)
(* Under(s) is the subtree of s, the least set that holds s and is closed  *)
(* under steps down, so that facts about a whole subtree follow from facts *)
(* about a step.                                                           *)
(***************************************************************************)
Universe(m) == {s \in Nodes(m) : Consistent(m, s)}

Leads(m, options, s, x) ==
    /\ ReadyTasks(m, s) # {}
    /\ \E k \in Children(m, options, s) : x = DropDescendants(m, k)

ClosedDown(m, options, C) ==
    \A s \in C : \A x \in Universe(m) : Leads(m, options, s, x) => x \in C

Under(m, options, s) ==
    {x \in Universe(m) : \A C \in SUBSET Universe(m) :
                            s \in C /\ ClosedDown(m, options, C) => x \in C}

LEMMA LexAsymmetric ==
    ASSUME NEW n \in Nat, NEW u \in [1..n -> Int], NEW v \in [1..n -> Int],
           LexLess(u, v), LexLess(v, u)
    PROVE  FALSE
<1>1. PICK i \in 1..n : u[i] < v[i] /\ \A h \in 1..(i - 1) : u[h] = v[h]
  BY DEF LexLess
<1>2. PICK j \in 1..n : v[j] < u[j] /\ \A h \in 1..(j - 1) : v[h] = u[h]
  BY DEF LexLess
<1>3. u[i] \in Int /\ v[i] \in Int /\ u[j] \in Int /\ v[j] \in Int
  OBVIOUS
<1>4. i = j \/ i \in 1..(j - 1) \/ j \in 1..(i - 1)
  OBVIOUS
<1> QED
  BY <1>1, <1>2, <1>3, <1>4

(* The ready list has one front: the keys end in the task's id. *)
LEMMA NextUnique ==
    ASSUME NEW m, WellFormed(m), NEW s, NEW t \in NextTask(m, s), NEW u \in NextTask(m, s)
    PROVE  t = u
<1> SUFFICES ASSUME t # u PROVE FALSE
  OBVIOUS
<1>1. t \in DOMAIN m.tasks /\ u \in DOMAIN m.tasks
  BY DEF NextTask, ReadyTasks
<1>2. LexLess(ReadyKey(m, t), ReadyKey(m, u)) /\ LexLess(ReadyKey(m, u), ReadyKey(m, t))
  BY DEF NextTask
<1>3. ASSUME NEW v \in DOMAIN m.tasks PROVE ReadyKey(m, v) \in [1..5 -> Int]
  <2>1. /\ m.tasks[v].priority \in Int /\ m.tasks[v].deadline \in Int /\ m.tasks[v].release \in Int
        /\ m.tasks[v].duration \in Int /\ v \in Int
    BY TaskData
  <2> QED
    BY <2>1 DEF ReadyKey
<1> QED
  BY <1>1, <1>2, <1>3, LexAsymmetric

(* A list of branches holds the children of its node. *)
LEMMA ChildrenFacts ==
    ASSUME NEW m, WellFormed(m), NEW options, NEW s \in Universe(m),
           NEW next \in Branches(m, options, s)
    PROVE  \E t \in NextTask(m, s) :
             /\ next \in Seq(Nodes(m))
             /\ \A k : k \in Children(m, options, s) <=> IsKid(m, options, s, t, k)
             /\ \A k \in Children(m, options, s) : \E i \in 1..Len(next) : next[i] = k
             /\ \A i \in 1..Len(next) : next[i] \in Children(m, options, s)
             /\ \A i, j \in 1..Len(next) : i # j => next[i] # next[j]
<1>1. Consistent(m, s)
  BY DEF Universe
<1>2. PICK t \in NextTask(m, s) :
         /\ next \in Seq(Nodes(m))
         /\ \A i \in 1..Len(next) : IsKid(m, options, s, t, next[i])
         /\ \A k : IsKid(m, options, s, t, k) => \E i \in 1..Len(next) : next[i] = k
         /\ \A i, j \in 1..Len(next) : i # j => next[i] # next[j]
  BY <1>1, BranchFacts
<1>3. DOMAIN next = 1..Len(next)
  BY <1>2
<1>4. \A i \in 1..Len(next) : next[i] \in Children(m, options, s)
  BY <1>3 DEF Children, Range
<1>5. ASSUME NEW k \in Children(m, options, s) PROVE IsKid(m, options, s, t, k)
  <2>1. PICK other \in Branches(m, options, s) : k \in Range(other)
    BY DEF Children
  <2>2. PICK u \in NextTask(m, s) :
           /\ other \in Seq(Nodes(m))
           /\ \A i \in 1..Len(other) : IsKid(m, options, s, u, other[i])
    BY <1>1, BranchFacts
  <2>3. PICK i \in 1..Len(other) : k = other[i]
    BY <2>1, <2>2 DEF Range
  <2>4. t = u
    BY NextUnique
  <2> QED
    BY <2>2, <2>3, <2>4
<1> QED
  BY <1>2, <1>4, <1>5

(* A child is a kid of the one next task. *)
LEMMA ChildIsKid ==
    ASSUME NEW m, WellFormed(m), NEW options, NEW s \in Universe(m),
           NEW k \in Children(m, options, s)
    PROVE  \E t \in ReadyTasks(m, s) : t \in NextTask(m, s) /\ IsKid(m, options, s, t, k)
<1>1. PICK next \in Branches(m, options, s) : k \in Range(next)
  BY DEF Children
<1>2. PICK t \in NextTask(m, s) :
         \A c : c \in Children(m, options, s) <=> IsKid(m, options, s, t, c)
  BY ChildrenFacts
<1> QED
  BY <1>2 DEF NextTask

LEMMA LeadsStays ==
    ASSUME NEW m, WellFormed(m), NEW options, NEW s \in Universe(m),
           NEW x, Leads(m, options, s, x)
    PROVE  x \in Universe(m)
<1>1. PICK k \in Children(m, options, s) : x = DropDescendants(m, k)
  BY DEF Leads
<1>2. PICK t \in ReadyTasks(m, s) : IsKid(m, options, s, t, k)
  BY ChildIsKid
<1>3. Consistent(m, x)
  BY <1>1, <1>2, KidIsConsistent, DropIsConsistent DEF Universe
<1> QED
  BY <1>3 DEF Universe, Consistent

LEMMA UnderLeast ==
    ASSUME NEW m, NEW options, NEW s, NEW C \in SUBSET Universe(m), s \in C,
           ClosedDown(m, options, C)
    PROVE  Under(m, options, s) \subseteq C
BY DEF Under

LEMMA UnderClosed ==
    ASSUME NEW m, WellFormed(m), NEW options, NEW s \in Universe(m)
    PROVE  /\ s \in Under(m, options, s)
           /\ Under(m, options, s) \in SUBSET Universe(m)
           /\ ClosedDown(m, options, Under(m, options, s))
<1>1. s \in Under(m, options, s) /\ Under(m, options, s) \in SUBSET Universe(m)
  BY DEF Under
<1>2. ASSUME NEW x \in Under(m, options, s), NEW y \in Universe(m), Leads(m, options, x, y)
      PROVE  y \in Under(m, options, s)
  BY <1>2 DEF Under, ClosedDown
<1> QED
  BY <1>1, <1>2 DEF ClosedDown

(* What is under a step down is under the node. *)
LEMMA UnderStep ==
    ASSUME NEW m, WellFormed(m), NEW options, NEW s \in Universe(m),
           NEW x, Leads(m, options, s, x)
    PROVE  Under(m, options, x) \subseteq Under(m, options, s)
<1>1. x \in Universe(m)
  BY LeadsStays
<1>2. x \in Under(m, options, s)
  BY <1>1, UnderClosed DEF ClosedDown
<1> QED
  BY <1>2, UnderClosed, UnderLeast

(* What is under a node is the node or under a step down from it. *)
LEMMA UnderSplit ==
    ASSUME NEW m, WellFormed(m), NEW options, NEW s \in Universe(m),
           NEW x \in Under(m, options, s), x # s
    PROVE  \E y \in Universe(m) : Leads(m, options, s, y) /\ x \in Under(m, options, y)
<1> DEFINE Deeper == {z \in Universe(m) : \E y \in Universe(m) :
                         Leads(m, options, s, y) /\ z \in Under(m, options, y)}
           C == {s} \cup Deeper
<1>1. C \in SUBSET Universe(m)
  OBVIOUS
<1>2. ASSUME NEW z \in C, NEW y \in Universe(m), Leads(m, options, z, y) PROVE y \in C
  <2>1. CASE z = s
    BY <1>2, <2>1, UnderClosed
  <2>2. CASE z \in Deeper
    <3>1. PICK w \in Universe(m) : Leads(m, options, s, w) /\ z \in Under(m, options, w)
      BY <2>2
    <3>2. y \in Under(m, options, w)
      BY <1>2, <3>1, UnderClosed DEF ClosedDown
    <3> QED
      BY <3>1, <3>2
  <2> QED
    BY <2>1, <2>2
<1>3. ClosedDown(m, options, C)
  <2> HIDE DEF C
  <2> QED BY <1>2 DEF ClosedDown
<1>4. Under(m, options, s) \subseteq C
  <2>1. s \in C
    OBVIOUS
  <2> HIDE DEF C
  <2> QED BY <1>1, <1>3, <2>1, UnderLeast
<1> QED
  BY <1>4

LEMMA UnderLeaf ==
    ASSUME NEW m, WellFormed(m), NEW options, NEW s \in Universe(m), ReadyTasks(m, s) = {},
           NEW x \in Under(m, options, s)
    PROVE  x = s
BY UnderSplit DEF Leads
-----------------------------------------------------------------------------
(***************************************************************************)
(* The tree the properties build level by level is the subtree of its root.*)
(***************************************************************************)
IsLevels(m, options, root, n, f) ==
    f = [d \in 0..n |-> IF d = 0 THEN {root} ELSE Grow(m, options, f[d - 1])]

LEMMA LevelsExist ==
    ASSUME NEW m, NEW options, NEW root, NEW n \in Nat
    PROVE  \E f : IsLevels(m, options, root, n, f)
<1> USE DEF IsLevels
<1> DEFINE Is(f, k) == IsLevels(m, options, root, k, f)
           Bad == {k \in Nat : ~\E f : Is(f, k)}
<1> SUFFICES ASSUME Bad # {} PROVE FALSE
  OBVIOUS
<1>1. PICK k \in Bad : \A j \in Bad : k <= j
  BY LeastOfNat
<1>2. CASE k = 0
  <2> DEFINE g == [d \in 0..0 |-> {root}]
  <2>1. Is(g, 0)
    OBVIOUS
  <2> QED
    BY <1>2, <2>1
<1>3. CASE k # 0
  <2>1. k - 1 \in Nat /\ k - 1 \notin Bad
    <3>1. k \in Nat
      BY <1>1
    <3> HIDE DEF Bad
    <3> QED BY <1>1, <1>3, <3>1
  <2>2. PICK f : Is(f, k - 1)
    BY <2>1
  <2> DEFINE g == [d \in 0..k |-> IF d = 0 THEN {root} ELSE Grow(m, options, f[d - 1])]
  <2>3. ASSUME NEW d \in 0..(k - 1) PROVE g[d] = f[d]
    <3>1. f[d] = IF d = 0 THEN {root} ELSE Grow(m, options, f[d - 1])
      BY <2>2
    <3>2. d \in 0..k
      BY <2>1
    <3>3. g[d] = IF d = 0 THEN {root} ELSE Grow(m, options, f[d - 1])
      BY <3>2
    <3> QED BY <3>1, <3>3
  <2>4. ASSUME NEW d \in 0..k
        PROVE  g[d] = IF d = 0 THEN {root} ELSE Grow(m, options, g[d - 1])
    <3>1. CASE d = 0
      BY <3>1
    <3>2. CASE d # 0
      <4>1. d - 1 \in 0..(k - 1)
        BY <3>2
      <4> QED
        BY <2>3, <3>2, <4>1
    <3> QED
      BY <3>1, <3>2
  <2>5. DOMAIN g = 0..k /\ g = [d \in 0..k |-> g[d]]
    OBVIOUS
  <2> HIDE DEF g
  <2>6. Is(g, k)
    BY <2>4, <2>5
  <2> QED
    BY <2>6
<1> QED
  BY <1>2, <1>3

HasLevels(m, options, level) ==
    /\ level[0] = {DropDescendants(m, [assigned |-> {}, dropped |-> {}])}
    /\ \A d \in 1..Cardinality(DOMAIN m.tasks) : level[d] = Grow(m, options, level[d - 1])
    /\ TreeOf(m, options) = UNION {level[d] : d \in 0..Cardinality(DOMAIN m.tasks)}

LEMMA TreeLevels ==
    ASSUME NEW m, NEW options, Cardinality(DOMAIN m.tasks) \in Nat
    PROVE  \E level : HasLevels(m, options, level)
<1> DEFINE n == Cardinality(DOMAIN m.tasks)
           root == DropDescendants(m, [assigned |-> {}, dropped |-> {}])
           Is(f) == IsLevels(m, options, root, n, f)
           level == CHOOSE f : Is(f)
<1>1. TreeOf(m, options) = UNION {level[d] : d \in DOMAIN level}
  BY DEF TreeOf, IsLevels
<1>2. level = [d \in 0..n |-> IF d = 0 THEN {root} ELSE Grow(m, options, level[d - 1])]
  <2>1. n \in Nat
    OBVIOUS
  <2>2. \E f : Is(f)
    BY <2>1, LevelsExist
  <2>3. Is(level)
    <3> HIDE DEF Is
    <3> QED BY <2>2
  <2> HIDE DEF level
  <2> QED
    BY <2>3 DEF IsLevels
<1> HIDE DEF level, root
<1>3. DOMAIN level = 0..n
  BY <1>2
<1>4. ASSUME NEW d \in 0..n
      PROVE  level[d] = IF d = 0 THEN {root} ELSE Grow(m, options, level[d - 1])
  BY <1>2
<1>5. level[0] = {root} /\ \A d \in 1..n : level[d] = Grow(m, options, level[d - 1])
  BY <1>4
<1>6. HasLevels(m, options, level)
  BY <1>1, <1>3, <1>5 DEF root, HasLevels
<1> QED
  BY <1>6

(* A step down decides a task more. *)
LEMMA LeadsDecides ==
    ASSUME NEW m, WellFormed(m), NEW options, NEW s \in Universe(m),
           NEW x, Leads(m, options, s, x)
    PROVE  \E t \in NextTask(m, s) :
             /\ t \in DOMAIN m.tasks \ Decided(s)
             /\ Decided(s) \cup {t} \subseteq Decided(x)
             /\ s.dropped \subseteq x.dropped
             /\ \/ \E c \in CandidatesForTask(m, t, s) : x.assigned = s.assigned \cup {c}
                \/ x.assigned = s.assigned /\ t \in x.dropped
<1>1. PICK k \in Children(m, options, s) : x = DropDescendants(m, k)
  BY DEF Leads
<1>2. PICK t \in ReadyTasks(m, s) : t \in NextTask(m, s) /\ IsKid(m, options, s, t, k)
  BY ChildIsKid
<1>3. Consistent(m, s) /\ Consistent(m, k) /\ k \in Nodes(m) /\ s \in Nodes(m)
  BY <1>2, KidIsConsistent DEF Universe, Consistent
<1>4. x.assigned = k.assigned /\ k.dropped \subseteq x.dropped
  BY <1>1, <1>3, DropFacts DEF ClosedDrop
<1>5. t \in DOMAIN m.tasks \ Decided(s)
  BY DEF ReadyTasks
<1>6. CASE \E c \in CandidatesForTask(m, t, s) : k = Place(s, c)
  <2>1. PICK c \in CandidatesForTask(m, t, s) : k = Place(s, c)
    BY <1>6
  <2>2. k.assigned = s.assigned \cup {c} /\ k.dropped = s.dropped
    BY <2>1 DEF Place
  <2>3. c.task = t
    BY <1>3, <1>5, CandidateFacts
  <2>4. Scheduled(x) = Scheduled(s) \cup {t}
    BY <1>4, <2>2, <2>3 DEF Scheduled
  <2> QED
    BY <1>2, <1>4, <1>5, <2>2, <2>4 DEF Decided
<1>7. CASE k = GiveUp(s, t)
  <2>1. k.assigned = s.assigned /\ k.dropped = s.dropped \cup {t}
    BY <1>7 DEF GiveUp
  <2>2. Scheduled(x) = Scheduled(s)
    BY <1>4, <2>1 DEF Scheduled
  <2> QED
    BY <1>2, <1>4, <1>5, <2>1, <2>2 DEF Decided
<1> QED
  BY <1>2, <1>6, <1>7 DEF IsKid

LEMMA DecidedFacts ==
    ASSUME NEW m, WellFormed(m), NEW s \in Universe(m)
    PROVE  /\ Decided(s) \in SUBSET DOMAIN m.tasks
           /\ IsFiniteSet(Decided(s)) /\ Cardinality(Decided(s)) \in Nat
           /\ Cardinality(Decided(s)) <= Cardinality(DOMAIN m.tasks)
           /\ IsFiniteSet(DOMAIN m.tasks) /\ Cardinality(DOMAIN m.tasks) \in Nat
<1>1. Decided(s) \in SUBSET DOMAIN m.tasks
  BY DEF Universe, Nodes, Places, Decided, Scheduled
<1> QED
  BY <1>1, FS_Subset, FS_CardinalityType DEF WellFormed

LEMMA MoreIsDecided ==
    ASSUME NEW m, WellFormed(m), NEW options, NEW s \in Universe(m),
           NEW x, Leads(m, options, s, x)
    PROVE  /\ Cardinality(Decided(s)) + 1 <= Cardinality(Decided(x))
           /\ Cardinality(Decided(s)) < Cardinality(DOMAIN m.tasks)
<1>1. PICK t \in DOMAIN m.tasks \ Decided(s) : Decided(s) \cup {t} \subseteq Decided(x)
  BY LeadsDecides
<1>2. x \in Universe(m)
  BY LeadsStays
<1>3. IsFiniteSet(Decided(s) \cup {t}) /\ Cardinality(Decided(s) \cup {t}) = Cardinality(Decided(s)) + 1
  BY <1>1, DecidedFacts, FS_AddElement
<1>4. Cardinality(Decided(s) \cup {t}) <= Cardinality(Decided(x))
  BY <1>1, <1>2, DecidedFacts, FS_Subset
<1> QED
  BY <1>2, <1>3, <1>4, DecidedFacts
LEMMA GrowFacts ==
    ASSUME NEW m, NEW options, NEW S, NEW x
    PROVE  x \in Grow(m, options, S) <=> \E s \in S : Leads(m, options, s, x)
BY DEF Grow, Leads

LEMMA ChildrenFinite ==
    ASSUME NEW m, WellFormed(m), NEW options, NEW s \in Universe(m)
    PROVE  IsFiniteSet(Children(m, options, s))
<1>1. CASE Branches(m, options, s) = {}
  <2>1. Children(m, options, s) = {}
    BY <1>1 DEF Children
  <2> QED
    BY <2>1, FS_EmptySet
<1>2. CASE Branches(m, options, s) # {}
  <2>1. PICK next \in Branches(m, options, s) : TRUE
    BY <1>2
  <2>2. /\ next \in Seq(Nodes(m))
        /\ \A k \in Children(m, options, s) : \E i \in 1..Len(next) : next[i] = k
        /\ \A i \in 1..Len(next) : next[i] \in Children(m, options, s)
    BY ChildrenFacts
  <2>3. next \in Surjection(1..Len(next), Children(m, options, s))
    BY <2>2 DEF Surjection
  <2>4. IsFiniteSet(1..Len(next))
    BY <2>2, LenProperties, FS_Interval
  <2> QED
    BY <2>3, <2>4, FS_Surjection
<1> QED
  BY <1>1, <1>2

LEMMA GrowFinite ==
    ASSUME NEW m, WellFormed(m), NEW options, NEW S \in SUBSET Universe(m), IsFiniteSet(S)
    PROVE  IsFiniteSet(Grow(m, options, S))
<1> DEFINE Q == {q \in S : ReadyTasks(m, q) # {}}
           families == {Children(m, options, s) : s \in Q}
           f == [s \in Q |-> Children(m, options, s)]
           K == UNION families
           g == [k \in K |-> DropDescendants(m, k)]
<1>1. IsFiniteSet(Q)
  BY FS_Subset
<1>2. f \in Surjection(Q, families)
  BY DEF Surjection
<1>3. IsFiniteSet(families)
  BY <1>1, <1>2, FS_Surjection
<1>4. \A F \in families : IsFiniteSet(F)
  BY ChildrenFinite
<1>5. IsFiniteSet(K)
  BY <1>3, <1>4, FS_UNION
<1>6. Grow(m, options, S) = {DropDescendants(m, k) : k \in K}
  BY DEF Grow
<1>7. g \in Surjection(K, Grow(m, options, S))
  <2> HIDE DEF K
  <2> QED BY <1>6 DEF Surjection
<1> QED
  BY <1>5, <1>7, FS_Surjection

LEMMA RootIsThere ==
    ASSUME NEW m
    PROVE  DropDescendants(m, [assigned |-> {}, dropped |-> {}]) \in Universe(m)
<1>1. PICK root : root = [assigned |-> {}, dropped |-> {}]
  OBVIOUS
<1>2. root \in Nodes(m)
  BY <1>1 DEF Nodes
<1>3. Consistent(m, root)
  BY <1>1, <1>2, FS_EmptySet DEF Consistent, Scheduled
<1>4. Consistent(m, DropDescendants(m, root))
  BY <1>3, DropIsConsistent
<1> QED
  BY <1>1, <1>4 DEF Universe, Consistent

(* The tree is the subtree of the root, and it is finite. *)
LEMMA TreeIsUnder ==
    ASSUME NEW m, WellFormed(m), NEW options,
           NEW root, root = DropDescendants(m, [assigned |-> {}, dropped |-> {}])
    PROVE  TreeOf(m, options) = Under(m, options, root) /\ IsFiniteSet(TreeOf(m, options))
<1> DEFINE n == Cardinality(DOMAIN m.tasks)
<1>1. n \in Nat /\ root \in Universe(m)
  BY RootIsThere, FS_CardinalityType DEF WellFormed
<1>0. PICK level : HasLevels(m, options, level)
  BY <1>1, TreeLevels
<1>2. /\ level[0] = {root}
      /\ \A d \in 1..n : level[d] = Grow(m, options, level[d - 1])
      /\ TreeOf(m, options) = UNION {level[d] : d \in 0..n}
  BY <1>0 DEF HasLevels
<1> DEFINE Fine(d) == /\ level[d] \subseteq Under(m, options, root)
                      /\ \A s \in level[d] : d <= Cardinality(Decided(s))
                      /\ IsFiniteSet(level[d])
           Bad == {d \in 0..n : ~Fine(d)}
<1>3. Bad = {}
  <2> SUFFICES ASSUME Bad # {} PROVE FALSE
    OBVIOUS
  <2>1. PICK d \in Bad : \A e \in Bad : d <= e
    <3>1. Bad \in SUBSET Nat
      BY <1>1
    <3> HIDE DEF Bad
    <3> QED BY <3>1, LeastOfNat
  <2>2. d \in 0..n /\ ~Fine(d)
    OBVIOUS
  <2>3. CASE d = 0
    <3>1. root \in Under(m, options, root) /\ Cardinality(Decided(root)) \in Nat
      BY <1>1, UnderClosed, DecidedFacts
    <3>2. IsFiniteSet({root})
      BY FS_Singleton
    <3>3. Fine(0)
      BY <1>2, <3>1, <3>2
    <3> QED
      BY <2>2, <2>3, <3>3
  <2>4. CASE d # 0
    <3>1. d - 1 \in 0..n /\ d \in 1..n /\ ~(d <= d - 1)
      BY <1>1, <2>2, <2>4
    <3>2. d - 1 \notin Bad
      <4> HIDE DEF Bad
      <4> QED BY <2>1, <3>1
    <3>3. Fine(d - 1)
      BY <3>1, <3>2
    <3>4. level[d] = Grow(m, options, level[d - 1])
      BY <1>2, <3>1
    <3>5. level[d - 1] \in SUBSET Universe(m)
      BY <1>1, <3>3, UnderClosed
    <3>6. IsFiniteSet(level[d])
      BY <3>3, <3>4, <3>5, GrowFinite
    <3>7. ASSUME NEW x \in level[d]
          PROVE  x \in Under(m, options, root) /\ d <= Cardinality(Decided(x))
      <4>1. PICK s \in level[d - 1] : Leads(m, options, s, x)
        BY <3>4, GrowFacts
      <4>2. s \in Universe(m) /\ s \in Under(m, options, root)
        BY <3>3, <3>5
      <4>3. x \in Universe(m)
        BY <4>1, <4>2, LeadsStays
      <4>4. x \in Under(m, options, root)
        BY <1>1, <4>1, <4>2, <4>3, UnderClosed DEF ClosedDown
      <4>5. Cardinality(Decided(s)) + 1 <= Cardinality(Decided(x))
        BY <4>1, <4>2, MoreIsDecided
      <4>6. Cardinality(Decided(s)) \in Nat /\ Cardinality(Decided(x)) \in Nat
        BY <4>2, <4>3, DecidedFacts
      <4>7. d - 1 <= Cardinality(Decided(s))
        BY <3>3
      <4> QED
        BY <3>1, <4>4, <4>5, <4>6, <4>7
    <3> QED
      BY <2>2, <3>6, <3>7
  <2> QED
    BY <2>3, <2>4
<1>4. ASSUME NEW d \in 0..n PROVE Fine(d)
  BY <1>3
<1>5. TreeOf(m, options) \in SUBSET Universe(m) /\ TreeOf(m, options) \subseteq Under(m, options, root)
  BY <1>1, <1>2, <1>4, UnderClosed
<1>6. ASSUME NEW s \in TreeOf(m, options), NEW x \in Universe(m), Leads(m, options, s, x)
      PROVE  x \in TreeOf(m, options)
  <2>1. PICK d \in 0..n : s \in level[d]
    BY <1>2
  <2>2. d <= Cardinality(Decided(s))
    BY <1>4, <2>1
  <2>3. Cardinality(Decided(s)) < n /\ Cardinality(Decided(s)) \in Nat
    BY <1>5, <1>6, MoreIsDecided, DecidedFacts
  <2>4. d + 1 \in 1..n /\ d + 1 \in 0..n /\ (d + 1) - 1 = d
    BY <1>1, <2>2, <2>3
  <2>5. level[d + 1] = Grow(m, options, level[d])
    BY <1>2, <2>4
  <2>6. x \in level[d + 1]
    BY <1>6, <2>1, <2>5, GrowFacts
  <2> QED
    BY <1>2, <2>4, <2>6
<1>7. root \in TreeOf(m, options)
  BY <1>1, <1>2
<1>8. Under(m, options, root) \subseteq TreeOf(m, options)
  BY <1>5, <1>6, <1>7, UnderLeast DEF ClosedDown
<1>9. IsFiniteSet(TreeOf(m, options))
  <2> DEFINE D == 0..n
             family == {level[d] : d \in D}
             f == [d \in D |-> level[d]]
  <2>1. IsFiniteSet(D)
    BY <1>1, FS_Interval
  <2>2. f \in Surjection(D, family)
    BY DEF Surjection
  <2>3. IsFiniteSet(family) /\ \A F \in family : IsFiniteSet(F)
    BY <1>4, <2>1, <2>2, FS_Surjection
  <2>4. IsFiniteSet(UNION family)
    BY <2>3, FS_UNION
  <2> QED
    BY <1>2, <2>4
<1> QED
  BY <1>5, <1>8, <1>9
-----------------------------------------------------------------------------
(***************************************************************************)
(* Scores.  No state under a node scores more than the node promises.      *)
(***************************************************************************)
LEMMA LexOfThree ==
    ASSUME NEW a \in Int, NEW b \in Int, NEW c \in Int,
           NEW d \in Int, NEW e \in Int, NEW f \in Int
    PROVE  LexLess(<<a, b, c>>, <<d, e, f>>) <=>
             a < d \/ (a = d /\ (b < e \/ (b = e /\ c < f)))
<1> DEFINE u == <<a, b, c>>
           v == <<d, e, f>>
<1>1. /\ u[1] = a /\ u[2] = b /\ u[3] = c /\ v[1] = d /\ v[2] = e /\ v[3] = f
      /\ DOMAIN u = {1, 2, 3}
  OBVIOUS
<1> HIDE DEF u, v
<1>2. LexLess(u, v) <=> \E i \in {1, 2, 3} : u[i] < v[i] /\ \A j \in 1..(i - 1) : u[j] = v[j]
  BY <1>1 DEF LexLess
<1>3. 1..(1 - 1) = {} /\ 1..(2 - 1) = {1} /\ 1..(3 - 1) = {1, 2}
  OBVIOUS
<1>4. LexLess(u, v) <=> \/ u[1] < v[1]
                        \/ u[2] < v[2] /\ u[1] = v[1]
                        \/ u[3] < v[3] /\ u[1] = v[1] /\ u[2] = v[2]
  BY <1>2, <1>3
<1>5. LexLess(u, v) <=> a < d \/ (a = d /\ (b < e \/ (b = e /\ c < f)))
  BY <1>1, <1>4
<1> QED
  BY <1>5 DEF u, v

Gain(m, s) == SumOf([x \in s.assigned |-> m.tasks[x.task].priority])
Span(s) == Max({0} \cup {x.end : x \in s.assigned})
Remaining(m, s) == Cardinality(DOMAIN m.tasks) - Cardinality(Decided(s))

LEMMA ScoreData ==
    ASSUME NEW m, WellFormed(m), NEW s \in Universe(m)
    PROVE  /\ Cardinality(s.assigned) \in Nat /\ Gain(m, s) \in Int
           /\ Span(s) \in Nat /\ \A x \in s.assigned : x.end <= Span(s)
           /\ Span(s) \in {0} \cup {x.end : x \in s.assigned}
           /\ Remaining(m, s) \in Nat
<1>1. IsFiniteSet(s.assigned) /\ s.assigned \in SUBSET Places(m)
  BY DEF Universe, Consistent, Nodes
<1> DEFINE f == [x \in s.assigned |-> m.tasks[x.task].priority]
           ends == {x.end : x \in s.assigned}
           E == {0} \cup ends
           g == [x \in s.assigned |-> x.end]
<1>2. f \in [s.assigned -> Int]
  <2>1. ASSUME NEW x \in s.assigned PROVE m.tasks[x.task].priority \in Int
    <3>1. x.task \in DOMAIN m.tasks
      BY <1>1 DEF Places
    <3> QED BY <3>1, TaskData
  <2> QED BY <2>1
<1>3. Gain(m, s) \in Int
  <2> HIDE DEF f
  <2>1. SumOf(f) \in Int
    BY <1>1, <1>2, SumType
  <2> QED
    BY <2>1 DEF Gain, f
<1>4. E \in SUBSET Nat
  BY <1>1 DEF Places
<1>5. IsFiniteSet(E)
  <2>1. g \in Surjection(s.assigned, ends)
    BY DEF Surjection
  <2>2. IsFiniteSet(ends)
    BY <1>1, <2>1, FS_Surjection
  <2>3. IsFiniteSet(ends \cup {0})
    BY <2>2, FS_AddElement
  <2>4. E = ends \cup {0}
    OBVIOUS
  <2> QED BY <2>3, <2>4
<1>6. Max(E) \in E /\ \A y \in E : y <= Max(E)
  <2>1. E # {} /\ E \in SUBSET Int
    BY <1>4
  <2> HIDE DEF E
  <2> QED BY <1>5, <2>1, MaxOfFinite
<1>7. Remaining(m, s) \in Nat
  BY DecidedFacts DEF Remaining
<1>8. \A x \in s.assigned : x.end \in E
  OBVIOUS
<1>9. Span(s) = Max(E)
  BY DEF Span
<1>10. Span(s) \in Nat /\ \A x \in s.assigned : x.end <= Span(s)
  <2> HIDE DEF E
  <2> QED BY <1>4, <1>6, <1>8, <1>9
<1>11. Span(s) \in {0} \cup ends
  BY <1>6, <1>9
<1> QED
  BY <1>1, <1>3, <1>7, <1>10, <1>11, FS_CardinalityType

LEMMA ScoreForms ==
    ASSUME NEW m, NEW options, NEW s
    PROVE  /\ ScoreFor(m, options, s) =
                <<Cardinality(s.assigned), Gain(m, s) * options.priorityWeight, -Span(s)>>
           /\ Optimistic(m, options, s) =
                <<Cardinality(s.assigned) + Remaining(m, s),
                  Gain(m, s) * options.priorityWeight + Remaining(m, s) * PriorityBound,
                  -Span(s)>>
BY DEF ScoreFor, Optimistic, Gain, Span, Remaining

(* A score is not above the promise of its own state. *)
LEMMA PromiseOfSelf ==
    ASSUME NEW m, WellFormed(m), NEW options, options.priorityWeight \in Int,
           NEW s \in Universe(m)
    PROVE  ~LexLess(Optimistic(m, options, s), ScoreFor(m, options, s))
<1> DEFINE A == Cardinality(s.assigned)
           W == Gain(m, s) * options.priorityWeight
           R == Remaining(m, s)
           P == R * PriorityBound
           Z == -Span(s)
<1>1. A \in Nat /\ W \in Int /\ R \in Nat /\ Z \in Int
  BY ScoreData
<1>2. P \in Nat
  BY <1>1, RequestsAssumption
<1>3. /\ ScoreFor(m, options, s) = <<A, W, Z>>
      /\ Optimistic(m, options, s) = <<A + R, W + P, Z>>
  BY ScoreForms
<1> HIDE DEF A, W, R, P, Z
<1>4. A + R \in Int /\ W + P \in Int
  BY <1>1, <1>2
<1>5. LexLess(<<A + R, W + P, Z>>, <<A, W, Z>>) <=>
        A + R < A \/ (A + R = A /\ (W + P < W \/ (W + P = W /\ Z < Z)))
  BY <1>1, <1>2, <1>4, LexOfThree
<1> QED
  BY <1>1, <1>2, <1>3, <1>5

(* No task weighs more than the bound allows for. *)
Weighed(m, options) ==
    \A t \in DOMAIN m.tasks : m.tasks[t].priority * options.priorityWeight <= PriorityBound

(* A step down promises no more. *)
LEMMA PromiseShrinks ==
    ASSUME NEW m, WellFormed(m), NEW options, options.priorityWeight \in Int,
           Weighed(m, options), NEW s \in Universe(m), NEW x, Leads(m, options, s, x)
    PROVE  ~LexLess(Optimistic(m, options, s), Optimistic(m, options, x))
<1> DEFINE A == Cardinality(s.assigned)
           G == Gain(m, s)
           w == options.priorityWeight
           R == Remaining(m, s)
           Z == -Span(s)
           B == Cardinality(x.assigned)
           H == Gain(m, x)
           Q == Remaining(m, x)
           Y == -Span(x)
<1>1. x \in Universe(m)
  BY LeadsStays
<1>2. A \in Nat /\ G \in Int /\ R \in Nat /\ Z \in Int /\ w \in Int /\ PriorityBound \in Nat
  BY ScoreData, RequestsAssumption
<1>3. B \in Nat /\ H \in Int /\ Q \in Nat /\ Y \in Int
  BY <1>1, ScoreData
<1>4. Q + 1 <= R
  <2>1. Cardinality(Decided(s)) + 1 <= Cardinality(Decided(x))
    BY MoreIsDecided
  <2> QED
    BY <1>1, <2>1, DecidedFacts DEF Remaining
<1>5. \/ B = A
      \/ \E p \in Int : B = A + 1 /\ H = G + p /\ p * w <= PriorityBound /\ Y <= Z
  <2>1. PICK t \in NextTask(m, s) :
           /\ t \in DOMAIN m.tasks \ Decided(s)
           /\ \/ \E c \in CandidatesForTask(m, t, s) : x.assigned = s.assigned \cup {c}
              \/ x.assigned = s.assigned
    BY LeadsDecides
  <2>2. CASE x.assigned = s.assigned
    BY <2>2
  <2>3. CASE \E c \in CandidatesForTask(m, t, s) : x.assigned = s.assigned \cup {c}
    <3>1. PICK c \in CandidatesForTask(m, t, s) : x.assigned = s.assigned \cup {c}
      BY <2>3
    <3>2. c \in Places(m) /\ c.task = t
      BY <2>1, CandidateFacts DEF Universe
    <3>3. IsFiniteSet(s.assigned) /\ s.assigned \in SUBSET Places(m)
      BY DEF Universe, Consistent, Nodes
    <3>4. c \notin s.assigned
      BY <2>1, <3>2 DEF Decided, Scheduled
    <3>5. B = A + 1
      BY <3>1, <3>3, <3>4, FS_AddElement
    <3> DEFINE S == s.assigned
               f == [y \in S |-> m.tasks[y.task].priority]
               g == [y \in S \cup {c} |-> m.tasks[y.task].priority]
    <3>6. ASSUME NEW y \in S \cup {c} PROVE m.tasks[y.task].priority \in Int
      <4>1. y.task \in DOMAIN m.tasks
        BY <3>2, <3>3 DEF Places
      <4> QED BY <4>1, TaskData
    <3>7. /\ f \in [S -> Int] /\ g \in [S \cup {c} -> Int]
          /\ \A y \in S : g[y] = f[y]
          /\ g[c] = m.tasks[t].priority
      BY <3>2, <3>6
    <3>8. G = SumOf(f) /\ H = SumOf(g)
      BY <3>1 DEF Gain
    <3>9. SumOf(g) = SumOf(f) + g[c]
      <4>1. IsFiniteSet(S) /\ c \notin S
        BY <3>3, <3>4
      <4>2. /\ f \in [S -> Int] /\ g \in [S \cup {c} -> Int]
            /\ \A y \in S : g[y] = f[y]
        BY <3>7
      <4> HIDE DEF S, f, g
      <4> QED BY <4>1, <4>2, SumGrows
    <3> HIDE DEF f, g
    <3>10. m.tasks[t].priority \in Int /\ m.tasks[t].priority * w <= PriorityBound
      BY <2>1, TaskData DEF Weighed
    <3>11. Y <= Z
      <4>1. Span(s) = 0 \/ \E y \in x.assigned : Span(s) = y.end
        BY <3>1, ScoreData
      <4>2. Span(s) <= Span(x)
        BY <1>1, <4>1, ScoreData
      <4> QED
        BY <1>1, <4>2, ScoreData
    <3> QED
      BY <3>5, <3>7, <3>8, <3>9, <3>10, <3>11
  <2> QED
    BY <2>1, <2>2, <2>3
<1>6. /\ Optimistic(m, options, s) = <<A + R, G * w + R * PriorityBound, Z>>
      /\ Optimistic(m, options, x) = <<B + Q, H * w + Q * PriorityBound, Y>>
  BY ScoreForms
<1> HIDE DEF A, G, w, R, Z, B, H, Q, Y
<1>7. A + R \in Int /\ B + Q \in Int
  BY <1>2, <1>3
<1>8. G * w + R * PriorityBound \in Int /\ H * w + Q * PriorityBound \in Int
  BY <1>2, <1>3
<1>9. PICK u, v : u = G * w + R * PriorityBound /\ v = H * w + Q * PriorityBound
  OBVIOUS
<1>10. LexLess(<<A + R, u, Z>>, <<B + Q, v, Y>>) <=>
         A + R < B + Q \/ (A + R = B + Q /\ (u < v \/ (u = v /\ Z < Y)))
  BY <1>2, <1>3, <1>7, <1>8, <1>9, LexOfThree
<1>11. CASE B = A
  BY <1>2, <1>3, <1>4, <1>6, <1>9, <1>10, <1>11
<1>12. CASE B # A
  <2>1. PICK p \in Int : B = A + 1 /\ H = G + p /\ p * w <= PriorityBound /\ Y <= Z
    BY <1>5, <1>12
  <2>2. B + Q <= A + R
    BY <1>2, <1>3, <1>4, <2>1
  <2>3. ASSUME A + R = B + Q PROVE v <= u
    <3>1. R = Q + 1
      BY <1>2, <1>3, <2>1, <2>3
    <3>2. (G + p) * w = G * w + p * w
      BY <1>2, <2>1
    <3>3. (Q + 1) * PriorityBound = Q * PriorityBound + PriorityBound
      BY <1>2, <1>3
    <3>4. G * w \in Int /\ p * w \in Int /\ Q * PriorityBound \in Int
      BY <1>2, <1>3, <2>1
    <3> QED
      BY <1>2, <1>9, <2>1, <3>1, <3>2, <3>3, <3>4
  <2> QED
    BY <1>2, <1>3, <1>6, <1>7, <1>8, <1>9, <1>10, <2>1, <2>2, <2>3
<1> QED
  BY <1>11, <1>12
Triples == Int \X Int \X Int

LEMMA LexOrder ==
    ASSUME NEW p \in Triples, NEW q \in Triples, NEW r \in Triples
    PROVE  /\ ~LexLess(p, p)
           /\ ~LexLess(q, p) /\ ~LexLess(r, q) => ~LexLess(r, p)
           /\ LexLess(p, q) => ~LexLess(q, p)
<1>1. ASSUME NEW u \in Triples, NEW v \in Triples
      PROVE  /\ u[1] \in Int /\ u[2] \in Int /\ u[3] \in Int
             /\ LexLess(u, v) <=>
                  u[1] < v[1] \/ (u[1] = v[1] /\ (u[2] < v[2] \/ (u[2] = v[2] /\ u[3] < v[3])))
  <2>1. /\ u[1] \in Int /\ u[2] \in Int /\ u[3] \in Int /\ u = <<u[1], u[2], u[3]>>
        /\ v[1] \in Int /\ v[2] \in Int /\ v[3] \in Int /\ v = <<v[1], v[2], v[3]>>
    BY DEF Triples
  <2>2. LexLess(<<u[1], u[2], u[3]>>, <<v[1], v[2], v[3]>>) <=>
          u[1] < v[1] \/ (u[1] = v[1] /\ (u[2] < v[2] \/ (u[2] = v[2] /\ u[3] < v[3])))
    BY <2>1, LexOfThree
  <2> QED
    BY <2>1, <2>2
<1>2. ~LexLess(p, p)
  BY <1>1
<1>3. LexLess(p, q) => ~LexLess(q, p)
  BY <1>1
<1>4. ~LexLess(q, p) /\ ~LexLess(r, q) => ~LexLess(r, p)
  BY <1>1
<1> QED
  BY <1>2, <1>3, <1>4

LEMMA ScoreType ==
    ASSUME NEW m, WellFormed(m), NEW options, options.priorityWeight \in Int,
           NEW s \in Universe(m)
    PROVE  ScoreFor(m, options, s) \in Triples /\ Optimistic(m, options, s) \in Triples
<1> DEFINE A == Cardinality(s.assigned)
           W == Gain(m, s) * options.priorityWeight
           R == Remaining(m, s)
           P == R * PriorityBound
           Z == -Span(s)
<1>1. A \in Nat /\ W \in Int /\ R \in Nat /\ Z \in Int
  BY ScoreData
<1>2. P \in Int
  BY <1>1, RequestsAssumption
<1>3. /\ ScoreFor(m, options, s) = <<A, W, Z>>
      /\ Optimistic(m, options, s) = <<A + R, W + P, Z>>
  BY ScoreForms
<1> HIDE DEF A, W, R, P, Z
<1>4. A + R \in Int /\ W + P \in Int /\ A \in Int
  BY <1>1, <1>2
<1> QED
  BY <1>1, <1>3, <1>4 DEF Triples

(* Nothing under a node scores above what the node promises. *)
LEMMA PromiseHolds ==
    ASSUME NEW m, WellFormed(m), NEW options, options.priorityWeight \in Int,
           Weighed(m, options), NEW s \in Universe(m), NEW x \in Under(m, options, s)
    PROVE  ~LexLess(Optimistic(m, options, s), ScoreFor(m, options, x))
<1> DEFINE C == {y \in Universe(m) :
                   ~LexLess(Optimistic(m, options, s), Optimistic(m, options, y))}
<1>1. s \in C
  BY ScoreType, LexOrder
<1>2. ASSUME NEW y \in C, NEW z \in Universe(m), Leads(m, options, y, z) PROVE z \in C
  <2>1. ~LexLess(Optimistic(m, options, y), Optimistic(m, options, z))
    BY <1>2, PromiseShrinks
  <2>2. PICK p \in Triples : p = Optimistic(m, options, s)
    BY ScoreType
  <2>3. PICK q \in Triples : q = Optimistic(m, options, y)
    BY ScoreType
  <2>4. PICK r \in Triples : r = Optimistic(m, options, z)
    BY ScoreType
  <2>5. ~LexLess(p, r)
    BY <2>1, <2>2, <2>3, <2>4, LexOrder
  <2> QED
    BY <2>2, <2>4, <2>5
<1>3. Under(m, options, s) \subseteq C
  <2>1. C \in SUBSET Universe(m)
    OBVIOUS
  <2> HIDE DEF C
  <2> QED BY <1>1, <1>2, <2>1, UnderLeast DEF ClosedDown
<1>4. x \in Universe(m) /\ ~LexLess(Optimistic(m, options, s), Optimistic(m, options, x))
  BY <1>3
<1>5. ~LexLess(Optimistic(m, options, x), ScoreFor(m, options, x))
  BY <1>4, PromiseOfSelf
<1>6. PICK p \in Triples : p = Optimistic(m, options, s)
  BY ScoreType
<1>7. PICK q \in Triples : q = Optimistic(m, options, x)
  BY <1>4, ScoreType
<1>8. PICK r \in Triples : r = ScoreFor(m, options, x)
  BY <1>4, ScoreType
<1>9. ~LexLess(p, r)
  BY <1>4, <1>5, <1>6, <1>7, <1>8, LexOrder
<1> QED
  BY <1>6, <1>8, <1>9

-----------------------------------------------------------------------------
(***************************************************************************)
(* What the stack still has to visit.                                      *)
(***************************************************************************)
Waits(m, options, st, x) ==
    \E k \in 1..Len(st) : x \in Under(m, options, DropDescendants(m, st[k]))

LEMMA WaitsHead ==
    ASSUME NEW m, NEW options, NEW N, NEW st \in Seq(N), st # <<>>, NEW x
    PROVE  Waits(m, options, st, x) <=>
             \/ x \in Under(m, options, DropDescendants(m, Head(st)))
             \/ Waits(m, options, Tail(st), x)
<1>1. /\ Len(Tail(st)) = Len(st) - 1 /\ Len(st) \in Nat \ {0} /\ Head(st) = st[1]
      /\ \A i \in 1..Len(Tail(st)) : Tail(st)[i] = st[i + 1]
  BY HeadTailProperties, EmptySeq
<1>2. ASSUME NEW k \in 1..Len(st), k # 1
      PROVE  k - 1 \in 1..Len(Tail(st)) /\ Tail(st)[k - 1] = st[k]
  BY <1>1, <1>2
<1>3. ASSUME NEW k \in 1..Len(Tail(st))
      PROVE  k + 1 \in 1..Len(st) /\ Tail(st)[k] = st[k + 1]
  BY <1>1
<1>4. 1 \in 1..Len(st)
  BY <1>1
<1> QED
  BY <1>1, <1>2, <1>3, <1>4 DEF Waits

LEMMA WaitsConcat ==
    ASSUME NEW m, NEW options, NEW N, NEW st \in Seq(N), NEW rest \in Seq(N), NEW x
    PROVE  Waits(m, options, st \o rest, x) <=>
             Waits(m, options, st, x) \/ Waits(m, options, rest, x)
<1>1. PICK all : all = st \o rest
  OBVIOUS
<1>2. /\ Len(all) = Len(st) + Len(rest)
      /\ \A i \in 1..(Len(st) + Len(rest)) :
            all[i] = IF i <= Len(st) THEN st[i] ELSE rest[i - Len(st)]
      /\ Len(st) \in Nat /\ Len(rest) \in Nat
  BY <1>1, ConcatProperties, LenProperties
<1>3. ASSUME NEW k \in 1..Len(st) PROVE k \in 1..Len(all) /\ all[k] = st[k]
  BY <1>2
<1>4. ASSUME NEW k \in 1..Len(rest)
      PROVE  k + Len(st) \in 1..Len(all) /\ all[k + Len(st)] = rest[k]
  <2>1. k + Len(st) \in 1..(Len(st) + Len(rest)) /\ ~(k + Len(st) <= Len(st))
        /\ (k + Len(st)) - Len(st) = k
    BY <1>2
  <2> QED BY <1>2, <2>1
<1>5. ASSUME NEW k \in 1..Len(all)
      PROVE  \/ k \in 1..Len(st) /\ all[k] = st[k]
             \/ k - Len(st) \in 1..Len(rest) /\ all[k] = rest[k - Len(st)]
  BY <1>2
<1>6. Waits(m, options, all, x) <=> Waits(m, options, st, x) \/ Waits(m, options, rest, x)
  BY <1>3, <1>4, <1>5 DEF Waits
<1> QED
  BY <1>1, <1>6
LEMMA LeadsKeeps ==
    ASSUME NEW m, WellFormed(m), NEW options, NEW s \in Universe(m),
           NEW x, Leads(m, options, s, x)
    PROVE  s.assigned \subseteq x.assigned /\ s.dropped \subseteq x.dropped
<1>1. PICK t \in NextTask(m, s) :
         /\ t \in DOMAIN m.tasks \ Decided(s)
         /\ Decided(s) \cup {t} \subseteq Decided(x)
         /\ s.dropped \subseteq x.dropped
         /\ \/ \E c \in CandidatesForTask(m, t, s) : x.assigned = s.assigned \cup {c}
            \/ x.assigned = s.assigned /\ t \in x.dropped
  BY LeadsDecides
<1> QED
  BY <1>1

(* What is placed or given up stays so all the way down. *)
LEMMA UnderKeeps ==
    ASSUME NEW m, WellFormed(m), NEW options, NEW s \in Universe(m),
           NEW x \in Under(m, options, s)
    PROVE  x \in Universe(m) /\ s.assigned \subseteq x.assigned /\ s.dropped \subseteq x.dropped
<1> DEFINE C == {y \in Universe(m) : s.assigned \subseteq y.assigned /\ s.dropped \subseteq y.dropped}
<1>1. s \in C /\ C \in SUBSET Universe(m)
  OBVIOUS
<1>2. ASSUME NEW y \in C, NEW z \in Universe(m), Leads(m, options, y, z) PROVE z \in C
  <2>1. y.assigned \subseteq z.assigned /\ y.dropped \subseteq z.dropped
    BY <1>2, LeadsKeeps
  <2> QED BY <2>1
<1>3. Under(m, options, s) \subseteq C
  <2> HIDE DEF C
  <2> QED BY <1>1, <1>2, UnderLeast DEF ClosedDown
<1> QED
  BY <1>3

(* The branches of a node share out its subtree, the node itself excepted. *)
LEMMA BranchesShare ==
    ASSUME NEW m, WellFormed(m), NEW options, NEW s \in Universe(m), ReadyTasks(m, s) # {},
           NEW next \in Branches(m, options, s)
    PROVE  /\ next \in Seq(Nodes(m))
           /\ \A i \in 1..Len(next) : Leads(m, options, s, DropDescendants(m, next[i]))
           /\ \A x \in Under(m, options, s) : x # s => Waits(m, options, next, x)
           /\ \A x : Waits(m, options, next, x) => x \in Under(m, options, s) /\ x # s
<1>1. /\ next \in Seq(Nodes(m))
      /\ \A k \in Children(m, options, s) : \E i \in 1..Len(next) : next[i] = k
      /\ \A i \in 1..Len(next) : next[i] \in Children(m, options, s)
  BY ChildrenFacts
<1>2. ASSUME NEW i \in 1..Len(next) PROVE Leads(m, options, s, DropDescendants(m, next[i]))
  BY <1>1 DEF Leads
<1>3. ASSUME NEW x \in Under(m, options, s), x # s PROVE Waits(m, options, next, x)
  <2>1. PICK y \in Universe(m) : Leads(m, options, s, y) /\ x \in Under(m, options, y)
    BY <1>3, UnderSplit
  <2>2. PICK k \in Children(m, options, s) : y = DropDescendants(m, k)
    BY <2>1 DEF Leads
  <2>3. PICK i \in 1..Len(next) : next[i] = k
    BY <1>1
  <2> QED
    BY <2>1, <2>2, <2>3 DEF Waits
<1>4. ASSUME NEW x, Waits(m, options, next, x) PROVE x \in Under(m, options, s) /\ x # s
  <2>1. PICK i \in 1..Len(next) : x \in Under(m, options, DropDescendants(m, next[i]))
    BY <1>4 DEF Waits
  <2>2. PICK y : y = DropDescendants(m, next[i])
    OBVIOUS
  <2>3. Leads(m, options, s, y) /\ y \in Universe(m)
    BY <1>2, <2>2, LeadsStays
  <2>4. x \in Under(m, options, s)
    BY <2>1, <2>2, <2>3, UnderStep
  <2>5. PICK t \in NextTask(m, s) : t \notin Decided(s) /\ t \in Decided(y)
    BY <2>3, LeadsDecides
  <2>6. y.assigned \subseteq x.assigned /\ y.dropped \subseteq x.dropped
    BY <2>1, <2>2, <2>3, UnderKeeps
  <2>7. t \in Decided(x)
    BY <2>5, <2>6 DEF Decided, Scheduled
  <2> QED
    BY <2>4, <2>5, <2>7
<1> QED
  BY <1>1, <1>2, <1>3, <1>4

(* Two branches of a node have nothing in common below them. *)
LEMMA BranchesApart ==
    ASSUME NEW m, WellFormed(m), NEW options, NEW s \in Universe(m), ReadyTasks(m, s) # {},
           NEW next \in Branches(m, options, s),
           NEW i \in 1..Len(next), NEW j \in 1..Len(next), i # j, NEW x,
           x \in Under(m, options, DropDescendants(m, next[i])),
           x \in Under(m, options, DropDescendants(m, next[j]))
    PROVE  FALSE
<1>1. PICK t \in NextTask(m, s) :
         /\ \A k : k \in Children(m, options, s) <=> IsKid(m, options, s, t, k)
         /\ \A l \in 1..Len(next) : next[l] \in Children(m, options, s)
         /\ \A l, h \in 1..Len(next) : l # h => next[l] # next[h]
  BY ChildrenFacts
<1>2. t \in ReadyTasks(m, s) /\ t \in DOMAIN m.tasks
  BY DEF NextTask, ReadyTasks
<1>3. Consistent(m, s) /\ s \in Nodes(m)
  BY DEF Universe
<1>4. ASSUME NEW k, IsKid(m, options, s, t, k), x \in Under(m, options, DropDescendants(m, k))
      PROVE  x \in Universe(m) /\ k.assigned \subseteq x.assigned /\ k.dropped \subseteq x.dropped
  <2>1. Consistent(m, k) /\ k \in Nodes(m)
    BY <1>2, <1>3, <1>4, KidIsConsistent DEF Consistent
  <2>2. PICK y : y = DropDescendants(m, k)
    OBVIOUS
  <2>3. y.assigned = k.assigned /\ k.dropped \subseteq y.dropped
    BY <2>1, <2>2, DropFacts DEF ClosedDrop
  <2>4. y \in Universe(m)
    BY <2>1, <2>2, DropIsConsistent DEF Universe, Consistent
  <2> QED
    BY <1>4, <2>2, <2>3, <2>4, UnderKeeps
<1>5. ASSUME NEW k, IsKid(m, options, s, t, k), x \in Under(m, options, DropDescendants(m, k))
      PROVE  \/ \E c \in x.assigned : c.task = t /\ k = Place(s, c)
             \/ t \in x.dropped /\ k = GiveUp(s, t)
  <2>1. k.assigned \subseteq x.assigned /\ k.dropped \subseteq x.dropped
    BY <1>4, <1>5
  <2>2. CASE \E c \in CandidatesForTask(m, t, s) : k = Place(s, c)
    <3>1. PICK c \in CandidatesForTask(m, t, s) : k = Place(s, c)
      BY <2>2
    <3>2. c.task = t
      BY <1>2, <1>3, CandidateFacts
    <3> QED
      BY <2>1, <3>1, <3>2 DEF Place
  <2>3. CASE k = GiveUp(s, t)
    BY <2>1, <2>3 DEF GiveUp
  <2> QED
    BY <1>5, <2>2, <2>3 DEF IsKid
<1>6. /\ IsKid(m, options, s, t, next[i]) /\ IsKid(m, options, s, t, next[j])
      /\ next[i] # next[j]
  BY <1>1
<1>7. Consistent(m, x)
  BY <1>4, <1>6 DEF Universe
<1>8. /\ \A c, d \in x.assigned : c.task = d.task => c = d
      /\ t \in x.dropped => \A c \in x.assigned : c.task # t
  BY <1>7 DEF Consistent, Scheduled
<1> QED
  BY <1>5, <1>6, <1>8

-----------------------------------------------------------------------------
(***************************************************************************)
(* What a step of the search keeps.  Covers: a leaf of the tree still      *)
(* waits under some state of the stack, or the best leaf is no worse.      *)
(***************************************************************************)
Covers(m, options, st, b) ==
    \A x \in TreeOf(m, options) : ReadyTasks(m, x) = {} =>
        \/ Waits(m, options, st, x)
        \/ b # <<>> /\ ~LexLess(ScoreFor(m, options, b[1]), ScoreFor(m, options, x))

LEMMA TreeInUniverse ==
    ASSUME NEW m, WellFormed(m), NEW options, NEW x \in TreeOf(m, options)
    PROVE  x \in Universe(m)
BY TreeIsUnder DEF Under

LEMMA PruneCovers ==
    ASSUME NEW m, WellFormed(m), NEW options, options.priorityWeight \in Int,
           Weighed(m, options), NEW N, NEW st \in Seq(N), st # <<>>,
           NEW node \in Universe(m), node = DropDescendants(m, Head(st)),
           NEW b, b # <<>>, b[1] \in Universe(m), Covers(m, options, st, b),
           ~LexLess(ScoreFor(m, options, b[1]), Optimistic(m, options, node))
    PROVE  Covers(m, options, Tail(st), b)
<1> SUFFICES ASSUME NEW x \in TreeOf(m, options), ReadyTasks(m, x) = {},
                    ~Waits(m, options, Tail(st), x)
             PROVE  ~LexLess(ScoreFor(m, options, b[1]), ScoreFor(m, options, x))
  BY DEF Covers
<1>1. x \in Universe(m)
  BY TreeInUniverse
<1>2. CASE x \in Under(m, options, node)
  <2>1. ~LexLess(Optimistic(m, options, node), ScoreFor(m, options, x))
    BY <1>2, PromiseHolds
  <2>2. PICK p \in Triples : p = ScoreFor(m, options, x)
    BY <1>1, ScoreType
  <2>3. PICK q \in Triples : q = Optimistic(m, options, node)
    BY ScoreType
  <2>4. PICK r \in Triples : r = ScoreFor(m, options, b[1])
    BY ScoreType
  <2>5. ~LexLess(r, p)
    BY <2>1, <2>2, <2>3, <2>4, LexOrder
  <2> QED
    BY <2>2, <2>4, <2>5
<1>3. CASE x \notin Under(m, options, node)
  BY <1>3, WaitsHead DEF Covers
<1> QED
  BY <1>2, <1>3

LEMMA LeafCovers ==
    ASSUME NEW m, WellFormed(m), NEW options, options.priorityWeight \in Int,
           NEW N, NEW st \in Seq(N), st # <<>>,
           NEW node \in Universe(m), node = DropDescendants(m, Head(st)),
           ReadyTasks(m, node) = {},
           NEW b, b # <<>> => b[1] \in Universe(m), Covers(m, options, st, b),
           NEW new, new = IF b = <<>> \/ LexLess(ScoreFor(m, options, b[1]), ScoreFor(m, options, node))
                          THEN <<node>> ELSE b
    PROVE  Covers(m, options, Tail(st), new)
<1>1. new # <<>> /\ (new[1] = node \/ new = b)
  OBVIOUS
<1> SUFFICES ASSUME NEW x \in TreeOf(m, options), ReadyTasks(m, x) = {},
                    ~Waits(m, options, Tail(st), x)
             PROVE  ~LexLess(ScoreFor(m, options, new[1]), ScoreFor(m, options, x))
  BY <1>1 DEF Covers
<1>2. x \in Universe(m)
  BY TreeInUniverse
<1>3. x = node \/ (b # <<>> /\ ~LexLess(ScoreFor(m, options, b[1]), ScoreFor(m, options, x)))
  <2>1. x \in Under(m, options, node) => x = node
    BY UnderLeaf
  <2> QED
    BY <2>1, WaitsHead DEF Covers
<1>4. PICK p \in Triples : p = ScoreFor(m, options, x)
  BY <1>2, ScoreType
<1>5. PICK q \in Triples : q = ScoreFor(m, options, node)
  BY ScoreType
<1>6. CASE b = <<>>
  <2>1. new[1] = node /\ x = node
    BY <1>3, <1>6
  <2> QED
    BY <2>1, <1>4, LexOrder
<1>7. CASE b # <<>>
  <2>1. PICK r \in Triples : r = ScoreFor(m, options, b[1])
    BY <1>7, ScoreType
  <2>2. CASE LexLess(r, q)
    <3>1. new[1] = node
      BY <1>5, <2>1, <2>2
    <3>2. ~LexLess(q, r)
      BY <2>2, LexOrder
    <3>3. p = q \/ ~LexLess(r, p)
      BY <1>3, <1>4, <1>5, <2>1
    <3>4. ~LexLess(q, p)
      BY <3>2, <3>3, LexOrder
    <3> QED
      BY <1>4, <1>5, <3>1, <3>4
  <2>3. CASE ~LexLess(r, q)
    <3>1. new[1] = b[1]
      BY <1>5, <1>7, <2>1, <2>3
    <3>2. ~LexLess(r, p)
      BY <1>3, <1>4, <1>5, <2>1, <2>3
    <3> QED
      BY <1>4, <2>1, <3>1, <3>2
  <2> QED
    BY <2>2, <2>3
<1> QED
  BY <1>6, <1>7

LEMMA BranchCovers ==
    ASSUME NEW m, WellFormed(m), NEW options, NEW st \in Seq(Nodes(m)), st # <<>>,
           NEW node \in Universe(m), node = DropDescendants(m, Head(st)),
           ReadyTasks(m, node) # {}, NEW next \in Branches(m, options, node),
           NEW b, Covers(m, options, st, b)
    PROVE  Covers(m, options, next \o Tail(st), b)
<1>1. next \in Seq(Nodes(m)) /\ Tail(st) \in Seq(Nodes(m))
  BY BranchesShare, HeadTailProperties
<1> SUFFICES ASSUME NEW x \in TreeOf(m, options), ReadyTasks(m, x) = {},
                    Waits(m, options, st, x)
             PROVE  Waits(m, options, next \o Tail(st), x)
  BY DEF Covers
<1>2. x \in Under(m, options, node) \/ Waits(m, options, Tail(st), x)
  BY WaitsHead
<1>3. x # node
  OBVIOUS
<1>4. Waits(m, options, next, x) \/ Waits(m, options, Tail(st), x)
  BY <1>2, <1>3, BranchesShare
<1> QED
  BY <1>1, <1>4, WaitsConcat
InTree(m, options, st, b) ==
    /\ \A k \in 1..Len(st) : DropDescendants(m, st[k]) \in TreeOf(m, options)
    /\ b # <<>> => b[1] \in TreeOf(m, options)

(***************************************************************************)
(* The invariant of the search that optimality rests on: the exact backend *)
(* only ever holds states of the tree, and covers all of its leaves.       *)
(***************************************************************************)
TreeInv ==
    backend = "indexed_exact" =>
        /\ InTree(model, ToOptions, stack, best)
        /\ phase = "done" => stack = <<>>
        /\ phase # "requested"

CoverInv ==
    backend = "indexed_exact" /\ Weighed(model, ToOptions) =>
        Covers(model, ToOptions, stack, best)

BestSearchInv == SearchInv /\ TreeInv /\ CoverInv

LEMMA WeightFacts == InputInv => ToOptions.priorityWeight \in Int
BY RequestsAssumption DEF InputInv, ToOptions, DefaultOptions

LEMMA TailInTree ==
    ASSUME NEW m, NEW options, NEW st \in Seq(Nodes(m)), st # <<>>, NEW b,
           InTree(m, options, st, b)
    PROVE  \A k \in 1..Len(Tail(st)) : DropDescendants(m, Tail(st)[k]) \in TreeOf(m, options)
<1>1. /\ Len(Tail(st)) = Len(st) - 1 /\ Len(st) \in Nat
      /\ \A i \in 1..Len(Tail(st)) : Tail(st)[i] = st[i + 1]
  BY HeadTailProperties, EmptySeq
<1>2. ASSUME NEW k \in 1..Len(Tail(st)) PROVE k + 1 \in 1..Len(st) /\ Tail(st)[k] = st[k + 1]
  BY <1>1
<1> QED
  BY <1>2 DEF InTree

LEMMA BranchInTree ==
    ASSUME NEW m, WellFormed(m), NEW options, NEW st \in Seq(Nodes(m)), st # <<>>, NEW b,
           InTree(m, options, st, b), NEW node \in Universe(m),
           node = DropDescendants(m, Head(st)),
           ReadyTasks(m, node) # {}, NEW next \in Branches(m, options, node)
    PROVE  InTree(m, options, next \o Tail(st), b)
<1>1. next \in Seq(Nodes(m)) /\ Tail(st) \in Seq(Nodes(m)) /\ 1 \in 1..Len(st) /\ Head(st) = st[1]
  BY BranchesShare, HeadTailProperties, EmptySeq
<1>2. node \in TreeOf(m, options)
  BY <1>1 DEF InTree
<1>3. ASSUME NEW k \in 1..Len(next) PROVE DropDescendants(m, next[k]) \in TreeOf(m, options)
  <2>1. PICK y : y = DropDescendants(m, next[k])
    OBVIOUS
  <2>2. Leads(m, options, node, y)
    BY <2>1, BranchesShare
  <2>3. y \in Universe(m)
    BY <2>2, LeadsStays
  <2>4. PICK root \in Universe(m) : TreeOf(m, options) = Under(m, options, root)
    BY TreeIsUnder, RootIsThere
  <2>5. y \in TreeOf(m, options)
    BY <1>2, <2>2, <2>3, <2>4, UnderClosed DEF ClosedDown
  <2> QED
    BY <2>1, <2>5
<1>4. PICK rest \in Seq(Nodes(m)) : rest = Tail(st)
  BY <1>1
<1>5. PICK all : all = next \o rest
  OBVIOUS
<1>6. /\ Len(all) = Len(next) + Len(rest) /\ Len(next) \in Nat /\ Len(rest) \in Nat
      /\ \A i \in 1..(Len(next) + Len(rest)) :
            all[i] = IF i <= Len(next) THEN next[i] ELSE rest[i - Len(next)]
  BY <1>1, <1>5, ConcatProperties, LenProperties
<1>7. ASSUME NEW k \in 1..Len(all) PROVE DropDescendants(m, all[k]) \in TreeOf(m, options)
  <2>1. CASE k <= Len(next)
    <3>1. k \in 1..Len(next) /\ all[k] = next[k]
      BY <1>6, <2>1
    <3> QED BY <1>3, <3>1
  <2>2. CASE ~(k <= Len(next))
    <3>1. k - Len(next) \in 1..Len(rest) /\ all[k] = rest[k - Len(next)]
      BY <1>6, <2>2
    <3> QED BY <1>4, <3>1, TailInTree
  <2> QED BY <2>1, <2>2
<1> QED
  BY <1>4, <1>5, <1>7 DEF InTree

LEMMA NodeIsThere ==
    ASSUME StackInv, stack # <<>>
    PROVE  Node \in Universe(model)
BY NodeFacts DEF SoundState, Universe

LEMMA BestSearchInvInit == Init => BestSearchInv
BY SearchInvInit DEF Init, BestSearchInv, TreeInv, CoverInv

LEMMA BestSearchInvNext == BestSearchInv /\ [Next]_vars => BestSearchInv'
<1> SUFFICES ASSUME BestSearchInv, [Next]_vars PROVE BestSearchInv'
  OBVIOUS
<1>1. SearchInv /\ SearchInv'
  BY SearchInvNext DEF BestSearchInv
<1>2. /\ InputInv /\ PhaseInv /\ StackInv /\ BestInv /\ TreeInv /\ CoverInv
  BY DEF BestSearchInv, SearchInv
<1>3. UNCHANGED <<request, model>> /\ ToOptions' = ToOptions
  BY DEF Next, ParseFails, Optimize, Prune, Leaf, Branch, SearchEnds, RejectModel,
         MipUnavailable, SolverFails, SolverOptimal, SolverSelects, Done, vars, ToOptions
<1>4. PICK m, options : m = model /\ options = ToOptions
  OBVIOUS
<1>5. /\ model' = m /\ ToOptions' = options /\ model = m /\ ToOptions = options
      /\ WellFormed(m) /\ options.priorityWeight \in Int
  BY <1>2, <1>3, <1>4, InputFacts, WeightFacts
<1>6. ASSUME stack' = stack, best' = best, backend' = backend,
             phase' = phase \/ (phase' = "done" /\ stack = <<>>)
      PROVE  TreeInv' /\ CoverInv'
  BY <1>2, <1>3, <1>6 DEF TreeInv, CoverInv
<1>7. ASSUME backend' # "indexed_exact" PROVE TreeInv' /\ CoverInv'
  BY <1>7 DEF TreeInv, CoverInv
<1>8. ASSUME phase = "search", stack # <<>>, UNCHANGED <<phase, backend>>,
             InTree(m, options, stack', best'),
             Weighed(m, options) => Covers(m, options, stack', best')
      PROVE  TreeInv' /\ CoverInv'
  BY <1>3, <1>5, <1>8 DEF TreeInv, CoverInv
<1>9. ASSUME phase = "search", stack # <<>>
      PROVE  /\ stack \in Seq(Nodes(m)) /\ InTree(m, options, stack, best)
             /\ Weighed(m, options) => Covers(m, options, stack, best)
             /\ Node \in Universe(m) /\ Node = DropDescendants(m, Head(stack))
             /\ Node \in TreeOf(m, options)
             /\ best # <<>> => best[1] \in Universe(m)
  <2>1. backend = "indexed_exact"
    BY <1>2, <1>9 DEF PhaseInv
  <2>2. /\ stack \in Seq(Nodes(m)) /\ InTree(m, options, stack, best)
        /\ Weighed(m, options) => Covers(m, options, stack, best)
    BY <1>2, <1>5, <2>1 DEF StackInv, TreeInv, CoverInv
  <2>3. Node \in Universe(m) /\ Node = DropDescendants(m, Head(stack))
    BY <1>2, <1>5, <1>9, NodeIsThere DEF Node
  <2>4. Head(stack) = stack[1] /\ 1 \in 1..Len(stack)
    BY <1>9, <2>2, EmptySeq
  <2>5. Node \in TreeOf(m, options)
    BY <2>2, <2>3, <2>4 DEF InTree
  <2>6. best # <<>> => best[1] \in Universe(m)
    BY <1>5, <2>2, TreeInUniverse DEF InTree
  <2> QED
    BY <2>2, <2>3, <2>5, <2>6
<1>10. CASE UNCHANGED vars
  <2>1. stack' = stack /\ best' = best /\ backend' = backend /\ phase' = phase
    BY <1>10 DEF vars
  <2>2. TreeInv' /\ CoverInv'
    BY <1>6, <2>1
  <2> QED
    BY <1>1, <2>2 DEF BestSearchInv
<1>11. CASE \/ ParseFails \/ RejectModel \/ MipUnavailable \/ SolverFails
            \/ SolverOptimal \/ SolverSelects
  <2>1. phase \in {"requested", "solve"} /\ UNCHANGED backend
    BY <1>11 DEF ParseFails, RejectModel, MipUnavailable, SolverFails, SolverOptimal,
                 SolverSelects, Finish
  <2>2. backend' # "indexed_exact"
    BY <1>2, <2>1 DEF PhaseInv
  <2> QED
    BY <1>1, <1>7, <2>2 DEF BestSearchInv
<1>12. CASE Optimize
  <2>1. phase = "requested" /\ best = <<>> /\ best' = <<>> /\ backend = "none"
    BY <1>2, <1>12 DEF Optimize, PhaseInv
  <2> DEFINE found == CreateBackend(BackendKindFromString(ToOptions.backend))
             root == [assigned |-> {}, dropped |-> {}]
  <2>2. CASE backend' # "indexed_exact"
    BY <1>1, <1>7, <2>2 DEF BestSearchInv
  <2>3. CASE backend' = "indexed_exact"
    <3>1. phase' = "search" /\ stack' = <<root>>
      BY <1>12, <2>1, <2>3 DEF Optimize
    <3>2. PICK top : top = DropDescendants(m, root)
      OBVIOUS
    <3>3. TreeOf(m, options) = Under(m, options, top) /\ top \in Universe(m)
      BY <1>5, <3>2, TreeIsUnder, RootIsThere
    <3>4. top \in TreeOf(m, options)
      BY <1>5, <3>3, UnderClosed
    <3> HIDE DEF root
    <3>5. Len(stack') = 1 /\ DropDescendants(m, stack'[1]) = top
      BY <3>1, <3>2
    <3>6. InTree(m, options, stack', best')
      BY <2>1, <3>4, <3>5 DEF InTree
    <3>7. \A x \in TreeOf(m, options) : Waits(m, options, stack', x)
      BY <3>3, <3>5 DEF Waits
    <3>8. Covers(m, options, stack', best')
      BY <3>7 DEF Covers
    <3>9. TreeInv' /\ CoverInv'
      BY <1>5, <3>1, <3>6, <3>8 DEF TreeInv, CoverInv
    <3> QED
      BY <1>1, <3>9 DEF BestSearchInv
  <2> QED
    BY <2>2, <2>3
<1>13. CASE Prune
  <2>1. /\ phase = "search" /\ stack # <<>> /\ Hopeless /\ stack' = Tail(stack)
        /\ UNCHANGED <<phase, backend, best>>
    BY <1>13 DEF Prune
  <2>2. best # <<>> /\ ~LexLess(ScoreFor(m, options, best[1]), Optimistic(m, options, Node))
    BY <1>5, <2>1 DEF Hopeless, BetterScore, Score
  <2>3. PICK node : node = Node
    OBVIOUS
  <2>4. Weighed(m, options) => Covers(m, options, Tail(stack), best)
    BY <1>5, <1>9, <2>1, <2>2, <2>3, PruneCovers
  <2>5. InTree(m, options, Tail(stack), best)
    BY <1>9, <2>1, TailInTree DEF InTree
  <2> QED
    BY <1>1, <1>8, <2>1, <2>4, <2>5 DEF BestSearchInv
<1>14. CASE Leaf
  <2>1. /\ phase = "search" /\ stack # <<>> /\ stack' = Tail(stack)
        /\ UNCHANGED <<phase, backend>> /\ ReadyTasks(m, Node) = {}
        /\ best' = IF best = <<>> \/ LexLess(ScoreFor(m, options, best[1]), ScoreFor(m, options, Node))
                   THEN <<Node>> ELSE best
    BY <1>5, <1>14 DEF Leaf, BetterScore, Score
  <2>2. PICK node, new : node = Node /\ new = best'
    OBVIOUS
  <2>3. Weighed(m, options) => Covers(m, options, Tail(stack), new)
    BY <1>5, <1>9, <2>1, <2>2, LeafCovers
  <2>4. new # <<>> => new[1] \in TreeOf(m, options)
    BY <1>9, <2>1, <2>2 DEF InTree
  <2>5. InTree(m, options, Tail(stack), new)
    BY <1>9, <2>1, <2>4, TailInTree DEF InTree
  <2> QED
    BY <1>1, <1>8, <2>1, <2>2, <2>3, <2>5 DEF BestSearchInv
<1>15. CASE Branch
  <2>1. /\ phase = "search" /\ stack # <<>>
        /\ UNCHANGED <<phase, backend, best>> /\ ReadyTasks(m, Node) # {}
    BY <1>5, <1>15 DEF Branch
  <2>2. PICK next \in Branches(m, options, Node) : stack' = next \o Tail(stack)
    BY <1>5, <1>15 DEF Branch
  <2>3. PICK node : node = Node
    OBVIOUS
  <2>4. Weighed(m, options) => Covers(m, options, next \o Tail(stack), best)
    BY <1>5, <1>9, <2>1, <2>3, BranchCovers
  <2>5. InTree(m, options, next \o Tail(stack), best)
    BY <1>5, <1>9, <2>1, <2>3, BranchInTree
  <2> QED
    BY <1>1, <1>8, <2>1, <2>2, <2>4, <2>5 DEF BestSearchInv
<1>16. CASE SearchEnds
  BY <1>1, <1>6, <1>16 DEF SearchEnds, Finish, BestSearchInv
<1>17. CASE Done
  BY <1>10, <1>17 DEF Done
<1> QED
  BY <1>10, <1>11, <1>12, <1>13, <1>14, <1>15, <1>16, <1>17 DEF Next

(* The exact search is exact, for every request and build: when it ends it *)
(* returns a plan if the tree has a leaf at all, and no leaf of the tree   *)
(* beats the one returned.                                                 *)
THEOREM ExactReturnsTheBest == Spec => []ExactIsBest
<1>1. BestSearchInv => ExactIsBest
  <2> SUFFICES ASSUME BestSearchInv, phase = "done", backend = "indexed_exact",
                      Weighed(model, ToOptions)
               PROVE  /\ result.ok <=> Leaves # {}
                      /\ result.ok => \A s \in Leaves : ~BetterScore(Score(s), Score(best[1]))
    BY DEF ExactIsBest, Weighed
  <2>1. stack = <<>> /\ InTree(model, ToOptions, stack, best)
        /\ Covers(model, ToOptions, stack, best)
    BY DEF BestSearchInv, TreeInv, CoverInv
  <2>2. IF best = <<>> THEN ~result.ok ELSE result.ok
    BY DEF BestSearchInv, SearchInv, ResultInv
  <2>3. \A s \in Leaves : best # <<>> /\ ~BetterScore(Score(s), Score(best[1]))
    <3>1. ASSUME NEW s PROVE ~Waits(model, ToOptions, stack, s)
      BY <2>1 DEF Waits
    <3> QED
      BY <2>1, <3>1 DEF Covers, Leaves, Tree, BetterScore, Score
  <2>4. best # <<>> => best[1] \in Leaves
    BY <2>1 DEF InTree, BestSearchInv, SearchInv, BestInv, Leaves, Tree
  <2> QED
    BY <2>2, <2>3, <2>4
<1> QED
  BY <1>1, BestSearchInvInit, BestSearchInvNext, PTL DEF Spec
-----------------------------------------------------------------------------
(***************************************************************************)
(* dfs enters no state twice: the subtrees on the stack have nothing in    *)
(* common, and every node entered leaves one state less to visit.          *)
(***************************************************************************)
Apart(m, options, st) ==
    \A i, j \in 1..Len(st) : i # j =>
        \A x \in Under(m, options, DropDescendants(m, st[i])) :
            x \notin Under(m, options, DropDescendants(m, st[j]))

Waiting(m, options, st) == {x \in TreeOf(m, options) : Waits(m, options, st, x)}

Counted(m, options, st, n) ==
    /\ n \in Nat
    /\ n + Cardinality(Waiting(m, options, st)) <= Cardinality(TreeOf(m, options))

LEMMA PopApart ==
    ASSUME NEW m, NEW options, NEW N, NEW st \in Seq(N), st # <<>>, Apart(m, options, st)
    PROVE  /\ Apart(m, options, Tail(st))
           /\ \A x \in Under(m, options, DropDescendants(m, Head(st))) :
                 ~Waits(m, options, Tail(st), x)
<1>1. /\ Len(Tail(st)) = Len(st) - 1 /\ Len(st) \in Nat \ {0} /\ Head(st) = st[1]
      /\ \A i \in 1..Len(Tail(st)) : Tail(st)[i] = st[i + 1]
  BY HeadTailProperties, EmptySeq
<1>2. ASSUME NEW k \in 1..Len(Tail(st))
      PROVE  k + 1 \in 1..Len(st) /\ Tail(st)[k] = st[k + 1] /\ k + 1 # 1 /\ k \in Int
  BY <1>1
<1>3. 1 \in 1..Len(st)
  BY <1>1
<1>4. ASSUME NEW i \in 1..Len(Tail(st)), NEW j \in 1..Len(Tail(st)), i # j PROVE i + 1 # j + 1
  BY <1>2, <1>4
<1>5. Apart(m, options, Tail(st))
  BY <1>2, <1>4 DEF Apart
<1>6. ASSUME NEW x \in Under(m, options, DropDescendants(m, Head(st))),
             NEW k \in 1..Len(Tail(st)), x \in Under(m, options, DropDescendants(m, Tail(st)[k]))
      PROVE  FALSE
  <2>1. x \in Under(m, options, DropDescendants(m, st[1]))
    BY <1>1
  <2>2. x \in Under(m, options, DropDescendants(m, st[k + 1]))
    BY <1>2, <1>6
  <2> QED
    BY <1>2, <1>3, <2>1, <2>2 DEF Apart
<1> QED
  BY <1>5, <1>6 DEF Waits

LEMMA BranchApart ==
    ASSUME NEW m, WellFormed(m), NEW options, NEW st \in Seq(Nodes(m)), st # <<>>,
           Apart(m, options, st), NEW node \in Universe(m),
           node = DropDescendants(m, Head(st)),
           ReadyTasks(m, node) # {}, NEW next \in Branches(m, options, node)
    PROVE  Apart(m, options, next \o Tail(st))
<1>1. next \in Seq(Nodes(m)) /\ Tail(st) \in Seq(Nodes(m))
  BY BranchesShare, HeadTailProperties
<1>2. PICK rest \in Seq(Nodes(m)) : rest = Tail(st)
  BY <1>1
<1>3. PICK all : all = next \o rest
  OBVIOUS
<1>4. /\ Len(all) = Len(next) + Len(rest) /\ Len(next) \in Nat /\ Len(rest) \in Nat
      /\ \A i \in 1..(Len(next) + Len(rest)) :
            all[i] = IF i <= Len(next) THEN next[i] ELSE rest[i - Len(next)]
  BY <1>1, <1>3, ConcatProperties, LenProperties
<1>5. ASSUME NEW i \in 1..Len(all)
      PROVE  \/ i \in 1..Len(next) /\ all[i] = next[i]
             \/ i - Len(next) \in 1..Len(rest) /\ all[i] = rest[i - Len(next)]
  BY <1>4
<1>6. Apart(m, options, rest)
  BY <1>2, PopApart
<1>7. ASSUME NEW x, Waits(m, options, next, x), Waits(m, options, rest, x) PROVE FALSE
  <2>1. x \in Under(m, options, node)
    BY <1>7, BranchesShare
  <2> QED
    BY <1>2, <1>7, <2>1, PopApart
<1> SUFFICES ASSUME NEW i \in 1..Len(all), NEW j \in 1..Len(all), i # j, NEW x,
                    x \in Under(m, options, DropDescendants(m, all[i])),
                    x \in Under(m, options, DropDescendants(m, all[j]))
             PROVE  FALSE
  BY <1>2, <1>3 DEF Apart
<1>8. CASE i \in 1..Len(next) /\ all[i] = next[i] /\ j \in 1..Len(next) /\ all[j] = next[j]
  BY <1>8, BranchesApart
<1>9. CASE /\ i - Len(next) \in 1..Len(rest) /\ all[i] = rest[i - Len(next)]
           /\ j - Len(next) \in 1..Len(rest) /\ all[j] = rest[j - Len(next)]
  <2>1. i - Len(next) # j - Len(next)
    BY <1>4
  <2> QED
    BY <1>6, <1>9, <2>1 DEF Apart
<1>10. CASE /\ i \in 1..Len(next) /\ all[i] = next[i]
            /\ j - Len(next) \in 1..Len(rest) /\ all[j] = rest[j - Len(next)]
  <2>1. Waits(m, options, next, x) /\ Waits(m, options, rest, x)
    BY <1>10 DEF Waits
  <2> QED BY <1>7, <2>1
<1>11. CASE /\ j \in 1..Len(next) /\ all[j] = next[j]
            /\ i - Len(next) \in 1..Len(rest) /\ all[i] = rest[i - Len(next)]
  <2>1. Waits(m, options, next, x) /\ Waits(m, options, rest, x)
    BY <1>11 DEF Waits
  <2> QED BY <1>7, <2>1
<1> QED
  BY <1>5, <1>8, <1>9, <1>10, <1>11

LEMMA WaitingFacts ==
    ASSUME NEW m, WellFormed(m), NEW options, NEW st
    PROVE  /\ IsFiniteSet(Waiting(m, options, st)) /\ Cardinality(Waiting(m, options, st)) \in Nat
           /\ Cardinality(Waiting(m, options, st)) <= Cardinality(TreeOf(m, options))
           /\ Cardinality(TreeOf(m, options)) \in Nat
<1>1. IsFiniteSet(TreeOf(m, options))
  BY TreeIsUnder
<1>2. Waiting(m, options, st) \in SUBSET TreeOf(m, options)
  BY DEF Waiting
<1> QED
  BY <1>1, <1>2, FS_Subset, FS_CardinalityType

LEMMA CountStep ==
    ASSUME NEW m, WellFormed(m), NEW options, NEW st, NEW new,
           NEW node \in TreeOf(m, options), Waits(m, options, st, node),
           ~Waits(m, options, new, node),
           \A x : Waits(m, options, new, x) => Waits(m, options, st, x),
           NEW n, Counted(m, options, st, n)
    PROVE  Counted(m, options, new, n + 1)
<1> DEFINE S == Waiting(m, options, st)
           T == Waiting(m, options, new)
<1>1. IsFiniteSet(S) /\ Cardinality(S) \in Nat /\ Cardinality(T) \in Nat
      /\ Cardinality(TreeOf(m, options)) \in Nat
  BY WaitingFacts
<1>2. node \in S /\ T \subseteq S \ {node}
  BY DEF Waiting
<1> HIDE DEF S, T
<1>3. IsFiniteSet(S \ {node}) /\ Cardinality(S \ {node}) = Cardinality(S) - 1
  BY <1>1, <1>2, FS_RemoveElement
<1>4. Cardinality(T) <= Cardinality(S \ {node})
  BY <1>2, <1>3, FS_Subset
<1>5. n \in Nat /\ n + Cardinality(S) <= Cardinality(TreeOf(m, options))
  BY DEF Counted, S
<1>6. n + 1 \in Nat /\ (n + 1) + Cardinality(T) <= Cardinality(TreeOf(m, options))
  BY <1>1, <1>3, <1>4, <1>5
<1> QED
  BY <1>6 DEF Counted, T

BoundInv ==
    /\ phase = "requested" => nodes = 0
    /\ phase = "search" => /\ Apart(model, ToOptions, stack)
                           /\ Counted(model, ToOptions, stack, nodes)

BoundedSearchInv == BestSearchInv /\ BoundInv

LEMMA BoundedInit == Init => BoundedSearchInv
BY BestSearchInvInit DEF Init, BoundedSearchInv, BoundInv

LEMMA BoundedNext == BoundedSearchInv /\ [Next]_vars => BoundedSearchInv'
<1> SUFFICES ASSUME BoundedSearchInv, [Next]_vars PROVE BoundedSearchInv'
  OBVIOUS
<1>1. BestSearchInv /\ BestSearchInv'
  BY BestSearchInvNext DEF BoundedSearchInv
<1>2. InputInv /\ PhaseInv /\ StackInv /\ TreeInv /\ BoundInv
  BY DEF BoundedSearchInv, BestSearchInv, SearchInv
<1>3. UNCHANGED <<request, model>> /\ ToOptions' = ToOptions
  BY DEF Next, ParseFails, Optimize, Prune, Leaf, Branch, SearchEnds, RejectModel,
         MipUnavailable, SolverFails, SolverOptimal, SolverSelects, Done, vars, ToOptions
<1>4. PICK m, options : m = model /\ options = ToOptions
  OBVIOUS
<1>5. /\ model' = m /\ ToOptions' = options /\ model = m /\ ToOptions = options
      /\ WellFormed(m)
  BY <1>2, <1>3, <1>4, InputFacts
<1>6. ASSUME phase' \notin {"requested", "search"} PROVE BoundedSearchInv'
  BY <1>1, <1>6 DEF BoundedSearchInv, BoundInv
<1>7. ASSUME phase' = "search", Apart(m, options, stack'), Counted(m, options, stack', nodes')
      PROVE  BoundedSearchInv'
  BY <1>1, <1>5, <1>7 DEF BoundedSearchInv, BoundInv
<1>8. ASSUME phase = "search", stack # <<>>
      PROVE  /\ stack \in Seq(Nodes(m)) /\ Apart(m, options, stack)
             /\ Counted(m, options, stack, nodes)
             /\ Node \in Universe(m) /\ Node = DropDescendants(m, Head(stack))
             /\ Node \in TreeOf(m, options) /\ Node \in Under(m, options, Node)
             /\ Waits(m, options, stack, Node) /\ ~Waits(m, options, Tail(stack), Node)
  <2>1. backend = "indexed_exact"
    BY <1>2, <1>8 DEF PhaseInv
  <2>2. /\ stack \in Seq(Nodes(m)) /\ InTree(m, options, stack, best)
        /\ Apart(m, options, stack) /\ Counted(m, options, stack, nodes)
    BY <1>2, <1>5, <1>8, <2>1 DEF StackInv, TreeInv, BoundInv
  <2>3. Node \in Universe(m) /\ Node = DropDescendants(m, Head(stack))
    BY <1>2, <1>5, <1>8, NodeIsThere DEF Node
  <2>4. Head(stack) = stack[1] /\ 1 \in 1..Len(stack)
    BY <1>8, <2>2, EmptySeq
  <2>5. Node \in TreeOf(m, options)
    BY <2>2, <2>3, <2>4 DEF InTree
  <2>6. Node \in Under(m, options, Node)
    BY <1>5, <2>3, UnderClosed
  <2>7. Waits(m, options, stack, Node) /\ ~Waits(m, options, Tail(stack), Node)
    BY <1>8, <2>2, <2>3, <2>6, WaitsHead, PopApart
  <2> QED
    BY <2>2, <2>3, <2>5, <2>6, <2>7
<1>9. CASE UNCHANGED vars
  <2>1. phase' = phase /\ stack' = stack /\ nodes' = nodes
    BY <1>9 DEF vars
  <2> QED
    BY <1>1, <1>2, <1>3, <2>1 DEF BoundedSearchInv, BoundInv
<1>10. CASE \/ ParseFails \/ RejectModel \/ MipUnavailable \/ SolverFails
            \/ SolverOptimal \/ SolverSelects \/ SearchEnds
  <2>1. phase' = "done"
    BY <1>10 DEF ParseFails, RejectModel, MipUnavailable, SolverFails, SolverOptimal,
                 SolverSelects, SearchEnds, Finish
  <2> QED
    BY <1>6, <2>1
<1>11. CASE Optimize
  <2>1. nodes' = 0
    BY <1>2, <1>11 DEF Optimize, BoundInv
  <2>2. CASE phase' \notin {"requested", "search"}
    BY <1>6, <2>2
  <2>3. CASE phase' \in {"requested", "search"}
    <3> DEFINE root == [assigned |-> {}, dropped |-> {}]
    <3>1. phase' = "search" /\ stack' = <<root>>
      BY <1>11, <2>3 DEF Optimize, Finish
    <3> HIDE DEF root
    <3>2. Len(stack') = 1
      BY <3>1
    <3>3. Apart(m, options, stack')
      BY <3>2 DEF Apart
    <3>4. Counted(m, options, stack', nodes')
      BY <1>5, <2>1, WaitingFacts DEF Counted
    <3> QED
      BY <1>7, <3>1, <3>3, <3>4
  <2> QED
    BY <2>2, <2>3
<1>12. CASE Prune \/ Leaf
  <2>1. phase = "search" /\ stack # <<>> /\ phase' = phase /\ stack' = Tail(stack) /\ nodes' = nodes + 1
    BY <1>12 DEF Prune, Leaf
  <2>2. Apart(m, options, stack')
    BY <1>8, <2>1, PopApart
  <2>3. PICK node : node = Node
    OBVIOUS
  <2>4. \A x : Waits(m, options, Tail(stack), x) => Waits(m, options, stack, x)
    BY <1>8, <2>1, WaitsHead
  <2>5. Counted(m, options, Tail(stack), nodes + 1)
    BY <1>5, <1>8, <2>1, <2>3, <2>4, CountStep
  <2> QED
    BY <1>7, <2>1, <2>2, <2>5
<1>13. CASE Branch
  <2>1. /\ phase = "search" /\ stack # <<>> /\ phase' = phase /\ nodes' = nodes + 1
        /\ ReadyTasks(m, Node) # {}
    BY <1>5, <1>13 DEF Branch
  <2>2. PICK next \in Branches(m, options, Node) : stack' = next \o Tail(stack)
    BY <1>5, <1>13 DEF Branch
  <2>3. PICK node : node = Node
    OBVIOUS
  <2>4. Apart(m, options, next \o Tail(stack))
    BY <1>5, <1>8, <2>1, <2>3, BranchApart
  <2>5. /\ next \in Seq(Nodes(m)) /\ Tail(stack) \in Seq(Nodes(m))
        /\ \A x : Waits(m, options, next, x) => x \in Under(m, options, node) /\ x # node
    BY <1>5, <1>8, <2>1, <2>3, BranchesShare, HeadTailProperties
  <2>6. PICK new : new = next \o Tail(stack)
    OBVIOUS
  <2>7. \A x : Waits(m, options, new, x) <=>
                  Waits(m, options, next, x) \/ Waits(m, options, Tail(stack), x)
    BY <2>5, <2>6, WaitsConcat
  <2>8. \A x : Waits(m, options, stack, x) <=>
                  x \in Under(m, options, node) \/ Waits(m, options, Tail(stack), x)
    BY <1>8, <2>1, <2>3, WaitsHead
  <2>9. ~Waits(m, options, new, node)
        /\ \A x : Waits(m, options, new, x) => Waits(m, options, stack, x)
    BY <1>8, <2>1, <2>3, <2>5, <2>7, <2>8
  <2>10. Counted(m, options, new, nodes + 1)
    BY <1>5, <1>8, <2>1, <2>3, <2>9, CountStep
  <2> QED
    BY <1>7, <2>1, <2>2, <2>4, <2>6, <2>10
<1>14. CASE Done
  BY <1>9, <1>14 DEF Done
<1> QED
  BY <1>9, <1>10, <1>11, <1>12, <1>13, <1>14 DEF Next

(* dfs ends, for every request and build: it enters no more states than    *)
(* the finite search tree has.                                             *)
THEOREM SearchEntersEachStateOnce == Spec => []SearchIsBounded
<1>1. BoundedSearchInv => SearchIsBounded
  <2> SUFFICES ASSUME BoundedSearchInv, phase = "search" PROVE nodes <= Cardinality(Tree)
    BY DEF SearchIsBounded
  <2>1. Counted(model, ToOptions, stack, nodes) /\ WellFormed(model)
    BY InputFacts DEF BoundedSearchInv, BoundInv, BestSearchInv, SearchInv
  <2> QED
    BY <2>1, WaitingFacts DEF Counted, Tree
<1> QED
  BY <1>1, BoundedInit, BoundedNext, PTL DEF Spec
-----------------------------------------------------------------------------
(***************************************************************************)
(* The solver backends.  The options of the formulation are the placements *)
(* the request allows.                                                     *)
(***************************************************************************)
LEMMA MaxOfTwo ==
    ASSUME NEW x \in Int, NEW y \in Int
    PROVE  Max({x, y}) \in {x, y} /\ x <= Max({x, y}) /\ y <= Max({x, y})
<1>1. \E z \in {x, y} : \A u \in {x, y} : u <= z
  OBVIOUS
<1>2. Max({x, y}) \in {x, y} /\ \A u \in {x, y} : u <= Max({x, y})
  BY <1>1 DEF Max
<1> QED
  BY <1>2

LEMMA MinOfThree ==
    ASSUME NEW x \in Int, NEW y \in Int, NEW z \in Int
    PROVE  /\ Min({x, y, z}) \in {x, y, z}
           /\ Min({x, y, z}) <= x /\ Min({x, y, z}) <= y /\ Min({x, y, z}) <= z
<1>1. \E v \in {x, y, z} : \A u \in {x, y, z} : v <= u
  OBVIOUS
<1>2. Min({x, y, z}) \in {x, y, z} /\ \A u \in {x, y, z} : Min({x, y, z}) <= u
  BY <1>1 DEF Min
<1> QED
  BY <1>2

(* An option, without the minimum and the maximum. *)
IsOption(m, o) ==
    \E t \in DOMAIN m.tasks : \E a \in EligibleActors(m, t) :
        \E k \in DOMAIN m.actors[a].windows : \E i \in Nat :
            /\ Capable(m, t, a)
            /\ m.actors[a].windows[k].start <= i /\ m.tasks[t].release <= i
            /\ i + m.tasks[t].duration <= m.actors[a].windows[k].end
            /\ i <= m.tasks[t].latest /\ i + m.tasks[t].duration <= m.tasks[t].deadline
            /\ o = [task |-> t, actor |-> a, start |-> i, end |-> i + m.tasks[t].duration]

(* The starts of an option, without the minimum and the maximum. *)
LEMMA OptionRange ==
    ASSUME NEW m, WellFormed(m), NEW t \in DOMAIN m.tasks, NEW a \in DOMAIN m.actors,
           NEW k \in DOMAIN m.actors[a].windows, NEW w, w = m.actors[a].windows[k],
           NEW range, range = Max({w.start, m.tasks[t].release})..LatestFeasibleStart(m.tasks[t], w)
    PROVE  /\ range \subseteq Int
           /\ \A i \in Int :
                i \in range <=>
                  /\ i \in Nat
                  /\ w.start <= i /\ m.tasks[t].release <= i
                  /\ i + m.tasks[t].duration <= w.end
                  /\ i <= m.tasks[t].latest /\ i + m.tasks[t].duration <= m.tasks[t].deadline
<1>1. PICK ws \in Nat, we \in Nat : ws = w.start /\ we = w.end
  BY WindowData
<1>2. PICK du \in Nat, re \in Nat, la \in Nat, de \in Nat :
         /\ du = m.tasks[t].duration /\ re = m.tasks[t].release
         /\ la = m.tasks[t].latest /\ de = m.tasks[t].deadline
  BY TaskData
<1>3. PICK x \in Int, z \in Int : x = we - du /\ z = de - du
  OBVIOUS
<1>4. PICK lo, hi : lo = Max({ws, re}) /\ hi = Min({x, la, z})
  OBVIOUS
<1>5. range = lo..hi
  BY <1>1, <1>2, <1>3, <1>4 DEF LatestFeasibleStart
<1>6. lo \in {ws, re} /\ ws <= lo /\ re <= lo
  BY <1>4, MaxOfTwo
<1>7. hi \in {x, la, z} /\ hi <= x /\ hi <= la /\ hi <= z
  <2>1. la \in Int
    OBVIOUS
  <2> QED BY <1>4, <2>1, MinOfThree
<1>8. lo \in Int /\ hi \in Int
  BY <1>6, <1>7
<1>9. ASSUME NEW i \in Int
      PROVE  i \in lo..hi <=> /\ i \in Nat /\ ws <= i /\ re <= i
                              /\ i + du <= we /\ i <= la /\ i + du <= de
  BY <1>3, <1>6, <1>7, <1>8
<1>10. range \subseteq Int
  BY <1>5, <1>8
<1>11. ASSUME NEW i \in Int
       PROVE  i \in range <=>
                  /\ i \in Nat
                  /\ w.start <= i /\ m.tasks[t].release <= i
                  /\ i + m.tasks[t].duration <= w.end
                  /\ i <= m.tasks[t].latest /\ i + m.tasks[t].duration <= m.tasks[t].deadline
  <2>1. i \in range <=> /\ i \in Nat /\ ws <= i /\ re <= i
                        /\ i + du <= we /\ i <= la /\ i + du <= de
    BY <1>5, <1>9
  <2> QED
    BY <1>1, <1>2, <2>1
<1> QED
  BY <1>10, <1>11

LEMMA OptionFacts ==
    ASSUME NEW m, WellFormed(m), NEW o
    PROVE  o \in Options(m) <=> IsOption(m, o)
<1> DEFINE opts(t, a, w) ==
             {[task |-> t, actor |-> a, start |-> i, end |-> i + m.tasks[t].duration] :
                i \in Max({w.start, m.tasks[t].release})..LatestFeasibleStart(m.tasks[t], w)}
           acts(t) == {a \in EligibleActors(m, t) : Capable(m, t, a)}
           wins(t, a) == {w \in Range(m.actors[a].windows) : w.end >= m.tasks[t].duration}
<1>0. ASSUME NEW t
      PROVE  TaskOptions(m, t) = UNION {UNION {opts(t, a, w) : w \in wins(t, a)} : a \in acts(t)}
  BY DEF TaskOptions
<1>1. ASSUME o \in Options(m) PROVE IsOption(m, o)
  <2>1. PICK t \in DOMAIN m.tasks : o \in TaskOptions(m, t)
    BY <1>1 DEF Options
  <2>0. PICK a \in acts(t) : o \in UNION {opts(t, a, w) : w \in wins(t, a)}
    <3> HIDE DEF acts, wins, opts
    <3> QED BY <1>0, <2>1
  <2>2. PICK w \in wins(t, a) : o \in opts(t, a, w)
    <3> HIDE DEF acts, wins, opts
    <3> QED BY <2>0
  <2>3. PICK i \in Max({w.start, m.tasks[t].release})..LatestFeasibleStart(m.tasks[t], w) :
           o = [task |-> t, actor |-> a, start |-> i, end |-> i + m.tasks[t].duration]
    BY <2>2
  <2>4. a \in DOMAIN m.actors /\ a \in EligibleActors(m, t) /\ Capable(m, t, a)
    BY DEF EligibleActors
  <2>5. PICK k \in DOMAIN m.actors[a].windows : w = m.actors[a].windows[k]
    BY DEF Range
  <2>6. /\ i \in Nat
        /\ w.start <= i /\ m.tasks[t].release <= i
        /\ i + m.tasks[t].duration <= w.end
        /\ i <= m.tasks[t].latest /\ i + m.tasks[t].duration <= m.tasks[t].deadline
    <3>1. PICK range :
             range = Max({w.start, m.tasks[t].release})..LatestFeasibleStart(m.tasks[t], w)
      OBVIOUS
    <3>2. i \in range /\ i \in Int
      BY <2>3, <2>4, <2>5, <3>1, OptionRange
    <3> QED
      BY <2>4, <2>5, <3>1, <3>2, OptionRange
  <2> QED
    BY <2>3, <2>4, <2>5, <2>6 DEF IsOption
<1>2. ASSUME IsOption(m, o) PROVE o \in Options(m)
  <2>1. PICK t \in DOMAIN m.tasks : \E a \in EligibleActors(m, t) :
          \E k \in DOMAIN m.actors[a].windows : \E i \in Nat :
            /\ Capable(m, t, a)
            /\ m.actors[a].windows[k].start <= i /\ m.tasks[t].release <= i
            /\ i + m.tasks[t].duration <= m.actors[a].windows[k].end
            /\ i <= m.tasks[t].latest /\ i + m.tasks[t].duration <= m.tasks[t].deadline
            /\ o = [task |-> t, actor |-> a, start |-> i, end |-> i + m.tasks[t].duration]
    BY <1>2 DEF IsOption
  <2>2. PICK a \in EligibleActors(m, t) :
          \E k \in DOMAIN m.actors[a].windows : \E i \in Nat :
            /\ Capable(m, t, a)
            /\ m.actors[a].windows[k].start <= i /\ m.tasks[t].release <= i
            /\ i + m.tasks[t].duration <= m.actors[a].windows[k].end
            /\ i <= m.tasks[t].latest /\ i + m.tasks[t].duration <= m.tasks[t].deadline
            /\ o = [task |-> t, actor |-> a, start |-> i, end |-> i + m.tasks[t].duration]
    BY <2>1
  <2>3. PICK k \in DOMAIN m.actors[a].windows, i \in Nat :
            /\ Capable(m, t, a)
            /\ m.actors[a].windows[k].start <= i /\ m.tasks[t].release <= i
            /\ i + m.tasks[t].duration <= m.actors[a].windows[k].end
            /\ i <= m.tasks[t].latest /\ i + m.tasks[t].duration <= m.tasks[t].deadline
            /\ o = [task |-> t, actor |-> a, start |-> i, end |-> i + m.tasks[t].duration]
    BY <2>2
  <2>4. PICK w : w = m.actors[a].windows[k]
    OBVIOUS
  <2>5. a \in DOMAIN m.actors /\ w \in Range(m.actors[a].windows)
    BY <2>4 DEF EligibleActors, Range
  <2>6. i \in Max({w.start, m.tasks[t].release})..LatestFeasibleStart(m.tasks[t], w)
    <3>1. PICK range :
             range = Max({w.start, m.tasks[t].release})..LatestFeasibleStart(m.tasks[t], w)
      OBVIOUS
    <3>2. /\ i \in Int /\ i \in Nat /\ w.start <= i /\ m.tasks[t].release <= i
          /\ i + m.tasks[t].duration <= w.end
          /\ i <= m.tasks[t].latest /\ i + m.tasks[t].duration <= m.tasks[t].deadline
      BY <2>3, <2>4
    <3>3. i \in range
      BY <2>4, <2>5, <3>1, <3>2, OptionRange
    <3> QED
      BY <3>1, <3>3
  <2>7. w.end >= m.tasks[t].duration
    <3>1. w.end \in Nat /\ m.tasks[t].duration \in Nat
      BY <2>4, <2>5, WindowData, TaskData
    <3> QED
      BY <2>3, <2>4, <3>1
  <2>8. a \in acts(t) /\ w \in wins(t, a) /\ o \in opts(t, a, w)
    BY <2>3, <2>5, <2>6, <2>7
  <2>9. o \in TaskOptions(m, t)
    <3> HIDE DEF acts, wins, opts
    <3> QED BY <1>0, <2>8
  <2> QED
    BY <2>9 DEF Options
<1> QED
  BY <1>1, <1>2
(* The ends of all windows. *)
WindowEnds(m) ==
    {w.end : w \in UNION {Range(m.actors[a].windows) : a \in DOMAIN m.actors}}

LEMMA WindowEndsFacts ==
    ASSUME NEW m, WellFormed(m)
    PROVE  /\ IsFiniteSet(WindowEnds(m)) /\ WindowEnds(m) \in SUBSET Nat
           /\ \A a \in DOMAIN m.actors : \A k \in DOMAIN m.actors[a].windows :
                 m.actors[a].windows[k].end \in WindowEnds(m)
<1> DEFINE ranges == {Range(m.actors[a].windows) : a \in DOMAIN m.actors}
           f == [a \in DOMAIN m.actors |-> Range(m.actors[a].windows)]
           W == UNION ranges
           g == [w \in W |-> w.end]
<1>1. IsFiniteSet(DOMAIN m.actors) /\ f \in Surjection(DOMAIN m.actors, ranges)
  BY DEF WellFormed, Surjection
<1>2. IsFiniteSet(ranges)
  BY <1>1, FS_Surjection
<1>3. ASSUME NEW a \in DOMAIN m.actors PROVE IsFiniteSet(Range(m.actors[a].windows))
  <2> DEFINE v == m.actors[a].windows
             h == [k \in DOMAIN v |-> v[k]]
  <2>1. IsFiniteSet(DOMAIN v)
    BY DEF WellFormed
  <2>2. h \in Surjection(DOMAIN v, Range(v))
    BY DEF Surjection, Range
  <2> QED
    BY <2>1, <2>2, FS_Surjection
<1>4. IsFiniteSet(W)
  <2>1. \A R \in ranges : IsFiniteSet(R)
    BY <1>3
  <2> QED BY <1>2, <2>1, FS_UNION
<1>5. WindowEnds(m) = {w.end : w \in W}
  BY DEF WindowEnds
<1>6. IsFiniteSet(WindowEnds(m))
  <2>1. g \in Surjection(W, WindowEnds(m))
    <3> HIDE DEF W
    <3> QED BY <1>5 DEF Surjection
  <2> QED BY <1>4, <2>1, FS_Surjection
<1>7. ASSUME NEW e \in WindowEnds(m) PROVE e \in Nat
  <2>1. PICK w \in W : e = w.end
    BY <1>5
  <2>2. PICK a \in DOMAIN m.actors : w \in Range(m.actors[a].windows)
    BY <2>1
  <2>3. PICK k \in DOMAIN m.actors[a].windows : w = m.actors[a].windows[k]
    BY <2>2 DEF Range
  <2> QED
    BY <2>1, <2>3, WindowData
<1>8. ASSUME NEW a \in DOMAIN m.actors, NEW k \in DOMAIN m.actors[a].windows
      PROVE  m.actors[a].windows[k].end \in WindowEnds(m)
  BY DEF WindowEnds, Range
<1> QED
  BY <1>6, <1>7, <1>8

LEMMA OptionShape ==
    ASSUME NEW m, WellFormed(m), NEW o \in Options(m)
    PROVE  /\ o \in Places(m) /\ o.task \in DOMAIN m.tasks
           /\ o.end = o.start + m.tasks[o.task].duration
           /\ Capable(m, o.task, o.actor)
           /\ o.end \in 0..Max(WindowEnds(m)) /\ o.start \in 0..Max(WindowEnds(m))
           /\ Max(WindowEnds(m)) \in Nat
<1>1. IsOption(m, o)
  BY OptionFacts
<1>2. PICK t \in DOMAIN m.tasks : \E a \in EligibleActors(m, t) :
        \E k \in DOMAIN m.actors[a].windows : \E i \in Nat :
            /\ Capable(m, t, a)
            /\ i + m.tasks[t].duration <= m.actors[a].windows[k].end
            /\ o = [task |-> t, actor |-> a, start |-> i, end |-> i + m.tasks[t].duration]
  BY <1>1 DEF IsOption
<1>3. PICK a \in EligibleActors(m, t) :
        \E k \in DOMAIN m.actors[a].windows : \E i \in Nat :
            /\ Capable(m, t, a)
            /\ i + m.tasks[t].duration <= m.actors[a].windows[k].end
            /\ o = [task |-> t, actor |-> a, start |-> i, end |-> i + m.tasks[t].duration]
  BY <1>2
<1>4. PICK k \in DOMAIN m.actors[a].windows, i \in Nat :
            /\ Capable(m, t, a)
            /\ i + m.tasks[t].duration <= m.actors[a].windows[k].end
            /\ o = [task |-> t, actor |-> a, start |-> i, end |-> i + m.tasks[t].duration]
  BY <1>3
<1>5. o.task = t /\ o.actor = a /\ o.start = i /\ o.end = i + m.tasks[t].duration
  BY <1>4
<1>6. a \in DOMAIN m.actors /\ m.tasks[t].duration \in Nat
  BY TaskData DEF EligibleActors
<1>7. o \in Places(m)
  BY <1>4, <1>6 DEF Places
<1>8. PICK e \in WindowEnds(m) : e = m.actors[a].windows[k].end
  BY <1>6, WindowEndsFacts
<1>9. WindowEnds(m) # {} /\ WindowEnds(m) \in SUBSET Int /\ IsFiniteSet(WindowEnds(m)) /\ e \in Nat
  BY WindowEndsFacts
<1>10. e <= Max(WindowEnds(m)) /\ Max(WindowEnds(m)) \in Nat
  BY <1>9, MaxOfFinite, WindowEndsFacts
<1>11. i + m.tasks[t].duration <= e
  BY <1>4, <1>8
<1>12. i + m.tasks[t].duration \in 0..Max(WindowEnds(m)) /\ i \in 0..Max(WindowEnds(m))
  BY <1>6, <1>9, <1>10, <1>11
<1> QED
  BY <1>4, <1>5, <1>7, <1>10, <1>12

LEMMA OptionsFinite ==
    ASSUME NEW m, WellFormed(m)
    PROVE  IsFiniteSet(Options(m))
<1>1. CASE Options(m) = {}
  BY <1>1, FS_EmptySet
<1>2. CASE Options(m) # {}
  <2>1. PICK top \in Nat : top = Max(WindowEnds(m))
    BY <1>2, OptionShape
  <2> DEFINE D == (DOMAIN m.tasks) \X (DOMAIN m.actors)
             E == D \X (0..top)
             f == [o \in Options(m) |-> <<<<o.task, o.actor>>, o.start>>]
  <2>2. IsFiniteSet(D)
    BY FS_Product DEF WellFormed
  <2>3. IsFiniteSet(0..top)
    BY FS_Interval
  <2>4. IsFiniteSet(E)
    <3> HIDE DEF D
    <3> QED BY <2>2, <2>3, FS_Product
  <2>5. ASSUME NEW o \in Options(m)
        PROVE  /\ o \in Places(m) /\ o.task \in DOMAIN m.tasks /\ o.actor \in DOMAIN m.actors
               /\ o.start \in 0..top /\ o.end = o.start + m.tasks[o.task].duration
               /\ o = [task |-> o.task, actor |-> o.actor, start |-> o.start, end |-> o.end]
    BY <2>1, OptionShape DEF Places
  <2>6. f \in [Options(m) -> E]
    BY <2>5
  <2>7. ASSUME NEW o \in Options(m), NEW p \in Options(m), f[o] = f[p] PROVE o = p
    <3>1. o.task = p.task /\ o.actor = p.actor /\ o.start = p.start
      BY <2>7
    <3>2. o.end = p.end
      BY <2>5, <3>1
    <3> QED
      BY <2>5, <3>1, <3>2
  <2>8. f \in Injection(Options(m), E)
    <3> HIDE DEF f, E
    <3> QED BY <2>6, <2>7 DEF Injection, IsInjective
  <2> QED
    BY <2>4, <2>8, FS_Injection
<1> QED
  BY <1>1, <1>2

(* The options are the placements the request allows. *)
LEMMA OptionsAreAllowed ==
    ASSUME WellFormed(model)
    PROVE  Options(model) = {p \in Placements : PlacementAllowed(p)}
<1> DEFINE top == Max(WindowEnds(model))
<1>1. Placements =
        {[task |-> t, actor |-> a, start |-> s, end |-> s + model.tasks[t].duration] :
            t \in DOMAIN model.tasks, a \in DOMAIN model.actors, s \in 0..top}
  BY DEF Placements, WindowEnds
<1>2. ASSUME NEW o \in Options(model) PROVE o \in Placements /\ PlacementAllowed(o)
  <2>1. IsOption(model, o)
    BY OptionFacts
  <2>2. PICK t \in DOMAIN model.tasks : \E a \in EligibleActors(model, t) :
          \E k \in DOMAIN model.actors[a].windows : \E i \in Nat :
            /\ Capable(model, t, a)
            /\ model.actors[a].windows[k].start <= i /\ model.tasks[t].release <= i
            /\ i + model.tasks[t].duration <= model.actors[a].windows[k].end
            /\ i <= model.tasks[t].latest /\ i + model.tasks[t].duration <= model.tasks[t].deadline
            /\ o = [task |-> t, actor |-> a, start |-> i, end |-> i + model.tasks[t].duration]
    BY <2>1 DEF IsOption
  <2>3. PICK a \in EligibleActors(model, t) :
          \E k \in DOMAIN model.actors[a].windows : \E i \in Nat :
            /\ Capable(model, t, a)
            /\ model.actors[a].windows[k].start <= i /\ model.tasks[t].release <= i
            /\ i + model.tasks[t].duration <= model.actors[a].windows[k].end
            /\ i <= model.tasks[t].latest /\ i + model.tasks[t].duration <= model.tasks[t].deadline
            /\ o = [task |-> t, actor |-> a, start |-> i, end |-> i + model.tasks[t].duration]
    BY <2>2
  <2>4. PICK k \in DOMAIN model.actors[a].windows, i \in Nat :
            /\ Capable(model, t, a)
            /\ model.actors[a].windows[k].start <= i /\ model.tasks[t].release <= i
            /\ i + model.tasks[t].duration <= model.actors[a].windows[k].end
            /\ i <= model.tasks[t].latest /\ i + model.tasks[t].duration <= model.tasks[t].deadline
            /\ o = [task |-> t, actor |-> a, start |-> i, end |-> i + model.tasks[t].duration]
    BY <2>3
  <2>5. o.task = t /\ o.actor = a /\ o.start = i /\ o.end = i + model.tasks[t].duration
    BY <2>4
  <2>6. a \in DOMAIN model.actors /\ i \in 0..top
    BY <2>5, OptionShape DEF EligibleActors
  <2>7. o \in Placements
    <3> HIDE DEF top
    <3> QED BY <1>1, <2>4, <2>6
  <2>8. model.actors[a].windows[k] \in Range(model.actors[a].windows)
    BY DEF Range
  <2>9. i >= model.tasks[t].release
    BY <2>4, TaskData
  <2>10. /\ model.tasks[t].actorIds = {} \/ a \in model.tasks[t].actorIds
         /\ model.tasks[t].types = {} \/ model.actors[a].type \in model.tasks[t].types
    BY DEF EligibleActors
  <2>11. PlacementAllowed(o)
    BY <2>4, <2>5, <2>8, <2>9, <2>10 DEF PlacementAllowed, Capable
  <2> QED
    BY <2>7, <2>11
<1>3. ASSUME NEW p \in Placements, PlacementAllowed(p) PROVE p \in Options(model)
  <2>1. PICK t \in DOMAIN model.tasks, a \in DOMAIN model.actors, i \in 0..top :
           p = [task |-> t, actor |-> a, start |-> i, end |-> i + model.tasks[t].duration]
    <3> HIDE DEF top
    <3> QED BY <1>1
  <2>2. p.task = t /\ p.actor = a /\ p.start = i /\ p.end = i + model.tasks[t].duration
    BY <2>1
  <2>3. PICK w \in Range(model.actors[a].windows) : w.start <= i /\ i + model.tasks[t].duration <= w.end
    BY <1>3, <2>2 DEF PlacementAllowed
  <2>4. PICK k \in DOMAIN model.actors[a].windows : w = model.actors[a].windows[k]
    BY DEF Range
  <2>5. WindowEnds(model) # {}
    BY WindowEndsFacts
  <2>6. top \in Nat
    BY <2>5, MaxOfFinite, WindowEndsFacts
  <2>7. i \in Nat
    <3> HIDE DEF top
    <3> QED BY <2>6
  <2>8. a \in EligibleActors(model, t) /\ Capable(model, t, a)
    BY <1>3, <2>2 DEF PlacementAllowed, EligibleActors, Capable
  <2>9. /\ model.tasks[t].release <= i /\ i <= model.tasks[t].latest
        /\ i + model.tasks[t].duration <= model.tasks[t].deadline
    BY <1>3, <2>2, <2>7, TaskData DEF PlacementAllowed
  <2>10. IsOption(model, p)
    BY <2>1, <2>3, <2>4, <2>7, <2>8, <2>9 DEF IsOption
  <2> QED
    BY <2>10, OptionFacts
<1> QED
  BY <1>2, <1>3
-----------------------------------------------------------------------------
(***************************************************************************)
(* The rows.  With at most one option of a task selected, the sums in them *)
(* are the times of that option, or zero.                                  *)
(***************************************************************************)
LEMMA SelectedFacts ==
    ASSUME NEW m, WellFormed(m), NEW sel \in SUBSET Options(m), NEW t
    PROVE  /\ TaskSelected(sel, t) \in Nat
           /\ TaskSelected(sel, t) = 0 <=> Of(sel, t) = {}
           /\ \A o : Of(sel, t) = {o} => TaskSelected(sel, t) = 1
           /\ TaskSelected(sel, t) <= 1 <=> \A x, y \in Of(sel, t) : x = y
<1>1. IsFiniteSet(sel)
  BY OptionsFinite, FS_Subset
<1>2. PICK S : S = Of(sel, t)
  OBVIOUS
<1>3. IsFiniteSet(S) /\ Cardinality(S) \in Nat
  BY <1>1, <1>2, FS_Subset, FS_CardinalityType DEF Of
<1>4. Cardinality(S) = 0 <=> S = {}
  BY <1>3, FS_EmptySet
<1>5. \A o : S = {o} => Cardinality(S) = 1
  BY FS_Singleton
<1>6. ASSUME Cardinality(S) <= 1, NEW x \in S, NEW y \in S PROVE x = y
  <2>1. Cardinality(S) = 1
    BY <1>3, <1>4, <1>6
  <2>2. IsFiniteSet(S \ {x}) /\ Cardinality(S \ {x}) = 0
    BY <1>3, <2>1, FS_RemoveElement
  <2>3. S \ {x} = {}
    BY <2>2, FS_EmptySet
  <2> QED
    BY <2>3
<1>7. ASSUME \A x, y \in S : x = y PROVE Cardinality(S) <= 1
  <2>1. CASE S = {}
    BY <1>4, <2>1
  <2>2. CASE S # {}
    <3>1. PICK o \in S : TRUE
      BY <2>2
    <3>2. S = {o}
      BY <1>7, <3>1
    <3> QED
      BY <1>5, <3>2
  <2> QED
    BY <2>1, <2>2
<1>8. TaskSelected(sel, t) = Cardinality(S)
  BY <1>2 DEF TaskSelected
<1> QED
  BY <1>2, <1>3, <1>4, <1>5, <1>6, <1>7, <1>8

(* The two sums of the mixed-integer rows. *)
MipStarts(bigM, sel, t) == SumOf([o \in Of(sel, t) |-> o.start - bigM])
MipEnds(sel, t) == SumOf([o \in Of(sel, t) |-> -o.end])

LEMMA TimesOfNone ==
    ASSUME NEW sel, NEW t, Of(sel, t) = {}, NEW bigM
    PROVE  /\ TaskStart(sel, t) = 0 /\ TaskEnd(sel, t) = 0
           /\ MipStarts(bigM, sel, t) = 0 /\ MipEnds(sel, t) = 0
<1>1. ASSUME NEW f, DOMAIN f = Of(sel, t) PROVE SumOf(f) = 0
  BY <1>1, SumOfNone
<1> QED
  BY <1>1 DEF TaskStart, TaskEnd, MipStarts, MipEnds

LEMMA TimesOfOne ==
    ASSUME NEW sel, NEW t, NEW x, Of(sel, t) = {x}, x.start \in Int, x.end \in Int,
           NEW bigM \in Int
    PROVE  /\ TaskStart(sel, t) = x.start /\ TaskEnd(sel, t) = x.end
           /\ MipStarts(bigM, sel, t) = x.start - bigM /\ MipEnds(sel, t) = -x.end
<1> DEFINE f1 == [o \in {x} |-> o.start]
           f2 == [o \in {x} |-> o.end]
           f3 == [o \in {x} |-> o.start - bigM]
           f4 == [o \in {x} |-> -o.end]
<1>1. /\ f1 \in [{x} -> Int] /\ f2 \in [{x} -> Int] /\ f3 \in [{x} -> Int] /\ f4 \in [{x} -> Int]
  OBVIOUS
<1>2. f1[x] = x.start /\ f2[x] = x.end /\ f3[x] = x.start - bigM /\ f4[x] = -x.end
  OBVIOUS
<1>3. /\ TaskStart(sel, t) = SumOf(f1) /\ TaskEnd(sel, t) = SumOf(f2)
      /\ MipStarts(bigM, sel, t) = SumOf(f3) /\ MipEnds(sel, t) = SumOf(f4)
  BY DEF TaskStart, TaskEnd, MipStarts, MipEnds
<1> HIDE DEF f1, f2, f3, f4
<1>4. SumOf(f1) = f1[x] /\ SumOf(f2) = f2[x] /\ SumOf(f3) = f3[x] /\ SumOf(f4) = f4[x]
  BY <1>1, SumOfOne
<1> QED
  BY <1>2, <1>3, <1>4

(* The mixed-integer row of two tasks adds up what they contribute. *)
LEMMA MipRowOfTwoTasks ==
    ASSUME NEW m, WellFormed(m), NEW sel \in SUBSET Options(m), NEW p, NEW t, p # t,
           \A x, y \in Of(sel, p) : x = y, \A x, y \in Of(sel, t) : x = y,
           NEW bigM \in Nat
    PROVE  MipDependencyRow(bigM, sel, p, t) <=>
             /\ TaskSelected(sel, t) - TaskSelected(sel, p) <= 0
             /\ MipStarts(bigM, sel, t) + MipEnds(sel, p) >= -bigM
<1> DEFINE S == Of(sel, t) \cup Of(sel, p)
           f == [o \in S |-> IF o.task = p THEN -1 ELSE 1]
           g == [o \in S |-> IF o.task = p THEN -o.end ELSE o.start - bigM]
<1>1. MipDependencyRow(bigM, sel, p, t) <=> SumOf(f) <= 0 /\ SumOf(g) >= -bigM
  BY DEF MipDependencyRow
<1>2. ASSUME NEW o \in S PROVE o.start \in Int /\ o.end \in Int
  BY <1>2, OptionShape DEF Places, Of
<1>3. f \in [S -> Int] /\ g \in [S -> Int]
  BY <1>2
<1>4. /\ \A o \in Of(sel, t) : f[o] = 1 /\ g[o] = o.start - bigM
      /\ \A o \in Of(sel, p) : f[o] = -1 /\ g[o] = -o.end
  BY DEF Of
<1>5. /\ TaskSelected(sel, t) \in Nat /\ TaskSelected(sel, p) \in Nat
      /\ \A u : Of(sel, u) = {} => TaskSelected(sel, u) = 0
      /\ \A u, o : Of(sel, u) = {o} => TaskSelected(sel, u) = 1
  BY SelectedFacts
<1>6. DOMAIN f = S /\ DOMAIN g = S
  OBVIOUS
<1> HIDE DEF f, g
<1>7. /\ SumOf(f) = TaskSelected(sel, t) - TaskSelected(sel, p)
      /\ SumOf(g) = MipStarts(bigM, sel, t) + MipEnds(sel, p)
  <2>1. CASE Of(sel, t) = {} /\ Of(sel, p) = {}
    <3>1. SumOf(f) = 0 /\ SumOf(g) = 0
      BY <1>6, <2>1, SumOfNone
    <3>2. MipStarts(bigM, sel, t) = 0 /\ MipEnds(sel, p) = 0
      BY <2>1, TimesOfNone
    <3> QED BY <1>5, <2>1, <3>1, <3>2
  <2>2. CASE Of(sel, t) # {} /\ Of(sel, p) = {}
    <3>1. PICK x \in Of(sel, t) : Of(sel, t) = {x}
      BY <2>2
    <3>2. S = {x} /\ x.start \in Int /\ x.end \in Int /\ bigM \in Int
      BY <1>2, <2>2, <3>1
    <3>3. SumOf(f) = f[x] /\ SumOf(g) = g[x]
      BY <1>3, <3>2, SumOfOne
    <3>4. MipStarts(bigM, sel, t) = x.start - bigM /\ MipEnds(sel, p) = 0
      BY <2>2, <3>1, <3>2, TimesOfOne, TimesOfNone
    <3>5. f[x] = 1 /\ g[x] = x.start - bigM
      BY <1>4
    <3>6. TaskSelected(sel, t) = 1 /\ TaskSelected(sel, p) = 0
      BY <1>5, <2>2, <3>1
    <3> QED BY <3>2, <3>3, <3>4, <3>5, <3>6
  <2>3. CASE Of(sel, t) = {} /\ Of(sel, p) # {}
    <3>1. PICK y \in Of(sel, p) : Of(sel, p) = {y}
      BY <2>3
    <3>2. S = {y} /\ y.start \in Int /\ y.end \in Int /\ bigM \in Int
      BY <1>2, <2>3, <3>1
    <3>3. SumOf(f) = f[y] /\ SumOf(g) = g[y]
      BY <1>3, <3>2, SumOfOne
    <3>4. MipStarts(bigM, sel, t) = 0 /\ MipEnds(sel, p) = -y.end
      BY <2>3, <3>1, <3>2, TimesOfOne, TimesOfNone
    <3>5. f[y] = -1 /\ g[y] = -y.end
      BY <1>4
    <3>6. TaskSelected(sel, t) = 0 /\ TaskSelected(sel, p) = 1
      BY <1>5, <2>3, <3>1
    <3> QED BY <3>2, <3>3, <3>4, <3>5, <3>6
  <2>4. CASE Of(sel, t) # {} /\ Of(sel, p) # {}
    <3>1. PICK x \in Of(sel, t) : Of(sel, t) = {x}
      BY <2>4
    <3>2. PICK y \in Of(sel, p) : Of(sel, p) = {y}
      BY <2>4
    <3>3. S = {x, y} /\ x # y
      BY <3>1, <3>2 DEF Of
    <3>4. /\ x.start \in Int /\ x.end \in Int /\ y.start \in Int /\ y.end \in Int
          /\ bigM \in Int
      BY <1>2, <3>3
    <3>5. SumOf(f) = f[x] + f[y] /\ SumOf(g) = g[x] + g[y]
      BY <1>3, <3>3, SumOfTwo
    <3>6. MipStarts(bigM, sel, t) = x.start - bigM /\ MipEnds(sel, p) = -y.end
      BY <3>1, <3>2, <3>4, TimesOfOne
    <3>7. f[x] = 1 /\ f[y] = -1 /\ g[x] = x.start - bigM /\ g[y] = -y.end
      BY <1>4
    <3>8. TaskSelected(sel, t) = 1 /\ TaskSelected(sel, p) = 1
      BY <1>5, <3>1, <3>2
    <3> QED BY <3>5, <3>6, <3>7, <3>8
  <2> QED BY <2>1, <2>2, <2>3, <2>4
<1> QED
  BY <1>1, <1>7

(* Both forms of a dependency row say that the task waits for the other,   *)
(* the mixed-integer one when there is another.                            *)
LEMMA DependencyRowMeaning ==
    ASSUME NEW m, WellFormed(m), NEW sel \in SUBSET Options(m), NEW p, NEW t,
           \A x, y \in Of(sel, p) : x = y, \A x, y \in Of(sel, t) : x = y,
           NEW bigM \in Nat, \A o \in sel : o.end <= bigM
    PROVE  LET met == \A x \in Of(sel, t) : \E y \in Of(sel, p) : y.end <= x.start
           IN  /\ CpSatDependencyRow(bigM, sel, p, t) <=> met
               /\ p # t => (MipDependencyRow(bigM, sel, p, t) <=> met)
<1> DEFINE met == \A x \in Of(sel, t) : \E y \in Of(sel, p) : y.end <= x.start
           St == TaskStart(sel, t)
           Ep == TaskEnd(sel, p)
           Mt == MipStarts(bigM, sel, t)
           Mp == MipEnds(sel, p)
           nt == TaskSelected(sel, t)
           np == TaskSelected(sel, p)
<1>1. /\ CpSatDependencyRow(bigM, sel, p, t) <=> nt <= np /\ St - Ep - bigM * nt >= -bigM
      /\ p # t => (MipDependencyRow(bigM, sel, p, t) <=> nt - np <= 0 /\ Mt + Mp >= -bigM)
  BY MipRowOfTwoTasks DEF CpSatDependencyRow
<1>2. ASSUME NEW o \in sel PROVE o.start \in Nat /\ o.end \in Nat /\ o.end <= bigM
  BY OptionShape DEF Places
<1>3. \A u : Of(sel, u) \subseteq sel
  BY DEF Of
<1>4. CASE Of(sel, t) = {}
  <2>1. nt = 0 /\ St = 0 /\ Mt = 0
    BY <1>4, SelectedFacts, TimesOfNone
  <2>2. np \in Nat
    BY SelectedFacts
  <2>3. \E e \in Nat : e <= bigM /\ Ep = e /\ Mp = -e
    <3>1. CASE Of(sel, p) = {}
      BY <3>1, TimesOfNone
    <3>2. CASE Of(sel, p) # {}
      <4>1. PICK y \in Of(sel, p) : Of(sel, p) = {y}
        BY <3>2
      <4>2. y.start \in Int /\ y.end \in Nat /\ y.end \in Int /\ y.end <= bigM /\ bigM \in Int
        BY <1>2, <1>3
      <4>3. Ep = y.end /\ Mp = -y.end
        BY <4>1, <4>2, TimesOfOne
      <4> QED BY <4>2, <4>3
    <3> QED BY <3>1, <3>2
  <2>4. met
    BY <1>4
  <2> HIDE DEF met, St, Ep, Mt, Mp, nt, np
  <2>5. PICK e \in Nat : e <= bigM /\ Ep = e /\ Mp = -e
    BY <2>3
  <2>6. nt <= np /\ nt - np <= 0
    BY <2>1, <2>2
  <2>7. St - Ep - bigM * nt >= -bigM
    BY <2>1, <2>5
  <2>8. Mt + Mp >= -bigM
    BY <2>1, <2>5
  <2>9. /\ CpSatDependencyRow(bigM, sel, p, t) <=> met
        /\ p # t => (MipDependencyRow(bigM, sel, p, t) <=> met)
    BY <1>1, <2>4, <2>6, <2>7, <2>8
  <2> QED BY <2>9 DEF met
<1>5. CASE Of(sel, t) # {}
  <2>1. PICK x \in Of(sel, t) : Of(sel, t) = {x}
    BY <1>5
  <2>2. x.start \in Nat /\ x.start \in Int /\ x.end \in Int /\ bigM \in Int
    BY <1>2, <1>3
  <2>3. nt = 1 /\ St = x.start /\ Mt = x.start - bigM
    <3>1. nt = 1
      BY <2>1, SelectedFacts
    <3>2. St = x.start /\ Mt = x.start - bigM
      BY <2>1, <2>2, TimesOfOne
    <3> QED BY <3>1, <3>2
  <2>4. CASE Of(sel, p) = {}
    <3>1. np = 0
      BY <2>4, SelectedFacts
    <3>2. ~met
      BY <2>1, <2>4
    <3> HIDE DEF met, St, Ep, Mt, Mp, nt, np
    <3>3. ~(nt <= np) /\ ~(nt - np <= 0)
      BY <2>3, <3>1
    <3>4. /\ CpSatDependencyRow(bigM, sel, p, t) <=> met
          /\ p # t => (MipDependencyRow(bigM, sel, p, t) <=> met)
      BY <1>1, <3>2, <3>3
    <3> QED BY <3>4 DEF met
  <2>5. CASE Of(sel, p) # {}
    <3>1. PICK y \in Of(sel, p) : Of(sel, p) = {y}
      BY <2>5
    <3>2. y.start \in Int /\ y.end \in Nat /\ y.end \in Int
      BY <1>2, <1>3
    <3>3. np = 1 /\ Ep = y.end /\ Mp = -y.end
      <4>1. np = 1
        BY <3>1, SelectedFacts
      <4>2. Ep = y.end /\ Mp = -y.end
        BY <2>2, <3>1, <3>2, TimesOfOne
      <4> QED BY <4>1, <4>2
    <3>4. met <=> y.end <= x.start
      BY <2>1, <3>1
    <3> HIDE DEF met, St, Ep, Mt, Mp, nt, np
    <3>5. nt <= np /\ nt - np <= 0
      BY <2>3, <3>3
    <3>6. St - Ep - bigM * nt >= -bigM <=> y.end <= x.start
      BY <2>2, <2>3, <3>2, <3>3
    <3>7. Mt + Mp >= -bigM <=> y.end <= x.start
      BY <2>2, <2>3, <3>2, <3>3
    <3>8. /\ CpSatDependencyRow(bigM, sel, p, t) <=> met
          /\ p # t => (MipDependencyRow(bigM, sel, p, t) <=> met)
      BY <1>1, <3>4, <3>5, <3>6, <3>7
    <3> QED BY <3>8 DEF met
  <2> QED
    BY <2>4, <2>5
<1> QED
  BY <1>4, <1>5
(* The selection rows: one option of a task, and of a required task one. *)
LEMMA SelectionRowsMeaning ==
    ASSUME NEW m, WellFormed(m), NEW options, NEW sel \in SUBSET Options(m)
    PROVE  (\A t \in DOMAIN m.tasks : SelectionRow(m, options, sel, t)) <=>
             /\ \A p, q \in sel : p.task = q.task => p = q
             /\ \A t \in DOMAIN m.tasks : Required(m, options, t) => \E p \in sel : p.task = t
<1>1. ASSUME NEW t
      PROVE  SelectionRow(m, options, sel, t) <=>
               /\ \A x, y \in Of(sel, t) : x = y
               /\ Required(m, options, t) => Of(sel, t) # {}
  <2>1. /\ TaskSelected(sel, t) \in Nat
        /\ TaskSelected(sel, t) = 0 <=> Of(sel, t) = {}
        /\ TaskSelected(sel, t) <= 1 <=> \A x, y \in Of(sel, t) : x = y
    BY SelectedFacts
  <2>2. PICK n \in Nat : n = TaskSelected(sel, t)
    BY <2>1
  <2>3. SelectionRow(m, options, sel, t) <=> n <= 1 /\ (Required(m, options, t) => n # 0)
    BY <2>2 DEF SelectionRow
  <2> QED
    BY <2>1, <2>2, <2>3
<1>2. \A p \in sel : p.task \in DOMAIN m.tasks
  BY OptionShape
<1>3. \A t : \A x : x \in Of(sel, t) <=> x \in sel /\ x.task = t
  BY DEF Of
<1> QED
  BY <1>1, <1>2, <1>3

(* The exclusion rows, which list a pair once whichever side names it. *)
LEMMA MutexRowsMeaning ==
    ASSUME NEW m, WellFormed(m), NEW sel \in SUBSET Options(m),
           \A p, q \in sel : p.task = q.task => p = q
    PROVE  (\A r \in MutexRows(m) : MutexRow(sel, r[1], r[2])) <=>
             \A p, q \in sel : q.task \in m.tasks[p.task].mutex => p = q
<1>1. ASSUME NEW t PROVE \/ Of(sel, t) = {} /\ TaskSelected(sel, t) = 0
                         \/ Of(sel, t) # {} /\ TaskSelected(sel, t) = 1
  <2>1. \A x, y \in Of(sel, t) : x = y
    BY DEF Of
  <2>2. TaskSelected(sel, t) \in Nat /\ TaskSelected(sel, t) <= 1
        /\ (TaskSelected(sel, t) = 0 <=> Of(sel, t) = {})
    BY <2>1, SelectedFacts
  <2> QED
    BY <2>2
<1>2. ASSUME NEW t, NEW u PROVE MutexRow(sel, t, u) <=> (Of(sel, t) = {} \/ Of(sel, u) = {})
  BY <1>1 DEF MutexRow
<1>3. ASSUME NEW p \in sel PROVE p.task \in DOMAIN m.tasks /\ p.task \in Int
  BY OptionShape, TaskData
<1>4. ASSUME \A r \in MutexRows(m) : MutexRow(sel, r[1], r[2]),
             NEW p \in sel, NEW q \in sel, q.task \in m.tasks[p.task].mutex
      PROVE  p = q
  <2> SUFFICES ASSUME p.task # q.task PROVE FALSE
    OBVIOUS
  <2>1. Of(sel, p.task) # {} /\ Of(sel, q.task) # {}
    BY DEF Of
  <2>2. PICK t \in DOMAIN m.tasks, u \in DOMAIN m.tasks :
           /\ t < u /\ (u \in m.tasks[t].mutex \/ t \in m.tasks[u].mutex)
           /\ Of(sel, t) # {} /\ Of(sel, u) # {}
    <3>1. p.task < q.task \/ q.task < p.task
      BY <1>3
    <3> QED
      BY <1>3, <1>4, <2>1, <3>1
  <2>3. <<t, u>> \in MutexRows(m)
    BY <2>2 DEF MutexRows
  <2>4. MutexRow(sel, t, u)
    BY <1>4, <2>3
  <2> QED
    BY <1>2, <2>2, <2>4
<1>5. ASSUME \A p, q \in sel : q.task \in m.tasks[p.task].mutex => p = q,
             NEW r \in MutexRows(m)
      PROVE  MutexRow(sel, r[1], r[2])
  <2>1. /\ r[1] \in DOMAIN m.tasks /\ r[2] \in DOMAIN m.tasks /\ r[1] < r[2]
        /\ r[2] \in m.tasks[r[1]].mutex \/ r[1] \in m.tasks[r[2]].mutex
    BY DEF MutexRows
  <2>2. PICK t \in DOMAIN m.tasks, u \in DOMAIN m.tasks : t = r[1] /\ u = r[2]
    BY <2>1
  <2>3. t # u
    BY <2>1, <2>2, TaskData
  <2> SUFFICES ASSUME Of(sel, t) # {}, Of(sel, u) # {} PROVE FALSE
    BY <1>2, <2>2
  <2>4. PICK p \in sel : p.task = t
    BY DEF Of
  <2>5. PICK q \in sel : q.task = u
    BY DEF Of
  <2> QED
    BY <1>5, <2>1, <2>2, <2>3, <2>4, <2>5
<1> QED
  BY <1>4, <1>5

(* The capacity rows: an actor and instant no selected option uses asks    *)
(* nothing, and some option fits there, so its capacity is not negative.   *)
LEMMA CapacityRowsMeaning ==
    ASSUME NEW m, WellFormed(m), NEW sel \in SUBSET Options(m)
    PROVE  (\A slot \in UNION {SlotsOf(o) : o \in Options(m)} : CapacityRow(m, sel, slot)) <=>
             \A p \in sel : \A i \in p.start..(p.end - 1) :
                 SumOf([q \in {r \in sel : /\ r.actor = p.actor
                                           /\ r.start <= i /\ i < r.end}
                          |-> m.tasks[q.task].demand])
                 <= m.actors[p.actor].capacity
<1> DEFINE load(a, i) == SumOf([q \in {r \in sel : r.actor = a /\ r.start <= i /\ i < r.end}
                                  |-> m.tasks[q.task].demand])
<1>1. ASSUME NEW o \in Options(m)
      PROVE  /\ o.start \in Nat /\ o.end \in Nat /\ o.actor \in DOMAIN m.actors
             /\ 0 <= m.actors[o.actor].capacity
  <2>1. o \in Places(m) /\ o.task \in DOMAIN m.tasks /\ Capable(m, o.task, o.actor)
    BY OptionShape
  <2>2. /\ o.actor \in DOMAIN m.actors /\ o.start \in Nat /\ o.end \in Nat
    BY <2>1 DEF Places
  <2>3. m.tasks[o.task].demand \in Nat /\ m.actors[o.actor].capacity \in Int
    BY <2>1, <2>2, TaskData DEF WellFormed
  <2>4. m.tasks[o.task].demand <= m.actors[o.actor].capacity
    BY <2>1 DEF Capable
  <2> QED
    BY <2>2, <2>3, <2>4
<1>2. ASSUME NEW o \in Options(m), NEW i \in Int, NEW a
      PROVE  <<a, i>> \in SlotsOf(o) <=> o.actor = a /\ o.start <= i /\ i < o.end
  BY <1>1 DEF SlotsOf
<1>3. ASSUME NEW a, NEW i \in Int
      PROVE  CapacityRow(m, sel, <<a, i>>) <=> load(a, i) <= m.actors[a].capacity
  <2>1. {x \in sel : <<a, i>> \in SlotsOf(x)} = {r \in sel : r.actor = a /\ r.start <= i /\ i < r.end}
    BY <1>2
  <2>2. <<a, i>>[1] = a
    OBVIOUS
  <2> QED
    BY <2>1, <2>2 DEF CapacityRow
<1>4. ASSUME NEW slot, NEW o \in Options(m), slot \in SlotsOf(o)
      PROVE  \E i \in Int : slot = <<o.actor, i>> /\ i \in o.start..(o.end - 1)
  BY <1>1, <1>4 DEF SlotsOf
<1> DEFINE Rows == \A slot \in UNION {SlotsOf(o) : o \in Options(m)} : CapacityRow(m, sel, slot)
           Fits == \A p \in sel : \A i \in p.start..(p.end - 1) :
                      load(p.actor, i) <= m.actors[p.actor].capacity
<1>5. ASSUME Rows PROVE Fits
  <2> SUFFICES ASSUME NEW p \in sel, NEW i \in p.start..(p.end - 1)
               PROVE  load(p.actor, i) <= m.actors[p.actor].capacity
    OBVIOUS
  <2>1. p \in Options(m) /\ i \in Int
    BY <1>1
  <2>2. <<p.actor, i>> \in SlotsOf(p)
    BY <1>1, <2>1 DEF SlotsOf
  <2>3. CapacityRow(m, sel, <<p.actor, i>>)
    BY <1>5, <2>1, <2>2
  <2> HIDE DEF load
  <2> QED
    BY <1>3, <2>1, <2>3
<1>6. ASSUME Fits PROVE Rows
  <2> SUFFICES ASSUME NEW o \in Options(m), NEW slot, slot \in SlotsOf(o)
               PROVE  CapacityRow(m, sel, slot)
    OBVIOUS
  <2>1. PICK i \in Int : slot = <<o.actor, i>>
    BY <1>4
  <2>2. CASE \E p \in sel : p.actor = o.actor /\ p.start <= i /\ i < p.end
    <3>1. PICK p \in sel : p.actor = o.actor /\ p.start <= i /\ i < p.end
      BY <2>2
    <3>2. i \in p.start..(p.end - 1)
      BY <1>1, <3>1
    <3> HIDE DEF load
    <3>3. load(o.actor, i) <= m.actors[o.actor].capacity
      BY <1>6, <3>1, <3>2
    <3> QED
      BY <1>3, <2>1, <3>3
  <2>3. CASE ~\E p \in sel : p.actor = o.actor /\ p.start <= i /\ i < p.end
    <3>1. {r \in sel : r.actor = o.actor /\ r.start <= i /\ i < r.end} = {}
      BY <2>3
    <3>2. load(o.actor, i) = 0
      BY <3>1, SumOfNone
    <3> HIDE DEF load
    <3> QED
      BY <1>1, <1>3, <2>1, <3>2
  <2> QED
    BY <2>2, <2>3
<1>7. Rows <=> Fits
  BY <1>5, <1>6
<1> QED
  BY <1>7

(* The horizon the big-M rows use is past the end of every option. *)
LEMMA HorizonFacts ==
    ASSUME NEW m, WellFormed(m), NEW bigM, bigM = Max({0} \cup {o.end : o \in Options(m)})
    PROVE  bigM \in Nat /\ \A o \in Options(m) : o.end <= bigM
<1> DEFINE ends == {o.end : o \in Options(m)}
           E == ends \cup {0}
           g == [o \in Options(m) |-> o.end]
<1>1. IsFiniteSet(ends)
  <2>1. g \in Surjection(Options(m), ends)
    BY DEF Surjection
  <2> QED BY <2>1, OptionsFinite, FS_Surjection
<1>2. ASSUME NEW o \in Options(m) PROVE o.end \in Nat
  BY OptionShape DEF Places
<1>3. E \in SUBSET Nat /\ E # {} /\ bigM = Max(E) /\ \A o \in Options(m) : o.end \in E
  <2>1. {0} \cup ends = E
    OBVIOUS
  <2> QED BY <1>2, <2>1
<1>4. IsFiniteSet(E)
  BY <1>1, FS_AddElement
<1> HIDE DEF E
<1>5. E \in SUBSET Int
  BY <1>3
<1> QED
  BY <1>3, <1>4, <1>5, MaxOfFinite
LEMMA RowsMeaning ==
    ASSUME WellFormed(model), form = Formulate(model), NEW sel \in SUBSET Options(model),
           backend = "commercial_mip" => SelfDependent = {}
    PROVE  RowsHold(sel) <=> (Compatible(sel) /\ Complete(sel))
<1>1. PICK bigM : bigM = Max({0} \cup {o.end : o \in Options(model)})
  OBVIOUS
<1>2. bigM \in Nat /\ \A o \in sel : o.end <= bigM
  BY <1>1, HorizonFacts
<1>3. /\ form.horizon = bigM
      /\ form.slots = UNION {SlotsOf(o) : o \in Options(model)}
      /\ form.dependencies = DependencyRows(model) /\ form.exclusions = MutexRows(model)
  BY <1>1 DEF Formulate
<1> DEFINE Select == \A t \in DOMAIN model.tasks : SelectionRow(model, ToOptions, sel, t)
           One == \A p, q \in sel : p.task = q.task => p = q
           Caps == \A slot \in UNION {SlotsOf(o) : o \in Options(model)} :
                      CapacityRow(model, sel, slot)
           Fits == \A p \in sel : \A i \in p.start..(p.end - 1) :
                     SumOf([q \in {r \in sel : /\ r.actor = p.actor
                                               /\ r.start <= i /\ i < r.end}
                              |-> model.tasks[q.task].demand])
                     <= model.actors[p.actor].capacity
           Cp == \A r \in DependencyRows(model) : CpSatDependencyRow(bigM, sel, r[1], r[2])
           Mip == \A r \in DependencyRows(model) : MipDependencyRow(bigM, sel, r[1], r[2])
           Deps == \A p \in sel : \A d \in model.tasks[p.task].deps \cap DOMAIN model.tasks :
                      \E q \in sel : q.task = d /\ q.end <= p.start
           Excl == \A r \in MutexRows(model) : MutexRow(sel, r[1], r[2])
           Mutex == \A p, q \in sel : q.task \in model.tasks[p.task].mutex => p = q
<1>4. RowsHold(sel) <=> /\ Select /\ Caps /\ Excl
                        /\ IF backend = "commercial_mip" THEN Mip ELSE Cp
  BY <1>3 DEF RowsHold, MipRowsHold, CpSatRowsHold
<1>5. Compatible(sel) <=> One /\ Mutex /\ Deps /\ Fits
  BY DEF Compatible
<1>6. Select <=> One /\ Complete(sel)
  BY SelectionRowsMeaning DEF Complete
<1>7. Caps <=> Fits
  BY CapacityRowsMeaning
<1>8. One => (Excl <=> Mutex)
  BY MutexRowsMeaning
<1>9. One => (Cp <=> Deps) /\ (backend = "commercial_mip" => (Mip <=> Deps))
  <2> SUFFICES ASSUME One PROVE (Cp <=> Deps) /\ (backend = "commercial_mip" => (Mip <=> Deps))
    OBVIOUS
  <2> DEFINE met(p, t) == \A x \in Of(sel, t) : \E y \in Of(sel, p) : y.end <= x.start
  <2>1. ASSUME NEW p, NEW t
        PROVE  /\ CpSatDependencyRow(bigM, sel, p, t) <=> met(p, t)
               /\ p # t => (MipDependencyRow(bigM, sel, p, t) <=> met(p, t))
    <3>1. (\A x, y \in Of(sel, p) : x = y) /\ (\A x, y \in Of(sel, t) : x = y)
      BY DEF Of
    <3> QED
      BY <1>2, <3>1, DependencyRowMeaning
  <2>2. (\A r \in DependencyRows(model) : met(r[1], r[2])) <=> Deps
    <3>1. ASSUME \A r \in DependencyRows(model) : met(r[1], r[2]),
                 NEW p \in sel, NEW d \in model.tasks[p.task].deps \cap DOMAIN model.tasks
          PROVE  \E q \in sel : q.task = d /\ q.end <= p.start
      <4>1. p.task \in DOMAIN model.tasks
        BY OptionShape
      <4>2. <<d, p.task>> \in DependencyRows(model)
        BY <4>1 DEF DependencyRows
      <4> HIDE DEF met
      <4>3. met(d, p.task)
        BY <3>1, <4>2
      <4> QED
        BY <4>3 DEF met, Of
    <3>2. ASSUME Deps, NEW r \in DependencyRows(model) PROVE met(r[1], r[2])
      <4>1. r[1] \in DOMAIN model.tasks /\ r[1] \in model.tasks[r[2]].deps
        BY DEF DependencyRows
      <4> SUFFICES ASSUME NEW x \in Of(sel, r[2]) PROVE \E y \in Of(sel, r[1]) : y.end <= x.start
        OBVIOUS
      <4>2. x \in sel /\ x.task = r[2]
        BY DEF Of
      <4>3. PICK y \in sel : y.task = r[1] /\ y.end <= x.start
        BY <3>2, <4>1, <4>2
      <4> QED
        BY <4>3 DEF Of
    <3> QED
      BY <3>1, <3>2
  <2>3. backend = "commercial_mip" => \A r \in DependencyRows(model) : r[1] # r[2]
    BY DEF DependencyRows, SelfDependent
  <2> HIDE DEF met, Deps
  <2> QED
    BY <2>1, <2>2, <2>3
<1> HIDE DEF Select, One, Caps, Fits, Cp, Mip, Deps, Excl, Mutex
<1> QED
  BY <1>4, <1>5, <1>6, <1>7, <1>8, <1>9

FormInv == InputInv /\ (phase = "solve" => form = Formulate(model))

(* The two solver formulations say what is meant, for every request: their *)
(* options are the allowed placements, and the linear rows accept exactly  *)
(* the complete schedules among the selections; those of the mixed-integer *)
(* backend when no task depends on itself.                                 *)
THEOREM RowsMeanSchedules == Spec => []RowsAreTheSchedules
<1>1. Init => FormInv
  BY DEF Init, FormInv, InputInv
<1>2. FormInv /\ [Next]_vars => FormInv'
  <2> SUFFICES ASSUME FormInv, [Next]_vars PROVE FormInv'
    OBVIOUS
  <2>1. UNCHANGED <<request, model>>
    BY DEF Next, ParseFails, Optimize, Prune, Leaf, Branch, SearchEnds, RejectModel,
           MipUnavailable, SolverFails, SolverOptimal, SolverSelects, Done, vars
  <2>2. InputInv'
    BY <2>1 DEF FormInv, InputInv
  <2>3. phase' = "solve" => form' = Formulate(model)
    <3>1. CASE Optimize
      BY <3>1 DEF Optimize, Finish
    <3>2. CASE ~Optimize
      <4>1. phase' = "done" \/ (phase' = phase /\ form' = form)
        BY <3>2 DEF Next, ParseFails, Prune, Leaf, Branch, SearchEnds, RejectModel, Finish,
               MipUnavailable, SolverFails, SolverOptimal, SolverSelects, Done, vars
      <4> QED
        BY <4>1 DEF FormInv
    <3> QED
      BY <3>1, <3>2
  <2> QED
    BY <2>1, <2>2, <2>3 DEF FormInv
<1>3. FormInv => RowsAreTheSchedules
  <2> SUFFICES ASSUME FormInv, phase = "solve"
               PROVE  /\ form.options = {p \in Placements : PlacementAllowed(p)}
                      /\ (backend = "commercial_mip" => SelfDependent = {}) =>
                            \A sel \in SUBSET form.options :
                               RowsHold(sel) <=> (Compatible(sel) /\ Complete(sel))
    BY DEF RowsAreTheSchedules
  <2>1. WellFormed(model) /\ form = Formulate(model)
    BY InputFacts DEF FormInv
  <2>2. form.options = Options(model)
    BY <2>1 DEF Formulate
  <2> QED
    BY <2>1, <2>2, OptionsAreAllowed, RowsMeaning
<1> QED
  BY <1>1, <1>2, <1>3, PTL DEF Spec
=============================================================================
