---------------------------- MODULE MCInstances -----------------------------
(***************************************************************************)
(* Workflows for TLC.  The small one keeps any-caller runs finite; the     *)
(* rich one has dependencies, a mutex, a sub-process and actors that       *)
(* differ in capacity and windows.                                         *)
(***************************************************************************)
EXTENDS Integers

Always == {[start |-> 0, end |-> 6]}
None == [x \in {} |-> 0]
DefaultProfile == <<"completion", "preferred", "distance", "load">>
DefaultProfiles == {DefaultProfile}

-----------------------------------------------------------------------------
(* Small: two phases of one task each, task 2 needs two units. *)
SmallProcessOf == [t \in {1, 2} |-> t]
SmallPhaseOf == [p \in {1, 2} |-> p]
SmallPhaseDeps == [ph \in {1, 2} |-> IF ph = 2 THEN {1} ELSE {}]
SmallDemand == [p \in {1, 2} |-> p]
SmallOnes == [p \in {1, 2} |-> 1]
SmallZeros == [p \in {1, 2} |-> 0]
SmallNoTasks == [p \in {1, 2} |-> {}]
SmallDeps == [p \in {1, 2} |-> IF p = 2 THEN {1} ELSE {}]
SmallAllowed == [p \in {1, 2} |-> {1, 2}]
SmallPreferred == [p \in {1, 2} |-> {p}]
SmallDistances == [p \in {1, 2} |-> None]
SmallCapacity == [a \in {1, 2} |-> 2]
SmallCost == [a \in {1, 2} |-> a]
SmallWindows == [a \in {1, 2} |-> Always]

-----------------------------------------------------------------------------
(* Tight: tasks 1 and 2 share the one unit of actor 1; task 3, in a second *)
(* phase, runs on either actor.                                            *)
TightProcessOf == [t \in 1..3 |-> t]
TightPhaseOf == [p \in 1..3 |-> IF p = 3 THEN 2 ELSE 1]
TightOnes == [p \in 1..3 |-> 1]
TightZeros == [p \in 1..3 |-> 0]
TightNoTasks == [p \in 1..3 |-> {}]
TightAllowed == [p \in 1..3 |-> IF p = 3 THEN {1, 2} ELSE {1}]
TightDistances == [p \in 1..3 |-> None]
TightCapacity == [a \in {1, 2} |-> 1]

-----------------------------------------------------------------------------
(***************************************************************************)
(* Rich: process 1 has sub-process 4; 1 and 2 exclude each other; process  *)
(* 3 is in a second phase and needs two units; actor 1 has one unit and a  *)
(* gap between its windows, actor 2 has two.                               *)
(***************************************************************************)
RichProcessOf == [t \in 1..4 |-> IF t = 4 THEN 1 ELSE t]
RichPhaseOf == [p \in 1..3 |-> IF p = 3 THEN 2 ELSE 1]
RichPhaseDeps == [ph \in 1..2 |-> IF ph = 2 THEN {1} ELSE {}]
RichDuration == [p \in 1..3 |-> IF p = 2 THEN 2 ELSE 1]
RichPriority == [p \in 1..3 |-> 0]
RichDemand == [p \in 1..3 |-> IF p = 3 THEN 2 ELSE 1]
RichRelease == [p \in 1..3 |-> 0]
RichDeadline == [p \in {2} |-> 6]
RichLatest == [p \in {2} |-> 4]
RichDeps == [p \in 1..3 |-> IF p = 3 THEN {4} ELSE {}]
RichMutex == [p \in 1..3 |-> IF p = 1 THEN {2} ELSE IF p = 2 THEN {1, 4} ELSE {}]
NoMutex == [p \in 1..3 |-> {}]
RichAllowed == [p \in 1..3 |-> IF p = 1 THEN {1} ELSE {1, 2}]
RichPreferred == [p \in 1..3 |-> IF p = 2 THEN {2} ELSE {}]
RichDistances == [p \in 1..3 |-> IF p = 1 THEN [a \in {1} |-> 2] ELSE None]
RichCapacity == [a \in 1..2 |-> a]
RichCost == [a \in 1..2 |-> 3 - a]
RichWindows ==
    [a \in 1..2 |-> IF a = 1 THEN {[start |-> 0, end |-> 1], [start |-> 2, end |-> 8]}
                    ELSE {[start |-> 0, end |-> 8]}]
RichProfiles == {DefaultProfile}
AllCriteria == <<"preferred", "utilisation", "start", "cost", "distance", "load">>
AllProfiles == {DefaultProfile, AllCriteria}

-----------------------------------------------------------------------------
(***************************************************************************)
(* Wide: Rich with process 5 in the first phase, after task 1.             *)
(***************************************************************************)
Widen(f, v) == [p \in {1, 2, 3, 5} |-> IF p = 5 THEN v ELSE f[p]]
WideProcessOf == [t \in 1..5 |-> IF t = 4 THEN 1 ELSE t]
WidePhaseOf == Widen(RichPhaseOf, 1)
WideDuration == Widen(RichDuration, 1)
WidePriority == Widen(RichPriority, 0)
WideDemand == Widen(RichDemand, 1)
WideRelease == Widen(RichRelease, 0)
WideDeps == Widen(RichDeps, {1})
WideMutex == Widen(RichMutex, {})
WideAllowed == Widen(RichAllowed, {2})
WidePreferred == Widen(RichPreferred, {})
WideDistances == Widen(RichDistances, None)
=============================================================================
