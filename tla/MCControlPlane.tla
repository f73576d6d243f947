--------------------------- MODULE MCControlPlane ---------------------------
(* Requests and starts for model checking the control plane. *)
EXTENDS ControlPlane, TLC

CONSTANTS t1, t2, k1, k2

\* Handlers are interchangeable.
HandlerSymmetry == Permutations(Handlers)

TwoTasks == {t1, t2}

Submit(key, replace) == [op |-> "submit", key |-> key, replace |-> replace]

Reorchestrate(key, expected, completed, trigger) ==
    [op |-> "reorchestrate", key |-> key, expected |-> expected, trigger |-> trigger,
     overrides |-> [i \in 1..Len(completed) |-> EventOf("completed", {completed[i]})]]

Tuning == [op |-> "reorchestrate", key |-> NoKey, expected |-> AnyVersion, trigger |-> TRUE,
           overrides |-> <<EventOf("override", {})>>]

Manual(key, expected, completed) ==
    [Reorchestrate(key, expected, completed, TRUE) EXCEPT !.op = "manual"]

Operator(op) == [op |-> op, key |-> NoKey]

\* Everything a client may ask for, a submission always to replace what is stored.
ClientRequests ==
    {Submit(NoKey, "yes"), Reorchestrate(NoKey, AnyVersion, <<t1>>, TRUE),
     Reorchestrate(k2, 1, <<t2, t1>>, TRUE), Manual(NoKey, 1, <<t2>>), Tuning,
     Operator("pause"), Operator("resume"), Operator("cancel")}

\* Clients that retry under a key or under the version they know.
RetriedRequests ==
    {Submit(k1, "yes"), Reorchestrate(k2, AnyVersion, <<t1>>, TRUE), Manual(k2, AnyVersion, <<t1>>),
     Reorchestrate(NoKey, 1, <<t1>>, TRUE), Tuning}

\* Submissions that continue the record or start it afresh, and interventions.
MixedRequests ==
    {Submit(k1, "yes"), Submit(NoKey, "no"), Manual(k2, AnyVersion, <<t1>>)}

\* A client that marks a task completed, and one that asks for another plan.
ForgettingRequests ==
    {Submit(NoKey, "yes"), Reorchestrate(NoKey, AnyVersion, <<t1>>, TRUE), Tuning}

\* A client that re-orchestrates while the operator pauses.
HoldingRequests ==
    {Submit(NoKey, "yes"), Reorchestrate(NoKey, AnyVersion, <<t1>>, TRUE), Operator("pause")}

Way(reboot, prune, recover) == [reboot |-> reboot, prune |-> prune, recover |-> recover]

AllStarts == [reboot : BOOLEAN, prune : BOOLEAN, recover : BOOLEAN]
KeepingStarts == {Way(FALSE, FALSE, TRUE), Way(FALSE, FALSE, FALSE)}
RecoveringStart == {Way(FALSE, FALSE, TRUE)}
=============================================================================
