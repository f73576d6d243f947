--------------------------- MODULE MCApplication ---------------------------
(***************************************************************************)
(* Instance of Application: two stored workflows, three connections, and   *)
(* the loads whose requests can get in each other's way.                   *)
(***************************************************************************)
EXTENDS Application, TLC

CONSTANTS c1, c2, c3

\* Ids that a target takes as they are, and one that it does not.
MCEncode(id) == IF id = "w 3" THEN "w%203" ELSE id

\* Requests that must change nothing.
Garbled == [garbled |-> TRUE, wf |-> "", task |-> ""]
Mismatched == Post(OnTask("w1", "t2"), Body("w2", ""), Nothing)
Unparsable == Post(OnTasks("w1"), Garbled, Nothing)
Unknown == Post(OnWorkflow("w1", "rename"), Body("", ""), Nothing)
Nameless == Post(Path("operator", <<"workflows", "tasks">>, "none"), Body("", "t1"), Nothing)
WrongMethod == Get(Path("submit", << >>, "none"), "")
Broken == [Dashboard("") EXCEPT !.method = "garbled"]

Load(size, tls, control, calm, requests) ==
    [pool |-> size, tls |-> tls, control |-> control, calm |-> calm, request |-> requests]

MCThreads == {c1, c2, c3}
Calm(size, requests) == Load(size, FALSE, TRUE, TRUE, requests)

\* A stream among edits of two workflows; streams that follow the first
\* workflow; edits of one workflow that overlap; streams that hold the pool.
Edits ==
    { Calm(3, c1 :> DashboardStream("w1") @@ c2 :> CancelWorkflow("w1")
                 @@ c3 :> ManualIntervention("w2")),
      Calm(2, c1 :> DashboardStream("w1") @@ c2 :> DeleteTask("w1", "t2")),
      Calm(2, c1 :> DashboardStream("") @@ c2 :> UpsertWorkflow("w2")),
      Calm(3, c1 :> DashboardStream("") @@ c2 :> CancelWorkflow("w1")
                 @@ c3 :> PauseWorkflow("w2")),
      Calm(1, c1 :> UpsertTask("w1", "t1") @@ c2 :> DeleteTask("w1", "t2")),
      Calm(2, c1 :> UpsertTask("w1", "t1") @@ c2 :> PauseWorkflow("w1")),
      Calm(2, c1 :> DashboardStream("w1") @@ c2 :> DashboardStream("w2") @@ c3 :> UpsertTask("w1", "t1")),
      Calm(2, c1 :> PauseWorkflow("w1") @@ c2 :> ResumeWorkflow("w1")),
      Calm(1, c1 :> CancelWorkflow("w1") @@ c2 :> ManualIntervention("w1")),
      Calm(2, c1 :> SubmitWorkflow("w 3") @@ c2 :> Reorchestrate("w1")),
      Calm(2, c1 :> Mismatched @@ c2 :> Unparsable @@ c3 :> DeleteTask("w 3", "t2")),
      Calm(2, c1 :> Unknown @@ c2 :> Nameless @@ c3 :> WrongMethod) }

\* Clients that are slow or leave, and a service that is stopped.
Stops ==
    { Load(2, FALSE, TRUE, FALSE, c1 :> DashboardStream("w1") @@ c2 :> PauseWorkflow("w1")),
      Load(1, TRUE, TRUE, FALSE, c1 :> DashboardStream("w1") @@ c2 :> Broken),
      Load(1, TRUE, TRUE, FALSE, c1 :> Dashboard("w1") @@ c2 :> PauseWorkflow("w1")),
      Load(2, FALSE, FALSE, FALSE, c1 :> DashboardStream("w1") @@ c2 :> SubmitWorkflow("w 3")) }

MCScripts == Edits \cup Stops

ASSUME LoadsAssumption == GenuineLoads /\ SubmittedUnaudited
=============================================================================
