------------------------------ MODULE MCDriver ------------------------------
(***************************************************************************)
(* OrchestratorDriver on the workflows of MCInstances.                     *)
(***************************************************************************)
EXTENDS OrchestratorDriver, MCInstances
=============================================================================
