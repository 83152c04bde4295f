-------------------------- MODULE MCDatasetPipeline --------------------------
(***************************************************************************)
(* Instances of DatasetPipeline for TLC.                                   *)
(***************************************************************************)
EXTENDS DatasetPipelineInvariants

AllFaults == {"request", "worker", "workerCrash", "sync", "apiCrash"}

=============================================================================
