------------------------------- MODULE MCJobQueue -------------------------------
(***************************************************************************)
(* Instances of JobQueue for TLC.                                          *)
(***************************************************************************)
EXTENDS JobQueueInvariants

=============================================================================
