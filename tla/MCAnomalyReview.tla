---------------------------- MODULE MCAnomalyReview ----------------------------
(***************************************************************************)
(* The instance of AnomalyReview and Reports for TLC.                      *)
(***************************************************************************)
EXTENDS Reports

=============================================================================
