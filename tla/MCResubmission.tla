-------------------------- MODULE MCResubmission --------------------------
(* Resubmission for TLC. *)
EXTENDS Resubmission
=============================================================================
