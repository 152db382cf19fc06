-------------------------- MODULE MCTxSubmission --------------------------
(* TxSubmission for TLC: the calls are interchangeable. *)
EXTENDS TxSubmission, TLC

CallSymmetry == Permutations(Calls)
=============================================================================
