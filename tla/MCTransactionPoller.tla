-------------------------- MODULE MCTransactionPoller --------------------------
(* TransactionPoller for TLC. *)
EXTENDS TransactionPoller
=============================================================================
