----------------------------- MODULE MCWebhooks -----------------------------
(* Webhooks for TLC: the calls of each kind are interchangeable. *)
EXTENDS Webhooks, TLC

CallSymmetry == Permutations(Sends) \cup Permutations(Checks)
=============================================================================
