-------------------------------- MODULE Sums --------------------------------
(* What a loop that adds up amounts returns: over a list in its order, and    *)
(* over the entries of a set in any order.                                    *)
EXTENDS Integers, Sequences, SequencesExt

SumSeq(s) ==
    LET sum[n \in 0..Len(s)] == IF n = 0 THEN 0 ELSE sum[n - 1] + s[n] IN sum[Len(s)]

SumOf(f, S) == LET e == SetToSeq(S) IN SumSeq([k \in DOMAIN e |-> f[e[k]]])
=============================================================================
