--------------------------- MODULE MCQueryPayment ---------------------------
(* Small instances of QueryPayment for TLC. *)
EXTENDS QueryPayment, TLC

CONSTANTS n1, n2, c1, c2
TwoNodes == <<n1, n2>>
CallSymmetry == Permutations(Call)
=============================================================================
