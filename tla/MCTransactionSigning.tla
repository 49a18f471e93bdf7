------------------------ MODULE MCTransactionSigning ------------------------
(* A small instance of TransactionSigning for TLC. *)
EXTENDS TransactionSigning

CONSTANTS n1, n2, k1, k2
TwoNodes == <<n1, n2>>
=============================================================================
