----------------------- MODULE MCChunkedTransaction -----------------------
(* A small instance of ChunkedTransaction for TLC. *)
EXTENDS ChunkedTransaction

CONSTANTS n1, n2
TwoNodes == <<n1, n2>>
===========================================================================
