------------------------- MODULE MCContractCreateFlow -------------------------
(* A small instance of ContractCreateFlow for TLC. *)
EXTENDS ContractCreateFlow, TLC

CallSymmetry == Permutations(Call)
=============================================================================
