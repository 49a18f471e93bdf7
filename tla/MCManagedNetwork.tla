-------------------------- MODULE MCManagedNetwork --------------------------
(* Small instances of ManagedNetwork for TLC. *)
EXTENDS ManagedNetwork, TLC

CONSTANTS A, B, h1, h2

PlainA1 == <<h1, PlainPort>> :> A
PlainB2 == <<h2, PlainPort>> :> B

\* Two nodes; one of them gone and its account moved to the other address.
TwoNodes == PlainA1 @@ PlainB2
MovedB1 == <<h1, PlainPort>> :> B
TwoOrMoved == {TwoNodes, MovedB1}
OneAndTwo == {TwoNodes, PlainA1}

Unlimited == -1
MCPort == {PlainPort, SecurePort}
ObjSymmetry == Permutations(Obj)
=============================================================================
