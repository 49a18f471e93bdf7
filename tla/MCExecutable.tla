---------------------------- MODULE MCExecutable ----------------------------
(* Small instances of Executable for TLC. *)
EXTENDS Executable, TLC

CONSTANTS A, B, C, h1, h2, r1, r2

TwoNodes == (<<h1, PlainPort>> :> A) @@ (<<h2, PlainPort>> :> B)
OneNode == <<h1, PlainPort>> :> A
OnlyOne == {OneNode}

\* A request that names its nodes, the first of which the network does not
\* have, and one that leaves them to the client.
OneChooses == [r \in Request |-> IF r = r1 THEN <<C, A>> ELSE <<>>]

Unlimited == -1
MCPort == {PlainPort, SecurePort}
ObjSymmetry == Permutations(Obj)
=============================================================================
