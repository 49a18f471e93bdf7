--------------------------- MODULE MCChannelCache ---------------------------
(* A small instance of ChannelCache for TLC. *)
EXTENDS ChannelCache, TLC

CONSTANTS n1, n2, a, b, c1, c2, c3, c4, g1, g2, g3, k1, k2

Symmetry ==
    Permutations({n1, n2}) \cup Permutations({c1, c2, c3, c4})
        \cup Permutations({g1, g2, g3}) \cup Permutations({k1, k2})
=============================================================================
