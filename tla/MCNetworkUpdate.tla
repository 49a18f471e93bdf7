-------------------------- MODULE MCNetworkUpdate ---------------------------
(* A small instance of NetworkUpdate for TLC. *)
EXTENDS NetworkUpdate

CONSTANTS h1, h2, q1, q2
=============================================================================
