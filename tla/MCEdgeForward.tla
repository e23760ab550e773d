---------------------------- MODULE MCEdgeForward ----------------------------
(***************************************************************************)
(* Constants for model checking the edge's forwarding.                     *)
(***************************************************************************)
EXTENDS EdgeForward, TLC

CONSTANTS c1, c2, c3, c4

\* The farthest apart the clocks may be for a request that needs all of its timeout.
SkewEnds == {-Skew, TokenTTL - Timeout}

GetSymmetry == Permutations(Gets) \cup Permutations(Calls \ Gets)
=============================================================================
