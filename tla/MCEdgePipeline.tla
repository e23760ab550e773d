--------------------------- MODULE MCEdgePipeline ---------------------------
(***************************************************************************)
(* Constants for model checking the edge's chain of middlewares.           *)
(***************************************************************************)
EXTENDS EdgePipeline, TLC

CONSTANTS r1, r2, r3, k1, b1, b2, u1

Symmetry == Permutations(Protected) \cup Permutations(Keys) \cup Permutations(Bodies)
=============================================================================
