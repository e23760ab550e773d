---------------------------- MODULE MCSnapshotOps ----------------------------
(***************************************************************************)
(* Constants for model checking the snapshot scripts beside purchases.     *)
(***************************************************************************)
EXTENDS SnapshotOps, TLC

CONSTANTS r1, r2, r3, s1, s2, u1, k1, k2, k3, a1, m, p0

OwnerOne == (a1 :> u1) @@ (m :> NULL)
AgeOne == (a1 :> 1) @@ (m :> 2)
LimitOne == (a1 :> 2) @@ (m :> 0)
CurrencyOne == (a1 :> "USD") @@ (m :> "USD")

SessionSymmetry == Permutations(Requests) \cup Permutations(Scripts) \cup Permutations(Keys)
=============================================================================
