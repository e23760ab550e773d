----------------------------- MODULE MCPurchase -----------------------------
(***************************************************************************)
(* Constants for model checking the purchase path.                         *)
(***************************************************************************)
EXTENDS PurchaseRefinement, PurchaseClaims, TLC

CONSTANTS r1, r2, r3, u1, u2, k1, k2, a1, a2, m, p0

\* One buyer with one account; the merchant's account belongs to nobody's user.
OwnerOne == (a1 :> u1) @@ (m :> NULL)
AgeOne == (a1 :> 1) @@ (m :> 2)
LimitOne == (a1 :> 2) @@ (m :> 0)
CurrencyOne == (a1 :> "USD") @@ (m :> "USD")

\* A buyer with two accounts, the younger in another currency; the other buyer
\* purchases from the merchant's own account.
OwnerTwo == (a1 :> u1) @@ (a2 :> u1) @@ (m :> u2)
AgeTwo == (a1 :> 1) @@ (a2 :> 2) @@ (m :> 2)
LimitTwo == (a1 :> 1) @@ (a2 :> 2) @@ (m :> 1)
CurrencyTwo == (a1 :> "USD") @@ (a2 :> "EUR") @@ (m :> "USD")

RequestSymmetry == Permutations(Requests)
KeySymmetry == Permutations(Requests) \cup Permutations(Keys)
=============================================================================
