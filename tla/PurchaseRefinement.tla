------------------------- MODULE PurchaseRefinement -------------------------
(***************************************************************************)
(* The concurrent handler implements the atomic purchase.  A key's outcome *)
(* is its committed row; an account's available credit is what the credit  *)
(* check would compute from its snapshot.  Only COMMIT decides.            *)
(***************************************************************************)
EXTENDS PurchaseProperties

AbstractRow(t) == [account_id |-> t.account_id, currency |-> t.currency,
                   amount_minor |-> t.amount_minor, status |-> t.status]

RowsOf(k) == {t \in transactions : SameKey(t, k[1], k[2])}

OutcomeOf(k) == IF RowsOf(k) = {} THEN NULL
                ELSE AbstractRow(CHOOSE t \in RowsOf(k) : TRUE)

Atomic == INSTANCE AtomicPurchase WITH
            outcome <- [k \in Slots |-> OutcomeOf(k)],
            available <- [a \in Accounts |-> AvailableOn(a)]

\* Every step of the handlers, the database and their faults is one atomic
\* decision of one purchase, an operator's change of a status, or nothing at all.
ImplementsAtomicPurchase == Atomic!Spec
=============================================================================
