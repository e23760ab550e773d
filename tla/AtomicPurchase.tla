--------------------------- MODULE AtomicPurchase ---------------------------
(***************************************************************************)
(* What a purchase is to its caller: each user and key is decided at most  *)
(* once, in one indivisible step, and for good.  A purchase is approved    *)
(* from an ACTIVE account of the user in its currency, out of credit it    *)
(* really has, and declined only when one of these fails.                  *)
(***************************************************************************)
EXTENDS Integers

CONSTANTS Users, Keys, Accounts, Owner, CreditLimit, Currency, Amounts, Currencies,
          Statuses, NULL

VARIABLES
  outcome,    \* per user and key: NULL, or the decided purchase
  available,  \* credit left on each account
  status      \* the account's status

Slots == Users \X Keys

Purchases == [account_id : Accounts, currency : Currencies, amount_minor : Amounts,
              status : {"POSTED", "DECLINED"}]

Init ==
  /\ outcome = [k \in Slots |-> NULL]
  /\ available = CreditLimit
  /\ status = [a \in Accounts |-> "ACTIVE"]

Acceptable(p) ==
  /\ status[p.account_id] = "ACTIVE"
  /\ p.currency = Currency[p.account_id]
  /\ p.amount_minor <= available[p.account_id]

\* The step that decides k; the purchase it decides is outcome'[k].
Decide(k) ==
  /\ outcome[k] = NULL
  /\ LET p == outcome'[k] IN
       /\ p \in Purchases
       /\ Owner[p.account_id] = k[1]
       /\ p.status = IF Acceptable(p) THEN "POSTED" ELSE "DECLINED"
       /\ outcome' = [outcome EXCEPT ![k] = p]
       /\ available' = IF p.status = "POSTED"
                       THEN [available EXCEPT ![p.account_id] = @ - p.amount_minor]
                       ELSE available
  /\ UNCHANGED status

SetStatus(a) ==
  /\ status'[a] \in Statuses \ {status[a]}
  /\ status' = [status EXCEPT ![a] = status'[a]]
  /\ UNCHANGED <<outcome, available>>

Next ==
  \/ \E k \in Slots : Decide(k)
  \/ \E a \in Accounts : SetStatus(a)

Spec == Init /\ [][Next]_<<outcome, available, status>>

\* What the caller is owed whatever the implementation does inside.
CreditKept == \A a \in Accounts : available[a] >= 0
=============================================================================
