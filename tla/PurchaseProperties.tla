------------------------- MODULE PurchaseProperties -------------------------
(***************************************************************************)
(* What POST /purchase promises.                                           *)
(***************************************************************************)
EXTENDS Purchase

Rows == [transaction_id : Requests, user_id : Users, account_id : Accounts,
         idempotency_key : Keys, currency : Currencies, amount_minor : Amounts,
         status : {"PENDING", "POSTED", "DECLINED"}]
Entries == [account_id : Accounts, transaction_id : Requests, entry_index : {0, 1},
            entry_type : {"DEBIT", "CREDIT"}, amount_minor : Amounts]

\* An absent row is no row.
ASSUME RowAssumption == NULL \notin Rows

Works == [open : BOOLEAN, txn : Rows \cup {NULL}, legs : SUBSET Entries,
          snap : [Accounts -> Int \cup {NULL}], share : SUBSET Accounts,
          excl : SUBSET Accounts, snaplock : SUBSET Accounts]

Labels == {"idle", "done", "dead"} \cup Live

AnswerStatuses == {"POSTED", "DECLINED", "FAILED", "PENDING", "ERROR"}
Answers == [code : Nat, status : AnswerStatuses, txn : Sessions \cup {NULL}]

DBTypeOK ==
  /\ status \in [Accounts -> Statuses]
  /\ transactions \subseteq Rows
  /\ ledger_entries \subseteq Entries
  /\ snapshots \in [Accounts -> Int \cup {NULL}]
  /\ work \in [Sessions -> Works]

StoreTypeOK ==
  /\ final \in [Slots -> Responses \cup {NULL, Corrupt}]
  /\ lock \in [Slots -> BOOLEAN]

HandlerTypeOK ==
  /\ pc \in [Requests -> Labels]
  /\ req \in [Requests -> Calls \cup {NULL}]
  /\ acct \in [Requests -> Accounts \cup {NULL}]
  /\ bal \in [Requests -> Int \cup {NULL}]
  /\ answer \in [Requests -> Answers \cup {NULL}]
  /\ faults \in 0..MaxFaults

Pools == Requests \cup {FirstPool}

PoolTypeOK ==
  /\ pool \in Pools \cup {NULL}
  /\ mine \in [Requests -> Pools \cup {NULL}]

\* The type of every variable, of the tables' rows and of a session's writes.
TypeOK == DBTypeOK /\ StoreTypeOK /\ HandlerTypeOK /\ PoolTypeOK

Rowed(t) == {row \in transactions : row.transaction_id = t}
LegsOf(t) == {e \in ledger_entries : e.transaction_id = t}

-----------------------------------------------------------------------------
(* The books.                                                              *)

\* No order of concurrent purchases spends more than the credit limit, counted
\* from the ledger itself (C7.2.4: "Concurrent purchases cannot both approve
\* using stale balance").
NoOverspend == \A a \in Accounts : CreditLimit[a] + LedgerBalance(a) >= 0

\* The snapshot the credit check reads equals the sum of the ledger for every
\* account that is not also the merchant's (C7.2.3: "snapshot matches ledger").
SnapshotMatchesLedger ==
  \A a \in Accounts \ {Merchant} :
    LedgerBalance(a) = IF snapshots[a] = NULL THEN 0 ELSE snapshots[a]

\* A committed transaction is decided; POSTED has its debit of the buyer and its
\* equal credit of the merchant, DECLINED has no ledger row, and no ledger row is
\* without its transaction: the PENDING of the INSERT never becomes visible.
DoubleEntry ==
  /\ \A e \in ledger_entries : Rowed(e.transaction_id) # {}
  /\ \A t \in transactions :
       \/ t.status = "DECLINED" /\ LegsOf(t.transaction_id) = {}
       \/ /\ t.status = "POSTED"
          /\ LegsOf(t.transaction_id) =
               {Leg(t.transaction_id, 0, "DEBIT", t.account_id),
                Leg(t.transaction_id, 1, "CREDIT", Merchant)}
          /\ req[t.transaction_id].amount = t.amount_minor

\* A user's key names at most one committed transaction, however often and
\* however concurrently the client retries it (hardening.sql A-4).
OneTransactionPerKey ==
  \A t, u \in transactions :
    t.user_id = u.user_id /\ t.idempotency_key = u.idempotency_key => t = u

\* A posting commits only while its account is ACTIVE: a suspension between the
\* choice of the account and its lock is noticed (C7.1.B-3: "No transaction POSTED").
ActiveAtPosting ==
  [][\A t \in transactions' \ transactions :
       t.status = "POSTED" => status[t.account_id] = "ACTIVE"]_vars

\* The balance a purchase decided from is still the account's balance when it
\* writes its legs and its new snapshot: nobody committed to it in between.
NoStaleApproval ==
  \A r \in Requests :
    pc[r] \in {"insert_ledger", "update_snap"} => bal[r] = Visible(r, acct[r])

AvailableOn(a) == CreditLimit[a] + (IF snapshots[a] = NULL THEN 0 ELSE snapshots[a])

\* The credit the next purchase would be checked against is never negative.
CreditNeverNegative == \A a \in Accounts : AvailableOn(a) >= 0

-----------------------------------------------------------------------------
(* Idempotency.                                                            *)

Holding == {"begin"} \cup (InTxn \ {"commit"}) \cup AfterTxn

\* Without faults the Redis lock is set exactly while one request of its user
\* and key is between taking and releasing it, although DEL does not check whose
\* lock it deletes.
LockHasOneHolder ==
  \A k \in Slots :
    Cardinality({r \in Requests : pc[r] \in Holding /\ slot(r) = k}) =
      IF lock[k] THEN 1 ELSE 0

Decided == {"POSTED", "DECLINED"}

\* The transaction a stored or sent response speaks of is committed with that
\* status, or is one whose handler has only to release its lock and commit.
Backed(response) ==
  response # NULL /\ response.status \in Decided =>
    \/ \E t \in transactions :
         t.transaction_id = response.txn /\ t.status = response.status
    \/ /\ pc[response.txn] \in {"del_lock", "commit"}
       /\ work[response.txn].txn.status = response.status

\* Without faults nobody is told POSTED or DECLINED of a purchase that is not,
\* though the response is published before COMMIT.
ResponsesBacked ==
  /\ \A k \in Slots : Backed(final[k])
  /\ \A r \in Requests : Backed(answer[r])

\* Two decided answers to one user's key, from whichever of its concurrent
\* retries, are the same decision about the same transaction.
AnswersAgree ==
  \A r, q \in Requests :
    /\ answer[r] # NULL /\ answer[r].status \in Decided
    /\ answer[q] # NULL /\ answer[q].status \in Decided
    /\ slot(r) = slot(q)
    => answer[r].status = answer[q].status /\ answer[r].txn = answer[q].txn

-----------------------------------------------------------------------------
(* The pool.                                                               *)

\* However the first requests race to create the pool, and whichever of them
\* fails to, a request past get_pool has a pool and the service keeps one
\* (db.py:20: "assert _pool is not None").
PoolIsKept ==
  \A r \in Requests : pc[r] \in Running => pool # NULL /\ mine[r] # NULL

-----------------------------------------------------------------------------
(* Progress, under FairSpec.                                               *)

\* Every request is answered (or dies with the service): row locks, the pools,
\* waits on an uncommitted duplicate and PostgreSQL deadlocks all resolve.
Answered == \A r \in Requests : pc[r] \in Live ~> pc[r] \in {"done", "dead"}

\* A key does not stay "in progress" (purchase.py:165: "so callers don't get
\* stuck in 409 forever").
LockReleased == \A k \in Slots : lock[k] ~> ~lock[k]

=============================================================================
