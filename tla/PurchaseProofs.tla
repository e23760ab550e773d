--------------------------- MODULE PurchaseProofs ---------------------------
(***************************************************************************)
(* The safety of POST /purchase, for any number of requests, users, keys,  *)
(* accounts and amounts, and any pool: a key names one transaction, a      *)
(* posting is decided and written under its locks, and the books balance,  *)
(* whatever fails; and the credit stays positive as long as no snapshot    *)
(* row is deleted.                                                         *)
(***************************************************************************)
EXTENDS PurchaseTypeProofs

\* Why the unique index suffices: the rows of open transactions have keys of
\* their own, so a COMMIT adds a key the table does not have.
KeyInv ==
  /\ OneTransactionPerKey
  /\ \A s \in Sessions, t \in transactions :
       ~SameKey(work[s].txn, t.user_id, t.idempotency_key)
  /\ \A s, q \in Sessions :
       s # q /\ work[s].txn # NULL
         => ~SameKey(work[q].txn, work[s].txn.user_id, work[s].txn.idempotency_key)

\* Who has written or locked a snapshot row is the only one, and the row is there.
SnapLockInv ==
  /\ \A s \in Sessions, a \in Accounts :
       work[s].snap[a] # NULL => a \in work[s].snaplock
  /\ \A s \in Sessions : \A a \in work[s].snaplock : Visible(s, a) # NULL
  /\ \A s, q \in Sessions : s # q => work[s].snaplock \cap work[q].snaplock = {}

\* Between the credit check and the new balance the request holds the row's lock,
\* the balance it decided from is the row's, and it covers the amount.
ApprovalInv ==
  \A r \in Requests :
    pc[r] \in {"insert_ledger", "update_snap"} =>
      /\ acct[r] \in work[r].snaplock
      /\ bal[r] = Visible(r, acct[r])
      /\ req[r].amount <= CreditLimit[acct[r]] + bal[r]

\* From the status check to COMMIT a request that will post holds the account's
\* lock, and the account is still ACTIVE.
WillPost(r) ==
  \/ pc[r] \in {"ensure_snap", "lock_snap", "heal_snap", "insert_ledger", "update_snap",
               "mark_posted"}
  \/ pc[r] \in {"set_final", "del_lock", "commit"} /\ work[r].txn.status = "POSTED"

ActiveInv ==
  \A r \in Requests :
    WillPost(r) => acct[r] \in work[r].excl /\ status[acct[r]] = "ACTIVE"

-----------------------------------------------------------------------------
(* What a handler's step does to the sessions' writes and locks.           *)

LEMMA SameTxn ==
  ASSUME CoreTypeOK, NEW r \in Requests, HandlerStep(r),
         ~Aborts(r), ~Ends(r), ~InsertsRow(r), ~Mark(r)
  PROVE  work'[r].txn = work[r].txn
  <1>a. r \in Sessions /\ work[r] \in Works /\ work \in [Sessions -> Works]
    BY RequestsAreSessions DEF CoreTypeOK, DBTypeOK
  <1> USE <1>a DEF Works
  <1>1. CASE Outside(r) BY <1>1 DEF Outside
  <1>2. CASE Begin(r) BY <1>2 DEF Begin, Open
  <1>3. CASE ChoosesAccount(r) BY <1>3 DEF ChoosesAccount
  <1>4. CASE FkAccount(r) BY <1>4 DEF FkAccount, ShareLock
  <1>5. CASE LockAccount(r) BY <1>5 DEF LockAccount, ExclLock
  <1>6. CASE EnsureSnap(r) BY <1>6 DEF EnsureSnap, EnsureSnapRow
  <1>7. CASE LocksSnap(r) BY <1>7 DEF LocksSnap, SnapLock
  <1>8. CASE InsertLedger(r) BY <1>8 DEF InsertLedger, WriteLegs
  <1>9. CASE UpdateSnap(r) BY <1>9 DEF UpdateSnap, WriteSnap
  <1>10. CASE Publishes(r) BY <1>10 DEF Publishes
  <1>11. CASE FindsNone(r) BY <1>11 DEF FindsNone
  <1>12. CASE Heals(r) BY <1>12 DEF Heals, WriteSnap
  <1> QED BY <1>1, <1>2, <1>3, <1>4, <1>5, <1>6, <1>7, <1>8, <1>9, <1>10, <1>11, <1>12
          DEF HandlerStep

LEMMA SameSnap ==
  ASSUME CoreTypeOK, NEW r \in Requests, HandlerStep(r),
         ~Aborts(r), ~Ends(r), ~EnsureSnap(r), ~LocksSnap(r), ~Heals(r), ~UpdateSnap(r)
  PROVE  work'[r].snap = work[r].snap /\ work'[r].snaplock = work[r].snaplock
  <1>a. r \in Sessions /\ work[r] \in Works /\ work \in [Sessions -> Works]
    BY RequestsAreSessions DEF CoreTypeOK, DBTypeOK
  <1> USE <1>a DEF Works
  <1>1. CASE Outside(r) BY <1>1 DEF Outside
  <1>2. CASE Begin(r) BY <1>2 DEF Begin, Open
  <1>3. CASE ChoosesAccount(r) BY <1>3 DEF ChoosesAccount
  <1>4. CASE InsertsRow(r) BY <1>4 DEF InsertsRow, WriteTxn
  <1>5. CASE FkAccount(r) BY <1>5 DEF FkAccount, ShareLock
  <1>6. CASE LockAccount(r) BY <1>6 DEF LockAccount, ExclLock
  <1>7. CASE InsertLedger(r) BY <1>7 DEF InsertLedger, WriteLegs
  <1>8. CASE Mark(r) BY <1>8 DEF Mark, SetTxnStatus
  <1>9. CASE Publishes(r) BY <1>9 DEF Publishes
  <1>10. CASE FindsNone(r) BY <1>10 DEF FindsNone
  <1> QED BY <1>1, <1>2, <1>3, <1>4, <1>5, <1>6, <1>7, <1>8, <1>9, <1>10 DEF HandlerStep

LEMMA ExclKept ==
  ASSUME CoreTypeOK, NEW r \in Requests, HandlerStep(r), ~Aborts(r), ~Ends(r)
  PROVE  work[r].excl \subseteq work'[r].excl
  <1>a. r \in Sessions /\ work[r] \in Works /\ work \in [Sessions -> Works]
    BY RequestsAreSessions DEF CoreTypeOK, DBTypeOK
  <1> USE <1>a DEF Works
  <1>1. CASE Outside(r) BY <1>1 DEF Outside
  <1>2. CASE Begin(r) BY <1>2 DEF Begin, Open
  <1>3. CASE ChoosesAccount(r) BY <1>3 DEF ChoosesAccount
  <1>4. CASE InsertsRow(r) BY <1>4 DEF InsertsRow, WriteTxn
  <1>5. CASE FkAccount(r) BY <1>5 DEF FkAccount, ShareLock
  <1>6. CASE LockAccount(r) BY <1>6 DEF LockAccount, ExclLock
  <1>7. CASE EnsureSnap(r) BY <1>7 DEF EnsureSnap, EnsureSnapRow
  <1>8. CASE LocksSnap(r) BY <1>8 DEF LocksSnap, SnapLock
  <1>9. CASE InsertLedger(r) BY <1>9 DEF InsertLedger, WriteLegs
  <1>10. CASE UpdateSnap(r) BY <1>10 DEF UpdateSnap, WriteSnap
  <1>11. CASE Mark(r) BY <1>11 DEF Mark, SetTxnStatus
  <1>12. CASE Publishes(r) BY <1>12 DEF Publishes
  <1>13. CASE FindsNone(r) BY <1>13 DEF FindsNone
  <1>14. CASE Heals(r) BY <1>14 DEF Heals, WriteSnap
  <1> QED BY <1>1, <1>2, <1>3, <1>4, <1>5, <1>6, <1>7, <1>8, <1>9, <1>10, <1>11, <1>12,
             <1>13, <1>14
          DEF HandlerStep

-----------------------------------------------------------------------------
(* One transaction per key.                                                *)

LEMMA KeyStep ==
  ASSUME TypeInv, KeyInv, NEW r \in Requests, HandlerStep(r)
  PROVE  KeyInv'
  <1>a. r \in Sessions /\ work[r] \in Works /\ work \in [Sessions -> Works]
        /\ transactions \subseteq Rows
    BY RequestsAreSessions DEF TypeInv, CoreTypeOK, DBTypeOK
  <1>b. \A s \in Sessions \ {r} : work'[s] = work[s] BY OtherSessions DEF TypeInv
  <1> USE DEF KeyInv, OneTransactionPerKey, SameKey
  <1>1. CASE Aborts(r)
    <2>1. work'[r].txn = NULL BY <1>1, Released DEF TypeInv, NoWork
    <2>2. UNCHANGED transactions BY <1>1 DEF Aborts, Abort, Rollback, tables
    <2> QED BY <1>a, <1>b, <2>1, <2>2
  <1>2. CASE Ends(r)
    <2>1. work'[r].txn = NULL BY <1>2, Released DEF TypeInv, NoWork
    <2>2. work[r].txn \in Rows /\ work[r].txn # NULL
      BY <1>2, RowAssumption DEF Ends, TypeInv, LocalInv, Inserted, Chosen, InTxn
    <2>3. transactions' = transactions \cup {work[r].txn} BY <1>2, <2>2 DEF Ends, Publish
    <2> QED BY <1>a, <1>b, <2>1, <2>2, <2>3
  <1>3. CASE InsertsRow(r)
    <2>1. UNCHANGED transactions BY <1>3 DEF InsertsRow, tables
    <2>2. work'[r].txn = NewRow(r) BY <1>3, <1>a DEF InsertsRow, WriteTxn, Works
    <2>3. NewRow(r).user_id = req[r].user /\ NewRow(r).idempotency_key = req[r].key
      BY DEF NewRow
    <2>4. \A t \in transactions : ~SameKey(t, req[r].user, req[r].key)
      BY <1>3 DEF InsertsRow, KeyTaken
    <2>5. \A s \in Sessions \ {r} : ~SameKey(work[s].txn, req[r].user, req[r].key)
      BY <1>3 DEF InsertsRow, KeyWaits, Others
    <2> QED BY <1>a, <1>b, <2>1, <2>2, <2>3, <2>4, <2>5, RowAssumption
  <1>4. CASE Mark(r)
    <2>1. work[r].txn \in Rows /\ work[r].txn # NULL
      BY <1>4, RowAssumption DEF Mark, TypeInv, LocalInv, Inserted, Chosen, InTxn
    <2>2. PICK st \in Decided : SetTxnStatus(r, st) BY <1>4 DEF Mark, Decided
    <2>3. work'[r].txn = [work[r].txn EXCEPT !.status = st]
      BY <1>a, <2>2 DEF SetTxnStatus, Works
    <2>4. /\ work'[r].txn.user_id = work[r].txn.user_id
          /\ work'[r].txn.idempotency_key = work[r].txn.idempotency_key
      BY <2>1, <2>3 DEF Rows
    <2>5. UNCHANGED transactions BY <1>4 DEF Mark, tables
    <2> QED BY <1>a, <1>b, <2>1, <2>4, <2>5
  <1>5. CASE ~Aborts(r) /\ ~Ends(r) /\ ~InsertsRow(r) /\ ~Mark(r)
    <2>1. work'[r].txn = work[r].txn BY <1>5, SameTxn DEF TypeInv
    <2>2. UNCHANGED transactions BY <1>5, TablesStay DEF tables
    <2> QED BY <1>a, <1>b, <2>1, <2>2
  <1> QED BY <1>1, <1>2, <1>3, <1>4, <1>5

-----------------------------------------------------------------------------
(* The snapshot rows and their locks.                                      *)

LEMMA ApprovedFacts ==
  ASSUME TypeInv, NEW r \in Requests, pc[r] \in {"lock_snap", "heal_snap", "insert_ledger", "update_snap"}
  PROVE  /\ acct[r] \in Accounts /\ req[r].amount \in Nat
         /\ CreditLimit[acct[r]] \in Nat
         /\ pc[r] \in {"insert_ledger", "update_snap"} => bal[r] \in Int
  <1>1. req[r] \in Calls /\ acct[r] \in Accounts
    BY DEF TypeInv, LocalInv, Chosen, Running, InTxn
  <1>2. req[r].amount \in Nat BY <1>1, PurchaseAssumption DEF Calls
  <1>3. pc[r] \in {"insert_ledger", "update_snap"} => bal[r] \in Int BY DEF TypeInv, LocalInv
  <1> QED BY <1>1, <1>2, <1>3, DBAssumption

LEMMA SnapLockStep ==
  ASSUME TypeInv, SnapLockInv, ApprovalInv, NEW r \in Requests, HandlerStep(r)
  PROVE  SnapLockInv'
  <1>a. r \in Sessions /\ work[r] \in Works /\ work \in [Sessions -> Works]
    BY RequestsAreSessions DEF TypeInv, CoreTypeOK, DBTypeOK
  <1>b. \A s \in Sessions \ {r} : work'[s] = work[s] BY OtherSessions DEF TypeInv
  <1>c. ~Ends(r) => UNCHANGED snapshots BY TablesStay DEF tables
  <1>d. \A s \in Sessions : work[s].snaplock \subseteq Accounts BY <1>a DEF Works
  <1> USE DEF SnapLockInv, Visible
  <1>1. CASE Aborts(r) \/ Ends(r)
    <2>1. work'[r].snaplock = {} /\ \A a \in Accounts : work'[r].snap[a] = NULL
      BY <1>1, Released DEF TypeInv, NoWork
    <2>2. \A a \in Accounts : snapshots[a] # NULL => snapshots'[a] # NULL
      BY SnapshotsStay DEF TypeInv
    <2> QED BY <1>a, <1>b, <1>d, <2>1, <2>2
  <1>2. CASE EnsureSnap(r)
    <2>1. acct[r] \in Accounts BY <1>2 DEF EnsureSnap, TypeInv, LocalInv, Chosen, InTxn
    <2>2. UNCHANGED snapshots BY <1>2 DEF EnsureSnap, tables
    <2>3. CASE Visible(r, acct[r]) # NULL
      <3>1. UNCHANGED work BY <1>2, <2>3 DEF EnsureSnap, EnsureSnapRow
      <3> QED BY <2>2, <3>1
    <2>4. CASE Visible(r, acct[r]) = NULL
      <3>1. /\ work'[r].snaplock = work[r].snaplock \cup {acct[r]}
            /\ work'[r].snap = [work[r].snap EXCEPT ![acct[r]] = 0]
        BY <1>2, <1>a, <2>4 DEF EnsureSnap, EnsureSnapRow, Works
      <3>2. \A s \in Sessions \ {r} : acct[r] \notin work[s].snaplock
        BY <1>2, <2>4 DEF EnsureSnap, SnapInsertWaits, Others
      <3>3. work[r].snap \in [Accounts -> Int \cup {NULL}] BY <1>a DEF Works
      <3> QED BY <1>a, <1>b, <1>d, <2>1, <2>2, <3>1, <3>2, <3>3, DBAssumption
    <2> QED BY <2>3, <2>4
  <1>3. CASE LocksSnap(r)
    <2>1. /\ acct[r] \in Accounts
          /\ Visible(r, acct[r]) # NULL
      BY <1>3 DEF LocksSnap, TypeInv, LocalInv, Chosen, InTxn
    <2>2. /\ work'[r].snaplock = work[r].snaplock \cup {acct[r]}
          /\ work'[r].snap = work[r].snap
      BY <1>3, <1>a, <2>1 DEF LocksSnap, SnapLock, Works
    <2>3. \A s \in Sessions \ {r} : acct[r] \notin work[s].snaplock
      <3>1. CASE snapshots[acct[r]] # NULL BY <1>3, <3>1 DEF LocksSnap, SnapWaits, Others
      <3>2. CASE snapshots[acct[r]] = NULL
        <4>1. acct[r] \in work[r].snaplock BY <1>a, <2>1, <3>2
        <4> QED BY <1>a, <2>1, <4>1
      <3> QED BY <3>1, <3>2
    <2>4. UNCHANGED snapshots BY <1>3 DEF LocksSnap, tables
    <2> QED BY <1>a, <1>b, <1>d, <2>1, <2>2, <2>3, <2>4
  <1>4. CASE UpdateSnap(r)
    <2>1. /\ acct[r] \in Accounts /\ acct[r] \in work[r].snaplock
          /\ bal[r] - req[r].amount \in Int
      BY <1>4, ApprovedFacts DEF UpdateSnap, ApprovalInv
    <2>2. /\ work'[r].snaplock = work[r].snaplock
          /\ work'[r].snap = [work[r].snap EXCEPT ![acct[r]] = bal[r] - req[r].amount]
      BY <1>4, <1>a, <2>1 DEF UpdateSnap, WriteSnap, Works
    <2>3. work[r].snap \in [Accounts -> Int \cup {NULL}] BY <1>a DEF Works
    <2>4. UNCHANGED snapshots BY <1>4 DEF UpdateSnap, tables
    <2> QED BY <1>a, <1>b, <1>d, <2>1, <2>2, <2>3, <2>4, DBAssumption
  <1>5. CASE Heals(r)
    <2>1. acct[r] \in Accounts /\ LedgerBalance(acct[r]) \in Int
      BY <1>5, BalanceType DEF Heals, TypeInv, CoreTypeOK, LocalInv, Chosen, InTxn
    <2>2. UNCHANGED snapshots BY <1>5 DEF Heals, tables
    <2>3. /\ work'[r].snaplock = work[r].snaplock \cup {acct[r]}
          /\ work'[r].snap = [work[r].snap EXCEPT ![acct[r]] = LedgerBalance(acct[r])]
      BY <1>5, <1>a DEF Heals, WriteSnap, Works
    <2>4. \A s \in Sessions \ {r} : acct[r] \notin work[s].snaplock
      BY <1>5 DEF Heals, SnapInsertWaits, Others
    <2>5. work[r].snap \in [Accounts -> Int \cup {NULL}] BY <1>a DEF Works
    <2> QED BY <1>a, <1>b, <1>d, <2>1, <2>2, <2>3, <2>4, <2>5, DBAssumption
  <1>6. CASE /\ ~Aborts(r) /\ ~Ends(r) /\ ~EnsureSnap(r) /\ ~LocksSnap(r) /\ ~Heals(r)
             /\ ~UpdateSnap(r)
    <2>1. work'[r].snap = work[r].snap /\ work'[r].snaplock = work[r].snaplock
      BY <1>6, SameSnap DEF TypeInv
    <2> QED BY <1>6, <1>a, <1>b, <1>c, <1>d, <2>1
  <1> QED BY <1>1, <1>2, <1>3, <1>4, <1>5, <1>6

LEMMA ApprovalStep ==
  ASSUME TypeInv, SnapLockInv, ApprovalInv, NEW r \in Requests, HandlerStep(r)
  PROVE  ApprovalInv'
  <1>a. r \in Sessions /\ work[r] \in Works /\ work \in [Sessions -> Works]
        /\ pc \in [Requests -> Labels] /\ bal \in [Requests -> Int \cup {NULL}]
    BY RequestsAreSessions DEF TypeInv, CoreTypeOK, DBTypeOK, HandlerTypeOK
  <1> DEFINE Approved(q) == /\ acct[q] \in work[q].snaplock
                            /\ bal[q] = Visible(q, acct[q])
                            /\ req[q].amount <= CreditLimit[acct[q]] + bal[q]
             After == {"insert_ledger", "update_snap"}
  <1>1. ASSUME NEW q \in Requests \ {r}, pc'[q] \in After PROVE Approved(q)'
    <2>1. Untouched(q) BY OthersUntouched DEF TypeInv
    <2>2. Approved(q) /\ acct[q] \in Accounts
      BY <1>1, <2>1, ApprovedFacts DEF ApprovalInv, Untouched
    <2>3. snapshots'[acct[q]] = snapshots[acct[q]]
      <3>1. CASE Ends(r)
        <4>1. acct[q] \notin work[r].snaplock
          BY <2>2, RequestsAreSessions DEF SnapLockInv
        <4>2. work[r].snap[acct[q]] = NULL BY <1>a, <2>2, <4>1 DEF SnapLockInv
        <4> QED BY <2>2, <3>1, <4>2 DEF Ends, Publish, Visible
      <3>2. CASE ~Ends(r) BY <3>2, TablesStay DEF tables
      <3> QED BY <3>1, <3>2
    <2> QED BY <2>1, <2>2, <2>3 DEF Untouched, Visible
  <1>2. pc'[r] \in After =>
          \/ InsertLedger(r)
          \/ pc'[r] = "insert_ledger" /\ (LocksSnap(r) \/ Heals(r))
    <2> USE <1>a DEF Goto
    <2>1. CASE Outside(r) BY <2>1 DEF Outside, InTxn
    <2>2. CASE Aborts(r) BY <2>2 DEF Aborts, Abort
    <2>3. CASE Ends(r) BY <2>3 DEF Ends
    <2>4. CASE Begin(r) BY <2>4 DEF Begin
    <2>5. CASE ChoosesAccount(r) BY <2>5 DEF ChoosesAccount
    <2>6. CASE InsertsRow(r) BY <2>6 DEF InsertsRow
    <2>7. CASE FkAccount(r) BY <2>7 DEF FkAccount
    <2>8. CASE LockAccount(r) BY <2>8 DEF LockAccount
    <2>9. CASE EnsureSnap(r) BY <2>9 DEF EnsureSnap
    <2>10. CASE LocksSnap(r) BY <2>10 DEF LocksSnap, Decide
    <2>15. CASE FindsNone(r) BY <2>15 DEF FindsNone
    <2>16. CASE Heals(r) BY <2>16 DEF Heals, Decide
    <2>11. CASE InsertLedger(r) BY <2>11 DEF InsertLedger
    <2>12. CASE UpdateSnap(r) BY <2>12 DEF UpdateSnap
    <2>13. CASE Mark(r) BY <2>13 DEF Mark
    <2>14. CASE Publishes(r) BY <2>14 DEF Publishes
    <2> QED BY <2>1, <2>2, <2>3, <2>4, <2>5, <2>6, <2>7, <2>8, <2>9, <2>10, <2>11, <2>12, <2>13, <2>14,
               <2>15, <2>16
            DEF HandlerStep
  <1>3. CASE InsertLedger(r)
    <2>1. work'[r].snap = work[r].snap /\ work'[r].snaplock = work[r].snaplock
      BY <1>3, <1>a DEF InsertLedger, WriteLegs, Works
    <2>2. Approved(r) BY <1>3 DEF InsertLedger, ApprovalInv
    <2>3. UNCHANGED <<req, acct, bal, snapshots>> BY <1>3 DEF InsertLedger, tables
    <2> QED BY <2>1, <2>2, <2>3, <1>1 DEF Visible, ApprovalInv
  <1>4. CASE pc'[r] = "insert_ledger" /\ LocksSnap(r)
    <2>1. acct[r] \in Accounts /\ req[r].amount \in Nat /\ CreditLimit[acct[r]] \in Nat
      BY <1>4, ApprovedFacts DEF LocksSnap
    <2>2. Visible(r, acct[r]) # NULL BY <1>4 DEF LocksSnap
    <2>3. Visible(r, acct[r]) \in Int
      BY <1>a, <2>1, <2>2, VisibleType DEF TypeInv, CoreTypeOK
    <2>4. /\ work'[r].snaplock = work[r].snaplock \cup {acct[r]}
          /\ work'[r].snap = work[r].snap
      BY <1>4, <1>a, <2>1, <2>2 DEF LocksSnap, SnapLock, Works
    <2>5. bal'[r] = Visible(r, acct[r]) BY <1>4, <1>a DEF LocksSnap, Decide
    <2>6. ~(req[r].amount > CreditLimit[acct[r]] + Visible(r, acct[r]))
      BY <1>4, <1>a DEF LocksSnap, Decide, Goto, Available
    <2>7. UNCHANGED <<req, acct, snapshots>> BY <1>4 DEF LocksSnap, tables
    <2>8. Approved(r)' BY <2>1, <2>3, <2>4, <2>5, <2>6, <2>7 DEF Visible
    <2> QED BY <2>8, <1>1 DEF ApprovalInv
  <1>6. CASE pc'[r] = "insert_ledger" /\ Heals(r)
    <2>1. acct[r] \in Accounts /\ req[r].amount \in Nat /\ CreditLimit[acct[r]] \in Nat
      BY <1>6, ApprovedFacts DEF Heals
    <2>2. LedgerBalance(acct[r]) \in Int BY BalanceType DEF TypeInv, CoreTypeOK
    <2>3. /\ work'[r].snaplock = work[r].snaplock \cup {acct[r]}
          /\ work'[r].snap[acct[r]] = LedgerBalance(acct[r])
      BY <1>6, <1>a, <2>1 DEF Heals, WriteSnap, Works
    <2>4. bal'[r] = LedgerBalance(acct[r]) BY <1>6, <1>a DEF Heals, Decide
    <2>5. ~(req[r].amount > CreditLimit[acct[r]] + LedgerBalance(acct[r]))
      BY <1>6, <1>a DEF Heals, Decide, Goto, Available
    <2>6. UNCHANGED <<req, acct>> BY <1>6 DEF Heals
    <2>7. Visible(r, acct[r])' = LedgerBalance(acct[r])
      BY <2>2, <2>3, <2>6, DBAssumption DEF Visible
    <2>8. Approved(r)' BY <2>1, <2>2, <2>3, <2>4, <2>5, <2>6, <2>7
    <2> QED BY <2>8, <1>1 DEF ApprovalInv
  <1>5. CASE pc'[r] \notin After BY <1>1, <1>5 DEF ApprovalInv
  <1> QED BY <1>2, <1>3, <1>4, <1>5, <1>6

-----------------------------------------------------------------------------
(* The account of a posting stays ACTIVE.                                  *)

ActiveAt(r) ==
  WillPost(r) => acct[r] \in work[r].excl /\ status[acct[r]] = "ACTIVE"

LEMMA ActiveStep ==
  ASSUME TypeInv, ActiveInv, NEW r \in Requests, HandlerStep(r)
  PROVE  ActiveInv'
  <1>a. r \in Sessions /\ work[r] \in Works /\ work \in [Sessions -> Works]
        /\ pc \in [Requests -> Labels]
    BY RequestsAreSessions DEF TypeInv, CoreTypeOK, DBTypeOK, HandlerTypeOK
  <1>b. UNCHANGED status
    <2>1. CASE Ends(r) BY <2>1 DEF Ends, Publish
    <2>2. CASE ~Ends(r) BY <2>2, TablesStay DEF tables
    <2> QED BY <2>1, <2>2
  <1>c. ActiveAt(r) BY DEF ActiveInv, ActiveAt
  <1> SUFFICES ActiveAt(r)'
    <2>1. ASSUME NEW q \in Requests \ {r} PROVE ActiveAt(q)'
      <3>1. Untouched(q) BY OthersUntouched DEF TypeInv
      <3> QED BY <1>b, <3>1 DEF ActiveInv, ActiveAt, WillPost, Untouched
    <2> QED BY <2>1 DEF ActiveInv, ActiveAt
  <1> USE DEF Goto, ActiveAt, WillPost
  <1>1. CASE Outside(r) BY <1>1, <1>a DEF Outside, InTxn
  <1>2. CASE Aborts(r) BY <1>2, <1>a DEF Aborts, Abort
  <1>3. CASE Ends(r) BY <1>3, <1>a DEF Ends
  <1>4. CASE Begin(r) BY <1>4, <1>a DEF Begin
  <1>5. CASE ChoosesAccount(r) BY <1>5, <1>a DEF ChoosesAccount
  <1>6. CASE InsertsRow(r) BY <1>6, <1>a DEF InsertsRow
  <1>7. CASE FkAccount(r) BY <1>7, <1>a DEF FkAccount
  <1>8. CASE LockAccount(r)
    <2>1. acct[r] \in work'[r].excl BY <1>8, <1>a DEF LockAccount, ExclLock, Works
    <2>2. pc'[r] = "ensure_snap" => status[acct[r]] = "ACTIVE"
      BY <1>8, <1>a DEF LockAccount, Chargeable
    <2>3. pc'[r] \in {"ensure_snap", "mark_declined"} /\ acct' = acct
      BY <1>8, <1>a DEF LockAccount
    <2> QED BY <1>b, <2>1, <2>2, <2>3
  <1>9. CASE Mark(r)
    <2>1. pc[r] = "mark_declined" /\ SetTxnStatus(r, "DECLINED") => work'[r].txn.status # "POSTED"
      <3>1. work[r].txn \in Rows \/ pc[r] # "mark_declined"
        BY DEF TypeInv, LocalInv, Inserted, Chosen, InTxn
      <3> QED BY <3>1, <1>a DEF SetTxnStatus, Works, Rows
    <2>3. pc'[r] = "set_final" /\ acct' = acct BY <1>9, <1>a DEF Mark
    <2>6. ~Aborts(r) /\ ~Ends(r) BY <2>3, <1>a DEF Aborts, Abort, Ends
    <2>2. work[r].excl \subseteq work'[r].excl BY <2>6, ExclKept DEF TypeInv
    <2>4. CASE pc[r] = "mark_declined" BY <1>9, <2>1, <2>3, <2>4 DEF Mark
    <2>5. CASE pc[r] = "mark_posted" BY <1>b, <1>c, <2>2, <2>3, <2>5
    <2> QED BY <1>9, <2>4, <2>5 DEF Mark
  <1>10. CASE \/ EnsureSnap(r) \/ LocksSnap(r) \/ FindsNone(r) \/ Heals(r)
              \/ InsertLedger(r) \/ UpdateSnap(r)
    <2>1. ~Aborts(r) /\ ~Ends(r) => work[r].excl \subseteq work'[r].excl
      BY ExclKept DEF TypeInv
    <2>2. WillPost(r) /\ acct' = acct /\ pc'[r] # "fail_set" /\ pc'[r] # "done"
      BY <1>10, <1>a
      DEF EnsureSnap, LocksSnap, FindsNone, Heals, InsertLedger, UpdateSnap, Decide
    <2>3. ~Aborts(r) /\ ~Ends(r) BY <2>2, <1>a DEF Aborts, Abort, Ends
    <2> QED BY <1>b, <1>c, <2>1, <2>2, <2>3
  <1>11. CASE Publishes(r) BY <1>11, <1>a, <1>b, <1>c DEF Publishes
  <1> QED BY <1>1, <1>2, <1>3, <1>4, <1>5, <1>6, <1>7, <1>8, <1>9, <1>10, <1>11
          DEF HandlerStep

-----------------------------------------------------------------------------
(* The invariant as a whole.                                               *)

SafeInv == TypeInv /\ KeyInv /\ SnapLockInv /\ ApprovalInv /\ ActiveInv

LEMMA SafeInvInit == Init => SafeInv
  <1> SUFFICES ASSUME Init PROVE SafeInv OBVIOUS
  <1>1. TypeInv BY TypeInvInit
  <1>2. /\ transactions = {} /\ work = [s \in Sessions |-> NoWork]
        /\ pc = [r \in Requests |-> "idle"]
    BY DEF Init, DBInit
  <1>3. KeyInv BY <1>2 DEF KeyInv, OneTransactionPerKey, SameKey, NoWork
  <1>4. SnapLockInv BY <1>2 DEF SnapLockInv, NoWork
  <1>5. ApprovalInv /\ ActiveInv BY <1>2 DEF ApprovalInv, ActiveInv, WillPost
  <1> QED BY <1>1, <1>3, <1>4, <1>5 DEF SafeInv

\* The service stops: every open transaction of a request is rolled back.
LEMMA CrashSafe == ASSUME SafeInv, Crash PROVE
    KeyInv' /\ SnapLockInv' /\ ApprovalInv' /\ ActiveInv'
  <1>1. UNCHANGED <<tables, req, acct, bal>> BY DEF Crash
  <1>2. \A s \in Sessions : work'[s] = work[s] \/ work'[s] = NoWork BY DEF Crash, SafeInv
  <1>3. \A r \in Requests : pc'[r] \notin Running
    BY DEF Crash, Live, Running, BeforeTxn, InTxn, AfterTxn
  <1>4. NoWork.txn = NULL /\ NoWork.snaplock = {} /\ \A a \in Accounts : NoWork.snap[a] = NULL
    BY DEF NoWork
  <1> HIDE DEF NoWork
  <1>5. KeyInv'
    BY <1>1, <1>2, <1>4 DEF SafeInv, KeyInv, OneTransactionPerKey, SameKey, tables
  <1>6. SnapLockInv' BY <1>1, <1>2, <1>4 DEF SafeInv, SnapLockInv, Visible, tables
  <1>7. ApprovalInv' /\ ActiveInv'
    BY <1>3 DEF ApprovalInv, ActiveInv, WillPost, Running, InTxn
  <1> QED BY <1>5, <1>6, <1>7

\* A snapshot row is deleted or corrupted, but only while nobody has it locked.
LEMMA SnapshotFaultSafe ==
  ASSUME SafeInv, NEW a \in Accounts, DropSnapshot(a) \/ CorruptSnapshot(a)
  PROVE  KeyInv' /\ SnapLockInv' /\ ApprovalInv' /\ ActiveInv'
  <1>1. /\ UNCHANGED <<status, transactions, work, pc, req, acct, bal>>
        /\ \A s \in Sessions : a \notin work[s].snaplock
    BY DEF DropSnapshot, CorruptSnapshot, locals
  <1>2. \A b \in Accounts \ {a} : snapshots'[b] = snapshots[b]
    BY DEF DropSnapshot, CorruptSnapshot, SafeInv, TypeInv, CoreTypeOK, DBTypeOK
  <1>3. KeyInv' BY <1>1 DEF SafeInv, KeyInv, OneTransactionPerKey
  <1>4. \A s \in Sessions : work[s].snaplock \subseteq Accounts
    BY DEF SafeInv, TypeInv, CoreTypeOK, DBTypeOK, Works
  <1>5. SnapLockInv' BY <1>1, <1>2, <1>4 DEF SafeInv, SnapLockInv, Visible
  <1>6. ApprovalInv'
    <2>1. ASSUME NEW r \in Requests, pc[r] \in {"insert_ledger", "update_snap"}
          PROVE  acct[r] \in Accounts \ {a}
      <3>1. acct[r] \in work[r].snaplock /\ r \in Sessions
        BY <2>1, RequestsAreSessions DEF SafeInv, ApprovalInv
      <3> QED BY <1>1, <1>4, <3>1
    <2> QED BY <1>1, <1>2, <2>1 DEF SafeInv, ApprovalInv, Visible
  <1>7. ActiveInv' BY <1>1 DEF SafeInv, ActiveInv, WillPost
  <1> QED BY <1>3, <1>5, <1>6, <1>7

\* An operator changes an account's status, while nobody has the account locked.
LEMMA SetStatusSafe ==
  ASSUME SafeInv, NEW a \in Accounts, SetStatus(a)
  PROVE  KeyInv' /\ SnapLockInv' /\ ApprovalInv' /\ ActiveInv'
  <1>1. UNCHANGED <<transactions, snapshots, work, pc, req, acct, bal>>
    BY DEF SetStatus, locals
  <1>2. KeyInv' /\ SnapLockInv' /\ ApprovalInv'
    BY <1>1 DEF SafeInv, KeyInv, OneTransactionPerKey, SnapLockInv, ApprovalInv, Visible
  <1>3. ActiveInv'
    <2>1. ASSUME NEW r \in Requests, WillPost(r)
          PROVE  acct[r] # a
      BY <2>1, RequestsAreSessions DEF SafeInv, ActiveInv, SetStatus
    <2>2. \A b : b # a /\ status[b] = "ACTIVE" => status'[b] = "ACTIVE"
      BY DEF SetStatus, SafeInv, TypeInv, CoreTypeOK, DBTypeOK
    <2> QED BY <1>1, <2>1, <2>2 DEF SafeInv, ActiveInv, WillPost
  <1> QED BY <1>2, <1>3

LEMMA SafeInvStep == ASSUME SafeInv, [Next]_vars PROVE SafeInv'
  <1>1. TypeInv' BY TypeInvStep DEF SafeInv
  <1>2. KeyInv' /\ SnapLockInv' /\ ApprovalInv' /\ ActiveInv'
    <2>1. CASE \E r \in Requests : HandlerStep(r)
      BY <2>1, KeyStep, SnapLockStep, ApprovalStep, ActiveStep DEF SafeInv
    <2>2. CASE Crash BY <2>2, CrashSafe
    <2>3. CASE \E a \in Accounts : Operator(a)
      BY <2>3, SnapshotFaultSafe, SetStatusSafe DEF Operator
    <2>4. CASE UNCHANGED core
      BY <2>4 DEF core, tables, SafeInv, KeyInv, OneTransactionPerKey, SnapLockInv,
                  ApprovalInv, Visible, ActiveInv, WillPost
    <2> QED BY <2>1, <2>2, <2>3, <2>4, NextCases DEF SafeInv
  <1> QED BY <1>1, <1>2 DEF SafeInv

\* A step that commits a POSTED row is the COMMIT of a request that will post.
LEMMA PostingStep ==
  ASSUME SafeInv, [Next]_vars, NEW t \in transactions' \ transactions,
         t.status = "POSTED"
  PROVE  status[t.account_id] = "ACTIVE"
  <1>1. \E r \in Requests : Ends(r)
    <2>1. transactions' # transactions OBVIOUS
    <2> QED BY <2>1, NextCases, TablesStay
            DEF SafeInv, Crash, Operator, DropSnapshot, CorruptSnapshot, SetStatus, core, tables
  <1>2. PICK r \in Requests : Ends(r) BY <1>1
  <1>3. t = work[r].txn BY <1>2 DEF Ends, Publish
  <1>4. pc[r] = "commit" /\ work[r].txn.account_id = acct[r]
    BY <1>2 DEF Ends, SafeInv, TypeInv, LocalInv, Inserted, Chosen, InTxn
  <1> QED BY <1>3, <1>4 DEF SafeInv, ActiveInv, WillPost

-----------------------------------------------------------------------------
\* However a client retries a key, and whatever fails, at most one transaction is
\* committed for it: the unique index, the wait on an uncommitted duplicate and the
\* rollback of the loser suffice without the Redis lock.
THEOREM KeysNameOneTransaction == Spec => []OneTransactionPerKey
  <1>1. Init => SafeInv BY SafeInvInit
  <1>2. SafeInv /\ [Next]_vars => SafeInv' BY SafeInvStep
  <1>3. SafeInv => OneTransactionPerKey BY DEF SafeInv, KeyInv
  <1> QED BY <1>1, <1>2, <1>3, PTL DEF Spec

\* A purchase is written from the balance it was approved with: the FOR UPDATE of
\* post_purchase_atomic keeps every other writer away until COMMIT.
THEOREM ApprovalsAreFresh == Spec => []NoStaleApproval
  <1>1. Init => SafeInv BY SafeInvInit
  <1>2. SafeInv /\ [Next]_vars => SafeInv' BY SafeInvStep
  <1>3. SafeInv => NoStaleApproval BY DEF SafeInv, ApprovalInv, NoStaleApproval
  <1> QED BY <1>1, <1>2, <1>3, PTL DEF Spec

\* A POSTED transaction is committed only while its account is ACTIVE, though the
\* account was chosen, without a lock, several statements earlier.
THEOREM PostsOnlyWhileActive == Spec => ActiveAtPosting
  <1>1. Init => SafeInv BY SafeInvInit
  <1>2. SafeInv /\ [Next]_vars => SafeInv' BY SafeInvStep
  <1>3. SafeInv /\ [Next]_vars =>
          [\A t \in transactions' \ transactions :
             t.status = "POSTED" => status[t.account_id] = "ACTIVE"]_vars
    BY PostingStep
  <1> QED BY <1>1, <1>2, <1>3, PTL DEF Spec, ActiveAtPosting

-----------------------------------------------------------------------------
(* The books: every committed transaction has exactly the legs its status  *)
(* calls for.  The rows and legs of an open transaction are those of its   *)
(* request, and a request that has committed never writes again.           *)

\* The row a request has inserted is its own, for its own account.
OwnRow(r) ==
  /\ work[r].txn.transaction_id = r
  /\ work[r].txn.user_id = req[r].user
  /\ work[r].txn.idempotency_key = req[r].key
  /\ work[r].txn.amount_minor = req[r].amount
  /\ work[r].txn.currency = req[r].currency

RowAt(r) ==
  /\ pc[r] \in Chosen => Owner[acct[r]] = req[r].user
  /\ pc[r] \in Inserted => OwnRow(r)

RowInv == \A r \in Requests : RowAt(r)

\* Both legs are written together, and only by a request that will mark POSTED.
BothLegs(r) == {Leg(r, 0, "DEBIT", acct[r]), Leg(r, 1, "CREDIT", Merchant)}

Written(r) ==
  \/ pc[r] \in {"update_snap", "mark_posted"}
  \/ pc[r] \in {"set_final", "del_lock", "commit"} /\ work[r].txn.status = "POSTED"

LegsAt(r) == work[r].legs = IF Written(r) THEN BothLegs(r) ELSE {}

LegsInv == \A r \in Requests : LegsAt(r)

\* Whoever has committed is past its transaction, and its row bears its key.
PastInv ==
  \A t \in transactions :
    /\ pc[t.transaction_id] \in Past
    /\ slot(t.transaction_id) = <<t.user_id, t.idempotency_key>>

BooksInv == TypeInv /\ RowInv /\ LegsInv /\ PastInv /\ DoubleEntry

-----------------------------------------------------------------------------
LEMMA PastOutside == Past \cap InTxn = {} /\ "idle" \notin Past
  BY DEF Past, InTxn

\* A request that is past its transaction stays there and keeps its payload.
LEMMA PastStays ==
  ASSUME TypeInv, NEW r \in Requests, HandlerStep(r), NEW q \in Requests, pc[q] \in Past
  PROVE  pc'[q] \in Past /\ req'[q] = req[q]
  <1>1. CASE q # r BY <1>1, OthersUntouched DEF TypeInv, Untouched
  <1>2. CASE q = r
    <2>1. pc \in [Requests -> Labels] BY DEF TypeInv, CoreTypeOK, HandlerTypeOK
    <2>2. Outside(r) \/ Aborts(r)
      BY <1>2, PastOutside
      DEF HandlerStep, Ends, Begin, ChoosesAccount, InsertsRow, FkAccount, LockAccount,
          EnsureSnap, LocksSnap, FindsNone, Heals, InsertLedger, UpdateSnap, Mark,
          Publishes, InTxn, Past
    <2> QED BY <1>2, <2>1, <2>2, PastOutside DEF Outside, Aborts, Abort, Goto, Past
  <1> QED BY <1>1, <1>2

-----------------------------------------------------------------------------
(* The row of an open transaction.                                         *)

LEMMA RowStep ==
  ASSUME TypeInv, RowInv, NEW r \in Requests, HandlerStep(r)
  PROVE  RowInv'
  <1>a. r \in Sessions /\ work[r] \in Works /\ work \in [Sessions -> Works]
        /\ pc \in [Requests -> Labels] /\ acct \in [Requests -> Accounts \cup {NULL}]
    BY RequestsAreSessions DEF TypeInv, CoreTypeOK, DBTypeOK, HandlerTypeOK
  <1>b. RowAt(r) BY DEF RowInv
  <1> SUFFICES RowAt(r)'
    <2>1. ASSUME NEW q \in Requests \ {r} PROVE RowAt(q)'
      <3>1. Untouched(q) BY OthersUntouched DEF TypeInv
      <3> QED BY <3>1 DEF RowInv, RowAt, OwnRow, Untouched
    <2> QED BY <2>1 DEF RowInv
  <1>i. Inserted \subseteq Chosen /\ Chosen \subseteq InTxn /\ "insert_txn" \notin Inserted
    BY DEF Inserted, Chosen
  <1>1. CASE Outside(r) BY <1>1, <1>a, <1>i DEF Outside, Goto, RowAt
  <1>2. CASE Aborts(r) \/ Ends(r) \/ Begin(r)
    <2>1. pc'[r] \in {"fail_set", "done", "find_account"}
      BY <1>2, <1>a DEF Aborts, Abort, Ends, Begin, Goto
    <2>2. pc'[r] \notin Chosen /\ pc'[r] \notin Inserted
      BY <2>1 DEF Inserted, Chosen, InTxn
    <2> QED BY <2>2 DEF RowAt
  <1>3. CASE ChoosesAccount(r)
    <2>1. PICK a \in OldestActive(req[r].user) : acct'[r] = a
      BY <1>3, <1>a DEF ChoosesAccount
    <2>2. Owner[acct'[r]] = req[r].user BY <2>1 DEF OldestActive
    <2>3. pc'[r] = "insert_txn" /\ req' = req BY <1>3, <1>a DEF ChoosesAccount, Goto
    <2> QED BY <2>2, <2>3, <1>i DEF RowAt
  <1>4. CASE InsertsRow(r)
    <2>1. work'[r].txn = NewRow(r) BY <1>4, <1>a DEF InsertsRow, WriteTxn, Works
    <2>2. pc[r] \in Chosen /\ UNCHANGED <<req, acct>>
      BY <1>4 DEF InsertsRow, Chosen, InTxn
    <2> QED BY <1>b, <2>1, <2>2 DEF RowAt, OwnRow, NewRow
  <1>5. CASE Mark(r)
    <2>1. pc[r] \in Inserted /\ UNCHANGED <<req, acct>>
      BY <1>5 DEF Mark, Inserted, Chosen, InTxn
    <2>2. PICK st \in Decided : SetTxnStatus(r, st) BY <1>5 DEF Mark, Decided
    <2>3. work'[r].txn = [work[r].txn EXCEPT !.status = st]
      BY <1>a, <2>2 DEF SetTxnStatus, Works
    <2>4. work[r].txn \in Rows BY <2>1 DEF TypeInv, LocalInv
    <2> QED BY <1>b, <1>i, <2>1, <2>3, <2>4 DEF RowAt, OwnRow, Rows
  <1>6. CASE \/ FkAccount(r) \/ LockAccount(r) \/ EnsureSnap(r) \/ LocksSnap(r)
             \/ FindsNone(r) \/ Heals(r) \/ InsertLedger(r) \/ UpdateSnap(r) \/ Publishes(r)
    <2>1. pc[r] \in Inserted /\ UNCHANGED <<req, acct>>
      BY <1>6
      DEF FkAccount, LockAccount, EnsureSnap, LocksSnap, FindsNone, Heals, InsertLedger,
          UpdateSnap, Publishes, Inserted, Chosen, InTxn
    <2>2. pc[r] # "insert_txn" /\ pc'[r] \notin {"fail_set", "done"} /\ ~Mark(r)
      BY <1>6, <1>a
      DEF FkAccount, LockAccount, EnsureSnap, LocksSnap, FindsNone, Heals, InsertLedger,
          UpdateSnap, Publishes, Goto, Decide, Mark
    <2>3. ~Aborts(r) /\ ~Ends(r) /\ ~InsertsRow(r)
      BY <1>a, <2>2 DEF Aborts, Abort, Ends, InsertsRow, Goto
    <2>4. work'[r].txn = work[r].txn BY <2>2, <2>3, SameTxn DEF TypeInv
    <2> QED BY <1>b, <1>i, <2>1, <2>4 DEF RowAt, OwnRow
  <1> QED BY <1>1, <1>2, <1>3, <1>4, <1>5, <1>6 DEF HandlerStep

-----------------------------------------------------------------------------
(* The legs of an open transaction.                                        *)

LEMMA LegsStep ==
  ASSUME TypeInv, LegsInv, NEW r \in Requests, HandlerStep(r)
  PROVE  LegsInv'
  <1>a. r \in Sessions /\ work[r] \in Works /\ work \in [Sessions -> Works]
        /\ pc \in [Requests -> Labels]
    BY RequestsAreSessions DEF TypeInv, CoreTypeOK, DBTypeOK, HandlerTypeOK
  <1>b. LegsAt(r) BY DEF LegsInv
  <1> SUFFICES LegsAt(r)'
    <2>1. ASSUME NEW q \in Requests \ {r} PROVE LegsAt(q)'
      <3>1. Untouched(q) BY OthersUntouched DEF TypeInv
      <3> QED BY <3>1 DEF LegsInv, LegsAt, Written, BothLegs, Leg, Untouched
    <2> QED BY <2>1 DEF LegsInv
  <1>1. CASE Aborts(r) \/ Ends(r)
    <2>1. work'[r].legs = {} BY <1>1, Released DEF TypeInv, NoWork
    <2>2. pc'[r] \in {"fail_set", "done"} BY <1>1, <1>a DEF Aborts, Abort, Ends, Goto
    <2> QED BY <2>1, <2>2 DEF LegsAt, Written
  <1>2. CASE InsertLedger(r)
    <2>1. work'[r].legs = BothLegs(r)
      BY <1>2, <1>a DEF InsertLedger, WriteLegs, BothLegs, Works
    <2>2. pc'[r] = "update_snap" /\ UNCHANGED <<req, acct>>
      BY <1>2, <1>a DEF InsertLedger, Goto
    <2> QED BY <2>1, <2>2 DEF LegsAt, Written, BothLegs, Leg
  <1>3. CASE ~Aborts(r) /\ ~Ends(r) /\ ~InsertLedger(r)
    <2>1. work'[r].legs = work[r].legs BY <1>3, SameLegs DEF TypeInv
    <2>2. CASE ~Written(r) /\ ~Written(r)'
      BY <1>b, <2>1, <2>2 DEF LegsAt
    <2>3. CASE Written(r) /\ Written(r)' /\ UNCHANGED <<req, acct>>
      BY <1>b, <2>1, <2>3 DEF LegsAt, BothLegs, Leg
    <2>4. CASE Outside(r) \/ Begin(r) \/ ChoosesAccount(r) \/ InsertsRow(r) \/ FkAccount(r)
               \/ LockAccount(r) \/ EnsureSnap(r) \/ LocksSnap(r) \/ FindsNone(r) \/ Heals(r)
      <3>1. ~Written(r) /\ ~Written(r)'
        BY <2>4, <1>a
        DEF Written, Outside, Begin, ChoosesAccount, InsertsRow, FkAccount, LockAccount,
            EnsureSnap, LocksSnap, FindsNone, Heals, Decide, Goto, InTxn
      <3> QED BY <2>2, <3>1
    <2>5. CASE UpdateSnap(r)
      BY <2>3, <2>5, <1>a DEF UpdateSnap, Goto, Written
    <2>6. CASE Mark(r)
      <3>1. work[r].txn \in Rows BY <2>6 DEF Mark, TypeInv, LocalInv, Inserted, Chosen, InTxn
      <3>2. PICK st \in Decided : /\ SetTxnStatus(r, st)
                                  /\ pc[r] = IF st = "POSTED" THEN "mark_posted" ELSE "mark_declined"
        BY <2>6 DEF Mark, Decided
      <3>3. work'[r].txn.status = st BY <1>a, <3>1, <3>2 DEF SetTxnStatus, Works, Rows
      <3>4. pc'[r] = "set_final" /\ UNCHANGED <<req, acct>> BY <2>6, <1>a DEF Mark, Goto
      <3> QED BY <2>2, <2>3, <3>2, <3>3, <3>4 DEF Written
    <2>7. CASE Publishes(r)
      <3>1. UNCHANGED <<req, acct, work>> /\ pc[r] \in {"set_final", "del_lock"}
            /\ pc'[r] \in {"del_lock", "commit"}
        BY <2>7, <1>a DEF Publishes, Goto
      <3> QED BY <2>2, <2>3, <3>1 DEF Written
    <2> QED BY <1>3, <2>4, <2>5, <2>6, <2>7 DEF HandlerStep
  <1> QED BY <1>1, <1>2, <1>3

-----------------------------------------------------------------------------
(* COMMIT: a row and its legs become visible together.                     *)

LEMMA RowIds ==
  ASSUME TypeInv, NEW t \in transactions
  PROVE  t.transaction_id \in Requests
  BY DEF TypeInv, CoreTypeOK, DBTypeOK, Rows

\* The row a COMMIT adds, and its legs.
LEMMA CommitAdds ==
  ASSUME BooksInv, NEW r \in Requests, Ends(r)
  PROVE  /\ transactions' = transactions \cup {work[r].txn}
         /\ ledger_entries' = ledger_entries \cup work[r].legs
         /\ work[r].txn \in Rows /\ OwnRow(r) /\ work[r].txn.account_id = acct[r]
         /\ work[r].txn.status \in Decided
         /\ work[r].legs = IF work[r].txn.status = "POSTED" THEN BothLegs(r) ELSE {}
         /\ UNCHANGED <<req, acct>>
  <1>1. pc[r] = "commit" /\ pc[r] \in Inserted
    BY DEF Ends, Inserted, Chosen, InTxn
  <1>2. work[r].txn \in Rows /\ work[r].txn # NULL /\ work[r].txn.account_id = acct[r]
        /\ work[r].txn.status \in Decided
    BY <1>1, RowAssumption DEF BooksInv, TypeInv, LocalInv
  <1>3. OwnRow(r) BY <1>1 DEF BooksInv, RowInv, RowAt
  <1>4. work[r].legs = IF work[r].txn.status = "POSTED" THEN BothLegs(r) ELSE {}
    BY <1>1 DEF BooksInv, LegsInv, LegsAt, Written
  <1> QED BY <1>2, <1>3, <1>4 DEF Ends, Publish

Balanced(t) ==
  \/ t.status = "DECLINED" /\ LegsOf(t.transaction_id) = {}
  \/ /\ t.status = "POSTED"
     /\ LegsOf(t.transaction_id) =
          {Leg(t.transaction_id, 0, "DEBIT", t.account_id),
           Leg(t.transaction_id, 1, "CREDIT", Merchant)}
     /\ req[t.transaction_id].amount = t.amount_minor

LEMMA DoubleEntryIs ==
  DoubleEntry <=> /\ \A e \in ledger_entries : Rowed(e.transaction_id) # {}
                  /\ \A t \in transactions : Balanced(t)
  BY DEF DoubleEntry, Balanced

\* A request that commits has no row in the ledger yet.
LEMMA NoEarlierLegs ==
  ASSUME BooksInv, NEW r \in Requests, Ends(r)
  PROVE  \A e \in ledger_entries : e.transaction_id # r
  <1>1. \A t \in transactions : t.transaction_id # r
    BY PastOutside DEF BooksInv, PastInv, Ends, Past
  <1>2. \A e \in ledger_entries : \E t \in transactions : t.transaction_id = e.transaction_id
    BY DEF BooksInv, DoubleEntry, Rowed
  <1> QED BY <1>1, <1>2

LEMMA CommitBalances ==
  ASSUME BooksInv, NEW r \in Requests, Ends(r)
  PROVE  DoubleEntry'
  <1>1. /\ transactions' = transactions \cup {work[r].txn}
        /\ ledger_entries' = ledger_entries \cup work[r].legs
        /\ work[r].txn \in Rows /\ OwnRow(r) /\ work[r].txn.account_id = acct[r]
        /\ work[r].txn.status \in Decided
        /\ work[r].legs = IF work[r].txn.status = "POSTED" THEN BothLegs(r) ELSE {}
        /\ UNCHANGED <<req, acct>>
    BY CommitAdds
  <1>2. \A t \in transactions : t.transaction_id # r
    BY PastOutside DEF BooksInv, PastInv, Ends, Past
  <1>3. \A e \in work[r].legs : e.transaction_id = r BY <1>1 DEF BothLegs, Leg
  <1>4. LegsOf(r) = {} BY NoEarlierLegs DEF LegsOf
  <1>5. \A q : q # r => LegsOf(q)' = LegsOf(q) BY <1>1, <1>3 DEF LegsOf
  <1>6. LegsOf(r)' = work[r].legs BY <1>1, <1>3, <1>4 DEF LegsOf
  <1>7. ASSUME NEW t \in transactions PROVE Balanced(t)'
    <2>1. Balanced(t) BY DEF BooksInv, DoubleEntry, Balanced
    <2>2. t.transaction_id # r BY <1>2
    <2> QED BY <1>1, <1>5, <2>1, <2>2 DEF Balanced, Leg
  <1>8. ASSUME NEW t, t = work[r].txn PROVE Balanced(t)'
    <2>1. t.transaction_id = r /\ t.amount_minor = req[r].amount BY <1>1, <1>8 DEF OwnRow
    <2>2. t.status \in {"POSTED", "DECLINED"} /\ t.account_id = acct[r]
      BY <1>1, <1>8 DEF Decided
    <2> QED BY <1>1, <1>6, <1>8, <2>1, <2>2 DEF Balanced, BothLegs, Leg
  <1>9. \A t \in transactions' : Balanced(t)' BY <1>1, <1>7, <1>8
  <1>10. ASSUME NEW e \in ledger_entries' PROVE Rowed(e.transaction_id)' # {}
    <2>1. CASE e \in ledger_entries
      <3>1. Rowed(e.transaction_id) # {} BY <2>1 DEF BooksInv, DoubleEntry
      <3> QED BY <1>1, <3>1 DEF Rowed
    <2>2. CASE e \in work[r].legs BY <1>1, <1>3, <2>2 DEF Rowed, OwnRow
    <2> QED BY <1>1, <2>1, <2>2
  <1> QED BY <1>9, <1>10, DoubleEntryIs DEF DoubleEntry, Balanced

\* What leaves the committed rows and their requests' payloads alone keeps the books.
LEMMA BooksFrame ==
  ASSUME BooksInv, UNCHANGED <<transactions, ledger_entries>>,
         \A t \in transactions : /\ pc'[t.transaction_id] \in Past
                                 /\ req'[t.transaction_id] = req[t.transaction_id]
  PROVE  PastInv' /\ DoubleEntry'
  BY DEF BooksInv, PastInv, DoubleEntry, Rowed, LegsOf, Leg, slot

LEMMA BooksInvInit == Init => BooksInv
  <1> SUFFICES ASSUME Init PROVE BooksInv OBVIOUS
  <1>1. /\ transactions = {} /\ ledger_entries = {}
        /\ work = [s \in Sessions |-> NoWork] /\ pc = [r \in Requests |-> "idle"]
    BY DEF Init, DBInit
  <1>2. RowInv BY <1>1 DEF RowInv, RowAt, Chosen, Inserted, InTxn
  <1>3. LegsInv BY <1>1, RequestsAreSessions DEF LegsInv, LegsAt, Written, NoWork
  <1>4. PastInv /\ DoubleEntry BY <1>1 DEF PastInv, DoubleEntry
  <1> QED BY <1>2, <1>3, <1>4, TypeInvInit DEF BooksInv

LEMMA BooksStep ==
  ASSUME BooksInv, NEW r \in Requests, HandlerStep(r)
  PROVE  RowInv' /\ LegsInv' /\ PastInv' /\ DoubleEntry'
  <1>1. RowInv' /\ LegsInv' BY RowStep, LegsStep DEF BooksInv
  <1>2. \A t \in transactions : /\ pc'[t.transaction_id] \in Past
                                /\ req'[t.transaction_id] = req[t.transaction_id]
    BY PastStays, RowIds DEF BooksInv, PastInv
  <1>3. CASE ~Ends(r) BY <1>1, <1>2, <1>3, TablesStay, BooksFrame DEF tables
  <1>4. CASE Ends(r)
    <2>1. pc'[r] \in Past
      BY <1>4 DEF Ends, Goto, Past, BooksInv, TypeInv, CoreTypeOK, HandlerTypeOK
    <2>2. /\ transactions' = transactions \cup {work[r].txn} /\ UNCHANGED req
          /\ work[r].txn.transaction_id = r
          /\ slot(r) = <<work[r].txn.user_id, work[r].txn.idempotency_key>>
      BY <1>4, CommitAdds DEF OwnRow, slot
    <2>3. PastInv' BY <1>2, <2>1, <2>2 DEF BooksInv, PastInv, slot
    <2> QED BY <1>1, <1>4, <2>3, CommitBalances
  <1> QED BY <1>3, <1>4

LEMMA BooksInvStep == ASSUME BooksInv, [Next]_vars PROVE BooksInv'
  <1>t. TypeInv' BY TypeInvStep DEF BooksInv
  <1>1. ASSUME NEW r \in Requests, HandlerStep(r)
        PROVE  RowInv' /\ LegsInv' /\ PastInv' /\ DoubleEntry'
    BY <1>1, BooksStep
  <1>2. CASE Crash
    <2>1. UNCHANGED <<transactions, ledger_entries, req, acct>> BY <1>2 DEF Crash, tables
    <2>2. \A r \in Requests : pc'[r] = IF pc[r] \in Live THEN "dead" ELSE pc[r]
      BY <1>2 DEF Crash
    <2>3. \A r \in Requests : pc'[r] \notin Live
      BY <2>2 DEF Live, Running, BeforeTxn, InTxn, AfterTxn
    <2>4. \A r \in Requests : work'[r] = NoWork
      BY <1>2, RequestsAreSessions DEF Crash
    <2>5. RowInv' BY <2>3 DEF RowInv, RowAt, Inserted, Chosen, Live, Running
    <2>6. LegsInv' BY <2>3, <2>4 DEF LegsInv, LegsAt, Written, NoWork, Live, Running, InTxn
    <2>7. \A t \in transactions : pc'[t.transaction_id] \in Past
      BY <2>2, RowIds DEF BooksInv, PastInv, Past
    <2> QED BY <1>t, <2>1, <2>5, <2>6, <2>7, BooksFrame DEF BooksInv
  <1>3. CASE UNCHANGED core \/ \E a \in Accounts : Operator(a)
    <2>1. UNCHANGED <<transactions, ledger_entries, work, pc, req, acct>>
      BY <1>3 DEF Operator, DropSnapshot, CorruptSnapshot, SetStatus, locals, core, tables
    <2>2. RowInv' /\ LegsInv'
      BY <2>1 DEF BooksInv, RowInv, RowAt, OwnRow, LegsInv, LegsAt, Written, BothLegs, Leg
    <2>3. PastInv' /\ DoubleEntry' BY <2>1, BooksFrame DEF BooksInv, PastInv
    <2> QED BY <1>t, <2>2, <2>3 DEF BooksInv
  <1> QED BY <1>t, <1>1, <1>2, <1>3, NextCases DEF BooksInv

-----------------------------------------------------------------------------
(* The sums of the ledger.                                                 *)

Debited(r, a) == work[r].txn.status = "POSTED" /\ a = acct[r]
Credited(r, a) == work[r].txn.status = "POSTED" /\ a = Merchant

\* What a COMMIT adds to the sum of an account's ledger rows: the amount to the
\* merchant's, its opposite to the buyer's, and both where they are one account.
LEMMA CommitLedger ==
  ASSUME BooksInv, NEW r \in Requests, Ends(r), NEW a
  PROVE  LedgerBalance(a)' = LedgerBalance(a)
                             - (IF Debited(r, a) THEN req[r].amount ELSE 0)
                             + (IF Credited(r, a) THEN req[r].amount ELSE 0)
  <1> DEFINE debit == Leg(r, 0, "DEBIT", acct[r])
             credit == Leg(r, 1, "CREDIT", Merchant)
             amount == req[r].amount
             before == EntriesOf(a)
             first == IF Debited(r, a) THEN before \cup {debit} ELSE before
  <1>1. /\ ledger_entries' = ledger_entries \cup work[r].legs
        /\ work[r].legs = IF work[r].txn.status = "POSTED" THEN {debit, credit} ELSE {}
    BY CommitAdds DEF BothLegs
  <1>2. amount \in Nat
    BY PurchaseAssumption DEF Ends, BooksInv, TypeInv, LocalInv, Running, InTxn, Calls
  <1>3. /\ Summable(before) /\ Total(before) = LedgerBalance(a) /\ Total(before) \in Int
    BY BalanceType DEF BooksInv, TypeInv, CoreTypeOK, LedgerBalance, Total
  <1>4. /\ SignedAmount(debit) = -amount /\ SignedAmount(credit) = amount
        /\ debit.account_id = acct[r] /\ credit.account_id = Merchant
        /\ debit.transaction_id = r /\ credit.transaction_id = r
        /\ debit.entry_index = 0 /\ credit.entry_index = 1
    BY DEF SignedAmount, Leg
  <1>5. debit \notin before /\ credit \notin before /\ debit # credit
    BY <1>4, NoEarlierLegs DEF EntriesOf
  <1>6. EntriesOf(a)' = IF Credited(r, a) THEN first \cup {credit} ELSE first
    BY <1>1, <1>4 DEF EntriesOf, Debited, Credited
  <1> HIDE DEF debit, credit, amount, before
  <1>7. /\ Summable(first) /\ credit \notin first
        /\ Total(first) = Total(before) - (IF Debited(r, a) THEN amount ELSE 0)
    BY <1>2, <1>3, <1>4, <1>5, TotalAdd
  <1> HIDE DEF first
  <1>8. Total(EntriesOf(a)') = Total(first) + (IF Credited(r, a) THEN amount ELSE 0)
    <2>1. Total(first) \in Int BY <1>7, TotalType
    <2> QED BY <1>2, <1>4, <1>6, <1>7, <2>1, TotalAdd
  <1>9. LedgerBalance(a)' = Total(EntriesOf(a)') BY DEF LedgerBalance, Total
  <1> QED BY <1>3, <1>7, <1>8, <1>9 DEF amount

\* However purchases interleave and whatever fails, every committed POSTED row has its
\* debit and its credit, every DECLINED row none, and no leg is without its row.
THEOREM BooksBalance == Spec => []DoubleEntry
  <1>1. Init => BooksInv BY BooksInvInit
  <1>2. BooksInv /\ [Next]_vars => BooksInv' BY BooksInvStep
  <1>3. BooksInv => DoubleEntry BY DEF BooksInv
  <1> QED BY <1>1, <1>2, <1>3, PTL DEF Spec

-----------------------------------------------------------------------------
(* The credit.  A balance that a self-heal computes from a ledger with     *)
(* fewer credits than debits could be below minus the credit limit, so     *)
(* these invariants need the rows to stay.                                 *)

NoDrop == "drop_snapshot" \notin Faults

\* Once its INSERT ... ON CONFLICT DO NOTHING is done, a snapshot is there, and the
\* self-heal branch is not reached.
HealInv ==
  \A r \in Requests :
    /\ pc[r] # "heal_snap"
    /\ pc[r] = "lock_snap" => Visible(r, acct[r]) # NULL

CreditInv ==
  /\ CreditNeverNegative
  /\ \A s \in Sessions, a \in Accounts :
       work[s].snap[a] # NULL => CreditLimit[a] + work[s].snap[a] >= 0

SolventInv == SafeInv /\ HealInv /\ CreditInv

LEMMA HealStep ==
  ASSUME TypeInv, HealInv, NEW r \in Requests, HandlerStep(r)
  PROVE  HealInv'
  <1>1. ASSUME NEW q \in Requests \ {r}
        PROVE  pc'[q] # "heal_snap" /\ (pc'[q] = "lock_snap" => Visible(q, acct[q])' # NULL)
    <2>1. Untouched(q) BY OthersUntouched DEF TypeInv
    <2>2. pc[q] = "lock_snap" => acct[q] \in Accounts
      BY DEF TypeInv, LocalInv, Chosen, InTxn
    <2> QED BY <2>1, <2>2, SnapshotsStay DEF TypeInv, HealInv, Untouched, Visible
  <1>2. pc'[r] # "heal_snap" /\ (pc'[r] = "lock_snap" => EnsureSnap(r))
    <2> USE DEF TypeInv, CoreTypeOK, HandlerTypeOK, HealInv, Goto, InTxn
    <2>1. CASE Outside(r) BY <2>1 DEF Outside
    <2>2. CASE Aborts(r) BY <2>2 DEF Aborts, Abort
    <2>3. CASE Ends(r) BY <2>3 DEF Ends
    <2>4. CASE Begin(r) BY <2>4 DEF Begin
    <2>5. CASE ChoosesAccount(r) BY <2>5 DEF ChoosesAccount
    <2>6. CASE InsertsRow(r) BY <2>6 DEF InsertsRow
    <2>7. CASE FkAccount(r) BY <2>7 DEF FkAccount
    <2>8. CASE LockAccount(r) BY <2>8 DEF LockAccount
    <2>9. CASE EnsureSnap(r) BY <2>9 DEF EnsureSnap
    <2>10. CASE LocksSnap(r) BY <2>10 DEF LocksSnap, Decide
    <2>15. CASE FindsNone(r) BY <2>15 DEF FindsNone
    <2>16. CASE Heals(r) BY <2>16 DEF Heals
    <2>11. CASE InsertLedger(r) BY <2>11 DEF InsertLedger
    <2>12. CASE UpdateSnap(r) BY <2>12 DEF UpdateSnap
    <2>13. CASE Mark(r) BY <2>13 DEF Mark
    <2>14. CASE Publishes(r) BY <2>14 DEF Publishes
    <2> QED BY <2>1, <2>2, <2>3, <2>4, <2>5, <2>6, <2>7, <2>8, <2>9, <2>10, <2>11, <2>12, <2>13, <2>14,
               <2>15, <2>16
            DEF HandlerStep
  <1>3. ASSUME EnsureSnap(r) PROVE Visible(r, acct[r])' # NULL
    <2>1. acct[r] \in Accounts /\ r \in Sessions /\ work[r] \in Works
      BY <1>3, RequestsAreSessions
      DEF EnsureSnap, TypeInv, CoreTypeOK, DBTypeOK, LocalInv, Chosen, InTxn
    <2>2. UNCHANGED <<acct, snapshots>> BY <1>3 DEF EnsureSnap, tables
    <2>3. CASE Visible(r, acct[r]) # NULL
      BY <1>3, <2>2, <2>3 DEF EnsureSnap, EnsureSnapRow, Visible
    <2>4. CASE Visible(r, acct[r]) = NULL
      <3>1. work'[r].snap[acct[r]] = 0
        BY <1>3, <2>1, <2>4 DEF EnsureSnap, EnsureSnapRow, TypeInv, CoreTypeOK, DBTypeOK, Works
      <3> QED BY <2>2, <3>1, DBAssumption DEF Visible
    <2> QED BY <2>3, <2>4
  <1> QED BY <1>1, <1>2, <1>3 DEF HealInv

LEMMA CreditStep ==
  ASSUME TypeInv, ApprovalInv, HealInv, CreditInv, NEW r \in Requests, HandlerStep(r)
  PROVE  CreditInv'
  <1>a. r \in Sessions /\ work[r] \in Works /\ work \in [Sessions -> Works]
        /\ work[r].snap \in [Accounts -> Int \cup {NULL}]
    BY RequestsAreSessions DEF TypeInv, CoreTypeOK, DBTypeOK, Works
  <1>b. \A s \in Sessions \ {r} : work'[s] = work[s] BY OtherSessions DEF TypeInv
  <1>c. ~Ends(r) => UNCHANGED snapshots BY TablesStay DEF tables
  <1> USE DEF CreditInv, CreditNeverNegative, AvailableOn
  <1>1. CASE Aborts(r) \/ Ends(r)
    <2>1. \A a \in Accounts : work'[r].snap[a] = NULL
      BY <1>1, Released DEF TypeInv, NoWork
    <2>2. CASE Ends(r)
      <3>1. \A a \in Accounts : snapshots'[a] = Visible(r, a) BY <2>2 DEF Ends, Publish
      <3> QED BY <1>a, <1>b, <2>1, <3>1 DEF Visible
    <2>3. CASE ~Ends(r) BY <1>b, <1>c, <2>1, <2>3
    <2> QED BY <2>2, <2>3
  <1>2. CASE EnsureSnap(r)
    <2>1. acct[r] \in Accounts BY <1>2 DEF EnsureSnap, TypeInv, LocalInv, Chosen, InTxn
    <2>2. \/ UNCHANGED work
          \/ work'[r].snap = [work[r].snap EXCEPT ![acct[r]] = 0]
      BY <1>2, <1>a, <2>1 DEF EnsureSnap, EnsureSnapRow, Works
    <2>3. UNCHANGED snapshots BY <1>2 DEF EnsureSnap, tables
    <2> QED BY <1>a, <1>b, <2>1, <2>2, <2>3, DBAssumption
  <1>3. CASE UpdateSnap(r)
    <2>1. /\ acct[r] \in Accounts /\ req[r].amount \in Nat /\ bal[r] \in Int
          /\ CreditLimit[acct[r]] \in Nat
          /\ req[r].amount <= CreditLimit[acct[r]] + bal[r]
      BY <1>3, ApprovedFacts DEF UpdateSnap, ApprovalInv
    <2>2. work'[r].snap = [work[r].snap EXCEPT ![acct[r]] = bal[r] - req[r].amount]
      BY <1>3, <1>a DEF UpdateSnap, WriteSnap, Works
    <2>3. UNCHANGED snapshots BY <1>3 DEF UpdateSnap, tables
    <2>4. CreditLimit[acct[r]] + (bal[r] - req[r].amount) >= 0 BY <2>1
    <2> QED BY <1>a, <1>b, <2>1, <2>2, <2>3, <2>4
  <1>4. CASE ~Aborts(r) /\ ~Ends(r) /\ ~EnsureSnap(r) /\ ~UpdateSnap(r)
    <2>1. work'[r].snap = work[r].snap
      <3>1. CASE LocksSnap(r)
        BY <3>1, <1>a DEF LocksSnap, SnapLock, Works
      <3>2. ~Heals(r) BY DEF Heals, HealInv
      <3>3. CASE ~LocksSnap(r) BY <1>4, <3>2, <3>3, SameSnap DEF TypeInv
      <3> QED BY <3>1, <3>3
    <2> QED BY <1>4, <1>a, <1>b, <1>c, <2>1
  <1> QED BY <1>1, <1>2, <1>3, <1>4

LEMMA SolventInit == Init => SolventInv
  <1> SUFFICES ASSUME Init PROVE HealInv /\ CreditInv BY SafeInvInit DEF SolventInv
  <1>1. /\ work = [s \in Sessions |-> NoWork] /\ pc = [r \in Requests |-> "idle"]
        /\ \A a \in Accounts : snapshots[a] \in {0, NULL}
    BY DEF Init, DBInit
  <1>2. HealInv BY <1>1 DEF HealInv
  <1>3. CreditInv
    BY <1>1, DBAssumption DEF CreditInv, CreditNeverNegative, AvailableOn, NoWork
  <1> QED BY <1>2, <1>3

\* The service stops.
LEMMA CrashSolvent == ASSUME SolventInv, Crash PROVE HealInv' /\ CreditInv'
  <1>1. UNCHANGED tables BY DEF Crash
  <1>2. \A s \in Sessions : work'[s] = work[s] \/ work'[s] = NoWork
    BY DEF Crash, SolventInv
  <1>3. \A r \in Requests : pc'[r] \notin Running
    BY DEF Crash, Live, Running, BeforeTxn, InTxn, AfterTxn
  <1>4. \A a \in Accounts : NoWork.snap[a] = NULL BY DEF NoWork
  <1> HIDE DEF NoWork
  <1>5. HealInv' BY <1>3 DEF HealInv, Running, InTxn
  <1>6. CreditInv'
    BY <1>1, <1>2, <1>4 DEF SolventInv, CreditInv, CreditNeverNegative, AvailableOn, tables
  <1> QED BY <1>5, <1>6

\* A snapshot row is corrupted, upwards, or an account's status is changed.
LEMMA OperatorSolvent ==
  ASSUME SolventInv, NEW a \in Accounts, CorruptSnapshot(a) \/ SetStatus(a)
  PROVE  HealInv' /\ CreditInv'
  <1>1. UNCHANGED <<work, pc, acct>> BY DEF CorruptSnapshot, SetStatus, locals
  <1>2. /\ snapshots \in [Accounts -> Int \cup {NULL}]
        /\ \A b \in Accounts : CreditLimit[b] \in Nat
        /\ \A r \in Requests : pc[r] = "lock_snap" => acct[r] \in Accounts
    BY DBAssumption
    DEF SolventInv, SafeInv, TypeInv, CoreTypeOK, DBTypeOK, LocalInv, Chosen, InTxn
  <1>3. \/ UNCHANGED snapshots
        \/ /\ snapshots[a] \in Int
           /\ snapshots' = [snapshots EXCEPT ![a] = snapshots[a] + 1]
    BY <1>2 DEF CorruptSnapshot, SetStatus
  <1>4. \A b \in Accounts :
          /\ snapshots[b] # NULL => snapshots'[b] # NULL
          /\ AvailableOn(b) >= 0 => AvailableOn(b)' >= 0
    BY <1>2, <1>3, DBAssumption DEF AvailableOn
  <1>5. HealInv' BY <1>1, <1>2, <1>4 DEF SolventInv, HealInv, Visible
  <1>6. CreditInv' BY <1>1, <1>4 DEF SolventInv, CreditInv, CreditNeverNegative
  <1> QED BY <1>5, <1>6

LEMMA SolventStep ==
  ASSUME SolventInv, [Next]_vars, \A a \in Accounts : ~DropSnapshot(a)
  PROVE  SolventInv'
  <1>1. SafeInv' BY SafeInvStep DEF SolventInv
  <1>2. HealInv' /\ CreditInv'
    <2>1. CASE \E r \in Requests : HandlerStep(r)
      BY <2>1, HealStep, CreditStep DEF SolventInv, SafeInv
    <2>2. CASE Crash BY <2>2, CrashSolvent
    <2>3. CASE \E a \in Accounts : Operator(a)
      BY <2>3, OperatorSolvent DEF Operator
    <2>4. CASE UNCHANGED core
      BY <2>4 DEF core, tables, SolventInv, HealInv, Visible, CreditInv,
                  CreditNeverNegative, AvailableOn
    <2> QED BY <2>1, <2>2, <2>3, <2>4, NextCases DEF SolventInv, SafeInv
  <1> QED BY <1>1, <1>2 DEF SolventInv

\* No interleaving of purchases, with or without faults, takes the balance the
\* credit check reads below minus the credit limit.
THEOREM CreditIsNeverNegative == ASSUME NoDrop PROVE Spec => []CreditNeverNegative
  <1>1. Init => SolventInv BY SolventInit
  <1>2. SolventInv /\ [Next]_vars => SolventInv'
    BY SolventStep DEF NoDrop, DropSnapshot, Fault
  <1>3. SolventInv => CreditNeverNegative BY DEF SolventInv, CreditInv
  <1> QED BY <1>1, <1>2, <1>3, PTL DEF Spec
=============================================================================
