---------------------- MODULE PurchaseRefinementProofs ----------------------
(***************************************************************************)
(* POST /purchase implements the atomic purchase, for any constants and    *)
(* every fault that leaves the snapshot rows alone.  A commit decides what *)
(* the snapshot, the status and the currency call for at that very moment, *)
(* although they were read many statements earlier.  And so the snapshots  *)
(* stay the sums of the ledger, which no order of purchases overspends.    *)
(***************************************************************************)
EXTENDS PurchaseProofs, PurchaseRefinement

\* Nobody but the handlers writes a snapshot row.
SnapshotsOwned == NoDrop /\ "corrupt_snapshot" \notin Faults

\* A request whose new balance is written and whose row is, or will be, POSTED.
Paid(r) ==
  \/ pc[r] = "mark_posted"
  \/ pc[r] \in {"set_final", "del_lock", "commit"} /\ work[r].txn.status = "POSTED"

\* The credit a request's COMMIT would leave.
AvailableAfter(r, a) ==
  CreditLimit[a] + (IF Visible(r, a) = NULL THEN 0 ELSE Visible(r, a))

\* COMMIT takes the amount from the account of a posting, and nothing from any other.
EffectAt(r) ==
  \A a \in Accounts :
    AvailableAfter(r, a) = AvailableOn(a) - (IF Paid(r) /\ a = acct[r] THEN req[r].amount ELSE 0)

EffectInv == \A r \in Requests : EffectAt(r)

Refused(r) ==
  \/ pc[r] = "mark_declined"
  \/ pc[r] \in {"set_final", "del_lock", "commit"} /\ work[r].txn.status = "DECLINED"

\* A refusal's reason lasts until COMMIT: the locks it was found under are held.
Reason(r) ==
  \/ acct[r] \in work[r].excl /\ status[acct[r]] # "ACTIVE"
  \/ req[r].currency # Currency[acct[r]]
  \/ acct[r] \in work[r].snaplock /\ req[r].amount > AvailableOn(acct[r])

ReasonAt(r) ==
  /\ Refused(r) => Reason(r)
  /\ WillPost(r) => req[r].currency = Currency[acct[r]]
  /\ Paid(r) => acct[r] \in work[r].snaplock

ReasonInv == \A r \in Requests : ReasonAt(r)

DecisionInv == SolventInv /\ BooksInv /\ EffectInv /\ ReasonInv

-----------------------------------------------------------------------------
(* The values arithmetic needs.                                            *)

LEMMA CreditTypes ==
  ASSUME CoreTypeOK, NEW a \in Accounts
  PROVE  /\ CreditLimit[a] \in Nat /\ AvailableOn(a) \in Int
         /\ snapshots[a] \in Int \cup {NULL} /\ NULL \notin Int
         /\ \A r \in Requests : AvailableAfter(r, a) \in Int
  <1>1. CreditLimit[a] \in Nat /\ snapshots[a] \in Int \cup {NULL} /\ NULL \notin Int
    BY DBAssumption DEF CoreTypeOK, DBTypeOK
  <1>2. \A r \in Requests : Visible(r, a) \in Int \cup {NULL}
    BY <1>1, RequestsAreSessions DEF Visible, CoreTypeOK, DBTypeOK, Works
  <1> QED BY <1>1, <1>2 DEF AvailableOn, AvailableAfter

\* Nobody else's COMMIT moves the credit of an account whose snapshot row is locked.
LEMMA LockedCredit ==
  ASSUME TypeInv, SnapLockInv, NEW r \in Requests, HandlerStep(r),
         NEW q \in Sessions \ {r}, NEW a \in Accounts, a \in work[q].snaplock
  PROVE  snapshots'[a] = snapshots[a]
  <1>1. CASE Ends(r)
    <2>1. a \notin work[r].snaplock BY RequestsAreSessions DEF SnapLockInv
    <2>2. work[r].snap[a] = NULL BY <2>1, RequestsAreSessions DEF SnapLockInv
    <2> QED BY <1>1, <2>2 DEF Ends, Publish, Visible
  <1>2. CASE ~Ends(r) BY <1>2, TablesStay DEF tables
  <1> QED BY <1>1, <1>2

-----------------------------------------------------------------------------
(* What COMMIT will take.                                                  *)

LEMMA EffectOthers ==
  ASSUME DecisionInv, TypeInv', NEW r \in Requests, HandlerStep(r), NEW q \in Requests \ {r}
  PROVE  EffectAt(q)'
  <1>a. TypeInv /\ SnapLockInv /\ EffectAt(q) /\ ReasonAt(q)
    BY DEF DecisionInv, SolventInv, SafeInv, EffectInv, ReasonInv
  <1>1. Untouched(q) BY <1>a, OthersUntouched DEF TypeInv
  <1>2. Paid(q)' <=> Paid(q) BY <1>1 DEF Paid, Untouched
  <1>3. ASSUME NEW a \in Accounts
        PROVE  AvailableAfter(q, a)' = AvailableOn(a)' - (IF Paid(q)' /\ a = acct'[q] THEN req'[q].amount ELSE 0)
    <2>1. CASE snapshots'[a] = snapshots[a]
      BY <1>a, <1>1, <1>2, <2>1 DEF EffectAt, AvailableAfter, AvailableOn, Visible, Untouched
    <2>2. CASE a \notin work[q].snaplock
      <3>1. work[q].snap[a] = NULL BY <1>a, <2>2, RequestsAreSessions DEF SnapLockInv
      <3>2. AvailableAfter(q, a)' = AvailableOn(a)'
        BY <1>1, <3>1 DEF AvailableAfter, AvailableOn, Visible, Untouched
      <3>3. ~(Paid(q)' /\ a = acct'[q]) BY <1>a, <1>1, <1>2, <2>2 DEF ReasonAt, Untouched
      <3>4. AvailableOn(a)' \in Int
        BY DBAssumption DEF AvailableOn, TypeInv, CoreTypeOK, DBTypeOK
      <3> QED BY <3>2, <3>3, <3>4
    <2> QED BY <1>a, <2>1, <2>2, LockedCredit, RequestsAreSessions
  <1> QED BY <1>3 DEF EffectAt

\* Only the new balance pays, and only COMMIT or ROLLBACK ends it.
LEMMA PaidKept ==
  ASSUME TypeInv, NEW r \in Requests, HandlerStep(r), ~Aborts(r), ~Ends(r), ~UpdateSnap(r)
  PROVE  \/ ~Paid(r) /\ ~Paid(r)'
         \/ Paid(r) /\ Paid(r)' /\ UNCHANGED <<req, acct>>
  <1>a. /\ work[r] \in Works /\ r \in Sessions
        /\ work \in [Sessions -> Works] /\ pc \in [Requests -> Labels]
    BY RequestsAreSessions DEF TypeInv, CoreTypeOK, DBTypeOK, HandlerTypeOK
  <1>1. CASE Mark(r)
    <2>1. work[r].txn \in Rows BY <1>1, <1>a DEF Mark, TypeInv, LocalInv, Inserted, Chosen, InTxn
    <2>2. PICK st \in Decided :
            /\ SetTxnStatus(r, st)
            /\ pc[r] = IF st = "POSTED" THEN "mark_posted" ELSE "mark_declined"
      BY <1>1 DEF Mark, Decided
    <2>3. work'[r].txn.status = st BY <1>a, <2>1, <2>2 DEF SetTxnStatus, Works, Rows
    <2>4. pc'[r] = "set_final" /\ UNCHANGED <<req, acct>> BY <1>1, <1>a DEF Mark, Goto
    <2> QED BY <2>2, <2>3, <2>4 DEF Paid
  <1>2. CASE Publishes(r)
    <2>1. UNCHANGED <<req, acct, work>> /\ pc[r] \in {"set_final", "del_lock"}
          /\ pc'[r] \in {"del_lock", "commit"}
      BY <1>2, <1>a DEF Publishes, Goto
    <2> QED BY <2>1 DEF Paid
  <1>3. CASE \/ Outside(r) \/ Begin(r) \/ ChoosesAccount(r) \/ InsertsRow(r)
             \/ FkAccount(r) \/ LockAccount(r) \/ EnsureSnap(r) \/ LocksSnap(r)
             \/ FindsNone(r) \/ Heals(r) \/ InsertLedger(r)
    BY <1>3, <1>a
    DEF Outside, Begin, ChoosesAccount, InsertsRow, FkAccount, LockAccount, EnsureSnap,
        LocksSnap, FindsNone, Heals, InsertLedger, Decide, Goto, InTxn, Paid
  <1> QED BY <1>1, <1>2, <1>3 DEF HandlerStep

LEMMA EffectOwn ==
  ASSUME DecisionInv, TypeInv', NEW r \in Requests, HandlerStep(r)
  PROVE  EffectAt(r)'
  <1>a. /\ TypeInv /\ HealInv /\ ApprovalInv /\ EffectAt(r) /\ r \in Sessions
        /\ work[r] \in Works /\ work \in [Sessions -> Works] /\ pc \in [Requests -> Labels]
    BY RequestsAreSessions
    DEF DecisionInv, SolventInv, SafeInv, EffectInv, TypeInv, CoreTypeOK, DBTypeOK, HandlerTypeOK
  <1>b. \A a \in Accounts : AvailableOn(a)' \in Int
    BY DBAssumption DEF AvailableOn, TypeInv, CoreTypeOK, DBTypeOK
  <1>c. \A a \in Accounts : AvailableOn(a) \in Int BY <1>a, CreditTypes DEF TypeInv
  <1>d. ~Heals(r) BY <1>a DEF Heals, HealInv
  <1>1. CASE Aborts(r) \/ Ends(r)
    <2>1. \A a \in Accounts : work'[r].snap[a] = NULL
      BY <1>1, <1>a, Released DEF TypeInv, NoWork
    <2>2. ~Paid(r)' BY <1>1, <1>a DEF Aborts, Abort, Ends, Goto, Paid
    <2> QED BY <1>b, <2>1, <2>2 DEF EffectAt, AvailableAfter, AvailableOn, Visible
  <1>2. CASE EnsureSnap(r)
    <2>1. acct[r] \in Accounts BY <1>2, <1>a DEF EnsureSnap, TypeInv, LocalInv, Chosen, InTxn
    <2>2. UNCHANGED snapshots /\ ~Paid(r) /\ ~Paid(r)'
      BY <1>2, <1>a DEF EnsureSnap, tables, Paid, Goto
    <2>3. \/ work'[r].snap = work[r].snap
          \/ /\ Visible(r, acct[r]) = NULL
             /\ work'[r].snap = [work[r].snap EXCEPT ![acct[r]] = 0]
      BY <1>2, <1>a, <2>1 DEF EnsureSnap, EnsureSnapRow, Works
    <2>4. work[r].snap \in [Accounts -> Int \cup {NULL}] BY <1>a DEF Works
    <2>5. \A a \in Accounts : AvailableAfter(r, a)' = AvailableAfter(r, a)
      BY <2>1, <2>2, <2>3, <2>4, DBAssumption DEF AvailableAfter, Visible
    <2> QED BY <1>a, <2>2, <2>5 DEF EffectAt, AvailableOn
  <1>3. CASE UpdateSnap(r)
    <2>1. /\ acct[r] \in Accounts /\ req[r].amount \in Nat /\ bal[r] \in Int
          /\ CreditLimit[acct[r]] \in Nat /\ bal[r] = Visible(r, acct[r])
      BY <1>3, <1>a, ApprovedFacts DEF UpdateSnap, ApprovalInv
    <2>2. /\ UNCHANGED <<snapshots, req, acct>> /\ ~Paid(r) /\ Paid(r)'
      BY <1>3, <1>a DEF UpdateSnap, tables, Paid, Goto
    <2>3. work'[r].snap = [work[r].snap EXCEPT ![acct[r]] = bal[r] - req[r].amount]
      BY <1>3, <1>a, <2>1 DEF UpdateSnap, WriteSnap, Works
    <2>4. work[r].snap \in [Accounts -> Int \cup {NULL}] BY <1>a DEF Works
    <2>5. \A a \in Accounts \ {acct[r]} : AvailableAfter(r, a)' = AvailableAfter(r, a)
      BY <2>1, <2>2, <2>3, <2>4 DEF AvailableAfter, Visible
    <2>6. AvailableAfter(r, acct[r])' = CreditLimit[acct[r]] + (bal[r] - req[r].amount)
      BY <2>1, <2>2, <2>3, <2>4, DBAssumption DEF AvailableAfter, Visible
    <2>7. AvailableOn(acct[r]) = CreditLimit[acct[r]] + bal[r]
      BY <1>a, <1>c, <2>1, <2>2, DBAssumption DEF EffectAt, AvailableAfter
    <2>8. \A a \in Accounts : AvailableOn(a)' = AvailableOn(a) BY <2>2 DEF AvailableOn
    <2>9. \A a \in Accounts : AvailableAfter(r, a) = AvailableOn(a)
      BY <1>a, <1>c, <2>2 DEF EffectAt
    <2>10. AvailableAfter(r, acct[r])' = AvailableOn(acct[r])' - req'[r].amount
      BY <2>1, <2>2, <2>6, <2>7, <2>8
    <2>11. \A a \in Accounts \ {acct[r]} : AvailableAfter(r, a)' = AvailableOn(a)' - 0
      BY <1>b, <2>5, <2>8, <2>9
    <2> QED BY <2>1, <2>2, <2>10, <2>11 DEF EffectAt
  <1>4. CASE ~Aborts(r) /\ ~Ends(r) /\ ~EnsureSnap(r) /\ ~UpdateSnap(r)
    <2>1. work'[r].snap = work[r].snap
      <3>1. CASE LocksSnap(r) BY <3>1, <1>a DEF LocksSnap, SnapLock, Works
      <3>2. CASE ~LocksSnap(r) BY <1>4, <1>a, <1>d, <3>2, SameSnap DEF TypeInv
      <3> QED BY <3>1, <3>2
    <2>2. UNCHANGED snapshots BY <1>4, TablesStay DEF tables
    <2>3. \A a \in Accounts : /\ AvailableAfter(r, a)' = AvailableAfter(r, a)
                             /\ AvailableOn(a)' = AvailableOn(a)
      BY <2>1, <2>2 DEF AvailableAfter, AvailableOn, Visible
    <2>4. \/ ~Paid(r) /\ ~Paid(r)'
          \/ Paid(r) /\ Paid(r)' /\ UNCHANGED <<req, acct>>
      BY <1>4, <1>a, PaidKept DEF TypeInv
    <2> QED BY <1>a, <2>3, <2>4 DEF EffectAt
  <1> QED BY <1>1, <1>2, <1>3, <1>4

-----------------------------------------------------------------------------
(* Why it refuses, or may post.                                            *)

LEMMA ReasonOthers ==
  ASSUME DecisionInv, NEW r \in Requests, HandlerStep(r), NEW q \in Requests \ {r}
  PROVE  ReasonAt(q)'
  <1>a. TypeInv /\ SnapLockInv /\ ReasonAt(q)
    BY DEF DecisionInv, SolventInv, SafeInv, ReasonInv
  <1>1. Untouched(q) BY <1>a, OthersUntouched DEF TypeInv
  <1>2. UNCHANGED status
    <2>1. CASE Ends(r) BY <2>1 DEF Ends, Publish
    <2>2. CASE ~Ends(r) BY <2>2, TablesStay DEF tables
    <2> QED BY <2>1, <2>2
  <1>3. work[q].snaplock \subseteq Accounts
    BY <1>a, RequestsAreSessions DEF TypeInv, CoreTypeOK, DBTypeOK, Works
  <1>4. acct[q] \in work[q].snaplock => snapshots'[acct[q]] = snapshots[acct[q]]
    BY <1>a, <1>3, LockedCredit, RequestsAreSessions
  <1>5. Reason(q) => Reason(q)'
    BY <1>1, <1>2, <1>4 DEF Reason, AvailableOn, Untouched
  <1> QED BY <1>a, <1>1, <1>5 DEF ReasonAt, Refused, WillPost, Paid, Untouched

LEMMA ReasonOwn ==
  ASSUME DecisionInv, NEW r \in Requests, HandlerStep(r)
  PROVE  ReasonAt(r)'
  <1>a. /\ TypeInv /\ HealInv /\ ApprovalInv /\ EffectAt(r) /\ ReasonAt(r) /\ r \in Sessions
        /\ work[r] \in Works /\ work \in [Sessions -> Works] /\ pc \in [Requests -> Labels]
    BY RequestsAreSessions
    DEF DecisionInv, SolventInv, SafeInv, EffectInv, ReasonInv, TypeInv, CoreTypeOK, DBTypeOK,
        HandlerTypeOK
  <1>b. ~Ends(r) => UNCHANGED <<status, snapshots>> BY TablesStay DEF tables
  <1> USE DEF Goto
  <1>1. CASE \/ Outside(r) \/ Aborts(r) \/ Ends(r) \/ Begin(r) \/ ChoosesAccount(r)
             \/ InsertsRow(r) \/ FkAccount(r)
    <2>1. pc'[r] \notin InTxn \/ pc'[r] \in {"find_account", "insert_txn", "fk_account", "lock_account"}
      BY <1>1, <1>a
      DEF Outside, Aborts, Abort, Ends, Begin, ChoosesAccount, InsertsRow, FkAccount, InTxn
    <2> QED BY <2>1 DEF ReasonAt, Refused, WillPost, Paid, InTxn
  <1>2. CASE LockAccount(r)
    <2>1. acct[r] \in work'[r].excl /\ UNCHANGED <<status, req, acct>>
      BY <1>2, <1>a DEF LockAccount, ExclLock, Works, tables
    <2>2. pc'[r] = IF Chargeable(r) THEN "ensure_snap" ELSE "mark_declined"
      BY <1>2, <1>a DEF LockAccount
    <2> QED BY <2>1, <2>2 DEF ReasonAt, Refused, WillPost, Paid, Reason, Chargeable
  <1>3. CASE EnsureSnap(r) \/ InsertLedger(r)
    <2>1. WillPost(r) /\ UNCHANGED <<req, acct>> /\ pc'[r] \in {"lock_snap", "update_snap"}
      BY <1>3, <1>a DEF EnsureSnap, InsertLedger, WillPost
    <2> QED BY <1>a, <2>1 DEF ReasonAt, Refused, WillPost, Paid
  <1>4. CASE LocksSnap(r)
    <2>1. /\ acct[r] \in Accounts /\ Visible(r, acct[r]) # NULL
          /\ WillPost(r) /\ ~Paid(r)
      BY <1>4, <1>a DEF LocksSnap, TypeInv, LocalInv, Chosen, InTxn, WillPost, Paid
    <2>2. acct[r] \in work'[r].snaplock /\ UNCHANGED <<status, snapshots, req, acct>>
      BY <1>4, <1>a, <2>1 DEF LocksSnap, SnapLock, Works, tables
    <2>3. pc'[r] = IF req[r].amount > Available(r, Visible(r, acct[r]))
                   THEN "mark_declined" ELSE "insert_ledger"
      BY <1>4, <1>a, <2>1 DEF LocksSnap, Decide
    <2>4. AvailableOn(acct[r]) = Available(r, Visible(r, acct[r]))
      BY <1>a, <2>1, CreditTypes DEF EffectAt, AvailableAfter, Available, TypeInv
    <2>5. AvailableOn(acct[r])' = AvailableOn(acct[r]) BY <2>2 DEF AvailableOn
    <2> QED BY <1>a, <2>1, <2>2, <2>3, <2>4, <2>5
            DEF ReasonAt, Refused, WillPost, Paid, Reason
  <1>5. CASE UpdateSnap(r)
    <2>1. acct[r] \in work'[r].snaplock /\ UNCHANGED <<req, acct>>
      BY <1>5, <1>a DEF UpdateSnap, WriteSnap, Works
    <2>2. WillPost(r) /\ pc'[r] = "mark_posted" BY <1>5, <1>a DEF UpdateSnap, WillPost
    <2> QED BY <1>a, <2>1, <2>2 DEF ReasonAt, Refused, WillPost, Paid
  <1>6. CASE Mark(r)
    <2>1. work[r].txn \in Rows BY <1>6, <1>a DEF Mark, TypeInv, LocalInv, Inserted, Chosen, InTxn
    <2>2. PICK st \in Decided :
            /\ SetTxnStatus(r, st)
            /\ pc[r] = IF st = "POSTED" THEN "mark_posted" ELSE "mark_declined"
      BY <1>6 DEF Mark, Decided
    <2>3. /\ work'[r].txn.status = st /\ work'[r].excl = work[r].excl
          /\ work'[r].snaplock = work[r].snaplock
      BY <1>a, <2>1, <2>2 DEF SetTxnStatus, Works, Rows
    <2>4. pc'[r] = "set_final" /\ UNCHANGED <<status, snapshots, req, acct>>
      BY <1>6, <1>a DEF Mark, tables
    <2>5. Reason(r) => Reason(r)' BY <2>3, <2>4 DEF Reason, AvailableOn
    <2> QED BY <1>a, <2>2, <2>3, <2>4, <2>5 DEF ReasonAt, Refused, WillPost, Paid, Decided
  <1>7. CASE Publishes(r)
    <2>1. /\ pc[r] \in {"set_final", "del_lock"} /\ pc'[r] \in {"del_lock", "commit"}
          /\ UNCHANGED <<status, snapshots, work, req, acct>>
      BY <1>7, <1>a DEF Publishes, tables
    <2>2. Reason(r) => Reason(r)' BY <2>1 DEF Reason, AvailableOn
    <2> QED BY <1>a, <2>1, <2>2 DEF ReasonAt, Refused, WillPost, Paid
  <1>8. ~FindsNone(r) /\ ~Heals(r) BY <1>a DEF FindsNone, Heals, HealInv
  <1> QED BY <1>1, <1>2, <1>3, <1>4, <1>5, <1>6, <1>7, <1>8 DEF HandlerStep

-----------------------------------------------------------------------------
(* The invariant.                                                          *)

LEMMA DecisionInit == Init => DecisionInv
  <1> SUFFICES ASSUME Init PROVE EffectInv /\ ReasonInv
    BY SolventInit, BooksInvInit DEF DecisionInv
  <1>1. /\ pc = [r \in Requests |-> "idle"] /\ work = [s \in Sessions |-> NoWork]
        /\ \A a \in Accounts : AvailableOn(a) \in Int
    BY TypeInvInit, CreditTypes DEF Init, DBInit, TypeInv
  <1>2. \A r \in Requests, a \in Accounts : work[r].snap[a] = NULL
    BY <1>1, RequestsAreSessions DEF NoWork
  <1> QED BY <1>1, <1>2
          DEF EffectInv, EffectAt, AvailableAfter, AvailableOn, Visible, ReasonInv, ReasonAt,
              Refused, WillPost, Paid

\* A crash drops what a COMMIT would have taken.
LEMMA DecisionCrash == ASSUME DecisionInv, TypeInv', Crash PROVE EffectInv' /\ ReasonInv'
  <1>1. \A r \in Requests : work'[r] = NoWork /\ pc'[r] \notin InTxn
    BY RequestsAreSessions DEF Crash, Live, Running, InTxn
  <1>2. UNCHANGED snapshots BY DEF Crash, tables
  <1>3. \A r \in Requests : ~Paid(r)' /\ ~Refused(r)' /\ ~WillPost(r)'
    BY <1>1 DEF Paid, Refused, WillPost, InTxn
  <1>4. \A a \in Accounts : AvailableOn(a)' \in Int
    BY DBAssumption DEF AvailableOn, TypeInv, CoreTypeOK, DBTypeOK
  <1>5. \A r \in Requests, a \in Accounts : AvailableAfter(r, a)' = AvailableOn(a)'
    BY <1>1 DEF NoWork, AvailableAfter, AvailableOn, Visible
  <1> QED BY <1>3, <1>4, <1>5 DEF EffectInv, EffectAt, ReasonInv, ReasonAt

LEMMA DecisionStatus ==
  ASSUME DecisionInv, NEW a \in Accounts, SetStatus(a)
  PROVE  EffectInv' /\ ReasonInv'
  <1>1. UNCHANGED <<snapshots, work, pc, req, acct>> BY DEF SetStatus, locals
  <1>2. EffectInv'
    BY <1>1 DEF DecisionInv, EffectInv, EffectAt, AvailableAfter, AvailableOn, Visible, Paid
  <1>3. ASSUME NEW r \in Requests, Reason(r) PROVE Reason(r)'
    <2>1. acct[r] \in work[r].excl => acct[r] # a
      BY RequestsAreSessions DEF SetStatus
    <2>2. \A b : b # a => status'[b] = status[b]
      BY DEF SetStatus, DecisionInv, SolventInv, SafeInv, TypeInv, CoreTypeOK, DBTypeOK
    <2> QED BY <1>1, <1>3, <2>1, <2>2 DEF Reason, AvailableOn
  <1>4. ReasonInv'
    BY <1>1, <1>3 DEF DecisionInv, ReasonInv, ReasonAt, Refused, WillPost, Paid
  <1> QED BY <1>2, <1>4

\* Nobody but a handler changes a snapshot row in this step.
RowsLeftAlone == \A a \in Accounts : ~DropSnapshot(a) /\ ~CorruptSnapshot(a)

LEMMA OwnedRows == ASSUME SnapshotsOwned PROVE RowsLeftAlone
  BY DEF SnapshotsOwned, NoDrop, RowsLeftAlone, DropSnapshot, CorruptSnapshot, Fault

LEMMA DecisionHandler ==
  ASSUME DecisionInv, TypeInv', NEW r \in Requests, HandlerStep(r)
  PROVE  DecisionInv'
  <1>1. SafeInv'
    BY KeyStep, SnapLockStep, ApprovalStep, ActiveStep DEF DecisionInv, SolventInv, SafeInv
  <1>2. HealInv' /\ CreditInv'
    BY HealStep, CreditStep DEF DecisionInv, SolventInv, SafeInv
  <1>3. BooksInv' BY BooksStep DEF DecisionInv, BooksInv
  <1>4. EffectInv' /\ ReasonInv'
    BY EffectOthers, EffectOwn, ReasonOthers, ReasonOwn DEF EffectInv, ReasonInv
  <1> QED BY <1>1, <1>2, <1>3, <1>4 DEF DecisionInv, SolventInv

LEMMA DecisionStep ==
  ASSUME DecisionInv, RowsLeftAlone, [Next]_vars
  PROVE  DecisionInv'
  <1>1. SolventInv' /\ BooksInv' /\ TypeInv'
    BY SolventStep, BooksInvStep DEF DecisionInv, RowsLeftAlone, BooksInv
  <1>2. CASE \E r \in Requests : HandlerStep(r) BY <1>1, <1>2, DecisionHandler
  <1>3. CASE Crash BY <1>1, <1>3, DecisionCrash DEF DecisionInv
  <1>4. CASE \E a \in Accounts : Operator(a)
    BY <1>1, <1>4, DecisionStatus DEF Operator, RowsLeftAlone, DecisionInv
  <1>5. CASE UNCHANGED core
    BY <1>1, <1>5
    DEF core, tables, DecisionInv, EffectInv, EffectAt, AvailableAfter, AvailableOn,
        Visible, ReasonInv, ReasonAt, Reason, Refused, WillPost, Paid
  <1> QED BY <1>2, <1>3, <1>4, <1>5, NextCases DEF DecisionInv, BooksInv

-----------------------------------------------------------------------------
(* The refinement.                                                         *)

\* COMMIT adds the first row of its key.
LEMMA CommitOutcome ==
  ASSUME DecisionInv, NEW r \in Requests, Ends(r), NEW k, k = slot(r),
         NEW row, row = work[r].txn
  PROVE  /\ k \in Slots /\ OutcomeOf(k) = NULL /\ OutcomeOf(k)' = AbstractRow(row)
         /\ \A j \in Slots \ {k} : OutcomeOf(j)' = OutcomeOf(j)
  <1>a. TypeInv /\ KeyInv /\ r \in Sessions /\ transactions \subseteq Rows
    BY RequestsAreSessions DEF DecisionInv, SolventInv, SafeInv, TypeInv, CoreTypeOK, DBTypeOK
  <1>1. k \in Slots
    BY <1>a, SlotType DEF Ends, TypeInv, Running, InTxn
  <1>2. /\ transactions' = transactions \cup {row} /\ row # NULL
        /\ k = <<row.user_id, row.idempotency_key>>
    BY CommitAdds, RowAssumption DEF DecisionInv, OwnRow, slot
  <1>3. \A t \in transactions : ~SameKey(row, t.user_id, t.idempotency_key)
    BY <1>a DEF KeyInv
  <1>4. RowsOf(k) = {} BY <1>2, <1>3 DEF RowsOf, SameKey
  <1>5. RowsOf(k)' = {row} BY <1>2, <1>4 DEF RowsOf, SameKey
  <1>6. ASSUME NEW j \in Slots \ {k} PROVE RowsOf(j)' = RowsOf(j)
    <2>1. ~SameKey(row, j[1], j[2]) BY <1>2 DEF SameKey, Slots
    <2> QED BY <1>2, <2>1 DEF RowsOf
  <1>7. OutcomeOf(k)' = AbstractRow(row) BY <1>5 DEF OutcomeOf
  <1>8. OutcomeOf(k) = NULL BY <1>4 DEF OutcomeOf
  <1>9. ASSUME NEW j \in Slots \ {k} PROVE OutcomeOf(j)' = OutcomeOf(j)
    <2>1. RowsOf(j)' = RowsOf(j) BY <1>6
    <2> HIDE DEF RowsOf
    <2> QED BY <2>1 DEF OutcomeOf
  <1> QED BY <1>1, <1>7, <1>8, <1>9

LEMMA CommitCredit ==
  ASSUME DecisionInv, NEW r \in Requests, Ends(r), NEW a \in Accounts
  PROVE  AvailableOn(a)' =
           AvailableOn(a) - (IF work[r].txn.status = "POSTED" /\ a = acct[r]
                             THEN req[r].amount ELSE 0)
  <1>1. AvailableOn(a)' = AvailableAfter(r, a)
    BY DEF Ends, Publish, AvailableOn, AvailableAfter
  <1>2. Paid(r) <=> work[r].txn.status = "POSTED" BY DEF Ends, Paid
  <1> QED BY <1>1, <1>2 DEF DecisionInv, EffectInv, EffectAt

\* A row is POSTED exactly when its account could pay at the moment of COMMIT.
LEMMA CommitIsRight ==
  ASSUME DecisionInv, NEW r \in Requests, Ends(r)
  PROVE  work[r].txn.status = "POSTED" <=>
           /\ status[acct[r]] = "ACTIVE"
           /\ req[r].currency = Currency[acct[r]]
           /\ req[r].amount <= AvailableOn(acct[r])
  <1>1. /\ pc[r] = "commit" /\ work[r].txn.status \in {"POSTED", "DECLINED"}
        /\ acct[r] \in Accounts /\ r \in Sessions /\ req[r].amount \in Nat
        /\ TypeInv
    BY RequestsAreSessions, PurchaseAssumption
    DEF Ends, DecisionInv, SolventInv, SafeInv, TypeInv, LocalInv, Decided, Chosen, Running, InTxn, Calls
  <1>2. AvailableOn(acct[r]) \in Int /\ AvailableAfter(r, acct[r]) \in Int
    BY <1>1, CreditTypes DEF TypeInv
  <1>3. ReasonAt(r) /\ EffectAt(r) BY DEF DecisionInv, ReasonInv, EffectInv
  <1>4. CASE work[r].txn.status = "POSTED"
    <2>1. WillPost(r) /\ Paid(r) BY <1>1, <1>4 DEF WillPost, Paid
    <2>2. status[acct[r]] = "ACTIVE" BY <2>1 DEF DecisionInv, SolventInv, SafeInv, ActiveInv
    <2>3. AvailableAfter(r, acct[r]) >= 0
      <3>1. CASE work[r].snap[acct[r]] = NULL
        BY <1>1, <3>1 DEF AvailableAfter, AvailableOn, Visible, DecisionInv, SolventInv, SafeInv, CreditInv,
                          CreditNeverNegative
      <3>2. CASE work[r].snap[acct[r]] # NULL
        BY <1>1, <3>2 DEF AvailableAfter, Visible, DecisionInv, SolventInv, SafeInv, CreditInv
      <3> QED BY <3>1, <3>2
    <2>4. AvailableAfter(r, acct[r]) = AvailableOn(acct[r]) - req[r].amount
      BY <1>1, <1>3, <2>1 DEF EffectAt
    <2> QED BY <1>1, <1>2, <1>3, <1>4, <2>1, <2>2, <2>3, <2>4 DEF ReasonAt
  <1>5. CASE work[r].txn.status = "DECLINED"
    <2>1. Reason(r) BY <1>1, <1>3, <1>5 DEF ReasonAt, Refused
    <2> QED BY <1>1, <1>2, <1>5, <2>1 DEF Reason
  <1> QED BY <1>1, <1>4, <1>5

\* What the abstract variables stand for.
Outcome == [k \in Slots |-> OutcomeOf(k)]
Credit == [a \in Accounts |-> AvailableOn(a)]

LEMMA CommitDecides ==
  ASSUME DecisionInv, NEW r \in Requests, Ends(r)
  PROVE  Atomic!Next
  <1> SUFFICES ASSUME NEW k, k = slot(r), NEW row, row = work[r].txn
               PROVE  Atomic!Next
    OBVIOUS
  <1>1. /\ k \in Slots /\ OutcomeOf(k) = NULL /\ OutcomeOf(k)' = AbstractRow(row)
        /\ \A j \in Slots \ {k} : OutcomeOf(j)' = OutcomeOf(j)
    BY CommitOutcome
  <1>2. /\ row \in Rows /\ row.status \in Decided /\ row.account_id = acct[r]
        /\ row.amount_minor = req[r].amount /\ row.currency = req[r].currency
    BY CommitAdds DEF DecisionInv, OwnRow
  <1> DEFINE p == AbstractRow(row)
  <1>3. Outcome' = [Outcome EXCEPT ![k] = p] /\ Outcome'[k] = p /\ Outcome[k] = NULL
    BY <1>1 DEF Outcome
  <1>4. /\ p \in [account_id : Accounts, currency : Currencies, amount_minor : Amounts,
                  status : {"POSTED", "DECLINED"}]
        /\ p.account_id = acct[r] /\ p.currency = req[r].currency
        /\ p.amount_minor = req[r].amount /\ p.status = row.status
    BY <1>2 DEF AbstractRow, Rows, Decided
  <1>5. Owner[p.account_id] = k[1]
    <2>1. pc[r] \in Chosen BY DEF Ends, Chosen, InTxn
    <2>2. Owner[acct[r]] = req[r].user BY <2>1 DEF DecisionInv, BooksInv, RowInv, RowAt
    <2> QED BY <1>4, <2>2 DEF slot
  <1>6. p.status = IF /\ status[p.account_id] = "ACTIVE"
                      /\ p.currency = Currency[p.account_id]
                      /\ p.amount_minor <= Credit[p.account_id]
                   THEN "POSTED" ELSE "DECLINED"
    BY <1>2, <1>4, CommitIsRight DEF Credit, Rows, Decided
  <1>7. Credit' = IF p.status = "POSTED"
                  THEN [Credit EXCEPT ![p.account_id] = @ - p.amount_minor] ELSE Credit
    <2>1. \A a \in Accounts :
            AvailableOn(a)' = AvailableOn(a) - (IF p.status = "POSTED" /\ a = p.account_id
                                                THEN p.amount_minor ELSE 0)
      BY <1>4, CommitCredit
    <2>2. \A a \in Accounts : AvailableOn(a) \in Int
      BY CreditTypes DEF DecisionInv, SolventInv, SafeInv, TypeInv
    <2>3. p.account_id \in Accounts /\ p.amount_minor \in Nat
      BY <1>4, PurchaseAssumption
    <2> HIDE DEF p
    <2> QED BY <2>1, <2>2, <2>3 DEF Credit
  <1>8. UNCHANGED status BY DEF Ends, Publish
  <1> HIDE DEF p
  <1>9. Atomic!Decide(k)
    BY <1>3, <1>4, <1>5, <1>6, <1>7, <1>8
    DEF Atomic!Decide, Atomic!Purchases, Atomic!Acceptable, Outcome, Credit
  <1> QED BY <1>1, <1>9 DEF Atomic!Next, Atomic!Slots, Slots

abstract == <<Outcome, Credit, status>>

LEMMA StepRefines ==
  ASSUME DecisionInv, RowsLeftAlone, [Next]_vars
  PROVE  Atomic!Next \/ UNCHANGED abstract
  <1>1. UNCHANGED <<transactions, snapshots, status>> => UNCHANGED abstract
    BY DEF abstract, Outcome, Credit, OutcomeOf, RowsOf, AvailableOn
  <1>2. ASSUME NEW r \in Requests, HandlerStep(r) PROVE Atomic!Next \/ UNCHANGED abstract
    BY <1>1, <1>2, CommitDecides, TablesStay DEF tables
  <1>3. CASE Crash \/ UNCHANGED core BY <1>1, <1>3 DEF Crash, core, tables
  <1>4. ASSUME NEW a \in Accounts, SetStatus(a) PROVE Atomic!Next
    <2>1. /\ \E st \in Statuses \ {status[a]} : status' = [status EXCEPT ![a] = st]
          /\ UNCHANGED <<transactions, snapshots>>
      BY <1>4 DEF SetStatus
    <2>2. /\ status'[a] \in Statuses \ {status[a]}
          /\ status' = [status EXCEPT ![a] = status'[a]]
      BY <2>1 DEF DecisionInv, SolventInv, SafeInv, TypeInv, CoreTypeOK, DBTypeOK
    <2>3. UNCHANGED <<Outcome, Credit>>
      BY <2>1 DEF Outcome, Credit, OutcomeOf, RowsOf, AvailableOn
    <2> QED BY <2>2, <2>3 DEF Atomic!Next, Atomic!SetStatus, Outcome, Credit
  <1> QED BY <1>2, <1>3, <1>4, NextCases DEF DecisionInv, BooksInv, Operator, RowsLeftAlone

LEMMA InitRefines == Init => Atomic!Init
  <1> SUFFICES ASSUME Init PROVE Atomic!Init OBVIOUS
  <1>1. /\ transactions = {} /\ status = [a \in Accounts |-> "ACTIVE"]
        /\ \A a \in Accounts : snapshots[a] \in {0, NULL}
    BY DEF Init, DBInit
  <1>2. Outcome = [k \in Slots |-> NULL] BY <1>1 DEF Outcome, OutcomeOf, RowsOf
  <1>3. Credit = CreditLimit BY <1>1, DBAssumption DEF Credit, AvailableOn
  <1> QED BY <1>1, <1>2, <1>3 DEF Atomic!Init, Atomic!Slots, Slots, Outcome, Credit

\* The handler, with all its awaits, its two stores, its retries and its faults, is the
\* atomic purchase: every key is decided at most once, in one step, and rightly.
THEOREM HandlerIsAtomicPurchase == ASSUME SnapshotsOwned PROVE Spec => ImplementsAtomicPurchase
  <1>1. Init => DecisionInv /\ Atomic!Init BY DecisionInit, InitRefines
  <1>2. DecisionInv /\ [Next]_vars => DecisionInv' BY OwnedRows, DecisionStep
  <1>3. DecisionInv /\ [Next]_vars => [Atomic!Next]_abstract BY OwnedRows, StepRefines
  <1> QED BY <1>1, <1>2, <1>3, PTL
          DEF Spec, ImplementsAtomicPurchase, Atomic!Spec, abstract, Outcome, Credit

-----------------------------------------------------------------------------
(* The snapshots and the ledger.                                           *)

\* A snapshot is the sum of its account's ledger rows; the merchant's, which no
\* purchase credits, is at most that.
MatchInv ==
  \A a \in Accounts :
    /\ AvailableOn(a) <= CreditLimit[a] + LedgerBalance(a)
    /\ a # Merchant => AvailableOn(a) = CreditLimit[a] + LedgerBalance(a)

LEMMA MatchInit == Init => MatchInv
  <1> SUFFICES ASSUME Init, NEW a \in Accounts
               PROVE  AvailableOn(a) = CreditLimit[a] + LedgerBalance(a) /\ AvailableOn(a) \in Int
    BY DEF MatchInv
  <1>1. ledger_entries = {} /\ snapshots[a] \in {0, NULL} BY DEF Init, DBInit
  <1>2. LedgerBalance(a) = 0
    <2>1. EntriesOf(a) = {} BY <1>1 DEF EntriesOf
    <2> QED BY <2>1, TotalEmpty DEF LedgerBalance, Total
  <1> QED BY <1>1, <1>2, DBAssumption DEF AvailableOn

\* COMMIT changes both by the same amount; the merchant's only the ledger.
LEMMA MatchCommit ==
  ASSUME DecisionInv, MatchInv, NEW r \in Requests, Ends(r)
  PROVE  MatchInv'
  <1> SUFFICES ASSUME NEW a \in Accounts
               PROVE  /\ AvailableOn(a)' <= CreditLimit[a] + LedgerBalance(a)'
                      /\ a # Merchant => AvailableOn(a)' = CreditLimit[a] + LedgerBalance(a)'
    BY DEF MatchInv
  <1>1. /\ AvailableOn(a)' = AvailableOn(a) - (IF Debited(r, a) THEN req[r].amount ELSE 0)
        /\ LedgerBalance(a)' = LedgerBalance(a)
                               - (IF Debited(r, a) THEN req[r].amount ELSE 0)
                               + (IF Credited(r, a) THEN req[r].amount ELSE 0)
    BY CommitCredit, CommitLedger DEF DecisionInv, Debited
  <1>2. req[r].amount \in Nat
    BY PurchaseAssumption
    DEF Ends, DecisionInv, BooksInv, TypeInv, LocalInv, Running, InTxn, Calls
  <1>3. CreditLimit[a] \in Nat /\ AvailableOn(a) \in Int /\ LedgerBalance(a) \in Int
    BY CreditTypes, BalanceType DEF DecisionInv, BooksInv, TypeInv, CoreTypeOK
  <1>4. /\ AvailableOn(a) <= CreditLimit[a] + LedgerBalance(a)
        /\ a # Merchant => AvailableOn(a) = CreditLimit[a] + LedgerBalance(a)
    BY DEF MatchInv
  <1>5. Credited(r, a) => a = Merchant BY DEF Credited
  <1> QED BY <1>1, <1>2, <1>3, <1>4, <1>5

LEMMA MatchFrame ==
  ASSUME MatchInv, UNCHANGED <<ledger_entries, snapshots>>
  PROVE  MatchInv'
  BY DEF MatchInv, AvailableOn, LedgerBalance, EntriesOf

LEMMA MatchStep ==
  ASSUME DecisionInv, MatchInv, RowsLeftAlone, [Next]_vars
  PROVE  MatchInv'
  <1>1. ASSUME NEW r \in Requests, HandlerStep(r) PROVE MatchInv'
    BY <1>1, MatchCommit, TablesStay, MatchFrame DEF tables
  <1>2. CASE Crash \/ UNCHANGED core \/ \E a \in Accounts : SetStatus(a)
    BY <1>2, MatchFrame DEF Crash, core, tables, SetStatus
  <1> QED BY <1>1, <1>2, NextCases DEF DecisionInv, BooksInv, Operator, RowsLeftAlone

LEMMA MatchIsSums == ASSUME CoreTypeOK, FiniteInv, MatchInv PROVE SnapshotMatchesLedger
  <1> SUFFICES ASSUME NEW a \in Accounts \ {Merchant}
               PROVE  LedgerBalance(a) = IF snapshots[a] = NULL THEN 0 ELSE snapshots[a]
    BY DEF SnapshotMatchesLedger
  <1>1. /\ CreditLimit[a] \in Nat /\ snapshots[a] \in Int \cup {NULL}
        /\ LedgerBalance(a) \in Int
    BY CreditTypes, BalanceType DEF CoreTypeOK
  <1>2. AvailableOn(a) = CreditLimit[a] + LedgerBalance(a) BY DEF MatchInv
  <1> QED BY <1>1, <1>2 DEF AvailableOn

\* The balance every purchase is checked against is the sum of the account's ledger
\* rows, after any history of purchases, retries, faults and status changes.
THEOREM SnapshotsAreSums == ASSUME SnapshotsOwned PROVE Spec => []SnapshotMatchesLedger
  <1>1. Init => DecisionInv /\ MatchInv BY DecisionInit, MatchInit
  <1>2. DecisionInv /\ MatchInv /\ [Next]_vars => (DecisionInv /\ MatchInv)'
    BY OwnedRows, DecisionStep, MatchStep
  <1>3. DecisionInv /\ MatchInv => SnapshotMatchesLedger
    BY MatchIsSums DEF DecisionInv, BooksInv, TypeInv
  <1> QED BY <1>1, <1>2, <1>3, PTL DEF Spec

\* No order of concurrent purchases takes the sum of an account's ledger rows below
\* minus its credit limit, although the credit check reads the snapshot.
THEOREM LedgerIsNeverOverspent == ASSUME SnapshotsOwned PROVE Spec => []NoOverspend
  <1>1. Init => DecisionInv /\ MatchInv BY DecisionInit, MatchInit
  <1>2. DecisionInv /\ MatchInv /\ [Next]_vars => (DecisionInv /\ MatchInv)'
    BY OwnedRows, DecisionStep, MatchStep
  <1>3. DecisionInv /\ MatchInv => NoOverspend
    <2> SUFFICES ASSUME DecisionInv, MatchInv, NEW a \in Accounts
                 PROVE  CreditLimit[a] + LedgerBalance(a) >= 0
      BY DEF NoOverspend
    <2>1. CreditLimit[a] \in Nat /\ AvailableOn(a) \in Int /\ LedgerBalance(a) \in Int
      BY CreditTypes, BalanceType DEF DecisionInv, BooksInv, TypeInv, CoreTypeOK
    <2>2. AvailableOn(a) >= 0
      BY DEF DecisionInv, SolventInv, CreditInv, CreditNeverNegative
    <2>3. AvailableOn(a) <= CreditLimit[a] + LedgerBalance(a) BY DEF MatchInv
    <2> QED BY <2>1, <2>2, <2>3
  <1> QED BY <1>1, <1>2, <1>3, PTL DEF Spec
=============================================================================
