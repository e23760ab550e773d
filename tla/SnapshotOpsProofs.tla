-------------------------- MODULE SnapshotOpsProofs --------------------------
(***************************************************************************)
(* The snapshot scripts beside purchases, for any number of both and every *)
(* fault: what a rebuild may spoil and what the backfill never does.       *)
(***************************************************************************)
EXTENDS SnapshotOps, PurchaseRefinementProofs

JobLabels == {"idle", "ensure", "insert", "fk", "scan", "write", "commit", "done"}

Jobs == [at : JobLabels, kind : {"none", "rebuild", "backfill"}, todo : SUBSET Accounts,
         sum : Int \cup {NULL}]

\* What a script knows where it stands.
JobOK(j) ==
  /\ j.at = "idle" => j.kind = "none"
  /\ j.at = "insert" => j.kind = "backfill"
  /\ j.at \in {"ensure", "scan", "write"} => j.kind = "rebuild"
  /\ j.kind = "rebuild" => \E a \in Accounts : j.todo = {a}
  /\ j.at = "write" => j.sum \in Int

\* It writes no rows but snapshots.
JobInv ==
  /\ job \in [Scripts -> Jobs]
  /\ \A s \in Scripts : JobOK(job[s]) /\ work[s].txn = NULL /\ work[s].legs = {}

OpsInv == SafeInv /\ BooksInv /\ PoolInv /\ JobInv

\* A user account's snapshot errs towards too much credit, and so do the one a COMMIT
\* would publish and the sum a script is about to write.
Covered(a) == snapshots[a] # NULL => snapshots[a] >= LedgerBalance(a)
PaidPart(r, a) == IF Paid(r) /\ a = acct[r] THEN req[r].amount ELSE 0
RequestCovered(r, a) ==
  work[r].snap[a] # NULL => work[r].snap[a] >= LedgerBalance(a) - PaidPart(r, a)
ScriptCovered(s, a) ==
  /\ work[s].snap[a] # NULL => work[s].snap[a] >= LedgerBalance(a)
  /\ At(s, "write") /\ a \in job[s].todo => job[s].sum >= LedgerBalance(a)

Generous(a) ==
  /\ Covered(a)
  /\ \A r \in Requests : RequestCovered(r, a)
  /\ \A s \in Scripts : ScriptCovered(s, a)

DriftInv == \A a \in Accounts \ {Merchant} : Generous(a)

\* No rebuild, and nothing has gone wrong.
Calm == (\A s \in Scripts : job[s].kind # "rebuild") /\ faults = 0

\* A backfill's rows are zeros where there is none.
FillInv ==
  \A s \in Scripts, a \in Accounts :
    work[s].snap[a] # NULL => work[s].snap[a] = 0 /\ snapshots[a] = NULL

CalmInv == Calm => DecisionInv /\ MatchInv /\ FillInv
-----------------------------------------------------------------------------
(* A script's step, for what the invariants speak of.                      *)

ScriptNext(s) == StartRebuild(s) \/ StartBackfill(s) \/ ScriptStep(s) \/ Fail(s)

\* It begins, reads, or checks a foreign key.
Plain(s) ==
  /\ UNCHANGED tables
  /\ \A q \in Sessions \ {s} : work'[q] = work[q]
  /\ work' \in [Sessions -> Works]
  /\ work'[s].snap = work[s].snap /\ work'[s].snaplock = work[s].snaplock
  /\ work'[s].txn = work[s].txn /\ work'[s].legs = work[s].legs

\* It inserts a zero where there is no row, or overwrites one with its sum.
Inserts(s, a) ==
  snapshots[a] = NULL /\ SnapInsertWaits(s, a) = {} /\ WriteSnap(s, a, 0)
Overwrites(s, a) ==
  /\ At(s, "write") /\ a \in job[s].todo
  /\ SnapWaits(s, a) = {} /\ Visible(s, a) # NULL
  /\ WriteSnap(s, a, job[s].sum)
WritesRow(s) ==
  UNCHANGED tables /\ \E a \in Accounts : Inserts(s, a) \/ Overwrites(s, a)

LEMMA ScriptSession == ASSUME NEW s \in Scripts PROVE s \in Sessions /\ s \notin Requests
  BY OpsAssumption

LEMMA JobTodo ==
  ASSUME JobInv, NEW s \in Scripts
  PROVE  job[s].todo \subseteq Accounts
  BY DEF JobInv, Jobs

LEMMA ScriptCases ==
  ASSUME OpsInv, NEW s \in Scripts, ScriptNext(s)
  PROVE  /\ UNCHANGED <<store, locals, faults>>
         /\ Plain(s) \/ WritesRow(s) \/ Publish(s) \/ Rollback(s)
  <1>a. s \in Sessions /\ work \in [Sessions -> Works] /\ work[s] \in Works
        /\ job[s].todo \subseteq Accounts
    BY ScriptSession, JobTodo DEF OpsInv, SafeInv, TypeInv, CoreTypeOK, DBTypeOK
  <1>b. UNCHANGED <<tables, work>> => Plain(s) BY <1>a DEF Plain
  <1>1. CASE StartRebuild(s) \/ StartBackfill(s)
    <2>1. Open(s) /\ Leave BY <1>1 DEF StartRebuild, StartBackfill
    <2>2. Plain(s) BY <1>a, <2>1 DEF Open, Leave, Plain, Works
    <2> QED BY <2>1, <2>2 DEF Leave
  <1>2. CASE EnsureRow(s) BY <1>2, <1>a, <1>b DEF EnsureRow, Leave, WritesRow, Inserts
  <1>3. CASE Scan(s) BY <1>3, <1>b DEF Scan, Leave
  <1>4. CASE Write(s) BY <1>4, <1>a, <1>b DEF Write, Leave, WritesRow, Overwrites
  <1>5. CASE Fail(s) BY <1>5 DEF Fail
  <1>6. CASE InsertMissing(s)
    BY <1>6, <1>a DEF InsertMissing, Leave, Fail, WritesRow, Inserts
  <1>7. CASE CheckFk(s)
    <2>1. PICK a \in Unchecked(s) : ShareLock(s, a) BY <1>7 DEF CheckFk
    <2>2. a \in Accounts BY <1>a, <2>1 DEF Unchecked, Works
    <2>3. Leave BY <1>7 DEF CheckFk
    <2>4. Plain(s) BY <1>a, <2>1, <2>2, <2>3 DEF ShareLock, Leave, Plain, Works
    <2> QED BY <2>3, <2>4 DEF Leave
  <1>8. CASE Finish(s) BY <1>8 DEF Finish
  <1> QED BY <1>1, <1>2, <1>3, <1>4, <1>5, <1>6, <1>7, <1>8 DEF ScriptNext, ScriptStep

\* Nobody else has the row a script writes.
LEMMA RowIsFree ==
  ASSUME SafeInv, NEW s \in Scripts, NEW a \in Accounts, Inserts(s, a) \/ Overwrites(s, a)
  PROVE  \A q \in Sessions \ {s} : a \notin work[q].snaplock
  <1>1. CASE Inserts(s, a)
    BY <1>1 DEF Inserts, SnapInsertWaits, Others, SafeInv, SnapLockInv, Visible
  <1>2. CASE Overwrites(s, a)
    <2>1. CASE snapshots[a] # NULL BY <1>2, <2>1 DEF Overwrites, SnapWaits, Others
    <2>2. CASE snapshots[a] = NULL
      <3>1. s \in Sessions BY ScriptSession
      <3>2. a \in work[s].snaplock
        BY <1>2, <2>2, <3>1 DEF Overwrites, Visible, SafeInv, SnapLockInv
      <3> QED BY <3>1, <3>2 DEF SafeInv, SnapLockInv
    <2> QED BY <2>1, <2>2
  <1> QED BY <1>1, <1>2

LEMMA WrittenRow ==
  ASSUME OpsInv, NEW s \in Scripts, NEW a \in Accounts, Inserts(s, a) \/ Overwrites(s, a)
  PROVE  \E b \in Int : /\ WriteSnap(s, a, b)
                        /\ work'[s].snap = [work[s].snap EXCEPT ![a] = b]
                        /\ work'[s].snaplock = work[s].snaplock \cup {a}
                        /\ work'[s].txn = work[s].txn /\ work'[s].legs = work[s].legs
                        /\ \/ Inserts(s, a) /\ b = 0
                           \/ Overwrites(s, a) /\ b = job[s].sum
  <1>a. s \in Sessions /\ work \in [Sessions -> Works] /\ work[s] \in Works
    BY ScriptSession DEF OpsInv, SafeInv, TypeInv, CoreTypeOK, DBTypeOK
  <1>1. Overwrites(s, a) => job[s].sum \in Int BY DEF Overwrites, OpsInv, JobInv, JobOK, At
  <1>2. PICK b \in Int : /\ WriteSnap(s, a, b)
                         /\ \/ Inserts(s, a) /\ b = 0
                            \/ Overwrites(s, a) /\ b = job[s].sum
    <2>1. CASE Inserts(s, a)
      <3>1. WriteSnap(s, a, 0) /\ 0 \in Int BY <2>1 DEF Inserts
      <3> QED BY <2>1, <3>1
    <2>2. CASE Overwrites(s, a)
      <3>1. WriteSnap(s, a, job[s].sum) BY <2>2 DEF Overwrites
      <3> QED BY <1>1, <2>2, <3>1
    <2> QED BY <2>1, <2>2
  <1>3. /\ work'[s].snap = [work[s].snap EXCEPT ![a] = b]
        /\ work'[s].snaplock = work[s].snaplock \cup {a}
        /\ work'[s].txn = work[s].txn /\ work'[s].legs = work[s].legs
    BY <1>a, <1>2 DEF WriteSnap, Works
  <1> QED BY <1>2, <1>3

\* What every script step leaves alone.
LEMMA ScriptFrame ==
  ASSUME OpsInv, NEW s \in Scripts, ScriptNext(s)
  PROVE  /\ UNCHANGED <<status, transactions, ledger_entries, store, locals, faults>>
         /\ \A q \in Sessions \ {s} : work'[q] = work[q]
         /\ \A r \in Requests : work'[r] = work[r]
         /\ work' \in [Sessions -> Works]
         /\ work'[s].txn = NULL /\ work'[s].legs = {}
  <1>a. s \in Sessions /\ work \in [Sessions -> Works] /\ work[s] \in Works
        /\ work[s].txn = NULL /\ work[s].legs = {} /\ DBTypeOK
    BY ScriptSession
    DEF OpsInv, SafeInv, TypeInv, CoreTypeOK, DBTypeOK, JobInv
  <1> SUFFICES /\ UNCHANGED <<status, transactions, ledger_entries>>
               /\ \A q \in Sessions \ {s} : work'[q] = work[q]
               /\ work' \in [Sessions -> Works]
               /\ work'[s].txn = NULL /\ work'[s].legs = {}
    BY ScriptCases, ScriptSession, RequestsAreSessions
  <1>1. CASE Plain(s) BY <1>1, <1>a DEF Plain, tables
  <1>2. CASE WritesRow(s)
    <2>1. PICK a \in Accounts : Inserts(s, a) \/ Overwrites(s, a) BY <1>2 DEF WritesRow
    <2>2. PICK b \in Int : /\ WriteSnap(s, a, b)
                           /\ work'[s].txn = work[s].txn /\ work'[s].legs = work[s].legs
      BY <2>1, WrittenRow
    <2>3. UNCHANGED tables BY <1>2 DEF WritesRow
    <2>4. DBTypeOK' BY <1>a, <2>2, <2>3, WriteSnapType
    <2> QED BY <1>a, <2>2, <2>3, <2>4 DEF WriteSnap, tables, DBTypeOK
  <1>3. CASE Publish(s) BY <1>3, <1>a, NoWorkType DEF Publish, NoWork
  <1>4. CASE Rollback(s) BY <1>4, <1>a, NoWorkType DEF Rollback, tables, NoWork
  <1> QED BY <1>1, <1>2, <1>3, <1>4, ScriptCases

\* A script's COMMIT changes only rows it has locked, and deletes none.
LEMMA ScriptSnapshots ==
  ASSUME OpsInv, NEW s \in Scripts, ScriptNext(s), NEW a \in Accounts
  PROVE  /\ \/ snapshots'[a] = snapshots[a]
            \/ Publish(s) /\ work[s].snap[a] # NULL /\ snapshots'[a] = work[s].snap[a]
         /\ snapshots[a] # NULL => snapshots'[a] # NULL
         /\ \A q \in Sessions \ {s} : a \in work[q].snaplock => snapshots'[a] = snapshots[a]
  <1>1. CASE Publish(s)
    <2>1. snapshots'[a] = Visible(s, a) BY <1>1 DEF Publish
    <2>2. \A q \in Sessions \ {s} : a \in work[q].snaplock => work[s].snap[a] = NULL
      BY ScriptSession DEF OpsInv, SafeInv, SnapLockInv
    <2> QED BY <1>1, <2>1, <2>2 DEF Visible
  <1>2. CASE ~Publish(s)
    <2>1. UNCHANGED snapshots BY <1>2, ScriptCases DEF Plain, WritesRow, Rollback, tables
    <2> QED BY <1>2, <2>1
  <1> QED BY <1>1, <1>2

\* What it does to its own rows.
RowWritten(s, a, b) ==
  /\ UNCHANGED tables
  /\ work'[s].snap = [work[s].snap EXCEPT ![a] = b]
  /\ work'[s].snaplock = work[s].snaplock \cup {a}
  /\ \A q \in Sessions \ {s} : a \notin work[q].snaplock
  /\ \/ Inserts(s, a) /\ b = 0
     \/ Overwrites(s, a) /\ b = job[s].sum

LEMMA ScriptWork ==
  ASSUME OpsInv, NEW s \in Scripts, ScriptNext(s)
  PROVE  \/ work'[s].snap = work[s].snap /\ work'[s].snaplock = work[s].snaplock
         \/ work'[s].snap = [a \in Accounts |-> NULL] /\ work'[s].snaplock = {}
         \/ \E a \in Accounts, b \in Int : RowWritten(s, a, b)
  <1>a. s \in Sessions /\ work \in [Sessions -> Works]
    BY ScriptSession DEF OpsInv, SafeInv, TypeInv, CoreTypeOK, DBTypeOK
  <1>1. CASE Plain(s) BY <1>1 DEF Plain
  <1>2. CASE Publish(s) \/ Rollback(s)
    <2>1. work'[s] = NoWork BY <1>2, <1>a DEF Publish, Rollback
    <2> QED BY <2>1 DEF NoWork
  <1>3. CASE WritesRow(s)
    <2>1. UNCHANGED tables /\ \E a \in Accounts : Inserts(s, a) \/ Overwrites(s, a)
      BY <1>3 DEF WritesRow
    <2>2. PICK a \in Accounts : Inserts(s, a) \/ Overwrites(s, a) BY <2>1
    <2>3. \A q \in Sessions \ {s} : a \notin work[q].snaplock BY <2>2, RowIsFree DEF OpsInv
    <2>4. \E b \in Int : RowWritten(s, a, b)
      BY <2>1, <2>2, <2>3, WrittenRow DEF RowWritten
    <2> QED BY <2>4
  <1> QED BY <1>1, <1>2, <1>3, ScriptCases

-----------------------------------------------------------------------------
(* The invariants of the purchase, beside scripts.                         *)

LEMMA ScriptTypes == ASSUME OpsInv, NEW s \in Scripts, ScriptNext(s) PROVE TypeInv'
  <1>a. /\ DBTypeOK /\ StoreTypeOK /\ HandlerTypeOK /\ LocalInv /\ FiniteInv
        /\ s \in Sessions
    BY ScriptSession DEF OpsInv, SafeInv, TypeInv, CoreTypeOK
  <1>b. /\ UNCHANGED <<status, transactions, ledger_entries, store, locals, faults>>
        /\ \A q \in Sessions \ {s} : work'[q] = work[q]
        /\ \A r \in Requests : work'[r] = work[r]
        /\ work' \in [Sessions -> Works]
        /\ work'[s].txn = NULL /\ work'[s].legs = {}
    BY ScriptFrame
  <1>1. DBTypeOK'
    <2>1. snapshots' \in [Accounts -> Int \cup {NULL}]
      <3>1. CASE Publish(s)
        <4>1. DBTypeOK' BY <1>a, <3>1, PublishType
        <4> QED BY <4>1 DEF DBTypeOK
      <3>2. CASE ~Publish(s)
        <4>1. UNCHANGED snapshots BY <3>2, ScriptCases DEF Plain, WritesRow, Rollback, tables
        <4> QED BY <1>a, <4>1 DEF DBTypeOK
      <3> QED BY <3>1, <3>2
    <2> QED BY <1>a, <1>b, <2>1 DEF DBTypeOK
  <1>2. StoreTypeOK' BY <1>a, <1>b, StoreFrame
  <1>3. HandlerTypeOK' BY <1>a, <1>b DEF HandlerTypeOK, locals
  <1>4. LocalInv' BY <1>a, <1>b DEF LocalInv, locals
  <1>5. FiniteInv' BY <1>a, <1>b, FS_EmptySet DEF FiniteInv
  <1> QED BY <1>1, <1>2, <1>3, <1>4, <1>5 DEF TypeInv, CoreTypeOK

LEMMA ScriptLocks == ASSUME OpsInv, NEW s \in Scripts, ScriptNext(s) PROVE SnapLockInv'
  <1>a. /\ SnapLockInv /\ s \in Sessions /\ NULL \notin Int
        /\ \A q \in Sessions : /\ work[q].snaplock \subseteq Accounts
                               /\ work[q].snap \in [Accounts -> Int \cup {NULL}]
    BY ScriptSession, DBAssumption
    DEF OpsInv, SafeInv, TypeInv, CoreTypeOK, DBTypeOK, Works
  <1>b. \A q \in Sessions \ {s} : work'[q] = work[q] BY ScriptFrame
  <1>c. \A a \in Accounts : snapshots[a] # NULL => snapshots'[a] # NULL BY ScriptSnapshots
  <1>d. \A q \in Sessions, a \in Accounts :
          /\ work[q].snap[a] # NULL => a \in work[q].snaplock
          /\ a \in work[q].snaplock => work[q].snap[a] # NULL \/ snapshots[a] # NULL
    BY <1>a DEF SnapLockInv, Visible
  <1>e. \A p, q \in Sessions, a \in Accounts :
          p # q /\ a \in work[p].snaplock => a \notin work[q].snaplock
    BY <1>a DEF SnapLockInv
  <1>1. SUFFICES
          /\ \A a \in Accounts : work'[s].snap[a] # NULL => a \in work'[s].snaplock
          /\ work'[s].snaplock \subseteq Accounts
          /\ \A a \in work'[s].snaplock : work'[s].snap[a] # NULL \/ snapshots'[a] # NULL
          /\ \A q \in Sessions \ {s}, a \in work'[s].snaplock : a \notin work[q].snaplock
    BY <1>a, <1>b, <1>c, <1>d, <1>e DEF SnapLockInv, Visible
  <1>2. CASE work'[s].snap = work[s].snap /\ work'[s].snaplock = work[s].snaplock
    BY <1>2, <1>a, <1>c, <1>d, <1>e
  <1>3. CASE work'[s].snap = [a \in Accounts |-> NULL] /\ work'[s].snaplock = {}
    BY <1>3
  <1>4. CASE \E a \in Accounts, b \in Int : RowWritten(s, a, b)
    <2>1. PICK a \in Accounts, b \in Int : RowWritten(s, a, b) BY <1>4
    <2>2. /\ work'[s].snap = [work[s].snap EXCEPT ![a] = b]
          /\ work'[s].snaplock = work[s].snaplock \cup {a}
          /\ \A q \in Sessions \ {s} : a \notin work[q].snaplock
      BY <2>1 DEF RowWritten
    <2> QED BY <2>2, <1>a, <1>c, <1>d, <1>e
  <1> QED BY <1>2, <1>3, <1>4, ScriptWork

LEMMA ScriptSafe == ASSUME OpsInv, NEW s \in Scripts, ScriptNext(s) PROVE SafeInv'
  <1>a. /\ UNCHANGED <<status, transactions, locals>>
        /\ \A q \in Sessions \ {s} : work'[q] = work[q]
        /\ \A r \in Requests : work'[r] = work[r]
        /\ work'[s].txn = NULL
    BY ScriptFrame
  <1>1. KeyInv'
    <2>1. \A q \in Sessions : work'[q].txn = work[q].txn BY <1>a DEF OpsInv, JobInv
    <2> QED BY <1>a, <2>1 DEF OpsInv, SafeInv, KeyInv, OneTransactionPerKey
  <1>2. ApprovalInv'
    <2>1. ASSUME NEW r \in Requests, pc[r] \in {"insert_ledger", "update_snap"}
          PROVE  Visible(r, acct[r])' = Visible(r, acct[r])
      <3>1. acct[r] \in work[r].snaplock /\ acct[r] \in Accounts
            /\ r \in Sessions \ {s}
        BY <2>1, ApprovedFacts, RequestsAreSessions, ScriptSession
        DEF OpsInv, SafeInv, ApprovalInv
      <3>2. snapshots'[acct[r]] = snapshots[acct[r]] BY <3>1, ScriptSnapshots
      <3> QED BY <1>a, <3>2 DEF Visible, locals
    <2> QED BY <1>a, <2>1 DEF OpsInv, SafeInv, ApprovalInv, locals
  <1>3. ActiveInv' BY <1>a DEF OpsInv, SafeInv, ActiveInv, WillPost, locals
  <1> QED BY <1>1, <1>2, <1>3, ScriptTypes, ScriptLocks DEF SafeInv

LEMMA ScriptBooks == ASSUME OpsInv, NEW s \in Scripts, ScriptNext(s) PROVE BooksInv' /\ PoolInv'
  <1>a. /\ UNCHANGED <<transactions, ledger_entries, locals>>
        /\ \A r \in Requests : work'[r] = work[r]
    BY ScriptFrame
  <1>1. RowInv' /\ LegsInv'
    BY <1>a DEF OpsInv, BooksInv, RowInv, RowAt, OwnRow, LegsInv, LegsAt, Written, BothLegs,
                Leg, locals
  <1>2. PastInv' /\ DoubleEntry' BY <1>a, BooksFrame DEF OpsInv, BooksInv, PastInv, locals
  <1>3. PoolInv'
    BY <1>a DEF OpsInv, PoolInv, PoolTypeOK, PoolIsKept, locals, pools
  <1> QED BY <1>1, <1>2, <1>3, ScriptTypes DEF BooksInv

-----------------------------------------------------------------------------
(* A script's progress.                                                    *)

\* It computes its sum when it comes to write, and is no rebuild that was none.
JobMoves(s, j) ==
  /\ job' = [job EXCEPT ![s] = j]
  /\ j \in Jobs /\ JobOK(j)
  /\ job[s].kind = "rebuild" => j.kind = "rebuild"
  /\ j.at = "write" => \E a \in Accounts : j.todo = {a} /\ j.sum = LedgerBalance(a)

LEMMA JobCases ==
  ASSUME OpsInv, NEW s \in Scripts, ScriptNext(s)
  PROVE  \E j : JobMoves(s, j)
  <1>a. job \in [Scripts -> Jobs] /\ job[s] \in Jobs /\ JobOK(job[s]) /\ NULL \notin Int
    BY DBAssumption DEF OpsInv, JobInv
  <1>b. \A a : LedgerBalance(a) \in Int
    BY BalanceType DEF OpsInv, SafeInv, TypeInv, CoreTypeOK
  <1> USE DEF Jobs, JobLabels, JobOK, JobMoves, At
  <1>c. ASSUME UNCHANGED job, job[s].at # "write" PROVE JobMoves(s, job[s])
    BY <1>a, <1>c
  <1>d. ASSUME NEW l \in {"fk", "commit", "done"}, Move(s, l)
        PROVE  JobMoves(s, [job[s] EXCEPT !.at = l])
    BY <1>a, <1>d DEF Move
  <1>e. ASSUME job[s].kind = "rebuild", Move(s, "scan")
        PROVE  JobMoves(s, [job[s] EXCEPT !.at = "scan"])
    BY <1>a, <1>e DEF Move
  <1>1. CASE StartRebuild(s)
    <2>1. PICK a \in Accounts :
            job' = [job EXCEPT ![s] = [at |-> "ensure", kind |-> "rebuild",
                                       todo |-> {a}, sum |-> NULL]]
      BY <1>1 DEF StartRebuild
    <2>2. JobMoves(s, [at |-> "ensure", kind |-> "rebuild", todo |-> {a}, sum |-> NULL])
      BY <2>1
    <2> QED BY <2>2
  <1>2. CASE StartBackfill(s)
    <2> DEFINE missing == {a \in Accounts : snapshots[a] = NULL}
               j == [at |-> IF missing = {} THEN "commit" ELSE "insert",
                     kind |-> "backfill", todo |-> missing, sum |-> NULL]
    <2>1. job' = [job EXCEPT ![s] = j] /\ job[s].kind = "none"
      BY <1>2, <1>a DEF StartBackfill
    <2>2. missing \subseteq Accounts OBVIOUS
    <2> HIDE DEF missing
    <2>3. JobMoves(s, j) BY <2>1, <2>2
    <2> HIDE DEF j
    <2> QED BY <2>3
  <1>3. CASE EnsureRow(s)
    <2>1. job[s].kind = "rebuild" /\ (Move(s, "fk") \/ Move(s, "scan"))
      BY <1>3, <1>a DEF EnsureRow
    <2> HIDE DEF JobMoves
    <2> QED BY <1>d, <1>e, <2>1
  <1>4. CASE Scan(s)
    <2>1. PICK a \in job[s].todo :
            job' = IF EntriesOf(a) = {}
                   THEN [job EXCEPT ![s].at = "commit"]
                   ELSE [job EXCEPT ![s].at = "write", ![s].sum = LedgerBalance(a)]
      BY <1>4 DEF Scan
    <2>2. job[s].todo = {a} /\ a \in Accounts /\ job[s].kind = "rebuild"
      BY <1>4, <1>a, <2>1 DEF Scan
    <2>3. CASE Move(s, "commit")
      <3> HIDE DEF JobMoves
      <3> QED BY <1>d, <2>3
    <2>4. CASE job' = [job EXCEPT ![s].at = "write", ![s].sum = LedgerBalance(a)]
      <3>1. LedgerBalance(a) \in Int BY <1>b
      <3>2. JobMoves(s, [job[s] EXCEPT !.at = "write", !.sum = LedgerBalance(a)])
        BY <1>a, <2>2, <2>4, <3>1
      <3> QED BY <3>2
    <2> QED BY <2>1, <2>3, <2>4 DEF Move
  <1>5. CASE Write(s)
    <2>1. Move(s, "commit") BY <1>5 DEF Write
    <2> HIDE DEF JobMoves
    <2> QED BY <1>d, <2>1
  <1>6. CASE Fail(s)
    <2>1. Move(s, "done") BY <1>6 DEF Fail
    <2> HIDE DEF JobMoves
    <2> QED BY <1>d, <2>1
  <1>7. CASE Finish(s)
    <2>1. Move(s, "done") BY <1>7 DEF Finish
    <2> HIDE DEF JobMoves
    <2> QED BY <1>d, <2>1
  <1>8. CASE InsertMissing(s) /\ ~Fail(s)
    <2>1. PICK a \in job[s].todo :
            job' = [job EXCEPT ![s].todo = @ \ {a},
                               ![s].at = IF job[s].todo = {a} THEN "fk" ELSE @]
      BY <1>8 DEF InsertMissing
    <2>2. job[s].at = "insert" /\ job[s].kind = "backfill"
      BY <1>8, <1>a DEF InsertMissing
    <2> DEFINE l == IF job[s].todo = {a} THEN "fk" ELSE "insert"
    <2>3. l \in {"fk", "insert"} OBVIOUS
    <2>4. job' = [job EXCEPT ![s] = [job[s] EXCEPT !.todo = job[s].todo \ {a}, !.at = l]]
      BY <1>a, <2>1, <2>2
    <2> HIDE DEF l
    <2>5. JobMoves(s, [job[s] EXCEPT !.todo = job[s].todo \ {a}, !.at = l])
      BY <1>a, <2>2, <2>3, <2>4
    <2> QED BY <2>5
  <1>9. CASE CheckFk(s)
    <2>1. /\ job[s].at = "fk"
          /\ \/ UNCHANGED job
             \/ Move(s, IF job[s].kind = "rebuild" THEN "scan" ELSE "commit")
      BY <1>9 DEF CheckFk
    <2> HIDE DEF JobMoves
    <2> QED BY <1>c, <1>d, <1>e, <2>1
  <1> HIDE DEF JobMoves
  <1> QED BY <1>1, <1>2, <1>3, <1>4, <1>5, <1>6, <1>7, <1>8, <1>9 DEF ScriptNext, ScriptStep

LEMMA ScriptJob == ASSUME OpsInv, NEW s \in Scripts, ScriptNext(s) PROVE JobInv'
  <1>1. PICK j : JobMoves(s, j) BY JobCases
  <1>2. \A q \in Scripts : work'[q].txn = NULL /\ work'[q].legs = {}
    BY ScriptFrame, ScriptSession DEF OpsInv, JobInv
  <1> QED BY <1>1, <1>2 DEF OpsInv, JobInv, JobMoves

-----------------------------------------------------------------------------
(* Every step.                                                             *)

\* A handler on a cycle of waits, through a script or not, is in its transaction.
LEMMA SessionRuns ==
  ASSUME NEW r \in Requests, OnCycle(r, Requests \cup Scripts, SessionWaits)
  PROVE  pc[r] \in InTxn
  <1>1. PICK S \in SUBSET (Requests \cup Scripts) : r \in S /\ Stuck(S, SessionWaits)
    BY DEF OnCycle
  <1>2. SessionWaits[r] \cap S # {} BY <1>1 DEF Stuck
  <1>3. WaitsFor(r) # {} BY <1>2 DEF SessionWaits
  <1> QED BY <1>3 DEF WaitsFor, InTxn

\* A deadlock's victim: its handler raises.
Falls(r) == pc[r] \in InTxn /\ Raise(r)

LEMMA OpsCases ==
  ASSUME [OpsNext]_opsVars
  PROVE  \/ [Next]_vars /\ UNCHANGED job
         \/ \E s \in Scripts : ScriptNext(s)
         \/ \E r \in Requests : Falls(r) /\ UNCHANGED job
  <1>1. CASE \E s \in Requests \cup Scripts : OpsDeadlockAbort(s)
    BY <1>1, SessionRuns DEF OpsDeadlockAbort, ScriptNext, Falls
  <1>2. CASE UNCHANGED opsVars BY <1>2 DEF opsVars
  <1> QED BY <1>1, <1>2 DEF OpsNext, ScriptNext

LEMMA FallIsStep == ASSUME NEW r \in Requests, Falls(r) PROVE HandlerStep(r) /\ Aborts(r)
  BY DEF Falls, Raise, Aborts, HandlerStep, Running

LEMMA FallSafe == ASSUME OpsInv, NEW r \in Requests, Falls(r) PROVE SafeInv' /\ BooksInv' /\ PoolInv'
  <1>1. HandlerStep(r) BY FallIsStep
  <1>2. TypeInv'
    BY <1>1, RaiseType, LocalStep, FiniteStep DEF Falls, OpsInv, SafeInv, TypeInv
  <1>3. SafeInv'
    BY <1>1, <1>2, KeyStep, SnapLockStep, ApprovalStep, ActiveStep DEF OpsInv, SafeInv
  <1>4. BooksInv' BY <1>1, <1>2, BooksStep DEF OpsInv, BooksInv
  <1>5. PoolInv'
    <2>1. pc \in [Requests -> Labels] /\ "fail_set" \in Running /\ pc[r] \in Running
      BY DEF OpsInv, SafeInv, TypeInv, CoreTypeOK, HandlerTypeOK, Falls, Running, AfterTxn
    <2> QED BY <2>1 DEF Falls, Raise, Abort, Goto, OpsInv, PoolInv, PoolTypeOK, PoolIsKept, pools
  <1> QED BY <1>3, <1>4, <1>5

\* The handlers, a crash of the service and the operator leave the scripts alone.
LEMMA ScriptsUntouched ==
  ASSUME SafeInv, [Next]_vars \/ \E r \in Requests : Falls(r), NEW s \in Scripts
  PROVE  work'[s] = work[s]
  <1>a. TypeInv /\ s \in Sessions /\ s \notin Requests BY ScriptSession DEF SafeInv
  <1>1. CASE \E r \in Requests : HandlerStep(r)
    BY <1>1, <1>a, OtherSessions DEF TypeInv
  <1>2. CASE Crash BY <1>2, <1>a DEF Crash
  <1>3. CASE UNCHANGED core \/ \E a \in Accounts : Operator(a)
    BY <1>3 DEF core, Operator, DropSnapshot, CorruptSnapshot, SetStatus
  <1> QED BY <1>a, <1>1, <1>2, <1>3, NextCases, FallIsStep

LEMMA OpsInvInit == OpsInit => OpsInv
  <1> SUFFICES ASSUME OpsInit PROVE OpsInv OBVIOUS
  <1>1. JobInv
    <2>1. /\ job = [s \in Scripts |-> [at |-> "idle", kind |-> "none", todo |-> {}, sum |-> NULL]]
          /\ work = [s \in Sessions |-> NoWork]
      BY DEF OpsInit, Init, DBInit
    <2>2. \A s \in Scripts : work[s].txn = NULL /\ work[s].legs = {}
      BY <2>1, ScriptSession DEF NoWork
    <2> QED BY <2>1, <2>2 DEF JobInv, Jobs, JobLabels, JobOK
  <1> QED BY <1>1, SafeInvInit, BooksInvInit, PoolInvInit DEF OpsInv, OpsInit

LEMMA OpsInvStep == ASSUME OpsInv, [OpsNext]_opsVars PROVE OpsInv'
  <1>1. CASE ([Next]_vars \/ \E r \in Requests : Falls(r)) /\ UNCHANGED job
    <2>1. JobInv' BY <1>1, ScriptsUntouched DEF OpsInv, JobInv
    <2>2. SafeInv' /\ BooksInv' /\ PoolInv'
      BY <1>1, SafeInvStep, BooksInvStep, PoolInvStep, FallSafe DEF OpsInv, SafeInv, TypeInv
    <2> QED BY <2>1, <2>2 DEF OpsInv
  <1>2. CASE \E s \in Scripts : ScriptNext(s)
    BY <1>2, ScriptSafe, ScriptBooks, ScriptJob DEF OpsInv
  <1> QED BY <1>1, <1>2, OpsCases

\* With any number of scripts beside the purchases, every variable keeps its type:
\* also the sum a rebuild is about to write.
THEOREM OpsTypeCorrect == OpsSpec => []OpsTypeOK
  <1>1. OpsInit => OpsInv BY OpsInvInit
  <1>2. OpsInv /\ [OpsNext]_opsVars => OpsInv' BY OpsInvStep
  <1>3. OpsInv => OpsTypeOK
    BY DEF OpsInv, SafeInv, TypeInv, CoreTypeOK, PoolInv, TypeOK, JobInv, Jobs, JobLabels, OpsTypeOK
  <1> QED BY <1>1, <1>2, <1>3, PTL DEF OpsSpec

\* Beside any scripts, rebuilds included, a key names one transaction, the books
\* balance, and no script changes the balance a purchase has decided from before the
\* purchase has written its own: what a rebuild spoils, it spoils between purchases.
THEOREM PurchasesBesideScripts ==
  OpsSpec => [](OneTransactionPerKey /\ DoubleEntry /\ NoStaleApproval)
  <1>1. OpsInit => OpsInv BY OpsInvInit
  <1>2. OpsInv /\ [OpsNext]_opsVars => OpsInv' BY OpsInvStep
  <1>3. OpsInv => OneTransactionPerKey /\ DoubleEntry /\ NoStaleApproval
    BY DEF OpsInv, SafeInv, BooksInv, KeyInv, ApprovalInv, NoStaleApproval
  <1> QED BY <1>1, <1>2, <1>3, PTL DEF OpsSpec

-----------------------------------------------------------------------------
(* What a rebuild may spoil.                                               *)

\* Only the merchant's account is ever credited.
LEMMA BuyersOnlyPay ==
  ASSUME TypeInv, DoubleEntry, NEW a, a # Merchant
  PROVE  LedgerBalance(a) <= 0 /\ LedgerBalance(a) \in Int
  <1>1. ASSUME NEW e \in EntriesOf(a) PROVE SignedAmount(e) <= 0
    <2>1. e \in ledger_entries /\ e.account_id = a /\ e.amount_minor \in Nat
      BY PurchaseAssumption DEF EntriesOf, TypeInv, CoreTypeOK, DBTypeOK, Entries
    <2>2. PICK t \in transactions : t.transaction_id = e.transaction_id
      BY <2>1 DEF DoubleEntry, Rowed
    <2>3. e \in LegsOf(t.transaction_id) BY <2>1, <2>2 DEF LegsOf
    <2>4. \/ LegsOf(t.transaction_id) = {}
          \/ LegsOf(t.transaction_id) =
               {Leg(t.transaction_id, 0, "DEBIT", t.account_id),
                Leg(t.transaction_id, 1, "CREDIT", Merchant)}
      BY DEF DoubleEntry
    <2>5. e.entry_type = "DEBIT" BY <2>1, <2>3, <2>4 DEF Leg
    <2> QED BY <2>1, <2>5 DEF SignedAmount
  <1>2. Summable(EntriesOf(a)) /\ LedgerBalance(a) \in Int
    BY BalanceType DEF TypeInv, CoreTypeOK
  <1> QED BY <1>1, <1>2, TotalOfDebits DEF LedgerBalance, Total

\* The numbers compared.
LEMMA DriftTypes ==
  ASSUME TypeInv, NEW a \in Accounts
  PROVE  /\ LedgerBalance(a) \in Int /\ NULL \notin Int
         /\ snapshots[a] \in Int \cup {NULL}
         /\ \A s \in Sessions : work[s].snap[a] \in Int \cup {NULL}
         /\ \A r \in Requests : PaidPart(r, a) \in Nat
  <1>1. \A r \in Requests : Paid(r) => req[r].amount \in Nat
    BY PurchaseAssumption DEF TypeInv, LocalInv, Paid, Running, InTxn, Calls
  <1>2. \A r \in Requests : PaidPart(r, a) \in Nat BY <1>1 DEF PaidPart
  <1> QED BY <1>2, BalanceType, DBAssumption DEF TypeInv, CoreTypeOK, DBTypeOK, Works

\* A COMMIT only takes from a buyer's ledger, and what it takes it has taken from
\* the snapshot it publishes.
LEMMA DriftCommit ==
  ASSUME OpsInv, DriftInv, NEW r \in Requests, Ends(r), UNCHANGED job, TypeInv',
         NEW a \in Accounts \ {Merchant}
  PROVE  Generous(a)'
  <1>a. BooksInv /\ TypeInv /\ r \in Sessions BY RequestsAreSessions DEF OpsInv, BooksInv
  <1>b. /\ Covered(a) /\ \A q \in Requests : RequestCovered(q, a)
        /\ \A s \in Scripts : ScriptCovered(s, a)
    BY DEF DriftInv, Generous
  <1>1. LedgerBalance(a)' = LedgerBalance(a) - PaidPart(r, a)
    <2>1. Paid(r) /\ a = acct[r] <=> Debited(r, a) BY DEF Ends, Paid, Debited
    <2>2. ~Credited(r, a) BY DEF Credited
    <2>3. PaidPart(r, a) = IF Debited(r, a) THEN req[r].amount ELSE 0 BY <2>1 DEF PaidPart
    <2>4. LedgerBalance(a)' = LedgerBalance(a) - PaidPart(r, a) + 0
      BY <1>a, <2>2, <2>3, CommitLedger
    <2> QED BY <1>a, <2>4, DriftTypes
  <1>2. LedgerBalance(a)' <= LedgerBalance(a) /\ LedgerBalance(a)' \in Int
    BY <1>a, <1>1, DriftTypes
  <1>3. Covered(a)'
    <2>1. snapshots'[a] = Visible(r, a) BY DEF Ends, Publish
    <2>2. CASE work[r].snap[a] # NULL
      BY <1>b, <1>1, <2>1, <2>2 DEF Visible, RequestCovered, Covered
    <2>3. CASE work[r].snap[a] = NULL
      BY <1>a, <1>b, <1>2, <2>1, <2>3, DriftTypes DEF Visible, Covered
    <2> QED BY <2>2, <2>3
  <1>4. ASSUME NEW q \in Requests PROVE RequestCovered(q, a)'
    <2>1. CASE q = r
      <3>1. work'[r].snap[a] = NULL BY <1>a, Released DEF TypeInv, NoWork
      <3> QED BY <2>1, <3>1 DEF RequestCovered
    <2>2. CASE q # r
      <3>1. Untouched(q) BY <1>a, <2>2, OthersUntouched DEF HandlerStep, TypeInv
      <3>2. PaidPart(q, a)' = PaidPart(q, a) BY <3>1 DEF PaidPart, Paid, Untouched
      <3> QED BY <1>a, <1>b, <1>2, <3>1, <3>2, DriftTypes, RequestsAreSessions
              DEF RequestCovered, Untouched
    <2> QED BY <2>1, <2>2
  <1>5. ASSUME NEW s \in Scripts PROVE ScriptCovered(s, a)'
    <2>1. work'[s] = work[s] /\ s \in Sessions
      BY <1>a, ScriptSession, OtherSessions DEF HandlerStep, TypeInv
    <2>2. At(s, "write") /\ a \in job[s].todo => job[s].sum \in Int
      BY DEF OpsInv, JobInv, JobOK, At
    <2> QED BY <1>a, <1>b, <1>2, <2>1, <2>2, DriftTypes DEF ScriptCovered, At
  <1> QED BY <1>3, <1>4, <1>5 DEF Generous

\* Before its COMMIT a handler writes the balance it read less the amount it pays, a
\* zero, or the ledger's own sum.
LEMMA DriftHandler ==
  ASSUME OpsInv, DriftInv, NEW r \in Requests, HandlerStep(r), ~Ends(r), UNCHANGED job,
         NEW a \in Accounts \ {Merchant}
  PROVE  Generous(a)'
  <1>a. /\ TypeInv /\ DoubleEntry /\ ApprovalInv /\ r \in Sessions
        /\ work[r] \in Works /\ work \in [Sessions -> Works] /\ pc \in [Requests -> Labels]
    BY RequestsAreSessions
    DEF OpsInv, BooksInv, SafeInv, TypeInv, CoreTypeOK, DBTypeOK, HandlerTypeOK
  <1>b. /\ Covered(a) /\ \A q \in Requests : RequestCovered(q, a)
        /\ \A s \in Scripts : ScriptCovered(s, a)
    BY DEF DriftInv, Generous
  <1>c. UNCHANGED <<snapshots, ledger_entries>> BY TablesStay DEF tables
  <1>d. LedgerBalance(a)' = LedgerBalance(a) BY <1>c DEF LedgerBalance, EntriesOf
  <1>e. Covered(a)' BY <1>b, <1>c, <1>d DEF Covered
  <1>f. ASSUME NEW s \in Scripts PROVE ScriptCovered(s, a)'
    <2>1. work'[s] = work[s]
      BY <1>a, ScriptSession, OtherSessions DEF TypeInv
    <2> QED BY <1>b, <1>d, <2>1 DEF ScriptCovered, At
  <1>g. ASSUME NEW q \in Requests \ {r} PROVE RequestCovered(q, a)'
    <2>1. Untouched(q) BY <1>a, OthersUntouched DEF TypeInv
    <2>2. PaidPart(q, a)' = PaidPart(q, a) BY <2>1 DEF PaidPart, Paid, Untouched
    <2> QED BY <1>b, <1>d, <2>1, <2>2 DEF RequestCovered, Untouched
  <1>s. work[r].snap \in [Accounts -> Int \cup {NULL}] BY <1>a DEF Works
  <1>1. CASE Aborts(r)
    <2>1. work'[r].snap[a] = NULL BY <1>1, <1>a, Released DEF TypeInv, NoWork
    <2>2. RequestCovered(r, a)' BY <2>1 DEF RequestCovered
    <2> QED BY <1>e, <1>f, <1>g, <2>2 DEF Generous
  <1>2. CASE UpdateSnap(r)
    <2>1. /\ acct[r] \in Accounts /\ req[r].amount \in Nat /\ bal[r] \in Int
          /\ bal[r] = Visible(r, acct[r])
      BY <1>2, <1>a, ApprovedFacts DEF UpdateSnap, ApprovalInv
    <2>2. UNCHANGED <<req, acct>> /\ ~Paid(r) /\ Paid(r)'
      BY <1>2, <1>a DEF UpdateSnap, Paid, Goto
    <2>3. work'[r].snap = [work[r].snap EXCEPT ![acct[r]] = bal[r] - req[r].amount]
      BY <1>2, <1>a, <2>1 DEF UpdateSnap, WriteSnap, Works
    <2>4. PaidPart(r, a) = 0 /\ PaidPart(r, a)' = IF a = acct[r] THEN req[r].amount ELSE 0
      BY <2>2 DEF PaidPart
    <2>5. CASE a = acct[r]
      <3>1. bal[r] >= LedgerBalance(a)
        BY <1>a, <1>b, <2>1, <2>4, <2>5, DriftTypes DEF Visible, RequestCovered, Covered
      <3>2. work'[r].snap[a] = bal[r] - req[r].amount BY <1>s, <2>3, <2>5
      <3>3. RequestCovered(r, a)'
        BY <1>a, <1>d, <2>1, <2>4, <2>5, <3>1, <3>2, DriftTypes DEF RequestCovered
      <3> QED BY <1>e, <1>f, <1>g, <3>3 DEF Generous
    <2>6. CASE a # acct[r]
      <3>1. work'[r].snap[a] = work[r].snap[a] BY <1>s, <2>3, <2>6
      <3>2. RequestCovered(r, a)' BY <1>b, <1>d, <2>4, <2>6, <3>1 DEF RequestCovered
      <3> QED BY <1>e, <1>f, <1>g, <3>2 DEF Generous
    <2> QED BY <2>5, <2>6
  <1>3. CASE ~Aborts(r) /\ ~UpdateSnap(r)
    <2>1. \/ ~Paid(r) /\ ~Paid(r)'
          \/ Paid(r) /\ Paid(r)' /\ UNCHANGED <<req, acct>>
      BY <1>3, <1>a, PaidKept
    <2>2. PaidPart(r, a)' = PaidPart(r, a) BY <2>1 DEF PaidPart
    <2>3. CASE EnsureSnap(r) \/ Heals(r)
      <3>1. acct[r] \in Accounts /\ ~Paid(r)
        BY <2>3, <1>a DEF EnsureSnap, Heals, Paid, TypeInv, LocalInv, Chosen, InTxn
      <3>2. \/ work'[r].snap = work[r].snap
            \/ work'[r].snap = [work[r].snap EXCEPT ![acct[r]] = 0]
            \/ work'[r].snap = [work[r].snap EXCEPT ![acct[r]] = LedgerBalance(acct[r])]
        <4>1. CASE EnsureSnap(r)
          <5>1. EnsureSnapRow(r, acct[r]) BY <4>1 DEF EnsureSnap
          <5> QED BY <1>a, <3>1, <5>1 DEF EnsureSnapRow, Works
        <4>2. CASE Heals(r)
          <5>1. WriteSnap(r, acct[r], LedgerBalance(acct[r])) BY <4>2 DEF Heals
          <5> QED BY <1>a, <3>1, <5>1 DEF WriteSnap, Works
        <4> QED BY <2>3, <4>1, <4>2
      <3>3. work'[r].snap[a] \in {work[r].snap[a], 0, LedgerBalance(a)}
        BY <1>s, <3>1, <3>2
      <3>4. LedgerBalance(a) <= 0 BY <1>a, BuyersOnlyPay
      <3>5. PaidPart(r, a) = 0 BY <3>1 DEF PaidPart
      <3>6. RequestCovered(r, a)'
        BY <1>a, <1>b, <1>d, <2>2, <3>3, <3>4, <3>5, DriftTypes DEF RequestCovered
      <3> QED BY <1>e, <1>f, <1>g, <3>6 DEF Generous
    <2>4. CASE ~EnsureSnap(r) /\ ~Heals(r)
      <3>1. work'[r].snap = work[r].snap
        <4>1. CASE LocksSnap(r) BY <4>1, <1>a DEF LocksSnap, SnapLock, Works
        <4>2. CASE ~LocksSnap(r) BY <1>3, <1>a, <2>4, <4>2, SameSnap DEF TypeInv
        <4> QED BY <4>1, <4>2
      <3>2. RequestCovered(r, a)' BY <1>b, <1>d, <2>2, <3>1 DEF RequestCovered
      <3> QED BY <1>e, <1>f, <1>g, <3>2 DEF Generous
    <2> QED BY <2>3, <2>4
  <1> QED BY <1>1, <1>2, <1>3

\* A crash forgets; an operator deletes a row or makes it more, and changes no ledger.
LEMMA DriftEnvironment ==
  ASSUME OpsInv, DriftInv, UNCHANGED job, NEW a \in Accounts \ {Merchant},
         Crash \/ UNCHANGED core \/ \E b \in Accounts : Operator(b)
  PROVE  Generous(a)'
  <1>a. TypeInv /\ snapshots \in [Accounts -> Int \cup {NULL}]
    BY DEF OpsInv, SafeInv, TypeInv, CoreTypeOK, DBTypeOK
  <1>b. /\ Covered(a) /\ \A q \in Requests : RequestCovered(q, a)
        /\ \A s \in Scripts : ScriptCovered(s, a)
    BY DEF DriftInv, Generous
  <1>c. UNCHANGED ledger_entries
    BY DEF Crash, core, Operator, DropSnapshot, CorruptSnapshot, SetStatus, tables
  <1>d. LedgerBalance(a)' = LedgerBalance(a) BY <1>c DEF LedgerBalance, EntriesOf
  <1>e. Covered(a)'
    <2>1. CASE UNCHANGED snapshots BY <1>b, <1>d, <2>1 DEF Covered
    <2>2. CASE \E b \in Accounts : DropSnapshot(b) \/ CorruptSnapshot(b)
      <3>1. \/ snapshots'[a] = snapshots[a] \/ snapshots'[a] = NULL
            \/ snapshots[a] # NULL /\ snapshots'[a] = snapshots[a] + 1
        BY <1>a, <2>2 DEF DropSnapshot, CorruptSnapshot
      <3> QED BY <1>a, <1>b, <1>d, <3>1, DriftTypes DEF Covered
    <2> QED BY <2>1, <2>2 DEF Crash, core, Operator, SetStatus, tables
  <1>f. ASSUME NEW s \in Scripts PROVE ScriptCovered(s, a)'
    <2>1. work'[s] = work[s]
      BY ScriptSession DEF Crash, core, Operator, DropSnapshot, CorruptSnapshot, SetStatus
    <2> QED BY <1>b, <1>d, <2>1 DEF ScriptCovered, At
  <1>g. ASSUME NEW q \in Requests PROVE RequestCovered(q, a)'
    <2>1. CASE Crash
      <3>1. work'[q] = NoWork BY <2>1, RequestsAreSessions DEF Crash
      <3>2. work'[q].snap[a] = NULL BY <3>1 DEF NoWork
      <3> QED BY <3>2 DEF RequestCovered
    <2>2. CASE UNCHANGED <<work, pc, req, acct>>
      <3>1. PaidPart(q, a)' = PaidPart(q, a) BY <2>2 DEF PaidPart, Paid
      <3> QED BY <1>b, <1>d, <2>2, <3>1 DEF RequestCovered
    <2> QED BY <2>1, <2>2 DEF core, Operator, DropSnapshot, CorruptSnapshot, SetStatus, locals
  <1> QED BY <1>e, <1>f, <1>g DEF Generous

\* A script writes zeros, and sums that have since only become too large.
LEMMA DriftScript ==
  ASSUME OpsInv, DriftInv, NEW s \in Scripts, ScriptNext(s), NEW a \in Accounts \ {Merchant}
  PROVE  Generous(a)'
  <1>a. /\ TypeInv /\ DoubleEntry /\ s \in Sessions /\ job \in [Scripts -> Jobs]
        /\ work[s].snap \in [Accounts -> Int \cup {NULL}]
    BY ScriptSession DEF OpsInv, BooksInv, TypeInv, CoreTypeOK, DBTypeOK, Works, JobInv
  <1>b. /\ Covered(a) /\ \A q \in Requests : RequestCovered(q, a)
        /\ \A q \in Scripts : ScriptCovered(q, a)
    BY DEF DriftInv, Generous
  <1>c. /\ UNCHANGED <<ledger_entries, locals>>
        /\ \A q \in Sessions \ {s} : work'[q] = work[q]
        /\ \A r \in Requests : work'[r] = work[r]
    BY ScriptFrame
  <1>d. LedgerBalance(a)' = LedgerBalance(a) BY <1>c DEF LedgerBalance, EntriesOf
  <1>1. Covered(a)'
    <2>1. \/ snapshots'[a] = snapshots[a]
          \/ work[s].snap[a] # NULL /\ snapshots'[a] = work[s].snap[a]
      BY ScriptSnapshots
    <2> QED BY <1>b, <1>d, <2>1 DEF Covered, ScriptCovered
  <1>2. ASSUME NEW r \in Requests PROVE RequestCovered(r, a)'
    <2>1. PaidPart(r, a)' = PaidPart(r, a) BY <1>c DEF PaidPart, Paid, locals
    <2> QED BY <1>b, <1>c, <1>d, <2>1 DEF RequestCovered
  <1>3. PICK j : JobMoves(s, j) BY JobCases
  <1>4. ASSUME NEW q \in Scripts \ {s} PROVE ScriptCovered(q, a)'
    <2>1. job'[q] = job[q] BY <1>3 DEF JobMoves
    <2>2. work'[q] = work[q] BY <1>c, ScriptSession
    <2> QED BY <1>b, <1>d, <2>1, <2>2 DEF ScriptCovered, At
  <1>5. At(s, "write")' /\ a \in job'[s].todo => job'[s].sum >= LedgerBalance(a)'
    <2>1. job'[s] = j BY <1>a, <1>3 DEF JobMoves
    <2>2. j.at = "write" => \E b \in Accounts : j.todo = {b} /\ j.sum = LedgerBalance(b)
      BY <1>3 DEF JobMoves
    <2>3. j.at = "write" /\ a \in j.todo => j.sum = LedgerBalance(a) BY <2>2
    <2> QED BY <1>a, <1>d, <2>1, <2>3, DriftTypes DEF At
  <1>6. work'[s].snap[a] # NULL => work'[s].snap[a] >= LedgerBalance(a)'
    <2>1. CASE work'[s].snap = work[s].snap BY <1>b, <1>d, <2>1 DEF ScriptCovered
    <2>2. CASE work'[s].snap = [b \in Accounts |-> NULL] BY <2>2
    <2>3. CASE \E b \in Accounts, n \in Int : RowWritten(s, b, n)
      <3>1. PICK b \in Accounts, n \in Int : RowWritten(s, b, n) BY <2>3
      <3>2. work'[s].snap = [work[s].snap EXCEPT ![b] = n] BY <3>1 DEF RowWritten
      <3>3. a = b => n >= LedgerBalance(a)
        <4>1. \/ n = 0
              \/ At(s, "write") /\ b \in job[s].todo /\ n = job[s].sum
          BY <3>1 DEF RowWritten, Overwrites
        <4>2. LedgerBalance(a) <= 0 BY <1>a, BuyersOnlyPay
        <4> QED BY <1>b, <4>1, <4>2 DEF ScriptCovered
      <3>4. CASE a = b BY <1>a, <1>d, <3>2, <3>3, <3>4
      <3>5. CASE a # b
        <4>1. work'[s].snap[a] = work[s].snap[a] BY <1>a, <3>2, <3>5
        <4> QED BY <1>b, <1>d, <4>1 DEF ScriptCovered
      <3> QED BY <3>4, <3>5
    <2> QED BY <2>1, <2>2, <2>3, ScriptWork
  <1>7. ScriptCovered(s, a)' BY <1>5, <1>6 DEF ScriptCovered
  <1> QED BY <1>1, <1>2, <1>4, <1>7 DEF Generous

LEMMA DriftInit == OpsInit => DriftInv
  <1> SUFFICES ASSUME OpsInit, NEW a \in Accounts \ {Merchant} PROVE Generous(a)
    BY DEF DriftInv
  <1>1. /\ ledger_entries = {} /\ snapshots[a] \in {0, NULL}
        /\ work = [s \in Sessions |-> NoWork]
        /\ job = [s \in Scripts |-> [at |-> "idle", kind |-> "none", todo |-> {}, sum |-> NULL]]
    BY DEF OpsInit, Init, DBInit
  <1>2. LedgerBalance(a) = 0
    <2>1. EntriesOf(a) = {} BY <1>1 DEF EntriesOf
    <2> QED BY <2>1, TotalEmpty DEF LedgerBalance, Total
  <1>3. \A s \in Sessions : work[s].snap[a] = NULL BY <1>1 DEF NoWork
  <1> QED BY <1>1, <1>2, <1>3, ScriptSession, RequestsAreSessions
          DEF Generous, Covered, RequestCovered, ScriptCovered, At

LEMMA DriftStep == ASSUME OpsInv, DriftInv, [OpsNext]_opsVars PROVE DriftInv'
  <1> SUFFICES ASSUME NEW a \in Accounts \ {Merchant} PROVE Generous(a)' BY DEF DriftInv
  <1>a. TypeInv /\ TypeInv' BY OpsInvStep DEF OpsInv, SafeInv
  <1>1. ASSUME NEW r \in Requests, HandlerStep(r), UNCHANGED job PROVE Generous(a)'
    BY <1>a, <1>1, DriftCommit, DriftHandler
  <1>2. CASE \E r \in Requests : Falls(r) /\ UNCHANGED job BY <1>1, <1>2, FallIsStep
  <1>3. CASE [Next]_vars /\ UNCHANGED job
    BY <1>a, <1>1, <1>3, DriftEnvironment, NextCases
  <1>4. CASE \E s \in Scripts : ScriptNext(s) BY <1>4, DriftScript
  <1> QED BY <1>2, <1>3, <1>4, OpsCases

\* Whatever rebuilds, backfills, purchases and faults do to each other, no user's
\* snapshot is ever below the sum of the user's ledger rows: what a lost update
\* loses is a debit.
THEOREM DriftGrantsCredit == OpsSpec => []DriftOnlyGrantsCredit
  <1>1. OpsInit => OpsInv /\ DriftInv BY OpsInvInit, DriftInit
  <1>2. OpsInv /\ DriftInv /\ [OpsNext]_opsVars => (OpsInv /\ DriftInv)'
    BY OpsInvStep, DriftStep
  <1>3. DriftInv => DriftOnlyGrantsCredit
    BY DEF DriftInv, Generous, Covered, DriftOnlyGrantsCredit
  <1> QED BY <1>1, <1>2, <1>3, PTL DEF OpsSpec

-----------------------------------------------------------------------------
(* What the backfill never does.                                           *)

\* A step counts a fault, or none.
LEMMA FaultsCounted ==
  ASSUME [Next]_vars
  PROVE  faults' = faults \/ \E kind : Fault(kind)
  <1>1. ASSUME NEW r \in Requests, RequestNext(r)
        PROVE  faults' = faults \/ \E kind : Fault(kind)
    <2>1. CASE RedisFails(r) \/ DbFails(r) \/ CommitLost(r)
      BY <2>1 DEF RedisFails, DbFails, CommitLost
    <2>2. CASE Unauthorized(r) \/ Receive(r) \/ CreateFails(r)
      BY <2>2 DEF Unauthorized, Receive, CreateFails
    <2>3. CASE Step(r)
      BY <2>3
      DEF Step, CreatePool, GetFinal, HealFinal, TryLock, Begin, FindAccount, InsertTxn,
          FkAccount, LockAccount, EnsureSnap, LockSnap, HealSnap, InsertLedger, UpdateSnap,
          Mark, SetFinal, DelLock, Commit, FailSet, FailDel, DeadlockAbort, Raise
    <2> QED BY <1>1, <2>1, <2>2, <2>3 DEF RequestNext
  <1>2. CASE Environment
    <2>1. CASE Crash BY <2>1 DEF Crash
    <2>2. CASE \E k \in Slots : ExpireLock(k) \/ ExpireFinal(k) \/ CorruptFinal(k)
      BY <2>2 DEF ExpireLock, ExpireFinal, CorruptFinal, locals
    <2>3. CASE \E a \in Accounts : DropSnapshot(a) \/ CorruptSnapshot(a) \/ SetStatus(a)
      BY <2>3 DEF DropSnapshot, CorruptSnapshot, SetStatus
    <2> QED BY <1>2, <2>1, <2>2, <2>3 DEF Environment
  <1> QED BY <1>1, <1>2 DEF Next, vars

LEMMA CalmBefore ==
  ASSUME OpsInv, [OpsNext]_opsVars, Calm'
  PROVE  Calm /\ RowsLeftAlone
  <1>a. faults \in Nat /\ faults' = 0
    BY PurchaseAssumption DEF Calm, OpsInv, SafeInv, TypeInv, CoreTypeOK, HandlerTypeOK
  <1>1. faults' = faults
    <2>1. \A kind : ~Fault(kind) BY <1>a DEF Fault
    <2>2. CASE [Next]_vars BY <2>1, <2>2, FaultsCounted
    <2>3. CASE \E s \in Scripts : ScriptNext(s) BY <2>3, ScriptFrame
    <2>4. CASE \E r \in Requests : Falls(r) BY <2>4 DEF Falls, Raise
    <2> QED BY <2>2, <2>3, <2>4, OpsCases
  <1>2. RowsLeftAlone
    BY <1>a, <1>1 DEF RowsLeftAlone, DropSnapshot, CorruptSnapshot, Fault
  <1>3. ASSUME NEW s \in Scripts PROVE job[s].kind # "rebuild"
    <2>1. job'[s].kind # "rebuild" BY DEF Calm
    <2>2. CASE UNCHANGED job BY <2>1, <2>2
    <2>3. ASSUME NEW q \in Scripts, ScriptNext(q) PROVE job[s].kind # "rebuild"
      <3>1. PICK j : JobMoves(q, j) BY <2>3, JobCases
      <3>2. job \in [Scripts -> Jobs] BY DEF OpsInv, JobInv
      <3> QED BY <2>1, <3>1, <3>2 DEF JobMoves
    <2> QED BY <2>2, <2>3, OpsCases
  <1> QED BY <1>a, <1>1, <1>2, <1>3 DEF Calm

\* A row that a script has inserted is nobody else's to insert.
LEMMA FillKept ==
  ASSUME OpsInv, FillInv, [Next]_vars \/ \E r \in Requests : Falls(r), RowsLeftAlone
  PROVE  FillInv'
  <1> SUFFICES ASSUME NEW s \in Scripts, NEW a \in Accounts, work[s].snap[a] # NULL
               PROVE  snapshots'[a] = snapshots[a]
    BY ScriptsUntouched DEF FillInv, OpsInv
  <1>a. TypeInv /\ SnapLockInv /\ s \in Sessions /\ s \notin Requests
    BY ScriptSession DEF OpsInv, SafeInv
  <1>b. a \in work[s].snaplock BY <1>a DEF SnapLockInv
  <1>1. ASSUME NEW r \in Requests, HandlerStep(r) PROVE snapshots'[a] = snapshots[a]
    BY <1>a, <1>b, <1>1, LockedCredit
  <1>2. CASE Crash \/ UNCHANGED core \/ \E b \in Accounts : SetStatus(b)
    BY <1>2 DEF Crash, core, tables, SetStatus
  <1> QED BY <1>a, <1>1, <1>2, NextCases, FallIsStep DEF Operator, RowsLeftAlone

LEMMA CalmScript ==
  ASSUME OpsInv, DecisionInv, MatchInv, FillInv, NEW s \in Scripts, ScriptNext(s),
         job[s].kind # "rebuild"
  PROVE  DecisionInv' /\ MatchInv' /\ FillInv'
  <1>a. TypeInv /\ s \in Sessions /\ SafeInv' /\ BooksInv'
    BY ScriptSession, ScriptSafe, ScriptBooks DEF OpsInv, SafeInv
  <1>b. /\ UNCHANGED <<status, ledger_entries, locals>>
        /\ \A q \in Sessions \ {s} : work'[q] = work[q]
        /\ \A r \in Requests : work'[r] = work[r]
    BY ScriptFrame
  <1>c. \A a \in Accounts :
          /\ \/ snapshots'[a] = snapshots[a]
             \/ snapshots[a] = NULL /\ snapshots'[a] = 0
          /\ snapshots[a] # NULL => snapshots'[a] # NULL
    BY ScriptSnapshots DEF FillInv
  <1>d. \A a \in Accounts : AvailableOn(a)' = AvailableOn(a)
    BY <1>c, DBAssumption DEF AvailableOn
  <1>e. \A r \in Requests, a \in Accounts : AvailableAfter(r, a)' = AvailableAfter(r, a)
    BY <1>b, <1>c, DBAssumption DEF AvailableAfter, Visible
  <1>1. FillInv'
    <2>1. ASSUME NEW q \in Scripts \ {s}, NEW a \in Accounts, work'[q].snap[a] # NULL
          PROVE  work'[q].snap[a] = 0 /\ snapshots'[a] = NULL
      <3>1. work'[q] = work[q] /\ q \in Sessions \ {s} BY <1>b, ScriptSession
      <3>2. work[q].snap[a] = 0 /\ snapshots[a] = NULL BY <2>1, <3>1 DEF FillInv
      <3>3. a \in work[q].snaplock
        BY <2>1, <3>1 DEF OpsInv, SafeInv, SnapLockInv
      <3> QED BY <3>1, <3>2, <3>3, ScriptSnapshots
    <2>2. ASSUME NEW a \in Accounts, work'[s].snap[a] # NULL
          PROVE  work'[s].snap[a] = 0 /\ snapshots'[a] = NULL
      <3>1. ~Publish(s)
        <4>1. work \in [Sessions -> Works] BY <1>a DEF TypeInv, CoreTypeOK, DBTypeOK
        <4> QED BY <1>a, <2>2, <4>1 DEF Publish, NoWork
      <3>2. snapshots'[a] = snapshots[a] BY <3>1, ScriptSnapshots
      <3>3. CASE work'[s].snap = work[s].snap BY <2>2, <3>2, <3>3 DEF FillInv
      <3>4. CASE work'[s].snap = [b \in Accounts |-> NULL] BY <2>2, <3>4
      <3>5. CASE \E b \in Accounts, n \in Int : RowWritten(s, b, n)
        <4>1. PICK b \in Accounts, n \in Int : RowWritten(s, b, n) BY <3>5
        <4>2. ~Overwrites(s, b) BY DEF Overwrites, At, OpsInv, JobInv, JobOK
        <4>3. work'[s].snap = [work[s].snap EXCEPT ![b] = 0] /\ snapshots[b] = NULL
          BY <4>1, <4>2 DEF RowWritten, Inserts
        <4>4. work[s].snap \in [Accounts -> Int \cup {NULL}]
          BY <1>a DEF TypeInv, CoreTypeOK, DBTypeOK, Works
        <4> QED BY <2>2, <3>2, <4>3, <4>4 DEF FillInv
      <3> QED BY <3>3, <3>4, <3>5, ScriptWork
    <2> QED BY <2>1, <2>2 DEF FillInv
  <1>2. MatchInv' BY <1>b, <1>d DEF MatchInv, LedgerBalance, EntriesOf
  <1>3. HealInv'
    <2>1. ASSUME NEW r \in Requests, pc[r] = "lock_snap" PROVE Visible(r, acct[r])' # NULL
      <3>1. acct[r] \in Accounts BY <1>a, <2>1, ApprovedFacts
      <3>2. Visible(r, acct[r]) # NULL BY <2>1 DEF DecisionInv, SolventInv, HealInv
      <3> QED BY <1>b, <1>c, <3>1, <3>2 DEF Visible, locals
    <2> QED BY <1>b, <2>1 DEF DecisionInv, SolventInv, HealInv, locals
  <1>4. CreditInv'
    <2>1. CreditNeverNegative'
      BY <1>d DEF DecisionInv, SolventInv, CreditInv, CreditNeverNegative
    <2>2. ASSUME NEW q \in Sessions, NEW a \in Accounts, work'[q].snap[a] # NULL
          PROVE  CreditLimit[a] + work'[q].snap[a] >= 0
      <3>1. CASE q = s
        <4>1. work'[s].snap[a] = 0 BY <1>1, <2>2, <3>1 DEF FillInv
        <4>2. CreditLimit[a] \in Nat BY DBAssumption
        <4> QED BY <3>1, <4>1, <4>2
      <3>2. CASE q # s BY <1>b, <2>2, <3>2 DEF DecisionInv, SolventInv, CreditInv
      <3> QED BY <3>1, <3>2
    <2> QED BY <2>1, <2>2 DEF CreditInv
  <1>5. EffectInv'
    BY <1>b, <1>d, <1>e DEF DecisionInv, EffectInv, EffectAt, Paid, locals
  <1>6. ReasonInv'
    <2>1. ASSUME NEW r \in Requests PROVE ReasonAt(r)'
      <3>1. Refused(r) => acct[r] \in Accounts
        BY <1>a DEF TypeInv, LocalInv, Refused, Chosen, InTxn
      <3>2. Reason(r) /\ acct[r] \in Accounts => Reason(r)' BY <1>b, <1>d DEF Reason, locals
      <3> QED BY <1>b, <3>1, <3>2
              DEF DecisionInv, ReasonInv, ReasonAt, Refused, WillPost, Paid, locals
    <2> QED BY <2>1 DEF ReasonInv
  <1> QED BY <1>a, <1>1, <1>2, <1>3, <1>4, <1>5, <1>6 DEF DecisionInv, SolventInv

LEMMA CalmInit == OpsInit => CalmInv
  <1> SUFFICES ASSUME OpsInit PROVE FillInv
    BY DecisionInit, MatchInit DEF CalmInv, OpsInit
  <1>1. \A s \in Scripts, a \in Accounts : work[s].snap[a] = NULL
    BY ScriptSession DEF OpsInit, Init, DBInit, NoWork
  <1> QED BY <1>1 DEF FillInv

LEMMA CalmStep == ASSUME OpsInv, CalmInv, [OpsNext]_opsVars PROVE CalmInv'
  <1> SUFFICES ASSUME Calm' PROVE DecisionInv' /\ MatchInv' /\ FillInv' BY DEF CalmInv
  <1>a. Calm /\ RowsLeftAlone BY CalmBefore
  <1>b. DecisionInv /\ MatchInv /\ FillInv BY <1>a DEF CalmInv
  <1>c. TypeInv' BY OpsInvStep DEF OpsInv, SafeInv
  <1>1. CASE [Next]_vars BY <1>1, <1>a, <1>b, DecisionStep, MatchStep, FillKept
  <1>2. ASSUME NEW r \in Requests, Falls(r) PROVE DecisionInv' /\ MatchInv' /\ FillInv'
    <2>1. DecisionInv' BY <1>b, <1>c, <1>2, FallIsStep, DecisionHandler
    <2>2. MatchInv' BY <1>b, <1>2, MatchFrame DEF Falls, Raise, Abort, Rollback, tables
    <2> QED BY <1>a, <1>b, <1>2, <2>1, <2>2, FillKept
  <1>3. CASE \E s \in Scripts : ScriptNext(s) BY <1>3, <1>a, <1>b, CalmScript DEF Calm
  <1> QED BY <1>1, <1>2, <1>3, OpsCases

\* Any number of backfills beside any number of purchases leave every user's snapshot
\* the sum of the user's ledger rows, deadlocks and unique violations included.
THEOREM BackfillsAreHarmless == OpsSpec => []BackfillHarmless
  <1>1. OpsInit => OpsInv /\ CalmInv BY OpsInvInit, CalmInit
  <1>2. OpsInv /\ CalmInv /\ [OpsNext]_opsVars => (OpsInv /\ CalmInv)'
    BY OpsInvStep, CalmStep
  <1>3. OpsInv /\ CalmInv => BackfillHarmless
    BY MatchIsSums DEF OpsInv, SafeInv, TypeInv, CalmInv, Calm, BackfillHarmless
  <1> QED BY <1>1, <1>2, <1>3, PTL DEF OpsSpec

\* Where the backfill is the only script and nobody else touches the snapshot rows,
\* whatever else fails.
FillOnly == "rebuild" \notin Kinds /\ SnapshotsOwned

FilledInv ==
  OpsInv /\ DecisionInv /\ MatchInv /\ FillInv /\ \A s \in Scripts : job[s].kind # "rebuild"

LEMMA NoRebuild ==
  ASSUME OpsInv, "rebuild" \notin Kinds, [OpsNext]_opsVars,
         \A s \in Scripts : job[s].kind # "rebuild"
  PROVE  \A s \in Scripts : job'[s].kind # "rebuild"
  <1>1. ASSUME NEW q \in Scripts, ScriptNext(q), NEW s \in Scripts
        PROVE  job'[s].kind # "rebuild"
    <2>1. /\ job \in [Scripts -> Jobs]
          /\ \A p \in Scripts : At(p, "ensure") \/ At(p, "scan") \/ At(p, "write")
                                  => job[p].kind = "rebuild"
      BY DEF OpsInv, JobInv, JobOK, At
    <2>2. ~StartRebuild(q) BY DEF StartRebuild
    <2>3. ~EnsureRow(q) /\ ~Scan(q) /\ ~Write(q) BY <2>1 DEF EnsureRow, Scan, Write
    <2>4. job'[q].kind \in {job[q].kind, "backfill"} /\ (s # q => job'[s] = job[s])
      <3>1. CASE StartBackfill(q)
        <4> DEFINE missing == {a \in Accounts : snapshots[a] = NULL}
                   j == [at |-> IF missing = {} THEN "commit" ELSE "insert",
                         kind |-> "backfill", todo |-> missing, sum |-> NULL]
        <4>1. job' = [job EXCEPT ![q] = j] BY <3>1 DEF StartBackfill
        <4>2. j.kind = "backfill" OBVIOUS
        <4> HIDE DEF j
        <4> QED BY <2>1, <4>1, <4>2
      <3>2. CASE InsertMissing(q) \/ CheckFk(q) \/ Finish(q) \/ Fail(q)
        BY <2>1, <3>2 DEF InsertMissing, CheckFk, Finish, Fail, Move, Jobs
      <3> QED BY <1>1, <2>2, <2>3, <3>1, <3>2 DEF ScriptNext, ScriptStep
    <2> QED BY <2>4
  <1>2. UNCHANGED job \/ \E q \in Scripts : ScriptNext(q) BY OpsCases
  <1> QED BY <1>1, <1>2

LEMMA FilledStep ==
  ASSUME FillOnly, FilledInv, [OpsNext]_opsVars
  PROVE  FilledInv' /\ [Atomic!Next]_abstract
  <1>a. RowsLeftAlone BY OwnedRows DEF FillOnly
  <1>b. OpsInv /\ DecisionInv /\ MatchInv /\ FillInv BY DEF FilledInv
  <1>c. OpsInv' /\ TypeInv' /\ \A s \in Scripts : job'[s].kind # "rebuild"
    BY <1>b, OpsInvStep, NoRebuild DEF FilledInv, FillOnly, OpsInv, SafeInv
  <1>d. UNCHANGED <<transactions, status, Credit>> => UNCHANGED abstract
    BY DEF abstract, Outcome, OutcomeOf, RowsOf
  <1> SUFFICES DecisionInv' /\ MatchInv' /\ FillInv' /\ [Atomic!Next]_abstract
    BY <1>c DEF FilledInv
  <1>1. CASE [Next]_vars
    BY <1>1, <1>a, <1>b, DecisionStep, MatchStep, FillKept, StepRefines
  <1>2. ASSUME NEW r \in Requests, Falls(r)
        PROVE  DecisionInv' /\ MatchInv' /\ FillInv' /\ [Atomic!Next]_abstract
    <2>1. DecisionInv' BY <1>b, <1>c, <1>2, FallIsStep, DecisionHandler
    <2>2. UNCHANGED tables BY <1>2 DEF Falls, Raise, Abort, Rollback
    <2>3. UNCHANGED Credit BY <2>2 DEF Credit, AvailableOn, tables
    <2> QED BY <1>a, <1>b, <1>d, <1>2, <2>1, <2>2, <2>3, MatchFrame, FillKept DEF tables
  <1>3. ASSUME NEW s \in Scripts, ScriptNext(s)
        PROVE  DecisionInv' /\ MatchInv' /\ FillInv' /\ [Atomic!Next]_abstract
    <2>1. DecisionInv' /\ MatchInv' /\ FillInv' BY <1>b, <1>3, CalmScript DEF FilledInv
    <2>2. UNCHANGED Credit
      <3>1. \A a \in Accounts : AvailableOn(a)' = AvailableOn(a)
        BY <1>b, <1>3, ScriptSnapshots, DBAssumption DEF AvailableOn, FillInv
      <3> QED BY <3>1 DEF Credit
    <2> QED BY <1>b, <1>d, <1>3, <2>1, <2>2, ScriptFrame
  <1> QED BY <1>1, <1>2, <1>3, OpsCases

\* The backfill may run against the live service: with any number of backfills beside it
\* the handler is still the atomic purchase, in which no script exists at all.
THEOREM BackfillIsInvisible == ASSUME FillOnly PROVE OpsSpec => ImplementsAtomicPurchase
  <1>1. OpsInit => FilledInv /\ Atomic!Init
    <2> SUFFICES ASSUME OpsInit PROVE FillInv /\ \A s \in Scripts : job[s].kind # "rebuild"
      BY OpsInvInit, DecisionInit, MatchInit, InitRefines DEF FilledInv, OpsInit
    <2>1. \A s \in Scripts, a \in Accounts : work[s].snap[a] = NULL
      BY ScriptSession DEF OpsInit, Init, DBInit, NoWork
    <2> QED BY <2>1 DEF FillInv, OpsInit
  <1>2. FilledInv /\ [OpsNext]_opsVars => FilledInv' /\ [Atomic!Next]_abstract
    BY FilledStep
  <1> QED BY <1>1, <1>2, PTL
          DEF OpsSpec, ImplementsAtomicPurchase, Atomic!Spec, abstract, Outcome, Credit
=============================================================================
