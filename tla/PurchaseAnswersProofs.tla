------------------------ MODULE PurchaseAnswersProofs ------------------------
(***************************************************************************)
(* The Redis side of POST /purchase: the lock has one holder, and what is  *)
(* stored or answered is true.  Both hold as long as the faults that break *)
(* them, which the assumptions name, stay away.                            *)
(***************************************************************************)
EXTENDS PurchaseProofs

\* Nothing undoes a transaction whose response is stored.
NothingUndone == {"redis", "db", "crash"} \cap Faults = {}

\* Nor does a handler come back to the lock it has deleted, or lose one it holds.
LockSteady == NothingUndone /\ {"commit_lost", "expire_lock"} \cap Faults = {}

LEMMA NoFault ==
  ASSUME NothingUndone
  PROVE  /\ ~Crash /\ \A r \in Requests : ~RedisFails(r) /\ ~DbFails(r) /\ ~CreateFails(r)
         /\ LockSteady => /\ \A r \in Requests : ~CommitLost(r)
                          /\ \A k \in Slots : ~ExpireLock(k)
  BY DEF NothingUndone, LockSteady, Crash, RedisFails, DbFails, CreateFails, CommitLost,
         ExpireLock, Fault

\* A statement that waits is none of the last three of the transaction.
LEMMA WaitingWhere ==
  ASSUME NEW r \in Requests, OnCycle(r, Requests, Waiting)
  PROVE  pc[r] \in InTxn \ {"set_final", "del_lock", "commit"}
  <1>1. PICK S \in SUBSET Requests : r \in S /\ Stuck(S, Waiting) BY DEF OnCycle
  <1>2. Waiting[r] \cap S # {} BY <1>1 DEF Stuck
  <1>3. WaitsFor(r) # {} BY <1>2 DEF Waiting
  <1> QED BY <1>3 DEF WaitsFor, InTxn

-----------------------------------------------------------------------------
(* The lock.                                                               *)

Holds(r, k) == pc[r] \in Holding /\ slot(r) = k

Holders(k) == {r \in Requests : Holds(r, k)}

\* The lock is set exactly while one request is between taking and deleting it.
HolderInv ==
  \A k \in Slots : IF lock[k] THEN \E r \in Requests : Holders(k) = {r}
                              ELSE Holders(k) = {}

LEMMA HoldingRuns == Holding \subseteq Running
  BY DEF Holding, Running, BeforeTxn

TakesLock(r) ==
  /\ pc[r] = "try_lock" /\ LockFree(slot(r)) /\ TakeLock(slot(r))
  /\ Goto(r, "begin") /\ UNCHANGED req

Unlocks(r) ==
  /\ pc[r] \in {"del_lock", "fail_del"} /\ DelLockKey(slot(r))
  /\ \E l \in Labels \ Holding : Goto(r, l)
  /\ UNCHANGED req

\* Neither takes nor releases: it holds the lock after the step if it did before.
KeepsLock(r) ==
  /\ UNCHANGED lock
  /\ \E l : Goto(r, l) /\ (l \in Holding <=> pc[r] \in Holding)
  /\ pc[r] \in Holding => req'[r] = req[r]
  /\ \A q \in Requests \ {r} : req'[q] = req[q]

\* What a step of a request does to the lock.
LEMMA LockCases ==
  ASSUME TypeInv, LockSteady, NEW r \in Requests, RequestNext(r)
  PROVE  TakesLock(r) \/ Unlocks(r) \/ KeepsLock(r)
  <1> USE DEF Holding, InTxn, AfterTxn
  <1>a. req \in [Requests -> Calls \cup {NULL}] BY DEF TypeInv, CoreTypeOK, HandlerTypeOK
  <1>b. "done" \in Labels /\ "commit" \in Labels
    BY DEF Labels, Live, Running, InTxn
  <1>1. CASE Unauthorized(r) BY <1>1 DEF Unauthorized, KeepsLock, Reply, store
  <1>2. CASE Receive(r)
    BY <1>2, <1>a DEF Receive, Enter, Reply, KeepsLock, store
  <1>3. CASE CreatePool(r) BY <1>3 DEF CreatePool, Enter, Reply, KeepsLock, store
  <1>4. CASE GetFinal(r) BY <1>4 DEF GetFinal, Reply, KeepsLock, store
  <1>5. CASE HealFinal(r) BY <1>5 DEF HealFinal, DelFinal, PutFinal, KeepsLock
  <1>6. CASE TryLock(r) BY <1>6 DEF TryLock, TakesLock, Reply, KeepsLock, store
  <1>7. CASE Begin(r) BY <1>7 DEF Begin, KeepsLock, store
  <1>8. CASE FindAccount(r) BY <1>8 DEF FindAccount, Raise, Abort, KeepsLock, store
  <1>9. CASE InsertTxn(r) BY <1>9 DEF InsertTxn, Raise, Abort, KeepsLock, store
  <1>10. CASE FkAccount(r) BY <1>10 DEF FkAccount, KeepsLock, store
  <1>11. CASE LockAccount(r) BY <1>11 DEF LockAccount, KeepsLock, store
  <1>12. CASE EnsureSnap(r) BY <1>12 DEF EnsureSnap, KeepsLock, store
  <1>13. CASE LockSnap(r) BY <1>13 DEF LockSnap, Decide, KeepsLock, store
  <1>14. CASE HealSnap(r) BY <1>14 DEF HealSnap, Decide, Raise, Abort, KeepsLock, store
  <1>15. CASE InsertLedger(r) BY <1>15 DEF InsertLedger, KeepsLock, store
  <1>16. CASE UpdateSnap(r) BY <1>16 DEF UpdateSnap, KeepsLock, store
  <1>17. CASE Mark(r) BY <1>17 DEF Mark, KeepsLock, store
  <1>18. CASE SetFinal(r) BY <1>18 DEF SetFinal, PutDecided, PutFinal, KeepsLock
  <1>19. CASE DelLock(r) BY <1>19, <1>b DEF DelLock, Unlocks
  <1>20. CASE Commit(r) BY <1>20 DEF Commit, Reply, KeepsLock, store
  <1>21. CASE FailSet(r) BY <1>21 DEF FailSet, PutFailed, PutFinal, KeepsLock
  <1>22. CASE FailDel(r) BY <1>22, <1>b DEF FailDel, Reply, Unlocks
  <1>23. CASE DeadlockAbort(r)
    BY <1>23, WaitingWhere DEF DeadlockAbort, Raise, Abort, KeepsLock, store
  <1> QED BY <1>1, <1>2, <1>3, <1>4, <1>5, <1>6, <1>7, <1>8, <1>9, <1>10, <1>11, <1>12,
             <1>13, <1>14, <1>15, <1>16, <1>17, <1>18, <1>19, <1>20, <1>21, <1>22, <1>23,
             NoFault
          DEF RequestNext, Step, LockSteady

LEMMA HolderStep ==
  ASSUME TypeInv, HolderInv, NEW r \in Requests,
         TakesLock(r) \/ Unlocks(r) \/ KeepsLock(r)
  PROVE  HolderInv'
  <1>a. pc \in [Requests -> Labels] /\ lock \in [Slots -> BOOLEAN]
    BY DEF TypeInv, CoreTypeOK, HandlerTypeOK, StoreTypeOK
  <1>b. \A q \in Requests \ {r}, k \in Slots : Holds(q, k)' <=> Holds(q, k)
    BY <1>a DEF TakesLock, Unlocks, KeepsLock, Goto, Holds, slot
  <1>1. CASE TakesLock(r)
    <2>1. slot(r) \in Slots /\ ~lock[slot(r)] /\ slot(r)' = slot(r)
      BY <1>1, SlotType DEF TakesLock, TypeInv, Running, BeforeTxn, LockFree, slot
    <2>2. pc'[r] = "begin" /\ ~(pc[r] \in Holding)
      BY <1>1, <1>a DEF TakesLock, Goto, Holding, InTxn, AfterTxn
    <2>3. /\ lock'[slot(r)] /\ Holders(slot(r))' = {r}
      <3>1. Holders(slot(r)) = {} BY <2>1 DEF HolderInv
      <3>2. Holds(r, slot(r))' BY <2>1, <2>2 DEF Holds, Holding
      <3>3. \A q \in Requests \ {r} : ~Holds(q, slot(r))'
        BY <1>b, <2>1, <3>1 DEF Holders, Holds, slot
      <3>4. Holders(slot(r))' = {r} BY <2>1, <3>2, <3>3 DEF Holders
      <3> QED BY <1>1, <1>a, <2>1, <3>4 DEF TakesLock, TakeLock
    <2>4. ASSUME NEW k \in Slots, k # slot(r)
          PROVE  lock'[k] = lock[k] /\ Holders(k)' = Holders(k)
      <3>1. ~Holds(r, k) /\ ~Holds(r, k)' BY <2>1, <2>4 DEF Holds
      <3>2. Holders(k)' = Holders(k) BY <1>b, <2>4, <3>1 DEF Holders
      <3> QED BY <1>1, <1>a, <2>4, <3>2 DEF TakesLock, TakeLock
    <2>5. slot(r)' \in Slots BY <2>1
    <2> QED BY <2>1, <2>3, <2>4 DEF HolderInv
  <1>2. CASE Unlocks(r)
    <2>1. slot(r) \in Slots /\ slot(r)' = slot(r) /\ Holds(r, slot(r)) /\ pc'[r] \notin Holding
      BY <1>2, <1>a, SlotType
      DEF Unlocks, TypeInv, Running, InTxn, AfterTxn, slot, Goto, Holds, Holding
    <2>2. Holders(slot(r)) = {r} BY <2>1 DEF HolderInv, Holders
    <2>3. ~lock'[slot(r)] BY <1>2, <1>a, <2>1 DEF Unlocks, DelLockKey
    <2>4. \A q \in Requests \ {r} : ~Holds(q, slot(r)) BY <2>2 DEF Holders
    <2>5. \A k \in Slots : ~Holds(r, k)' BY <2>1 DEF Holds
    <2>6. \A k \in Slots \ {slot(r)} : lock'[k] = lock[k] /\ Holders(k)' = Holders(k)
      BY <1>2, <1>a, <1>b, <2>1, <2>5 DEF Unlocks, DelLockKey, Holders, Holds
    <2>7. \A k \in Slots : k = slot(r) => Holders(k)' = {}
      BY <1>b, <2>4, <2>5 DEF Holders
    <2> QED BY <2>1, <2>3, <2>6, <2>7 DEF HolderInv
  <1>3. CASE KeepsLock(r)
    <2>1. \A k \in Slots : Holds(r, k)' <=> Holds(r, k)
      BY <1>3, <1>a DEF KeepsLock, Goto, Holds, slot
    <2>2. \A k \in Slots : Holders(k)' = Holders(k) BY <1>b, <2>1 DEF Holders
    <2> QED BY <1>3, <2>2 DEF KeepsLock, HolderInv
  <1> QED BY <1>1, <1>2, <1>3

LEMMA HolderNext == ASSUME TypeInv, HolderInv, LockSteady, [Next]_vars PROVE HolderInv'
  <1>1. CASE \E r \in Requests : RequestNext(r) BY <1>1, LockCases, HolderStep
  <1>2. CASE UNCHANGED <<pc, req, lock>>
    BY <1>2 DEF HolderInv, Holders, Holds, slot
  <1>3. Environment => UNCHANGED <<pc, req, lock>>
    BY NoFault
    DEF Environment, ExpireFinal, CorruptFinal, DropSnapshot, CorruptSnapshot, SetStatus,
        DelFinal, PutFinal, locals, store, LockSteady
  <1> QED BY <1>1, <1>2, <1>3 DEF Next, vars, locals, store

\* As long as Redis and the database answer and the lock does not expire, it is set
\* exactly while one request of its key is inside, although DEL asks nobody.
THEOREM LockIsExclusive == ASSUME LockSteady PROVE Spec => []LockHasOneHolder
  <1>1. Init => TypeInv /\ HolderInv
    <2>1. Init => HolderInv
      BY DEF Init, StoreInit, HolderInv, Holders, Holds, Holding, InTxn, AfterTxn
    <2> QED BY <2>1, TypeInvInit
  <1>2. TypeInv /\ HolderInv /\ [Next]_vars => (TypeInv /\ HolderInv)'
    BY TypeInvStep, HolderNext
  <1>3. TypeInv /\ HolderInv => LockHasOneHolder
    <2> SUFFICES ASSUME TypeInv, HolderInv, NEW k \in Slots
                 PROVE  Cardinality(Holders(k)) = IF lock[k] THEN 1 ELSE 0
      BY DEF LockHasOneHolder, Holders, Holds
    <2>1. CASE lock[k] BY <2>1, FS_Singleton DEF HolderInv
    <2>2. CASE ~lock[k] BY <2>2, FS_EmptySet DEF HolderInv
    <2> QED BY <2>1, <2>2
  <1> QED BY <1>1, <1>2, <1>3, PTL DEF Spec

-----------------------------------------------------------------------------
(* The responses.                                                          *)

Says(x) == x # NULL /\ x.status \in Decided

\* A decided response for key k names a request of that key, and is true.
Owned(k, x) ==
  Says(x) => /\ x.txn \in Requests /\ pc[x.txn] # "idle" /\ slot(x.txn) = k
             /\ Backed(x)

StoredInv == \A k \in Slots : Owned(k, final[k])

SentInv ==
  \A r \in Requests : Says(answer[r]) => pc[r] # "idle" /\ Owned(slot(r), answer[r])

AnswerInv == SafeInv /\ BooksInv /\ StoredInv /\ SentInv

\* The response is stored, to be made true by COMMIT.
Stores(r) ==
  /\ pc[r] = "set_final" /\ Goto(r, "del_lock")
  /\ PutFinal(slot(r), [status |-> work[r].txn.status, txn |-> r])
  /\ UNCHANGED <<tables, work, req, answer>>

Replays(r) ==
  /\ pc[r] = "get_final" /\ Goto(r, "done") /\ Cached(slot(r))
  /\ answer' = [answer EXCEPT ![r] = Answer(200, final[slot(r)].status, final[slot(r)].txn)]
  /\ UNCHANGED <<tables, work, req, final>>

Tells(r) ==
  /\ Ends(r)
  /\ \/ UNCHANGED answer
     \/ \E code : answer' = [answer EXCEPT ![r] = Answer(code, work[r].txn.status, r)]
  /\ UNCHANGED final

\* Nothing decided is stored or said, and a transaction whose response is stored goes on.
Quiet(r) ==
  /\ \A k \in Slots : final'[k] = final[k] \/ ~Says(final'[k])
  /\ \A q \in Requests : answer'[q] = answer[q] \/ ~Says(answer'[q])
  /\ pc[r] \in {"del_lock", "commit"} => pc'[r] \in {"del_lock", "commit"} /\ UNCHANGED work
  /\ \E l \in Labels \ {"idle"} : Goto(r, l)
  /\ pc[r] # "idle" => req'[r] = req[r]
  /\ \A q \in Requests \ {r} : req'[q] = req[q]
  /\ UNCHANGED transactions

LEMMA AnswerCases ==
  ASSUME TypeInv, NothingUndone, NEW r \in Requests, RequestNext(r)
  PROVE  Stores(r) \/ Replays(r) \/ Tells(r) \/ Quiet(r)
  <1>a. /\ final \in [Slots -> Responses \cup {NULL, Corrupt}]
        /\ answer \in [Requests -> Answers \cup {NULL}]
        /\ req \in [Requests -> Calls \cup {NULL}]
    BY DEF TypeInv, CoreTypeOK, StoreTypeOK, HandlerTypeOK
  <1>b. \A l \in {"done", "create_pool", "fail_set", "fail_del"} \cup BeforeTxn \cup InTxn :
          l \in Labels \ {"idle"}
    BY DEF Labels, Live, Running, BeforeTxn, InTxn, AfterTxn
  <1>c. \A code, st, t : st \notin Decided => ~Says(Answer(code, st, t))
    BY DEF Says, Answer
  <1>d. ~Says(NULL) BY DEF Says
  <1>e. pc[r] \in Running => slot(r) \in Slots BY SlotType DEF TypeInv
  <1>f. ~Says([status |-> "FAILED", txn |-> r]) BY DEF Says, Decided
  <1> USE <1>a, <1>b DEF BeforeTxn, InTxn, tables
  <1>1. CASE Unauthorized(r)
    BY <1>1, <1>c DEF Unauthorized, Quiet, Reply, store, Decided
  <1>2. CASE Receive(r)
    BY <1>2, <1>c DEF Receive, Enter, Reply, Quiet, store, Decided
  <1>3. CASE CreatePool(r)
    BY <1>3, <1>c DEF CreatePool, Enter, Reply, Quiet, store, Decided
  <1>4. CASE GetFinal(r)
    <2>1. CASE Cached(slot(r))
      BY <1>4, <2>1 DEF GetFinal, Reply, Replays, store
    <2>2. CASE ~Cached(slot(r))
      BY <1>4, <2>2 DEF GetFinal, Quiet, store
    <2> QED BY <2>1, <2>2
  <1>5. CASE HealFinal(r)
    BY <1>5, <1>d DEF HealFinal, DelFinal, PutFinal, Quiet
  <1>6. CASE TryLock(r)
    BY <1>6, <1>c DEF TryLock, TakeLock, Reply, Quiet, store, Decided
  <1>7. CASE Begin(r) BY <1>7 DEF Begin, Quiet, store
  <1>8. CASE FindAccount(r) BY <1>8 DEF FindAccount, Raise, Abort, Rollback, Quiet, store
  <1>9. CASE InsertTxn(r) BY <1>9 DEF InsertTxn, Raise, Abort, Rollback, Quiet, store
  <1>10. CASE FkAccount(r) BY <1>10 DEF FkAccount, Quiet, store
  <1>11. CASE LockAccount(r) BY <1>11 DEF LockAccount, Quiet, store
  <1>12. CASE EnsureSnap(r) BY <1>12 DEF EnsureSnap, Quiet, store
  <1>13. CASE LockSnap(r) BY <1>13 DEF LockSnap, Decide, Quiet, store
  <1>14. CASE HealSnap(r)
    BY <1>14 DEF HealSnap, Decide, Raise, Abort, Rollback, Quiet, store
  <1>15. CASE InsertLedger(r) BY <1>15 DEF InsertLedger, Quiet, store
  <1>16. CASE UpdateSnap(r) BY <1>16 DEF UpdateSnap, Quiet, store
  <1>17. CASE Mark(r) BY <1>17 DEF Mark, Quiet, store
  <1>18. CASE SetFinal(r) BY <1>18 DEF SetFinal, PutDecided, Stores
  <1>19. CASE DelLock(r) BY <1>19 DEF DelLock, DelLockKey, Quiet, Goto, TypeInv, CoreTypeOK, HandlerTypeOK
  <1>20. CASE Commit(r) BY <1>20 DEF Commit, Reply, Tells, Ends, store
  <1>21. CASE FailSet(r)
    BY <1>21, <1>f DEF FailSet, PutFailed, PutFinal, Quiet
  <1>22. CASE FailDel(r)
    BY <1>22, <1>c DEF FailDel, DelLockKey, Reply, Quiet, Decided
  <1>23. CASE DeadlockAbort(r)
    BY <1>23, WaitingWhere DEF DeadlockAbort, Raise, Abort, Rollback, Quiet, store
  <1>24. CASE CommitLost(r) BY <1>24 DEF CommitLost, Tells, Ends, store
  <1> QED BY <1>1, <1>2, <1>3, <1>4, <1>5, <1>6, <1>7, <1>8, <1>9, <1>10, <1>11, <1>12,
             <1>13, <1>14, <1>15, <1>16, <1>17, <1>18, <1>19, <1>20, <1>21, <1>22, <1>23,
             <1>24, NoFault
          DEF RequestNext, Step

\* A true response stays true: a commit stays, and what is stored is committed next.
LEMMA OwnedStays ==
  ASSUME AnswerInv, NEW r \in Requests, HandlerStep(r),
         Stores(r) \/ Replays(r) \/ Tells(r) \/ Quiet(r),
         NEW k, NEW x, Says(x), Owned(k, x)
  PROVE  Owned(k, x)'
  <1>a. TypeInv /\ pc \in [Requests -> Labels]
    BY DEF AnswerInv, BooksInv, TypeInv, CoreTypeOK, HandlerTypeOK
  <1>1. x.txn \in Requests /\ pc[x.txn] # "idle" /\ slot(x.txn) = k /\ Backed(x)
    BY DEF Owned
  <1>2. pc'[x.txn] # "idle" /\ slot(x.txn)' = k
    <2>1. CASE x.txn # r
      BY <1>1, <2>1, <1>a, OthersUntouched DEF TypeInv, Untouched, slot
    <2>2. CASE x.txn = r
      <3>1. pc'[r] # "idle"
        BY <1>a DEF Stores, Replays, Tells, Ends, Quiet, Goto
      <3>2. req'[r] = req[r]
        BY <1>1, <2>2 DEF Stores, Replays, Tells, Ends, Quiet
      <3> QED BY <1>1, <2>2, <3>1, <3>2 DEF slot
    <2> QED BY <2>1, <2>2
  <1>3. Backed(x)'
    <2>1. transactions \subseteq transactions'
      <3>1. CASE Ends(r) BY <3>1 DEF Ends, Publish
      <3>2. CASE ~Ends(r) BY <3>2, TablesStay DEF tables
      <3> QED BY <3>1, <3>2
    <2>2. CASE \E t \in transactions : t.transaction_id = x.txn /\ t.status = x.status
      BY <2>1, <2>2 DEF Backed
    <2>3. CASE /\ pc[x.txn] \in {"del_lock", "commit"}
               /\ work[x.txn].txn.status = x.status
      <3>1. CASE x.txn # r
        BY <1>1, <2>3, <3>1, <1>a, OthersUntouched DEF TypeInv, Untouched, Backed
      <3>2. CASE x.txn = r /\ Ends(r)
        <4>1. /\ transactions' = transactions \cup {work[r].txn}
              /\ work[r].txn.transaction_id = r
          BY <3>2, CommitAdds DEF AnswerInv, OwnRow
        <4>2. \E t \in transactions' : t.transaction_id = r /\ t.status = x.status
          BY <2>3, <3>2, <4>1
        <4> QED BY <3>2, <4>2 DEF Backed
      <3>3. CASE x.txn = r /\ Quiet(r)
        BY <2>3, <3>3 DEF Quiet, Backed
      <3>4. CASE Stores(r) \/ Replays(r)
        BY <2>3, <3>1, <3>4 DEF Stores, Replays
      <3> QED BY <3>1, <3>2, <3>3, <3>4 DEF Tells
    <2> QED BY <1>1, <2>2, <2>3 DEF Backed, Says
  <1> QED BY <1>1, <1>2, <1>3 DEF Owned

LEMMA ResponsesStep ==
  ASSUME AnswerInv, NEW r \in Requests, HandlerStep(r),
         Stores(r) \/ Replays(r) \/ Tells(r) \/ Quiet(r)
  PROVE  StoredInv' /\ SentInv'
  <1>a. /\ TypeInv /\ final \in [Slots -> Responses \cup {NULL, Corrupt}]
        /\ answer \in [Requests -> Answers \cup {NULL}] /\ pc \in [Requests -> Labels]
    BY DEF AnswerInv, BooksInv, TypeInv, CoreTypeOK, StoreTypeOK, HandlerTypeOK
  <1>b. pc[r] \in Running => slot(r) \in Slots BY <1>a, SlotType DEF TypeInv
  <1>1. ASSUME NEW k \in Slots, final'[k] = final[k] PROVE Owned(k, final[k])'
    <2>1. Owned(k, final[k]) BY DEF AnswerInv, StoredInv
    <2>2. ASSUME NEW x, x = final[k] PROVE Owned(k, x)'
      BY <2>1, <2>2, OwnedStays DEF Owned, Says
    <2> QED BY <1>1, <2>2 DEF Owned, Backed
  <1>2. ASSUME NEW q \in Requests, answer'[q] = answer[q], Says(answer[q])
        PROVE  pc'[q] # "idle" /\ Owned(slot(q), answer[q])'
    <2>1. pc[q] # "idle" /\ Owned(slot(q), answer[q])
      BY <1>2 DEF AnswerInv, SentInv
    <2>2. pc'[q] # "idle" /\ req'[q] = req[q]
      <3>1. CASE q # r BY <2>1, <3>1, <1>a, OthersUntouched DEF TypeInv, Untouched
      <3>2. CASE q = r
        BY <2>1, <3>2, <1>a DEF Stores, Replays, Tells, Ends, Quiet, Goto
      <3> QED BY <3>1, <3>2
    <2>3. ASSUME NEW x, x = answer[q], NEW k, k = slot(q) PROVE Owned(k, x)'
      BY <1>2, <2>1, <2>3, OwnedStays
    <2> QED BY <1>2, <2>2, <2>3 DEF Owned, Backed, slot
  <1>3. CASE Quiet(r)
    BY <1>1, <1>2, <1>3 DEF Quiet, StoredInv, SentInv, Owned, Says
  <1>4. CASE Stores(r)
    <2>1. slot(r) \in Slots /\ slot(r)' = slot(r)
      BY <1>4, <1>b DEF Stores, Running, InTxn, slot
    <2>2. final'[slot(r)] = [status |-> work[r].txn.status, txn |-> r]
      BY <1>4, <1>a, <2>1 DEF Stores, PutFinal
    <2>3. pc'[r] = "del_lock" /\ work' = work BY <1>4, <1>a DEF Stores, Goto
    <2>4. ASSUME NEW k \in Slots PROVE Owned(k, final[k])'
      <3>1. CASE k # slot(r)
        BY <1>1, <1>4, <1>a, <3>1 DEF Stores, PutFinal
      <3>2. CASE k = slot(r)
        BY <2>1, <2>2, <2>3, <3>2 DEF Owned, Backed
      <3> QED BY <3>1, <3>2
    <2> QED BY <1>2, <1>4, <2>4 DEF Stores, StoredInv, SentInv, Owned, Says
  <1>5. CASE Replays(r)
    <2>1. slot(r) \in Slots /\ slot(r)' = slot(r)
      BY <1>5, <1>b DEF Replays, Running, BeforeTxn, slot
    <2>2. StoredInv' BY <1>1, <1>5 DEF Replays, StoredInv
    <2>3. /\ answer'[r].status = final[slot(r)].status /\ answer'[r].txn = final[slot(r)].txn
          /\ final[slot(r)] # NULL
      BY <1>5, <1>a, <2>1, StoreAssumption DEF Replays, Answer, Cached
    <2>4. final'[slot(r)] = final[slot(r)] BY <1>5 DEF Replays
    <2>5. Owned(slot(r), final[slot(r)])' BY <2>1, <2>2, <2>4 DEF StoredInv
    <2>6. Owned(slot(r), answer[r])'
      BY <2>1, <2>3, <2>4, <2>5 DEF Owned, Says, Backed
    <2>7. pc'[r] = "done" BY <1>5, <1>a DEF Replays, Goto
    <2>8. \A q \in Requests \ {r} : answer'[q] = answer[q] BY <1>5, <1>a DEF Replays
    <2> QED BY <1>2, <2>2, <2>6, <2>7, <2>8 DEF SentInv, Owned, Says
  <1>6. CASE Tells(r)
    <2>1. StoredInv' BY <1>1, <1>6 DEF Tells, StoredInv
    <2>2. CASE UNCHANGED answer BY <1>2, <2>1, <2>2 DEF SentInv, Owned, Says
    <2>3. ASSUME NEW code,
                 answer' = [answer EXCEPT ![r] = Answer(code, work[r].txn.status, r)]
          PROVE  SentInv'
      <3>1. /\ transactions' = transactions \cup {work[r].txn}
            /\ work[r].txn.transaction_id = r /\ UNCHANGED req
        BY <1>6, CommitAdds DEF AnswerInv, OwnRow, Tells
      <3>2. answer'[r].status = work[r].txn.status /\ answer'[r].txn = r
        BY <2>3, <1>a DEF Answer
      <3>3. pc'[r] # "idle" BY <1>6, <1>a DEF Tells, Ends, Goto
      <3>4. Owned(slot(r), answer[r])' BY <3>1, <3>2, <3>3 DEF Owned, Backed, slot
      <3>5. \A q \in Requests \ {r} : answer'[q] = answer[q] BY <2>3, <1>a
      <3> QED BY <1>2, <3>3, <3>4, <3>5 DEF SentInv, Owned, Says
    <2> QED BY <1>6, <2>1, <2>2, <2>3 DEF Tells
  <1> QED BY <1>3, <1>4, <1>5, <1>6

LEMMA AnswerInvInit == Init => AnswerInv
  <1>1. Init => StoredInv /\ SentInv BY DEF Init, StoreInit, StoredInv, SentInv, Owned, Says
  <1> QED BY <1>1, SafeInvInit, BooksInvInit DEF AnswerInv

LEMMA AnswerInvStep ==
  ASSUME AnswerInv, NothingUndone, [Next]_vars
  PROVE  AnswerInv'
  <1>1. SafeInv' /\ BooksInv'
    BY SafeInvStep, BooksInvStep DEF AnswerInv
  <1>2. StoredInv' /\ SentInv'
    <2>1. ASSUME NEW r \in Requests, RequestNext(r) PROVE StoredInv' /\ SentInv'
      BY <2>1, RequestCases, AnswerCases, ResponsesStep DEF AnswerInv, BooksInv
    <2>2. ASSUME UNCHANGED <<transactions, work, locals>>,
                 \A k \in Slots : final'[k] = final[k] \/ ~Says(final'[k])
          PROVE  StoredInv' /\ SentInv'
      BY <2>2
      DEF AnswerInv, StoredInv, SentInv, Owned, Says, Backed, slot, locals
    <2>3. CASE Environment
      <3>1. UNCHANGED <<transactions, work, locals>>
        BY <2>3, NoFault
        DEF Environment, ExpireLock, ExpireFinal, CorruptFinal, DropSnapshot,
            CorruptSnapshot, SetStatus, tables
      <3>2. \A k \in Slots : final'[k] = final[k] \/ ~Says(final'[k])
        BY <2>3, NoFault
        DEF Environment, ExpireLock, ExpireFinal, CorruptFinal, DropSnapshot,
            CorruptSnapshot, SetStatus, DelLockKey, DelFinal, PutFinal, Says, Decided,
            Corrupt, store, AnswerInv, BooksInv, TypeInv, CoreTypeOK, StoreTypeOK
      <3> QED BY <2>2, <3>1, <3>2
    <2>4. CASE UNCHANGED vars
      BY <2>2, <2>4 DEF vars, tables, store
    <2> QED BY <2>1, <2>3, <2>4 DEF Next
  <1> QED BY <1>1, <1>2 DEF AnswerInv

\* As long as nothing fails between the response and COMMIT, nobody is told POSTED or
\* DECLINED of a purchase that is not, though the response is published first.
THEOREM ResponsesAreTrue == ASSUME NothingUndone PROVE Spec => []ResponsesBacked
  <1>1. Init => AnswerInv BY AnswerInvInit
  <1>2. AnswerInv /\ [Next]_vars => AnswerInv' BY AnswerInvStep
  <1>3. AnswerInv => ResponsesBacked
    BY DEF AnswerInv, StoredInv, SentInv, Owned, Says, Backed, ResponsesBacked
  <1> QED BY <1>1, <1>2, <1>3, PTL DEF Spec

-----------------------------------------------------------------------------
(* Agreement.                                                              *)

Committed(x) == \E t \in transactions : t.transaction_id = x.txn /\ t.status = x.status

Pending(x) ==
  pc[x.txn] \in {"del_lock", "commit"} /\ work[x.txn].txn.status = x.status

LEMMA PendingRow ==
  ASSUME AnswerInv, NEW p \in Requests, pc[p] \in {"del_lock", "commit"}
  PROVE  /\ p \in Sessions /\ work[p].txn # NULL
         /\ slot(p) = <<work[p].txn.user_id, work[p].txn.idempotency_key>>
  <1>1. pc[p] \in Inserted BY DEF Inserted, Chosen, InTxn
  <1>2. work[p].txn \in Rows /\ OwnRow(p)
    BY <1>1 DEF AnswerInv, BooksInv, TypeInv, LocalInv, RowInv, RowAt
  <1> QED BY <1>2, RequestsAreSessions, RowAssumption DEF OwnRow, slot

\* Two true responses for one key are one: committed keys are unique, and an open
\* transaction's key is nobody else's.
LEMMA SameResponse ==
  ASSUME AnswerInv, NEW k, NEW x, NEW y, Says(x), Says(y), Owned(k, x), Owned(k, y)
  PROVE  x.status = y.status /\ x.txn = y.txn
  <1>1. /\ x.txn \in Requests /\ slot(x.txn) = k /\ (Committed(x) \/ Pending(x))
        /\ y.txn \in Requests /\ slot(y.txn) = k /\ (Committed(y) \/ Pending(y))
    BY DEF Owned, Says, Backed, Committed, Pending
  <1>2. KeyInv BY DEF AnswerInv, SafeInv
  <1>p. \A t \in transactions : slot(t.transaction_id) = <<t.user_id, t.idempotency_key>>
    BY DEF AnswerInv, BooksInv, PastInv
  <1>3. CASE Committed(x) /\ Committed(y)
    <2>1. PICK t \in transactions : t.transaction_id = x.txn /\ t.status = x.status
      BY <1>3 DEF Committed
    <2>2. PICK u \in transactions : u.transaction_id = y.txn /\ u.status = y.status
      BY <1>3 DEF Committed
    <2>3. t.user_id = u.user_id /\ t.idempotency_key = u.idempotency_key
      BY <1>1, <1>p, <2>1, <2>2
    <2>4. t = u BY <1>2, <2>3 DEF KeyInv, OneTransactionPerKey
    <2> QED BY <2>1, <2>2, <2>4
  <1>4. ASSUME NEW c, NEW d, Committed(c), Pending(d), d.txn \in Requests,
               slot(c.txn) = slot(d.txn)
        PROVE  FALSE
    <2>1. PICK t \in transactions : t.transaction_id = c.txn BY <1>4 DEF Committed
    <2>2. /\ d.txn \in Sessions /\ work[d.txn].txn # NULL
          /\ slot(d.txn) = <<work[d.txn].txn.user_id, work[d.txn].txn.idempotency_key>>
      BY <1>4, PendingRow DEF Pending
    <2>3. SameKey(work[d.txn].txn, t.user_id, t.idempotency_key)
      BY <1>4, <1>p, <2>1, <2>2 DEF SameKey
    <2> QED BY <1>2, <2>1, <2>2, <2>3 DEF KeyInv
  <1>5. CASE Pending(x) /\ Pending(y)
    <2>1. /\ x.txn \in Sessions /\ work[x.txn].txn # NULL
          /\ slot(x.txn) = <<work[x.txn].txn.user_id, work[x.txn].txn.idempotency_key>>
          /\ y.txn \in Sessions /\ work[y.txn].txn # NULL
          /\ slot(y.txn) = <<work[y.txn].txn.user_id, work[y.txn].txn.idempotency_key>>
      BY <1>1, <1>5, PendingRow DEF Pending
    <2>2. SameKey(work[y.txn].txn, work[x.txn].txn.user_id, work[x.txn].txn.idempotency_key)
      BY <1>1, <2>1 DEF SameKey
    <2>3. x.txn = y.txn BY <1>2, <2>1, <2>2 DEF KeyInv
    <2> QED BY <1>5, <2>3 DEF Pending
  <1> QED BY <1>1, <1>3, <1>4, <1>5

\* Whichever of a key's retries are answered, from Redis or by COMMIT, they are told the
\* same decision about the same transaction.
THEOREM RetriesAgree == ASSUME NothingUndone PROVE Spec => []AnswersAgree
  <1>1. Init => AnswerInv BY AnswerInvInit
  <1>2. AnswerInv /\ [Next]_vars => AnswerInv' BY AnswerInvStep
  <1>3. AnswerInv => AnswersAgree
    <2> SUFFICES ASSUME AnswerInv, NEW r \in Requests, NEW q \in Requests,
                        Says(answer[r]), Says(answer[q]), slot(r) = slot(q)
                 PROVE  answer[r].status = answer[q].status /\ answer[r].txn = answer[q].txn
      BY DEF AnswersAgree, Says
    <2>1. Owned(slot(r), answer[r]) /\ Owned(slot(r), answer[q])
      BY DEF AnswerInv, SentInv
    <2> QED BY <2>1, SameResponse
  <1> QED BY <1>1, <1>2, <1>3, PTL DEF Spec
=============================================================================
