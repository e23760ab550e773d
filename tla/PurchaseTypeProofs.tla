------------------------- MODULE PurchaseTypeProofs -------------------------
(***************************************************************************)
(* Type correctness of POST /purchase, for any number of requests, users,  *)
(* keys, accounts and amounts, any pool and every fault.                   *)
(*                                                                         *)
(* TypeOK is not inductive: a step uses what the handler's local variables *)
(* hold at its await, which LocalInv states; and the balance a self-heal   *)
(* computes is a number because the ledger is finite, which FiniteInv      *)
(* states.                                                                 *)
(***************************************************************************)
EXTENDS PurchaseProperties, LedgerSums

\* TypeOK without the pools, which only PoolInv at the end speaks of.
CoreTypeOK == DBTypeOK /\ StoreTypeOK /\ HandlerTypeOK

\* Where the account is chosen, and where the row is inserted.
Chosen == InTxn \ {"find_account"}
Inserted == Chosen \ {"insert_txn"}

\* What a handler knows at each of its awaits.
LocalInv ==
  \A r \in Requests :
    /\ pc[r] \in Running => req[r] \in Calls
    /\ pc[r] \in Chosen => acct[r] \in Accounts
    /\ pc[r] \in Inserted => work[r].txn \in Rows /\ work[r].txn.account_id = acct[r]
    /\ pc[r] \in {"set_final", "del_lock", "commit"} => work[r].txn.status \in Decided
    /\ pc[r] \in {"insert_ledger", "update_snap"} => bal[r] \in Int

\* A query over the ledger has finitely many rows to add.
FiniteInv ==
  /\ IsFiniteSet(ledger_entries)
  /\ \A s \in Sessions : IsFiniteSet(work[s].legs)

TypeInv == CoreTypeOK /\ LocalInv /\ FiniteInv

-----------------------------------------------------------------------------
(* What the helpers the actions share do to the types.                     *)

LEMMA RequestsAreSessions == ASSUME NEW r \in Requests PROVE r \in Sessions
  BY PurchaseAssumption

LEMMA GotoType ==
  ASSUME HandlerTypeOK, NEW r \in Requests, NEW l \in Labels, Goto(r, l)
  PROVE  pc' \in [Requests -> Labels]
  BY DEF HandlerTypeOK, Goto

LEMMA ReplyType ==
  ASSUME HandlerTypeOK, NEW r \in Requests, NEW code \in Nat,
         NEW st \in AnswerStatuses, NEW t \in Sessions \cup {NULL},
         Reply(r, code, st, t)
  PROVE  pc' \in [Requests -> Labels] /\ answer' \in [Requests -> Answers \cup {NULL}]
  <1>1. Goto(r, "done") /\ "done" \in Labels BY DEF Reply, Labels
  <1>2. Answer(code, st, t) \in Answers BY DEF Answer, Answers
  <1> QED BY <1>1, <1>2, GotoType DEF Reply, HandlerTypeOK

LEMMA SlotType ==
  ASSUME LocalInv, NEW r \in Requests, pc[r] \in Running
  PROVE  slot(r) \in Slots
  BY DEF LocalInv, Calls, slot, Slots

LEMMA PutFinalType ==
  ASSUME StoreTypeOK, NEW k \in Slots,
         NEW v \in Responses \cup {NULL, Corrupt}, PutFinal(k, v)
  PROVE  StoreTypeOK'
  BY DEF StoreTypeOK, PutFinal

LEMMA DelFinalType ==
  ASSUME StoreTypeOK, NEW k \in Slots, DelFinal(k)
  PROVE  StoreTypeOK'
  BY PutFinalType DEF DelFinal

LEMMA LockKeyType ==
  ASSUME StoreTypeOK, NEW k \in Slots, TakeLock(k) \/ DelLockKey(k)
  PROVE  StoreTypeOK'
  BY DEF StoreTypeOK, TakeLock, DelLockKey

LEMMA PutDecidedType ==
  ASSUME StoreTypeOK, LocalInv, NEW r \in Requests, pc[r] = "set_final", PutDecided(r)
  PROVE  StoreTypeOK'
  <1>1. slot(r) \in Slots BY SlotType DEF Running, InTxn
  <1>2. [status |-> work[r].txn.status, txn |-> r] \in Responses
    BY RequestsAreSessions DEF LocalInv, Decided, Responses
  <1> QED BY <1>1, <1>2, PutFinalType DEF PutDecided

LEMMA PutFailedType ==
  ASSUME StoreTypeOK, LocalInv, NEW r \in Requests, pc[r] \in Running, PutFailed(r)
  PROVE  StoreTypeOK'
  <1>1. slot(r) \in Slots BY SlotType
  <1>2. [status |-> "FAILED", txn |-> r] \in Responses
    BY RequestsAreSessions DEF Responses
  <1> QED BY <1>1, <1>2, PutFinalType DEF PutFailed

LEMMA NoWorkType == NoWork \in Works
  BY DEF NoWork, Works

LEMMA RollbackType ==
  ASSUME DBTypeOK, NEW s \in Sessions, Rollback(s)
  PROVE  DBTypeOK'
  BY NoWorkType DEF DBTypeOK, Rollback, tables

LEMMA PublishType ==
  ASSUME DBTypeOK, NEW s \in Sessions, Publish(s)
  PROVE  DBTypeOK'
  <1>1. work[s] \in Works BY DEF DBTypeOK
  <1>2. transactions' \subseteq Rows BY <1>1 DEF Publish, DBTypeOK, Works
  <1>3. ledger_entries' \subseteq Entries BY <1>1 DEF Publish, DBTypeOK, Works
  <1>4. snapshots' \in [Accounts -> Int \cup {NULL}]
    BY <1>1 DEF Publish, DBTypeOK, Works, Visible
  <1>5. work' \in [Sessions -> Works] BY NoWorkType DEF Publish, DBTypeOK
  <1> QED BY <1>2, <1>3, <1>4, <1>5 DEF Publish, DBTypeOK

LEMMA AbortType ==
  ASSUME CoreTypeOK, NEW r \in Requests, Abort(r), UNCHANGED store,
         faults' \in 0..MaxFaults
  PROVE  CoreTypeOK'
  <1>1. DBTypeOK' BY RollbackType, RequestsAreSessions DEF Abort, CoreTypeOK
  <1>2. StoreTypeOK' BY DEF CoreTypeOK, StoreTypeOK, store
  <1>3. pc' \in [Requests -> Labels]
    BY GotoType DEF Abort, CoreTypeOK, Labels, Live, Running, AfterTxn
  <1>4. HandlerTypeOK' BY <1>3 DEF Abort, CoreTypeOK, HandlerTypeOK
  <1> QED BY <1>1, <1>2, <1>4 DEF CoreTypeOK

-----------------------------------------------------------------------------
(* Statements of a transaction.                                            *)

LEMMA DBFrame == ASSUME DBTypeOK, UNCHANGED <<tables, work>> PROVE DBTypeOK'
  BY DEF DBTypeOK, tables

LEMMA WorkType ==
  ASSUME DBTypeOK, NEW s \in Sessions, NEW w \in Works,
         work' = [work EXCEPT ![s] = w], UNCHANGED tables
  PROVE  DBTypeOK'
  BY DEF DBTypeOK, tables

LEMMA OpenType ==
  ASSUME DBTypeOK, NEW s \in Sessions, Open(s), UNCHANGED tables
  PROVE  DBTypeOK'
  <1>1. work[s] \in Works BY DEF DBTypeOK
  <1>2. [work[s] EXCEPT !.open = TRUE] \in Works
    BY <1>1 DEF Works
  <1> QED BY <1>2, WorkType DEF Open

LEMMA WriteTxnType ==
  ASSUME DBTypeOK, NEW s \in Sessions, NEW row \in Rows, WriteTxn(s, row),
         UNCHANGED tables
  PROVE  DBTypeOK'
  <1>1. work[s] \in Works BY DEF DBTypeOK
  <1>2. [work[s] EXCEPT !.txn = row] \in Works BY <1>1 DEF Works
  <1> QED BY <1>2, WorkType DEF WriteTxn

LEMMA ShareLockType ==
  ASSUME DBTypeOK, NEW s \in Sessions, NEW a \in Accounts, ShareLock(s, a),
         UNCHANGED tables
  PROVE  DBTypeOK'
  <1>1. work[s] \in Works BY DEF DBTypeOK
  <1>2. [work[s] EXCEPT !.share = @ \cup {a}] \in Works
    BY <1>1 DEF Works
  <1> QED BY <1>2, WorkType DEF ShareLock

LEMMA ExclLockType ==
  ASSUME DBTypeOK, NEW s \in Sessions, NEW a \in Accounts, ExclLock(s, a),
         UNCHANGED tables
  PROVE  DBTypeOK'
  <1>1. work[s] \in Works BY DEF DBTypeOK
  <1>2. [work[s] EXCEPT !.excl = @ \cup {a}] \in Works
    BY <1>1 DEF Works
  <1> QED BY <1>2, WorkType DEF ExclLock

LEMMA SnapLockType ==
  ASSUME DBTypeOK, NEW s \in Sessions, NEW a \in Accounts, SnapLock(s, a),
         UNCHANGED tables
  PROVE  DBTypeOK'
  <1>1. work[s] \in Works BY DEF DBTypeOK
  <1>2. [work[s] EXCEPT !.snaplock = @ \cup {a}] \in Works
    BY <1>1 DEF Works
  <1> QED BY <1>2, WorkType DEF SnapLock

LEMMA WriteSnapType ==
  ASSUME DBTypeOK, NEW s \in Sessions, NEW a \in Accounts, NEW b \in Int,
         WriteSnap(s, a, b), UNCHANGED tables
  PROVE  DBTypeOK'
  <1>1. work[s] \in Works BY DEF DBTypeOK
  <1>2. [work[s] EXCEPT !.snap[a] = b, !.snaplock = @ \cup {a}] \in Works
    BY <1>1 DEF Works
  <1> QED BY <1>2, WorkType DEF WriteSnap

LEMMA EnsureSnapRowType ==
  ASSUME DBTypeOK, NEW s \in Sessions, NEW a \in Accounts, EnsureSnapRow(s, a),
         UNCHANGED tables
  PROVE  DBTypeOK'
  <1> DEFINE w == [work[s] EXCEPT !.snap = [work[s].snap EXCEPT ![a] = 0],
                                  !.snaplock = work[s].snaplock \cup {a},
                                  !.share = work[s].share \cup {a}]
  <1>1. w \in Works
    <2>1. work[s] \in Works BY DEF DBTypeOK
    <2>2. [work[s].snap EXCEPT ![a] = 0] \in [Accounts -> Int \cup {NULL}]
      BY <2>1 DEF Works
    <2> QED BY <2>1, <2>2 DEF Works
  <1>2. CASE Visible(s, a) = NULL
    <2>1. work' = [work EXCEPT ![s] = w] BY <1>2 DEF EnsureSnapRow, DBTypeOK, Works
    <2> HIDE DEF w
    <2> QED BY <1>1, <2>1, WorkType
  <1>3. CASE Visible(s, a) # NULL BY <1>3, DBFrame DEF EnsureSnapRow
  <1> QED BY <1>2, <1>3

LEMMA WriteLegsType ==
  ASSUME DBTypeOK, NEW s \in Sessions, NEW a \in Accounts, NEW legs \in SUBSET Entries,
         WriteLegs(s, legs, a), UNCHANGED tables
  PROVE  DBTypeOK'
  <1>1. work[s] \in Works BY DEF DBTypeOK
  <1>2. [work[s] EXCEPT !.legs = legs, !.share = @ \cup {a}] \in Works
    BY <1>1 DEF Works
  <1> QED BY <1>2, WorkType DEF WriteLegs

LEMMA SetTxnStatusType ==
  ASSUME DBTypeOK, NEW s \in Sessions, work[s].txn \in Rows,
         NEW st \in {"POSTED", "DECLINED"}, SetTxnStatus(s, st), UNCHANGED tables
  PROVE  DBTypeOK'
  <1>1. work[s] \in Works BY DEF DBTypeOK
  <1>2. [work[s].txn EXCEPT !.status = st] \in Rows BY DEF Rows
  <1>3. [work[s] EXCEPT !.txn = [work[s].txn EXCEPT !.status = st]] \in Works
    BY <1>1, <1>2 DEF Works
  <1> QED BY <1>3, WorkType DEF SetTxnStatus

-----------------------------------------------------------------------------
(* CoreTypeOK, action by action.                                               *)

LEMMA StoreFrame == ASSUME StoreTypeOK, UNCHANGED store PROVE StoreTypeOK'
  BY DEF StoreTypeOK, store

LEMMA InsideLabels ==
  /\ Running \subseteq Labels /\ InTxn \subseteq Running
  /\ BeforeTxn \subseteq Running /\ AfterTxn \subseteq Running
  BY DEF Labels, Live, Running

\* A step that only moves the handler, and may reply.
LEMMA MoveType ==
  ASSUME HandlerTypeOK, NEW r \in Requests, NEW l \in Labels, Goto(r, l),
         UNCHANGED <<req, acct, bal, answer>>, faults' \in 0..MaxFaults
  PROVE  HandlerTypeOK'
  BY GotoType DEF HandlerTypeOK

LEMMA AnswerType ==
  ASSUME HandlerTypeOK, NEW r \in Requests, NEW code \in Nat,
         NEW st \in AnswerStatuses, NEW t \in Sessions \cup {NULL},
         Reply(r, code, st, t), UNCHANGED <<req, acct, bal>>, faults' \in 0..MaxFaults
  PROVE  HandlerTypeOK'
  BY ReplyType DEF HandlerTypeOK

LEMMA UnauthorizedType ==
  ASSUME TypeInv, NEW r \in Requests, Unauthorized(r)
  PROVE  CoreTypeOK'
  <1>1. DBTypeOK' BY DBFrame DEF Unauthorized, TypeInv, CoreTypeOK
  <1>2. StoreTypeOK' BY StoreFrame DEF Unauthorized, TypeInv, CoreTypeOK
  <1>3. HandlerTypeOK'
    BY AnswerType DEF Unauthorized, TypeInv, CoreTypeOK, HandlerTypeOK, AnswerStatuses
  <1> QED BY <1>1, <1>2, <1>3 DEF CoreTypeOK

\* The handler's body begins, or refuses the request.
LEMMA EnterType ==
  ASSUME HandlerTypeOK, NEW r \in Requests, NEW p, NEW call, Enter(r, p, call)
  PROVE  pc' \in [Requests -> Labels] /\ answer' \in [Requests -> Answers \cup {NULL}]
  <1>1. CASE Goto(r, "get_final") /\ UNCHANGED answer
    BY <1>1, InsideLabels, GotoType DEF BeforeTxn, HandlerTypeOK
  <1>2. CASE Reply(r, 400, "ERROR", NULL) BY <1>2, ReplyType DEF AnswerStatuses
  <1> QED BY <1>1, <1>2 DEF Enter

LEMMA ReceiveType ==
  ASSUME TypeInv, NEW r \in Requests, Receive(r)
  PROVE  CoreTypeOK'
  <1>1. DBTypeOK' BY DBFrame DEF Receive, TypeInv, CoreTypeOK
  <1>2. StoreTypeOK' BY StoreFrame DEF Receive, TypeInv, CoreTypeOK
  <1>3. HandlerTypeOK'
    <2>1. PICK call \in Calls \cup {NULL} :
            /\ req' = [req EXCEPT ![r] = call]
            /\ \/ Enter(r, pool, call)
               \/ Goto(r, "create_pool") /\ UNCHANGED answer
      BY DEF Receive
    <2>2. pc' \in [Requests -> Labels] /\ answer' \in [Requests -> Answers \cup {NULL}]
      <3>1. CASE Enter(r, pool, call) BY <3>1, EnterType DEF TypeInv, CoreTypeOK
      <3>2. CASE Goto(r, "create_pool") /\ UNCHANGED answer
        BY <3>2, GotoType DEF TypeInv, CoreTypeOK, HandlerTypeOK, Labels, Live
      <3> QED BY <2>1, <3>1, <3>2
    <2>3. req' \in [Requests -> Calls \cup {NULL}]
      BY <2>1 DEF TypeInv, CoreTypeOK, HandlerTypeOK
    <2> QED BY <2>2, <2>3 DEF Receive, TypeInv, CoreTypeOK, HandlerTypeOK
  <1> QED BY <1>1, <1>2, <1>3 DEF CoreTypeOK

LEMMA CreatePoolType ==
  ASSUME TypeInv, NEW r \in Requests, CreatePool(r)
  PROVE  CoreTypeOK'
  <1>1. DBTypeOK' BY DBFrame DEF CreatePool, TypeInv, CoreTypeOK
  <1>2. StoreTypeOK' BY StoreFrame DEF CreatePool, TypeInv, CoreTypeOK
  <1>3. HandlerTypeOK'
    BY EnterType DEF CreatePool, TypeInv, CoreTypeOK, HandlerTypeOK
  <1> QED BY <1>1, <1>2, <1>3 DEF CoreTypeOK

LEMMA CreateFailsType ==
  ASSUME TypeInv, NEW r \in Requests, CreateFails(r)
  PROVE  CoreTypeOK'
  <1>1. DBTypeOK' BY DBFrame DEF CreateFails, TypeInv, CoreTypeOK
  <1>2. StoreTypeOK' BY StoreFrame DEF CreateFails, TypeInv, CoreTypeOK
  <1>3. HandlerTypeOK'
    BY AnswerType DEF CreateFails, TypeInv, CoreTypeOK, HandlerTypeOK, AnswerStatuses
  <1> QED BY <1>1, <1>2, <1>3 DEF CoreTypeOK

LEMMA GetFinalType ==
  ASSUME TypeInv, NEW r \in Requests, GetFinal(r)
  PROVE  CoreTypeOK'
  <1>1. DBTypeOK' BY DBFrame DEF GetFinal, TypeInv, CoreTypeOK
  <1>2. StoreTypeOK' BY StoreFrame DEF GetFinal, TypeInv, CoreTypeOK
  <1>3. HandlerTypeOK' 
    <2>1. faults' \in 0..MaxFaults BY DEF GetFinal, TypeInv, CoreTypeOK, HandlerTypeOK
    <2>2. CASE Cached(slot(r)) /\ Reply(r, 200, final[slot(r)].status, final[slot(r)].txn)
      <3>1. final[slot(r)].status \in AnswerStatuses /\ final[slot(r)].txn \in Sessions
        BY <2>2 DEF Cached, Responses, AnswerStatuses
      <3> QED BY <2>1, <2>2, <3>1, AnswerType DEF GetFinal, TypeInv, CoreTypeOK
    <2>3. CASE /\ UNCHANGED answer
               /\ Goto(r, IF final[slot(r)] = Corrupt THEN "heal_final" ELSE "try_lock")
      BY <2>1, <2>3, InsideLabels, MoveType DEF GetFinal, TypeInv, CoreTypeOK, BeforeTxn
    <2> QED BY <2>2, <2>3 DEF GetFinal
  <1> QED BY <1>1, <1>2, <1>3 DEF CoreTypeOK

LEMMA HealFinalType ==
  ASSUME TypeInv, NEW r \in Requests, HealFinal(r)
  PROVE  CoreTypeOK'
  <1>1. DBTypeOK' BY DBFrame DEF HealFinal, TypeInv, CoreTypeOK
  <1>2. StoreTypeOK' 
    <2>1. slot(r) \in Slots BY SlotType DEF HealFinal, TypeInv, Running, BeforeTxn, InTxn, AfterTxn
    <2> QED BY <2>1, DelFinalType DEF HealFinal, TypeInv, CoreTypeOK
  <1>3. HandlerTypeOK' 
    BY InsideLabels, MoveType DEF HealFinal, TypeInv, CoreTypeOK, HandlerTypeOK, BeforeTxn
  <1> QED BY <1>1, <1>2, <1>3 DEF CoreTypeOK

LEMMA TryLockType ==
  ASSUME TypeInv, NEW r \in Requests, TryLock(r)
  PROVE  CoreTypeOK'
  <1>1. DBTypeOK' BY DBFrame DEF TryLock, TypeInv, CoreTypeOK
  <1>2. StoreTypeOK' 
    <2>1. slot(r) \in Slots BY SlotType DEF TryLock, TypeInv, Running, BeforeTxn, InTxn, AfterTxn
    <2> QED BY <2>1, LockKeyType, StoreFrame DEF TryLock, TypeInv, CoreTypeOK
  <1>3. HandlerTypeOK' 
    <2>1. faults' \in 0..MaxFaults BY DEF TryLock, TypeInv, CoreTypeOK, HandlerTypeOK
    <2>2. CASE Goto(r, "begin") /\ UNCHANGED answer
      BY <2>1, <2>2, InsideLabels, MoveType DEF TryLock, TypeInv, CoreTypeOK, BeforeTxn
    <2>3. CASE Reply(r, 409, "PENDING", NULL)
      BY <2>1, <2>3, AnswerType DEF TryLock, TypeInv, CoreTypeOK, AnswerStatuses
    <2> QED BY <2>2, <2>3 DEF TryLock
  <1> QED BY <1>1, <1>2, <1>3 DEF CoreTypeOK

LEMMA BeginType ==
  ASSUME TypeInv, NEW r \in Requests, Begin(r)
  PROVE  CoreTypeOK'
  <1>1. DBTypeOK' BY OpenType, RequestsAreSessions DEF Begin, TypeInv, CoreTypeOK
  <1>2. StoreTypeOK' BY StoreFrame DEF Begin, TypeInv, CoreTypeOK
  <1>3. HandlerTypeOK' 
    BY InsideLabels, MoveType DEF Begin, TypeInv, CoreTypeOK, HandlerTypeOK, InTxn
  <1> QED BY <1>1, <1>2, <1>3 DEF CoreTypeOK

LEMMA RaiseType == ASSUME TypeInv, NEW r \in Requests, Raise(r) PROVE CoreTypeOK'
  BY AbortType DEF Raise, TypeInv, CoreTypeOK, HandlerTypeOK

LEMMA FindAccountType ==
  ASSUME TypeInv, NEW r \in Requests, FindAccount(r)
  PROVE  CoreTypeOK'
  <1>1. CASE Raise(r) BY <1>1, RaiseType
  <1>2. CASE /\ \E a \in OldestActive(req[r].user) : acct' = [acct EXCEPT ![r] = a]
             /\ Goto(r, "insert_txn")
             /\ UNCHANGED <<tables, work, store, req, bal, answer, faults>>
    <2>1. DBTypeOK' BY <1>2, DBFrame DEF TypeInv, CoreTypeOK
    <2>2. StoreTypeOK' BY <1>2, StoreFrame DEF TypeInv, CoreTypeOK
    <2>3. pc' \in [Requests -> Labels]
      BY <1>2, InsideLabels, GotoType DEF TypeInv, CoreTypeOK, InTxn
    <2>4. acct' \in [Requests -> Accounts \cup {NULL}]
      BY <1>2 DEF TypeInv, CoreTypeOK, HandlerTypeOK, OldestActive
    <2> QED BY <1>2, <2>1, <2>2, <2>3, <2>4 DEF TypeInv, CoreTypeOK, HandlerTypeOK
  <1> QED BY <1>1, <1>2 DEF FindAccount

\* The row a request inserts.
NewRow(r) == [transaction_id |-> r, user_id |-> req[r].user, account_id |-> acct[r],
              idempotency_key |-> req[r].key, currency |-> req[r].currency,
              amount_minor |-> req[r].amount, status |-> "PENDING"]

LEMMA NewRowType ==
  ASSUME LocalInv, NEW r \in Requests, pc[r] = "insert_txn"
  PROVE  NewRow(r) \in Rows
  <1>1. req[r] \in Calls /\ acct[r] \in Accounts
    BY DEF LocalInv, Chosen, Running, InTxn
  <1> QED BY <1>1 DEF NewRow, Rows, Calls

LEMMA InsertTxnEffect ==
  ASSUME NEW r \in Requests, InsertTxn(r)
  PROVE  \/ Raise(r)
         \/ /\ KeyWaits(r, req[r].user, req[r].key) = {}
            /\ ~KeyTaken(req[r].user, req[r].key)
            /\ WriteTxn(r, NewRow(r))
            /\ Goto(r, "fk_account")
            /\ UNCHANGED <<tables, store, req, acct, bal, answer, faults>>
  BY DEF InsertTxn, NewRow

LEMMA InsertTxnType ==
  ASSUME TypeInv, NEW r \in Requests, InsertTxn(r)
  PROVE  CoreTypeOK'
  <1>1. CASE Raise(r) BY <1>1, RaiseType
  <1>2. CASE /\ WriteTxn(r, NewRow(r))
             /\ Goto(r, "fk_account")
             /\ UNCHANGED <<tables, store, req, acct, bal, answer, faults>>
    <2>1. DBTypeOK'
      BY <1>2, NewRowType, WriteTxnType, RequestsAreSessions DEF InsertTxn, TypeInv, CoreTypeOK
    <2>2. StoreTypeOK' BY <1>2, StoreFrame DEF TypeInv, CoreTypeOK
    <2>3. HandlerTypeOK'
      BY <1>2, InsideLabels, MoveType DEF TypeInv, CoreTypeOK, HandlerTypeOK, InTxn
    <2> QED BY <2>1, <2>2, <2>3 DEF CoreTypeOK
  <1> QED BY <1>1, <1>2, InsertTxnEffect

LEMMA FkAccountType ==
  ASSUME TypeInv, NEW r \in Requests, FkAccount(r)
  PROVE  CoreTypeOK'
  <1>a. acct[r] \in Accounts /\ r \in Sessions
    BY RequestsAreSessions DEF FkAccount, TypeInv, LocalInv, Chosen, InTxn
  <1>1. DBTypeOK' BY <1>a, ShareLockType DEF FkAccount, TypeInv, CoreTypeOK
  <1>2. StoreTypeOK' BY StoreFrame DEF FkAccount, TypeInv, CoreTypeOK
  <1>3. HandlerTypeOK' 
    BY InsideLabels, MoveType DEF FkAccount, TypeInv, CoreTypeOK, HandlerTypeOK, InTxn
  <1> QED BY <1>1, <1>2, <1>3 DEF CoreTypeOK

LEMMA LockAccountType ==
  ASSUME TypeInv, NEW r \in Requests, LockAccount(r)
  PROVE  CoreTypeOK'
  <1>a. acct[r] \in Accounts /\ r \in Sessions
    BY RequestsAreSessions DEF LockAccount, TypeInv, LocalInv, Chosen, InTxn
  <1>1. DBTypeOK' BY <1>a, ExclLockType DEF LockAccount, TypeInv, CoreTypeOK
  <1>2. StoreTypeOK' BY StoreFrame DEF LockAccount, TypeInv, CoreTypeOK
  <1>3. HandlerTypeOK' 
    BY InsideLabels, MoveType DEF LockAccount, TypeInv, CoreTypeOK, HandlerTypeOK, InTxn
  <1> QED BY <1>1, <1>2, <1>3 DEF CoreTypeOK

LEMMA EnsureSnapType ==
  ASSUME TypeInv, NEW r \in Requests, EnsureSnap(r)
  PROVE  CoreTypeOK'
  <1>a. acct[r] \in Accounts /\ r \in Sessions
    BY RequestsAreSessions DEF EnsureSnap, TypeInv, LocalInv, Chosen, InTxn
  <1>1. DBTypeOK' BY <1>a, EnsureSnapRowType DEF EnsureSnap, TypeInv, CoreTypeOK
  <1>2. StoreTypeOK' BY StoreFrame DEF EnsureSnap, TypeInv, CoreTypeOK
  <1>3. HandlerTypeOK' 
    BY InsideLabels, MoveType DEF EnsureSnap, TypeInv, CoreTypeOK, HandlerTypeOK, InTxn
  <1> QED BY <1>1, <1>2, <1>3 DEF CoreTypeOK

\* What a session sees of an account's snapshot.
LEMMA VisibleType ==
  ASSUME DBTypeOK, NEW s \in Sessions, NEW a \in Accounts, Visible(s, a) # NULL
  PROVE  Visible(s, a) \in Int
  <1>1. work[s].snap \in [Accounts -> Int \cup {NULL}] BY DEF DBTypeOK, Works
  <1> QED BY <1>1 DEF DBTypeOK, Visible

LEMMA DecideType ==
  ASSUME HandlerTypeOK, NEW r \in Requests, NEW b \in Int, Decide(r, b)
  PROVE  bal' \in [Requests -> Int \cup {NULL}] /\ pc' \in [Requests -> Labels]
  <1>1. {"mark_declined", "insert_ledger"} \subseteq Labels BY InsideLabels DEF InTxn
  <1> QED BY <1>1, GotoType DEF Decide, HandlerTypeOK

LEMMA LockSnapType ==
  ASSUME TypeInv, NEW r \in Requests, LockSnap(r)
  PROVE  CoreTypeOK'
  <1>a. acct[r] \in Accounts /\ r \in Sessions
    BY RequestsAreSessions DEF LockSnap, TypeInv, LocalInv, Chosen, InTxn
  <1>1. StoreTypeOK' BY StoreFrame DEF LockSnap, TypeInv, CoreTypeOK
  <1>2. CASE Goto(r, "heal_snap") /\ UNCHANGED <<work, bal>>
    <2>1. DBTypeOK' BY <1>2, DBFrame DEF LockSnap, TypeInv, CoreTypeOK
    <2>2. HandlerTypeOK'
      BY <1>2, InsideLabels, MoveType DEF LockSnap, TypeInv, CoreTypeOK, HandlerTypeOK, InTxn
    <2> QED BY <1>1, <2>1, <2>2 DEF CoreTypeOK
  <1>3. CASE /\ Visible(r, acct[r]) # NULL
             /\ SnapLock(r, acct[r]) /\ Decide(r, Visible(r, acct[r]))
    <2>1. Visible(r, acct[r]) \in Int BY <1>3, <1>a, VisibleType DEF TypeInv, CoreTypeOK
    <2>2. DBTypeOK' BY <1>3, <1>a, SnapLockType DEF LockSnap, TypeInv, CoreTypeOK
    <2>3. bal' \in [Requests -> Int \cup {NULL}] /\ pc' \in [Requests -> Labels]
      BY <1>3, <2>1, DecideType DEF TypeInv, CoreTypeOK
    <2>4. HandlerTypeOK' BY <2>3 DEF LockSnap, TypeInv, CoreTypeOK, HandlerTypeOK
    <2> QED BY <1>1, <2>2, <2>4 DEF CoreTypeOK
  <1> QED BY <1>2, <1>3 DEF LockSnap

\* What the rebuild query adds up to.
LEMMA BalanceType ==
  ASSUME DBTypeOK, FiniteInv, NEW a
  PROVE  Summable(EntriesOf(a)) /\ LedgerBalance(a) \in Int
  <1>1. IsFiniteSet(EntriesOf(a)) BY FS_Subset DEF FiniteInv, EntriesOf
  <1>2. ASSUME NEW e \in EntriesOf(a) PROVE SignedAmount(e) \in Int
    <2>1. e \in Entries BY DEF EntriesOf, DBTypeOK
    <2>2. e.amount_minor \in Nat BY <2>1, PurchaseAssumption DEF Entries
    <2> QED BY <2>2 DEF SignedAmount
  <1>3. Summable(EntriesOf(a)) BY <1>1, <1>2 DEF Summable
  <1> QED BY <1>3, TotalType DEF Total, LedgerBalance

LEMMA HealSnapType ==
  ASSUME TypeInv, NEW r \in Requests, HealSnap(r)
  PROVE  CoreTypeOK'
  <1>1. CASE Raise(r) BY <1>1, RaiseType
  <1>2. CASE /\ WriteSnap(r, acct[r], LedgerBalance(acct[r]))
             /\ Decide(r, LedgerBalance(acct[r]))
             /\ UNCHANGED <<tables, store, req, acct, answer, pools, faults>>
    <2>1. acct[r] \in Accounts /\ r \in Sessions
      BY RequestsAreSessions DEF HealSnap, TypeInv, LocalInv, Chosen, InTxn
    <2>2. LedgerBalance(acct[r]) \in Int BY BalanceType DEF TypeInv, CoreTypeOK
    <2>3. DBTypeOK' BY <1>2, <2>1, <2>2, WriteSnapType DEF TypeInv, CoreTypeOK
    <2>4. bal' \in [Requests -> Int \cup {NULL}] /\ pc' \in [Requests -> Labels]
      BY <1>2, <2>2, DecideType DEF TypeInv, CoreTypeOK
    <2>5. HandlerTypeOK' BY <1>2, <2>4 DEF TypeInv, CoreTypeOK, HandlerTypeOK
    <2>6. StoreTypeOK' BY <1>2, StoreFrame DEF TypeInv, CoreTypeOK
    <2> QED BY <2>3, <2>5, <2>6 DEF CoreTypeOK
  <1> QED BY <1>1, <1>2 DEF HealSnap

LEMMA LegType ==
  ASSUME NEW r \in Requests, req[r] \in Calls, NEW i \in {0, 1},
         NEW kind \in {"DEBIT", "CREDIT"}, NEW a \in Accounts
  PROVE  Leg(r, i, kind, a) \in Entries
  BY DEF Leg, Entries, Calls

LEMMA InsertLedgerType ==
  ASSUME TypeInv, NEW r \in Requests, InsertLedger(r)
  PROVE  CoreTypeOK'
  <1>a. acct[r] \in Accounts /\ r \in Sessions
    BY RequestsAreSessions DEF InsertLedger, TypeInv, LocalInv, Chosen, InTxn
  <1>1. DBTypeOK' 
    <2>1. req[r] \in Calls BY DEF InsertLedger, TypeInv, LocalInv, Running, InTxn
    <2>2. Merchant \in Accounts BY DBAssumption
    <2>3. {Leg(r, 0, "DEBIT", acct[r]), Leg(r, 1, "CREDIT", Merchant)} \in SUBSET Entries
      BY <1>a, <2>1, <2>2, LegType
    <2> QED BY <1>a, <2>2, <2>3, WriteLegsType DEF InsertLedger, TypeInv, CoreTypeOK
  <1>2. StoreTypeOK' BY StoreFrame DEF InsertLedger, TypeInv, CoreTypeOK
  <1>3. HandlerTypeOK' 
    BY InsideLabels, MoveType DEF InsertLedger, TypeInv, CoreTypeOK, HandlerTypeOK, InTxn
  <1> QED BY <1>1, <1>2, <1>3 DEF CoreTypeOK

LEMMA UpdateSnapType ==
  ASSUME TypeInv, NEW r \in Requests, UpdateSnap(r)
  PROVE  CoreTypeOK'
  <1>a. acct[r] \in Accounts /\ r \in Sessions
    BY RequestsAreSessions DEF UpdateSnap, TypeInv, LocalInv, Chosen, InTxn
  <1>1. DBTypeOK' 
    <2>1. req[r].amount \in Nat /\ bal[r] \in Int
      BY PurchaseAssumption DEF UpdateSnap, TypeInv, LocalInv, Running, InTxn, Calls
    <2> QED BY <1>a, <2>1, WriteSnapType DEF UpdateSnap, TypeInv, CoreTypeOK
  <1>2. StoreTypeOK' BY StoreFrame DEF UpdateSnap, TypeInv, CoreTypeOK
  <1>3. HandlerTypeOK' 
    BY InsideLabels, MoveType DEF UpdateSnap, TypeInv, CoreTypeOK, HandlerTypeOK, InTxn
  <1> QED BY <1>1, <1>2, <1>3 DEF CoreTypeOK

LEMMA MarkType ==
  ASSUME TypeInv, NEW r \in Requests, Mark(r)
  PROVE  CoreTypeOK'
  <1>1. DBTypeOK' 
    <2>1. work[r].txn \in Rows BY DEF Mark, TypeInv, LocalInv, Inserted, Chosen, InTxn
    <2> QED BY <2>1, SetTxnStatusType, RequestsAreSessions DEF Mark, TypeInv, CoreTypeOK
  <1>2. StoreTypeOK' BY StoreFrame DEF Mark, TypeInv, CoreTypeOK
  <1>3. HandlerTypeOK' 
    BY InsideLabels, MoveType DEF Mark, TypeInv, CoreTypeOK, HandlerTypeOK, InTxn
  <1> QED BY <1>1, <1>2, <1>3 DEF CoreTypeOK

LEMMA SetFinalType ==
  ASSUME TypeInv, NEW r \in Requests, SetFinal(r)
  PROVE  CoreTypeOK'
  <1>1. DBTypeOK' BY DBFrame DEF SetFinal, TypeInv, CoreTypeOK
  <1>2. StoreTypeOK' BY PutDecidedType DEF SetFinal, TypeInv, CoreTypeOK
  <1>3. HandlerTypeOK' 
    BY InsideLabels, MoveType DEF SetFinal, TypeInv, CoreTypeOK, HandlerTypeOK, InTxn
  <1> QED BY <1>1, <1>2, <1>3 DEF CoreTypeOK

LEMMA DelLockType ==
  ASSUME TypeInv, NEW r \in Requests, DelLock(r)
  PROVE  CoreTypeOK'
  <1>1. DBTypeOK' BY DBFrame DEF DelLock, TypeInv, CoreTypeOK
  <1>2. StoreTypeOK' 
    <2>1. slot(r) \in Slots BY SlotType DEF DelLock, TypeInv, Running, BeforeTxn, InTxn, AfterTxn
    <2> QED BY <2>1, LockKeyType DEF DelLock, TypeInv, CoreTypeOK
  <1>3. HandlerTypeOK' 
    BY InsideLabels, MoveType DEF DelLock, TypeInv, CoreTypeOK, HandlerTypeOK, InTxn
  <1> QED BY <1>1, <1>2, <1>3 DEF CoreTypeOK

LEMMA CommitType ==
  ASSUME TypeInv, NEW r \in Requests, Commit(r)
  PROVE  CoreTypeOK'
  <1>1. DBTypeOK' BY PublishType, RequestsAreSessions DEF Commit, TypeInv, CoreTypeOK
  <1>2. StoreTypeOK' BY StoreFrame DEF Commit, TypeInv, CoreTypeOK
  <1>3. HandlerTypeOK' 
    <2>1. work[r].txn.status \in AnswerStatuses
      BY DEF Commit, TypeInv, LocalInv, Decided, AnswerStatuses
    <2> QED BY <2>1, AnswerType, RequestsAreSessions DEF Commit, TypeInv, CoreTypeOK, HandlerTypeOK
  <1> QED BY <1>1, <1>2, <1>3 DEF CoreTypeOK

LEMMA FailSetType ==
  ASSUME TypeInv, NEW r \in Requests, FailSet(r)
  PROVE  CoreTypeOK'
  <1>1. DBTypeOK' BY DBFrame DEF FailSet, TypeInv, CoreTypeOK
  <1>2. StoreTypeOK' BY PutFailedType, InsideLabels DEF FailSet, TypeInv, CoreTypeOK, AfterTxn
  <1>3. HandlerTypeOK' 
    BY InsideLabels, MoveType DEF FailSet, TypeInv, CoreTypeOK, HandlerTypeOK, AfterTxn
  <1> QED BY <1>1, <1>2, <1>3 DEF CoreTypeOK

LEMMA FailDelType ==
  ASSUME TypeInv, NEW r \in Requests, FailDel(r)
  PROVE  CoreTypeOK'
  <1>1. DBTypeOK' BY DBFrame DEF FailDel, TypeInv, CoreTypeOK
  <1>2. StoreTypeOK' 
    <2>1. slot(r) \in Slots BY SlotType DEF FailDel, TypeInv, Running, BeforeTxn, InTxn, AfterTxn
    <2> QED BY <2>1, LockKeyType DEF FailDel, TypeInv, CoreTypeOK
  <1>3. HandlerTypeOK' 
    BY AnswerType, RequestsAreSessions
    DEF FailDel, TypeInv, CoreTypeOK, HandlerTypeOK, AnswerStatuses
  <1> QED BY <1>1, <1>2, <1>3 DEF CoreTypeOK

LEMMA DeadlockAbortType ==
  ASSUME TypeInv, NEW r \in Requests, DeadlockAbort(r)
  PROVE  CoreTypeOK'
  BY RaiseType DEF DeadlockAbort

LEMMA FaultType ==
  ASSUME HandlerTypeOK, NEW kind, Fault(kind)
  PROVE  faults' \in 0..MaxFaults
  BY PurchaseAssumption DEF HandlerTypeOK, Fault

LEMMA RedisWriteType ==
  ASSUME TypeInv, NEW r \in Requests, RedisWrite(r)
  PROVE  StoreTypeOK'
  <1>1. pc[r] \in Running => slot(r) \in Slots BY SlotType DEF TypeInv
  <1>2. CASE pc[r] = "set_final" /\ PutDecided(r)
    BY <1>2, PutDecidedType DEF TypeInv, CoreTypeOK
  <1>3. CASE pc[r] = "fail_set" /\ PutFailed(r)
    BY <1>3, PutFailedType DEF TypeInv, CoreTypeOK, Running, AfterTxn
  <1>4. CASE pc[r] = "heal_final" /\ DelFinal(slot(r))
    BY <1>1, <1>4, DelFinalType DEF TypeInv, CoreTypeOK, Running, BeforeTxn
  <1>5. CASE pc[r] = "try_lock" /\ TakeLock(slot(r))
    BY <1>1, <1>5, LockKeyType DEF TypeInv, CoreTypeOK, Running, BeforeTxn
  <1>6. CASE pc[r] \in {"del_lock", "fail_del"} /\ DelLockKey(slot(r))
    BY <1>1, <1>6, LockKeyType DEF TypeInv, CoreTypeOK, Running, InTxn, AfterTxn
  <1> QED BY <1>2, <1>3, <1>4, <1>5, <1>6 DEF RedisWrite

LEMMA RedisFailsType ==
  ASSUME TypeInv, NEW r \in Requests, RedisFails(r)
  PROVE  CoreTypeOK'
  <1>1. StoreTypeOK' BY RedisWriteType, StoreFrame DEF RedisFails, TypeInv, CoreTypeOK
  <1>2. faults' \in 0..MaxFaults BY FaultType DEF RedisFails, TypeInv, CoreTypeOK
  <1>3. CASE Abort(r)
    <2>1. DBTypeOK' BY <1>3, RollbackType, RequestsAreSessions DEF Abort, TypeInv, CoreTypeOK
    <2>2. HandlerTypeOK'
      BY <1>2, <1>3, MoveType, InsideLabels DEF Abort, TypeInv, CoreTypeOK, AfterTxn
    <2> QED BY <1>1, <2>1, <2>2 DEF CoreTypeOK
  <1>4. CASE /\ Reply(r, 500, "ERROR", NULL) \/ Reply(r, 500, "FAILED", r)
             /\ UNCHANGED <<tables, work, req, acct, bal>>
    <2>1. DBTypeOK' BY <1>4, DBFrame DEF TypeInv, CoreTypeOK
    <2>2. HandlerTypeOK'
      BY <1>2, <1>4, AnswerType, RequestsAreSessions DEF TypeInv, CoreTypeOK, AnswerStatuses
    <2> QED BY <1>1, <2>1, <2>2 DEF CoreTypeOK
  <1> QED BY <1>3, <1>4 DEF RedisFails

LEMMA DbFailsType ==
  ASSUME TypeInv, NEW r \in Requests, DbFails(r)
  PROVE  CoreTypeOK'
  <1>1. faults' \in 0..MaxFaults BY FaultType DEF DbFails, TypeInv, CoreTypeOK
  <1> QED BY <1>1, AbortType DEF DbFails, TypeInv

LEMMA CommitLostType ==
  ASSUME TypeInv, NEW r \in Requests, CommitLost(r)
  PROVE  CoreTypeOK'
  <1>1. DBTypeOK' BY PublishType, RequestsAreSessions DEF CommitLost, TypeInv, CoreTypeOK
  <1>2. StoreTypeOK' BY StoreFrame DEF CommitLost, TypeInv, CoreTypeOK
  <1>3. HandlerTypeOK' 
    BY MoveType, FaultType, InsideLabels DEF CommitLost, TypeInv, CoreTypeOK, AfterTxn
  <1> QED BY <1>1, <1>2, <1>3 DEF CoreTypeOK

\* The environment.
LEMMA EnvironmentType == ASSUME TypeInv, Environment PROVE CoreTypeOK'
  <1>1. CASE Crash
    <2>1. pc' \in [Requests -> Labels]
      BY <1>1 DEF Crash, TypeInv, CoreTypeOK, HandlerTypeOK, Labels
    <2>2. work' \in [Sessions -> Works]
      BY <1>1, NoWorkType DEF Crash, TypeInv, CoreTypeOK, DBTypeOK
    <2>3. DBTypeOK' BY <1>1, <2>2 DEF Crash, TypeInv, CoreTypeOK, DBTypeOK, tables
    <2>4. faults' \in 0..MaxFaults BY <1>1, FaultType DEF Crash, TypeInv, CoreTypeOK
    <2>5. HandlerTypeOK' BY <1>1, <2>1, <2>4 DEF Crash, TypeInv, CoreTypeOK, HandlerTypeOK
    <2>6. StoreTypeOK' BY <1>1, StoreFrame DEF Crash, TypeInv, CoreTypeOK
    <2> QED BY <2>3, <2>5, <2>6 DEF CoreTypeOK
  <1>2. ASSUME NEW k \in Slots, ExpireLock(k) \/ ExpireFinal(k) \/ CorruptFinal(k)
        PROVE  CoreTypeOK'
    <2>1. StoreTypeOK'
      BY <1>2, LockKeyType, DelFinalType, PutFinalType
      DEF ExpireLock, ExpireFinal, CorruptFinal, TypeInv, CoreTypeOK
    <2>2. DBTypeOK'
      BY <1>2, DBFrame DEF ExpireLock, ExpireFinal, CorruptFinal, TypeInv, CoreTypeOK
    <2>3. faults' \in 0..MaxFaults /\ UNCHANGED locals
      BY <1>2, FaultType
      DEF ExpireLock, ExpireFinal, CorruptFinal, TypeInv, CoreTypeOK, HandlerTypeOK
    <2>4. HandlerTypeOK' BY <2>3 DEF TypeInv, CoreTypeOK, HandlerTypeOK, locals
    <2> QED BY <2>1, <2>2, <2>4 DEF CoreTypeOK
  <1>3. ASSUME NEW a \in Accounts, DropSnapshot(a) \/ CorruptSnapshot(a) \/ SetStatus(a)
        PROVE  CoreTypeOK'
    <2>1. DBTypeOK'
      BY <1>3 DEF DropSnapshot, CorruptSnapshot, SetStatus, TypeInv, CoreTypeOK, DBTypeOK
    <2>2. StoreTypeOK'
      BY <1>3, StoreFrame DEF DropSnapshot, CorruptSnapshot, SetStatus, TypeInv, CoreTypeOK
    <2>3. faults' \in 0..MaxFaults /\ UNCHANGED locals
      BY <1>3, FaultType DEF DropSnapshot, CorruptSnapshot, SetStatus, TypeInv, CoreTypeOK
    <2>4. HandlerTypeOK' BY <2>3 DEF TypeInv, CoreTypeOK, HandlerTypeOK, locals
    <2> QED BY <2>1, <2>2, <2>4 DEF CoreTypeOK
  <1> QED BY <1>1, <1>2, <1>3 DEF Environment

-----------------------------------------------------------------------------
(* Every step of the specification is, for what the remaining invariants   *)
(* speak of, one of the following.                                         *)

core == <<tables, work, pc, req, acct, bal>>

\* Where the handler does not come back from.
Past == {"fail_set", "fail_del", "done", "dead"}

\* A step outside the transaction: it changes the store and may reply.
Outside(r) ==
  /\ pc[r] \notin InTxn
  /\ \E l \in Labels \ InTxn :
       /\ Goto(r, l)
       /\ l \in Running => req'[r] \in Calls
       /\ pc[r] \in Past => l \in Past
  /\ pc[r] # "idle" => req'[r] = req[r]
  /\ \A q \in Requests \ {r} : req'[q] = req[q]
  /\ UNCHANGED <<tables, work, acct, bal>>

Aborts(r) == pc[r] \in Running /\ Abort(r)

Ends(r) ==
  /\ pc[r] = "commit"
  /\ Publish(r)
  /\ \E l \in {"done", "fail_set"} : Goto(r, l)
  /\ UNCHANGED <<req, acct, bal>>

ChoosesAccount(r) ==
  /\ pc[r] = "find_account"
  /\ \E a \in OldestActive(req[r].user) : acct' = [acct EXCEPT ![r] = a]
  /\ Goto(r, "insert_txn")
  /\ UNCHANGED <<tables, work, req, bal>>

InsertsRow(r) ==
  /\ pc[r] = "insert_txn"
  /\ KeyWaits(r, req[r].user, req[r].key) = {}
  /\ ~KeyTaken(req[r].user, req[r].key)
  /\ WriteTxn(r, NewRow(r))
  /\ Goto(r, "fk_account")
  /\ UNCHANGED <<tables, req, acct, bal>>

\* The final response or the DEL of the lock, inside the transaction.
Publishes(r) ==
  /\ \/ pc[r] = "set_final" /\ Goto(r, "del_lock")
     \/ pc[r] = "del_lock" /\ Goto(r, "commit")
  /\ UNCHANGED <<tables, work, req, acct, bal>>

\* SELECT ... FOR UPDATE of the snapshot: there is a row, or none.
LocksSnap(r) ==
  /\ pc[r] = "lock_snap"
  /\ SnapWaits(r, acct[r]) = {}
  /\ Visible(r, acct[r]) # NULL
  /\ SnapLock(r, acct[r])
  /\ Decide(r, Visible(r, acct[r]))
  /\ UNCHANGED <<tables, req, acct>>

FindsNone(r) ==
  /\ pc[r] = "lock_snap"
  /\ Visible(r, acct[r]) = NULL
  /\ Goto(r, "heal_snap")
  /\ UNCHANGED <<tables, work, req, acct, bal>>

Heals(r) ==
  /\ pc[r] = "heal_snap"
  /\ SnapInsertWaits(r, acct[r]) = {}
  /\ Visible(r, acct[r]) = NULL
  /\ WriteSnap(r, acct[r], LedgerBalance(acct[r]))
  /\ Decide(r, LedgerBalance(acct[r]))
  /\ UNCHANGED <<tables, req, acct>>

HandlerStep(r) ==
  \/ Outside(r) \/ Aborts(r) \/ Ends(r) \/ Begin(r) \/ ChoosesAccount(r) \/ InsertsRow(r)
  \/ FkAccount(r) \/ LockAccount(r) \/ EnsureSnap(r) \/ LocksSnap(r) \/ FindsNone(r)
  \/ Heals(r) \/ InsertLedger(r) \/ UpdateSnap(r) \/ Mark(r) \/ Publishes(r)

LEMMA WaitingRuns ==
  ASSUME NEW r \in Requests, OnCycle(r, Requests, Waiting)
  PROVE  pc[r] \in InTxn
  <1>1. PICK S \in SUBSET Requests : r \in S /\ Stuck(S, Waiting) BY DEF OnCycle
  <1>2. Waiting[r] \cap S # {} BY <1>1 DEF Stuck
  <1>3. WaitsFor(r) # {} BY <1>2 DEF Waiting
  <1> QED BY <1>3 DEF WaitsFor, InTxn

LEMMA OutsideCases ==
  ASSUME TypeInv, NEW r \in Requests,
         \/ Unauthorized(r) \/ Receive(r) \/ CreatePool(r) \/ CreateFails(r)
         \/ GetFinal(r) \/ HealFinal(r) \/ TryLock(r) \/ FailSet(r) \/ FailDel(r)
  PROVE  Outside(r)
  <1> USE DEF Outside, Goto, Reply, Past
  <1>a. \A l \in {"idle", "done", "create_pool", "get_final", "heal_final", "try_lock",
                  "begin", "fail_set", "fail_del"} : l \in Labels \ InTxn
    BY DEF Labels, Live, Running, InTxn, BeforeTxn, AfterTxn
  <1>b. pc[r] \in Running => req[r] \in Calls BY DEF TypeInv, LocalInv
  <1>c. "done" \notin Running /\ "create_pool" \notin Running
    BY DEF Running, InTxn, BeforeTxn, AfterTxn
  <1>d. {"get_final", "heal_final", "try_lock", "fail_set", "fail_del"} \subseteq Running
    BY DEF Running, BeforeTxn, AfterTxn
  <1>e. req \in [Requests -> Calls \cup {NULL}] BY DEF TypeInv, CoreTypeOK, HandlerTypeOK
  <1>1. CASE Receive(r)
    <2>1. PICK call \in Calls \cup {NULL} :
            /\ req' = [req EXCEPT ![r] = call]
            /\ \/ call # NULL /\ Goto(r, "get_final")
               \/ Goto(r, "done")
               \/ Goto(r, "create_pool")
      BY <1>1 DEF Receive, Enter
    <2>2. pc[r] = "idle" /\ UNCHANGED <<tables, work, acct, bal>> BY <1>1 DEF Receive
    <2> QED BY <2>1, <2>2, <1>a, <1>c, <1>e
  <1>2. CASE Unauthorized(r)
    <2>1. /\ pc[r] = "idle" /\ Goto(r, "done")
          /\ UNCHANGED <<tables, work, req, acct, bal>>
      BY <1>2 DEF Unauthorized
    <2> QED BY <2>1, <1>a, <1>c
  <1>3. CASE GetFinal(r) BY <1>3, <1>a, <1>b, <1>c, <1>d DEF GetFinal
  <1>4. CASE HealFinal(r) BY <1>4, <1>a, <1>b, <1>d DEF HealFinal
  <1>5. CASE TryLock(r) BY <1>5, <1>a, <1>b, <1>c, <1>d DEF TryLock
  <1>6. CASE FailSet(r) BY <1>6, <1>a, <1>b, <1>d DEF FailSet
  <1>7. CASE FailDel(r) BY <1>7, <1>a, <1>c DEF FailDel
  <1>8. CASE CreatePool(r)
    <2>1. /\ pc[r] = "create_pool" /\ UNCHANGED <<tables, work, req, acct, bal>>
          /\ (req[r] # NULL /\ Goto(r, "get_final")) \/ Goto(r, "done")
      BY <1>8 DEF CreatePool, Enter
    <2> QED BY <2>1, <1>a, <1>c, <1>e
  <1>9. CASE CreateFails(r) BY <1>9, <1>a, <1>c DEF CreateFails
  <1> QED BY <1>1, <1>2, <1>3, <1>4, <1>5, <1>6, <1>7, <1>8, <1>9

LEMMA RequestCases ==
  ASSUME TypeInv, NEW r \in Requests, RequestNext(r)
  PROVE  HandlerStep(r)
  <1>1. CASE \/ Unauthorized(r) \/ Receive(r) \/ CreatePool(r) \/ CreateFails(r)
             \/ GetFinal(r) \/ HealFinal(r) \/ TryLock(r) \/ FailSet(r) \/ FailDel(r)
    BY <1>1, OutsideCases DEF HandlerStep
  <1>2. CASE FindAccount(r)
    BY <1>2 DEF FindAccount, Raise, HandlerStep, Aborts, ChoosesAccount, Running, InTxn
  <1>3. CASE InsertTxn(r)
    <2>1. pc[r] = "insert_txn" /\ pc[r] \in Running BY <1>3 DEF InsertTxn, Running, InTxn
    <2> QED BY <1>3, <2>1, InsertTxnEffect DEF Raise, HandlerStep, Aborts, InsertsRow
  <1>4. CASE SetFinal(r) \/ DelLock(r)
    BY <1>4 DEF SetFinal, DelLock, HandlerStep, Publishes
  <1>5. CASE Commit(r) \/ CommitLost(r)
    BY <1>5 DEF Commit, CommitLost, Reply, HandlerStep, Ends
  <1>6. CASE LockSnap(r) BY <1>6 DEF LockSnap, HandlerStep, LocksSnap, FindsNone
  <1>10. CASE HealSnap(r)
    BY <1>10 DEF HealSnap, Raise, HandlerStep, Heals, Aborts, Running, InTxn
  <1>7. CASE DeadlockAbort(r)
    BY <1>7, WaitingRuns DEF DeadlockAbort, Raise, HandlerStep, Aborts, Running
  <1>8. CASE DbFails(r)
    BY <1>8 DEF DbFails, HandlerStep, Aborts, Running, InTxn, BeforeTxn
  <1>9. CASE RedisFails(r)
    <2>1. CASE pc[r] \in {"set_final", "del_lock"} /\ Abort(r)
      BY <2>1 DEF HandlerStep, Aborts, Running, InTxn
    <2>2. CASE /\ pc[r] \in {"get_final", "heal_final", "try_lock"} \cup AfterTxn
               /\ Goto(r, "done")
               /\ UNCHANGED <<tables, work, req, acct, bal>>
      BY <2>2 DEF HandlerStep, Outside, Past, Labels, Live, Running, InTxn, BeforeTxn, AfterTxn
    <2> QED BY <1>9, <2>1, <2>2 DEF RedisFails, Reply
  <1> QED BY <1>1, <1>2, <1>3, <1>4, <1>5, <1>6, <1>7, <1>8, <1>9, <1>10
          DEF RequestNext, Step, HandlerStep

Operator(a) == DropSnapshot(a) \/ CorruptSnapshot(a) \/ SetStatus(a)

LEMMA NextCases ==
  ASSUME TypeInv, [Next]_vars
  PROVE  \/ \E r \in Requests : HandlerStep(r)
         \/ Crash
         \/ \E a \in Accounts : Operator(a)
         \/ UNCHANGED core
  <1>1. CASE \E r \in Requests : RequestNext(r) BY <1>1, RequestCases
  <1>2. CASE Environment
    BY <1>2 DEF Environment, ExpireLock, ExpireFinal, CorruptFinal, Operator, core, locals
  <1>3. CASE UNCHANGED vars BY <1>3 DEF vars, core, locals
  <1> QED BY <1>1, <1>2, <1>3 DEF Next

-----------------------------------------------------------------------------
(* LocalInv and FiniteInv, step by step.                                   *)

Untouched(q) ==
  /\ pc'[q] = pc[q] /\ req'[q] = req[q] /\ acct'[q] = acct[q] /\ bal'[q] = bal[q]
  /\ work'[q] = work[q]

LEMMA OthersUntouched ==
  ASSUME CoreTypeOK, NEW r \in Requests, HandlerStep(r), NEW q \in Requests \ {r}
  PROVE  Untouched(q)
  <1> USE RequestsAreSessions DEF Untouched, Goto, CoreTypeOK, HandlerTypeOK, DBTypeOK
  <1>1. CASE Outside(r) BY <1>1 DEF Outside
  <1>2. CASE Aborts(r) BY <1>2 DEF Aborts, Abort, Rollback
  <1>3. CASE Ends(r) BY <1>3 DEF Ends, Publish
  <1>4. CASE Begin(r) BY <1>4 DEF Begin, Open
  <1>5. CASE ChoosesAccount(r) BY <1>5 DEF ChoosesAccount
  <1>6. CASE InsertsRow(r) BY <1>6 DEF InsertsRow, WriteTxn
  <1>7. CASE FkAccount(r) BY <1>7 DEF FkAccount, ShareLock
  <1>8. CASE LockAccount(r) BY <1>8 DEF LockAccount, ExclLock
  <1>9. CASE EnsureSnap(r) BY <1>9 DEF EnsureSnap, EnsureSnapRow
  <1>10. CASE LocksSnap(r) BY <1>10 DEF LocksSnap, SnapLock, Decide
  <1>15. CASE FindsNone(r) BY <1>15 DEF FindsNone
  <1>16. CASE Heals(r) BY <1>16 DEF Heals, WriteSnap, Decide
  <1>11. CASE InsertLedger(r) BY <1>11 DEF InsertLedger, WriteLegs
  <1>12. CASE UpdateSnap(r) BY <1>12 DEF UpdateSnap, WriteSnap
  <1>13. CASE Mark(r) BY <1>13 DEF Mark, SetTxnStatus
  <1>14. CASE Publishes(r) BY <1>14 DEF Publishes
  <1> QED BY <1>1, <1>2, <1>3, <1>4, <1>5, <1>6, <1>7, <1>8, <1>9, <1>10, <1>11, <1>12, <1>13, <1>14,
             <1>15, <1>16
          DEF HandlerStep

LEMMA EnsureSnapRowKeeps ==
  ASSUME CoreTypeOK, NEW s \in Sessions, NEW a \in Accounts, EnsureSnapRow(s, a)
  PROVE  work'[s].txn = work[s].txn /\ work'[s].excl = work[s].excl
  <1>1. work[s] \in Works BY DEF CoreTypeOK, DBTypeOK
  <1> QED BY <1>1 DEF EnsureSnapRow, CoreTypeOK, DBTypeOK, Works

LEMMA OtherSessions ==
  ASSUME CoreTypeOK, NEW r \in Requests, HandlerStep(r), NEW s \in Sessions \ {r}
  PROVE  work'[s] = work[s]
  <1> USE RequestsAreSessions DEF CoreTypeOK, DBTypeOK
  <1>1. CASE Outside(r) BY <1>1 DEF Outside
  <1>2. CASE Aborts(r) BY <1>2 DEF Aborts, Abort, Rollback
  <1>3. CASE Ends(r) BY <1>3 DEF Ends, Publish
  <1>4. CASE Begin(r) BY <1>4 DEF Begin, Open
  <1>5. CASE ChoosesAccount(r) BY <1>5 DEF ChoosesAccount
  <1>6. CASE InsertsRow(r) BY <1>6 DEF InsertsRow, WriteTxn
  <1>7. CASE FkAccount(r) BY <1>7 DEF FkAccount, ShareLock
  <1>8. CASE LockAccount(r) BY <1>8 DEF LockAccount, ExclLock
  <1>9. CASE EnsureSnap(r) BY <1>9 DEF EnsureSnap, EnsureSnapRow
  <1>10. CASE LocksSnap(r) BY <1>10 DEF LocksSnap, SnapLock
  <1>15. CASE FindsNone(r) BY <1>15 DEF FindsNone
  <1>16. CASE Heals(r) BY <1>16 DEF Heals, WriteSnap
  <1>11. CASE InsertLedger(r) BY <1>11 DEF InsertLedger, WriteLegs
  <1>12. CASE UpdateSnap(r) BY <1>12 DEF UpdateSnap, WriteSnap
  <1>13. CASE Mark(r) BY <1>13 DEF Mark, SetTxnStatus
  <1>14. CASE Publishes(r) BY <1>14 DEF Publishes
  <1> QED BY <1>1, <1>2, <1>3, <1>4, <1>5, <1>6, <1>7, <1>8, <1>9, <1>10, <1>11, <1>12, <1>13, <1>14,
             <1>15, <1>16
          DEF HandlerStep

LEMMA Released ==
  ASSUME CoreTypeOK, NEW r \in Requests, Aborts(r) \/ Ends(r)
  PROVE  work'[r] = NoWork
  BY RequestsAreSessions DEF CoreTypeOK, DBTypeOK, Aborts, Abort, Rollback, Ends, Publish

LEMMA SameLegs ==
  ASSUME CoreTypeOK, NEW r \in Requests, HandlerStep(r),
         ~Aborts(r), ~Ends(r), ~InsertLedger(r)
  PROVE  work'[r].legs = work[r].legs
  <1>a. r \in Sessions /\ work[r] \in Works /\ work \in [Sessions -> Works]
    BY RequestsAreSessions DEF CoreTypeOK, DBTypeOK
  <1> USE <1>a DEF Works
  <1>1. CASE Outside(r) BY <1>1 DEF Outside
  <1>2. CASE Begin(r) BY <1>2 DEF Begin, Open
  <1>3. CASE ChoosesAccount(r) BY <1>3 DEF ChoosesAccount
  <1>4. CASE InsertsRow(r) BY <1>4 DEF InsertsRow, WriteTxn
  <1>5. CASE FkAccount(r) BY <1>5 DEF FkAccount, ShareLock
  <1>6. CASE LockAccount(r) BY <1>6 DEF LockAccount, ExclLock
  <1>7. CASE EnsureSnap(r) BY <1>7 DEF EnsureSnap, EnsureSnapRow
  <1>8. CASE LocksSnap(r) BY <1>8 DEF LocksSnap, SnapLock
  <1>12. CASE FindsNone(r) BY <1>12 DEF FindsNone
  <1>13. CASE Heals(r) BY <1>13 DEF Heals, WriteSnap
  <1>9. CASE UpdateSnap(r) BY <1>9 DEF UpdateSnap, WriteSnap
  <1>10. CASE Mark(r) BY <1>10 DEF Mark, SetTxnStatus
  <1>11. CASE Publishes(r) BY <1>11 DEF Publishes
  <1> QED BY <1>1, <1>2, <1>3, <1>4, <1>5, <1>6, <1>7, <1>8, <1>9, <1>10, <1>11,
             <1>12, <1>13
          DEF HandlerStep

LocalAt(r) ==
  /\ pc[r] \in Running => req[r] \in Calls
  /\ pc[r] \in Chosen => acct[r] \in Accounts
  /\ pc[r] \in Inserted => work[r].txn \in Rows /\ work[r].txn.account_id = acct[r]
  /\ pc[r] \in {"set_final", "del_lock", "commit"} => work[r].txn.status \in Decided
  /\ pc[r] \in {"insert_ledger", "update_snap"} => bal[r] \in Int

LEMMA LocalStep ==
  ASSUME TypeInv, NEW r \in Requests, HandlerStep(r)
  PROVE  LocalInv'
  <1> SUFFICES LocalAt(r)'
    <2>1. \A q \in Requests \ {r} : LocalAt(q)'
      BY OthersUntouched DEF TypeInv, LocalInv, LocalAt, Untouched
    <2> QED BY <2>1 DEF LocalInv, LocalAt
  <1>a. LocalAt(r) BY DEF TypeInv, LocalInv, LocalAt
  <1>b. r \in Sessions /\ work \in [Sessions -> Works] /\ pc \in [Requests -> Labels]
    BY RequestsAreSessions DEF TypeInv, CoreTypeOK, DBTypeOK, HandlerTypeOK
  <1> USE <1>a, <1>b DEF Goto, LocalAt, Running, BeforeTxn, InTxn, AfterTxn, Chosen, Inserted
  <1>1. CASE Outside(r) BY <1>1 DEF Outside
  <1>2. CASE Aborts(r) BY <1>2 DEF Aborts, Abort, Rollback
  <1>3. CASE Ends(r) BY <1>3 DEF Ends, Publish
  <1>4. CASE Begin(r) BY <1>4 DEF Begin, Open
  <1>5. CASE ChoosesAccount(r)
    BY <1>5 DEF ChoosesAccount, OldestActive, TypeInv, CoreTypeOK, HandlerTypeOK
  <1>6. CASE InsertsRow(r)
    <2>1. NewRow(r) \in Rows BY <1>6, NewRowType DEF InsertsRow, TypeInv
    <2>2. NewRow(r).account_id = acct[r] BY DEF NewRow
    <2> QED BY <1>6, <2>1, <2>2 DEF InsertsRow, WriteTxn, Works
  <1>7. CASE FkAccount(r) BY <1>7 DEF FkAccount, ShareLock
  <1>8. CASE LockAccount(r) BY <1>8 DEF LockAccount, ExclLock
  <1>9. CASE EnsureSnap(r)
    <2>1. work'[r].txn = work[r].txn
      BY <1>9, EnsureSnapRowKeeps DEF EnsureSnap, TypeInv
    <2> QED BY <1>9, <2>1 DEF EnsureSnap
  <1>10. CASE LocksSnap(r)
    <2>1. Visible(r, acct[r]) \in Int
      BY <1>10, VisibleType DEF LocksSnap, TypeInv, CoreTypeOK
    <2>2. /\ SnapLock(r, acct[r]) /\ Decide(r, Visible(r, acct[r]))
          /\ UNCHANGED <<req, acct>>
      BY <1>10 DEF LocksSnap
    <2>3. work'[r].txn = work[r].txn BY <2>2 DEF SnapLock, Works
    <2>4. bal'[r] \in Int BY <2>1, <2>2 DEF Decide, TypeInv, CoreTypeOK, HandlerTypeOK
    <2>5. pc'[r] \in {"mark_declined", "insert_ledger"} BY <2>2 DEF Decide
    <2>6. pc[r] = "lock_snap" BY <1>10 DEF LocksSnap
    <2> QED BY <2>2, <2>3, <2>4, <2>5, <2>6
  <1>15. CASE FindsNone(r) BY <1>15 DEF FindsNone
  <1>16. CASE Heals(r)
    <2>1. LedgerBalance(acct[r]) \in Int BY BalanceType DEF TypeInv, CoreTypeOK
    <2>2. /\ WriteSnap(r, acct[r], LedgerBalance(acct[r]))
          /\ Decide(r, LedgerBalance(acct[r])) /\ UNCHANGED <<req, acct>>
      BY <1>16 DEF Heals
    <2>3. work'[r].txn = work[r].txn BY <2>2 DEF WriteSnap, Works
    <2>4. bal'[r] \in Int BY <2>1, <2>2 DEF Decide, TypeInv, CoreTypeOK, HandlerTypeOK
    <2>5. pc'[r] \in {"mark_declined", "insert_ledger"} BY <2>2 DEF Decide
    <2>6. pc[r] = "heal_snap" BY <1>16 DEF Heals
    <2> QED BY <2>2, <2>3, <2>4, <2>5, <2>6
  <1>11. CASE InsertLedger(r) BY <1>11 DEF InsertLedger, WriteLegs
  <1>12. CASE UpdateSnap(r) BY <1>12 DEF UpdateSnap, WriteSnap
  <1>13. CASE Mark(r)
    <2>1. PICK st \in Decided : SetTxnStatus(r, st) BY <1>13 DEF Mark, Decided
    <2>2. work'[r].txn = [work[r].txn EXCEPT !.status = st]
      BY <2>1 DEF SetTxnStatus, Works
    <2>3. work[r].txn \in Rows BY <1>13 DEF Mark
    <2> QED BY <1>13, <2>2, <2>3 DEF Mark, Rows, Decided
  <1>14. CASE Publishes(r) BY <1>14 DEF Publishes
  <1> QED BY <1>1, <1>2, <1>3, <1>4, <1>5, <1>6, <1>7, <1>8, <1>9, <1>10, <1>11, <1>12, <1>13, <1>14,
             <1>15, <1>16
          DEF HandlerStep

LEMMA TablesStay ==
  ASSUME NEW r \in Requests, HandlerStep(r), ~Ends(r)
  PROVE  UNCHANGED tables
  BY DEF HandlerStep, Outside, Aborts, Abort, Rollback, Begin, ChoosesAccount, InsertsRow,
         FkAccount, LockAccount, EnsureSnap, LocksSnap, FindsNone, Heals, InsertLedger,
         UpdateSnap, Mark, Publishes

\* A snapshot that exists stays.
LEMMA SnapshotsStay ==
  ASSUME CoreTypeOK, NEW r \in Requests, HandlerStep(r), NEW a \in Accounts, snapshots[a] # NULL
  PROVE  snapshots'[a] # NULL
  <1>1. CASE Ends(r) BY <1>1 DEF Ends, Publish, Visible
  <1>2. CASE ~Ends(r) BY <1>2, TablesStay DEF tables
  <1> QED BY <1>1, <1>2

LEMMA FiniteStep ==
  ASSUME TypeInv, NEW r \in Requests, HandlerStep(r)
  PROVE  FiniteInv'
  <1>a. r \in Sessions /\ work[r] \in Works /\ work \in [Sessions -> Works]
    BY RequestsAreSessions DEF TypeInv, CoreTypeOK, DBTypeOK
  <1>b. \A s \in Sessions \ {r} : work'[s] = work[s] BY OtherSessions DEF TypeInv
  <1>1. CASE Aborts(r) \/ Ends(r)
    <2>1. work'[r].legs = {} BY <1>1, Released DEF TypeInv, NoWork
    <2>2. ledger_entries' \in {ledger_entries, ledger_entries \cup work[r].legs}
      BY <1>1 DEF Aborts, Abort, Rollback, tables, Ends, Publish
    <2>3. IsFiniteSet(ledger_entries \cup work[r].legs)
      BY <1>a, FS_Union DEF TypeInv, FiniteInv
    <2>4. IsFiniteSet(ledger_entries') BY <2>2, <2>3 DEF TypeInv, FiniteInv
    <2>5. \A s \in Sessions : IsFiniteSet(work'[s].legs)
      BY <1>b, <2>1, FS_EmptySet DEF TypeInv, FiniteInv
    <2> QED BY <2>4, <2>5 DEF FiniteInv
  <1>2. CASE InsertLedger(r)
    <2>1. work'[r].legs = {Leg(r, 0, "DEBIT", acct[r]), Leg(r, 1, "CREDIT", Merchant)}
      BY <1>2, <1>a DEF InsertLedger, WriteLegs, Works
    <2>2. IsFiniteSet(work'[r].legs)
      <3> DEFINE one == Leg(r, 0, "DEBIT", acct[r])
                 two == Leg(r, 1, "CREDIT", Merchant)
      <3>1. IsFiniteSet({one}) BY FS_Singleton
      <3>2. IsFiniteSet({one} \cup {two}) BY <3>1, FS_AddElement
      <3>3. {one, two} = {one} \cup {two} OBVIOUS
      <3> QED BY <2>1, <3>2, <3>3
    <2> QED BY <1>2, <1>b, <2>2 DEF InsertLedger, tables, TypeInv, FiniteInv
  <1>3. CASE ~Aborts(r) /\ ~Ends(r) /\ ~InsertLedger(r)
    <2>1. work'[r].legs = work[r].legs BY <1>3, SameLegs DEF TypeInv
    <2>2. UNCHANGED ledger_entries BY <1>3, TablesStay DEF tables
    <2> QED BY <1>b, <2>1, <2>2 DEF TypeInv, FiniteInv
  <1> QED BY <1>1, <1>2, <1>3

-----------------------------------------------------------------------------
LEMMA TypeInvInit == Init => TypeInv
  <1> SUFFICES ASSUME Init PROVE TypeInv OBVIOUS
  <1>1. DBTypeOK
    BY NoWorkType DEF Init, DBInit, DBTypeOK, Statuses
  <1>2. StoreTypeOK BY DEF Init, StoreInit, StoreTypeOK
  <1>3. HandlerTypeOK BY PurchaseAssumption DEF Init, HandlerTypeOK, Labels
  <1>4. LocalInv
    BY DEF Init, LocalInv, Running, BeforeTxn, InTxn, AfterTxn, Chosen, Inserted
  <1>5. FiniteInv BY FS_EmptySet DEF Init, DBInit, FiniteInv, NoWork
  <1> QED BY <1>1, <1>2, <1>3, <1>4, <1>5 DEF TypeInv, CoreTypeOK

LEMMA TypeInvStep == ASSUME TypeInv, [Next]_vars PROVE TypeInv'
  <1>1. CoreTypeOK'
    <2>1. ASSUME NEW r \in Requests, RequestNext(r) PROVE CoreTypeOK'
      BY <2>1, UnauthorizedType, ReceiveType, CreatePoolType, CreateFailsType, GetFinalType, HealFinalType, TryLockType, BeginType,
         FindAccountType, InsertTxnType, FkAccountType, LockAccountType, EnsureSnapType,
         LockSnapType, HealSnapType, InsertLedgerType, UpdateSnapType, MarkType,
         SetFinalType, DelLockType, CommitType, FailSetType, FailDelType,
         DeadlockAbortType, RedisFailsType, DbFailsType, CommitLostType
      DEF RequestNext, Step
    <2>2. CASE UNCHANGED vars
      BY <2>2, DBFrame, StoreFrame DEF vars, locals, TypeInv, CoreTypeOK, HandlerTypeOK
    <2> QED BY <2>1, <2>2, EnvironmentType DEF Next
  <1>2. LocalInv' /\ FiniteInv'
    <2>1. CASE \E r \in Requests : HandlerStep(r) BY <2>1, LocalStep, FiniteStep
    <2>2. CASE Crash
      <3>1. LocalInv'
        BY <2>2 DEF Crash, Live, LocalInv, Running, BeforeTxn, InTxn, AfterTxn, Chosen, Inserted
      <3>2. \A s \in Sessions : work'[s].legs \in {{}, work[s].legs}
        BY <2>2 DEF Crash, NoWork
      <3>3. FiniteInv'
        BY <2>2, <3>2, FS_EmptySet DEF Crash, tables, TypeInv, FiniteInv
      <3> QED BY <3>1, <3>3
    <2>3. CASE UNCHANGED core \/ \E a \in Accounts : Operator(a)
      BY <2>3
      DEF core, tables, Operator, DropSnapshot, CorruptSnapshot, SetStatus, locals,
          TypeInv, LocalInv, FiniteInv
    <2> QED BY <2>1, <2>2, <2>3, NextCases
  <1> QED BY <1>1, <1>2 DEF TypeInv

-----------------------------------------------------------------------------
(* The pools.                                                              *)

PoolInv == PoolTypeOK /\ PoolIsKept

\* What a request's step does to the pools: nothing but Receive and CreatePool
\* gives a handler one, and only a reply takes it away.
LEMMA PoolCases ==
  ASSUME NEW r \in Requests, RequestNext(r)
  PROVE  \/ Receive(r) \/ CreatePool(r)
         \/ /\ pc[r] \in Running /\ UNCHANGED pools
            /\ \E l : Goto(r, l)
         \/ UNCHANGED pool /\ \E code, st, t : Reply(r, code, st, t)
  <1> USE DEF Running, BeforeTxn, InTxn, AfterTxn
  <1>1. CASE Unauthorized(r) \/ CreateFails(r)
    BY <1>1 DEF Unauthorized, CreateFails
  <1>2. CASE GetFinal(r) BY <1>2 DEF GetFinal, pools
  <1>3. CASE HealFinal(r) BY <1>3 DEF HealFinal
  <1>4. CASE TryLock(r) BY <1>4 DEF TryLock, pools
  <1>5. CASE Begin(r) BY <1>5 DEF Begin
  <1>6. CASE FindAccount(r) BY <1>6 DEF FindAccount, Raise, Abort
  <1>7. CASE InsertTxn(r) BY <1>7 DEF InsertTxn, Raise, Abort
  <1>8. CASE FkAccount(r) BY <1>8 DEF FkAccount
  <1>9. CASE LockAccount(r) BY <1>9 DEF LockAccount
  <1>10. CASE EnsureSnap(r) BY <1>10 DEF EnsureSnap
  <1>11. CASE LockSnap(r) BY <1>11 DEF LockSnap, Decide
  <1>12. CASE HealSnap(r) BY <1>12 DEF HealSnap, Decide, Raise, Abort
  <1>13. CASE InsertLedger(r) BY <1>13 DEF InsertLedger
  <1>14. CASE UpdateSnap(r) BY <1>14 DEF UpdateSnap
  <1>15. CASE Mark(r) BY <1>15 DEF Mark
  <1>16. CASE SetFinal(r) \/ DelLock(r) BY <1>16 DEF SetFinal, DelLock
  <1>17. CASE Commit(r) BY <1>17 DEF Commit
  <1>18. CASE FailSet(r) BY <1>18 DEF FailSet
  <1>19. CASE FailDel(r) BY <1>19 DEF FailDel
  <1>20. CASE DeadlockAbort(r) BY <1>20, WaitingRuns DEF DeadlockAbort, Raise, Abort
  <1>21. CASE RedisFails(r) BY <1>21 DEF RedisFails, Abort
  <1>22. CASE DbFails(r) BY <1>22 DEF DbFails, Abort
  <1>23. CASE CommitLost(r) BY <1>23 DEF CommitLost
  <1> QED BY <1>1, <1>2, <1>3, <1>4, <1>5, <1>6, <1>7, <1>8, <1>9, <1>10, <1>11, <1>12,
             <1>13, <1>14, <1>15, <1>16, <1>17, <1>18, <1>19, <1>20, <1>21, <1>22, <1>23
          DEF RequestNext, Step

LEMMA PoolStep ==
  ASSUME CoreTypeOK, PoolInv, NEW r \in Requests, RequestNext(r)
  PROVE  PoolInv'
  <1> USE DEF PoolInv, PoolTypeOK, PoolIsKept, Pools, Goto
  <1>a. pc \in [Requests -> Labels] BY DEF CoreTypeOK, HandlerTypeOK
  <1>b. "done" \notin Running /\ "create_pool" \notin Running
    BY DEF Running, InTxn, BeforeTxn, AfterTxn
  <1>1. CASE pc[r] \in Running /\ UNCHANGED pools /\ \E l : Goto(r, l)
    BY <1>1, <1>a DEF pools
  <1>2. CASE UNCHANGED pool /\ \E code, st, t : Reply(r, code, st, t)
    BY <1>2, <1>a, <1>b DEF Reply
  <1>3. CASE Receive(r)
    <2>1. PICK call \in Calls \cup {NULL} :
            \/ pool # NULL /\ Enter(r, pool, call)
            \/ Goto(r, "create_pool") /\ UNCHANGED mine
      BY <1>3 DEF Receive
    <2>2. UNCHANGED pool BY <1>3 DEF Receive
    <2> QED BY <2>1, <2>2, <1>a, <1>b DEF Enter, Reply
  <1>4. CASE CreatePool(r)
    BY <1>4, <1>a, <1>b, PurchaseAssumption DEF CreatePool, Enter, Reply
  <1> QED BY <1>1, <1>2, <1>3, <1>4, PoolCases

LEMMA PoolInvInit == Init => PoolInv
  BY DEF Init, PoolInv, PoolTypeOK, PoolIsKept, Pools, Running, InTxn, BeforeTxn, AfterTxn

LEMMA PoolInvStep == ASSUME CoreTypeOK, PoolInv, [Next]_vars PROVE PoolInv'
  <1>1. CASE \E r \in Requests : RequestNext(r) BY <1>1, PoolStep
  <1>2. CASE Crash
    <2>1. /\ pool' = NULL /\ mine' = [r \in Requests |-> NULL]
          /\ pc' = [r \in Requests |-> IF pc[r] \in Live THEN "dead" ELSE pc[r]]
      BY <1>2 DEF Crash
    <2>2. \A r \in Requests : pc'[r] \notin Running
      BY <2>1 DEF Live, Running, InTxn, BeforeTxn, AfterTxn
    <2> QED BY <2>1, <2>2 DEF PoolInv, PoolTypeOK, PoolIsKept
  <1>3. CASE UNCHANGED <<pc, pools>>
    BY <1>3 DEF pools, PoolInv, PoolTypeOK, PoolIsKept
  <1>4. Environment /\ ~Crash => UNCHANGED locals
    BY DEF Environment, ExpireLock, ExpireFinal, CorruptFinal, DropSnapshot,
           CorruptSnapshot, SetStatus
  <1> QED BY <1>1, <1>2, <1>3, <1>4 DEF Next, vars, locals

\* Every variable keeps its type, whatever the requests, the pools and the faults:
\* also where the handler computes a missing balance from the ledger.
THEOREM TypeCorrect == Spec => []TypeOK
  <1>1. Init => TypeInv /\ PoolInv BY TypeInvInit, PoolInvInit
  <1>2. TypeInv /\ PoolInv /\ [Next]_vars => (TypeInv /\ PoolInv)'
    BY TypeInvStep, PoolInvStep DEF TypeInv
  <1>3. TypeInv /\ PoolInv => TypeOK BY DEF TypeInv, PoolInv, TypeOK, CoreTypeOK
  <1> QED BY <1>1, <1>2, <1>3, PTL DEF Spec

\* Whatever number of first requests race to create the pool, and whichever of
\* them fail to, none of those that go on is left without one.
THEOREM PoolKept == Spec => []PoolIsKept
  <1>1. Init => TypeInv /\ PoolInv BY TypeInvInit, PoolInvInit
  <1>2. TypeInv /\ PoolInv /\ [Next]_vars => (TypeInv /\ PoolInv)'
    BY TypeInvStep, PoolInvStep DEF TypeInv
  <1>3. TypeInv /\ PoolInv => PoolIsKept BY DEF PoolInv
  <1> QED BY <1>1, <1>2, <1>3, PTL DEF Spec
=============================================================================
