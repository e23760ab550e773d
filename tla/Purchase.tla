------------------------------ MODULE Purchase ------------------------------
(***************************************************************************)
(* POST /purchase of the transaction service (routes/purchase.py, with     *)
(* services/idempotency.py and services/ledger_manager.py), run by any     *)
(* number of concurrent requests over one Redis and one PostgreSQL.        *)
(*                                                                         *)
(* Every await of the handler is a step of its own: between two steps any  *)
(* other request may run.  pc[r] is the await the request stands at.  A    *)
(* request's transaction_id (a fresh uuid4) is the request itself.         *)
(***************************************************************************)
EXTENDS LedgerDB, IdempotencyStore

CONSTANTS
  Requests,    \* one element per HTTP call
  Amounts,     \* amount_minor of a request (pydantic: gt=0)
  Currencies,  \* currency of a request
  PoolSize,    \* max_size of an asyncpg pool
  FirstPool,   \* the pool the service has at first; NULL: none yet
  Faults,      \* the environment's faults a run admits
  MaxFaults    \* bound on how many of them happen

FaultKinds == {"redis", "db", "commit_lost", "crash", "expire_lock", "expire_final",
               "corrupt_final", "drop_snapshot", "corrupt_snapshot", "set_status"}

ASSUME PurchaseAssumption ==
  /\ Requests \subseteq Sessions
  /\ NULL \notin Requests
  /\ Amounts \subseteq Nat \ {0}
  /\ PoolSize \in Nat \ {0}
  /\ Faults \subseteq FaultKinds
  /\ MaxFaults \in Nat

VARIABLES
  pc,      \* where the handler of each request stands
  req,     \* the request, NULL before it arrives
  acct,    \* user_account_id
  bal,     \* balance_minor as read from the locked snapshot
  answer,  \* the HTTP response, NULL before it is sent
  pool,    \* db._pool: NULL, or the pool, named by the request that created it
  mine,    \* the pool get_pool gave each running handler
  faults   \* faults so far

pools == <<pool, mine>>

\* Everything the service's process holds.
locals == <<pc, req, acct, bal, answer, pools>>
vars == <<tables, work, store, locals, faults>>

InTxn == {"find_account", "insert_txn", "fk_account", "lock_account", "ensure_snap",
          "lock_snap", "heal_snap", "insert_ledger", "update_snap", "mark_declined",
          "mark_posted", "set_final", "del_lock", "commit"}
BeforeTxn == {"get_final", "heal_final", "try_lock", "begin"}
AfterTxn == {"fail_set", "fail_del"}
Running == BeforeTxn \cup InTxn \cup AfterTxn
Live == Running \cup {"create_pool"}

Calls == [user : Users, key : Keys, amount : Amounts, currency : Currencies]

slot(r) == <<req[r].user, req[r].key>>

Answer(code, st, t) == [code |-> code, status |-> st, txn |-> t]

Goto(r, label) == pc' = [pc EXCEPT ![r] = label]

Reply(r, code, st, t) ==
  /\ Goto(r, "done")
  /\ answer' = [answer EXCEPT ![r] = Answer(code, st, t)]
  /\ mine' = [mine EXCEPT ![r] = NULL]

\* An exception inside the transaction block: ROLLBACK, then `except Exception`.
Abort(r) ==
  /\ Rollback(r)
  /\ Goto(r, "fail_set")
  /\ UNCHANGED <<req, acct, bal, answer, pools>>

Raise(r) == Abort(r) /\ UNCHANGED <<store, faults>>

-----------------------------------------------------------------------------
Init ==
  /\ DBInit
  /\ StoreInit
  /\ pc = [r \in Requests |-> "idle"]
  /\ req = [r \in Requests |-> NULL]
  /\ acct = [r \in Requests |-> NULL]
  /\ bal = [r \in Requests |-> NULL]
  /\ answer = [r \in Requests |-> NULL]
  /\ pool = FirstPool
  /\ mine = [r \in Requests |-> NULL]
  /\ faults = 0

\* UserAuthMiddleware: no bearer token, or none the keyring verifies.
Unauthorized(r) ==
  /\ pc[r] = "idle"
  /\ Reply(r, 401, "ERROR", NULL)
  /\ UNCHANGED <<tables, work, store, req, acct, bal, pool, faults>>

\* The handler's body begins with pool p: a request without a usable payload or
\* Idempotency-Key (NULL) is refused, and only now.
Enter(r, p, call) ==
  \/ /\ call # NULL
     /\ mine' = [mine EXCEPT ![r] = p]
     /\ Goto(r, "get_final")
     /\ UNCHANGED answer
  \/ /\ call = NULL
     /\ Reply(r, 400, "ERROR", NULL)

\* Authorized, the request has its dependency resolved first: get_pool returns
\* the pool there is without suspending, or starts to create one.
Receive(r) ==
  /\ pc[r] = "idle"
  /\ \E call \in Calls \cup {NULL} :
       /\ req' = [req EXCEPT ![r] = call]
       /\ \/ pool # NULL /\ Enter(r, pool, call)
          \/ pool = NULL /\ Goto(r, "create_pool") /\ UNCHANGED <<answer, mine>>
  /\ UNCHANGED <<tables, work, store, acct, bal, pool, faults>>

\* asyncpg.create_pool has returned.  _pool is not looked at again: whoever also
\* found it None has created, or will create, another one.
CreatePool(r) ==
  /\ pc[r] = "create_pool"
  /\ pool' = r
  /\ Enter(r, r, req[r])
  /\ UNCHANGED <<tables, work, store, req, acct, bal, faults>>

\* idem_get_final: a stored response is replayed with status 200, whatever its
\* own status was; a corrupt one is deleted and counts as absent.
GetFinal(r) ==
  /\ pc[r] = "get_final"
  /\ LET found == final[slot(r)] IN
       \/ /\ Cached(slot(r))
          /\ Reply(r, 200, found.status, found.txn)
       \/ /\ ~Cached(slot(r))
          /\ Goto(r, IF found = Corrupt THEN "heal_final" ELSE "try_lock")
          /\ UNCHANGED <<answer, mine>>
  /\ UNCHANGED <<tables, work, store, req, acct, bal, pool, faults>>

HealFinal(r) ==
  /\ pc[r] = "heal_final"
  /\ DelFinal(slot(r))
  /\ Goto(r, "try_lock")
  /\ UNCHANGED <<tables, work, req, acct, bal, answer, pools, faults>>

TryLock(r) ==
  /\ pc[r] = "try_lock"
  /\ \/ /\ LockFree(slot(r))
        /\ TakeLock(slot(r))
        /\ Goto(r, "begin")
        /\ UNCHANGED <<answer, mine>>
     \/ /\ ~LockFree(slot(r))
        /\ Reply(r, 409, "PENDING", NULL)
        /\ UNCHANGED store
  /\ UNCHANGED <<tables, work, req, acct, bal, pool, faults>>

PoolFull(r) ==
  Cardinality({q \in Requests : work[q].open /\ mine[q] = mine[r]}) >= PoolSize

\* pool.acquire and BEGIN: waits while every connection of the request's pool is
\* in a transaction.
Begin(r) ==
  /\ pc[r] = "begin"
  /\ ~PoolFull(r)
  /\ Open(r)
  /\ Goto(r, "find_account")
  /\ UNCHANGED <<tables, store, req, acct, bal, answer, pools, faults>>

\* _get_user_account_id; no ACTIVE account is an HTTPException(404), which the
\* handler's own `except Exception` turns into FAILED.
FindAccount(r) ==
  /\ pc[r] = "find_account"
  /\ \/ /\ OldestActive(req[r].user) = {}
        /\ Raise(r)
     \/ /\ \E a \in OldestActive(req[r].user) : acct' = [acct EXCEPT ![r] = a]
        /\ Goto(r, "insert_txn")
        /\ UNCHANGED <<tables, work, store, req, bal, answer, pools, faults>>

Storable(call) == call.currency \in Codes /\ call.amount <= MaxBigint

\* INSERT INTO transactions: CHECK constraints first, then the unique index.
InsertTxn(r) ==
  /\ pc[r] = "insert_txn"
  /\ LET call == req[r] IN
       \/ ~Storable(call) /\ Raise(r)
       \/ /\ Storable(call)
          /\ KeyWaits(r, call.user, call.key) = {}
          /\ KeyTaken(call.user, call.key)
          /\ Raise(r)
       \/ /\ Storable(call)
          /\ KeyWaits(r, call.user, call.key) = {}
          /\ ~KeyTaken(call.user, call.key)
          /\ WriteTxn(r, [transaction_id |-> r, user_id |-> call.user,
                          account_id |-> acct[r], idempotency_key |-> call.key,
                          currency |-> call.currency, amount_minor |-> call.amount,
                          status |-> "PENDING"])
          /\ Goto(r, "fk_account")
          /\ UNCHANGED <<tables, store, req, acct, bal, answer, pools, faults>>

\* The foreign-key check of the same statement.
FkAccount(r) ==
  /\ pc[r] = "fk_account"
  /\ ShareWaits(r, acct[r]) = {}
  /\ ShareLock(r, acct[r])
  /\ Goto(r, "lock_account")
  /\ UNCHANGED <<tables, store, req, acct, bal, answer, pools, faults>>

-----------------------------------------------------------------------------
(* LedgerManager.post_purchase_atomic.  The amount is positive and the     *)
(* account exists and belongs to the user (nothing deletes an account or   *)
(* moves it), so its first and second early return are never taken.        *)

\* Mutant of Chargeable: the status is not looked at again under the lock.
ChargeableUnchecked(r) == req[r].currency = Currency[acct[r]]

Chargeable(r) == status[acct[r]] = "ACTIVE" /\ req[r].currency = Currency[acct[r]]

LockAccount(r) ==
  /\ pc[r] = "lock_account"
  /\ ExclWaits(r, acct[r]) = {}
  /\ ExclLock(r, acct[r])
  /\ Goto(r, IF Chargeable(r) THEN "ensure_snap" ELSE "mark_declined")
  /\ UNCHANGED <<tables, store, req, acct, bal, answer, pools, faults>>

EnsureSnap(r) ==
  /\ pc[r] = "ensure_snap"
  /\ SnapInsertWaits(r, acct[r]) = {}
  /\ EnsureSnapRow(r, acct[r])
  /\ Goto(r, "lock_snap")
  /\ UNCHANGED <<tables, store, req, acct, bal, answer, pools, faults>>

\* Mutant of Available: the sign of the balance is the wrong way round.
AvailableWrongSign(r, b) == CreditLimit[acct[r]] - b

Available(r, b) == CreditLimit[acct[r]] + b

\* The balance read under the lock, and the decision taken from it.
Decide(r, b) ==
  /\ bal' = [bal EXCEPT ![r] = b]
  /\ Goto(r, IF req[r].amount > Available(r, b) THEN "mark_declined" ELSE "insert_ledger")

LockSnap(r) ==
  /\ pc[r] = "lock_snap"
  /\ SnapWaits(r, acct[r]) = {}
  /\ LET b == Visible(r, acct[r]) IN
       \/ b = NULL /\ Goto(r, "heal_snap") /\ UNCHANGED <<work, bal>>
       \/ b # NULL /\ SnapLock(r, acct[r]) /\ Decide(r, b)
  /\ UNCHANGED <<tables, store, req, acct, answer, pools, faults>>

\* The self-heal path: a plain INSERT, and the sum of the account's ledger.
HealSnap(r) ==
  /\ pc[r] = "heal_snap"
  /\ SnapInsertWaits(r, acct[r]) = {}
  /\ \/ /\ Visible(r, acct[r]) # NULL
        /\ Raise(r)
     \/ /\ Visible(r, acct[r]) = NULL
        /\ WriteSnap(r, acct[r], LedgerBalance(acct[r]))
        /\ Decide(r, LedgerBalance(acct[r]))
        /\ UNCHANGED <<tables, store, req, acct, answer, pools, faults>>

Leg(r, index, kind, a) ==
  [account_id |-> a, transaction_id |-> r, entry_index |-> index,
   entry_type |-> kind, amount_minor |-> req[r].amount]

\* executemany of the two legs; the merchant's foreign-key check may wait.
InsertLedger(r) ==
  /\ pc[r] = "insert_ledger"
  /\ ShareWaits(r, Merchant) = {}
  /\ WriteLegs(r, {Leg(r, 0, "DEBIT", acct[r]), Leg(r, 1, "CREDIT", Merchant)},
               Merchant)
  /\ Goto(r, "update_snap")
  /\ UNCHANGED <<tables, store, req, acct, bal, answer, pools, faults>>

\* Mutants of UpdateSnap: the UPDATE is forgotten; the row is left PENDING.
UpdateSnapSkipped(r) ==
  /\ pc[r] = "update_snap"
  /\ Goto(r, "mark_posted")
  /\ UNCHANGED <<tables, work, store, req, acct, bal, answer, pools, faults>>

UpdateSnapUnmarked(r) ==
  /\ pc[r] = "update_snap"
  /\ WriteSnap(r, acct[r], bal[r] - req[r].amount)
  /\ Goto(r, "set_final")
  /\ UNCHANGED <<tables, store, req, acct, bal, answer, pools, faults>>

UpdateSnap(r) ==
  /\ pc[r] = "update_snap"
  /\ WriteSnap(r, acct[r], bal[r] - req[r].amount)
  /\ Goto(r, "mark_posted")
  /\ UNCHANGED <<tables, store, req, acct, bal, answer, pools, faults>>

-----------------------------------------------------------------------------
(* Back in the route: the row's status, the final response and COMMIT, in  *)
(* that order; and the path of an exception.                               *)

Mark(r) ==
  /\ \/ pc[r] = "mark_declined" /\ SetTxnStatus(r, "DECLINED")
     \/ pc[r] = "mark_posted" /\ SetTxnStatus(r, "POSTED")
  /\ Goto(r, "set_final")
  /\ UNCHANGED <<tables, store, req, acct, bal, answer, pools, faults>>

\* Mutant of PutDecided: the response of the success path in both branches.
PutDecidedPosted(r) == PutFinal(slot(r), [status |-> "POSTED", txn |-> r])

PutDecided(r) == PutFinal(slot(r), [status |-> work[r].txn.status, txn |-> r])
PutFailed(r) == PutFinal(slot(r), [status |-> "FAILED", txn |-> r])

\* idem_set_final, inside the transaction: the response, then the lock key.
SetFinal(r) ==
  /\ pc[r] = "set_final"
  /\ PutDecided(r)
  /\ Goto(r, "del_lock")
  /\ UNCHANGED <<tables, work, req, acct, bal, answer, pools, faults>>

DelLock(r) ==
  /\ pc[r] = "del_lock"
  /\ DelLockKey(slot(r))
  /\ Goto(r, "commit")
  /\ UNCHANGED <<tables, work, req, acct, bal, answer, pools, faults>>

\* COMMIT as the block exits, and the response.
Commit(r) ==
  /\ pc[r] = "commit"
  /\ LET st == work[r].txn.status IN Reply(r, IF st = "POSTED" THEN 200 ELSE 402, st, r)
  /\ Publish(r)
  /\ UNCHANGED <<store, req, acct, bal, pool, faults>>

\* `except Exception`: idem_set_final of FAILED, then 500.
FailSet(r) ==
  /\ pc[r] = "fail_set"
  /\ PutFailed(r)
  /\ Goto(r, "fail_del")
  /\ UNCHANGED <<tables, work, req, acct, bal, answer, pools, faults>>

\* Mutant of FailDel: only the success path deletes the lock key.
FailDelKeepsLock(r) ==
  /\ pc[r] = "fail_del"
  /\ Reply(r, 500, "FAILED", r)
  /\ UNCHANGED <<tables, work, store, req, acct, bal, pool, faults>>

FailDel(r) ==
  /\ pc[r] = "fail_del"
  /\ DelLockKey(slot(r))
  /\ Reply(r, 500, "FAILED", r)
  /\ UNCHANGED <<tables, work, req, acct, bal, pool, faults>>

-----------------------------------------------------------------------------
(* The waits-for graph of the handlers' statements.                        *)

WaitsFor(r) ==
  CASE pc[r] = "insert_txn"   -> KeyWaits(r, req[r].user, req[r].key)
    [] pc[r] = "fk_account"   -> ShareWaits(r, acct[r])
    [] pc[r] = "lock_account" -> ExclWaits(r, acct[r])
    [] pc[r] \in {"ensure_snap", "heal_snap"} -> SnapInsertWaits(r, acct[r])
    [] pc[r] = "lock_snap"    -> SnapWaits(r, acct[r])
    [] pc[r] = "insert_ledger" -> ShareWaits(r, Merchant)
    [] OTHER -> {}

Waiting == [r \in Requests |-> WaitsFor(r)]

DeadlockAbort(r) == OnCycle(r, Requests, Waiting) /\ Raise(r)

-----------------------------------------------------------------------------
(* Faults of the environment.                                              *)

Fault(kind) == kind \in Faults /\ faults < MaxFaults /\ faults' = faults + 1

\* What the Redis command at pc[r] does when it reaches the server.
RedisWrite(r) ==
  \/ pc[r] = "heal_final" /\ DelFinal(slot(r))
  \/ pc[r] = "try_lock" /\ LockFree(slot(r)) /\ TakeLock(slot(r))
  \/ pc[r] = "set_final" /\ PutDecided(r)
  \/ pc[r] = "fail_set" /\ PutFailed(r)
  \/ pc[r] \in {"del_lock", "fail_del"} /\ DelLockKey(slot(r))

\* The connection to Redis fails, before or after the command took effect.
\* Before the try block the exception leaves the handler (500); in it the
\* transaction is rolled back; in the except block it is swallowed.
RedisFails(r) ==
  /\ Fault("redis")
  /\ UNCHANGED store \/ RedisWrite(r)
  /\ \/ /\ pc[r] \in {"get_final", "heal_final", "try_lock"}
        /\ Reply(r, 500, "ERROR", NULL)
        /\ UNCHANGED <<tables, work, req, acct, bal, pool>>
     \/ pc[r] \in {"set_final", "del_lock"} /\ Abort(r)
     \/ /\ pc[r] \in AfterTxn
        /\ Reply(r, 500, "FAILED", r)
        /\ UNCHANGED <<tables, work, req, acct, bal, pool>>

\* A statement, the acquire or the COMMIT fails without effect.
DbFails(r) ==
  /\ Fault("db")
  /\ pc[r] \in ({"begin"} \cup InTxn) \ {"set_final", "del_lock"}
  /\ Abort(r)
  /\ UNCHANGED store

\* Mutant of CreateFails: whoever fails to create the pool clears it.
CreateFailsClears(r) ==
  /\ "db" \in Faults
  /\ pc[r] = "create_pool"
  /\ Reply(r, 500, "ERROR", NULL)
  /\ pool' = NULL
  /\ UNCHANGED <<tables, work, store, req, acct, bal, faults>>

\* create_pool cannot connect: 500, and the next request without a pool tries
\* again.  Not counted: a request does so once at most.
CreateFails(r) ==
  /\ "db" \in Faults
  /\ pc[r] = "create_pool"
  /\ Reply(r, 500, "ERROR", NULL)
  /\ UNCHANGED <<tables, work, store, req, acct, bal, pool, faults>>

\* COMMIT takes effect and its acknowledgement is lost.
CommitLost(r) ==
  /\ Fault("commit_lost")
  /\ pc[r] = "commit"
  /\ Publish(r)
  /\ Goto(r, "fail_set")
  /\ UNCHANGED <<store, req, acct, bal, answer, pools>>

\* The service stops and restarts: PostgreSQL rolls its sessions back, Redis
\* keeps what it has.
Crash ==
  /\ Fault("crash")
  /\ \E r \in Requests : pc[r] \in Live
  /\ pc' = [r \in Requests |-> IF pc[r] \in Live THEN "dead" ELSE pc[r]]
  /\ work' = [s \in Sessions |-> IF s \in Requests THEN NoWork ELSE work[s]]
  /\ pool' = NULL
  /\ mine' = [r \in Requests |-> NULL]
  /\ UNCHANGED <<tables, store, req, acct, bal, answer>>

\* EX IDEM_TTL_SECONDS runs out.  Not counted: every expiry needs a new write.
ExpireLock(k) ==
  /\ "expire_lock" \in Faults
  /\ lock[k]
  /\ DelLockKey(k)
  /\ UNCHANGED <<tables, work, locals, faults>>

ExpireFinal(k) ==
  /\ "expire_final" \in Faults
  /\ final[k] # NULL
  /\ DelFinal(k)
  /\ UNCHANGED <<tables, work, locals, faults>>

CorruptFinal(k) ==
  /\ Fault("corrupt_final")
  /\ final[k] \notin {NULL, Corrupt}
  /\ PutFinal(k, Corrupt)
  /\ UNCHANGED <<tables, work, locals>>

\* An operator's DELETE of a snapshot row no transaction has locked.
DropSnapshot(a) ==
  /\ Fault("drop_snapshot")
  /\ snapshots[a] # NULL
  /\ \A s \in Sessions : a \notin work[s].snaplock
  /\ snapshots' = [snapshots EXCEPT ![a] = NULL]
  /\ UNCHANGED <<status, transactions, ledger_entries, work, store, locals>>

\* A snapshot goes wrong (C7.2.5: "If snapshot is corrupted").
CorruptSnapshot(a) ==
  /\ Fault("corrupt_snapshot")
  /\ snapshots[a] # NULL
  /\ \A s \in Sessions : a \notin work[s].snaplock
  /\ snapshots' = [snapshots EXCEPT ![a] = @ + 1]
  /\ UNCHANGED <<status, transactions, ledger_entries, work, store, locals>>

\* An operator suspends, closes or reactivates an account; the UPDATE waits for
\* FOR UPDATE, not for FOR KEY SHARE.
SetStatus(a) ==
  /\ Fault("set_status")
  /\ \A s \in Sessions : a \notin work[s].excl
  /\ \E st \in Statuses \ {status[a]} : status' = [status EXCEPT ![a] = st]
  /\ UNCHANGED <<transactions, ledger_entries, snapshots, work, store, locals>>

-----------------------------------------------------------------------------
Step(r) ==
  \/ CreatePool(r)
  \/ GetFinal(r) \/ HealFinal(r) \/ TryLock(r) \/ Begin(r) \/ FindAccount(r)
  \/ InsertTxn(r) \/ FkAccount(r) \/ LockAccount(r) \/ EnsureSnap(r) \/ LockSnap(r)
  \/ HealSnap(r) \/ InsertLedger(r) \/ UpdateSnap(r) \/ Mark(r) \/ SetFinal(r)
  \/ DelLock(r) \/ Commit(r) \/ FailSet(r) \/ FailDel(r) \/ DeadlockAbort(r)

RequestNext(r) ==
  \/ Unauthorized(r) \/ Receive(r) \/ Step(r)
  \/ RedisFails(r) \/ DbFails(r) \/ CreateFails(r) \/ CommitLost(r)

Environment ==
  \/ Crash
  \/ \E k \in Slots : ExpireLock(k) \/ ExpireFinal(k) \/ CorruptFinal(k)
  \/ \E a \in Accounts : DropSnapshot(a) \/ CorruptSnapshot(a) \/ SetStatus(a)

Next == (\E r \in Requests : RequestNext(r)) \/ Environment

Spec == Init /\ [][Next]_vars

\* The event loop and the database run every request that can run.
Fairness == \A r \in Requests : WF_vars(Step(r))

FairSpec == Spec /\ Fairness

=============================================================================
