-------------------------- MODULE IdempotencyStore --------------------------
(***************************************************************************)
(* The Redis side of the transaction service (app/services/idempotency.py).*)
(* Per user and idempotency key there is a lock, whose value is the        *)
(* constant "LOCKED" and so names no owner, and a final response.  Both    *)
(* are written with EX IDEM_TTL_SECONDS and may expire at any later time.  *)
(* Each operator below is one Redis command; the Python functions are      *)
(* sequences of them, with an await between any two.                       *)
(***************************************************************************)
EXTENDS Domain

VARIABLES
  final,  \* txn:final:{user}:{key}: NULL, Corrupt, or a response
  lock    \* txn:lock:{user}:{key}: is it set

store == <<final, lock>>

Slots == Users \X Keys

\* A stored value that is blank or not JSON.
Corrupt == [status |-> "corrupt", txn |-> NULL]

Responses == [status : {"POSTED", "DECLINED", "FAILED"}, txn : Sessions]

\* An absent value is no response.
ASSUME StoreAssumption == NULL \notin Responses

StoreInit ==
  /\ final = [k \in Slots |-> NULL]
  /\ lock = [k \in Slots |-> FALSE]

-----------------------------------------------------------------------------
Cached(k) == final[k] \in Responses

PutFinal(k, value) == final' = [final EXCEPT ![k] = value] /\ UNCHANGED lock

DelFinal(k) == PutFinal(k, NULL)

\* Mutant of LockFree: SET without NX.
LockFreeNoNX(k) == TRUE

\* SET key LOCKED NX EX: on FALSE nothing is written.
LockFree(k) == ~lock[k]

TakeLock(k) == lock' = [lock EXCEPT ![k] = TRUE] /\ UNCHANGED final

\* DEL of the lock key, whoever set it.
DelLockKey(k) == lock' = [lock EXCEPT ![k] = FALSE] /\ UNCHANGED final

=============================================================================
