--------------------------- MODULE EdgeIdempotency ---------------------------
(***************************************************************************)
(* IdempotencyMiddleware of the edge: one response is stored per method,   *)
(* path and Idempotency-Key and replayed to later requests, and a short    *)
(* lock is to keep two of them from running downstream together.  It       *)
(* expires after 30 s whether or not its holder has ended: the holder's    *)
(* awaits have no such bound (Redis without a timeout, httpx with one per  *)
(* phase and chunk), and its DEL does not ask whose lock it deletes.       *)
(* main.py adds the middleware after the authentication, so it runs before *)
(* it: user_id is never set when it builds its keys, and every caller is   *)
(* "anon".  What call_next leads to is one step here; EdgePipeline opens   *)
(* it up.                                                                  *)
(***************************************************************************)
EXTENDS Naturals, FiniteSets

CONSTANTS
  Requests,    \* requests to the edge
  Protected,   \* those that are POSTs to a protected path
  Keys,        \* Idempotency-Key values; one stands for its resp_key and lock_key
  Bodies,      \* request bodies, by their SHA-256
  NULL,
  MaxFaults    \* bound on Redis errors, crashes, corrupted and expired entries

ASSUME EdgeAssumption == Protected \subseteq Requests /\ MaxFaults \in Nat

VARIABLES
  at,         \* where dispatch() stands
  call,       \* the request: its key and body
  resp,       \* resp_key: NULL, Corrupt, or whose response, to which body
  lock,       \* lock_key, EX 30
  outcome,    \* the response dispatch() holds, or "none"
  answer,     \* what the client got and whose response it is, NULL before
  effects,    \* downstream calls that had their effect
  faults,
  overran     \* history, for the invariants: how often the lock expired under a holder

vars == <<at, call, resp, lock, outcome, answer, effects, faults, overran>>

Outcomes == {"2xx", "other", "raised"}

Corrupt == [from |-> NULL, body |-> NULL]

Places == {"idle", "get", "try_lock", "call_next", "store", "unlock", "done", "dead"}
Busy == Places \ {"idle", "done", "dead"}
Working == {"call_next", "store", "unlock"}

Init ==
  /\ at = [r \in Requests |-> "idle"]
  /\ call = [r \in Requests |-> NULL]
  /\ resp = [k \in Keys |-> NULL]
  /\ lock = [k \in Keys |-> FALSE]
  /\ outcome = [r \in Requests |-> "none"]
  /\ answer = [r \in Requests |-> NULL]
  /\ effects = {}
  /\ faults = 0
  /\ overran = [k \in Keys |-> 0]

key(r) == call[r].key

Goto(r, place) == at' = [at EXCEPT ![r] = place]

Reply(r, o, from) ==
  /\ Goto(r, "done")
  /\ answer' = [answer EXCEPT ![r] = [outcome |-> o, from |-> from]]

\* With a key; without one the middleware answers 400 and touches nothing.
Receive(r) ==
  /\ at[r] = "idle" /\ r \in Protected
  /\ \E k \in Keys, b \in Bodies : call' = [call EXCEPT ![r] = [key |-> k, body |-> b]]
  /\ Goto(r, "get")
  /\ UNCHANGED <<resp, lock, outcome, answer, effects, faults, overran>>

\* Another method or path: straight to call_next.
PassBy(r) ==
  /\ at[r] = "idle" /\ r \notin Protected
  /\ Goto(r, "call_next")
  /\ UNCHANGED <<call, resp, lock, outcome, answer, effects, faults, overran>>

\* Mutant of SameBody: req_hash is not compared.
SameBodyAlways(r) == TRUE

SameBody(r) == resp[key(r)].body = call[r].body

Get(r) ==
  /\ at[r] = "get"
  /\ \/ resp[key(r)] = NULL /\ Goto(r, "try_lock") /\ UNCHANGED answer
     \/ resp[key(r)] = Corrupt /\ Reply(r, "other", NULL)
     \/ /\ resp[key(r)] \notin {NULL, Corrupt}
        /\ IF SameBody(r) THEN Reply(r, "2xx", resp[key(r)].from) ELSE Reply(r, "other", NULL)
  /\ UNCHANGED <<call, resp, lock, outcome, effects, faults, overran>>

\* Mutant of LockFree: SET without NX.
LockFreeNoNX(k) == TRUE

LockFree(k) == ~lock[k]

TryLock(r) ==
  /\ at[r] = "try_lock"
  /\ \/ /\ LockFree(key(r))
        /\ lock' = [lock EXCEPT ![key(r)] = TRUE]
        /\ Goto(r, "call_next")
        /\ UNCHANGED answer
     \/ /\ ~LockFree(key(r))
        /\ Reply(r, "other", NULL)
        /\ UNCHANGED lock
  /\ UNCHANGED <<call, resp, outcome, effects, faults, overran>>

\* How the response of call_next, or its exception, is received.
Receives(r, o) ==
  /\ outcome' = [outcome EXCEPT ![r] = o]
  /\ IF r \notin Protected THEN Reply(r, o, r)
     ELSE /\ Goto(r, IF o = "2xx" THEN "store" ELSE "unlock")
          /\ UNCHANGED answer
  /\ UNCHANGED <<call, resp, lock, overran>>

\* call_next: authentication, rate limit, the route and the service.  It may
\* have its effect and fail all the same, or be refused on the way.
CallNext(r) ==
  /\ at[r] = "call_next"
  /\ \/ /\ effects' = effects \cup {r}
        /\ \E o \in Outcomes : Receives(r, o)
     \/ /\ \E o \in Outcomes \ {"2xx"} : Receives(r, o)
        /\ UNCHANGED effects
  /\ UNCHANGED faults

Store(r) ==
  /\ at[r] = "store"
  /\ resp' = [resp EXCEPT ![key(r)] = [from |-> r, body |-> call[r].body]]
  /\ Goto(r, "unlock")
  /\ UNCHANGED <<call, lock, outcome, answer, effects, faults, overran>>

\* Mutant of Unlock: no finally, so that an exception leaves the lock.
UnlockUnlessRaised(r) ==
  /\ at[r] = "unlock"
  /\ lock' = IF outcome[r] = "raised" THEN lock ELSE [lock EXCEPT ![key(r)] = FALSE]
  /\ Reply(r, outcome[r], r)
  /\ UNCHANGED <<call, resp, outcome, effects, faults, overran>>

\* finally: DEL lock_key, then the response or the exception goes out.
Unlock(r) ==
  /\ at[r] = "unlock"
  /\ lock' = [lock EXCEPT ![key(r)] = FALSE]
  /\ Reply(r, outcome[r], r)
  /\ UNCHANGED <<call, resp, outcome, effects, faults, overran>>

-----------------------------------------------------------------------------
Fault == faults < MaxFaults /\ faults' = faults + 1

\* What the Redis command at at[r] does when it reaches the server.
RedisWrite(r) ==
  \/ /\ at[r] = "try_lock" /\ LockFree(key(r))
     /\ lock' = [lock EXCEPT ![key(r)] = TRUE]
     /\ UNCHANGED resp
  \/ /\ at[r] = "store"
     /\ resp' = [resp EXCEPT ![key(r)] = [from |-> r, body |-> call[r].body]]
     /\ UNCHANGED lock
  \/ /\ at[r] = "unlock"
     /\ lock' = [lock EXCEPT ![key(r)] = FALSE]
     /\ UNCHANGED resp

\* The connection to Redis fails, before or after the command took effect: before
\* the try the error leaves dispatch(); at the SET of the response it becomes the
\* outcome; at the DEL it is swallowed.
RedisFails(r) ==
  /\ Fault
  /\ UNCHANGED <<resp, lock>> \/ RedisWrite(r)
  /\ \/ /\ at[r] \in {"get", "try_lock"}
        /\ Reply(r, "raised", NULL)
        /\ UNCHANGED outcome
     \/ /\ at[r] = "store"
        /\ Goto(r, "unlock")
        /\ outcome' = [outcome EXCEPT ![r] = "raised"]
        /\ UNCHANGED answer
     \/ /\ at[r] = "unlock"
        /\ Reply(r, outcome[r], r)
        /\ UNCHANGED outcome
  /\ UNCHANGED <<call, effects, overran>>

Crash ==
  /\ Fault
  /\ \E r \in Requests : at[r] \in Busy
  /\ at' = [r \in Requests |-> IF at[r] \in Busy THEN "dead" ELSE at[r]]
  /\ UNCHANGED <<call, resp, lock, outcome, answer, effects, overran>>

CorruptEntry(k) ==
  /\ Fault
  /\ resp[k] \notin {NULL, Corrupt}
  /\ resp' = [resp EXCEPT ![k] = Corrupt]
  /\ UNCHANGED <<at, call, lock, outcome, answer, effects, overran>>

\* The requests between SET NX and DEL of a key.
AtWork(k) == {r \in Protected : at[r] \in Working /\ key(r) = k}

\* EX 30: however far the request has come that set it.
ExpireLock(k) ==
  /\ lock[k]
  /\ lock' = [lock EXCEPT ![k] = FALSE]
  /\ overran' = IF AtWork(k) = {} THEN overran ELSE [overran EXCEPT ![k] = @ + 1]
  /\ UNCHANGED <<at, call, resp, outcome, answer, effects, faults>>

\* EX IDEM_TTL_SECONDS; counted with the faults.
ExpireResp(k) ==
  /\ Fault
  /\ resp[k] # NULL
  /\ resp' = [resp EXCEPT ![k] = NULL]
  /\ UNCHANGED <<at, call, lock, outcome, answer, effects, overran>>

Step(r) == Get(r) \/ TryLock(r) \/ CallNext(r) \/ Store(r) \/ Unlock(r)

Next ==
  \/ \E r \in Requests : Receive(r) \/ PassBy(r) \/ Step(r) \/ RedisFails(r)
  \/ \E k \in Keys : CorruptEntry(k) \/ ExpireLock(k) \/ ExpireResp(k)
  \/ Crash

Spec == Init /\ [][Next]_vars

-----------------------------------------------------------------------------
\* Of the requests at work on a key all but one, the lock's, are owed to an expiry under
\* a holder: each such expiry admits one more and no further ones, although the late
\* holder's DEL then deletes a lock that another has set.  At work is between SET NX and
\* DEL: a service may still be busy with a call that the edge has given up.
ExpiryAdmitsOne ==
  \A k \in Keys : Cardinality(AtWork(k)) <= overran[k] + (IF lock[k] THEN 1 ELSE 0)

\* Whoever is answered with a response of success sent the same body under the
\* same key as the request that produced it, and that one did take effect downstream.
ReplayIsFaithful ==
  \A r \in Requests :
    answer[r] # NULL /\ answer[r].outcome = "2xx" =>
      /\ answer[r].from \in effects
      /\ call[answer[r].from] = call[r]

\* Without faults a locked key has a request at work, which will unlock it, also when
\* downstream raises and when others' DELs have come between: no key needs its expiry.
NoLockLeftBehind ==
  faults = 0 => \A k \in Keys : lock[k] => AtWork(k) # {}
=============================================================================
