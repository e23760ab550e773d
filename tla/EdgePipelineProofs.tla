------------------------- MODULE EdgePipelineProofs -------------------------
(***************************************************************************)
(* The edge's idempotency middleware and the chain behind it, for any      *)
(* number of requests, keys, bodies, callers, limits, windows and faults.  *)
(* First the middleware with call_next as one step: how many work on a key *)
(* at once although its lock may expire at any time, that no lock is left  *)
(* behind, and faithful replay.  Then the chain: it implements that one    *)
(* step, so that these theorems hold of the edge; and no caller passes     *)
(* more often than its limit.                                              *)
(***************************************************************************)
EXTENDS EdgePipeline, FiniteSetTheorems, TLAPS

Call == [key : Keys, body : Bodies]
Stored == [from : Requests \cup {NULL}, body : Bodies \cup {NULL}]
Answers == [outcome : Outcomes, from : Requests \cup {NULL}]

Types ==
  /\ at \in [Requests -> Places]
  /\ call \in [Requests -> Call \cup {NULL}]
  /\ resp \in [Keys -> Stored \cup {NULL}]
  /\ lock \in [Keys -> BOOLEAN]
  /\ outcome \in [Requests -> Outcomes \cup {"none"}]
  /\ answer \in [Requests -> Answers \cup {NULL}]
  /\ effects \subseteq Requests
  /\ faults \in Nat
  /\ overran \in [Keys -> Nat]

\* Who stands behind the test for the key has one, and is protected; who stores or
\* unlocks has the outcome of call_next.
KeyedInv ==
  /\ \A r \in Requests : at[r] \in {"get", "try_lock", "store", "unlock"} => r \in Protected
  /\ \A r \in Protected : at[r] \in Busy => call[r] \in Call
  /\ \A r \in Requests : at[r] = "store" => outcome[r] = "2xx"
  /\ \A r \in Requests : at[r] = "unlock" => outcome[r] \in Outcomes

TypeInv == Types /\ KeyedInv

-----------------------------------------------------------------------------
(* Types.                                                                  *)

LEMMA ReplyTypes ==
  ASSUME Types, NEW r \in Requests, NEW o \in Outcomes, NEW from \in Requests \cup {NULL},
         Reply(r, o, from)
  PROVE  at' \in [Requests -> Places] /\ answer' \in [Requests -> Answers \cup {NULL}]
BY DEF Types, Reply, Goto, Places, Answers

\* A request that is answered leaves the others where they are.
LEMMA ReplyKeyed ==
  ASSUME Types, KeyedInv, NEW r \in Requests, NEW o, NEW from, Reply(r, o, from), UNCHANGED call,
         \A q \in Requests \ {r} : outcome'[q] = outcome[q]
  PROVE  KeyedInv'
BY DEF Types, KeyedInv, Reply, Goto, Busy, Places

LEMMA TypeStep ==
  ASSUME TypeInv, [Next]_vars
  PROVE  TypeInv'
<1> USE DEF TypeInv
<1>1. ASSUME NEW r \in Requests, Receive(r) PROVE TypeInv'
  <2>1. PICK k \in Keys, b \in Bodies : call' = [call EXCEPT ![r] = [key |-> k, body |-> b]]
    BY <1>1 DEF Receive
  <2> QED BY <1>1, <2>1 DEF Receive, Types, KeyedInv, Goto, Places, Busy, Call
<1>2. ASSUME NEW r \in Requests, PassBy(r) PROVE TypeInv'
  BY <1>2, EdgeAssumption DEF PassBy, Types, KeyedInv, Goto, Places, Busy
<1>3. ASSUME NEW r \in Requests, Get(r) PROVE TypeInv'
  <2>1. r \in Protected /\ key(r) \in Keys /\ UNCHANGED <<call, resp, lock, outcome, effects, faults, overran>>
    BY <1>3 DEF Get, KeyedInv, Busy, Places, Call, key
  <2>2. CASE Goto(r, "try_lock") /\ UNCHANGED answer
    BY <2>1, <2>2, <1>3 DEF Get, Types, KeyedInv, Goto, Places, Busy
  <2>3. CASE \E o \in {"2xx", "other"}, from \in Requests \cup {NULL} : Reply(r, o, from)
    BY <2>1, <2>3, ReplyTypes, ReplyKeyed DEF Types, Outcomes
  <2>4. CASE resp[key(r)] \notin {NULL, Corrupt} /\ Reply(r, "2xx", resp[key(r)].from)
    <3>1. resp[key(r)].from \in Requests \cup {NULL}
      BY <2>1, <2>4 DEF Types, Stored
    <3> QED BY <2>3, <2>4, <3>1
  <2> QED BY <1>3, <2>2, <2>3, <2>4 DEF Get
<1>4. ASSUME NEW r \in Requests, TryLock(r) PROVE TypeInv'
  <2>1. r \in Protected /\ key(r) \in Keys /\ UNCHANGED <<call, resp, outcome, effects, faults, overran>>
    BY <1>4 DEF TryLock, KeyedInv, Busy, Places, Call, key
  <2>2. CASE lock' = [lock EXCEPT ![key(r)] = TRUE] /\ Goto(r, "call_next") /\ UNCHANGED answer
    BY <2>1, <2>2, <1>4 DEF TryLock, Types, KeyedInv, Goto, Places, Busy
  <2>3. CASE Reply(r, "other", NULL) /\ UNCHANGED lock
    BY <2>1, <2>3, ReplyTypes, ReplyKeyed DEF Types, Outcomes
  <2> QED BY <1>4, <2>2, <2>3 DEF TryLock
<1>5. ASSUME NEW r \in Requests, CallNext(r) PROVE TypeInv'
  <2>1. PICK o \in Outcomes : Receives(r, o)
    BY <1>5 DEF CallNext
  <2>2. effects' \subseteq Requests /\ UNCHANGED <<call, resp, lock, faults, overran>>
    BY <1>5, <2>1 DEF CallNext, Receives, Types
  <2>3. /\ outcome' \in [Requests -> Outcomes \cup {"none"}] /\ outcome'[r] = o
        /\ \A q \in Requests \ {r} : outcome'[q] = outcome[q]
    BY <2>1 DEF Receives, Types
  <2>4. CASE Reply(r, o, r)
    BY <2>2, <2>3, <2>4, ReplyTypes, ReplyKeyed DEF Types
  <2>5. CASE r \in Protected /\ Goto(r, IF o = "2xx" THEN "store" ELSE "unlock") /\ UNCHANGED answer
    BY <1>5, <2>2, <2>3, <2>5 DEF CallNext, Types, KeyedInv, Goto, Places, Busy
  <2> QED BY <2>1, <2>4, <2>5 DEF Receives
<1>6. ASSUME NEW r \in Requests, Store(r) PROVE TypeInv'
  <2>1. r \in Protected /\ key(r) \in Keys /\ call[r].body \in Bodies
    BY <1>6 DEF Store, KeyedInv, Busy, Places, Call, key
  <2> QED BY <1>6, <2>1 DEF Store, Types, KeyedInv, Goto, Places, Busy, Stored
<1>7. ASSUME NEW r \in Requests, Unlock(r) PROVE TypeInv'
  <2>1. key(r) \in Keys /\ outcome[r] \in Outcomes
    BY <1>7 DEF Unlock, KeyedInv, Busy, Places, Call, key
  <2> QED BY <1>7, <2>1, ReplyTypes, ReplyKeyed DEF Unlock, Types
<1>8. ASSUME NEW r \in Requests, RedisFails(r) PROVE TypeInv'
  <2>1. key(r) \in Keys /\ call[r].body \in Bodies /\ r \in Protected
    BY <1>8 DEF RedisFails, KeyedInv, Busy, Places, Call, key
  <2>2. resp' \in [Keys -> Stored \cup {NULL}] /\ lock' \in [Keys -> BOOLEAN]
    <3>1. CASE UNCHANGED <<resp, lock>>
      BY <3>1 DEF Types
    <3>2. CASE RedisWrite(r)
      <4>1. resp' = resp \/ resp' = [resp EXCEPT ![key(r)] = [from |-> r, body |-> call[r].body]]
        BY <3>2 DEF RedisWrite
      <4>2. lock' = lock \/ \E b \in BOOLEAN : lock' = [lock EXCEPT ![key(r)] = b]
        BY <3>2 DEF RedisWrite
      <4>3. resp' \in [Keys -> Stored \cup {NULL}]
        BY <2>1, <4>1 DEF Types, Stored
      <4>4. lock' \in [Keys -> BOOLEAN]
        BY <4>2 DEF Types
      <4> QED BY <4>3, <4>4
    <3> QED BY <1>8, <3>1, <3>2 DEF RedisFails
  <2>3. UNCHANGED <<call, effects, overran>> /\ faults' \in Nat
    BY <1>8 DEF RedisFails, Fault, Types
  <2>4. CASE Reply(r, "raised", NULL) /\ UNCHANGED outcome
    BY <2>2, <2>3, <2>4, ReplyTypes, ReplyKeyed DEF Types, Outcomes
  <2>5. CASE Goto(r, "unlock") /\ outcome' = [outcome EXCEPT ![r] = "raised"] /\ UNCHANGED answer
    BY <1>8, <2>1, <2>2, <2>3, <2>5 DEF RedisFails, Types, KeyedInv, Goto, Places, Busy, Outcomes
  <2>6. CASE at[r] = "unlock" /\ Reply(r, outcome[r], r) /\ UNCHANGED outcome
    BY <2>2, <2>3, <2>6, ReplyTypes, ReplyKeyed DEF Types, KeyedInv
  <2> QED BY <1>8, <2>4, <2>5, <2>6 DEF RedisFails
<1>9. ASSUME NEW k \in Keys, CorruptEntry(k) \/ ExpireLock(k) \/ ExpireResp(k) PROVE TypeInv'
  <2>1. CASE CorruptEntry(k)
    BY <2>1 DEF CorruptEntry, Fault, Types, KeyedInv, Corrupt, Stored
  <2>2. CASE ExpireLock(k)
    BY <2>2 DEF ExpireLock, Types, KeyedInv
  <2>3. CASE ExpireResp(k)
    BY <2>3 DEF ExpireResp, Fault, Types, KeyedInv
  <2> QED BY <1>9, <2>1, <2>2, <2>3
<1>10. CASE Crash
  <2>1. at' \in [Requests -> Places] /\ \A r \in Requests : at'[r] \notin Busy
    BY <1>10 DEF Crash, Types, Places, Busy
  <2>2. KeyedInv'
    BY <2>1, EdgeAssumption DEF KeyedInv, Busy, Places
  <2> QED BY <1>10, <2>1, <2>2 DEF Crash, Fault, Types
<1>11. CASE UNCHANGED vars
  BY <1>11 DEF vars, Types, KeyedInv
<1> QED BY <1>1, <1>2, <1>3, <1>4, <1>5, <1>6, <1>7, <1>8, <1>9, <1>10, <1>11 DEF Next, Step

LEMMA TypeInit ==
  ASSUME Init
  PROVE  TypeInv
<1>1. at \in [Requests -> Places] /\ \A r \in Requests : at[r] \notin Busy
  BY DEF Init, Places, Busy
<1>2. KeyedInv
  BY <1>1, EdgeAssumption DEF KeyedInv, Busy, Places
<1> QED BY <1>1, <1>2 DEF Init, TypeInv, Types

\* The variables keep their types, and dispatch() has what its next step reads.
THEOREM DispatchTypes == Spec => []TypeInv
BY TypeInit, TypeStep, PTL DEF Spec

-----------------------------------------------------------------------------
(* The lock of a key, and who works on the key.                            *)

\* Finitely many work on a key, one for its lock and one more for each expiry under a
\* holder; without faults, a locked key has a request at work.
LockOf(k) ==
  /\ IsFiniteSet(AtWork(k))
  /\ Cardinality(AtWork(k)) <= overran[k] + (IF lock[k] THEN 1 ELSE 0)
  /\ faults = 0 /\ lock[k] => AtWork(k) # {}

LockInv == \A k \in Keys : LockOf(k)

\* What a step may do to a key while nothing expires: nothing, or set a lock whose
\* acknowledgement is lost; set a free lock and begin to work; cease to work, as its lock
\* is deleted or the DEL fails; or the process stops.
LEMMA WorkChanges ==
  ASSUME TypeInv, NEW k \in Keys, LockOf(k), faults' \in {faults, faults + 1},
         overran'[k] = overran[k],
         \/ AtWork(k)' = AtWork(k) /\ (lock'[k] = lock[k] \/ (lock'[k] /\ faults' # faults))
         \/ ~lock[k] /\ lock'[k] /\ \E r \in Requests : AtWork(k)' = AtWork(k) \cup {r}
         \/ /\ \E r \in AtWork(k) : AtWork(k)' = AtWork(k) \ {r}
            /\ ~lock'[k] \/ (lock'[k] = lock[k] /\ faults' # faults)
         \/ AtWork(k)' = {} /\ lock'[k] = lock[k] /\ faults' # faults
  PROVE  LockOf(k)'
<1>1. /\ overran[k] \in Nat /\ lock[k] \in BOOLEAN /\ faults \in Nat
      /\ Cardinality(AtWork(k)) \in Nat
  BY FS_CardinalityType DEF TypeInv, Types, LockOf
<1>2. faults' = 0 => faults = 0 /\ faults' = faults
  BY <1>1
<1>3. CASE AtWork(k)' = AtWork(k) /\ (lock'[k] = lock[k] \/ (lock'[k] /\ faults' # faults))
  BY <1>1, <1>2, <1>3 DEF LockOf
<1>4. CASE ~lock[k] /\ lock'[k] /\ \E r \in Requests : AtWork(k)' = AtWork(k) \cup {r}
  <2>1. PICK r \in Requests : AtWork(k)' = AtWork(k) \cup {r}
    BY <1>4
  <2>2. /\ IsFiniteSet(AtWork(k) \cup {r})
        /\ Cardinality(AtWork(k) \cup {r}) \in {Cardinality(AtWork(k)), Cardinality(AtWork(k)) + 1}
    BY FS_AddElement DEF LockOf
  <2>3. Cardinality(AtWork(k)) <= overran[k]
    BY <1>1, <1>4 DEF LockOf
  <2> QED BY <1>1, <1>4, <2>1, <2>2, <2>3 DEF LockOf
<1>5. CASE /\ \E r \in AtWork(k) : AtWork(k)' = AtWork(k) \ {r}
           /\ ~lock'[k] \/ (lock'[k] = lock[k] /\ faults' # faults)
  <2>1. PICK r \in AtWork(k) : AtWork(k)' = AtWork(k) \ {r}
    BY <1>5
  <2>2. IsFiniteSet(AtWork(k) \ {r}) /\ Cardinality(AtWork(k) \ {r}) = Cardinality(AtWork(k)) - 1
    BY FS_RemoveElement DEF LockOf
  <2>3. Cardinality(AtWork(k)) - 1 <= overran[k]
    BY <1>1 DEF LockOf
  <2>4. faults' = 0 => ~lock'[k]
    BY <1>2, <1>5
  <2>5. Cardinality(AtWork(k)') <= overran'[k] + (IF lock'[k] THEN 1 ELSE 0)
    BY <1>1, <2>1, <2>2, <2>3
  <2> QED BY <2>1, <2>2, <2>4, <2>5 DEF LockOf
<1>6. CASE AtWork(k)' = {} /\ lock'[k] = lock[k] /\ faults' # faults
  BY <1>1, <1>2, <1>6, FS_EmptySet DEF LockOf
<1> QED BY <1>3, <1>4, <1>5, <1>6

\* The step of a request that does not begin or cease to work, and leaves the locks alone.
LEMMA SameWork ==
  ASSUME TypeInv, LockInv, NEW r \in Requests, UNCHANGED <<lock, overran>>,
         faults' \in {faults, faults + 1},
         \A q \in Requests \ {r} : at'[q] = at[q] /\ call'[q] = call[q],
         at'[r] \in Working <=> at[r] \in Working,
         at[r] \in Working => call'[r] = call[r]
  PROVE  LockInv'
<1> SUFFICES ASSUME NEW k \in Keys PROVE LockOf(k)'
  BY DEF LockInv
<1>1. AtWork(k)' = AtWork(k)
  BY EdgeAssumption DEF AtWork, key
<1> QED BY <1>1, WorkChanges DEF LockInv

\* A request at work goes through finally, whether or not its DEL takes effect.
LEMMA EndOfWork ==
  ASSUME TypeInv, LockInv, NEW r \in Requests, at[r] = "unlock", UNCHANGED <<call, overran>>,
         at' = [at EXCEPT ![r] = "done"], faults' \in {faults, faults + 1},
         lock' = [lock EXCEPT ![key(r)] = FALSE] \/ (lock' = lock /\ faults' # faults)
  PROVE  LockInv'
<1>1. r \in Protected /\ key(r) \in Keys
  BY DEF TypeInv, KeyedInv, Busy, Places, Call, key
<1> SUFFICES ASSUME NEW k \in Keys PROVE LockOf(k)'
  BY DEF LockInv
<1>2. CASE k = key(r)
  <2>1. r \in AtWork(k) /\ AtWork(k)' = AtWork(k) \ {r}
    BY <1>1, <1>2, EdgeAssumption DEF AtWork, Working, key, TypeInv, Types
  <2>2. ~lock'[k] \/ (lock'[k] = lock[k] /\ faults' # faults)
    BY <1>2 DEF TypeInv, Types
  <2> QED BY <2>1, <2>2, WorkChanges DEF LockInv
<1>3. CASE k # key(r)
  <2>1. AtWork(k)' = AtWork(k) /\ lock'[k] = lock[k]
    BY <1>1, <1>3, EdgeAssumption DEF AtWork, Working, key, TypeInv, Types
  <2> QED BY <2>1, WorkChanges DEF LockInv
<1> QED BY <1>2, <1>3

LEMMA LockStep ==
  ASSUME TypeInv, LockInv, [Next]_vars
  PROVE  LockInv'
<1>1. ASSUME NEW r \in Requests, Receive(r) PROVE LockInv'
  BY <1>1, SameWork DEF Receive, Goto, Working, TypeInv, Types
<1>2. ASSUME NEW r \in Requests, PassBy(r) PROVE LockInv'
  <2> SUFFICES ASSUME NEW k \in Keys PROVE LockOf(k)'
    BY DEF LockInv
  <2>1. AtWork(k)' = AtWork(k) /\ UNCHANGED <<lock, faults, overran>>
    BY <1>2, EdgeAssumption DEF PassBy, Goto, AtWork, key, TypeInv, Types
  <2> QED BY <2>1, WorkChanges DEF LockInv
<1>3. ASSUME NEW r \in Requests, Get(r) PROVE LockInv'
  BY <1>3, SameWork DEF Get, Goto, Reply, Working, TypeInv, Types
<1>4. ASSUME NEW r \in Requests, TryLock(r) PROVE LockInv'
  <2>1. r \in Protected /\ key(r) \in Keys
    BY <1>4 DEF TryLock, TypeInv, KeyedInv, Busy, Places, Call, key
  <2>2. CASE Reply(r, "other", NULL) /\ UNCHANGED lock
    BY <1>4, <2>2, SameWork DEF TryLock, Reply, Goto, Working, TypeInv, Types
  <2>3. CASE LockFree(key(r)) /\ lock' = [lock EXCEPT ![key(r)] = TRUE] /\ Goto(r, "call_next")
    <3>1. UNCHANGED <<call, faults, overran>>
      BY <1>4 DEF TryLock
    <3> SUFFICES ASSUME NEW k \in Keys PROVE LockOf(k)'
      BY DEF LockInv
    <3>2. CASE k = key(r)
      <4>1. AtWork(k)' = AtWork(k) \cup {r} /\ ~lock[k] /\ lock'[k]
        BY <2>1, <2>3, <3>1, <3>2, EdgeAssumption
           DEF AtWork, Working, Goto, LockFree, key, TypeInv, Types
      <4> QED BY <3>1, <4>1, WorkChanges DEF LockInv
    <3>3. CASE k # key(r)
      <4>1. AtWork(k)' = AtWork(k) /\ lock'[k] = lock[k]
        BY <1>4, <2>1, <2>3, <3>1, <3>3, EdgeAssumption
           DEF TryLock, AtWork, Working, Goto, key, TypeInv, Types
      <4> QED BY <3>1, <4>1, WorkChanges DEF LockInv
    <3> QED BY <3>2, <3>3
  <2> QED BY <1>4, <2>2, <2>3 DEF TryLock
<1>5. ASSUME NEW r \in Requests, CallNext(r) PROVE LockInv'
  <2>1. CASE r \in Protected
    BY <1>5, <2>1, SameWork DEF CallNext, Receives, Goto, Working, TypeInv, Types
  <2>2. CASE r \notin Protected
    <3> SUFFICES ASSUME NEW k \in Keys PROVE LockOf(k)'
      BY DEF LockInv
    <3>1. AtWork(k)' = AtWork(k) /\ UNCHANGED <<lock, faults, overran>>
      BY <1>5, <2>2, EdgeAssumption DEF CallNext, Receives, Reply, Goto, AtWork, key, TypeInv, Types
    <3> QED BY <3>1, WorkChanges DEF LockInv
  <2> QED BY <2>1, <2>2
<1>6. ASSUME NEW r \in Requests, Store(r) PROVE LockInv'
  BY <1>6, SameWork DEF Store, Goto, Working, TypeInv, Types
<1>7. ASSUME NEW r \in Requests, Unlock(r) PROVE LockInv'
  BY <1>7, EndOfWork DEF Unlock, Reply, Goto
<1>8. ASSUME NEW r \in Requests, RedisFails(r) PROVE LockInv'
  <2>1. faults \in Nat /\ faults' = faults + 1 /\ UNCHANGED <<call, overran>>
    BY <1>8 DEF RedisFails, Fault, TypeInv, Types
  <2>2. CASE at[r] = "unlock"
    BY <1>8, <2>1, <2>2, EndOfWork DEF RedisFails, RedisWrite, Reply, Goto
  <2>3. CASE at[r] \in {"get", "try_lock", "store"}
    <3> SUFFICES ASSUME NEW k \in Keys PROVE LockOf(k)'
      BY DEF LockInv
    <3>1. AtWork(k)' = AtWork(k)
      BY <1>8, <2>1, <2>3, EdgeAssumption DEF RedisFails, Reply, Goto, AtWork, Working, key, TypeInv, Types
    <3>2. lock' = lock \/ lock' = [lock EXCEPT ![key(r)] = TRUE]
      BY <1>8, <2>3 DEF RedisFails, RedisWrite
    <3>3. lock'[k] = lock[k] \/ lock'[k]
      BY <3>2 DEF TypeInv, Types
    <3> QED BY <2>1, <3>1, <3>3, WorkChanges DEF LockInv
  <2> QED BY <1>8, <2>2, <2>3 DEF RedisFails
<1>9. ASSUME NEW l \in Keys, CorruptEntry(l) \/ ExpireResp(l) PROVE LockInv'
  <2> SUFFICES ASSUME NEW k \in Keys PROVE LockOf(k)'
    BY DEF LockInv
  <2>1. AtWork(k)' = AtWork(k) /\ UNCHANGED <<lock, overran>> /\ faults' = faults + 1
    BY <1>9 DEF CorruptEntry, ExpireResp, Fault, AtWork, key
  <2> QED BY <2>1, WorkChanges DEF LockInv
<1>10. ASSUME NEW l \in Keys, ExpireLock(l) PROVE LockInv'
  <2> SUFFICES ASSUME NEW k \in Keys PROVE LockOf(k)'
    BY DEF LockInv
  <2>1. AtWork(k)' = AtWork(k) /\ UNCHANGED faults
    BY <1>10 DEF ExpireLock, AtWork, key
  <2>2. CASE k = l /\ AtWork(k) # {}
    <3>1. lock[k] /\ ~lock'[k] /\ overran'[k] = overran[k] + 1 /\ overran[k] \in Nat
      BY <1>10, <2>2 DEF ExpireLock, TypeInv, Types
    <3>2. IsFiniteSet(AtWork(k)) /\ Cardinality(AtWork(k)) <= overran[k] + 1
      BY <3>1 DEF LockInv, LockOf
    <3> QED BY <2>1, <3>1, <3>2 DEF LockOf
  <2>3. CASE k = l /\ AtWork(k) = {}
    <3>1. ~lock'[k] /\ overran'[k] = overran[k] /\ overran[k] \in Nat
      BY <1>10, <2>3 DEF ExpireLock, TypeInv, Types
    <3> QED BY <2>1, <2>3, <3>1, FS_EmptySet DEF LockInv, LockOf
  <2>4. CASE k # l
    <3>1. lock'[k] = lock[k] /\ overran'[k] = overran[k]
      BY <1>10, <2>4 DEF ExpireLock, TypeInv, Types
    <3> QED BY <2>1, <3>1, WorkChanges DEF LockInv
  <2> QED BY <2>2, <2>3, <2>4
<1>11. CASE Crash
  <2> SUFFICES ASSUME NEW k \in Keys PROVE LockOf(k)'
    BY DEF LockInv
  <2>1. AtWork(k)' = {}
    BY <1>11, EdgeAssumption DEF Crash, AtWork, TypeInv, Types, Places, Busy, Working
  <2>2. UNCHANGED <<lock, overran>> /\ faults' = faults + 1 /\ faults' # faults
    BY <1>11 DEF Crash, Fault, TypeInv, Types
  <2> QED BY <2>1, <2>2, WorkChanges DEF LockInv
<1>12. CASE UNCHANGED vars
  BY <1>12 DEF vars, LockInv, LockOf, AtWork, key
<1> QED BY <1>1, <1>2, <1>3, <1>4, <1>5, <1>6, <1>7, <1>8, <1>9, <1>10, <1>11, <1>12 DEF Next, Step

LEMMA LockInit ==
  ASSUME Init
  PROVE  LockInv
<1>1. \A k \in Keys : AtWork(k) = {} /\ overran[k] = 0 /\ ~lock[k]
  BY EdgeAssumption DEF Init, AtWork, Working
<1> QED BY <1>1, FS_EmptySet DEF LockInv, LockOf

LEMMA LocksCorrect == Spec => []LockInv
<1>1. TypeInv /\ LockInv /\ [Next]_vars => LockInv'
  BY LockStep
<1> QED BY <1>1, LockInit, DispatchTypes, PTL DEF Spec

\* However often a lock expires under its holder, and whoever's DEL then removes it, each
\* expiry lets one more request of the key work beside the others, and nothing else does.
THEOREM EachExpiryAdmitsOne == Spec => []ExpiryAdmitsOne
<1>1. LockInv => ExpiryAdmitsOne
  BY DEF LockInv, LockOf, ExpiryAdmitsOne
<1> QED BY <1>1, LocksCorrect, PTL

\* Without faults a locked key has a request at work on it: every way out of the handler,
\* an exception included, ends in the DEL of finally, and no expiry is waited for.
THEOREM LocksEndWithTheWork == Spec => []NoLockLeftBehind
<1>1. LockInv => NoLockLeftBehind
  BY DEF LockInv, LockOf, NoLockLeftBehind
<1> QED BY <1>1, LocksCorrect, PTL

-----------------------------------------------------------------------------
(* Replay.                                                                 *)

\* What is stored under a key is of a request with that key and had its effect.
StoredInv ==
  \A k \in Keys :
    resp[k] \notin {NULL, Corrupt} =>
      resp[k].from \in effects /\ call[resp[k].from] = [key |-> k, body |-> resp[k].body]

\* Who has had an effect or an answer has been received, and a success had its effect.
EffectInv ==
  \A r \in Requests :
    /\ r \in effects \/ answer[r] # NULL => at[r] # "idle"
    /\ outcome[r] = "2xx" => r \in effects

ReplayInv == StoredInv /\ EffectInv /\ ReplayIsFaithful

\* A step of r that keeps the calls and stores nothing but its own success.
LEMMA ReplayKept ==
  ASSUME TypeInv, ReplayInv, NEW r \in Requests, UNCHANGED call, at[r] # "idle", at'[r] # "idle",
         \A q \in Requests \ {r} : at'[q] = at[q] /\ answer'[q] = answer[q] /\ outcome'[q] = outcome[q],
         effects \subseteq effects', effects' \subseteq effects \cup {r},
         outcome'[r] = "2xx" => r \in effects',
         \/ answer'[r] = answer[r]
         \/ answer'[r].outcome # "2xx"
         \/ answer'[r].from \in effects' /\ call[answer'[r].from] = call[r],
         \A k \in Keys : \/ resp'[k] = resp[k]
                         \/ /\ at[r] = "store" /\ k = key(r)
                            /\ resp'[k] = [from |-> r, body |-> call[r].body]
  PROVE  ReplayInv'
<1>1. EffectInv'
  BY DEF ReplayInv, EffectInv
<1>2. ReplayIsFaithful'
  <2> SUFFICES ASSUME NEW q \in Requests, answer'[q] # NULL, answer'[q].outcome = "2xx"
               PROVE  answer'[q].from \in effects' /\ call[answer'[q].from] = call[q]
    BY DEF ReplayIsFaithful
  <2>1. CASE answer'[q] = answer[q]
    BY <2>1 DEF ReplayInv, ReplayIsFaithful
  <2>2. CASE answer'[q] # answer[q]
    BY <2>2
  <2> QED BY <2>1, <2>2
<1>3. StoredInv'
  <2> SUFFICES ASSUME NEW k \in Keys, resp'[k] \notin {NULL, Corrupt}
               PROVE  /\ resp'[k].from \in effects'
                      /\ call[resp'[k].from] = [key |-> k, body |-> resp'[k].body]
    BY DEF StoredInv, Corrupt
  <2>1. CASE resp'[k] = resp[k]
    BY <2>1 DEF ReplayInv, StoredInv
  <2>2. CASE at[r] = "store" /\ k = key(r) /\ resp'[k] = [from |-> r, body |-> call[r].body]
    <3>1. r \in effects /\ call[r] \in Call
      BY <2>2 DEF TypeInv, KeyedInv, Busy, Places, ReplayInv, EffectInv
    <3>2. call[r] = [key |-> k, body |-> call[r].body]
      BY <2>2, <3>1 DEF Call, key
    <3> QED BY <2>2, <3>1, <3>2
  <2> QED BY <2>1, <2>2
<1> QED BY <1>1, <1>2, <1>3 DEF ReplayInv

LEMMA ReplayStep ==
  ASSUME TypeInv, ReplayInv, [Next]_vars
  PROVE  ReplayInv'
<1>1. ASSUME NEW r \in Requests, Receive(r) PROVE ReplayInv'
  <2>1. \A q \in Requests \ {r} : call'[q] = call[q] /\ at'[q] = at[q]
    BY <1>1 DEF Receive, Goto, TypeInv, Types
  <2>2. r \notin effects /\ answer[r] = NULL /\ at'[r] # "idle"
    BY <1>1 DEF Receive, Goto, ReplayInv, EffectInv, TypeInv, Types
  <2>3. UNCHANGED <<resp, effects, answer, outcome>>
    BY <1>1 DEF Receive
  <2>4. effects \subseteq Requests
    BY DEF TypeInv, Types
  <2>5. StoredInv'
    BY <2>1, <2>2, <2>3, <2>4 DEF StoredInv, ReplayInv, Corrupt
  <2>6. EffectInv'
    BY <2>1, <2>2, <2>3 DEF EffectInv, ReplayInv
  <2>7. ReplayIsFaithful'
    BY <2>1, <2>2, <2>3, <2>4 DEF ReplayIsFaithful, ReplayInv
  <2> QED BY <2>5, <2>6, <2>7 DEF ReplayInv
<1>2. ASSUME NEW r \in Requests, PassBy(r) PROVE ReplayInv'
  <2>1. UNCHANGED <<call, resp, effects, answer, outcome>>
        /\ \A q \in Requests : at'[q] = "idle" => at[q] = "idle"
    BY <1>2 DEF PassBy, Goto, TypeInv, Types
  <2> QED BY <2>1 DEF ReplayInv, StoredInv, EffectInv, ReplayIsFaithful, Corrupt
<1>3. ASSUME NEW r \in Requests, Get(r) PROVE ReplayInv'
  <2>1. /\ UNCHANGED <<call, resp, outcome, effects>> /\ at[r] = "get" /\ at'[r] # "idle"
        /\ \A q \in Requests \ {r} : at'[q] = at[q] /\ answer'[q] = answer[q]
    BY <1>3 DEF Get, Reply, Goto, TypeInv, Types
  <2>2. call[r] \in Call /\ key(r) \in Keys
    BY <2>1 DEF TypeInv, KeyedInv, Busy, Places, Call, key
  <2>3. CASE UNCHANGED answer \/ Reply(r, "other", NULL)
    <3>1. answer'[r] = answer[r] \/ answer'[r].outcome # "2xx"
      BY <2>3 DEF Reply, TypeInv, Types
    <3> QED BY <2>1, <3>1, ReplayKept DEF ReplayInv, EffectInv
  <2>4. CASE resp[key(r)] \notin {NULL, Corrupt} /\ SameBody(r) /\ Reply(r, "2xx", resp[key(r)].from)
    <3>1. answer'[r].from = resp[key(r)].from
      BY <2>4 DEF Reply, TypeInv, Types
    <3>2. resp[key(r)].from \in effects /\ call[resp[key(r)].from] = [key |-> key(r), body |-> call[r].body]
      BY <2>2, <2>4 DEF ReplayInv, StoredInv, SameBody
    <3>3. call[r] = [key |-> key(r), body |-> call[r].body]
      BY <2>2 DEF Call, key
    <3> QED BY <2>1, <3>1, <3>2, <3>3, ReplayKept DEF ReplayInv, EffectInv
  <2> QED BY <1>3, <2>3, <2>4 DEF Get
<1>4. ASSUME NEW r \in Requests, TryLock(r) PROVE ReplayInv'
  <2>1. /\ UNCHANGED <<call, resp, outcome, effects>> /\ at[r] = "try_lock" /\ at'[r] # "idle"
        /\ \A q \in Requests \ {r} : at'[q] = at[q] /\ answer'[q] = answer[q]
        /\ answer'[r] = answer[r] \/ answer'[r].outcome # "2xx"
    BY <1>4 DEF TryLock, Reply, Goto, TypeInv, Types
  <2> QED BY <2>1, ReplayKept DEF ReplayInv, EffectInv
<1>5. ASSUME NEW r \in Requests, CallNext(r) PROVE ReplayInv'
  <2>1. PICK o \in Outcomes : Receives(r, o) /\ (o = "2xx" => r \in effects')
    BY <1>5 DEF CallNext
  <2>2. /\ UNCHANGED <<call, resp>> /\ at[r] = "call_next" /\ at'[r] # "idle" /\ outcome'[r] = o
        /\ \A q \in Requests \ {r} : at'[q] = at[q] /\ answer'[q] = answer[q] /\ outcome'[q] = outcome[q]
        /\ answer'[r] = answer[r] \/ answer'[r] = [outcome |-> o, from |-> r]
    BY <1>5, <2>1 DEF CallNext, Receives, Reply, Goto, TypeInv, Types
  <2>3. effects' = effects \/ effects' = effects \cup {r}
    BY <1>5 DEF CallNext
  <2> QED BY <2>1, <2>2, <2>3, ReplayKept
<1>6. ASSUME NEW r \in Requests, at[r] \in {"store", "unlock"}, UNCHANGED <<call, effects>>,
             \/ UNCHANGED resp
             \/ at[r] = "store" /\ resp' = [resp EXCEPT ![key(r)] = [from |-> r, body |-> call[r].body]],
             \/ Goto(r, "unlock") /\ UNCHANGED answer
             \/ at[r] = "unlock" /\ Reply(r, outcome[r], r),
             UNCHANGED outcome \/ outcome' = [outcome EXCEPT ![r] = "raised"]
      PROVE  ReplayInv'
  <2>1. /\ at[r] # "idle" /\ at'[r] # "idle"
        /\ \A q \in Requests \ {r} : at'[q] = at[q] /\ answer'[q] = answer[q] /\ outcome'[q] = outcome[q]
        /\ answer'[r] = answer[r] \/ answer'[r] = [outcome |-> outcome[r], from |-> r]
        /\ outcome'[r] = outcome[r] \/ outcome'[r] = "raised"
    BY <1>6 DEF Reply, Goto, TypeInv, Types
  <2>2. outcome[r] = "2xx" => r \in effects
    BY DEF ReplayInv, EffectInv
  <2>3. \A k \in Keys : \/ resp'[k] = resp[k]
                        \/ /\ at[r] = "store" /\ k = key(r)
                           /\ resp'[k] = [from |-> r, body |-> call[r].body]
    BY <1>6 DEF TypeInv, Types
  <2> QED BY <1>6, <2>1, <2>2, <2>3, ReplayKept
<1>7. ASSUME NEW r \in Requests, Store(r) \/ Unlock(r) PROVE ReplayInv'
  BY <1>6, <1>7 DEF Store, Unlock
<1>8. ASSUME NEW r \in Requests, RedisFails(r) PROVE ReplayInv'
  <2>1. CASE at[r] \in {"store", "unlock"}
    BY <1>6, <1>8, <2>1 DEF RedisFails, RedisWrite
  <2>2. CASE at[r] \in {"get", "try_lock"}
    <3>1. /\ UNCHANGED <<call, resp, outcome, effects>> /\ at'[r] # "idle"
          /\ \A q \in Requests \ {r} : at'[q] = at[q] /\ answer'[q] = answer[q]
          /\ answer'[r].outcome # "2xx"
      BY <1>8, <2>2 DEF RedisFails, RedisWrite, Reply, Goto, TypeInv, Types
    <3> QED BY <2>2, <3>1, ReplayKept DEF ReplayInv, EffectInv
  <2> QED BY <1>8, <2>1, <2>2 DEF RedisFails
<1>9. ASSUME NEW k \in Keys, CorruptEntry(k) \/ ExpireLock(k) \/ ExpireResp(k) PROVE ReplayInv'
  <2>1. /\ UNCHANGED <<at, call, outcome, answer, effects>>
        /\ \A l \in Keys : resp'[l] = resp[l] \/ resp'[l] \in {NULL, Corrupt}
    BY <1>9 DEF CorruptEntry, ExpireLock, ExpireResp, TypeInv, Types
  <2>2. StoredInv'
    BY <2>1 DEF StoredInv, ReplayInv, Corrupt
  <2> QED BY <2>1, <2>2 DEF ReplayInv, EffectInv, ReplayIsFaithful
<1>10. CASE Crash
  <2>1. UNCHANGED <<call, resp, outcome, answer, effects>>
        /\ \A q \in Requests : at'[q] = "idle" => at[q] = "idle"
    BY <1>10 DEF Crash, Busy, Places
  <2> QED BY <2>1 DEF ReplayInv, StoredInv, EffectInv, ReplayIsFaithful, Corrupt
<1>11. CASE UNCHANGED vars
  BY <1>11 DEF vars, ReplayInv, StoredInv, EffectInv, ReplayIsFaithful, Corrupt
<1> QED BY <1>1, <1>2, <1>3, <1>4, <1>5, <1>7, <1>8, <1>9, <1>10, <1>11 DEF Next, Step

LEMMA ReplayInit ==
  ASSUME Init
  PROVE  ReplayInv
BY DEF Init, ReplayInv, StoredInv, EffectInv, ReplayIsFaithful

\* Whoever is told of a success sent the same body under the same key as the request that
\* produced it, and that one took effect: whatever fails, expires or is corrupted.
THEOREM ReplaysAreFaithful == Spec => []ReplayIsFaithful
<1>1. ReplayInv => ReplayIsFaithful
  BY DEF ReplayInv
<1>2. TypeInv /\ ReplayInv /\ [Next]_vars => ReplayInv'
  BY ReplayStep
<1> QED BY <1>1, <1>2, ReplayInit, DispatchTypes, PTL DEF Spec

-----------------------------------------------------------------------------
(* The chain implements call_next.                                         *)

\* The requests inside the chain are those that wait for call_next.
StageInv ==
  /\ stage \in [Requests -> Stages]
  /\ \A r \in Requests : stage[r] # "none" => at[r] = "call_next"

\* What the actions of the idempotency middleware do to the requests inside the chain.
LEMMA MiddlewareStays ==
  ASSUME TypeInv, StageInv, NEW r \in Requests, Middleware(r)
  PROVE  StageInv'
<1>1. at[r] # "call_next" /\ UNCHANGED stage
  BY DEF Middleware, Receive, PassBy, Get, TryLock, Store, Unlock, RedisFails, pipeline
<1>2. \A q \in Requests \ {r} : at'[q] = at[q]
  BY DEF Middleware, Receive, PassBy, Get, TryLock, Store, Unlock, RedisFails, Reply, Goto,
         TypeInv, Types
<1> QED BY <1>1, <1>2 DEF StageInv

\* A request that leaves the chain takes the step of call_next.
LEMMA LeaveIsCallNext ==
  ASSUME TypeInv, StageInv, NEW r \in Requests, stage[r] # "none", NEW o \in Outcomes, Leave(r, o),
         UNCHANGED faults,
         effects' = effects \cup {r} \/ (effects' = effects /\ o # "2xx")
  PROVE  CallNext(r) /\ StageInv'
<1>1. at[r] = "call_next"
  BY DEF StageInv
<1>2. CallNext(r)
  BY <1>1 DEF CallNext, Leave
<1>3. stage' = [stage EXCEPT ![r] = "none"] /\ \A q \in Requests \ {r} : at'[q] = at[q]
  BY DEF Leave, Advance, Receives, Reply, Goto, TypeInv, Types
<1> QED BY <1>2, <1>3 DEF StageInv, Stages

\* A request that goes on within the chain leaves the middleware alone.
LEMMA AdvanceStutters ==
  ASSUME StageInv, NEW r \in Requests, at[r] = "call_next", NEW s \in Stages, Advance(r, s),
         UNCHANGED vars
  PROVE  StageInv'
BY DEF StageInv, Advance, vars

LEMMA AdmitStep ==
  ASSUME TypeInv, StageInv, NEW r \in Requests, stage[r] # "none", NEW count, Admit(r, count)
  PROVE  [Next]_vars /\ StageInv'
<1>1. CASE Leave(r, "other") /\ UNCHANGED <<effects, faults>>
  BY <1>1, LeaveIsCallNext DEF Outcomes, Next, Step
<1>2. CASE Advance(r, "route") /\ UNCHANGED idempotency
  BY <1>2, AdvanceStutters DEF StageInv, Stages, idempotency
<1> QED BY <1>1, <1>2 DEF Admit

LEMMA ChainStep ==
  ASSUME TypeInv, StageInv, [PipelineNext]_allvars
  PROVE  [Next]_vars /\ StageInv'
<1>1. ASSUME NEW r \in Requests, Middleware(r) PROVE [Next]_vars /\ StageInv'
  <2>1. [Next]_vars
    BY <1>1 DEF Middleware, Next, Step
  <2> QED BY <1>1, <2>1, MiddlewareStays
<1>2. ASSUME NEW r \in Requests, Enter(r) PROVE [Next]_vars /\ StageInv'
  BY <1>2, AdvanceStutters DEF Enter, idempotency, Stages
<1>3. ASSUME NEW r \in Requests, Authenticate(r) PROVE [Next]_vars /\ StageInv'
  <2>1. CASE Advance(r, "ping") /\ UNCHANGED idempotency
    BY <1>3, <2>1, AdvanceStutters DEF Authenticate, StageInv, Stages, idempotency
  <2>2. CASE Leave(r, "other") /\ UNCHANGED <<effects, faults>>
    BY <1>3, <2>2, LeaveIsCallNext DEF Authenticate, Outcomes, Next, Step
  <2> QED BY <1>3, <2>1, <2>2 DEF Authenticate
<1>4. ASSUME NEW r \in Requests, BuildKey(r) PROVE [Next]_vars /\ StageInv'
  BY <1>4, AdvanceStutters DEF BuildKey, StageInv, Stages, idempotency
<1>5. ASSUME NEW r \in Requests, Incr(r) PROVE [Next]_vars /\ StageInv'
  <2>1. CASE Advance(r, "expire") /\ UNCHANGED idempotency
    BY <1>5, <2>1, AdvanceStutters DEF Incr, StageInv, Stages, idempotency
  <2>2. CASE \E count : Admit(r, count)
    BY <1>5, <2>2, AdmitStep DEF Incr
  <2> QED BY <1>5, <2>1, <2>2 DEF Incr
<1>6. ASSUME NEW r \in Requests, Expire(r) PROVE [Next]_vars /\ StageInv'
  BY <1>6, AdmitStep DEF Expire
<1>7. ASSUME NEW r \in Requests, Route(r) PROVE [Next]_vars /\ StageInv'
  <2>1. Mapped(visit[r].route) \in Outcomes \ {"2xx"}
    BY DEF Mapped, Outcomes
  <2> QED BY <1>7, <2>1, LeaveIsCallNext DEF Route, Outcomes, Next, Step
<1>8. ASSUME NEW r \in Requests, RouteBroken(r) \/ ChainRedisFails(r) PROVE [Next]_vars /\ StageInv'
  BY <1>8, LeaveIsCallNext DEF RouteBroken, ChainRedisFails, Outcomes, Next, Step
<1>9. ASSUME NEW k \in Keys, Entries(k) PROVE [Next]_vars /\ StageInv'
  BY <1>9 DEF Entries, CorruptEntry, ExpireLock, ExpireResp, pipeline, StageInv, Next
<1>10. CASE PipelineCrash
  BY <1>10 DEF PipelineCrash, Next, StageInv, Stages
<1>11. CASE Tick \/ UNCHANGED allvars
  BY <1>11 DEF Tick, idempotency, allvars, pipeline, vars, StageInv
<1> QED BY <1>1, <1>2, <1>3, <1>4, <1>5, <1>6, <1>7, <1>8, <1>9, <1>10, <1>11 DEF PipelineNext

LEMMA StageInit ==
  ASSUME PipelineInit
  PROVE  Init /\ StageInv
BY DEF PipelineInit, StageInv, Stages

LEMMA StagesCorrect == PipelineSpec => [](TypeInv /\ StageInv) /\ Spec
<1>1. TypeInv /\ StageInv /\ [PipelineNext]_allvars => [Next]_vars /\ TypeInv' /\ StageInv'
  BY ChainStep, TypeStep
<1>2. PipelineInit => Init /\ TypeInv /\ StageInv
  BY StageInit, TypeInit
<1> QED BY <1>1, <1>2, PTL DEF PipelineSpec, Spec

\* Authentication, rate limit and route, step by step, do what EdgeIdempotency takes the
\* one await of call_next for.
THEOREM ChainIsCallNext == PipelineSpec => ImplementsCallNext
BY StagesCorrect, PTL DEF ImplementsCallNext

\* So the middleware's promises hold of the whole chain.
THEOREM ChainKeepsPromises ==
  PipelineSpec => [](ExpiryAdmitsOne /\ ReplayIsFaithful /\ NoLockLeftBehind)
BY StagesCorrect, EachExpiryAdmitsOne, ReplaysAreFaithful, LocksEndWithTheWork, PTL

-----------------------------------------------------------------------------
(* The rate limit.                                                         *)

Counter == [count : Nat, expires : Nat \cup {NULL}]
Visit == [route : {"auth", "users", "transaction", "kyc", "account"}, caller : Callers \cup {NULL}]

ThisWindow == now \div Window

ChainTypes ==
  /\ now \in 0..MaxTime
  /\ stage \in [Requests -> Stages]
  /\ visit \in [Requests -> Visit \cup {NULL}]
  /\ window \in [Requests -> Windows \cup {NULL}]
  /\ counters \in [Callers \X Windows -> Counter]
  /\ chainFaults \in Nat
  /\ passed \in [Callers \X Windows -> Nat]

\* Behind the authentication a request has a caller, behind the PING a window that has
\* begun.
VisitInv ==
  \A r \in Requests :
    /\ stage[r] # "none" => visit[r] \in Visit
    /\ stage[r] \in {"ping", "incr", "expire", "route"} => caller(r) \in Callers
    /\ stage[r] \in {"incr", "expire", "route"} => window[r] \in Windows /\ window[r] <= ThisWindow

ChainInv == ChainTypes /\ VisitInv

LEMMA Division ==
  ASSUME NEW w \in Nat \ {0}, NEW t \in Nat, NEW u \in Nat
  PROVE  /\ t \div w \in Nat
         /\ t \div w = u \div w => t < u + w
         /\ t <= u => t \div w <= u \div w
<1>1. PICK q \in Nat, p \in Nat : q = t \div w /\ p = u \div w
  OBVIOUS
<1>2. w * q <= t /\ t < w * q + w /\ w * p <= u /\ u < w * p + w
  BY <1>1
<1>3. q = p => t < u + w
  BY <1>2
<1>4. ASSUME t <= u, p < q PROVE FALSE
  <2>1. PICK d \in Nat : q = p + 1 + d
    <3>1. q - (p + 1) \in Nat
      BY <1>4
    <3> QED BY <3>1
  <2>2. w * q = w * p + w + w * d /\ w * d >= 0
    BY <2>1
  <2> QED BY <1>2, <1>4, <2>2
<1> QED BY <1>1, <1>3, <1>4

LEMMA ThisWindowTypes ==
  ASSUME ChainTypes
  PROVE  ThisWindow \in Windows /\ ThisWindow \in Nat
<1>1. now \in Nat /\ now <= MaxTime /\ MaxTime \in Nat /\ Window \in Nat \ {0}
  BY PipelineAssumption DEF ChainTypes
<1> QED BY <1>1, Division DEF ThisWindow, Windows

\* A counter of a request that counts.
LEMMA CounterTypes ==
  ASSUME ChainInv, NEW r \in Requests, stage[r] \in {"incr", "expire"}
  PROVE  /\ counter(r) \in Callers \X Windows /\ counter(r) = <<caller(r), window[r]>>
         /\ Limit(caller(r)) \in Nat
         /\ window[r] \in Nat /\ window[r] <= ThisWindow
BY PipelineAssumption DEF ChainInv, VisitInv, counter, Limit, Windows

\* One request leaves the chain or goes on within it.
LEMMA MoveTypes ==
  ASSUME ChainInv, NEW r \in Requests, NEW s \in Stages, stage' = [stage EXCEPT ![r] = s],
         UNCHANGED now,
         \/ s = "none" /\ visit' = [visit EXCEPT ![r] = NULL] /\ window' = [window EXCEPT ![r] = NULL]
         \/ /\ UNCHANGED <<visit, window>> /\ visit[r] \in Visit
            /\ s # "auth" => caller(r) \in Callers
            /\ s \in {"incr", "expire", "route"} => window[r] \in Windows /\ window[r] <= ThisWindow
  PROVE  VisitInv' /\ stage' \in [Requests -> Stages] /\ visit' \in [Requests -> Visit \cup {NULL}]
         /\ window' \in [Requests -> Windows \cup {NULL}]
<1>1. CASE s = "none"
  BY <1>1 DEF ChainInv, ChainTypes, VisitInv, caller, ThisWindow, Stages
<1>2. CASE s # "none"
  BY <1>2 DEF ChainInv, ChainTypes, VisitInv, caller, ThisWindow, Stages
<1> QED BY <1>1, <1>2

\* What one more request does to a counter and to those that passed.
LEMMA CountTypes ==
  ASSUME ChainInv, NEW r \in Requests, stage[r] \in {"incr", "expire"}
  PROVE  /\ Counted(counter(r)) \in [Callers \X Windows -> Counter]
         /\ Expiring(counter(r)) \in [Callers \X Windows -> Counter]
         /\ [passed EXCEPT ![counter(r)] = @ + 1] \in [Callers \X Windows -> Nat]
<1>1. counter(r) \in Callers \X Windows
  BY CounterTypes
<1>2. now + Window \in Nat
  BY PipelineAssumption DEF ChainInv, ChainTypes
<1> QED BY <1>1, <1>2 DEF ChainInv, ChainTypes, Counted, Expiring, Counter

LEMMA AdmitTypes ==
  ASSUME ChainInv, NEW r \in Requests, stage[r] \in {"incr", "expire"}, NEW count, Admit(r, count),
         UNCHANGED <<now, chainFaults>>, counters' \in [Callers \X Windows -> Counter]
  PROVE  ChainInv'
<1>1. visit[r] \in Visit /\ caller(r) \in Callers /\ window[r] \in Windows /\ window[r] <= ThisWindow
  BY DEF ChainInv, VisitInv
<1>2. passed' \in [Callers \X Windows -> Nat]
  BY CountTypes DEF Admit, ChainInv, ChainTypes
<1>3. CASE Leave(r, "other")
  BY <1>2, <1>3, MoveTypes DEF Leave, Advance, ChainInv, ChainTypes, Stages
<1>4. CASE Advance(r, "route") /\ UNCHANGED <<visit, window>>
  BY <1>1, <1>2, <1>4, MoveTypes DEF Advance, ChainInv, ChainTypes, Stages
<1> QED BY <1>3, <1>4 DEF Admit

LEMMA ChainInvStep ==
  ASSUME ChainInv, [PipelineNext]_allvars
  PROVE  ChainInv'
<1>1. CASE UNCHANGED pipeline
  BY <1>1 DEF pipeline, ChainInv, ChainTypes, VisitInv, caller, ThisWindow
<1>2. ASSUME NEW r \in Requests, Enter(r) PROVE ChainInv'
  <2>1. PICK route \in {"auth", "users", "transaction", "kyc", "account"}, c \in Callers \cup {NULL} :
          visit' = [visit EXCEPT ![r] = [route |-> route, caller |-> c]]
    BY <1>2, PipelineAssumption DEF Enter
  <2> QED BY <1>2, <2>1 DEF Enter, Advance, ChainInv, ChainTypes, VisitInv, caller, ThisWindow, Stages, Visit
<1>3. ASSUME NEW r \in Requests, Authenticate(r) PROVE ChainInv'
  <2>1. visit[r] \in Visit
    BY <1>3 DEF Authenticate, ChainInv, VisitInv
  <2>2. caller(r) # NULL => caller(r) \in Callers
    BY <2>1 DEF Visit, caller
  <2>3. CASE Leave(r, "other")
    BY <1>3, <2>3, MoveTypes DEF Authenticate, Leave, Advance, ChainInv, ChainTypes, Stages
  <2>4. CASE caller(r) # NULL /\ Advance(r, "ping") /\ UNCHANGED <<visit, window>>
    BY <1>3, <2>1, <2>2, <2>4, MoveTypes DEF Authenticate, Advance, ChainInv, ChainTypes, Stages
  <2> QED BY <1>3, <2>3, <2>4 DEF Authenticate
<1>4. ASSUME NEW r \in Requests, BuildKey(r) PROVE ChainInv'
  <2>1. ThisWindow \in Windows /\ ThisWindow \in Nat
    BY ThisWindowTypes DEF ChainInv
  <2> QED BY <1>4, <2>1 DEF BuildKey, Advance, ChainInv, ChainTypes, VisitInv, caller, ThisWindow, Stages
<1>5. ASSUME NEW r \in Requests, Incr(r) PROVE ChainInv'
  <2>1. counters' \in [Callers \X Windows -> Counter] /\ UNCHANGED <<now, chainFaults>>
        /\ stage[r] = "incr"
    BY <1>5, CountTypes DEF Incr
  <2>2. CASE Advance(r, "expire") /\ UNCHANGED <<visit, window, passed>>
    <3>1. visit[r] \in Visit /\ caller(r) \in Callers /\ window[r] \in Windows /\ window[r] <= ThisWindow
      BY <2>1 DEF ChainInv, VisitInv
    <3> QED BY <2>1, <2>2, <3>1, MoveTypes DEF Advance, ChainInv, ChainTypes, Stages
  <2> QED BY <1>5, <2>1, <2>2, AdmitTypes DEF Incr
<1>6. ASSUME NEW r \in Requests, Expire(r) PROVE ChainInv'
  BY <1>6, AdmitTypes, CountTypes DEF Expire
<1>7. ASSUME NEW r \in Requests, NEW o, Leave(r, o), UNCHANGED <<now, counters, chainFaults, passed>>
      PROVE ChainInv'
  BY <1>7, MoveTypes DEF Leave, Advance, ChainInv, ChainTypes, Stages
<1>8. ASSUME NEW r \in Requests, Route(r) \/ RouteBroken(r) PROVE ChainInv'
  BY <1>7, <1>8 DEF Route, RouteBroken
<1>9. ASSUME NEW r \in Requests, ChainRedisFails(r) PROVE ChainInv'
  <2>1. counters' \in [Callers \X Windows -> Counter]
    BY <1>9, CountTypes DEF ChainRedisFails, ChainInv, ChainTypes
  <2>2. chainFaults' \in Nat /\ UNCHANGED <<now, passed>> /\ Leave(r, "raised")
    BY <1>9 DEF ChainRedisFails, ChainInv, ChainTypes
  <2> QED BY <2>1, <2>2, MoveTypes DEF Leave, Advance, ChainInv, ChainTypes, Stages
<1>10. CASE Tick
  <2>1. now' \in 0..MaxTime /\ now \in Nat /\ now' \in Nat /\ now <= now'
    BY <1>10, PipelineAssumption DEF Tick, ChainInv, ChainTypes
  <2>2. ThisWindow \in Nat /\ ThisWindow' \in Nat /\ ThisWindow <= ThisWindow'
    BY <2>1, Division, PipelineAssumption DEF ThisWindow
  <2>3. counters' \in [Callers \X Windows -> Counter]
    BY <1>10 DEF Tick, ChainInv, ChainTypes, Counter, Gone
  <2>4. VisitInv'
    BY <1>10, <2>2 DEF Tick, ChainInv, VisitInv, caller, Windows
  <2> QED BY <1>10, <2>1, <2>3, <2>4 DEF Tick, ChainInv, ChainTypes
<1>11. CASE PipelineCrash
  BY <1>11 DEF PipelineCrash, ChainInv, ChainTypes, VisitInv, caller, ThisWindow, Stages
<1>12. CASE UNCHANGED allvars
  BY <1>1, <1>12 DEF allvars, pipeline
<1> QED BY <1>1, <1>2, <1>3, <1>4, <1>5, <1>6, <1>8, <1>9, <1>10, <1>11, <1>12
        DEF PipelineNext, Middleware, Entries

LEMMA ChainInvInit ==
  ASSUME PipelineInit
  PROVE  ChainInv
BY PipelineAssumption DEF PipelineInit, ChainInv, ChainTypes, VisitInv, Stages, Counter, Gone

\* The chain's variables keep their types, and a request has what its next step reads.
THEOREM ChainTypesCorrect == PipelineSpec => []ChainInv
BY ChainInvInit, ChainInvStep, PTL DEF PipelineSpec

\* Requests that are about to set the expiry of k.
Expires(r, k) == r \in Requests /\ stage[r] = "expire" /\ counter(r) = k

\* A counter that has an expiry lives to the end of its window.
LivesOn(k) ==
  counters[k].expires # NULL => \A t \in Nat : t \div Window = k[2] => t < counters[k].expires

\* Nothing is counted ahead of time, an absent counter has no expiry, and during its window
\* a counter lives and has counted all that passed.
CountInv ==
  \A k \in Callers \X Windows :
    /\ k[2] > ThisWindow => counters[k].count = 0 /\ passed[k] = 0
    /\ counters[k].count = 0 => counters[k].expires = NULL
    /\ k[2] = ThisWindow => passed[k] <= counters[k].count /\ LivesOn(k)
    /\ passed[k] <= Limit(k[1])

\* Who is about to set an expiry is the only one, and has been counted but not passed yet.
ExpireInv ==
  \A k \in Callers \X Windows, r \in Requests :
    Expires(r, k) =>
      /\ counters[k].count > 0 /\ counters[k].expires = NULL
      /\ \A q \in Requests : Expires(q, k) => q = r
      /\ k[2] = ThisWindow =>
           /\ passed[k] < counters[k].count
           /\ Limit(k[1]) > 0 => passed[k] < Limit(k[1])

RateInv == CountInv /\ ExpireInv

\* Steps that count nothing.
LEMMA RateKept ==
  ASSUME RateInv, UNCHANGED <<now, counters, passed>>,
         \A q \in Requests, k \in Callers \X Windows : Expires(q, k)' => Expires(q, k)
  PROVE  RateInv'
<1>1. CountInv'
  BY DEF RateInv, CountInv, LivesOn, ThisWindow
<1>2. ExpireInv'
  <2> SUFFICES ASSUME NEW k \in Callers \X Windows, NEW r \in Requests, Expires(r, k)'
               PROVE  /\ counters[k].count > 0 /\ counters[k].expires = NULL
                      /\ \A q \in Requests : Expires(q, k)' => q = r
                      /\ k[2] = ThisWindow =>
                           /\ passed[k] < counters[k].count
                           /\ Limit(k[1]) > 0 => passed[k] < Limit(k[1])
    BY DEF ExpireInv, ThisWindow
  <2>1. Expires(r, k)
    OBVIOUS
  <2> QED BY <2>1 DEF RateInv, ExpireInv
<1> QED BY <1>1, <1>2 DEF RateInv

\* What becomes of those about to set an expiry when r moves.
LEMMA OthersExpire ==
  ASSUME ChainInv, NEW r \in Requests, NEW s \in Stages \ {"expire"}, Advance(r, s),
         \/ UNCHANGED <<visit, window>>
         \/ visit' = [visit EXCEPT ![r] = NULL] /\ window' = [window EXCEPT ![r] = NULL]
  PROVE  \A q \in Requests, k \in Callers \X Windows : Expires(q, k)' <=> q # r /\ Expires(q, k)
BY DEF Advance, Expires, counter, caller, ChainInv, ChainTypes

\* INCR, whatever becomes of the request r that sent it: only one that counts 1 goes on to
\* set the expiry.
LEMMA IncrRate ==
  ASSUME ChainInv, RateInv, NEW r \in Requests, stage[r] = "incr", UNCHANGED now,
         counters' = Counted(counter(r)),
         \A q \in Requests, k \in Callers \X Windows :
           Expires(q, k)' => \/ Expires(q, k)
                             \/ q = r /\ k = counter(r) /\ counters[k].count = 0,
         \/ UNCHANGED passed
         \/ /\ window[r] = ThisWindow /\ counters[counter(r)].count + 1 <= Limit(caller(r))
            /\ counters[counter(r)].count > 0
            /\ passed' = [passed EXCEPT ![counter(r)] = @ + 1]
  PROVE  RateInv'
<1>1. /\ counter(r) \in Callers \X Windows /\ counter(r)[1] = caller(r) /\ counter(r)[2] = window[r]
      /\ window[r] \in Nat /\ window[r] <= ThisWindow /\ ThisWindow \in Nat
      /\ counters \in [Callers \X Windows -> Counter] /\ passed \in [Callers \X Windows -> Nat]
  BY CounterTypes, ThisWindowTypes DEF ChainInv, ChainTypes, counter
<1>2. ThisWindow' = ThisWindow
  BY DEF ThisWindow
<1>3. \A k \in Callers \X Windows :
        /\ counters'[k].expires = counters[k].expires
        /\ counters'[k].count = IF k = counter(r) THEN counters[k].count + 1 ELSE counters[k].count
        /\ counters[k].count \in Nat /\ passed[k] \in Nat /\ Limit(k[1]) \in Nat
  BY <1>1, PipelineAssumption DEF Counted, Counter, Limit
<1>4. \A k \in Callers \X Windows :
        passed'[k] = passed[k] \/ (k = counter(r) /\ passed'[k] = passed[k] + 1
          /\ k[2] = ThisWindow /\ counters[k].count + 1 <= Limit(k[1]) /\ counters[k].count > 0)
  BY <1>1
<1>5. CountInv'
  <2> SUFFICES ASSUME NEW k \in Callers \X Windows
               PROVE  /\ k[2] > ThisWindow => counters'[k].count = 0 /\ passed'[k] = 0
                      /\ counters'[k].count = 0 => counters'[k].expires = NULL
                      /\ k[2] = ThisWindow => passed'[k] <= counters'[k].count /\ LivesOn(k)'
                      /\ passed'[k] <= Limit(k[1])
    BY <1>2 DEF CountInv
  <2>1. k[2] > ThisWindow => k # counter(r)
    BY <1>1
  <2>2. k[2] = ThisWindow => LivesOn(k)'
    BY <1>3 DEF RateInv, CountInv, LivesOn
  <2> QED BY <1>3, <1>4, <2>1, <2>2 DEF RateInv, CountInv
<1>6. ExpireInv'
  <2> SUFFICES ASSUME NEW k \in Callers \X Windows, NEW q \in Requests, Expires(q, k)'
               PROVE  /\ counters'[k].count > 0 /\ counters'[k].expires = NULL
                      /\ \A p \in Requests : Expires(p, k)' => p = q
                      /\ k[2] = ThisWindow =>
                           /\ passed'[k] < counters'[k].count
                           /\ Limit(k[1]) > 0 => passed'[k] < Limit(k[1])
    BY <1>2 DEF ExpireInv
  <2>1. CASE Expires(q, k)
    <3>1. counters[k].count > 0 /\ counters[k].expires = NULL
          /\ \A p \in Requests : Expires(p, k) => p = q
      BY <2>1 DEF RateInv, ExpireInv
    <3>2. k[2] = ThisWindow => /\ passed[k] < counters[k].count
                               /\ Limit(k[1]) > 0 => passed[k] < Limit(k[1])
      BY <2>1 DEF RateInv, ExpireInv
    <3>3. \A p \in Requests : Expires(p, k)' => p = q
      BY <1>3, <3>1
    <3> QED BY <1>3, <1>4, <3>1, <3>2, <3>3
  <2>2. CASE q = r /\ k = counter(r) /\ counters[k].count = 0
    <3>1. \A p \in Requests : ~Expires(p, k)
      BY <1>3, <2>2 DEF RateInv, ExpireInv
    <3>2. counters[k].expires = NULL /\ (k[2] = ThisWindow => passed[k] = 0) /\ passed'[k] = passed[k]
      BY <1>3, <1>4, <2>2 DEF RateInv, CountInv
    <3> QED BY <1>3, <2>2, <3>1, <3>2
  <2> QED BY <2>1, <2>2
<1> QED BY <1>5, <1>6 DEF RateInv

\* EXPIRE, whatever becomes of the request r that sent it.
LEMMA ExpireRate ==
  ASSUME ChainInv, RateInv, NEW r \in Requests, stage[r] = "expire", UNCHANGED now,
         counters' = Expiring(counter(r)),
         \A q \in Requests, k \in Callers \X Windows : Expires(q, k)' <=> q # r /\ Expires(q, k),
         \/ UNCHANGED passed
         \/ /\ window[r] = ThisWindow /\ 1 <= Limit(caller(r))
            /\ passed' = [passed EXCEPT ![counter(r)] = @ + 1]
  PROVE  RateInv'
<1>1. /\ counter(r) \in Callers \X Windows /\ counter(r)[1] = caller(r) /\ counter(r)[2] = window[r]
      /\ window[r] \in Nat /\ window[r] <= ThisWindow /\ ThisWindow \in Nat
      /\ counters \in [Callers \X Windows -> Counter] /\ passed \in [Callers \X Windows -> Nat]
  BY CounterTypes, ThisWindowTypes DEF ChainInv, ChainTypes, counter
<1>2. ThisWindow' = ThisWindow
  BY DEF ThisWindow
<1>3. \A k \in Callers \X Windows :
        /\ counters'[k].count = counters[k].count
        /\ counters'[k].expires = IF k = counter(r) THEN now + Window ELSE counters[k].expires
        /\ counters[k].count \in Nat /\ passed[k] \in Nat /\ Limit(k[1]) \in Nat
  BY <1>1, PipelineAssumption DEF Expiring, Counter, Limit
<1>4. Expires(r, counter(r))
  BY DEF Expires
<1>5. /\ counters[counter(r)].count > 0
      /\ window[r] = ThisWindow =>
           /\ passed[counter(r)] < counters[counter(r)].count
           /\ Limit(caller(r)) > 0 => passed[counter(r)] < Limit(caller(r))
  BY <1>1, <1>4 DEF RateInv, ExpireInv
<1>6. CountInv'
  <2> SUFFICES ASSUME NEW k \in Callers \X Windows
               PROVE  /\ k[2] > ThisWindow => counters'[k].count = 0 /\ passed'[k] = 0
                      /\ counters'[k].count = 0 => counters'[k].expires = NULL
                      /\ k[2] = ThisWindow => passed'[k] <= counters'[k].count /\ LivesOn(k)'
                      /\ passed'[k] <= Limit(k[1])
    BY <1>2 DEF CountInv
  <2>1. CASE k # counter(r)
    <3>1. passed'[k] = passed[k] /\ (k[2] = ThisWindow => LivesOn(k)')
      BY <1>1, <1>3, <2>1 DEF RateInv, CountInv, LivesOn
    <3> QED BY <1>3, <2>1, <3>1 DEF RateInv, CountInv
  <2>2. CASE k = counter(r)
    <3>1. ASSUME k[2] = ThisWindow, NEW t \in Nat, t \div Window = k[2] PROVE t < counters'[k].expires
      <4>1. now \in Nat /\ Window \in Nat \ {0} /\ now \div Window = t \div Window
        BY <3>1, PipelineAssumption DEF ChainInv, ChainTypes, ThisWindow
      <4>2. t < now + Window
        BY <4>1, Division
      <4> QED BY <1>3, <2>2, <4>2
    <3>2. k[2] = ThisWindow => LivesOn(k)'
      BY <3>1 DEF LivesOn
    <3>3. passed'[k] = passed[k] \/ (window[r] = ThisWindow /\ 1 <= Limit(caller(r)) /\ passed'[k] = passed[k] + 1)
      BY <1>1, <2>2
    <3>4. passed[k] <= Limit(k[1])
      BY DEF RateInv, CountInv
    <3> QED BY <1>1, <1>3, <1>5, <2>2, <3>2, <3>3, <3>4
  <2> QED BY <2>1, <2>2
<1>7. ExpireInv'
  <2> SUFFICES ASSUME NEW k \in Callers \X Windows, NEW q \in Requests, Expires(q, k)'
               PROVE  /\ counters'[k].count > 0 /\ counters'[k].expires = NULL
                      /\ \A p \in Requests : Expires(p, k)' => p = q
                      /\ k[2] = ThisWindow =>
                           /\ passed'[k] < counters'[k].count
                           /\ Limit(k[1]) > 0 => passed'[k] < Limit(k[1])
    BY <1>2 DEF ExpireInv
  <2>1. q # r /\ Expires(q, k)
    OBVIOUS
  <2>2. k # counter(r)
    BY <1>4, <2>1 DEF RateInv, ExpireInv
  <2>3. passed'[k] = passed[k] /\ counters'[k].expires = counters[k].expires
    BY <1>1, <1>3, <2>2
  <2> QED BY <1>3, <2>1, <2>3 DEF RateInv, ExpireInv
<1> QED BY <1>6, <1>7 DEF RateInv

\* Time passes: no counter is dropped during its window, nor while its expiry is to be set.
LEMMA TickRate ==
  ASSUME ChainInv, RateInv, Tick
  PROVE  RateInv'
<1>1. /\ now \in Nat /\ now' \in Nat /\ now <= now' /\ Window \in Nat \ {0}
      /\ UNCHANGED <<stage, visit, window, passed>>
      /\ counters \in [Callers \X Windows -> Counter]
  BY PipelineAssumption DEF Tick, ChainInv, ChainTypes
<1>2. ThisWindow \in Nat /\ ThisWindow' \in Nat /\ ThisWindow <= ThisWindow'
  BY <1>1, Division DEF ThisWindow
<1>3. \A k \in Callers \X Windows :
        /\ counters'[k] = IF counters[k].expires \in 0..now' THEN Gone ELSE counters[k]
        /\ k[2] \in Nat /\ counters[k].count \in Nat
  BY <1>1 DEF Tick, Windows, Counter
<1>4. CountInv'
  <2> SUFFICES ASSUME NEW k \in Callers \X Windows
               PROVE  /\ k[2] > ThisWindow' => counters'[k].count = 0 /\ passed[k] = 0
                      /\ counters'[k].count = 0 => counters'[k].expires = NULL
                      /\ k[2] = ThisWindow' => passed[k] <= counters'[k].count /\ LivesOn(k)'
                      /\ passed[k] <= Limit(k[1])
    BY <1>1 DEF CountInv
  <2>1. CASE k[2] > ThisWindow
    <3>1. counters[k].count = 0 /\ counters[k].expires = NULL /\ passed[k] = 0 /\ passed[k] <= Limit(k[1])
      BY <2>1 DEF RateInv, CountInv
    <3>2. counters'[k].count = 0 /\ counters'[k].expires = NULL
      BY <1>3, <3>1 DEF Gone
    <3> QED BY <3>1, <3>2 DEF LivesOn
  <2>2. CASE k[2] = ThisWindow /\ ThisWindow = ThisWindow'
    <3>1. LivesOn(k) /\ passed[k] <= counters[k].count /\ passed[k] <= Limit(k[1])
          /\ (counters[k].count = 0 => counters[k].expires = NULL)
      BY <2>2 DEF RateInv, CountInv
    <3>2. now' \div Window = k[2]
      BY <2>2 DEF ThisWindow
    <3>3. counters[k].expires \notin 0..now'
      BY <1>1, <3>1, <3>2, PipelineAssumption DEF LivesOn
    <3>4. counters'[k] = counters[k]
      BY <1>3, <3>3
    <3>5. LivesOn(k)'
      BY <3>1, <3>4 DEF LivesOn
    <3> QED BY <1>2, <2>2, <3>1, <3>4, <3>5
  <2>3. CASE k[2] < ThisWindow'
    <3>1. passed[k] <= Limit(k[1]) /\ (counters[k].count = 0 => counters[k].expires = NULL)
      BY DEF RateInv, CountInv
    <3> QED BY <1>2, <1>3, <2>3, <3>1 DEF Gone
  <2> QED BY <1>2, <1>3, <2>1, <2>2, <2>3
<1>5. ExpireInv'
  <2> SUFFICES ASSUME NEW k \in Callers \X Windows, NEW r \in Requests, Expires(r, k)
               PROVE  /\ counters'[k].count > 0 /\ counters'[k].expires = NULL
                      /\ \A q \in Requests : Expires(q, k) => q = r
                      /\ k[2] = ThisWindow' =>
                           /\ passed[k] < counters'[k].count
                           /\ Limit(k[1]) > 0 => passed[k] < Limit(k[1])
    BY <1>1 DEF ExpireInv, Expires, counter, caller
  <2>1. counters[k].expires = NULL /\ counters'[k] = counters[k]
    BY <1>1, <1>3, PipelineAssumption DEF RateInv, ExpireInv
  <2>2. k[2] <= ThisWindow
    BY CounterTypes DEF Expires
  <2> QED BY <1>2, <1>3, <2>1, <2>2 DEF RateInv, ExpireInv
<1> QED BY <1>4, <1>5 DEF RateInv

\* A request that was counted leaves, or goes on to the route.
LEMMA AdmitMoves ==
  ASSUME ChainInv, NEW r \in Requests, NEW count, Admit(r, count)
  PROVE  /\ \A q \in Requests, k \in Callers \X Windows : Expires(q, k)' <=> q # r /\ Expires(q, k)
         /\ \/ UNCHANGED passed
            \/ /\ window[r] = ThisWindow /\ ~(count > Limit(caller(r)))
               /\ passed' = [passed EXCEPT ![counter(r)] = @ + 1]
<1>1. CASE Leave(r, "other") /\ UNCHANGED passed
  BY <1>1, OthersExpire DEF Leave, Stages
<1>2. CASE /\ Advance(r, "route") /\ UNCHANGED <<visit, window>>
           /\ ~(count > Limit(caller(r)))
           /\ passed' = IF window[r] # now \div Window THEN passed
                        ELSE [passed EXCEPT ![counter(r)] = @ + 1]
  BY <1>2, OthersExpire DEF Stages, ThisWindow
<1> QED BY <1>1, <1>2 DEF Admit

\* The steps that send no command of the rate limit.
Uncounted ==
  \/ \E r \in Requests :
       \/ Middleware(r) \/ Enter(r) \/ Authenticate(r) \/ BuildKey(r) \/ Route(r) \/ RouteBroken(r)
  \/ \E k \in Keys : Entries(k)
  \/ UNCHANGED allvars

LEMMA UncountedMoves ==
  ASSUME ChainInv, Uncounted
  PROVE  /\ UNCHANGED <<now, counters, passed, chainFaults>>
         /\ \A q \in Requests, k \in Callers \X Windows : Expires(q, k)' <=> Expires(q, k)
<1>1. CASE UNCHANGED pipeline
  BY <1>1 DEF pipeline, Expires, counter, caller
<1>2. ASSUME NEW r \in Requests, stage[r] # "expire", NEW s \in Stages \ {"expire"}, Advance(r, s),
             UNCHANGED <<now, counters, passed, chainFaults>>,
             \/ UNCHANGED <<visit, window>>
             \/ visit' = [visit EXCEPT ![r] = NULL] /\ window' = [window EXCEPT ![r] = NULL]
      PROVE  /\ UNCHANGED <<now, counters, passed, chainFaults>>
             /\ \A q \in Requests, k \in Callers \X Windows : Expires(q, k)' <=> Expires(q, k)
  BY <1>2, OthersExpire DEF Expires
<1>3. ASSUME NEW r \in Requests, Enter(r) \/ BuildKey(r)
      PROVE  \A q \in Requests, k \in Callers \X Windows : Expires(q, k)' <=> Expires(q, k)
  <2>1. /\ stage[r] # "expire" /\ stage'[r] # "expire"
        /\ \A q \in Requests \ {r} :
             stage'[q] = stage[q] /\ visit'[q] = visit[q] /\ window'[q] = window[q]
    BY <1>3 DEF Enter, BuildKey, Advance, ChainInv, ChainTypes
  <2> QED BY <2>1 DEF Expires, counter, caller
<1>4. ASSUME NEW r \in Requests, Enter(r) \/ BuildKey(r)
      PROVE  UNCHANGED <<now, counters, passed, chainFaults>>
  BY <1>4 DEF Enter, BuildKey
<1>5. ASSUME NEW r \in Requests, Authenticate(r) \/ Route(r) \/ RouteBroken(r)
      PROVE  /\ UNCHANGED <<now, counters, passed, chainFaults>>
             /\ \A q \in Requests, k \in Callers \X Windows : Expires(q, k)' <=> Expires(q, k)
  BY <1>2, <1>5 DEF Authenticate, Route, RouteBroken, Leave, Stages
<1> QED BY <1>1, <1>3, <1>4, <1>5 DEF Uncounted, Middleware, Entries, allvars, pipeline

\* INCR, and what becomes of its request.
LEMMA IncrMoves ==
  ASSUME ChainInv, RateInv, NEW r \in Requests, Incr(r)
  PROVE  /\ RateInv'
         /\ \A q \in Requests, k \in Callers \X Windows :
              Expires(q, k)' <=> \/ Expires(q, k)
                                 \/ q = r /\ k = counter(r) /\ counters[k].count = 0
<1>1. /\ counter(r) \in Callers \X Windows /\ counters'[counter(r)].count = counters[counter(r)].count + 1
      /\ counters[counter(r)].count \in Nat /\ stage[r] = "incr" /\ UNCHANGED now
      /\ Limit(caller(r)) \in Nat /\ counters' = Counted(counter(r))
  BY CounterTypes DEF Incr, Counted, Counter, ChainInv, ChainTypes
<1>2. CASE First(counters'[counter(r)].count) /\ Advance(r, "expire") /\ UNCHANGED <<visit, window, passed>>
  <2>1. counters[counter(r)].count = 0
    BY <1>1, <1>2 DEF First
  <2>2. \A q \in Requests, k \in Callers \X Windows :
          Expires(q, k)' <=> Expires(q, k) \/ (q = r /\ k = counter(r) /\ counters[k].count = 0)
    BY <1>1, <1>2, <2>1 DEF Advance, Expires, counter, caller, ChainInv, ChainTypes
  <2> QED BY <1>1, <1>2, <2>2, IncrRate
<1>3. CASE ~First(counters'[counter(r)].count) /\ Admit(r, counters'[counter(r)].count)
  <2>1. counters[counter(r)].count > 0
    BY <1>1, <1>3 DEF First
  <2>2. \A q \in Requests, k \in Callers \X Windows :
          Expires(q, k)' <=> Expires(q, k) \/ (q = r /\ k = counter(r) /\ counters[k].count = 0)
    BY <1>1, <1>3, <2>1, AdmitMoves DEF Expires
  <2>3. \/ UNCHANGED passed
        \/ /\ window[r] = ThisWindow /\ counters[counter(r)].count + 1 <= Limit(caller(r))
           /\ passed' = [passed EXCEPT ![counter(r)] = @ + 1]
    BY <1>1, <1>3, AdmitMoves
  <2> QED BY <1>1, <2>1, <2>2, <2>3, IncrRate
<1> QED BY <1>2, <1>3 DEF Incr

LEMMA ExpireMoves ==
  ASSUME ChainInv, RateInv, NEW r \in Requests, Expire(r)
  PROVE  /\ RateInv'
         /\ \A q \in Requests, k \in Callers \X Windows : Expires(q, k)' <=> q # r /\ Expires(q, k)
<1>1. \A q \in Requests, k \in Callers \X Windows : Expires(q, k)' <=> q # r /\ Expires(q, k)
  BY AdmitMoves DEF Expire
<1>2. \/ UNCHANGED passed
      \/ /\ window[r] = ThisWindow /\ 1 <= Limit(caller(r))
         /\ passed' = [passed EXCEPT ![counter(r)] = @ + 1]
  <2>1. Limit(caller(r)) \in Nat
    BY CounterTypes DEF Expire
  <2> QED BY <2>1, AdmitMoves DEF Expire
<1> QED BY <1>1, <1>2, ExpireRate DEF Expire

LEMMA RateStep ==
  ASSUME ChainInv, RateInv, [PipelineNext]_allvars
  PROVE  RateInv'
<1>1. CASE Uncounted
  BY <1>1, UncountedMoves, RateKept
<1>2. ASSUME NEW r \in Requests, ChainRedisFails(r) PROVE RateInv'
  <2>1. \A q \in Requests, k \in Callers \X Windows : Expires(q, k)' <=> q # r /\ Expires(q, k)
    BY <1>2, OthersExpire DEF ChainRedisFails, Leave, Stages
  <2>2. CASE UNCHANGED counters
    BY <1>2, <2>1, <2>2, RateKept DEF ChainRedisFails
  <2>3. CASE stage[r] = "expire" /\ counters' = Expiring(counter(r))
    BY <1>2, <2>1, <2>3, ExpireRate DEF ChainRedisFails
  <2>4. CASE stage[r] = "incr" /\ counters' = Counted(counter(r))
    BY <1>2, <2>1, <2>4, IncrRate DEF ChainRedisFails, Expires
  <2> QED BY <1>2, <2>2, <2>3, <2>4 DEF ChainRedisFails
<1>3. CASE PipelineCrash
  <2>1. \A q \in Requests, k \in Callers \X Windows : ~Expires(q, k)'
    BY <1>3 DEF PipelineCrash, Expires
  <2> QED BY <1>3, <2>1, RateKept DEF PipelineCrash
<1> QED BY <1>1, <1>2, <1>3, IncrMoves, ExpireMoves, TickRate DEF PipelineNext, Uncounted

LEMMA RateInit ==
  ASSUME PipelineInit
  PROVE  RateInv
<1>1. now = 0 /\ ThisWindow \in Nat /\ stage = [r \in Requests |-> "none"]
  BY Division, PipelineAssumption DEF PipelineInit, ThisWindow
<1>2. \A k \in Callers \X Windows : counters[k] = Gone /\ passed[k] = 0 /\ Limit(k[1]) >= 0
  BY PipelineAssumption DEF PipelineInit, Limit
<1>3. CountInv
  BY <1>2 DEF CountInv, LivesOn, Gone
<1>4. ExpireInv
  BY <1>1 DEF ExpireInv, Expires
<1> QED BY <1>3, <1>4 DEF RateInv

LEMMA RatesCorrect == PipelineSpec => []RateInv
BY RateInit, RateStep, ChainTypesCorrect, PTL DEF PipelineSpec

\* Of the requests of one caller that count within a window no more than the limit pass,
\* in whatever order INCR, EXPIRE, failures and the drop of old counters come: a counter
\* lives to the end of its window, and who is to set its expiry is counted in it.
THEOREM LimitIsKept == PipelineSpec => []WithinLimit
<1>1. RateInv => WithinLimit
  <2> SUFFICES ASSUME RateInv, NEW c \in Callers, NEW w \in Windows
               PROVE  passed[<<c, w>>] <= Limit(c)
    BY DEF WithinLimit
  <2>1. <<c, w>> \in Callers \X Windows /\ <<c, w>>[1] = c
    OBVIOUS
  <2> QED BY <2>1 DEF RateInv, CountInv
<1> QED BY <1>1, RatesCorrect, PTL

\* Without faults, whoever counts 1 sets the expiry: no counter is left to count for ever.
THEOREM CountersAlwaysExpire == PipelineSpec => []CountersExpire
<1>1. PipelineInit => CountersExpire
  BY DEF PipelineInit, CountersExpire, Gone
<1>2. ASSUME ChainInv, TypeInv, RateInv, CountersExpire, [PipelineNext]_allvars PROVE CountersExpire'
  <2>1. faults \in Nat /\ chainFaults \in Nat /\ counters \in [Callers \X Windows -> Counter]
    BY <1>2 DEF TypeInv, Types, ChainInv, ChainTypes
  <2>2. SUFFICES ASSUME faults' = 0, chainFaults' = 0, NEW k \in Callers \X Windows,
                        counters'[k].count > 0, counters'[k].expires = NULL
                 PROVE  \E r \in Requests : Expires(r, k)'
    BY <1>2, ChainInvStep DEF CountersExpire, Expires, ChainInv, ChainTypes
  <2>3. faults = 0 /\ chainFaults = 0 => 
          (counters[k].count > 0 /\ counters[k].expires = NULL => \E r \in Requests : Expires(r, k))
    BY <1>2, <2>1 DEF CountersExpire, Expires
  <2>4. faults = 0 /\ ~PipelineCrash
    <3>1. ~Fault
      BY <2>1, <2>2 DEF Fault
    <3>2. ~PipelineCrash /\ \A r \in Requests : ~RedisFails(r)
      BY <3>1 DEF PipelineCrash, Crash, RedisFails
    <3>3. UNCHANGED faults
      BY <1>2, <3>1, <3>2 DEF PipelineNext, Middleware, Receive, PassBy, Get, TryLock, Store, Unlock,
         Enter, Authenticate, BuildKey, Incr, Expire, Admit, Route, RouteBroken, ChainRedisFails,
         Entries, CorruptEntry, ExpireLock, ExpireResp, Tick, allvars, vars, idempotency
    <3> QED BY <2>2, <3>2, <3>3
  <2>5. chainFaults = 0 /\ \A r \in Requests : ~ChainRedisFails(r)
    <3>1. \A r \in Requests : ~ChainRedisFails(r)
      BY <2>1, <2>2 DEF ChainRedisFails
    <3>2. CASE Uncounted
      BY <1>2, <2>2, <3>1, <3>2, UncountedMoves
    <3> QED BY <1>2, <2>2, <2>4, <3>1, <3>2 DEF PipelineNext, Uncounted, Incr, Expire, Tick
  <2>6. CASE Uncounted
    <3>1. UNCHANGED counters /\ \A q \in Requests : Expires(q, k)' <=> Expires(q, k)
      BY <1>2, <2>6, UncountedMoves
    <3> QED BY <2>2, <2>3, <2>4, <2>5, <3>1
  <2>7. ASSUME NEW r \in Requests, Incr(r) PROVE \E q \in Requests : Expires(q, k)'
    <3>1. /\ counter(r) \in Callers \X Windows /\ counters' = Counted(counter(r))
          /\ counters[k].count \in Nat
      BY <1>2, <2>1, <2>7, CounterTypes DEF Incr, Counter
    <3>2. counters[k].expires = NULL /\ (counters[k].count > 0 \/ k = counter(r))
      BY <2>1, <2>2, <3>1 DEF Counted
    <3>3. \/ \E q \in Requests : Expires(q, k)
          \/ k = counter(r) /\ counters[k].count = 0
      BY <2>3, <2>4, <2>5, <3>1, <3>2
    <3> QED BY <1>2, <2>7, <3>3, IncrMoves
  <2>8. ASSUME NEW r \in Requests, Expire(r) PROVE \E q \in Requests : Expires(q, k)'
    <3>1. counter(r) \in Callers \X Windows /\ counters' = Expiring(counter(r)) /\ now + Window # NULL
      BY <1>2, <2>8, CounterTypes, PipelineAssumption DEF Expire, ChainInv, ChainTypes
    <3>2. k # counter(r) /\ counters[k].count > 0 /\ counters[k].expires = NULL
      BY <2>1, <2>2, <3>1 DEF Expiring, Counter
    <3>3. PICK q \in Requests : Expires(q, k)
      BY <2>3, <2>4, <2>5, <3>2
    <3>4. q # r
      BY <3>2, <3>3 DEF Expires
    <3> QED BY <1>2, <2>8, <3>3, <3>4, ExpireMoves
  <2>9. CASE Tick
    <3>1. counters[k].count > 0 /\ counters[k].expires = NULL
      BY <2>1, <2>2, <2>9 DEF Tick, Gone
    <3> QED BY <2>3, <2>4, <2>5, <2>9, <3>1 DEF Tick, Expires, counter, caller
  <2> QED BY <1>2, <2>4, <2>5, <2>6, <2>7, <2>8, <2>9 DEF PipelineNext, Uncounted
<1> QED BY <1>1, <1>2, ChainTypesCorrect, StagesCorrect, RatesCorrect, PTL DEF PipelineSpec
=============================================================================
