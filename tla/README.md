# A TLA+ verification of the NovaCard services

The repository is a credit-card backend of small FastAPI services: an **edge** that every client
call passes, a **transaction service** that posts purchases to a double-entry ledger, and mocks
around them. This directory models the parts whose correctness depends on the order of events,
checks them with TLC on small instances, and proves the safety properties of the purchase path, the snapshot
scripts and the edge, and both refinements, for every instance with TLAPS.

Paths below are relative to the repository's root; `txn` stands for `novacard-transaction-svc/app`
and `edge` for `novacard-edge/app`.

## 1. The system

| Component | State | Operations | What makes it correct |
|---|---|---|---|
| Purchase route (`txn/routes/purchase.py`) | local variables of each request; sessions of the pool | `POST /purchase`: replay, lock, one database transaction, final response | a key is decided once; answers speak of committed transactions; every request is answered |
| Ledger manager (`txn/services/ledger_manager.py`) | rows of `accounts`, `account_balance_snapshots`, `ledger_entries` | `post_purchase_atomic` | never beyond the credit limit; both legs or none; the snapshot is the sum of the ledger |
| Idempotency store (`txn/services/idempotency.py`) | Redis `txn:final:*`, `txn:lock:*` | `idem_get_final`, `idem_try_lock`, `idem_set_final` | one request of a key at a time; the lock is released |
| Schema (`sql/migrations/c7_1_a_*.sql`) | tables, CHECKs, unique indexes, foreign keys | what INSERT and UPDATE accept, wait for and lock | the last line of defence of the above |
| Snapshot maintenance (migrations 02 and 04, `txn/services/snapshot_rebuild.py`) | snapshot rows | backfill, rebuild | repairs what is broken, breaks nothing |
| Circuit breaker (`edge/utils/circuit_breaker.py`) | `state`, `failures`, timestamps | `allow`, `record_success`, `record_failure` | opens at the threshold; few probes while half open |
| Downstream client (`edge/clients/downstream.py`) | breaker per service; attempts under way | `forward` | retries only what may be retried; always ends |
| Edge idempotency (`edge/middleware/idempotency.py`) | Redis `idem:resp:*`, `idem:lock:*` | `dispatch` for protected POSTs | one request of a key at work, and one more for each time its lock expired too early; faithful replay; no lock left behind |
| User service gate (`novacard-user-mock/app/middleware_service_auth.py`, `security/replay_protection.py`, `middleware_request_signing.py`) | Redis `svc:jti:*` | accept a service token while it is current, once, with a signature of the same minutes | a delayed duplicate is not handled twice; what arrives in time is not refused |
| Database pool (`txn/db.py`) | the global `_pool` | `get_pool`, created by the first request that needs it | a request that goes on has a pool |
| User authentication of the transaction service (`txn/middleware/user_auth.py`) | none | 401, or the user's id for the route | nothing is touched before it |
| Rate limit (`edge/middleware/rate_limit.py`) | Redis `rl:user:*`, `rl:ip:*` | `dispatch`: INCR, EXPIRE, compare | no more than the limit per caller and window; counters expire |
| Middleware order, user authentication, routes, error mapping (`novacard-edge/main.py`, `edge/middleware/auth_user_jwt.py`, `edge/routing`, `edge/utils/error_mapping.py`) | none | per-request filters; a response or an exception for each result of `forward` | what they answer or raise leaves the middleware before them consistent |
| Authentication mock, account service, metrics, audit, health | none that matters | stateless or read-only | not modelled (section 9) |

How they interact. A client calls the edge. The edge's middleware chain ends in a route, which
calls `DownstreamClient.forward`; that sends the request, with a service token, to a service. The
transaction service has one asyncio loop: its requests interleave at every `await`, share one Redis
and a pool of at most five PostgreSQL connections, and meet each other only through Redis keys and
row locks. Operators run the snapshot scripts against the same database.

What is hard: interleavings of awaits between two stores that know nothing of each other; the final
response is written to Redis *before* the COMMIT that makes it true; a lock without an owner; row locks
of three kinds, with a foreign-key lock taken before a stronger lock on the same row; restarts, lost
acknowledgements and expiring keys; a breaker that many calls read and write; attempts that
arrive after they were given up, at a service with another clock; a lock that expires under its holder. `PROJECT.json` lists each such hazard at the line where it bites, with
the properties that would see it go wrong.

## 2. The modules

    Domain ── LedgerDB ─────────┐
       └───── IdempotencyStore ─┴─ Purchase ── PurchaseProperties ─┬─ PurchaseRefinement ── AtomicPurchase (INSTANCE)
                                                                   ├─ PurchaseClaims
                                                                   └─ SnapshotOps
    CircuitBreaker ─┬─ EdgeForward               EdgeIdempotency ── EdgePipeline
    ServiceGate ────┘

and, with the theorems (section 7),

    LedgerDB ──── LedgerSums ─┐
    PurchaseProperties ───────┴─ PurchaseTypeProofs ── PurchaseProofs ─┬─ PurchaseAnswersProofs
    PurchaseRefinement ────────────────────────────────────────────────┴─ PurchaseRefinementProofs ─┐
    SnapshotOps ────────────────────────────────────────────────────────────────────────────────────┴─ SnapshotOpsProofs
    EdgeForward ── EdgeForwardProofs
    EdgePipeline ── EdgePipelineProofs

`MCPurchase`, `MCSnapshotOps`, `MCEdgeForward` and `MCEdgePipeline` only give the constants of
the runs their values.

**LedgerDB** is PostgreSQL as this code uses it, at READ COMMITTED. Committed rows are in
`transactions`, `ledger_entries`, `snapshots` and `status`. What a session has done since BEGIN is
`work[s]`: its row, its legs, its snapshot writes, and its locks (`share`: FOR KEY SHARE of a
foreign-key check, `excl`: FOR UPDATE of an account, `snaplock`: a locked or written snapshot row).
`Publish` is COMMIT, `Rollback` drops the record. `KeyWaits`, `ShareWaits`, `ExclWaits`, `SnapWaits`
and `SnapInsertWaits` name the sessions a statement has to wait for; a SELECT FOR UPDATE does not see a row another
session has inserted and not committed, and only an INSERT of the same row waits for it. A set of statements that wait
in a circle is a deadlock, which PostgreSQL resolves by failing any one of them (`OnCycle`).

**IdempotencyStore** has an operator per Redis command. A stored value is absent, corrupt, or a
response with its status and transaction.

**Purchase** is the handler. Its control point `pc[r]` is the await the request stands at, and each
await is an action:

| `pc` | Code | Action |
|---|---|---|
| `idle` | `UserAuthMiddleware`: 401, or the request goes on to `get_pool`; a handler that has a pool refuses it (400) or begins | `Unauthorized`, `Receive` |
| `create_pool` | `connect_db`: `asyncpg.create_pool`; then 400 or the handler begins | `CreatePool`, `CreateFails` |
| `get_final`, `heal_final` | `idem_get_final` | `GetFinal`, `HealFinal` |
| `try_lock` | `idem_try_lock` | `TryLock` |
| `begin` | `pool.acquire`, `conn.transaction` | `Begin` |
| `find_account` | `_get_user_account_id` | `FindAccount` |
| `insert_txn`, `fk_account` | `INSERT INTO transactions` and its foreign-key check | `InsertTxn`, `FkAccount` |
| `lock_account` | SELECT account FOR UPDATE, status and currency | `LockAccount` |
| `ensure_snap`, `lock_snap`, `heal_snap` | INSERT snapshot ON CONFLICT, SELECT FOR UPDATE, self-heal; credit check | `EnsureSnap`, `LockSnap`, `HealSnap` |
| `insert_ledger`, `update_snap` | two legs, new balance | `InsertLedger`, `UpdateSnap` |
| `mark_posted`, `mark_declined` | UPDATE of the row's status | `Mark` |
| `set_final`, `del_lock` | `idem_set_final`, inside the transaction | `SetFinal`, `DelLock` |
| `commit` | end of the `async with`, then the response | `Commit` |
| `fail_set`, `fail_del` | `except Exception` | `FailSet`, `FailDel` |

The pool is a dependency of the route, so it is resolved after authentication and before the handler's body
looks at the `Idempotency-Key`. `pool` is the global `_pool`, `mine[r]` the pool a handler works with: several
requests that find `_pool` None each create one, and the last replaces the others' in the global while they go on with
theirs. Each pool has its own bound (`PoolFull(r)`).

Around them is the environment: `RedisFails` (the command may or may not have taken effect), `DbFails`,
`CommitLost`, `Crash` with restart, expiry and corruption of Redis entries, loss and corruption of a
snapshot row, and a change of an account's status.

**PurchaseProperties** states what the route promises; **PurchaseClaims** what the repository says
and the code does not keep. **AtomicPurchase** is the abstract specification: each user and key is
decided at most once, in one step, out of credit the account really has. **PurchaseRefinement** maps
the handler to it: the outcome of a key is its committed row, the available credit is what the credit
check would compute from the snapshot, and only COMMIT decides.

**SnapshotOps** runs the backfill and the rebuild, statement by statement, beside the purchases, with
deadlocks between scripts and requests.

**CircuitBreaker** has the breaker's three methods as functions of its record and the clock (none of
them awaits). **EdgeForward** runs concurrent `forward` calls over one breaker, with timeouts (httpx's 5 s bound
each phase and chunk, so that an attempt may be waited for longer), retries, the errors that are never retried
(`OtherError`), and attempts that arrive late, against a service with or without the gate. **ServiceGate** says what the edge
sends (a token and a signature of one second, built once per `forward`) and how the user service judges it by its own
clock: `Current` (the `exp` and `iat` checks of `jwt.decode` and of the middleware), `Memory` (for how long the jti is
kept), `InWindow` (the signature's timestamp, which is checked after the jti was remembered). `skew` is the difference
of the two clocks.
**EdgeIdempotency** is the edge's `dispatch` for protected POSTs, with other requests passing by. All that
`call_next` leads to is one step, which may have an effect, answer or raise. `ExpireLock` is enabled whenever the lock
is set: EX 30 runs on whatever the holder waits for, and Redis (no socket timeout) or a slow reply can keep it longer. Then
another request takes the lock, and the first one's DEL, which does not look whose lock it is, deletes it. The history
variable `overran` counts the expiries under a holder; `AtWork(k)` is who stands between SET NX and DEL of a key, at the
edge: a service may still be busy with a call the edge has given up. **EdgePipeline** opens that step up:
the chain runs in the reverse of the order in which `main.py` adds it, so idempotency is followed by authentication,
rate limit and route. `stage[r]` is the await a request stands at inside the chain (`Enter`, `Authenticate`,
`BuildKey` after the PING, `Incr`, `Expire`, `Route`); `counters` are the Redis keys with their expiry. Idempotency
runs before authentication, so no `user_id` is set when it builds its keys and all callers are `anon`; the rate limit
runs after it and counts users, and addresses only below `/auth`. `Mapped`, `Controlled` (the transaction route, which
answers every failure) and `Broken` say what the routes make of a failed `forward`. The chain is shown to implement the one step (`ImplementsCallNext`), so that what holds of
`EdgeIdempotency` holds of the edge.

Abstractions. A transaction id is its request; a payload is its amount and currency; an account is a
model value. Formats, headers, logging and metrics are left out. `post_purchase_atomic`'s checks for a
non-positive amount and for a missing account are never true at this caller (pydantic, and the account was
just selected), and are left out.

## 3. Properties

Of the books: `NoOverspend` (the limit, counted from the ledger itself), `SnapshotMatchesLedger`,
`DoubleEntry`, `CreditNeverNegative`, `NoStaleApproval`, `ActiveAtPosting`. Of idempotency:
`OneTransactionPerKey`, `LockHasOneHolder`, `ResponsesBacked`, `AnswersAgree`. As a whole:
`ImplementsAtomicPurchase`. Of progress: `Answered`, `LockReleased`. Of the scripts: `BackfillHarmless`,
`DriftOnlyGrantsCredit`, `QuietRebuildRepairs`, `ScriptsFinish`. Of the pool: `PoolIsKept`. Of the edge and
the gate: `ClosedBelowThreshold`, `TwoProbesPerInterval`, `OpenSendsNobody`, `HandledOnce`, `PromptIsCurrent`,
`ExpiryAdmitsOne`, `ReplayIsFaithful`, `NoLockLeftBehind`, `WithinLimit`, `CountersExpire`, `ImplementsCallNext`.
The claims of section 6 are `PostedStaysFinal`, `DoneIsComplete`, `MissingIsRebuilt`, `NoOverspend` beside a rebuild, and
`RetryNotRefused`.
Each is preceded by a comment that names the behaviour it is about. Next to a definition, some modules
keep a *mutant* of it: a plausible bug that the property must detect.

The merchant is left out of `SnapshotMatchesLedger`: the code credits the merchant's ledger and
never its snapshot.

## 4. Runs

| Run | What it shows |
|---|---|
| `purchase_safety` | three requests, two users, two keys, three accounts (two currencies, one buyer purchases from the merchant's own account), one change of status: books, lock and answers are right in every interleaving |
| `purchase_faults` | one buyer, two keys competing for a limit that covers one purchase, one fault of any kind and expiries at any time; after a restart the remaining requests race to create the pool, and may fail to: the books stay right, and every step is one atomic decision or none |
| `purchase_progress` | pool of two for three requests, deadlocks, keys used twice, a snapshot lost (the self-heal branch) or corrupted: every request is answered, every lock released |
| `scripts_beside_purchases` | two scripts and two purchases, some of an amount beyond BIGINT, a snapshot dropped or corrupted: the backfill harms nothing; a rebuild's drift only ever grants credit |
| `scripts_progress` | a script and two purchases deadlock and still end; a rebuild on a quiet system repairs |
| `forward` | three calls, one of them a GET with both its retries, to a service with or without the gate, its clock as far ahead or behind as the gate tolerates: breaker, retries, tokens |
| `edge_replay` | two POSTs with one key and a request of another route, two bodies, the lock expiring at any time, a limit of 1, two windows, one fault of the idempotency middleware's and one of the rate limit's: who is at work beside whom, replay, unlocking, the limit, the counters, and the chain as one step |
| `retry_overwrites_final`, `crash_before_commit`, `missing_zeroed`, `rebuild_race`, `retry_refused` | disagreements of the code with the repository's statements (section 6) |

Bounds and why they suffice. Three requests: two that compete and a third that finds what the first has
left while the second still runs (the replay of a stored answer, a retry after a release, a DEL of someone
else's lock). Two keys: same-key and different-key competition at once. Limits of 1 or 2 with
amounts of 1 or 2: the boundary `amount = available`, and the purchase after it. `PoolSize = 2 < 3`: a
request waits for a connection held by one that waits for a row lock. `MaxFaults = 1` (in `edge_replay`, one of each kind):
every single failure at every await, with retries after it; expiries are not counted, as each needs a
new write. At the edge two POSTs of one key: the second begins as the lock expires under the first, and the first one's DEL
deletes the second's lock; that a third, which could then begin, is all that this lets in is left to the theorem, which
holds for any number (section 7). The other request goes to `/auth` or `/accounts`: what the transaction route does for the chain is part of
what `/auth` does, which can also raise. One key is enough, as requests with different keys meet only in the counters; `MaxTime = 2` with
`Window = 2` lets a request build its key in one window and count in the next. `MaxBigint = 3` against an amount of 4 stands for the overflow of BIGINT. At the edge `MAX_RETRIES` is the
real 2. The clock runs for two units (`MaxTime - StartTime`) with a window, a cooldown, a probe interval and a timeout of
one each and a token of two: each of them can end while a call is under way, a second one can begin, and an attempt can be
waited for beyond its timeout; it starts late, as `time.time()` does. `Skews` are the two ends of what a prompt call survives: behind by `Skew` (more, and `iat`
is in the future), ahead by `TokenTTL - Timeout` (more, and the token is over before the wait for it). With `Tolerance`
no smaller than `TokenTTL` and `Skew`, as in the shipped settings, a current token never fails the window of the signature;
`Accept` keeps that case for other values. Symmetry is used for requests, keys, scripts and
bodies only in runs without liveness.

`CHECK_DEADLOCK FALSE`: all runs end with every request answered, where the models have nothing left to do.

## 5. Fairness

`FairSpec` assumes weak fairness of each request's own steps, `Step(r)`: the event loop resumes a coroutine
whose await is complete, PostgreSQL grants a lock that is free and detects a deadlock
(`deadlock_timeout`), and a free connection goes to a waiter. A waiting statement is not enabled, so nothing is
assumed of it. Arrivals and faults are not fair. Weak fairness suffices for the pool and the row locks since
there are finitely many requests; the creation of a pool is one more such await. `OpsFairSpec` adds each script's own steps and its deadlocks.
`LockReleased` does not use the expiry: no fairness is assumed of `ExpireLock`.

## 6. Where the code and its documents disagree

Five disagreements have a run; `PROJECT.json` quotes the statements.

1. **A retry replaces a stored POSTED by FAILED** (`purchase.py:79`). The final response is read before the
   lock is taken and not read again. A retry between the two runs the purchase after the first has ended,
   fails on the unique index, and its `except` stores FAILED over POSTED. The books stay right
   (`OneTransactionPerKey`); what the client is told does not.
2. **POSTED can outlive a rollback** (`purchase.py:161`). The response is stored before COMMIT; after a crash
   in between, retries are told POSTED for a purchase that does not exist.
3. **A missing snapshot restarts at zero** (`ledger_manager.py:55`). The INSERT of 0 precedes the test for a
   missing row, so the self-heal branch is not reached in that case, and the account has its limit a second time.
4. **A rebuild beside purchases loses a debit** (migration 04, line 14). The sum is computed before the row
   lock is granted.
5. **The edge's retries are refused as replays** (`downstream.py:158`). One token, with one jti, serves all
   attempts of a `forward`.

At the edge the properties say what remains true of four more statements:

- `circuit_breaker.py:41`, "HALF_OPEN: allow one probe per interval". The transition from OPEN lets one call through and puts
  the next probe at `now`, not an interval later, so that a second one passes at once (`TwoProbesPerInterval`).
- `idempotency.py:23`, "Uses a short Redis lock to prevent duplicate in-flight downstream calls". The lock expires under a
  holder that still waits after 30 s, a second request works beside it, and the first one's DEL deletes the second's
  lock (`ExpiryAdmitsOne`).
- `idempotency.py:93`, "Call downstream (or internal handler) once". The stored response is read before the lock is taken and
  not read again under it: a POST that read nothing, and takes the lock once the first has stored its response and
  released it, is executed again. No property is stated of this; `ReplayIsFaithful` holds for each of the two.
- `main.py:26`, "request id -> logging -> rate limit -> auth -> idempotency -> routes". Starlette runs them in the reverse of
  the order in which they are added, so that a replay is served without having been counted by the rate limit.

Others were seen while modelling and have no run. The merchant's snapshot is never written by a purchase, so
it lags its ledger. The FAILED response names a transaction whose row was rolled back. No ACTIVE account, a 404
inside the `try`, becomes a 500 FAILED. A rebuild of an account without entries leaves its balance as it was: the
grouped subquery has no row. The lock's TTL is `IDEM_TTL_SECONDS = 3600`, where `dev-tasks/C7.1.A.txt` asks
for a short one: after a crash a key stays in progress for an hour. The connections of a pool that lost the race for
`_pool` are never closed (`close_db` has no caller). A refusal of the gate (401) is a success to the breaker. The jti is
remembered before the signature and the handler, so an attempt that fails after it cannot be repeated with its token.
`forward` signs `request.url` path and query as the edge has them and sends the query re-encoded from a dict: a repeated
query parameter fails the user service's signature check. An edge
response that is not 2xx is not stored, so a POST that fails at the edge may reach the service again. The routes below
`/auth` and `/users` turn a failed `forward` into an unhandled TypeError, where the comment at `proxy.py:85` says
"Controlled failure response (no 500)"; `/kyc` and `/accounts` always answer 503, as their calls of `forward` lack an
argument and a setting. A failed authentication is never counted by the rate limit. A request that counts after its
window has ended may find a new counter (`WithinLimit` speaks of those that count in time).

## 7. What is proved

All theorems hold for any sets of requests, users, keys, accounts, amounts, currencies, bodies and calls, any pool size,
limits, windows and retries, and any number of faults. They assume what the modules assume of their constants, each in
a named ASSUME that TLC evaluates in every run (among them that an absent value is no integer, row or
response), and what the third column names.

| Theorem | States | Assumes besides |
|---|---|---|
| `TypeCorrect` | `Spec => []TypeOK` | |
| `PoolKept` | `Spec => []PoolIsKept` | |
| `KeysNameOneTransaction` | `Spec => []OneTransactionPerKey` | |
| `ApprovalsAreFresh` | `Spec => []NoStaleApproval` | |
| `CreditIsNeverNegative` | `Spec => []CreditNeverNegative` | `NoDrop` |
| `PostsOnlyWhileActive` | `Spec => ActiveAtPosting` | |
| `BooksBalance` | `Spec => []DoubleEntry` | |
| `LockIsExclusive` | `Spec => []LockHasOneHolder` | `LockSteady` |
| `ResponsesAreTrue` | `Spec => []ResponsesBacked` | `NothingUndone` |
| `RetriesAgree` | `Spec => []AnswersAgree` | `NothingUndone` |
| `HandlerIsAtomicPurchase` | `Spec => ImplementsAtomicPurchase` | `SnapshotsOwned` |
| `SnapshotsAreSums` | `Spec => []SnapshotMatchesLedger` | `SnapshotsOwned` |
| `LedgerIsNeverOverspent` | `Spec => []NoOverspend` | `SnapshotsOwned` |
| `OpsTypeCorrect` | `OpsSpec => []OpsTypeOK` | |
| `PurchasesBesideScripts` | `OpsSpec => [](OneTransactionPerKey /\ DoubleEntry /\ NoStaleApproval)` | |
| `DriftGrantsCredit` | `OpsSpec => []DriftOnlyGrantsCredit` | |
| `BackfillsAreHarmless` | `OpsSpec => []BackfillHarmless` | |
| `BackfillIsInvisible` | `OpsSpec => ImplementsAtomicPurchase` | `FillOnly` |
| `ForwardTypeCorrect` | `Spec => []TypeOK` of `EdgeForward` | |
| `BreakerOpensInTime` | `Spec => []ClosedBelowThreshold` | |
| `ProbesAreFew` | `Spec => []TwoProbesPerInterval` | `OpenCooldown > 0` |
| `HandlersRunOnce` | `Spec => HandledOnce` | |
| `PromptAttemptsAreCurrent` | `Spec => PromptIsCurrent` | `SkewsTolerated` |
| `OpenBreakerSendsNobody` | `Spec => []OpenSendsNobody` | |
| `DispatchTypes` | `Spec => []TypeInv` of `EdgeIdempotency` | |
| `EachExpiryAdmitsOne` | `Spec => []ExpiryAdmitsOne` | |
| `LocksEndWithTheWork` | `Spec => []NoLockLeftBehind` | |
| `ReplaysAreFaithful` | `Spec => []ReplayIsFaithful` | |
| `ChainTypesCorrect` | `PipelineSpec => []ChainInv` | |
| `ChainIsCallNext` | `PipelineSpec => ImplementsCallNext` | |
| `ChainKeepsPromises` | `PipelineSpec => [](ExpiryAdmitsOne /\ ReplayIsFaithful /\ NoLockLeftBehind)` | |
| `LimitIsKept` | `PipelineSpec => []WithinLimit` | |
| `CountersAlwaysExpire` | `PipelineSpec => []CountersExpire` | |

`NoDrop`: no operator deletes a snapshot row. After such a DELETE the next purchase starts at zero, or the self-heal
branch writes the sum over the ledger, and neither asks whether the limit still covers what other transactions have
written: the credit of that account is no longer what its snapshot says (`missing_zeroed`), so nothing is claimed of it.
The other theorems hold with such a DELETE, the self-heal included. `SnapshotsOwned`: besides, nothing but the
handler writes a wrong balance into a snapshot; otherwise credit appears from nowhere, the snapshot is not the sum, and
nothing atomic is implemented. `FillOnly`: `SnapshotsOwned`, and no rebuild is started (`rebuild_race` shows what it does).
`NothingUndone`: Redis and PostgreSQL answer and the service is not restarted. Without it the property is false
(`crash_before_commit`). A lost acknowledgement of COMMIT is allowed: the handler stores FAILED, which no
theorem calls a decision. `LockSteady`: besides, no acknowledgement is lost (the handler would delete the lock a second
time, when another may hold it) and the lock does not expire. `SkewsTolerated`: the clocks of edge and service differ by
no more than `Skew` one way and `TokenTTL - Timeout` the other, and the window of the signature is no smaller than `Skew`
and `TokenTTL`. `OpenCooldown > 0`: with a cooldown of zero, calls sent just before the breaker opened would be taken
for probes.

**The sum.** `LedgerBalance` is the rebuild query's `SUM`, a fold of the community modules: a function on the subsets of
a set that CHOOSE takes among those which satisfy a recursive equation. `LedgerSums` proves that one exists for every finite
ledger (`FoldExists`), that its value is an integer, and that a row added or removed counts once (`TotalAdd`,
`TotalRemove`), whichever element CHOOSE picked first. The induction is `SetInduction`: a fact about the subsets of a finite set is
given as the *set* of the subsets for which it holds, so that no theorem with an operator parameter is
needed, and its smallest counterexample exists since strict inclusion is well-founded on finite sets. This is what
allows the self-heal branch in all invariants, and those that compare snapshots with the ledger.

**The purchase.** `TypeOK` is not inductive: a step uses the local variables its await relies on. `LocalInv`
says what they hold at each `pc`, and `FiniteInv` that the ledger and the open legs are finite, so that the self-heal's sum
is an integer; with `CoreTypeOK` they are `TypeInv`. The pools
have an invariant of their own, `PoolInv`, over a case split (`PoolCases`) of what a step may do to them. `NextCases` then
reduces every step to one of sixteen effects of the handler on the tables, the
sessions and the local variables (outside the transaction, abort, end, and one per statement), a crash, an
operator's step (a snapshot dropped or corrupted, a status changed), or nothing; all later proofs go over these. The parts of
`SafeInv` are

- `KeyInv`: the rows of open transactions differ in key from one another and from the committed ones. Without
  it a COMMIT could add a key a second time. It does not mention the Redis lock: the unique index alone suffices,
  so the theorem holds with lock expiry and every Redis failure.
- `SnapLockInv`: who has written or locked a snapshot row is the only one, and the row is there.
- `ApprovalInv`: between the credit check and the new snapshot the request holds that lock, `bal[r]` is still
  the row's balance, and it covers the amount. With `SnapLockInv`, another's COMMIT cannot change the row.
- `ActiveInv`: from the status check to COMMIT a request that will post holds the account's row lock, so that
  `SetStatus` waits and the account is still ACTIVE.

`SolventInv` adds, for the credit, `CreditInv` (no snapshot, committed or written in an open transaction, is below minus
the limit) and `HealInv` (where no row is ever deleted, a row found by the INSERT stays, and the self-heal is not reached).

`BooksInv` adds what the sessions hold: the row of an open transaction is its request's own, for an account of its
user (`RowInv`); the legs are both there once `insert_ledger` is behind a request that will be POSTED, and none
otherwise (`LegsInv`); the request of a committed row is past its transaction for good, so that nobody writes a second
row or a third leg (`PastInv`).

`AnswerInv` (responses) follows a response from the session through Redis to the next retry: whatever is stored for a key
or was sent to its client names a request of that key whose row is committed, or open and about to be committed with that
very status. Two such rows of one key are the same by `KeyInv`, which is `RetriesAgree`. `HolderInv` (lock) says that
exactly one request of a locked key, and none of a free one, stands between SET NX and DEL.

`DecisionInv` (refinement) says what COMMIT is about to decide. `EffectInv`: publishing a session takes the amount from
the request's own account if it will be POSTED, and nothing from any other. `ReasonInv`: a DECLINED has a reason (status,
currency or credit) that still holds at COMMIT, since the row locks under which it was found are held until then. So COMMIT
is `AtomicPurchase`'s decision, judged by the credit and the status of that moment although they were read many
statements earlier; every other step stutters, a failed COMMIT included; and a COMMIT whose acknowledgement is lost is
a decision all the same.

`MatchInv` (ledger) ties each snapshot to the sum of its account's rows: equal for a user's account, and no more for the
merchant's, which the code credits in the ledger alone. A COMMIT adds two legs to the ledger
and, by `EffectInv`, takes the same amount from the snapshot; `TotalAdd` says that the sum moves by as much. The
limit counted from the ledger itself (`NoOverspend`) follows with `CreditInv`.

**The scripts.** Beside them the handler's invariants that need no ownership of the snapshots (`SafeInv`, `BooksInv`,
`PoolInv`) still hold, with `JobInv`: a script writes no rows but snapshots, and what it knows at each statement.
`DriftInv` is the strengthening of `DriftOnlyGrantsCredit`. A rebuild writes a sum that is older than the lock, and purchases
only take from an account's sum, so the stale one is never too low; to be kept by every COMMIT this has to hold of
everything that may become a snapshot: the committed row, the rows written in open transactions (less what that
transaction's own legs will take), and the sum a script is about to write (`Generous`). It is unconditional:
a corruption, as modelled, only adds; a dropped row comes back as zero, and no user account has a positive sum
(`BuyersOnlyPay`). `CalmInv` says that as long as nothing has failed and no rebuild runs, all of `DecisionInv` and
`MatchInv` hold, and that a backfill's open rows are zeros where there was none (`FillInv`); this is `BackfillHarmless`.
`FilledInv` is the same for `FillOnly`, with failures of Redis, the database and the service: every step of a backfill
maps to a stutter of `AtomicPurchase`, as a missing row and a zero are the same credit.

**The edge.** `ClosedBelowThreshold` is inductive with the types. `HandledInv`: no attempt of a call is under way before
its first; a POST has one attempt, and has been handled only if that has arrived; the memory of a jti lasts to
the end of its token. `WaitInv` ties the clock to the attempt that is waited for; `PromptAttemptsAreCurrent` is then about
one step, the gate's refusal, as the edge may wait beyond `Timeout`. `OpenBreakerSendsNobody`: a call let through leaves the breaker in another
state than OPEN, and a failure that opens it moves the opening to this moment, which no call is sent after. `ProbeInv`: but for the first
probe, which leaves as the breaker does from OPEN, all probes are a probe interval apart (`Spread`).

`LockInv` (edge) counts: no more requests are at work on a key than its expiries under a holder, and one more if it is locked;
without faults, a locked key has somebody at work. A lock can be set without its setter at work (a lost acknowledgement,
a crash) or missing for one who is (an expiry, another's DEL), so nothing is said of whose it is: it is enough that
every step that adds a worker sets a free lock, and every step that frees a lock takes a worker away or is counted (`WorkChanges`). `ReplayInv`: a stored response is one of a request with that key and body which had its effect.
`StageInv` says that only a request that awaits `call_next` is inside the chain, and is all the refinement needs: the chain's
steps stutter but for the last. `RateInv`: who is about to set a counter's expiry is the only one for it, has been counted
and not passed; a counter with an expiry lives to the end of its window, and no more requests than it has counted have
passed while it lived.

TLC checked each part as an invariant of a run before it was proved.

## 8. What is only model-checked

Liveness (`Answered`, `LockReleased`, `ScriptsFinish`, `QuietRebuildRepairs`), which is out of the provers' reach, and the
five claims of section 6 that have a run, which are false. Every safety invariant and action property of the other runs, and both
refinements, are theorems of section 7.

That the edge's requests end is not stated: they wait for no one but Redis and their own timers, with a bounded number
of attempts, so that nothing but those could keep them.

## 9. What is not modelled

- *Claims other than times, and the HMACs*: the edge builds the tokens and signatures of `forward` itself, with the
  keys, issuer and audience the service expects; `edge/middleware/auth.py` is not installed by `novacard-edge/main.py`.
- *A second instance of a service*: the compose file runs one of each, and the code keeps nothing for a second.
- *Account service, authentication mock, balance reads, admin route*: read-only or stateless; the balance and admin routes
  are not included by `txn/main.py`, and the admin route calls the rebuild without its connection.
- *Metrics, audit log, health*: observation.

## 10. Plan

Done: the inventory, the purchase path with its database, store, pool and authentication, the scripts, the breaker,
`forward` with the user service's gate, the edge's chain from the idempotency middleware to the routes, and the theorems
above, with both refinements, the sums over the ledger and the scripts.

Left: the account service and the balance route, should they come to write anything.
