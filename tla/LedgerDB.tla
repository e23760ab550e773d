------------------------------ MODULE LedgerDB ------------------------------
(***************************************************************************)
(* The PostgreSQL side of the transaction service: the tables of           *)
(* sql/migrations, the row locks its statements take, and transactions at  *)
(* READ COMMITTED.  A session's uncommitted writes and the row locks it    *)
(* holds live in work[s]; COMMIT publishes the writes, ROLLBACK (or a lost *)
(* connection) drops them, and both release the locks.                     *)
(*                                                                         *)
(* Row locks, as PostgreSQL takes them for the statements of this code:    *)
(*   share    FOR KEY SHARE on an accounts row: the foreign-key check of   *)
(*            an INSERT that references the account                        *)
(*   excl     FOR UPDATE on an accounts row                                *)
(*   snaplock FOR UPDATE, or an uncommitted write, on a snapshot row       *)
(***************************************************************************)
EXTENDS Integers, FiniteSets, FiniteSetsExt, Domain

CONSTANTS
  Accounts,
  Merchant,     \* the account settings.MERCHANT_ACCOUNT_ID credits
  Owner,        \* accounts.user_id; NULL for a system account no caller owns
  CreatedAt,    \* accounts.created_at, as a rank
  CreditLimit,  \* accounts.credit_limit_minor
  Currency,     \* accounts.currency
  Codes,        \* the currency codes the CHECK constraints accept
  MaxBigint     \* the largest amount a BIGINT column and its parameter hold

ASSUME DBAssumption ==
  /\ Merchant \in Accounts
  /\ Owner \in [Accounts -> Users \cup {NULL}]
  /\ CreatedAt \in [Accounts -> Nat]
  /\ CreditLimit \in [Accounts -> Nat]
  /\ Currency \in [Accounts -> Codes]
  /\ MaxBigint \in Nat
  /\ NULL \notin Int

VARIABLES
  status,          \* accounts.status
  transactions,    \* committed rows of transactions
  ledger_entries,  \* committed rows of ledger_entries
  snapshots,       \* committed account_balance_snapshots.balance_minor, or NULL: no row
  work             \* what each session has done since BEGIN

tables == <<status, transactions, ledger_entries, snapshots>>

Statuses == {"ACTIVE", "SUSPENDED", "CLOSED"}

NoWork == [open |-> FALSE, txn |-> NULL, legs |-> {},
           snap |-> [a \in Accounts |-> NULL],
           share |-> {}, excl |-> {}, snaplock |-> {}]

-----------------------------------------------------------------------------
(* What a session reads, and whom it waits for.                            *)

Visible(s, a) == IF work[s].snap[a] # NULL THEN work[s].snap[a] ELSE snapshots[a]

SignedAmount(e) == IF e.entry_type = "DEBIT" THEN -e.amount_minor ELSE e.amount_minor

EntriesOf(a) == {e \in ledger_entries : e.account_id = a}

\* SUM(CASE WHEN entry_type='DEBIT' THEN -amount_minor ... END) over an account.
LedgerBalance(a) == MapThenSumSet(SignedAmount, EntriesOf(a))

\* accounts WHERE user_id=$1 AND status='ACTIVE' ORDER BY created_at LIMIT 1.
OldestActive(u) ==
  LET active == {a \in Accounts : Owner[a] = u /\ status[a] = "ACTIVE"}
  IN  {a \in active : \A b \in active : CreatedAt[a] <= CreatedAt[b]}

\* Mutant of Others: without conn.transaction() every statement commits by
\* itself, and no lock outlives it.
OthersAutocommit(s) == {}

Others(s) == Sessions \ {s}

SameKey(t, u, k) == t # NULL /\ t.user_id = u /\ t.idempotency_key = k

\* uq_transactions_user_idempotency: a committed duplicate is an error, an
\* uncommitted one makes the INSERT wait for its transaction to end.
\* Mutant of KeyTaken: the unique index was never created.
KeyTakenUnindexed(u, k) == FALSE

KeyTaken(u, k)        == \E t \in transactions : SameKey(t, u, k)
KeyWaits(s, u, k)     == {q \in Others(s) : SameKey(work[q].txn, u, k)}
ShareWaits(s, a)      == {q \in Others(s) : a \in work[q].excl}
ExclWaits(s, a)       == {q \in Others(s) : a \in work[q].share \cup work[q].excl}
\* A SELECT FOR UPDATE or an UPDATE waits for a row it can see, an INSERT for one it cannot.
SnapWaits(s, a)       == {q \in Others(s) : snapshots[a] # NULL /\ a \in work[q].snaplock}
SnapInsertWaits(s, a) == {q \in Others(s) : snapshots[a] = NULL /\ work[q].snap[a] # NULL}

\* PostgreSQL ends a cycle of waiting statements by failing one of them; a
\* smallest set whose members all wait inside it is a cycle.
Stuck(S, waits) == S # {} /\ \A q \in S : waits[q] \cap S # {}

\* Mutant of OnCycle: nobody looks for deadlocks.
OnCycleUndetected(s, group, waits) == FALSE

OnCycle(s, group, waits) ==
  \E S \in SUBSET group :
    s \in S /\ Stuck(S, waits) /\ \A T \in SUBSET S : Stuck(T, waits) => T = S

-----------------------------------------------------------------------------
(* Statements, as updates of the session's work.                           *)

Open(s)          == work' = [work EXCEPT ![s].open = TRUE]
WriteTxn(s, row) == work' = [work EXCEPT ![s].txn = row]
ShareLock(s, a)  == work' = [work EXCEPT ![s].share = @ \cup {a}]
ExclLock(s, a)   == work' = [work EXCEPT ![s].excl = @ \cup {a}]

SetTxnStatus(s, st) == work' = [work EXCEPT ![s].txn.status = st]
SnapLock(s, a)   == work' = [work EXCEPT ![s].snaplock = @ \cup {a}]

\* Ledger rows, and the key-share lock their foreign key takes on account a.
WriteLegs(s, legs, a) ==
  work' = [work EXCEPT ![s].legs = legs, ![s].share = @ \cup {a}]

WriteSnap(s, a, b) ==
  work' = [work EXCEPT ![s].snap[a] = b, ![s].snaplock = @ \cup {a}]

\* INSERT INTO account_balance_snapshots ... ON CONFLICT (account_id) DO NOTHING
EnsureSnapRow(s, a) ==
  IF Visible(s, a) = NULL
  THEN work' = [work EXCEPT ![s].snap[a] = 0, ![s].snaplock = @ \cup {a},
                            ![s].share = @ \cup {a}]
  ELSE UNCHANGED work

Publish(s) ==
  /\ transactions' = transactions \cup (IF work[s].txn = NULL THEN {} ELSE {work[s].txn})
  /\ ledger_entries' = ledger_entries \cup work[s].legs
  /\ snapshots' = [a \in Accounts |-> Visible(s, a)]
  /\ work' = [work EXCEPT ![s] = NoWork]
  /\ UNCHANGED status

\* Mutants of Rollback: the snapshot or the ledger rows were written outside the
\* transaction; the connection never goes back to the pool.
RollbackKeepsSnapshot(s) ==
  /\ snapshots' = [a \in Accounts |-> Visible(s, a)]
  /\ work' = [work EXCEPT ![s] = NoWork]
  /\ UNCHANGED <<status, transactions, ledger_entries>>

RollbackKeepsLegs(s) ==
  /\ ledger_entries' = ledger_entries \cup work[s].legs
  /\ work' = [work EXCEPT ![s] = NoWork]
  /\ UNCHANGED <<status, transactions, snapshots>>

RollbackLeaks(s) == UNCHANGED <<work, tables>>

Rollback(s) == work' = [work EXCEPT ![s] = NoWork] /\ UNCHANGED tables

-----------------------------------------------------------------------------
\* No purchase yet: accounts are created ACTIVE, and their snapshot rows either
\* came from the backfill of migration 02 or do not exist.
DBInit ==
  /\ status = [a \in Accounts |-> "ACTIVE"]
  /\ transactions = {}
  /\ ledger_entries = {}
  /\ snapshots \in {[a \in Accounts |-> b] : b \in {0, NULL}}
  /\ work = [s \in Sessions |-> NoWork]

=============================================================================
