----------------------------- MODULE SnapshotOps -----------------------------
(***************************************************************************)
(* The maintenance of account_balance_snapshots, run by an operator beside *)
(* the live service: the backfill of missing rows (migration 02) and the   *)
(* rebuild of one row from the ledger (migration 04; snapshot_rebuild.py   *)
(* issues the same two statements).  None of them locks the account row.   *)
(***************************************************************************)
EXTENDS PurchaseProperties

CONSTANTS
  Scripts,  \* one element per run of a script
  Kinds     \* the scripts a run admits

ASSUME OpsAssumption ==
  /\ Scripts \subseteq Sessions \ Requests
  /\ Kinds \subseteq {"rebuild", "backfill"}

VARIABLE
  job  \* per script: where it stands, its kind, the accounts it still has to
       \* insert (or the one it rebuilds) and the sum its UPDATE has computed

opsVars == <<vars, job>>

OpsInit == Init /\ job = [s \in Scripts |-> [at |-> "idle", kind |-> "none",
                                            todo |-> {}, sum |-> NULL]]

At(s, label) == job[s].at = label
Move(s, label) == job' = [job EXCEPT ![s].at = label]
Leave == UNCHANGED <<tables, store, locals, faults>>

\* An error inside BEGIN ... COMMIT: nothing of the script remains.
Fail(s) == Rollback(s) /\ Move(s, "done") /\ UNCHANGED <<store, locals, faults>>

-----------------------------------------------------------------------------
(* Migration 04.                                                           *)

StartRebuild(s) ==
  /\ "rebuild" \in Kinds /\ At(s, "idle")
  /\ Open(s)
  /\ \E a \in Accounts :
       job' = [job EXCEPT ![s] = [at |-> "ensure", kind |-> "rebuild",
                                  todo |-> {a}, sum |-> NULL]]
  /\ Leave

\* INSERT ... ON CONFLICT DO NOTHING; its foreign key is checked when it ends.
EnsureRow(s) ==
  /\ At(s, "ensure")
  /\ \E a \in job[s].todo :
       /\ SnapInsertWaits(s, a) = {}
       /\ \/ snapshots[a] = NULL /\ WriteSnap(s, a, 0) /\ Move(s, "fk")
          \/ snapshots[a] # NULL /\ UNCHANGED work /\ Move(s, "scan")
  /\ Leave

\* UPDATE ... FROM (SELECT SUM ... GROUP BY account_id): the subquery sees what
\* was committed when the statement began, and has no row for an account
\* without entries, so that nothing is updated.
Scan(s) ==
  /\ At(s, "scan")
  /\ \E a \in job[s].todo :
       job' = IF EntriesOf(a) = {}
              THEN [job EXCEPT ![s].at = "commit"]
              ELSE [job EXCEPT ![s].at = "write", ![s].sum = LedgerBalance(a)]
  /\ UNCHANGED work /\ Leave

\* The same statement gets the row lock.  At READ COMMITTED a row that changed
\* meanwhile is updated with the sum already computed; a deleted one is skipped.
\* Mutant of Write: the sum is added to the old value.
WriteAdds(s) ==
  /\ At(s, "write")
  /\ \E a \in job[s].todo :
       /\ SnapWaits(s, a) = {}
       /\ IF Visible(s, a) = NULL THEN UNCHANGED work
          ELSE WriteSnap(s, a, Visible(s, a) + job[s].sum)
  /\ Move(s, "commit")
  /\ Leave

Write(s) ==
  /\ At(s, "write")
  /\ \E a \in job[s].todo :
       /\ SnapWaits(s, a) = {}
       /\ IF Visible(s, a) = NULL THEN UNCHANGED work ELSE WriteSnap(s, a, job[s].sum)
  /\ Move(s, "commit")
  /\ Leave

-----------------------------------------------------------------------------
(* Migration 02.                                                           *)

StartBackfill(s) ==
  /\ "backfill" \in Kinds /\ At(s, "idle")
  /\ Open(s)
  /\ LET missing == {a \in Accounts : snapshots[a] = NULL} IN
       job' = [job EXCEPT ![s] = [at |-> IF missing = {} THEN "commit" ELSE "insert",
                                  kind |-> "backfill", todo |-> missing, sum |-> NULL]]
  /\ Leave

\* A plain INSERT: a row that has appeared meanwhile is a unique violation.
\* Mutants of InsertMissing: ON CONFLICT DO UPDATE SET balance_minor = 0; and no
\* error for a row that has appeared, so that the script waits on.
InsertMissingOverwrites(s) ==
  /\ At(s, "insert")
  /\ \E a \in job[s].todo :
       /\ SnapInsertWaits(s, a) \cup SnapWaits(s, a) = {}
       /\ WriteSnap(s, a, 0)
       /\ job' = [job EXCEPT ![s].todo = @ \ {a},
                             ![s].at = IF job[s].todo = {a} THEN "fk" ELSE @]
  /\ Leave

InsertMissingWaits(s) ==
  /\ At(s, "insert")
  /\ \E a \in job[s].todo :
       /\ SnapInsertWaits(s, a) = {} /\ snapshots[a] = NULL
       /\ WriteSnap(s, a, 0)
       /\ job' = [job EXCEPT ![s].todo = @ \ {a},
                             ![s].at = IF job[s].todo = {a} THEN "fk" ELSE @]
  /\ Leave

InsertMissing(s) ==
  /\ At(s, "insert")
  /\ \E a \in job[s].todo :
       /\ SnapInsertWaits(s, a) = {}
       /\ \/ snapshots[a] # NULL /\ Fail(s)
          \/ /\ snapshots[a] = NULL
             /\ WriteSnap(s, a, 0)
             /\ job' = [job EXCEPT ![s].todo = @ \ {a},
                                   ![s].at = IF job[s].todo = {a} THEN "fk" ELSE @]
             /\ Leave

-----------------------------------------------------------------------------
\* The foreign-key checks of the rows a script has inserted, one at a time.
Unchecked(s) == work[s].snaplock \ work[s].share

CheckFk(s) ==
  /\ At(s, "fk")
  /\ \E a \in Unchecked(s) :
       /\ ShareWaits(s, a) = {}
       /\ ShareLock(s, a)
       /\ IF Unchecked(s) # {a} THEN UNCHANGED job
          ELSE Move(s, IF job[s].kind = "rebuild" THEN "scan" ELSE "commit")
  /\ Leave

Finish(s) ==
  /\ At(s, "commit")
  /\ Publish(s)
  /\ Move(s, "done")
  /\ UNCHANGED <<store, locals, faults>>

ScriptWaits(s) ==
  CASE job[s].at \in {"ensure", "insert"} ->
         UNION {SnapInsertWaits(s, a) : a \in job[s].todo}
    [] At(s, "fk") -> UNION {ShareWaits(s, a) : a \in Unchecked(s)}
    [] At(s, "write") -> UNION {SnapWaits(s, a) : a \in job[s].todo}
    [] OTHER -> {}

SessionWaits == [s \in Requests \cup Scripts |->
                   IF s \in Requests THEN WaitsFor(s) ELSE ScriptWaits(s)]

\* A cycle through a script: PostgreSQL fails the script or the purchase.
OpsDeadlockAbort(s) ==
  /\ OnCycle(s, Requests \cup Scripts, SessionWaits)
  /\ \/ s \in Scripts /\ Fail(s)
     \/ s \in Requests /\ Raise(s) /\ UNCHANGED job

ScriptStep(s) ==
  \/ EnsureRow(s) \/ Scan(s) \/ Write(s) \/ InsertMissing(s) \/ CheckFk(s) \/ Finish(s)

OpsNext ==
  \/ Next /\ UNCHANGED job
  \/ \E s \in Scripts : StartRebuild(s) \/ StartBackfill(s) \/ ScriptStep(s)
  \/ \E s \in Requests \cup Scripts : OpsDeadlockAbort(s)

OpsSpec == OpsInit /\ [][OpsNext]_opsVars

OpsFairSpec ==
  /\ OpsSpec
  /\ \A r \in Requests : WF_opsVars(Step(r) /\ UNCHANGED job)
  /\ \A s \in Scripts : WF_opsVars(ScriptStep(s))
  /\ \A s \in Requests \cup Scripts : WF_opsVars(OpsDeadlockAbort(s))

-----------------------------------------------------------------------------
(* Properties.                                                             *)

\* The types of TypeOK, and of the scripts' progress.
OpsTypeOK ==
  /\ TypeOK
  /\ job \in [Scripts ->
       [at : {"idle", "ensure", "insert", "fk", "scan", "write", "commit", "done"},
        kind : {"none", "rebuild", "backfill"}, todo : SUBSET Accounts,
        sum : Int \cup {NULL}]]

\* The backfill alone, however often it runs beside purchases, overwrites no
\* balance: it inserts only what is missing and fails on what has appeared.
BackfillHarmless ==
  (\A s \in Scripts : job[s].kind # "rebuild") /\ faults = 0 => SnapshotMatchesLedger

\* Whatever a script overwrites, a user account's snapshot errs only towards
\* too much credit: a rebuild racing purchases can lose a debit, never add one.
DriftOnlyGrantsCredit ==
  \A a \in Accounts \ {Merchant} :
    snapshots[a] # NULL => snapshots[a] >= LedgerBalance(a)

\* A rebuild that starts on an account with a history, when no purchase runs or
\* will run, ends with the snapshot equal to the ledger, whatever it was before
\* (C7.2.5: "You can recover without manual DB surgery").
QuietRebuildRepairs ==
  \A s \in Scripts, a \in Accounts :
    (/\ At(s, "ensure") /\ job[s].todo = {a} /\ EntriesOf(a) # {}
     /\ \A r \in Requests : pc[r] \in {"done", "dead"}
     /\ faults = MaxFaults) ~> snapshots[a] = LedgerBalance(a)

\* Every script ends, with purchases running beside it.
ScriptsFinish == \A s \in Scripts : ~At(s, "idle") ~> At(s, "done")
=============================================================================
