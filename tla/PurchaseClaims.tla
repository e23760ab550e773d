--------------------------- MODULE PurchaseClaims ---------------------------
(***************************************************************************)
(* Statements the repository makes about POST /purchase that the code does *)
(* not keep.  Each is checked alone, in a run that finds it violated.      *)
(***************************************************************************)
EXTENDS PurchaseProperties

\* sql/migrations/c7_1_a_345_hardening.sql:28 "DB rejects duplicates, enabling
\* safe retries": a stored POSTED response is never replaced by another.
PostedStaysFinal ==
  [][\A k \in Slots :
       final[k] # NULL /\ final[k].status = "POSTED" /\ final'[k] # NULL
         => final'[k] = final[k]]_vars

\* dev-tasks/C7.1.A.txt:15-17 "When complete: overwrite key with final JSON
\* response (DONE)": when the handler that stored POSTED has ended, its
\* transaction is in the table.
DoneIsComplete ==
  \A k \in Slots :
    /\ final[k] # NULL /\ final[k].status = "POSTED"
    /\ pc[final[k].txn] \in {"done", "dead"}
    => Rowed(final[k].txn) # {}

\* dev-tasks/C7.2.8.txt:4 "if snapshot row missing -> rebuild it from ledger
\* (authoritative) -> continue purchase": a row that exists holds the sum.
MissingIsRebuilt ==
  \A a \in Accounts \ {Merchant} :
    snapshots[a] # NULL => snapshots[a] = LedgerBalance(a)
=============================================================================
