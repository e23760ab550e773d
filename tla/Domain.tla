------------------------------- MODULE Domain -------------------------------
(***************************************************************************)
(* The values every module of the transaction service shares.              *)
(***************************************************************************)
CONSTANTS
  Sessions,  \* database sessions: one per purchase request or maintenance script
  Users,     \* values of request.state.user_id, set by UserAuthMiddleware
  Keys,      \* values of the Idempotency-Key header
  NULL       \* an absent row, value or answer
=============================================================================
