----------------------------- MODULE ServiceGate -----------------------------
(***************************************************************************)
(* What a request of the edge carries to a service, and how the user       *)
(* service judges it: the claims of the service token                      *)
(* (middleware_service_auth.py), the memory of its jti                     *)
(* (replay_protection.py) and the timestamp of the signature               *)
(* (middleware_request_signing.py).  Clocks count whole seconds, as        *)
(* int(time.time()) does; s is the service's.  Issuer, audience, keys and  *)
(* digests agree between the two sides and are left out.                   *)
(***************************************************************************)
EXTENDS Integers

CONSTANTS
  TokenTTL,   \* SVC_TOKEN_TTL_SECONDS
  Skew,       \* SKEW of ServiceAuthMiddleware
  Tolerance   \* SIGNING_TOLERANCE_SECONDS

ASSUME GateAssumption == TokenTTL \in Nat \ {0} /\ Skew \in Nat /\ Tolerance \in Nat

\* _build_service_token and _sign_request at the edge's second t.
Token(t) == [iat |-> t, exp |-> t + TokenTTL, ts |-> t]

\* Mutant of Current: a token is over in the second of its exp.
CurrentUntilExp(token, s) == token.exp > s /\ token.iat <= s + Skew

\* jwt.decode refuses exp < s; then the middleware's own checks with SKEW.
Current(token, s) == token.exp >= s /\ token.exp > s - Skew /\ token.iat <= s + Skew

\* Mutant of Memory: one second short.
MemoryShort(token, s) == IF token.exp - s > 2 THEN token.exp - s - 1 ELSE 1

\* For how long the jti is remembered: max(1, exp - now).
Memory(token, s) == IF token.exp - s > 1 THEN token.exp - s ELSE 1

InWindow(token, s) == s - token.ts \in -Tolerance..Tolerance
=============================================================================
