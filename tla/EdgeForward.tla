----------------------------- MODULE EdgeForward -----------------------------
(***************************************************************************)
(* DownstreamClient.forward of the edge, run by concurrent requests that   *)
(* share the breaker of one service, with the service behind it: retries,  *)
(* timeouts, and the gate by which the user service accepts each service   *)
(* token while it is current, and once.  The token is built once per       *)
(* forward, so its jti is the call itself.  A request the edge has given   *)
(* up on may still arrive.                                                 *)
(***************************************************************************)
EXTENDS CircuitBreaker, ServiceGate, FiniteSets, FiniteSetsExt

CONSTANTS
  Calls,       \* requests that reach forward()
  Gets,        \* those with a method in IDEMPOTENT_METHODS
  MaxRetries,  \* MAX_RETRIES
  Timeout,     \* the 5 s of client.request, for each phase and chunk of a reply
  Guards,      \* may the service have the gate: user-mock does, transaction-svc does not
  Skews,       \* by how much the clock of a service with the gate may be ahead
  StartTime,   \* clock when the edge starts, long after the breaker's ts of 0
  MaxTime      \* bound on the clock

ASSUME ForwardAssumption ==
  /\ Gets \subseteq Calls
  /\ MaxRetries \in Nat
  /\ Timeout \in Nat \ {0}
  /\ Guards \subseteq BOOLEAN
  /\ StartTime \in Nat /\ StartTime > FailWindow
  /\ Skews \subseteq Int /\ \A d \in Skews : StartTime + d > 0
  /\ MaxTime \in Nat /\ MaxTime >= StartTime

VARIABLES
  now,      \* time.time() of the edge
  breaker,  \* self.breakers[service_name].s
  at,       \* where each forward() stands
  attempt,  \* its loop variable, already the next one's while it sleeps
  sent,     \* when its current attempt was sent
  issued,   \* when its token was built and its request signed, 0 before
  reply,    \* the reply to the current attempt, or "none"
  flight,   \* attempts under way to the service
  guarded,  \* does the service have the gate
  skew,     \* by how much its clock is ahead of the edge's
  until,    \* the second in which svc:jti:{jti} expires in the service's Redis, or 0
  handled   \* how often the service's handler has run for a call

edge == <<breaker, at, attempt, sent, issued>>
service == <<guarded, skew, until, handled>>
vars == <<now, edge, reply, flight, service>>

Places == {"ready", "waiting", "backoff", "returned", "raised"}
Refusals == {"replayed", "unauthorized"}
Replies == Refusals \cup {"ok", "5xx", "none"}

\* Mutant of Attempts: one retry too many.
AttemptsOneMore(c) == 1 + (IF c \in Gets THEN MaxRetries + 1 ELSE 0)

Attempts(c) == 1 + (IF c \in Gets THEN MaxRetries ELSE 0)

Init ==
  /\ now = StartTime
  /\ breaker = NewBreaker
  /\ at = [c \in Calls |-> "ready"]
  /\ attempt = [c \in Calls |-> 0]
  /\ sent = [c \in Calls |-> 0]
  /\ issued = [c \in Calls |-> 0]
  /\ reply = [c \in Calls |-> "none"]
  /\ flight = {}
  /\ guarded \in Guards
  /\ skew \in IF guarded THEN Skews ELSE {0}
  /\ until = [c \in Calls |-> 0]
  /\ handled = [c \in Calls |-> 0]

-----------------------------------------------------------------------------
\* forward() has returned the response or raised a DownstreamError; its local variables
\* are gone.
End(c, outcome) ==
  /\ at' = [at EXCEPT ![c] = outcome]
  /\ attempt' = [attempt EXCEPT ![c] = 0]
  /\ sent' = [sent EXCEPT ![c] = 0]
  /\ reply' = [reply EXCEPT ![c] = "none"]

\* From the body's await, or the backoff's sleep, to the await of client.request: the
\* token and the signature of the first attempt, and breaker.allow() for each.
Attempt(c) ==
  /\ at[c] \in {"ready", "backoff"}
  /\ \/ /\ ~Allows(breaker, now)
        /\ End(c, "raised")
        /\ UNCHANGED <<breaker, issued, flight>>
     \/ /\ Allows(breaker, now)
        /\ breaker' = AfterAllow(breaker, now)
        /\ at' = [at EXCEPT ![c] = "waiting"]
        /\ sent' = [sent EXCEPT ![c] = now]
        /\ issued' = IF at[c] = "ready" THEN [issued EXCEPT ![c] = now] ELSE issued
        /\ flight' = flight \cup {<<c, attempt[c]>>}
        /\ UNCHANGED <<attempt, reply>>
  /\ UNCHANGED <<now, service>>

\* A failed attempt that is not retried: counted by the breaker, and raised.
GivesUp(c) ==
  /\ breaker' = AfterFailure(breaker, now)
  /\ End(c, "raised")
  /\ UNCHANGED <<now, issued, service>>

\* One that is counted, and retried after _backoff while attempts are left.
Failed(c) ==
  \/ attempt[c] >= Attempts(c) - 1 /\ GivesUp(c)
  \/ /\ attempt[c] < Attempts(c) - 1
     /\ breaker' = AfterFailure(breaker, now)
     /\ at' = [at EXCEPT ![c] = "backoff"]
     /\ attempt' = [attempt EXCEPT ![c] = @ + 1]
     /\ reply' = [reply EXCEPT ![c] = "none"]
     /\ UNCHANGED <<sent, now, issued, service>>

\* Any reply below 500 is a success to the breaker, a refusal included.
GetReply(c) ==
  /\ at[c] = "waiting"
  /\ UNCHANGED flight
  /\ \/ reply[c] = "5xx" /\ Failed(c)
     \/ /\ reply[c] \in Refusals \cup {"ok"}
        /\ breaker' = AfterSuccess(breaker)
        /\ End(c, "returned")
        /\ UNCHANGED <<now, issued, service>>

\* httpx.TimeoutException, which no attempt meets before its Timeout and a slow one may
\* meet later or never: the request may still be on its way.
TimeOut(c) ==
  /\ at[c] = "waiting" /\ now - sent[c] >= Timeout
  /\ Failed(c)
  /\ UNCHANGED flight

\* httpx.RequestError: the connection broke, wherever the request is by then; one that
\* never left is one that never arrives.
Unreachable(c) ==
  /\ at[c] = "waiting" /\ reply[c] = "none"
  /\ Failed(c)
  /\ UNCHANGED flight

\* Any other exception: not retried, whatever the method.
OtherError(c) ==
  /\ at[c] = "waiting" /\ reply[c] = "none"
  /\ GivesUp(c)
  /\ UNCHANGED flight

-----------------------------------------------------------------------------
Clock == now + skew  \* of the service

\* May svc:jti:{jti} still be there, may it be gone?  It was set within a second and
\* expires within one: in between, both.
MayRemember(c) == Clock <= until[c]
MayForget(c) == Clock >= until[c]

Remember(c) == until' = [until EXCEPT ![c] = Clock + Memory(Token(issued[c]), Clock)]

\* A reply to an attempt that has arrived; it counts only if it is still waited for.
Answer(c, n, r) ==
  /\ flight' = flight \ {<<c, n>>}
  /\ reply' = IF at[c] = "waiting" /\ attempt[c] = n THEN [reply EXCEPT ![c] = r] ELSE reply
  /\ UNCHANGED <<now, edge, guarded, skew>>

Handle(c, n) ==
  /\ \E r \in {"ok", "5xx"} : Answer(c, n, r)
  /\ handled' = [handled EXCEPT ![c] = @ + 1]

\* A service without the gate.
Serve(c, n) == ~guarded /\ Handle(c, n) /\ UNCHANGED until

\* ServiceAuthMiddleware: 401 for a token that is not current.
Expired(c, n) ==
  /\ guarded /\ ~Current(Token(issued[c]), Clock)
  /\ Answer(c, n, "unauthorized")
  /\ UNCHANGED <<until, handled>>

\* SET svc:jti:{jti} NX finds the key: 401.
Replayed(c, n) ==
  /\ guarded /\ Current(Token(issued[c]), Clock) /\ MayRemember(c)
  /\ Answer(c, n, "replayed")
  /\ UNCHANGED <<until, handled>>

\* The key was set; RequestSigningMiddleware comes after it, then the handler.
Accept(c, n) ==
  /\ guarded /\ Current(Token(issued[c]), Clock) /\ MayForget(c)
  /\ Remember(c)
  /\ IF InWindow(Token(issued[c]), Clock)
     THEN Handle(c, n)
     ELSE Answer(c, n, "unauthorized") /\ UNCHANGED handled

\* Its Redis fails, whether or not SET took effect: 503 without the handler (fail closed).
ServeUnavailable(c, n) ==
  /\ guarded /\ Current(Token(issued[c]), Clock)
  /\ Answer(c, n, "5xx")
  /\ \/ UNCHANGED until
     \/ MayForget(c) /\ Remember(c)
  /\ UNCHANGED handled

\* Time passes, also beyond Timeout: it bounds each phase of an attempt, not the whole.
Tick ==
  /\ now < MaxTime
  /\ now' = now + 1
  /\ UNCHANGED <<edge, reply, flight, service>>

Forward(c) == Attempt(c) \/ GetReply(c) \/ TimeOut(c) \/ Unreachable(c) \/ OtherError(c)

Receive(c, n) ==
  Serve(c, n) \/ Expired(c, n) \/ Replayed(c, n) \/ Accept(c, n) \/ ServeUnavailable(c, n)

Next ==
  \/ \E c \in Calls : Forward(c)
  \/ \E a \in flight : Receive(a[1], a[2])
  \/ Tick

Spec == Init /\ [][Next]_vars

-----------------------------------------------------------------------------
\* The types of the variables.
TypeOK ==
  /\ now \in StartTime..MaxTime
  /\ breaker \in Breakers
  /\ at \in [Calls -> Places]
  /\ attempt \in [Calls -> 0..MaxRetries]
  /\ sent \in [Calls -> 0..MaxTime]
  /\ issued \in [Calls -> 0..MaxTime]
  /\ reply \in [Calls -> Replies]
  /\ flight \subseteq Calls \X (0..MaxRetries)
  /\ guarded \in Guards
  /\ skew \in Skews \cup {0}
  /\ until \in [Calls -> Nat]
  /\ handled \in [Calls -> Nat]

\* A closed breaker has fewer failures on its count than would open it, whichever
\* of the concurrent calls' outcomes came last.
ClosedBelowThreshold == breaker.state = "CLOSED" => breaker.failures < FailThreshold

\* Calls admitted after the cooldown and not answered yet.
Probes == {c \in Calls : at[c] = "waiting" /\ sent[c] >= breaker.opened_ts + OpenCooldown}

\* While half open, no more than two probes leave within one probe interval: one as
\* the breaker leaves OPEN, and one more that this transition admits at once.
TwoProbesPerInterval ==
  breaker.state = "HALF_OPEN" =>
    \A c \in Probes :
      Cardinality({d \in Probes : sent[d] \in sent[c]..(sent[c] + HalfOpenProbe - 1)}) <= 2

\* However the attempts of a call are delayed, the handler of the service runs once for
\* a call that is not idempotent; for one that is, a service with the gate runs it a
\* second time only in the last second of the token, when its jti may be forgotten.
HandledOnce ==
  [][\A c \in Calls :
       handled'[c] > handled[c] /\ (guarded \/ c \notin Gets) =>
         handled[c] = 0 \/ (c \in Gets /\ Clock = Token(issued[c]).exp)]_vars

\* A first attempt that is answered within Timeout is not refused as out of date, by
\* token or signature, even when the clocks are as far apart as the gate tolerates
\* (Skews): a token outlives the wait for it on either clock.
PromptIsCurrent ==
  [][\A c \in Calls :
       at[c] = "waiting" /\ attempt[c] = 0 /\ reply[c] = "none" /\ reply'[c] = "unauthorized" =>
         now - sent[c] > Timeout]_vars

\* Late outcomes move an open breaker's opened_ts and open it anew while its probes are
\* under way, but nobody waits for a call that was sent after the opening.
OpenSendsNobody ==
  breaker.state = "OPEN" => \A c \in Calls : at[c] = "waiting" => sent[c] <= breaker.opened_ts

-----------------------------------------------------------------------------
(* Statements of the repository that the code does not keep.               *)

\* downstream.py:92 the service token "MUST be unique per request (unique jti) for
\* replay protection": no retry of the edge is refused as a replay.
RetryNotRefused == \A c \in Calls : reply[c] # "replayed"
=============================================================================
