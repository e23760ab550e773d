-------------------------- MODULE EdgeForwardProofs --------------------------
(***************************************************************************)
(* What TLAPS proves of the edge's forwarding, for any calls, retries,     *)
(* timeout, windows and clocks: the breaker's count, its probes and that   *)
(* it sends nobody while open; that a handler runs once, and that a prompt *)
(* attempt is not out of date.                                             *)
(***************************************************************************)
EXTENDS EdgeForward, FiniteSetTheorems, TLAPS

-----------------------------------------------------------------------------
(* Types.                                                                  *)

\* The breaker's methods keep its record well-typed.
LEMMA BreakerTypes ==
  ASSUME NEW b \in Breakers, NEW t \in Nat
  PROVE  /\ AfterAllow(b, t) \in Breakers
         /\ AfterSuccess(b) \in Breakers
         /\ AfterFailure(b, t) \in Breakers
<1>1. AfterAllow(b, t) \in Breakers
  <2>1. CASE Cooled(b, t)
    BY <2>1 DEF AfterAllow, Cooled, ProbeDue, Breakers, States
  <2>2. CASE ProbeDue(b, t)
    BY <2>2, BreakerAssumption DEF AfterAllow, Cooled, ProbeDue, Breakers, States
  <2>3. CASE ~Cooled(b, t) /\ ~ProbeDue(b, t)
    BY <2>3 DEF AfterAllow
  <2> QED BY <2>1, <2>2, <2>3
<1>2. AfterSuccess(b) \in Breakers
  BY DEF AfterSuccess, Breakers, States
<1>3. FailureCount(b, t) \in Nat
  BY BreakerAssumption DEF FailureCount, Breakers
<1>4. AfterFailure(b, t) \in Breakers
  BY <1>3 DEF AfterFailure, Breakers, States
<1> QED BY <1>1, <1>2, <1>4

\* A call that has ended keeps the local variables' types.
LEMMA EndTypes ==
  ASSUME TypeOK, NEW c \in Calls, NEW outcome \in Places, End(c, outcome)
  PROVE  /\ at' \in [Calls -> Places]
         /\ attempt' \in [Calls -> 0..MaxRetries]
         /\ sent' \in [Calls -> 0..MaxTime]
         /\ reply' \in [Calls -> Replies]
BY ForwardAssumption DEF TypeOK, End, Replies

LEMMA FailedTypes ==
  ASSUME TypeOK, NEW c \in Calls, Failed(c) \/ GivesUp(c), UNCHANGED flight
  PROVE  TypeOK'
<1>1. now \in Nat
  BY ForwardAssumption DEF TypeOK
<1>2. breaker' \in Breakers
  BY <1>1, BreakerTypes DEF TypeOK, Failed, GivesUp
<1>3. CASE attempt[c] < Attempts(c) - 1 /\ at' = [at EXCEPT ![c] = "backoff"]
           /\ attempt' = [attempt EXCEPT ![c] = @ + 1]
           /\ reply' = [reply EXCEPT ![c] = "none"] /\ UNCHANGED sent
  <2>1. attempt[c] + 1 \in 0..MaxRetries
    BY <1>3, ForwardAssumption DEF TypeOK, Attempts
  <2> QED BY <1>2, <1>3, <2>1 DEF TypeOK, Failed, GivesUp, Places, Replies, service
<1>4. CASE End(c, "raised")
  BY <1>2, <1>4, EndTypes DEF TypeOK, Failed, GivesUp, Places, service
<1> QED BY <1>3, <1>4 DEF Failed, GivesUp

\* The second in which the memory of a jti ends.
LEMMA MemoryTypes ==
  ASSUME TypeOK, NEW c \in Calls, guarded
  PROVE  /\ Clock \in Nat
         /\ Memory(Token(issued[c]), Clock) \in Nat
         /\ Clock + Memory(Token(issued[c]), Clock) >= issued[c] + TokenTTL
<1>1. Clock \in Nat
  BY ForwardAssumption DEF TypeOK, Clock
<1> QED BY <1>1, GateAssumption, ForwardAssumption DEF TypeOK, Memory, Token

LEMMA TypeStep ==
  ASSUME TypeOK, [Next]_vars
  PROVE  TypeOK'
<1>1. ASSUME NEW c \in Calls, Attempt(c) PROVE TypeOK'
  <2>1. CASE ~Allows(breaker, now)
    BY <1>1, <2>1, EndTypes DEF Attempt, TypeOK, Places, service
  <2>2. CASE Allows(breaker, now)
    <3>1. breaker' \in Breakers
      <4>1. now \in Nat /\ breaker \in Breakers
        BY ForwardAssumption DEF TypeOK
      <4> QED BY <1>1, <2>2, <4>1, BreakerTypes DEF Attempt
    <3>2. now \in 0..MaxTime /\ <<c, attempt[c]>> \in Calls \X (0..MaxRetries)
      BY ForwardAssumption DEF TypeOK
    <3> QED BY <1>1, <2>2, <3>1, <3>2 DEF Attempt, TypeOK, Places, service
  <2> QED BY <2>1, <2>2
<1>2. ASSUME NEW c \in Calls, GetReply(c) PROVE TypeOK'
  <2>1. CASE Failed(c)
    BY <1>2, <2>1, FailedTypes DEF GetReply
  <2>2. CASE breaker' = AfterSuccess(breaker) /\ End(c, "returned") /\ UNCHANGED <<now, issued, service>>
    <3>1. breaker' \in Breakers
      BY <2>2, BreakerTypes, ForwardAssumption DEF TypeOK
    <3> QED BY <1>2, <2>2, <3>1, EndTypes DEF GetReply, TypeOK, Places, service
  <2> QED BY <1>2, <2>1, <2>2 DEF GetReply
<1>3. ASSUME NEW c \in Calls, TimeOut(c) \/ Unreachable(c) \/ OtherError(c) PROVE TypeOK'
  BY <1>3, FailedTypes DEF TimeOut, Unreachable, OtherError
<1>4. ASSUME NEW a \in flight, NEW r \in Replies, Answer(a[1], a[2], r),
             until' \in [Calls -> Nat], handled' \in [Calls -> Nat]
      PROVE TypeOK'
  BY <1>4 DEF Answer, TypeOK, edge
<1>5. ASSUME NEW a \in flight, Handle(a[1], a[2]), until' \in [Calls -> Nat] PROVE TypeOK'
  <2>1. handled' \in [Calls -> Nat]
    BY <1>5 DEF Handle, TypeOK
  <2>2. PICK r \in {"ok", "5xx"} : Answer(a[1], a[2], r)
    BY <1>5 DEF Handle
  <2> QED BY <1>4, <1>5, <2>1, <2>2 DEF Replies
<1>6. ASSUME NEW a \in flight, guarded, Remember(a[1]) PROVE until' \in [Calls -> Nat]
  <2>1. a[1] \in Calls
    BY DEF TypeOK
  <2>2. Clock + Memory(Token(issued[a[1]]), Clock) \in Nat
    BY <1>6, <2>1, MemoryTypes
  <2> QED BY <1>6, <2>1, <2>2 DEF Remember, TypeOK
<1>7. ASSUME NEW a \in flight, Receive(a[1], a[2]) PROVE TypeOK'
  <2>1. CASE Serve(a[1], a[2])
    BY <2>1, <1>5 DEF Serve, TypeOK
  <2>2. CASE Expired(a[1], a[2]) \/ Replayed(a[1], a[2])
    BY <2>2, <1>4 DEF Expired, Replayed, TypeOK, Replies, Refusals
  <2>3. CASE Accept(a[1], a[2])
    <3>1. until' \in [Calls -> Nat]
      BY <2>3, <1>6 DEF Accept
    <3>2. CASE Handle(a[1], a[2])
      BY <3>1, <3>2, <1>5
    <3>3. CASE Answer(a[1], a[2], "unauthorized") /\ UNCHANGED handled
      BY <3>1, <3>3, <1>4 DEF TypeOK, Replies, Refusals
    <3> QED BY <2>3, <3>2, <3>3 DEF Accept
  <2>4. CASE ServeUnavailable(a[1], a[2])
    <3>1. until' \in [Calls -> Nat]
      BY <2>4, <1>6 DEF ServeUnavailable, TypeOK
    <3> QED BY <2>4, <3>1, <1>4 DEF ServeUnavailable, TypeOK, Replies
  <2> QED BY <1>7, <2>1, <2>2, <2>3, <2>4 DEF Receive
<1>8. CASE Tick
  BY <1>8, ForwardAssumption DEF Tick, TypeOK, edge, service
<1>9. CASE UNCHANGED vars
  BY <1>9 DEF TypeOK, vars, edge, service
<1> QED BY <1>1, <1>2, <1>3, <1>7, <1>8, <1>9 DEF Next, Forward

LEMMA TypeInit ==
  ASSUME Init
  PROVE  TypeOK
BY ForwardAssumption DEF Init, TypeOK, NewBreaker, Breakers, States, Places, Replies

\* The variables keep their types.
THEOREM ForwardTypeCorrect == Spec => []TypeOK
BY TypeInit, TypeStep, PTL DEF Spec

-----------------------------------------------------------------------------
(* The breaker's count.                                                    *)

\* What a step does to the breaker.
LEMMA BreakerStep ==
  ASSUME [Next]_vars
  PROVE  \/ UNCHANGED breaker
         \/ breaker' = AfterAllow(breaker, now)
         \/ breaker' = AfterSuccess(breaker)
         \/ breaker' = AfterFailure(breaker, now)
<1>1. ASSUME NEW c \in Calls, Forward(c)
      PROVE  \/ UNCHANGED breaker
             \/ breaker' = AfterAllow(breaker, now)
             \/ breaker' = AfterSuccess(breaker)
             \/ breaker' = AfterFailure(breaker, now)
  BY <1>1 DEF Forward, Attempt, GetReply, TimeOut, Unreachable, OtherError, Failed, GivesUp
<1>2. ASSUME NEW a \in flight, Receive(a[1], a[2]) PROVE UNCHANGED breaker
  BY <1>2 DEF Receive, Serve, Expired, Replayed, Accept, ServeUnavailable, Handle, Answer, edge
<1> QED BY <1>1, <1>2 DEF Next, Tick, vars, edge

\* A closed breaker's count is below the threshold, in whatever order the outcomes of
\* the calls that share it come: record_success starts the count anew, record_failure
\* opens the breaker at the threshold.
THEOREM BreakerOpensInTime == Spec => []ClosedBelowThreshold
<1>1. Init => ClosedBelowThreshold
  BY BreakerAssumption DEF Init, NewBreaker, ClosedBelowThreshold
<1>2. TypeOK /\ ClosedBelowThreshold /\ [Next]_vars => ClosedBelowThreshold'
  <2> SUFFICES ASSUME TypeOK, ClosedBelowThreshold, [Next]_vars PROVE ClosedBelowThreshold'
    OBVIOUS
  <2>1. breaker \in Breakers /\ now \in Nat
    BY ForwardAssumption DEF TypeOK
  <2>2. FailureCount(breaker, now) \in Nat
    BY <2>1, BreakerAssumption DEF FailureCount, Breakers
  <2>3. CASE UNCHANGED breaker
    BY <2>3 DEF ClosedBelowThreshold
  <2>4. CASE breaker' = AfterAllow(breaker, now)
    BY <2>1, <2>4 DEF AfterAllow, Cooled, ProbeDue, ClosedBelowThreshold, Breakers
  <2>5. CASE breaker' = AfterSuccess(breaker)
    BY <2>1, <2>5, BreakerAssumption DEF AfterSuccess, ClosedBelowThreshold, Breakers
  <2>6. CASE breaker' = AfterFailure(breaker, now)
    BY <2>1, <2>2, <2>6, BreakerAssumption DEF AfterFailure, ClosedBelowThreshold, Breakers
  <2> QED BY <2>3, <2>4, <2>5, <2>6, BreakerStep
<1> QED BY <1>1, <1>2, ForwardTypeCorrect, PTL DEF Spec

-----------------------------------------------------------------------------
(* A prompt attempt is not out of date.                                    *)

\* What the clock and the local variables have to do with one another.
WaitInv ==
  \A c \in Calls :
    /\ sent[c] <= now
    /\ at[c] = "ready" => attempt[c] = 0
    /\ at[c] = "backoff" => attempt[c] > 0
    /\ at[c] = "waiting" /\ attempt[c] = 0 => issued[c] = sent[c]
    /\ at[c] # "waiting" => reply[c] = "none"

\* The clocks are no farther apart than a prompt call tolerates, and the window of the
\* signature is no narrower than what a token allows.
SkewsTolerated ==
  /\ Skew > 0
  /\ \A d \in Skews \cup {0} : d \in (-Skew)..(TokenTTL - Timeout)
  /\ Tolerance >= Skew /\ Tolerance >= TokenTTL

\* A failed attempt keeps WaitInv, and leaves no reply.
LEMMA FailedWaits ==
  ASSUME TypeOK, WaitInv, NEW c \in Calls, Failed(c) \/ GivesUp(c)
  PROVE  /\ WaitInv' /\ reply'[c] = "none"
         /\ \A d \in Calls \ {c} :
              reply'[d] = reply[d] /\ at'[d] = at[d] /\ attempt'[d] = attempt[d]
<1>1. CASE at' = [at EXCEPT ![c] = "backoff"] /\ attempt' = [attempt EXCEPT ![c] = @ + 1]
           /\ reply' = [reply EXCEPT ![c] = "none"] /\ UNCHANGED <<sent, now, issued>>
  BY <1>1 DEF WaitInv, TypeOK
<1>2. CASE End(c, "raised") /\ UNCHANGED <<now, issued>>
  BY <1>2, ForwardAssumption DEF End, WaitInv, TypeOK
<1> QED BY <1>1, <1>2 DEF Failed, GivesUp

LEMMA WaitStep ==
  ASSUME TypeOK, WaitInv, [Next]_vars
  PROVE  WaitInv'
<1>1. ASSUME NEW c \in Calls, Attempt(c) PROVE WaitInv'
  <2>1. CASE End(c, "raised") /\ UNCHANGED <<now, issued>>
    BY <2>1, ForwardAssumption DEF End, WaitInv, TypeOK
  <2>2. CASE /\ at' = [at EXCEPT ![c] = "waiting"] /\ sent' = [sent EXCEPT ![c] = now]
             /\ issued' = IF at[c] = "ready" THEN [issued EXCEPT ![c] = now] ELSE issued
             /\ UNCHANGED <<attempt, reply, now>>
    BY <1>1, <2>2, ForwardAssumption DEF Attempt, WaitInv, TypeOK
  <2> QED BY <1>1, <2>1, <2>2 DEF Attempt
<1>2. ASSUME NEW c \in Calls, GetReply(c) PROVE WaitInv'
  <2>1. CASE End(c, "returned") /\ UNCHANGED <<now, issued>>
    BY <2>1, ForwardAssumption DEF End, WaitInv, TypeOK
  <2> QED BY <1>2, <2>1, FailedWaits DEF GetReply
<1>3. ASSUME NEW c \in Calls, TimeOut(c) \/ Unreachable(c) \/ OtherError(c) PROVE WaitInv'
  BY <1>3, FailedWaits DEF TimeOut, Unreachable, OtherError
<1>4. ASSUME NEW a \in flight, Receive(a[1], a[2]) PROVE WaitInv'
  <2>1. PICK r : Answer(a[1], a[2], r)
    BY <1>4 DEF Receive, Serve, Expired, Replayed, Accept, ServeUnavailable, Handle
  <2> QED BY <2>1 DEF Answer, WaitInv, TypeOK, edge
<1>5. CASE Tick
  BY <1>5, ForwardAssumption DEF Tick, WaitInv, TypeOK, edge, service
<1>6. CASE UNCHANGED vars
  BY <1>6 DEF WaitInv, vars, edge
<1> QED BY <1>1, <1>2, <1>3, <1>4, <1>5, <1>6 DEF Next, Forward

LEMMA WaitInit ==
  ASSUME Init
  PROVE  WaitInv
BY ForwardAssumption DEF Init, WaitInv

LEMMA WaitsCorrect == Spec => []WaitInv
BY WaitInit, WaitStep, ForwardTypeCorrect, PTL DEF Spec

\* What the gate makes of a first attempt that arrives within Timeout.
LEMMA PromptAccepted ==
  ASSUME SkewsTolerated, TypeOK, WaitInv, NEW c \in Calls, at[c] = "waiting", attempt[c] = 0,
         now - sent[c] <= Timeout
  PROVE  Current(Token(issued[c]), Clock) /\ InWindow(Token(issued[c]), Clock)
<1>1. issued[c] <= now /\ now - issued[c] <= Timeout
  BY DEF WaitInv
<1>2. skew \in Int /\ -Skew <= skew /\ skew <= TokenTTL - Timeout
  BY ForwardAssumption, GateAssumption DEF TypeOK, SkewsTolerated
<1>3. now \in Nat /\ issued[c] \in Nat
  BY ForwardAssumption DEF TypeOK
<1> QED BY <1>1, <1>2, <1>3, GateAssumption, ForwardAssumption
        DEF Current, InWindow, Token, Clock, SkewsTolerated

\* With clocks no farther apart than SkewsTolerated says, whatever else runs and fails,
\* the user service does not refuse as out of date a first attempt that it answers within
\* Timeout: no answer but the gate's own is such a refusal, and the gate finds the token
\* current and the signature in its window.
THEOREM PromptAttemptsAreCurrent ==
  ASSUME SkewsTolerated
  PROVE  Spec => PromptIsCurrent
<1>1. TypeOK /\ WaitInv /\ [Next]_vars =>
        [\A c \in Calls :
           at[c] = "waiting" /\ attempt[c] = 0 /\ reply[c] = "none" /\ reply'[c] = "unauthorized" =>
             now - sent[c] > Timeout]_vars
  <2> SUFFICES ASSUME TypeOK, WaitInv, Next, NEW c \in Calls,
                      at[c] = "waiting", attempt[c] = 0, reply[c] = "none", reply'[c] = "unauthorized"
               PROVE  now - sent[c] > Timeout
    OBVIOUS
  <2>1. ASSUME NEW d \in Calls, Forward(d) PROVE FALSE
    <3>1. reply' = reply \/ reply' = [reply EXCEPT ![d] = "none"]
      BY <2>1 DEF Forward, Attempt, GetReply, TimeOut, Unreachable, OtherError, Failed, GivesUp, End
    <3> QED BY <3>1 DEF TypeOK
  <2>2. PICK a \in flight : Receive(a[1], a[2])
    BY <2>1 DEF Next, Tick
  <2>3. ASSUME NEW r, Answer(a[1], a[2], r) PROVE a[1] = c /\ r = "unauthorized"
    BY <2>3 DEF Answer, TypeOK
  <2>4. ~Current(Token(issued[c]), Clock) \/ ~InWindow(Token(issued[c]), Clock)
    BY <2>2, <2>3 DEF Receive, Serve, Expired, Replayed, Accept, ServeUnavailable, Handle
  <2>5. ~(now - sent[c] <= Timeout)
    BY <2>4, PromptAccepted
  <2>6. now \in Int /\ sent[c] \in Int /\ Timeout \in Int
    BY ForwardAssumption DEF TypeOK
  <2> QED BY <2>5, <2>6
<1> QED BY <1>1, ForwardTypeCorrect, WaitsCorrect, PTL DEF Spec, PromptIsCurrent

-----------------------------------------------------------------------------
(* An open breaker sends nobody.                                           *)

\* An attempt that allow() lets through leaves the breaker in another state than OPEN.
LEMMA AdmittedNotOpen ==
  ASSUME NEW b \in Breakers, NEW t \in Nat, Allows(b, t)
  PROVE  AfterAllow(b, t).state # "OPEN"
BY DEF Allows, AfterAllow, Cooled, ProbeDue, Breakers, States

\* A failure opens the breaker at this moment, or leaves its state and opening alone.
LEMMA FailureOpens ==
  ASSUME NEW b \in Breakers, NEW t \in Nat
  PROVE  LET c == AfterFailure(b, t)
         IN  c.opened_ts = t \/ (c.state = b.state /\ c.opened_ts = b.opened_ts)
BY DEF AfterFailure, Breakers

\* Whatever late outcomes do to it, nobody waits for a call that was sent after the open
\* breaker opened: one that lets a call through is no longer open, and one that opens
\* does so now.
THEOREM OpenBreakerSendsNobody == Spec => []OpenSendsNobody
<1>1. Init => OpenSendsNobody
  BY DEF Init, NewBreaker, OpenSendsNobody
<1>2. ASSUME TypeOK, WaitInv, OpenSendsNobody, [Next]_vars PROVE OpenSendsNobody'
  <2>1. breaker \in Breakers /\ now \in Nat
    BY <1>2, ForwardAssumption DEF TypeOK
  <2>2. ASSUME NEW c \in Calls, Failed(c) \/ GivesUp(c) PROVE OpenSendsNobody'
    <3>1. /\ breaker' = AfterFailure(breaker, now)
          /\ \A d \in Calls : at'[d] = "waiting" => at[d] = "waiting" /\ sent'[d] = sent[d]
      BY <1>2, <2>2 DEF Failed, GivesUp, End, TypeOK
    <3>2. \/ breaker'.opened_ts = now
          \/ breaker'.state = breaker.state /\ breaker'.opened_ts = breaker.opened_ts
      BY <2>1, <3>1, FailureOpens
    <3> QED BY <1>2, <3>1, <3>2 DEF OpenSendsNobody, WaitInv
  <2>3. ASSUME NEW c \in Calls, Attempt(c) PROVE OpenSendsNobody'
    <3>1. CASE Allows(breaker, now)
      <4>1. breaker'.state # "OPEN"
        BY <2>1, <2>3, <3>1, AdmittedNotOpen DEF Attempt
      <4> QED BY <4>1 DEF OpenSendsNobody
    <3>2. CASE ~Allows(breaker, now)
      <4>1. /\ UNCHANGED breaker
            /\ \A d \in Calls : at'[d] = "waiting" => at[d] = "waiting" /\ sent'[d] = sent[d]
        BY <1>2, <2>3, <3>2 DEF Attempt, End, TypeOK
      <4> QED BY <1>2, <4>1 DEF OpenSendsNobody
    <3> QED BY <3>1, <3>2
  <2>4. CASE breaker' = AfterSuccess(breaker)
    BY <2>1, <2>4 DEF AfterSuccess, Breakers, OpenSendsNobody
  <2>5. CASE UNCHANGED <<breaker, at, sent>>
    BY <1>2, <2>5 DEF OpenSendsNobody
  <2>6. ASSUME NEW a \in flight, Receive(a[1], a[2]) PROVE UNCHANGED <<breaker, at, sent>>
    BY <2>6 DEF Receive, Serve, Expired, Replayed, Accept, ServeUnavailable, Handle, Answer, edge
  <2> QED BY <1>2, <2>2, <2>3, <2>4, <2>5, <2>6
          DEF Next, Forward, GetReply, TimeOut, Unreachable, OtherError, Tick, vars, edge
<1> QED BY <1>1, <1>2, ForwardTypeCorrect, WaitsCorrect, PTL DEF Spec

-----------------------------------------------------------------------------
(* A call is handled once.                                                 *)

\* The attempts of c that are under way.
Away(c, n) == <<c, n>> \in flight

\* Nothing of a call is under way before its first attempt; a call that is not idempotent
\* has one attempt, and has been handled only if that has arrived; the jti of a call that
\* was handled is remembered until the end of its token.
HandledInv ==
  /\ \A c \in Calls : at[c] = "ready" => handled[c] = 0 /\ \A n \in 0..MaxRetries : ~Away(c, n)
  /\ \A c \in Calls \ Gets : at[c] # "backoff" /\ attempt[c] = 0
  /\ \A c \in Calls \ Gets : \A n \in 0..MaxRetries : Away(c, n) => n = 0 /\ handled[c] = 0
  /\ guarded => \A c \in Calls : handled[c] > 0 => until[c] >= issued[c] + TokenTTL

LEMMA FailedHandled ==
  ASSUME TypeOK, HandledInv, NEW c \in Calls, at[c] # "ready", Failed(c) \/ GivesUp(c), UNCHANGED flight
  PROVE  HandledInv'
<1>1. CASE c \in Gets /\ at' = [at EXCEPT ![c] = "backoff"] /\ attempt' = [attempt EXCEPT ![c] = @ + 1]
  BY <1>1 DEF Failed, GivesUp, HandledInv, Away, TypeOK, service
<1>2. CASE End(c, "raised")
  BY <1>2 DEF Failed, GivesUp, End, HandledInv, Away, TypeOK, service
<1>3. c \notin Gets => ~(attempt[c] < Attempts(c) - 1)
  BY DEF HandledInv, Attempts
<1> QED BY <1>1, <1>2, <1>3 DEF Failed, GivesUp

\* What arrives at the service changes nothing of the edge's but its reply.
LEMMA ReceiveHandled ==
  ASSUME TypeOK, HandledInv, NEW a \in flight, Receive(a[1], a[2])
  PROVE  HandledInv' /\ (\A c \in Calls :
           handled'[c] > handled[c] /\ (guarded \/ c \notin Gets) =>
             handled[c] = 0 \/ (c \in Gets /\ Clock = Token(issued[c]).exp))
<1>1. /\ a = <<a[1], a[2]>> /\ a[1] \in Calls /\ a[2] \in 0..MaxRetries
      /\ Away(a[1], a[2])
  BY DEF TypeOK, Away
<1>2. UNCHANGED <<at, attempt, issued, guarded>> /\ flight' = flight \ {a}
  BY <1>1 DEF Receive, Serve, Expired, Replayed, Accept, ServeUnavailable, Handle, Answer, edge
<1>3. /\ until' = until \/ (guarded /\ MayForget(a[1]) /\ Remember(a[1]))
      /\ \/ handled' = handled
         \/ /\ handled' = [handled EXCEPT ![a[1]] = @ + 1]
            /\ guarded => /\ Current(Token(issued[a[1]]), Clock) /\ MayForget(a[1])
                          /\ Remember(a[1])
  BY DEF Receive, Serve, Expired, Replayed, Accept, ServeUnavailable, Handle
<1>4. at[a[1]] # "ready" /\ (a[1] \notin Gets => handled[a[1]] = 0 /\ a[2] = 0)
  BY <1>1 DEF HandledInv
<1>5. guarded' => \A c \in Calls : handled'[c] > 0 => until'[c] >= issued'[c] + TokenTTL
  <2> SUFFICES ASSUME guarded, NEW c \in Calls, handled'[c] > 0
               PROVE  until'[c] >= issued[c] + TokenTTL
    BY <1>2
  <2>1. CASE until' = until /\ handled' = handled
    BY <2>1 DEF HandledInv
  <2>2. CASE Remember(a[1])
    <3>1. CASE c = a[1]
      BY <2>2, <3>1, <1>1, MemoryTypes DEF Remember, TypeOK
    <3>2. CASE c # a[1]
      BY <2>2, <3>2, <1>1, <1>3 DEF Remember, TypeOK, HandledInv
    <3> QED BY <3>1, <3>2
  <2> QED BY <2>1, <2>2, <1>3
<1>6. ASSUME NEW c \in Calls \ Gets, NEW n \in 0..MaxRetries, Away(c, n)'
      PROVE  n = 0 /\ handled'[c] = 0
  <2>1. Away(c, n) /\ <<c, n>> # a
    BY <1>2, <1>6 DEF Away
  <2>2. n = 0 /\ handled[c] = 0
    BY <2>1 DEF HandledInv
  <2>3. c # a[1]
    BY <2>1, <2>2, <1>1, <1>4
  <2> QED BY <2>2, <2>3, <1>1, <1>3 DEF TypeOK
<1>7. HandledInv'
  <2>1. \A c \in Calls : at'[c] = "ready" => handled'[c] = 0 /\ \A n \in 0..MaxRetries : ~Away(c, n)'
    BY <1>1, <1>2, <1>3, <1>4 DEF HandledInv, Away, TypeOK
  <2>2. \A c \in Calls \ Gets : at'[c] # "backoff" /\ attempt'[c] = 0
    BY <1>2 DEF HandledInv
  <2> QED BY <2>1, <2>2, <1>5, <1>6 DEF HandledInv
<1>8. ASSUME NEW c \in Calls, handled'[c] > handled[c], guarded \/ c \notin Gets
      PROVE  handled[c] = 0 \/ (c \in Gets /\ Clock = Token(issued[c]).exp)
  <2>1. c = a[1] /\ (guarded => Current(Token(issued[c]), Clock) /\ MayForget(c))
    BY <1>1, <1>3, <1>8 DEF TypeOK
  <2>2. CASE c \notin Gets
    BY <2>1, <2>2, <1>4
  <2>3. CASE c \in Gets /\ handled[c] > 0
    <3>1. guarded /\ until[c] >= issued[c] + TokenTTL
      BY <2>3, <1>8 DEF HandledInv
    <3>2. issued[c] + TokenTTL >= Clock /\ Clock >= until[c]
      BY <2>1, <3>1 DEF Current, MayForget, Token
    <3>3. Clock \in Int /\ until[c] \in Int /\ issued[c] + TokenTTL \in Int
      BY ForwardAssumption, GateAssumption DEF TypeOK, Clock
    <3> QED BY <2>3, <3>1, <3>2, <3>3 DEF Token
  <2> QED BY <2>2, <2>3 DEF TypeOK
<1> QED BY <1>7, <1>8

LEMMA HandledStep ==
  ASSUME TypeOK, HandledInv, [Next]_vars
  PROVE  HandledInv'
<1>1. ASSUME NEW c \in Calls, Attempt(c) PROVE HandledInv'
  <2>1. CASE End(c, "raised") /\ UNCHANGED <<issued, flight>>
    BY <1>1, <2>1 DEF Attempt, End, HandledInv, Away, TypeOK, service
  <2>2. CASE /\ at' = [at EXCEPT ![c] = "waiting"]
             /\ issued' = IF at[c] = "ready" THEN [issued EXCEPT ![c] = now] ELSE issued
             /\ flight' = flight \cup {<<c, attempt[c]>>} /\ UNCHANGED attempt
    <3>1. UNCHANGED <<guarded, until, handled>>
      BY <1>1 DEF Attempt, service
    <3>2. c \notin Gets => at[c] = "ready" /\ attempt[c] = 0
      BY <1>1 DEF Attempt, HandledInv
    <3>3. \A d \in Calls : at'[d] = "ready" => handled'[d] = 0 /\ \A n \in 0..MaxRetries : ~Away(d, n)'
      BY <2>2, <3>1 DEF HandledInv, Away, TypeOK
    <3>4. \A d \in Calls \ Gets : at'[d] # "backoff" /\ attempt'[d] = 0
      BY <2>2 DEF HandledInv, TypeOK
    <3>5. \A d \in Calls \ Gets : \A n \in 0..MaxRetries : Away(d, n)' => n = 0 /\ handled'[d] = 0
      BY <2>2, <3>1, <3>2 DEF HandledInv, Away
    <3>6. guarded' => \A d \in Calls : handled'[d] > 0 => until'[d] >= issued'[d] + TokenTTL
      BY <2>2, <3>1 DEF HandledInv, TypeOK
    <3> QED BY <3>3, <3>4, <3>5, <3>6 DEF HandledInv
  <2> QED BY <1>1, <2>1, <2>2 DEF Attempt
<1>2. ASSUME NEW c \in Calls, GetReply(c) PROVE HandledInv'
  <2>1. CASE End(c, "returned") /\ UNCHANGED <<issued, service, flight>>
    BY <1>2, <2>1 DEF GetReply, End, HandledInv, Away, TypeOK, service
  <2> QED BY <1>2, <2>1, FailedHandled DEF GetReply
<1>3. ASSUME NEW c \in Calls, TimeOut(c) \/ Unreachable(c) \/ OtherError(c) PROVE HandledInv'
  BY <1>3, FailedHandled DEF TimeOut, Unreachable, OtherError
<1>4. CASE Tick \/ UNCHANGED vars
  BY <1>4 DEF Tick, HandledInv, Away, vars, edge, service
<1> QED BY <1>1, <1>2, <1>3, <1>4, ReceiveHandled DEF Next, Forward

LEMMA HandledInit ==
  ASSUME Init
  PROVE  HandledInv
BY DEF Init, HandledInv, Away

\* However late its attempts arrive, a call that is not idempotent is handled once; one
\* that is, by a service with the gate, again only in the last second of its token.
THEOREM HandlersRunOnce == Spec => HandledOnce
<1>1. TypeOK /\ HandledInv /\ [Next]_vars =>
        [\A c \in Calls :
           handled'[c] > handled[c] /\ (guarded \/ c \notin Gets) =>
             handled[c] = 0 \/ (c \in Gets /\ Clock = Token(issued[c]).exp)]_vars
  <2> SUFFICES ASSUME TypeOK, HandledInv, Next, NEW c \in Calls,
                      handled'[c] > handled[c], guarded \/ c \notin Gets
               PROVE  handled[c] = 0 \/ (c \in Gets /\ Clock = Token(issued[c]).exp)
    OBVIOUS
  <2>1. ~(handled' = handled)
    BY DEF TypeOK
  <2>2. PICK a \in flight : Receive(a[1], a[2])
    BY <2>1 DEF Next, Forward, Attempt, GetReply, TimeOut, Unreachable, OtherError, Failed, GivesUp,
       Tick, service
  <2> QED BY <2>2, ReceiveHandled
<1> QED BY <1>1, HandledInit, HandledStep, ForwardTypeCorrect, PTL DEF Spec, HandledOnce

-----------------------------------------------------------------------------
(* Few probes while half open.                                             *)

\* Two calls were sent a probe interval apart.
Apart(c, d) == sent[c] - sent[d] >= HalfOpenProbe \/ sent[d] - sent[c] >= HalfOpenProbe

\* But for the one as the breaker left OPEN, probes are an interval apart, and the next
\* is not due before an interval after each.
Spread(first) ==
  \A c \in Probes \ {first} :
    /\ sent[c] + HalfOpenProbe <= breaker.next_half_open_try_ts
    /\ \A d \in Probes \ {first, c} : Apart(c, d)

ProbeInv ==
  /\ breaker.state = "OPEN" => Probes = {}
  /\ breaker.state = "HALF_OPEN" => \E first \in Calls : Spread(first)

\* Calls that end leave the other probes as they were.
LEMMA FewerProbes ==
  ASSUME ProbeInv, Probes' \subseteq Probes, \A c \in Probes' : sent'[c] = sent[c],
         breaker'.state = breaker.state,
         breaker'.next_half_open_try_ts = breaker.next_half_open_try_ts
  PROVE  ProbeInv'
<1>1. ASSUME NEW first \in Calls, Spread(first) PROVE Spread(first)'
  BY <1>1 DEF Spread, Apart
<1> QED BY <1>1 DEF ProbeInv

LEMMA EndedProbes ==
  ASSUME TypeOK, NEW c \in Calls, at'[c] # "waiting",
         \A d \in Calls \ {c} : at'[d] = at[d] /\ sent'[d] = sent[d],
         breaker'.opened_ts = breaker.opened_ts
  PROVE  Probes' \subseteq Probes /\ \A d \in Probes' : sent'[d] = sent[d]
BY DEF Probes

\* A failure either opens the breaker, when no call has been sent since, or leaves its
\* state as it is.
LEMMA FailedProbes ==
  ASSUME OpenCooldown > 0, TypeOK, WaitInv, ProbeInv, NEW c \in Calls, Failed(c) \/ GivesUp(c)
  PROVE  ProbeInv'
<1>1. now \in Nat /\ breaker \in Breakers /\ FailureCount(breaker, now) \in Nat
  BY ForwardAssumption, BreakerAssumption DEF TypeOK, FailureCount, Breakers
<1>2. at'[c] # "waiting" /\ \A d \in Calls \ {c} : at'[d] = at[d] /\ sent'[d] = sent[d]
  BY DEF Failed, GivesUp, End, TypeOK
<1>3. CASE FailureCount(breaker, now) >= FailThreshold
  <2>1. breaker'.state = "OPEN" /\ breaker'.opened_ts = now
    BY <1>1, <1>3 DEF Failed, GivesUp, AfterFailure, Breakers
  <2>2. \A d \in Calls : at'[d] = "waiting" => sent'[d] <= now /\ sent'[d] \in Nat
    BY <1>2 DEF WaitInv, TypeOK
  <2>3. Probes' = {}
    BY <1>1, <2>1, <2>2, BreakerAssumption DEF Probes
  <2> QED BY <2>1, <2>3 DEF ProbeInv
<1>4. CASE ~(FailureCount(breaker, now) >= FailThreshold)
  <2>1. /\ breaker'.state = breaker.state /\ breaker'.opened_ts = breaker.opened_ts
        /\ breaker'.next_half_open_try_ts = breaker.next_half_open_try_ts
    BY <1>1, <1>4 DEF Failed, GivesUp, AfterFailure, Breakers
  <2> QED BY <1>2, <2>1, EndedProbes, FewerProbes
<1> QED BY <1>3, <1>4

LEMMA AttemptProbes ==
  ASSUME TypeOK, WaitInv, ProbeInv, NEW c \in Calls, Attempt(c)
  PROVE  ProbeInv'
<1>1. now \in Nat /\ breaker \in Breakers /\ at[c] # "waiting" /\ c \notin Probes
  BY ForwardAssumption DEF TypeOK, Attempt, Probes
<1>2. CASE ~Allows(breaker, now)
  <2>1. at'[c] # "waiting" /\ breaker' = breaker
        /\ \A d \in Calls \ {c} : at'[d] = at[d] /\ sent'[d] = sent[d]
    BY <1>2 DEF Attempt, End, TypeOK
  <2> QED BY <2>1, EndedProbes, FewerProbes
<1>3. CASE Allows(breaker, now)
  <2>1. /\ breaker' = AfterAllow(breaker, now)
        /\ at' = [at EXCEPT ![c] = "waiting"] /\ sent' = [sent EXCEPT ![c] = now]
    BY <1>3 DEF Attempt
  <2>2. breaker'.opened_ts = breaker.opened_ts
    BY <1>1, <2>1 DEF AfterAllow, Cooled, ProbeDue, Breakers
  <2>3. Probes' \subseteq Probes \cup {c} /\ sent'[c] = now
        /\ \A d \in Probes' \ {c} : d \in Probes /\ sent'[d] = sent[d]
    BY <2>1, <2>2 DEF Probes, TypeOK
  <2>4. CASE breaker.state = "CLOSED"
    BY <1>1, <2>1, <2>4 DEF AfterAllow, Cooled, ProbeDue, ProbeInv
  <2>5. CASE Cooled(breaker, now)
    <3>1. Probes' \subseteq {c} /\ breaker'.state = "HALF_OPEN"
      <4>1. Probes = {}
        BY <2>5 DEF Cooled, ProbeInv
      <4>2. breaker'.state = "HALF_OPEN"
        BY <1>1, <2>1, <2>5 DEF AfterAllow, Cooled, ProbeDue, Breakers
      <4> QED BY <2>3, <4>1, <4>2
    <3>2. Spread(c)'
      BY <3>1 DEF Spread
    <3> QED BY <3>1, <3>2 DEF ProbeInv
  <2>6. CASE ProbeDue(breaker, now)
    <3>1. /\ breaker.state = "HALF_OPEN" /\ breaker'.state = "HALF_OPEN"
          /\ breaker'.next_half_open_try_ts = now + HalfOpenProbe
          /\ now >= breaker.next_half_open_try_ts
      BY <1>1, <2>1, <2>6 DEF AfterAllow, Cooled, ProbeDue, Breakers
    <3>2. PICK first \in Calls : Spread(first)
      BY <3>1 DEF ProbeInv
    <3>3. \A d \in Probes \ {first} : sent[d] + HalfOpenProbe <= now /\ sent[d] \in Nat
      BY <1>1, <3>1, <3>2, BreakerAssumption DEF Spread, Probes, TypeOK, Breakers
    <3>4. CASE first # c
      <4>1. ASSUME NEW d \in Probes' \ {first} PROVE sent'[d] + HalfOpenProbe <= now + HalfOpenProbe
        BY <1>1, <2>3, <3>3, BreakerAssumption
      <4>2. ASSUME NEW d \in Probes' \ {first}, NEW e \in Probes' \ {first, d} PROVE Apart(d, e)'
        <5>1. CASE d = c \/ e = c
          BY <1>1, <2>3, <3>3, <5>1, BreakerAssumption DEF Apart
        <5>2. CASE d # c /\ e # c
          BY <2>3, <3>2, <5>2 DEF Spread, Apart
        <5> QED BY <5>1, <5>2
      <4>3. Spread(first)'
        BY <3>1, <4>1, <4>2 DEF Spread
      <4> QED BY <3>1, <4>3 DEF ProbeInv
    <3>5. CASE first = c
      <4>1. \A d \in Probes' \ {c} : sent'[d] + HalfOpenProbe <= now + HalfOpenProbe
        BY <1>1, <2>3, <3>3, <3>5, BreakerAssumption
      <4>2. \A d \in Probes' \ {c} : \A e \in Probes' \ {c, d} : Apart(d, e)'
        BY <2>3, <3>2, <3>5 DEF Spread, Apart
      <4>3. Spread(c)'
        BY <3>1, <4>1, <4>2 DEF Spread
      <4> QED BY <3>1, <4>3 DEF ProbeInv
    <3> QED BY <3>4, <3>5
  <2> QED BY <1>3, <2>4, <2>5, <2>6 DEF Allows
<1> QED BY <1>2, <1>3

LEMMA ProbeStep ==
  ASSUME OpenCooldown > 0, TypeOK, WaitInv, ProbeInv, [Next]_vars
  PROVE  ProbeInv'
<1>1. ASSUME NEW c \in Calls, GetReply(c) PROVE ProbeInv'
  <2>1. CASE breaker' = AfterSuccess(breaker)
    BY <2>1 DEF AfterSuccess, ProbeInv, TypeOK, Breakers
  <2> QED BY <1>1, <2>1, FailedProbes DEF GetReply
<1>2. ASSUME NEW c \in Calls, Attempt(c) \/ TimeOut(c) \/ Unreachable(c) \/ OtherError(c)
      PROVE  ProbeInv'
  BY <1>2, AttemptProbes, FailedProbes DEF TimeOut, Unreachable, OtherError
<1>3. CASE UNCHANGED <<breaker, at, sent>>
  BY <1>3 DEF ProbeInv, Spread, Apart, Probes
<1>4. ASSUME NEW a \in flight, Receive(a[1], a[2]) PROVE UNCHANGED <<breaker, at, sent>>
  BY <1>4 DEF Receive, Serve, Expired, Replayed, Accept, ServeUnavailable, Handle, Answer, edge
<1> QED BY <1>1, <1>2, <1>3, <1>4 DEF Next, Forward, Tick, vars, edge

LEMMA ProbeInit ==
  ASSUME Init
  PROVE  ProbeInv
BY DEF Init, ProbeInv, NewBreaker

\* A set of two has at most two elements.
LEMMA PairCardinality ==
  ASSUME NEW a, NEW b, NEW S, S \subseteq {a, b}
  PROVE  Cardinality(S) <= 2
<1>1. IsFiniteSet({a}) /\ Cardinality({a}) = 1
  BY FS_Singleton
<1>2. IsFiniteSet({a} \cup {b}) /\ Cardinality({a} \cup {b}) \in {1, 2}
  BY <1>1, FS_AddElement
<1>3. {a} \cup {b} = {a, b}
  OBVIOUS
<1>4. IsFiniteSet(S) /\ Cardinality(S) <= Cardinality({a, b}) /\ Cardinality(S) \in Nat
  BY <1>2, <1>3, FS_Subset, FS_CardinalityType
<1> QED BY <1>2, <1>3, <1>4

\* While half open, no more than two probes leave within one probe interval: allow() puts
\* the next one off each time but as it leaves OPEN.
THEOREM ProbesAreFew ==
  ASSUME OpenCooldown > 0
  PROVE  Spec => []TwoProbesPerInterval
<1>1. TypeOK /\ ProbeInv => TwoProbesPerInterval
  <2> SUFFICES ASSUME TypeOK, ProbeInv, breaker.state = "HALF_OPEN", NEW c \in Probes
               PROVE  Cardinality({d \in Probes : sent[d] \in sent[c]..(sent[c] + HalfOpenProbe - 1)}) <= 2
    BY DEF TwoProbesPerInterval
  <2> DEFINE Within == {d \in Probes : sent[d] \in sent[c]..(sent[c] + HalfOpenProbe - 1)}
  <2>1. PICK first \in Calls : Spread(first)
    BY DEF ProbeInv
  <2>2. ASSUME NEW d \in Within \ {first}, NEW e \in Within \ {first} PROVE d = e
    <3>1. sent[c] \in Nat /\ sent[d] \in Nat /\ sent[e] \in Nat
      BY DEF TypeOK, Probes
    <3>2. ~Apart(d, e)
      BY <3>1, BreakerAssumption DEF Apart
    <3> QED BY <2>1, <3>2 DEF Spread
  <2>3. PICK other : Within \subseteq {first, other}
    BY <2>2
  <2> QED BY <2>3, PairCardinality
<1> QED BY <1>1, ProbeInit, ProbeStep, ForwardTypeCorrect, WaitsCorrect, PTL DEF Spec
=============================================================================
