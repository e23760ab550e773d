---------------------------- MODULE EdgePipeline ----------------------------
(***************************************************************************)
(* The edge's chain of middlewares in the order in which they run, which is*)
(* the reverse of the order in which main.py adds them: idempotency        *)
(* (EdgeIdempotency), user authentication, rate limit, route.  The rate    *)
(* limit counts a caller's requests per window in a Redis key, whose expiry*)
(* is set by a second command when the count is 1.                         *)
(***************************************************************************)
EXTENDS EdgeIdempotency, Integers

CONSTANTS
  Users,         \* values of the token's sub
  Address,       \* the client address of requests to /auth
  Routes,        \* the routes whose requests are not protected
  UserLimit,     \* RL_AUTHD_PER_USER_PER_MIN
  AddressLimit,  \* RL_AUTH_PER_IP_PER_MIN
  Window,        \* window_seconds
  MaxTime,       \* bound on the clock
  MaxChainFaults \* bound on Redis errors of the rate limit

ASSUME PipelineAssumption ==
  /\ Address \notin Users /\ NULL \notin Users \cup {Address} \cup Int
  /\ Routes \subseteq {"auth", "users", "transaction", "kyc", "account"}
  /\ UserLimit \in Nat /\ AddressLimit \in Nat
  /\ Window \in Nat \ {0} /\ MaxTime \in Nat /\ MaxChainFaults \in Nat

VARIABLES
  now,       \* time.time(), and the clock of Redis
  stage,     \* where the request stands behind the idempotency middleware
  visit,     \* its route, and the user of its token or its address
  window,    \* int(time.time()) // window_seconds when it built its counter's key
  counters,  \* rl:user and rl:ip keys: count and expiry
  chainFaults, \* Redis errors so far
  passed     \* how many requests each counter has let through during its window

pipeline == <<now, stage, visit, window, counters, chainFaults, passed>>
allvars == <<vars, pipeline>>
idempotency == vars

Stages == {"none", "auth", "ping", "incr", "expire", "route"}
Callers == Users \cup {Address}
Windows == 0 .. MaxTime \div Window
Gone == [count |-> 0, expires |-> NULL]

PipelineInit ==
  /\ Init
  /\ now = 0
  /\ stage = [r \in Requests |-> "none"]
  /\ visit = [r \in Requests |-> NULL]
  /\ window = [r \in Requests |-> NULL]
  /\ counters = [c \in Callers \X Windows |-> Gone]
  /\ chainFaults = 0
  /\ passed = [c \in Callers \X Windows |-> 0]

caller(r) == visit[r].caller
counter(r) == <<caller(r), window[r]>>
Limit(c) == IF c = Address THEN AddressLimit ELSE UserLimit

Advance(r, s) == stage' = [stage EXCEPT ![r] = s]

\* The chain ends: the response or the exception goes back to call_next, and the
\* locals of the request are gone.
Leave(r, o) ==
  /\ Advance(r, "none")
  /\ visit' = [visit EXCEPT ![r] = NULL]
  /\ window' = [window EXCEPT ![r] = NULL]
  /\ Receives(r, o)

-----------------------------------------------------------------------------
\* call_next enters the rest of the chain.  A token that is missing, unknown or
\* expired has the caller NULL.
Enter(r) ==
  /\ at[r] = "call_next" /\ stage[r] = "none"
  /\ Advance(r, "auth")
  /\ \E route \in IF r \in Protected THEN {"users"} ELSE Routes,
        c \in Callers \cup {NULL} :
       /\ route = "auth" <=> c = Address
       /\ visit' = [visit EXCEPT ![r] = [route |-> route, caller |-> c]]
  /\ UNCHANGED <<idempotency, now, window, counters, chainFaults, passed>>

\* PUBLIC_PREFIXES pass, a valid token sets user_id, all others are answered 401.
Authenticate(r) ==
  /\ stage[r] = "auth"
  /\ \/ caller(r) # NULL /\ Advance(r, "ping") /\ UNCHANGED <<idempotency, visit, window>>
     \/ caller(r) = NULL /\ Leave(r, "other") /\ UNCHANGED <<effects, faults>>
  /\ UNCHANGED <<now, counters, chainFaults, passed>>

\* require_redis answered; the key of the counter names the window of this moment.
BuildKey(r) ==
  /\ stage[r] = "ping"
  /\ window' = [window EXCEPT ![r] = now \div Window]
  /\ Advance(r, "incr")
  /\ UNCHANGED <<idempotency, now, visit, counters, chainFaults, passed>>

Admit(r, count) ==
  IF count > Limit(caller(r))
  THEN Leave(r, "other") /\ UNCHANGED <<effects, faults, passed>>
  ELSE /\ Advance(r, "route")
       /\ passed' = IF window[r] # now \div Window THEN passed
                    ELSE [passed EXCEPT ![counter(r)] = @ + 1]
       /\ UNCHANGED <<idempotency, visit, window>>

\* Mutant of First: the expiry is set when the count is 0.
FirstOfNone(count) == count = 0

First(count) == count = 1

Counted(c) == [counters EXCEPT ![c].count = @ + 1]

Incr(r) ==
  /\ stage[r] = "incr"
  /\ counters' = Counted(counter(r))
  /\ LET count == counters'[counter(r)].count
     IN  IF First(count) THEN Advance(r, "expire") /\ UNCHANGED <<idempotency, visit, window, passed>>
         ELSE Admit(r, count)
  /\ UNCHANGED <<now, chainFaults>>

\* Mutant of Expiring: a lifetime that ends before the window may.
ExpiringEarly(c) == [counters EXCEPT ![c].expires = now + Window - 1]

Expiring(c) == [counters EXCEPT ![c].expires = now + Window]

Expire(r) ==
  /\ stage[r] = "expire"
  /\ counters' = Expiring(counter(r))
  /\ Admit(r, 1)
  /\ UNCHANGED <<now, chainFaults>>

-----------------------------------------------------------------------------
\* Mutant of Mapped: a JSON error without its status_code.
MappedTo200(route) == "2xx"

\* The routes whose except clauses answer every failure of forward() with a JSON error.
Controlled == {"transaction"}

\* What the client gets of a DownstreamError: the other routes, those of proxy.py, pass
\* map_downstream_error an argument it does not take, and raise.
Mapped(route) == IF route \in Controlled THEN "other" ELSE "raised"

\* kyc calls forward without service_name, account reads a setting that does not
\* exist: both answer 503 and send nothing.
Broken == {"kyc", "account"}

\* forward() returned: a response of the service, or an error that maps to one.
\* Only a response of success tells that there was an effect.
Route(r) ==
  /\ stage[r] = "route" /\ visit[r].route \notin Broken
  /\ \/ /\ effects' = effects \cup {r}
        /\ \E o \in {"2xx", "other", Mapped(visit[r].route)} : Leave(r, o)
     \/ /\ \E o \in {"other", Mapped(visit[r].route)} : Leave(r, o)
        /\ UNCHANGED effects
  /\ UNCHANGED <<faults, now, counters, chainFaults, passed>>

RouteBroken(r) ==
  /\ stage[r] = "route" /\ visit[r].route \in Broken
  /\ Leave(r, "other")
  /\ UNCHANGED <<effects, faults, now, counters, chainFaults, passed>>

\* Redis fails at the PING, the INCR or the EXPIRE, before or after the latter took
\* effect: the exception leaves the chain.
ChainRedisFails(r) ==
  /\ chainFaults < MaxChainFaults /\ chainFaults' = chainFaults + 1
  /\ stage[r] \in {"ping", "incr", "expire"}
  /\ \/ UNCHANGED counters
     \/ stage[r] = "incr" /\ counters' = Counted(counter(r))
     \/ stage[r] = "expire" /\ counters' = Expiring(counter(r))
  /\ Leave(r, "raised")
  /\ UNCHANGED <<effects, faults, now, passed>>

\* Time passes; Redis drops the counters whose expiry has come.
Tick ==
  /\ now < MaxTime
  /\ now' = now + 1
  /\ counters' = [c \in DOMAIN counters |->
       IF counters[c].expires \in 0 .. now' THEN Gone ELSE counters[c]]
  /\ UNCHANGED <<idempotency, stage, visit, window, chainFaults, passed>>

PipelineCrash ==
  /\ Crash
  /\ stage' = [r \in Requests |-> "none"]
  /\ visit' = [r \in Requests |-> NULL]
  /\ window' = [r \in Requests |-> NULL]
  /\ UNCHANGED <<now, counters, chainFaults, passed>>

Middleware(r) ==
  /\ Receive(r) \/ PassBy(r) \/ Get(r) \/ TryLock(r) \/ Store(r) \/ Unlock(r) \/ RedisFails(r)
  /\ UNCHANGED pipeline

Entries(k) == (CorruptEntry(k) \/ ExpireLock(k) \/ ExpireResp(k)) /\ UNCHANGED pipeline

PipelineNext ==
  \/ \E r \in Requests :
       \/ Middleware(r) \/ Enter(r) \/ Authenticate(r) \/ BuildKey(r) \/ Incr(r) \/ Expire(r)
       \/ Route(r) \/ RouteBroken(r) \/ ChainRedisFails(r)
  \/ \E k \in Keys : Entries(k)
  \/ Tick \/ PipelineCrash

PipelineSpec == PipelineInit /\ [][PipelineNext]_allvars

-----------------------------------------------------------------------------
\* The chain does what EdgeIdempotency takes call_next for: it answers once, a
\* response of success only with an effect, and touches nothing of the middleware's.
ImplementsCallNext == Spec

\* Of the requests of one caller that are counted in a window while it lasts, no
\* more than the limit pass, although INCR and EXPIRE are two commands.
WithinLimit == \A c \in Callers, w \in Windows : passed[<<c, w>>] <= Limit(c)

\* Without faults no counter is left without an expiry: the request that counted 1
\* is still about to set it.
CountersExpire ==
  faults = 0 /\ chainFaults = 0 =>
    \A c \in DOMAIN counters :
      counters[c].count > 0 /\ counters[c].expires = NULL =>
        \E r \in Requests : stage[r] = "expire" /\ counter(r) = c
=============================================================================
