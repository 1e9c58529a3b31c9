--------------------------- MODULE RequestLimits ---------------------------
(***************************************************************************)
(* The request limiter (security/rate_limiter.py): a sliding window per    *)
(* client, one per limited endpoint shared by all clients, and a token     *)
(* bucket for the whole service.  A request passes them in that order and  *)
(* what it took from the first is not given back when a later one refuses  *)
(* it.  Windows of idle clients are dropped from time to time; a change of *)
(* configuration replaces the limiter by a fresh one, which knows nothing  *)
(* of what the one before it let through: the logs do.  Time is a number   *)
(* of ticks, and Minute is how many of them make a minute.                 *)
(***************************************************************************)
EXTENDS Integers, Sequences, FiniteSets

CONSTANTS
  Clients,          \* callers, told apart by token or by address
  Endpoints,        \* endpoints with a limit of their own
  NoEndpoint,       \* every other path
  Rates,            \* values rate_limit_per_minute is configured to
  MaxRate,          \* the largest of them
  EndpointLimit,    \* endpoint -> requests in an EndpointWindow
  Window,           \* rate_limit_window_seconds
  EndpointWindow,
  Burst,            \* global_burst
  Minute,
  CleanupEvery,     \* _cleanup_interval
  MaxIdle,          \* _client_max_idle
  MaxTime,          \* bound: the clock stops here
  MaxRebuilds,      \* bound on the changes of configuration
  MaxPassed         \* bound on the requests of one client in the log

ASSUME LimitsAssumption ==
  /\ {Window, EndpointWindow, Minute, CleanupEvery, MaxIdle, MaxTime, MaxRebuilds,
      MaxPassed} \subseteq Nat
  /\ MaxRate \in Nat /\ Rates \subseteq 0..MaxRate /\ Burst \in Nat
  /\ EndpointLimit \in [Endpoints -> Nat]
  /\ NoEndpoint \notin Endpoints

VARIABLES
  now,
  limiter,   \* the limiter in force
  rebuilt,   \* history: when it was replaced
  passed,    \* history: client -> the requests its windows let through
  reached,   \* history: endpoint -> the requests its windows let through
  granted    \* history: the requests allowed

limitVars == <<now, limiter, rebuilt, passed, reached, granted>>

----------------------------------------------------------------------------

\* A window holds the positions, in the log, of the requests it counts.
New(rate) ==
  [rate      |-> rate,
   windows   |-> [c \in Clients |-> {}],
   seen      |-> [c \in Clients |-> now],
   cleaned   |-> now,
   endpoints |-> [e \in Endpoints |-> {}],
   tokens    |-> Burst * Minute,
   refilled  |-> now]

\* What the logs keep of a request: its time, and the limiter it met.
Entry == [at |-> now, by |-> Len(rebuilt)]

FaultyRecent(log, window, span) == {i \in window : log[i].at >= now - span}

\* acquire(): what has slid out of the window is forgotten first.
Recent(log, window, span) == {i \in window : log[i].at > now - span}

HasRoom(log, window, span, max) == Cardinality(Recent(log, window, span)) < max

Counted(log, window, span) == Recent(log, window, span) \cup {Len(log) + 1}

\* Whoever is not asking right now counts as idle.
FaultyIdle(seen, c) == now # seen[c]

Idle(seen, c) == now - seen[c] > MaxIdle

\* _get_client_bucket notes the access, then drops the windows of idle clients.
Seen(c) == [limiter.seen EXCEPT ![c] = now]

CleanupDue == now - limiter.cleaned >= CleanupEvery

Kept(c) ==
  [d \in Clients |->
     IF CleanupDue /\ Idle(Seen(c), d) THEN {} ELSE limiter.windows[d]]

ClientHasRoom(c) == HasRoom(passed[c], Kept(c)[c], Window, limiter.rate)

EndpointHasRoom(e) ==
  e \in Endpoints =>
    HasRoom(reached[e], limiter.endpoints[e], EndpointWindow, EndpointLimit[e])

FaultyRefilled == limiter.tokens + (now - limiter.refilled) * limiter.rate

\* TokenBucket.acquire: refill for the time gone by, never above the capacity.
Refilled ==
  LET tokens == limiter.tokens + (now - limiter.refilled) * limiter.rate
  IN IF tokens > Burst * Minute THEN Burst * Minute ELSE tokens

GlobalHasRoom == Refilled >= Minute

\* What is_allowed answers, and the limit that refused.
Outcome(c, e) ==
  IF ~ ClientHasRoom(c) THEN "client"
  ELSE IF ~ EndpointHasRoom(e) THEN "endpoint"
  ELSE IF ~ GlobalHasRoom THEN "global"
  ELSE "allowed"

\* The limiter after a request: each limit before the one that refused has
\* counted it, those after have not looked at it.
After(c, e) ==
  LET v == Outcome(c, e)
  IN [rate      |-> limiter.rate,
      windows   |-> [Kept(c) EXCEPT ![c] =
                       IF v = "client" THEN Recent(passed[c], @, Window)
                                       ELSE Counted(passed[c], @, Window)],
      seen      |-> Seen(c),
      cleaned   |-> IF CleanupDue THEN now ELSE limiter.cleaned,
      endpoints |-> [d \in Endpoints |->
                       LET window == limiter.endpoints[d]
                       IN IF d # e \/ v = "client" THEN window
                          ELSE IF v = "endpoint"
                            THEN Recent(reached[d], window, EndpointWindow)
                          ELSE Counted(reached[d], window, EndpointWindow)],
      tokens    |-> IF v \in {"client", "endpoint"} THEN limiter.tokens
                    ELSE IF v = "allowed" THEN Refilled - Minute ELSE Refilled,
      refilled  |-> IF v \in {"client", "endpoint"} THEN limiter.refilled ELSE now]

Logged(c, e) ==
  /\ passed'  = IF Outcome(c, e) = "client" THEN passed
                ELSE [passed EXCEPT ![c] = Append(@, Entry)]
  /\ reached' = IF e \in Endpoints /\ Outcome(c, e) \notin {"client", "endpoint"}
                THEN [reached EXCEPT ![e] = Append(@, Entry)] ELSE reached
  /\ granted' = IF Outcome(c, e) = "allowed" THEN Append(granted, Entry) ELSE granted

----------------------------------------------------------------------------

LimitsInit ==
  /\ now = 0
  /\ \E rate \in Rates : limiter = New(rate)
  /\ rebuilt = <<>>
  /\ passed = [c \in Clients |-> <<>>]
  /\ reached = [e \in Endpoints |-> <<>>]
  /\ granted = <<>>

\* is_allowed, called by the middleware for every path it does not exempt.
Request(c, e) ==
  /\ Len(passed[c]) < MaxPassed
  /\ limiter' = After(c, e)
  /\ Logged(c, e)
  /\ UNCHANGED <<now, rebuilt>>

\* reinit_rate_limiter: the old limiter goes with all it has counted.
Rebuild(rate) ==
  /\ Len(rebuilt) < MaxRebuilds
  /\ limiter' = New(rate)
  /\ rebuilt' = Append(rebuilt, now)
  /\ UNCHANGED <<now, passed, reached, granted>>

Tick ==
  /\ now < MaxTime
  /\ now' = now + 1
  /\ UNCHANGED <<limiter, rebuilt, passed, reached, granted>>

LimitsNext ==
  \/ \E c \in Clients, e \in Endpoints \cup {NoEndpoint} : Request(c, e)
  \/ \E rate \in Rates : Rebuild(rate)
  \/ Tick

LimitsSpec == LimitsInit /\ [][LimitsNext]_limitVars

----------------------------------------------------------------------------

Entries == [at : 0..now, by : 0..Len(rebuilt)]

\* The types of the variables: the bucket never holds less than nothing or
\* more than its burst, and no time lies ahead.
LimitsTypeOK ==
  /\ now \in Nat
  /\ limiter \in [rate      : Rates,
                  windows   : [Clients -> SUBSET Nat],
                  seen      : [Clients -> 0..now],
                  cleaned   : 0..now,
                  endpoints : [Endpoints -> SUBSET Nat],
                  tokens    : 0..(Burst * Minute),
                  refilled  : 0..now]
  /\ rebuilt \in Seq(0..now)
  /\ passed \in [Clients -> Seq(Entries)]
  /\ reached \in [Endpoints -> Seq(Entries)]
  /\ granted \in Seq(Entries)

Within(log, span) == {i \in DOMAIN log : log[i].at > now - span}

\* the requests that the limiter in force let through
InForce(log) == {i \in DOMAIN log : log[i].by = Len(rebuilt)}

\* A window longer than the idle time is dropped with requests in it that
\* should still count: nothing in the code keeps rate_limit_window_seconds
\* below those ten minutes.
ClientSpan == IF Window <= MaxIdle THEN Window ELSE MaxIdle

\* What makes the windows right: each counts requests of its limiter, at most
\* as many as it admits, and all that are recent; and no client is idle who
\* was let through recently, so that dropping its window forgets none of them.
WindowsCount ==
  /\ \A c \in Clients :
       /\ limiter.windows[c] \subseteq InForce(passed[c])
       /\ Cardinality(limiter.windows[c]) <= limiter.rate
       /\ Within(passed[c], ClientSpan) \cap InForce(passed[c]) \subseteq limiter.windows[c]
       /\ \A i \in DOMAIN passed[c] : passed[c][i].at <= limiter.seen[c]
  /\ \A e \in Endpoints :
       /\ limiter.endpoints[e] \subseteq InForce(reached[e])
       /\ Cardinality(limiter.endpoints[e]) <= EndpointLimit[e]
       /\ Within(reached[e], EndpointWindow) \cap InForce(reached[e]) \subseteq limiter.endpoints[e]

\* the limiters that were in force in the last span ticks
LimitersWithin(span) == 1 + Cardinality({i \in DOMAIN rebuilt : rebuilt[i] > now - span})

\* In any stretch of Window ticks (or of MaxIdle, if those are fewer) the
\* limiter in force has let a client through at most its rate of times,
\* whatever has been cleaned up in between.  Each change of configuration in
\* the stretch starts a client afresh, with a rate more.
ClientWindow ==
  \A c \in Clients :
    /\ Cardinality(Within(passed[c], ClientSpan) \cap InForce(passed[c])) <= limiter.rate
    /\ Cardinality(Within(passed[c], ClientSpan)) <= LimitersWithin(ClientSpan) * MaxRate

\* An endpoint is reached at most as often as its limit says, by all clients
\* together, and as often again for each change of configuration.
EndpointShare ==
  \A e \in Endpoints :
    /\ Cardinality(Within(reached[e], EndpointWindow) \cap InForce(reached[e])) <= EndpointLimit[e]
    /\ Cardinality(Within(reached[e], EndpointWindow))
         <= LimitersWithin(EndpointWindow) * EndpointLimit[e]

Since(log, t) == {i \in DOMAIN log : log[i].at >= t}

\* From any moment on, the limiter in force has granted no more requests than
\* the burst and what the time since then has refilled; each change of
\* configuration since then fills the bucket once more.
GlobalShare ==
  \A t \in 0..now :
    /\ Cardinality(Since(granted, t) \cap InForce(granted)) * Minute
         <= Burst * Minute + (now - t) * limiter.rate
    /\ Cardinality(Since(granted, t)) * Minute
         <= LimitersWithin(now - t + 1) * (Burst * Minute) + (now - t) * MaxRate

\* A client is refused only while it has used up its rate: nothing that slid
\* out of its window, or that another limiter let through, counts against it.
RefusedOnlyWhenUsedUp ==
  [][\A c \in Clients, e \in Endpoints \cup {NoEndpoint} :
       /\ Request(c, e)
       /\ Cardinality(Within(passed[c], Window) \cap InForce(passed[c])) < limiter.rate
       => Len(passed'[c]) = Len(passed[c]) + 1]_limitVars

\* The state of the limiter: typed, with windows that count what they should.
LimitsInvariant == LimitsTypeOK /\ WindowsCount

\* Whoever asks, and whatever is cleaned up in between: no client, no endpoint
\* and not the service as a whole goes above its limit while the limiter
\* stays, and none by more than a full share for each time it is replaced.
SharesKept == ClientWindow /\ EndpointShare /\ GlobalShare
============================================================================
