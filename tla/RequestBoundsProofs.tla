------------------------- MODULE RequestBoundsProofs -------------------------
(***************************************************************************)
(* Requests are bounded both ways: those of the clients by RequestLimits,  *)
(* those a step sends to its model by StepAttempts, with what it spends    *)
(* and what its attempts leave for each other.                             *)
(*                                                                         *)
(* RequestLimits, for every number of clients and endpoints, every         *)
(* configured rate, window, idle time and clean-up schedule: WindowsCount, *)
(* with the typing, is the inductive invariant of the limiter in force.  A *)
(* window holds at most as many requests as it admits and all the recent   *)
(* ones, so that counting the window bounds the recent requests of the log.*)
(* What went through the limiters before is bounded by counting them       *)
(* (Replaced), and the bucket by its account (Account).                    *)
(*                                                                         *)
(* StepAttempts, for every node, every list of checks and all limits: what *)
(* the place of an attempt says about its executor (Where), what it wrote  *)
(* and read (DataInv), and what it has sent and spent by the time it is    *)
(* there (RequestsCounted, TokensCounted).                                 *)
(***************************************************************************)
EXTENDS RequestLimits, StepAttempts, FiniteSetTheorems, SequenceTheorems, TLAPS

Paths == Endpoints \cup {NoEndpoint}

----------------------------------------------------------------------------
(* Windows and logs.                                                       *)

LEMMA DomainFinite ==
  ASSUME NEW S, NEW log \in Seq(S)
  PROVE  /\ Len(log) \in Nat
         /\ DOMAIN log = 1..Len(log)
         /\ DOMAIN log \subseteq Nat
         /\ IsFiniteSet(DOMAIN log)
<1>1. Len(log) \in Nat /\ DOMAIN log = 1..Len(log)
      BY LenProperties
<1> QED
    BY <1>1, FS_Interval

LEMMA LogGrows ==
  ASSUME NEW S, NEW log \in Seq(S), NEW t \in S
  PROVE  /\ Append(log, t) \in Seq(S)
         /\ DOMAIN Append(log, t) = (DOMAIN log) \cup {Len(log) + 1}
         /\ \A i \in DOMAIN log : Append(log, t)[i] = log[i]
         /\ Append(log, t)[Len(log) + 1] = t
         /\ Len(log) + 1 \notin DOMAIN log
         /\ Len(Append(log, t)) = Len(log) + 1
<1>1. Len(log) \in Nat /\ DOMAIN log = 1..Len(log)
      BY LenProperties
<1>2. /\ Append(log, t) \in Seq(S)
      /\ Len(Append(log, t)) = Len(log) + 1
      /\ \A i \in 1..Len(log) : Append(log, t)[i] = log[i]
      /\ Append(log, t)[Len(log) + 1] = t
      BY AppendProperties
<1>3. DOMAIN Append(log, t) = 1..(Len(log) + 1)
      BY <1>2, LenProperties
<1> QED
    BY <1>1, <1>2, <1>3

(* What is recent in the log, and what is recent in its window.            *)
LEMMA RecentSmaller ==
  ASSUME NEW S, NEW log \in Seq(S), NEW window, NEW span,
         window \subseteq InForce(log)
  PROVE  /\ IsFiniteSet(Recent(log, window, span))
         /\ Cardinality(Recent(log, window, span)) \in Nat
         /\ Cardinality(window) \in Nat
         /\ Cardinality(Within(log, span) \cap InForce(log)) \in Nat
         /\ Cardinality(Recent(log, window, span)) <= Cardinality(window)
         /\ Cardinality(Recent(log, window, span))
              <= Cardinality(Within(log, span) \cap InForce(log))
<1> DEFINE counted == Within(log, span) \cap InForce(log)
<1>1. /\ Recent(log, window, span) \subseteq window
      /\ Recent(log, window, span) \subseteq counted
      /\ counted \subseteq DOMAIN log /\ window \subseteq DOMAIN log
      BY DEF Recent, Within, InForce
<1>2. IsFiniteSet(DOMAIN log)
      BY DomainFinite
<1>3. IsFiniteSet(window) /\ IsFiniteSet(counted)
      BY <1>1, <1>2, FS_Subset
<1>4. /\ IsFiniteSet(Recent(log, window, span))
      /\ Cardinality(Recent(log, window, span)) <= Cardinality(window)
      BY <1>1, <1>3, FS_Subset
<1>5. Cardinality(Recent(log, window, span)) <= Cardinality(counted)
      BY <1>1, <1>3, FS_Subset
<1> QED
    BY <1>3, <1>4, <1>5, FS_CardinalityType

(* A window in order: it counts requests of its limiter, no more than it   *)
(* admits, and every recent one.                                           *)
InOrder(log, window, span, max) ==
  /\ window \subseteq InForce(log)
  /\ Cardinality(window) <= max
  /\ Within(log, span) \cap InForce(log) \subseteq window

LEMMA EmptyInOrder ==
  ASSUME NEW span, NEW max \in Nat
  PROVE  InOrder(<<>>, {}, span, max)
<1>1. InForce(<<>>) = {}
      BY DEF InForce
<1> QED
    BY <1>1, FS_EmptySet DEF InOrder

(* Forgetting what has slid out, of this stretch or of a wider one, keeps  *)
(* a window in order.                                                      *)
LEMMA RecentInOrder ==
  ASSUME NEW log \in Seq(Entries), NEW window, NEW wider \in Nat, NEW span \in Nat,
         span <= wider, now \in Nat, NEW max \in Nat, InOrder(log, window, span, max)
  PROVE  InOrder(log, Recent(log, window, wider), span, max)
<1>1. /\ Cardinality(Recent(log, window, wider)) \in Nat /\ Cardinality(window) \in Nat
      /\ Cardinality(Recent(log, window, wider)) <= Cardinality(window)
      BY RecentSmaller DEF InOrder
<1>2. Cardinality(Recent(log, window, wider)) <= max
      BY <1>1 DEF InOrder
<1>3. \A i \in DOMAIN log : log[i].at \in Nat
  <2>1. \A i \in DOMAIN log : log[i] \in Entries
        BY LenProperties
  <2> QED
      BY <2>1 DEF Entries
<1>4. \A i \in DOMAIN log : log[i].at > now - span => log[i].at > now - wider
      BY <1>3
<1> QED
    BY <1>2, <1>4 DEF InOrder, Recent, Within, InForce

(* So does counting one more request, if there is room.                    *)
LEMMA CountedInOrder ==
  ASSUME NEW log \in Seq(Entries), NEW window, NEW wider \in Nat, NEW span \in Nat,
         span <= wider, now \in Nat, Len(rebuilt) \in Nat, NEW max \in Nat,
         InOrder(log, window, span, max), HasRoom(log, window, wider, max)
  PROVE  InOrder(Append(log, Entry), Counted(log, window, wider), span, max)
<1> DEFINE recent == Recent(log, window, wider)
           new == Len(log) + 1
<1>1. /\ DOMAIN Append(log, Entry) = (DOMAIN log) \cup {new}
      /\ \A i \in DOMAIN log : Append(log, Entry)[i] = log[i]
      /\ Append(log, Entry)[new].by = Len(rebuilt)
  <2>1. Entry \in Entries
        BY DEF Entry, Entries
  <2> QED
      BY <2>1, LogGrows DEF Entry
<1>2. IsFiniteSet(recent) /\ Cardinality(recent) \in Nat /\ Cardinality(recent) < max
      BY RecentSmaller DEF InOrder, HasRoom
<1>3. /\ Cardinality(recent \cup {new}) \in Nat
      /\ Cardinality(recent \cup {new}) <= Cardinality(recent) + 1
  <2>1. Cardinality(recent \cup {new})
          = IF new \in recent THEN Cardinality(recent) ELSE Cardinality(recent) + 1
        BY <1>2, FS_AddElement
  <2> QED
      BY <2>1, <1>2
<1>4. Cardinality(Counted(log, window, wider)) <= max
      BY <1>2, <1>3 DEF Counted
<1>5. InOrder(log, recent, span, max)
      BY RecentInOrder
<1>6. Counted(log, window, wider) = recent \cup {new}
      BY DEF Counted
<1>7. InForce(Append(log, Entry)) = InForce(log) \cup {new}
      BY <1>1 DEF InForce
<1>8. Within(Append(log, Entry), span) \subseteq Within(log, span) \cup {new}
      BY <1>1 DEF Within
<1>9. Within(Append(log, Entry), span) \cap InForce(Append(log, Entry))
        \subseteq (Within(log, span) \cap InForce(log)) \cup {new}
  <2>1. Len(log) \in Nat /\ DOMAIN log = 1..Len(log)
        BY DomainFinite
  <2>2. new \notin DOMAIN log
        BY <2>1
  <2> QED
      BY <1>7, <1>8
<1> QED
    BY <1>4, <1>5, <1>6, <1>7, <1>9 DEF InOrder

----------------------------------------------------------------------------
(* Typing.                                                                 *)

LEMMA ProductIsNat == ASSUME NEW x \in Nat, NEW y \in Nat PROVE x * y \in Nat
  OBVIOUS

LEMMA Numbers ==
  /\ Burst \in Nat /\ Minute \in Nat /\ Burst * Minute \in Nat
  /\ Window \in Nat /\ MaxIdle \in Nat /\ MaxRate \in Nat /\ EndpointWindow \in Nat
  /\ ClientSpan \in Nat /\ ClientSpan <= Window /\ ClientSpan <= MaxIdle
  /\ Rates \subseteq Nat
  /\ \A e \in Endpoints : EndpointLimit[e] \in Nat
<1>1. Burst \in Nat /\ Minute \in Nat
      BY LimitsAssumption
<1>2. Burst * Minute \in Nat
      BY <1>1, ProductIsNat
<1>3. Window \in Nat /\ MaxIdle \in Nat
      BY LimitsAssumption
<1>4. ClientSpan \in Nat /\ ClientSpan <= Window /\ ClientSpan <= MaxIdle
      BY <1>3 DEF ClientSpan
<1> QED
    BY <1>1, <1>2, <1>4, LimitsAssumption

LEMMA RateIsNat ==
  LimitsTypeOK => now \in Nat /\ limiter.rate \in Nat /\ limiter.rate <= MaxRate
<1>1. LimitsTypeOK => now \in Nat /\ limiter.rate \in Rates
      BY DEF LimitsTypeOK
<1>2. \A rate \in Rates : rate \in Nat /\ rate <= MaxRate
  <2>1. MaxRate \in Nat /\ Rates \subseteq 0..MaxRate
        BY LimitsAssumption
  <2> QED
      BY <2>1
<1> QED
    BY <1>1, <1>2

LEMMA RefilledInBounds == LimitsTypeOK => Refilled \in 0..(Burst * Minute)
<1> SUFFICES ASSUME LimitsTypeOK PROVE Refilled \in 0..(Burst * Minute)
    OBVIOUS
<1>1. /\ limiter.tokens \in 0..(Burst * Minute)
      /\ limiter.rate \in Nat
      /\ now - limiter.refilled \in Nat
  <2>1. /\ limiter.tokens \in 0..(Burst * Minute)
        /\ limiter.rate \in Rates
        /\ limiter.refilled \in 0..now /\ now \in Nat
        BY DEF LimitsTypeOK
  <2> QED
      BY <2>1, RateIsNat
<1>2. (now - limiter.refilled) * limiter.rate \in Nat
      BY <1>1, ProductIsNat
<1> QED
    BY <1>1, <1>2, Numbers DEF Refilled

LEMMA CountedIsNat ==
  ASSUME NEW S, NEW log \in Seq(S), NEW window \in SUBSET Nat, NEW span
  PROVE  /\ Recent(log, window, span) \in SUBSET Nat
         /\ Counted(log, window, span) \in SUBSET Nat
<1>1. Len(log) + 1 \in Nat
      BY LenProperties
<1> QED
    BY <1>1 DEF Recent, Counted

(* What an entry of a log holds.                                           *)
LEMMA EntryOf ==
  ASSUME NEW log \in Seq(Entries), NEW i \in DOMAIN log
  PROVE  log[i].at \in 0..now /\ log[i].by \in 0..Len(rebuilt)
<1>1. log[i] \in Entries
      BY LenProperties
<1> QED
    BY <1>1 DEF Entries

LEMMA EntryType == LimitsTypeOK => Entry \in Entries /\ Len(rebuilt) \in Nat
<1> SUFFICES ASSUME LimitsTypeOK PROVE Entry \in Entries /\ Len(rebuilt) \in Nat
    OBVIOUS
<1>1. now \in Nat /\ rebuilt \in Seq(0..now)
      BY DEF LimitsTypeOK
<1>2. Len(rebuilt) \in Nat
      BY <1>1, LenProperties
<1> QED
    BY <1>1, <1>2 DEF Entry, Entries

LEMMA AfterType ==
  ASSUME LimitsTypeOK, NEW c \in Clients, NEW e \in Paths
  PROVE  After(c, e) \in [rate      : Rates,
                          windows   : [Clients -> SUBSET Nat],
                          seen      : [Clients -> 0..now],
                          cleaned   : 0..now,
                          endpoints : [Endpoints -> SUBSET Nat],
                          tokens    : 0..(Burst * Minute),
                          refilled  : 0..now]
<1> DEFINE v == Outcome(c, e)
<1>1. After(c, e).windows \in [Clients -> SUBSET Nat]
  <2>1. Kept(c) \in [Clients -> SUBSET Nat]
        BY DEF LimitsTypeOK, Kept
  <2>2. passed[c] \in Seq(Entries)
        BY DEF LimitsTypeOK
  <2>3. /\ Recent(passed[c], Kept(c)[c], Window) \in SUBSET Nat
        /\ Counted(passed[c], Kept(c)[c], Window) \in SUBSET Nat
        BY <2>1, <2>2, CountedIsNat
  <2> QED
      BY <2>1, <2>3 DEF After
<1>2. After(c, e).seen \in [Clients -> 0..now]
      BY DEF LimitsTypeOK, After, Seen
<1>3. After(c, e).cleaned \in 0..now /\ After(c, e).rate \in Rates
      BY DEF LimitsTypeOK, After
<1>4. After(c, e).endpoints \in [Endpoints -> SUBSET Nat]
  <2>1. ASSUME NEW d \in Endpoints
        PROVE  /\ limiter.endpoints[d] \in SUBSET Nat
               /\ Recent(reached[d], limiter.endpoints[d], EndpointWindow) \in SUBSET Nat
               /\ Counted(reached[d], limiter.endpoints[d], EndpointWindow) \in SUBSET Nat
    <3>1. limiter.endpoints[d] \in SUBSET Nat /\ reached[d] \in Seq(Entries)
          BY DEF LimitsTypeOK
    <3> QED
        BY <3>1, CountedIsNat
  <2> QED
      BY <2>1 DEF After
<1>5. After(c, e).tokens \in 0..(Burst * Minute)
  <2>1. limiter.tokens \in 0..(Burst * Minute) /\ Refilled \in 0..(Burst * Minute)
        BY RefilledInBounds DEF LimitsTypeOK
  <2>2. v = "allowed" => Refilled >= Minute
        BY DEF Outcome, GlobalHasRoom
  <2> QED
      BY <2>1, <2>2, Numbers DEF After
<1>6. After(c, e).refilled \in 0..now
      BY DEF LimitsTypeOK, After
<1> QED
    BY <1>1, <1>2, <1>3, <1>4, <1>5, <1>6 DEF After

LEMMA NewType ==
  ASSUME now \in Nat, NEW rate \in Rates
  PROVE  New(rate) \in [rate      : Rates,
                        windows   : [Clients -> SUBSET Nat],
                        seen      : [Clients -> 0..now],
                        cleaned   : 0..now,
                        endpoints : [Endpoints -> SUBSET Nat],
                        tokens    : 0..(Burst * Minute),
                        refilled  : 0..now]
  BY Numbers DEF New

LEMMA LimitsTypeInit == LimitsInit => LimitsTypeOK
<1> SUFFICES ASSUME LimitsInit PROVE LimitsTypeOK
    OBVIOUS
<1>1. now \in Nat /\ <<>> \in Seq(0..now) /\ <<>> \in Seq(Entries)
      BY EmptySeq DEF LimitsInit
<1> QED
    BY <1>1, NewType DEF LimitsInit, LimitsTypeOK

LEMMA RequestType ==
  ASSUME LimitsTypeOK, NEW c \in Clients, NEW e \in Paths, Request(c, e)
  PROVE  LimitsTypeOK'
<1>1. now \in Nat /\ now' = now /\ rebuilt' = rebuilt /\ Entry \in Entries
      BY EntryType DEF LimitsTypeOK, Request
<1>2. limiter' = After(c, e)
      BY DEF Request
<1>3. passed' \in [Clients -> Seq(Entries)]
  <2>1. passed[c] \in Seq(Entries) /\ Append(passed[c], Entry) \in Seq(Entries)
        BY <1>1, LogGrows DEF LimitsTypeOK
  <2> QED
      BY <2>1 DEF LimitsTypeOK, Request, Logged
<1>4. reached' \in [Endpoints -> Seq(Entries)]
  <2>1. ASSUME e \in Endpoints PROVE Append(reached[e], Entry) \in Seq(Entries)
        BY <1>1, <2>1, LogGrows DEF LimitsTypeOK
  <2> QED
      BY <2>1 DEF LimitsTypeOK, Request, Logged
<1>5. granted' \in Seq(Entries)
      BY <1>1, LogGrows DEF LimitsTypeOK, Request, Logged
<1>6. Entries' = Entries
      BY <1>1 DEF Entries
<1>7. rebuilt' \in Seq(0..now)
      BY <1>1 DEF LimitsTypeOK
<1> QED
    BY <1>1, <1>2, <1>3, <1>4, <1>5, <1>6, <1>7, AfterType DEF LimitsTypeOK

(* Later, or after another change of configuration, a log is still a log.  *)
LEMMA LogsStayLogs ==
  ASSUME LimitsTypeOK, UNCHANGED <<passed, reached, granted>>, Entries \subseteq Entries'
  PROVE  /\ passed' \in [Clients -> Seq(Entries')]
         /\ reached' \in [Endpoints -> Seq(Entries')]
         /\ granted' \in Seq(Entries')
<1>1. \A log \in Seq(Entries) : log \in Seq(Entries')
      BY SeqMonotonic
<1> QED
    BY <1>1 DEF LimitsTypeOK

LEMMA LimitsTypeStep == LimitsTypeOK /\ [LimitsNext]_limitVars => LimitsTypeOK'
<1> SUFFICES ASSUME LimitsTypeOK, [LimitsNext]_limitVars PROVE LimitsTypeOK'
    OBVIOUS
<1>1. ASSUME NEW c \in Clients, NEW e \in Paths, Request(c, e) PROVE LimitsTypeOK'
      BY <1>1, RequestType
<1>2. ASSUME NEW rate \in Rates, Rebuild(rate) PROVE LimitsTypeOK'
  <2>1. /\ now \in Nat /\ now' = now /\ now \in 0..now
        /\ UNCHANGED <<passed, reached, granted>>
        /\ rebuilt \in Seq(0..now) /\ rebuilt' = Append(rebuilt, now)
        BY <1>2 DEF LimitsTypeOK, Rebuild
  <2>2. rebuilt' \in Seq(0..now) /\ Len(rebuilt') = Len(rebuilt) + 1 /\ Len(rebuilt) \in Nat
        BY <2>1, LogGrows, DomainFinite
  <2>3. Entries \subseteq Entries'
        BY <2>1, <2>2 DEF Entries
  <2>4. /\ passed' \in [Clients -> Seq(Entries')]
        /\ reached' \in [Endpoints -> Seq(Entries')]
        /\ granted' \in Seq(Entries')
        BY <2>1, <2>3, LogsStayLogs
  <2> QED
      BY <1>2, <2>1, <2>2, <2>4, NewType DEF LimitsTypeOK, Rebuild
<1>3. CASE Tick
  <2>1. /\ now \in Nat /\ now' = now + 1 /\ 0..now \subseteq 0..now'
        /\ UNCHANGED <<limiter, rebuilt, passed, reached, granted>>
        BY <1>3 DEF LimitsTypeOK, Tick
  <2>2. Entries \subseteq Entries'
        BY <2>1 DEF Entries
  <2>3. /\ passed' \in [Clients -> Seq(Entries')]
        /\ reached' \in [Endpoints -> Seq(Entries')]
        /\ granted' \in Seq(Entries')
        BY <2>1, <2>2, LogsStayLogs
  <2>4. rebuilt' \in Seq(0..now')
    <3>1. \A log \in Seq(0..now) : log \in Seq(0..now')
          BY <2>1, SeqMonotonic
    <3> QED
        BY <2>1, <3>1 DEF LimitsTypeOK
  <2>5. limiter' \in [rate      : Rates,
                      windows   : [Clients -> SUBSET Nat],
                      seen      : [Clients -> 0..now'],
                      cleaned   : 0..now',
                      endpoints : [Endpoints -> SUBSET Nat],
                      tokens    : 0..(Burst * Minute),
                      refilled  : 0..now']
        BY <2>1 DEF LimitsTypeOK
  <2> QED
      BY <2>1, <2>3, <2>4, <2>5 DEF LimitsTypeOK
<1>4. CASE UNCHANGED limitVars
      BY <1>4 DEF LimitsTypeOK, Entries, limitVars
<1> QED
    BY <1>1, <1>2, <1>3, <1>4 DEF LimitsNext, Paths

(* The limiter's fields and logs stay in their ranges: the bucket never    *)
(* holds more than the burst, nor less than nothing.                       *)
THEOREM LimitsTypeCorrect == LimitsSpec => []LimitsTypeOK
<1> QED
    BY LimitsTypeInit, LimitsTypeStep, PTL DEF LimitsSpec

----------------------------------------------------------------------------
(* The windows.                                                            *)

ClientsInOrder ==
  \A c \in Clients : InOrder(passed[c], limiter.windows[c], ClientSpan, limiter.rate)

EndpointsInOrder ==
  \A e \in Endpoints :
    InOrder(reached[e], limiter.endpoints[e], EndpointWindow, EndpointLimit[e])

\* No client was let through since it was last seen.
SeenLast == \A c \in Clients : \A i \in DOMAIN passed[c] : passed[c][i].at <= limiter.seen[c]

LEMMA Parts == WindowsCount <=> ClientsInOrder /\ EndpointsInOrder /\ SeenLast
  BY DEF WindowsCount, ClientsInOrder, EndpointsInOrder, SeenLast, InOrder

(* The requests before a change of configuration are not those of the      *)
(* limiter in force after it.                                              *)
LEMMA RebuildForgets ==
  ASSUME LimitsTypeOK, NEW log \in Seq(Entries), NEW rate, Rebuild(rate)
  PROVE  {i \in DOMAIN log : log[i].by = Len(rebuilt')} = {}
<1>1. rebuilt \in Seq(0..now) /\ now \in 0..now /\ rebuilt' = Append(rebuilt, now)
      BY DEF LimitsTypeOK, Rebuild
<1>2. Len(rebuilt') = Len(rebuilt) + 1 /\ Len(rebuilt) \in Nat
      BY <1>1, LogGrows, DomainFinite
<1>3. \A i \in DOMAIN log : log[i].by \in 0..Len(rebuilt)
      BY EntryOf
<1> QED
    BY <1>2, <1>3

LEMMA RebuildWindows ==
  ASSUME LimitsTypeOK, NEW rate \in Rates, Rebuild(rate)
  PROVE  WindowsCount'
<1>1. /\ now' = now /\ passed' = passed /\ reached' = reached /\ limiter' = New(rate)
      /\ passed \in [Clients -> Seq(Entries)] /\ reached \in [Endpoints -> Seq(Entries)]
      BY DEF Rebuild, LimitsTypeOK
<1>2. ASSUME NEW c \in Clients
      PROVE  /\ limiter'.windows[c] = {} /\ limiter'.seen[c] = now
             /\ InForce(passed[c])' = {}
  <2>1. {i \in DOMAIN passed[c] : passed[c][i].by = Len(rebuilt')} = {}
        BY <1>1, RebuildForgets
  <2> QED
      BY <1>1, <2>1 DEF New, InForce
<1>3. ASSUME NEW e \in Endpoints
      PROVE  limiter'.endpoints[e] = {} /\ InForce(reached[e])' = {}
  <2>1. {i \in DOMAIN reached[e] : reached[e][i].by = Len(rebuilt')} = {}
        BY <1>1, RebuildForgets
  <2> QED
      BY <1>1, <2>1 DEF New, InForce
<1>4. Cardinality({}) = 0 /\ limiter'.rate \in Nat
      BY <1>1, LimitsAssumption, FS_EmptySet DEF New
<1>5. SeenLast'
  <2>1. \A c \in Clients : \A i \in DOMAIN passed[c] : passed[c][i].at \in 0..now
        BY <1>1, EntryOf
  <2>2. now \in Nat
        BY DEF LimitsTypeOK
  <2> QED
      BY <1>1, <1>2, <2>1, <2>2 DEF SeenLast
<1>6. ClientsInOrder'
  <2>1. ClientSpan' = ClientSpan
        BY DEF ClientSpan
  <2>2. 0 <= limiter'.rate
        BY <1>4
  <2> QED
      BY <1>2, <1>4, <2>1, <2>2 DEF ClientsInOrder, InOrder
<1>7. EndpointsInOrder'
      BY <1>3, <1>4, Numbers DEF EndpointsInOrder, InOrder
<1> QED
    BY <1>5, <1>6, <1>7 DEF WindowsCount, ClientsInOrder, EndpointsInOrder, SeenLast, InOrder

(* A client that is idle was let through nothing recently: dropping its    *)
(* window forgets nothing of the last ClientSpan.                          *)
LEMMA KeptInOrder ==
  ASSUME LimitsTypeOK, WindowsCount, NEW c \in Clients, NEW d \in Clients
  PROVE  InOrder(passed[d], Kept(c)[d], ClientSpan, limiter.rate)
<1>1. /\ InOrder(passed[d], limiter.windows[d], ClientSpan, limiter.rate)
      /\ \A i \in DOMAIN passed[d] : passed[d][i].at <= limiter.seen[d]
      BY Parts DEF ClientsInOrder, SeenLast
<1>2. /\ now \in Nat /\ limiter.rate \in Nat /\ limiter.seen[d] \in Nat
      /\ limiter.seen \in [Clients -> 0..now]
  <2>1. limiter.seen \in [Clients -> 0..now]
        BY DEF LimitsTypeOK
  <2> QED
      BY <2>1, RateIsNat
<1>3. CASE Kept(c)[d] = limiter.windows[d]
      BY <1>1, <1>3
<1>4. CASE Kept(c)[d] # limiter.windows[d]
  <2>1. Kept(c)[d] = {} /\ now - Seen(c)[d] > MaxIdle
        BY <1>4 DEF Kept, Idle
  <2>2. Seen(c)[d] = IF d = c THEN now ELSE limiter.seen[d]
        BY <1>2 DEF Seen
  <2>3. now - limiter.seen[d] > ClientSpan
        BY <2>1, <2>2, <1>2, Numbers
  <2>4. \A i \in DOMAIN passed[d] : passed[d][i].at \in 0..now
        BY EntryOf DEF LimitsTypeOK
  <2>5. Within(passed[d], ClientSpan) = {}
        BY <1>1, <1>2, <2>3, <2>4, Numbers DEF Within
  <2> QED
      BY <1>2, <2>1, <2>5, FS_EmptySet DEF InOrder
<1> QED
    BY <1>3, <1>4

LEMMA RequestClients ==
  ASSUME LimitsTypeOK, WindowsCount, NEW c \in Clients, NEW e \in Paths, Request(c, e)
  PROVE  ClientsInOrder' /\ SeenLast'
<1> DEFINE v == Outcome(c, e)
<1>1. /\ now' = now /\ now \in Nat /\ rebuilt' = rebuilt /\ Len(rebuilt) \in Nat
      /\ limiter'.rate = limiter.rate /\ limiter.rate \in Nat
      BY RateIsNat, EntryType DEF LimitsTypeOK, Request, After
<1>2. passed \in [Clients -> Seq(Entries)]
      BY DEF LimitsTypeOK
<1>3. limiter'.windows = After(c, e).windows /\ limiter'.seen = Seen(c)
      BY DEF Request, After
<1>4. ASSUME NEW d \in Clients
      PROVE  InOrder(passed'[d], limiter'.windows[d], ClientSpan, limiter.rate)
  <2>1. InOrder(passed[d], Kept(c)[d], ClientSpan, limiter.rate)
        BY KeptInOrder
  <2>2. CASE d # c
    <3>1. limiter'.windows[d] = Kept(c)[d] /\ passed'[d] = passed[d]
          BY <1>2, <1>3, <2>2 DEF Kept, After, Request, Logged
    <3> QED
        BY <2>1, <3>1
  <2>3. CASE d = c /\ v = "client"
    <3>1. /\ limiter'.windows[c] = Recent(passed[c], Kept(c)[c], Window)
          /\ passed'[c] = passed[c]
          BY <1>3, <2>3 DEF Kept, After, Request, Logged
    <3> QED
        BY <1>1, <1>2, <2>1, <2>3, <3>1, RecentInOrder, Numbers
  <2>4. CASE d = c /\ v # "client"
    <3>1. /\ limiter'.windows[c] = Counted(passed[c], Kept(c)[c], Window)
          /\ passed'[c] = Append(passed[c], Entry)
          BY <1>2, <1>3, <2>4 DEF Kept, After, Request, Logged
    <3>2. HasRoom(passed[c], Kept(c)[c], Window, limiter.rate)
          BY <2>4 DEF Outcome, ClientHasRoom
    <3> QED
        BY <1>1, <1>2, <2>1, <2>4, <3>1, <3>2, CountedInOrder, Numbers
  <2> QED
      BY <2>2, <2>3, <2>4
<1>5. ClientsInOrder'
      BY <1>1, <1>4 DEF ClientsInOrder, InOrder, Within, InForce
<1>6. SeenLast'
  <2> SUFFICES ASSUME NEW d \in Clients, NEW i \in DOMAIN passed'[d]
               PROVE  passed'[d][i].at <= Seen(c)[d]
      BY <1>3 DEF SeenLast
  <2>1. limiter.seen \in [Clients -> 0..now]
        BY DEF LimitsTypeOK
  <2>2. CASE d # c
    <3>1. passed'[d] = passed[d] /\ Seen(c)[d] = limiter.seen[d]
          BY <1>2, <2>1, <2>2 DEF Request, Logged, Seen
    <3> QED
        BY <3>1, Parts DEF SeenLast
  <2>3. CASE d = c
    <3>1. Seen(c)[d] = now
          BY <2>1, <2>3 DEF Seen
    <3>2. passed'[d] \in Seq(Entries)
      <4>1. passed' \in [Clients -> Seq(Entries')] /\ Entries' = Entries
            BY <1>1, RequestType DEF LimitsTypeOK, Entries
      <4> QED
          BY <4>1
    <3>3. passed'[d][i].at \in 0..now
          BY <3>2, EntryOf
    <3> QED
        BY <3>1, <3>3, <1>1
  <2> QED
      BY <2>2, <2>3
<1> QED
    BY <1>5, <1>6

LEMMA RequestEndpoints ==
  ASSUME LimitsTypeOK, WindowsCount, NEW c \in Clients, NEW e \in Paths, Request(c, e)
  PROVE  EndpointsInOrder'
<1> DEFINE v == Outcome(c, e)
<1>1. /\ now' = now /\ now \in Nat /\ rebuilt' = rebuilt /\ Len(rebuilt) \in Nat
      /\ reached \in [Endpoints -> Seq(Entries)]
      BY EntryType DEF LimitsTypeOK, Request
<1>2. ASSUME NEW d \in Endpoints
      PROVE  InOrder(reached'[d], limiter'.endpoints[d], EndpointWindow, EndpointLimit[d])
  <2>1. /\ InOrder(reached[d], limiter.endpoints[d], EndpointWindow, EndpointLimit[d])
        /\ EndpointLimit[d] \in Nat
        BY Parts, Numbers DEF EndpointsInOrder
  <2>2. CASE d # e \/ v = "client"
    <3>1. limiter'.endpoints[d] = limiter.endpoints[d] /\ reached'[d] = reached[d]
          BY <1>1, <2>2 DEF Request, After, Logged
    <3> QED
        BY <2>1, <3>1
  <2>3. CASE d = e /\ v = "endpoint"
    <3>1. /\ limiter'.endpoints[d] = Recent(reached[d], limiter.endpoints[d], EndpointWindow)
          /\ reached'[d] = reached[d]
          BY <2>3 DEF Request, After, Logged
    <3> QED
        BY <1>1, <2>1, <3>1, RecentInOrder, Numbers
  <2>4. CASE d = e /\ v \notin {"client", "endpoint"}
    <3>1. /\ limiter'.endpoints[d] = Counted(reached[d], limiter.endpoints[d], EndpointWindow)
          /\ reached'[d] = Append(reached[d], Entry)
          BY <1>1, <2>4 DEF Request, After, Logged
    <3>2. HasRoom(reached[d], limiter.endpoints[d], EndpointWindow, EndpointLimit[d])
          BY <2>4 DEF Outcome, EndpointHasRoom
    <3> QED
        BY <1>1, <2>1, <3>1, <3>2, CountedInOrder, Numbers
  <2> QED
      BY <2>2, <2>3, <2>4
<1> QED
    BY <1>1, <1>2 DEF EndpointsInOrder, InOrder, Within, InForce

LEMMA TickWindows ==
  ASSUME LimitsTypeOK, WindowsCount, Tick
  PROVE  WindowsCount'
<1>1. /\ now \in Nat /\ now' = now + 1
      /\ UNCHANGED <<limiter, rebuilt, passed, reached>>
      BY DEF LimitsTypeOK, Tick
<1>2. ASSUME NEW log \in Seq(Entries), NEW span \in Nat
      PROVE  {i \in DOMAIN log : log[i].at > now' - span} \subseteq Within(log, span)
  <2>1. \A i \in DOMAIN log : log[i].at \in 0..now
        BY EntryOf
  <2> QED
      BY <1>1, <2>1 DEF Within
<1>3. /\ \A c \in Clients : passed[c] \in Seq(Entries)
      /\ \A e \in Endpoints : reached[e] \in Seq(Entries)
      /\ ClientSpan \in Nat /\ EndpointWindow \in Nat
      BY Numbers DEF LimitsTypeOK
<1>4. /\ \A c \in Clients : Within(passed[c], ClientSpan)' \subseteq Within(passed[c], ClientSpan)
      /\ \A e \in Endpoints : Within(reached[e], EndpointWindow)'
                                \subseteq Within(reached[e], EndpointWindow)
  <2>1. ClientSpan' = ClientSpan
        BY DEF ClientSpan
  <2> QED
      BY <1>1, <1>2, <1>3, <2>1 DEF Within
<1>5. /\ \A c \in Clients : InForce(passed[c])' = InForce(passed[c])
      /\ \A e \in Endpoints : InForce(reached[e])' = InForce(reached[e])
      BY <1>1 DEF InForce
<1> QED
    BY <1>1, <1>4, <1>5 DEF WindowsCount

LEMMA WindowsStep == LimitsTypeOK /\ WindowsCount /\ [LimitsNext]_limitVars => WindowsCount'
<1> SUFFICES ASSUME LimitsTypeOK, WindowsCount, [LimitsNext]_limitVars
             PROVE  WindowsCount'
    OBVIOUS
<1>1. ASSUME NEW c \in Clients, NEW e \in Paths, Request(c, e) PROVE WindowsCount'
  <2>1. ClientsInOrder' /\ SeenLast' /\ EndpointsInOrder'
        BY <1>1, RequestClients, RequestEndpoints
  <2> QED
      BY <2>1 DEF WindowsCount, ClientsInOrder, EndpointsInOrder, SeenLast, InOrder
<1>2. ASSUME NEW rate \in Rates, Rebuild(rate) PROVE WindowsCount'
      BY <1>2, RebuildWindows
<1>3. CASE Tick
      BY <1>3, TickWindows
<1>4. CASE UNCHANGED limitVars
      BY <1>4 DEF WindowsCount, Within, InForce, limitVars
<1> QED
    BY <1>1, <1>2, <1>3, <1>4 DEF LimitsNext, Paths

LEMMA WindowsInit == LimitsInit => WindowsCount
<1> SUFFICES ASSUME LimitsInit PROVE WindowsCount
    OBVIOUS
<1>1. PICK rate \in Rates : limiter = New(rate)
      BY DEF LimitsInit
<1>2. \A c \in Clients : passed[c] = <<>> /\ limiter.windows[c] = {}
      BY <1>1 DEF New, LimitsInit
<1>3. \A e \in Endpoints : reached[e] = <<>> /\ limiter.endpoints[e] = {}
      BY <1>1 DEF New, LimitsInit
<1>4. limiter.rate \in Nat
      BY <1>1, LimitsAssumption DEF New
<1>5. ClientsInOrder
      BY <1>2, <1>4, EmptyInOrder DEF ClientsInOrder
<1>6. EndpointsInOrder
      BY <1>3, EmptyInOrder, Numbers DEF EndpointsInOrder
<1>7. SeenLast
      BY <1>2 DEF SeenLast
<1> QED
    BY <1>5, <1>6, <1>7, Parts

(* A window counts no more than it admits, and everything recent that its  *)
(* limiter let through; a clean-up drops no window that was counted into   *)
(* within the idle time.                                                   *)
THEOREM WindowsCountAlways == LimitsSpec => []WindowsCount
<1> QED
    BY LimitsTypeInit, LimitsTypeStep, WindowsInit, WindowsStep, PTL DEF LimitsSpec

LEMMA RecentBounded ==
  ASSUME NEW S, NEW log \in Seq(S), NEW window, NEW span, NEW max \in Nat,
         InOrder(log, window, span, max)
  PROVE  /\ Cardinality(Within(log, span) \cap InForce(log)) <= max
         /\ Cardinality(Within(log, span) \cap InForce(log)) \in Nat
<1> DEFINE counted == Within(log, span) \cap InForce(log)
<1>1. IsFiniteSet(window)
      BY DomainFinite, FS_Subset DEF InOrder, InForce
<1>2. Cardinality(counted) <= Cardinality(window) /\ IsFiniteSet(counted)
      BY <1>1, FS_Subset DEF InOrder
<1>3. Cardinality(window) \in Nat /\ Cardinality(counted) \in Nat
      BY <1>1, <1>2, FS_CardinalityType
<1> QED
    BY <1>2, <1>3 DEF InOrder

----------------------------------------------------------------------------
(* Changes of configuration.                                               *)

LaterThan(log, t) == {i \in DOMAIN log : log[i].at > t}
RebuiltAfter(t) == {i \in DOMAIN rebuilt : rebuilt[i] > t}

\* What the limiters that are gone let through after t, as long as it can
\* still count: a full share for each of the times one was replaced since.
Replaced(log, span, max) ==
  \A t \in Int :
    t >= now - span =>
      Cardinality(LaterThan(log, t) \ InForce(log)) <= Cardinality(RebuiltAfter(t)) * max

ClientsReplaced == \A c \in Clients : Replaced(passed[c], ClientSpan, MaxRate)

EndpointsReplaced ==
  \A e \in Endpoints : Replaced(reached[e], EndpointWindow, EndpointLimit[e])

LEMMA LaterFinite ==
  ASSUME NEW S, NEW log \in Seq(S), NEW t
  PROVE  /\ IsFiniteSet(LaterThan(log, t) \ InForce(log))
         /\ IsFiniteSet(LaterThan(log, t) \cap InForce(log))
         /\ Cardinality(LaterThan(log, t)) =
              Cardinality(LaterThan(log, t) \cap InForce(log))
                + Cardinality(LaterThan(log, t) \ InForce(log))
         /\ Cardinality(LaterThan(log, t) \cap InForce(log)) \in Nat
         /\ Cardinality(LaterThan(log, t) \ InForce(log)) \in Nat
<1> DEFINE later == LaterThan(log, t)
           old == later \ InForce(log)
           mine == later \cap InForce(log)
<1>1. IsFiniteSet(DOMAIN log) /\ later \subseteq DOMAIN log
      BY DomainFinite DEF LaterThan
<1>2. IsFiniteSet(old) /\ IsFiniteSet(mine)
      BY <1>1, FS_Subset
<1>3. Cardinality(old) \in Nat /\ Cardinality(mine) \in Nat
      BY <1>2, FS_CardinalityType
<1>4. later = mine \cup old /\ mine \cap old = {}
      OBVIOUS
<1>5. Cardinality(mine \cup old) = Cardinality(mine) + Cardinality(old) - Cardinality(mine \cap old)
      BY <1>2, FS_Union
<1>6. Cardinality(mine \cap old) = 0
      BY <1>4, FS_EmptySet
<1>7. Cardinality(later) = Cardinality(mine \cup old)
      BY <1>4
<1>8. Cardinality(later) = Cardinality(mine) + Cardinality(old)
      BY <1>3, <1>5, <1>6, <1>7
<1> QED
    BY <1>2, <1>3, <1>8

LEMMA RebuiltFinite ==
  ASSUME LimitsTypeOK, NEW t
  PROVE  IsFiniteSet(RebuiltAfter(t)) /\ Cardinality(RebuiltAfter(t)) \in Nat
<1>1. IsFiniteSet(DOMAIN rebuilt)
      BY DomainFinite DEF LimitsTypeOK
<1> QED
    BY <1>1, FS_Subset, FS_CardinalityType DEF RebuiltAfter

LEMMA OneMore ==
  ASSUME NEW mine \in Nat, NEW old \in Nat, NEW n \in Nat, NEW max \in Nat,
         mine <= max, old <= n * max
  PROVE  mine + old <= (1 + n) * max
<1>1. n * max \in Nat /\ (1 + n) * max = max + n * max
      BY ProductIsNat
<1> QED
    BY <1>1

(* All that was let through after t: the share of the limiter in force and *)
(* those of the ones it replaced since.                                    *)
LEMMA TotalBounded ==
  ASSUME LimitsTypeOK, NEW log \in Seq(Entries), NEW span \in Nat, NEW max \in Nat,
         Cardinality(Within(log, span) \cap InForce(log)) <= max,
         Replaced(log, span, max), NEW t \in Int, t >= now - span
  PROVE  Cardinality(LaterThan(log, t)) <= (1 + Cardinality(RebuiltAfter(t))) * max
<1> DEFINE mine == LaterThan(log, t) \cap InForce(log)
           old == LaterThan(log, t) \ InForce(log)
           counted == Within(log, span) \cap InForce(log)
<1>1. now \in Nat
      BY DEF LimitsTypeOK
<1>2. mine \subseteq counted
  <2>1. \A i \in DOMAIN log : log[i].at \in 0..now
        BY EntryOf
  <2> QED
      BY <1>1, <2>1 DEF LaterThan, Within
<1>3. IsFiniteSet(counted) /\ Cardinality(counted) \in Nat
  <2>1. IsFiniteSet(DOMAIN log)
        BY DomainFinite
  <2> QED
      BY <2>1, FS_Subset, FS_CardinalityType DEF Within
<1>4. Cardinality(mine) <= Cardinality(counted)
      BY <1>2, <1>3, FS_Subset
<1>5. /\ Cardinality(LaterThan(log, t)) = Cardinality(mine) + Cardinality(old)
      /\ Cardinality(mine) \in Nat /\ Cardinality(old) \in Nat
      BY LaterFinite
<1>6. Cardinality(RebuiltAfter(t)) \in Nat
      BY RebuiltFinite
<1>7. Cardinality(old) <= Cardinality(RebuiltAfter(t)) * max
      BY DEF Replaced
<1>8. Cardinality(mine) <= max
      BY <1>3, <1>4, <1>5
<1>9. Cardinality(mine) + Cardinality(old) <= (1 + Cardinality(RebuiltAfter(t))) * max
      BY <1>5, <1>6, <1>7, <1>8, OneMore
<1> QED
    BY <1>5, <1>9

LEMMA RebuildReplaced ==
  ASSUME LimitsTypeOK, NEW rate, Rebuild(rate),
         NEW log \in Seq(Entries), NEW span \in Nat, NEW max \in Nat,
         Cardinality(Within(log, span) \cap InForce(log)) <= max,
         Replaced(log, span, max), NEW t \in Int, t >= now - span
  PROVE  Cardinality(LaterThan(log, t)) <= Cardinality(RebuiltAfter(t)') * max
<1>1. now \in Nat /\ rebuilt \in Seq(0..now) /\ rebuilt' = Append(rebuilt, now)
      BY DEF LimitsTypeOK, Rebuild
<1>2. /\ DOMAIN rebuilt' = (DOMAIN rebuilt) \cup {Len(rebuilt) + 1}
      /\ \A i \in DOMAIN rebuilt : rebuilt'[i] = rebuilt[i]
      /\ rebuilt'[Len(rebuilt) + 1] = now
      /\ Len(rebuilt) + 1 \notin DOMAIN rebuilt
  <2>1. now \in 0..now
        BY <1>1
  <2> QED
      BY <1>1, <2>1, LogGrows
<1>3. IsFiniteSet(RebuiltAfter(t)) /\ Cardinality(RebuiltAfter(t)) \in Nat
      BY RebuiltFinite
<1>4. CASE t < now
  <2>1. /\ RebuiltAfter(t)' = RebuiltAfter(t) \cup {Len(rebuilt) + 1}
        /\ Len(rebuilt) + 1 \notin RebuiltAfter(t)
        BY <1>1, <1>2, <1>4 DEF RebuiltAfter
  <2>2. Cardinality(RebuiltAfter(t) \cup {Len(rebuilt) + 1}) = Cardinality(RebuiltAfter(t)) + 1
        BY <1>3, <2>1, FS_AddElement
  <2>3. Cardinality(RebuiltAfter(t)') = 1 + Cardinality(RebuiltAfter(t))
        BY <1>3, <2>1, <2>2
  <2>4. Cardinality(LaterThan(log, t)) <= (1 + Cardinality(RebuiltAfter(t))) * max
        BY TotalBounded
  <2> QED
      BY <2>3, <2>4
<1>5. CASE t >= now
  <2>1. LaterThan(log, t) = {}
    <3>1. \A i \in DOMAIN log : log[i].at \in 0..now
          BY EntryOf
    <3> QED
        BY <1>1, <1>5, <3>1 DEF LaterThan
  <2>2. Cardinality(LaterThan(log, t)) = 0
        BY <2>1, FS_EmptySet
  <2>3. RebuiltAfter(t)' \subseteq RebuiltAfter(t) \cup {Len(rebuilt) + 1}
        BY <1>2 DEF RebuiltAfter
  <2>4. IsFiniteSet(RebuiltAfter(t) \cup {Len(rebuilt) + 1})
        BY <1>3, FS_AddElement
  <2>5. Cardinality(RebuiltAfter(t)') \in Nat
        BY <2>3, <2>4, FS_Subset, FS_CardinalityType
  <2>6. Cardinality(RebuiltAfter(t)') * max \in Nat
        BY <2>5, ProductIsNat
  <2> QED
      BY <2>2, <2>6
<1> QED
    BY <1>1, <1>4, <1>5

(* A request that is let through is one of the limiter in force.           *)
LEMMA GrowthIsInForce ==
  ASSUME LimitsTypeOK, NEW log \in Seq(Entries), NEW t
  PROVE  LaterThan(Append(log, Entry), t) \ InForce(Append(log, Entry))
           = LaterThan(log, t) \ InForce(log)
<1>1. /\ DOMAIN Append(log, Entry) = (DOMAIN log) \cup {Len(log) + 1}
      /\ \A i \in DOMAIN log : Append(log, Entry)[i] = log[i]
      /\ Append(log, Entry)[Len(log) + 1].by = Len(rebuilt)
      /\ Len(log) + 1 \notin DOMAIN log
      BY EntryType, LogGrows DEF Entry
<1> QED
    BY <1>1 DEF LaterThan, InForce

LEMMA ReplacedInit == LimitsInit => ClientsReplaced /\ EndpointsReplaced
<1> SUFFICES ASSUME LimitsInit PROVE ClientsReplaced /\ EndpointsReplaced
    OBVIOUS
<1>1. rebuilt = <<>>
      BY DEF LimitsInit
<1>2. \A t \in Int : Cardinality(RebuiltAfter(t)) = 0
  <2>1. \A t \in Int : RebuiltAfter(t) = {}
        BY <1>1 DEF RebuiltAfter
  <2> QED
      BY <2>1, FS_EmptySet
<1>3. \A t \in Int : Cardinality(LaterThan(<<>>, t) \ InForce(<<>>)) = 0
  <2>1. \A t \in Int : LaterThan(<<>>, t) \ InForce(<<>>) = {}
        BY DEF LaterThan
  <2> QED
      BY <2>1, FS_EmptySet
<1>4. /\ \A c \in Clients : passed[c] = <<>>
      /\ \A e \in Endpoints : reached[e] = <<>>
      BY DEF LimitsInit
<1>5. ASSUME NEW span, NEW max \in Nat PROVE Replaced(<<>>, span, max)
  <2>1. 0 * max = 0
        OBVIOUS
  <2> QED
      BY <1>2, <1>3, <2>1 DEF Replaced
<1> QED
    BY <1>4, <1>5, Numbers DEF ClientsReplaced, EndpointsReplaced

LEMMA ReplacedRequest ==
  ASSUME LimitsTypeOK, NEW c \in Clients, NEW e \in Paths, Request(c, e),
         ClientsReplaced, EndpointsReplaced
  PROVE  ClientsReplaced' /\ EndpointsReplaced'
<1>1. /\ now' = now /\ rebuilt' = rebuilt
      /\ passed \in [Clients -> Seq(Entries)] /\ reached \in [Endpoints -> Seq(Entries)]
      BY DEF LimitsTypeOK, Request
<1>2. /\ \A d \in Clients : passed'[d] = passed[d] \/ passed'[d] = Append(passed[d], Entry)
      /\ \A d \in Endpoints : reached'[d] = reached[d] \/ reached'[d] = Append(reached[d], Entry)
      BY <1>1 DEF Request, Logged
<1>3. /\ \A d \in Clients, t \in Int : LaterThan(passed'[d], t) \ InForce(passed'[d])
                                = LaterThan(passed[d], t) \ InForce(passed[d])
      /\ \A d \in Endpoints, t \in Int : LaterThan(reached'[d], t) \ InForce(reached'[d])
                                  = LaterThan(reached[d], t) \ InForce(reached[d])
      BY <1>1, <1>2, GrowthIsInForce
<1>4. /\ \A d \in Clients, t \in Int : (LaterThan(passed[d], t) \ InForce(passed[d]))'
                                = LaterThan(passed'[d], t) \ InForce(passed'[d])
      /\ \A d \in Endpoints, t \in Int : (LaterThan(reached[d], t) \ InForce(reached[d]))'
                                  = LaterThan(reached'[d], t) \ InForce(reached'[d])
      BY <1>1 DEF LaterThan, InForce
<1>5. \A t \in Int : RebuiltAfter(t)' = RebuiltAfter(t)
      BY <1>1 DEF RebuiltAfter
<1>6. ClientsReplaced'
  <2> SUFFICES ASSUME NEW d \in Clients, NEW t \in Int, t >= now' - ClientSpan
               PROVE  Cardinality((LaterThan(passed[d], t) \ InForce(passed[d]))')
                        <= Cardinality(RebuiltAfter(t)') * MaxRate
      BY DEF ClientsReplaced, Replaced, ClientSpan
  <2>1. (LaterThan(passed[d], t) \ InForce(passed[d]))'
          = LaterThan(passed[d], t) \ InForce(passed[d])
        BY <1>3, <1>4
  <2> QED
      BY <1>1, <1>5, <2>1 DEF ClientsReplaced, Replaced
<1>7. EndpointsReplaced'
  <2> SUFFICES ASSUME NEW d \in Endpoints, NEW t \in Int, t >= now' - EndpointWindow
               PROVE  Cardinality((LaterThan(reached[d], t) \ InForce(reached[d]))')
                        <= Cardinality(RebuiltAfter(t)') * EndpointLimit[d]
      BY DEF EndpointsReplaced, Replaced
  <2>1. (LaterThan(reached[d], t) \ InForce(reached[d]))'
          = LaterThan(reached[d], t) \ InForce(reached[d])
        BY <1>3, <1>4
  <2> QED
      BY <1>1, <1>5, <2>1 DEF EndpointsReplaced, Replaced
<1> QED
    BY <1>6, <1>7

LEMMA ReplacedRebuild ==
  ASSUME LimitsTypeOK, WindowsCount, NEW rate \in Rates, Rebuild(rate),
         ClientsReplaced, EndpointsReplaced
  PROVE  ClientsReplaced' /\ EndpointsReplaced'
<1>1. /\ now' = now /\ passed' = passed /\ reached' = reached
      /\ passed \in [Clients -> Seq(Entries)] /\ reached \in [Endpoints -> Seq(Entries)]
      BY DEF Rebuild, LimitsTypeOK
<1>2. ASSUME NEW c \in Clients, NEW t \in Int, t >= now - ClientSpan
      PROVE  Cardinality(LaterThan(passed[c], t)) <= Cardinality(RebuiltAfter(t)') * MaxRate
  <2>1. limiter.rate \in Nat /\ limiter.rate <= MaxRate
        BY RateIsNat
  <2>2. InOrder(passed[c], limiter.windows[c], ClientSpan, limiter.rate)
        BY Parts DEF ClientsInOrder
  <2>3. /\ Cardinality(Within(passed[c], ClientSpan) \cap InForce(passed[c])) <= limiter.rate
        /\ Cardinality(Within(passed[c], ClientSpan) \cap InForce(passed[c])) \in Nat
        BY <1>1, <2>1, <2>2, RecentBounded
  <2>4. Cardinality(Within(passed[c], ClientSpan) \cap InForce(passed[c])) <= MaxRate
        BY <2>1, <2>3, Numbers
  <2> QED
      BY <1>1, <1>2, <2>4, RebuildReplaced, Numbers DEF ClientsReplaced
<1>3. ASSUME NEW e \in Endpoints, NEW t \in Int, t >= now - EndpointWindow
      PROVE  Cardinality(LaterThan(reached[e], t))
               <= Cardinality(RebuiltAfter(t)') * EndpointLimit[e]
  <2>1. InOrder(reached[e], limiter.endpoints[e], EndpointWindow, EndpointLimit[e])
        BY Parts DEF EndpointsInOrder
  <2>2. Cardinality(Within(reached[e], EndpointWindow) \cap InForce(reached[e]))
          <= EndpointLimit[e]
        BY <1>1, <2>1, RecentBounded, Numbers
  <2> QED
      BY <1>1, <1>3, <2>2, RebuildReplaced, Numbers DEF EndpointsReplaced
<1>4. /\ \A c \in Clients : InForce(passed[c])' = {}
      /\ \A e \in Endpoints : InForce(reached[e])' = {}
  <2>1. ASSUME NEW log \in Seq(Entries)
        PROVE  {i \in DOMAIN log : log[i].by = Len(rebuilt')} = {}
        BY RebuildForgets
  <2> QED
      BY <1>1, <2>1 DEF InForce
<1>5. /\ \A c \in Clients, t \in Int : LaterThan(passed[c], t)' = LaterThan(passed[c], t)
      /\ \A e \in Endpoints, t \in Int : LaterThan(reached[e], t)' = LaterThan(reached[e], t)
      BY <1>1 DEF LaterThan
<1>6. ClientsReplaced'
  <2> SUFFICES ASSUME NEW c \in Clients, NEW t \in Int, t >= now' - ClientSpan
               PROVE  Cardinality((LaterThan(passed[c], t) \ InForce(passed[c]))')
                        <= Cardinality(RebuiltAfter(t)') * MaxRate
      BY DEF ClientsReplaced, Replaced, ClientSpan
  <2>1. (LaterThan(passed[c], t) \ InForce(passed[c]))' = LaterThan(passed[c], t)
        BY <1>4, <1>5
  <2> QED
      BY <1>1, <1>2, <2>1
<1>7. EndpointsReplaced'
  <2> SUFFICES ASSUME NEW e \in Endpoints, NEW t \in Int, t >= now' - EndpointWindow
               PROVE  Cardinality((LaterThan(reached[e], t) \ InForce(reached[e]))')
                        <= Cardinality(RebuiltAfter(t)') * EndpointLimit[e]
      BY DEF EndpointsReplaced, Replaced
  <2>1. (LaterThan(reached[e], t) \ InForce(reached[e]))' = LaterThan(reached[e], t)
        BY <1>4, <1>5
  <2> QED
      BY <1>1, <1>3, <2>1
<1> QED
    BY <1>6, <1>7

LEMMA ReplacedTick ==
  ASSUME LimitsTypeOK, Tick, ClientsReplaced, EndpointsReplaced
  PROVE  ClientsReplaced' /\ EndpointsReplaced'
<1>1. now \in Nat /\ now' = now + 1 /\ UNCHANGED <<rebuilt, passed, reached>>
      BY DEF LimitsTypeOK, Tick
<1>2. \A t \in Int, span \in Nat : t >= now' - span => t >= now - span
      BY <1>1
<1>3. \A t \in Int : RebuiltAfter(t)' = RebuiltAfter(t)
      BY <1>1 DEF RebuiltAfter
<1>4. /\ \A c \in Clients, t \in Int : (LaterThan(passed[c], t) \ InForce(passed[c]))'
                                         = LaterThan(passed[c], t) \ InForce(passed[c])
      /\ \A e \in Endpoints, t \in Int : (LaterThan(reached[e], t) \ InForce(reached[e]))'
                                           = LaterThan(reached[e], t) \ InForce(reached[e])
      BY <1>1 DEF LaterThan, InForce
<1>5. ClientsReplaced'
  <2> SUFFICES ASSUME NEW c \in Clients, NEW t \in Int, t >= now' - ClientSpan
               PROVE  Cardinality((LaterThan(passed[c], t) \ InForce(passed[c]))')
                        <= Cardinality(RebuiltAfter(t)') * MaxRate
      BY DEF ClientsReplaced, Replaced, ClientSpan
  <2>1. t >= now - ClientSpan
        BY <1>2, Numbers
  <2>2. Cardinality(LaterThan(passed[c], t) \ InForce(passed[c]))
          <= Cardinality(RebuiltAfter(t)) * MaxRate
        BY <2>1 DEF ClientsReplaced, Replaced
  <2> QED
      BY <1>3, <1>4, <2>2
<1>6. EndpointsReplaced'
  <2> SUFFICES ASSUME NEW e \in Endpoints, NEW t \in Int, t >= now' - EndpointWindow
               PROVE  Cardinality((LaterThan(reached[e], t) \ InForce(reached[e]))')
                        <= Cardinality(RebuiltAfter(t)') * EndpointLimit[e]
      BY DEF EndpointsReplaced, Replaced
  <2>1. t >= now - EndpointWindow
        BY <1>2, Numbers
  <2>2. Cardinality(LaterThan(reached[e], t) \ InForce(reached[e]))
          <= Cardinality(RebuiltAfter(t)) * EndpointLimit[e]
        BY <2>1 DEF EndpointsReplaced, Replaced
  <2> QED
      BY <1>3, <1>4, <2>2
<1> QED
    BY <1>5, <1>6

LEMMA ReplacedStep ==
  LimitsTypeOK /\ WindowsCount /\ ClientsReplaced /\ EndpointsReplaced /\ [LimitsNext]_limitVars
    => ClientsReplaced' /\ EndpointsReplaced'
<1> SUFFICES ASSUME LimitsTypeOK, WindowsCount, ClientsReplaced, EndpointsReplaced,
                    [LimitsNext]_limitVars
             PROVE  ClientsReplaced' /\ EndpointsReplaced'
    OBVIOUS
<1> DEFINE Goal == ClientsReplaced' /\ EndpointsReplaced'
<1>1. ASSUME NEW c \in Clients, NEW e \in Paths, Request(c, e) PROVE Goal
      BY <1>1, ReplacedRequest
<1>2. ASSUME NEW rate \in Rates, Rebuild(rate) PROVE Goal
      BY <1>2, ReplacedRebuild
<1>3. CASE Tick
      BY <1>3, ReplacedTick
<1>4. CASE UNCHANGED limitVars
      BY <1>4 DEF ClientsReplaced, EndpointsReplaced, Replaced, LaterThan, InForce,
                  RebuiltAfter, ClientSpan, limitVars
<1> QED
    BY <1>1, <1>2, <1>3, <1>4 DEF LimitsNext, Paths

LEMMA ReplacedAlways == LimitsSpec => [](ClientsReplaced /\ EndpointsReplaced)
<1> QED
    BY LimitsTypeCorrect, WindowsCountAlways, ReplacedInit, ReplacedStep, PTL DEF LimitsSpec

LEMMA StretchEnds ==
  ASSUME NEW log, NEW span
  PROVE  /\ Within(log, span) = LaterThan(log, now - span)
         /\ LimitersWithin(span) = 1 + Cardinality(RebuiltAfter(now - span))
  BY DEF Within, LaterThan, LimitersWithin, RebuiltAfter

(* In any stretch of the window's length, or of the idle time if that is   *)
(* shorter, a client gets no more than its rate past its own limit while   *)
(* the limiter stays, however often idle clients are cleaned up, and no    *)
(* more than one rate for each time the limiter was replaced besides.      *)
THEOREM ClientsWithinRate == LimitsSpec => []ClientWindow
<1>1. LimitsTypeOK /\ WindowsCount /\ ClientsReplaced => ClientWindow
  <2> SUFFICES ASSUME LimitsTypeOK, WindowsCount, ClientsReplaced, NEW c \in Clients
               PROVE  /\ Cardinality(Within(passed[c], ClientSpan) \cap InForce(passed[c]))
                           <= limiter.rate
                      /\ Cardinality(Within(passed[c], ClientSpan))
                           <= LimitersWithin(ClientSpan) * MaxRate
      BY DEF ClientWindow
  <2>1. /\ limiter.rate \in Nat /\ limiter.rate <= MaxRate /\ now \in Nat
        /\ passed[c] \in Seq(Entries)
        BY RateIsNat DEF LimitsTypeOK
  <2>2. InOrder(passed[c], limiter.windows[c], ClientSpan, limiter.rate)
        BY Parts DEF ClientsInOrder
  <2>3. /\ Cardinality(Within(passed[c], ClientSpan) \cap InForce(passed[c])) <= limiter.rate
        /\ Cardinality(Within(passed[c], ClientSpan) \cap InForce(passed[c])) \in Nat
        BY <2>1, <2>2, RecentBounded
  <2>4. Cardinality(Within(passed[c], ClientSpan) \cap InForce(passed[c])) <= MaxRate
        BY <2>1, <2>3, Numbers
  <2>5. now - ClientSpan \in Int /\ now - ClientSpan >= now - ClientSpan
        BY <2>1, Numbers
  <2>6. Cardinality(LaterThan(passed[c], now - ClientSpan))
          <= (1 + Cardinality(RebuiltAfter(now - ClientSpan))) * MaxRate
        BY <2>1, <2>4, <2>5, TotalBounded, Numbers DEF ClientsReplaced
  <2> QED
      BY <2>3, <2>6, StretchEnds
<1> QED
    BY <1>1, LimitsTypeCorrect, WindowsCountAlways, ReplacedAlways, PTL

(* No endpoint is reached more often than its limit says, by all clients   *)
(* together, while the limiter stays, and no more than one limit for each  *)
(* time it was replaced besides.                                           *)
THEOREM EndpointsWithinLimit == LimitsSpec => []EndpointShare
<1>1. LimitsTypeOK /\ WindowsCount /\ EndpointsReplaced => EndpointShare
  <2> SUFFICES ASSUME LimitsTypeOK, WindowsCount, EndpointsReplaced, NEW e \in Endpoints
               PROVE  /\ Cardinality(Within(reached[e], EndpointWindow) \cap InForce(reached[e]))
                           <= EndpointLimit[e]
                      /\ Cardinality(Within(reached[e], EndpointWindow))
                           <= LimitersWithin(EndpointWindow) * EndpointLimit[e]
      BY DEF EndpointShare
  <2>1. EndpointLimit[e] \in Nat /\ reached[e] \in Seq(Entries) /\ now \in Nat
        BY Numbers DEF LimitsTypeOK
  <2>2. InOrder(reached[e], limiter.endpoints[e], EndpointWindow, EndpointLimit[e])
        BY Parts DEF EndpointsInOrder
  <2>3. Cardinality(Within(reached[e], EndpointWindow) \cap InForce(reached[e]))
          <= EndpointLimit[e]
        BY <2>1, <2>2, RecentBounded
  <2>4. now - EndpointWindow \in Int /\ now - EndpointWindow >= now - EndpointWindow
        BY <2>1, Numbers
  <2>5. Cardinality(LaterThan(reached[e], now - EndpointWindow))
          <= (1 + Cardinality(RebuiltAfter(now - EndpointWindow))) * EndpointLimit[e]
        BY <2>1, <2>3, <2>4, TotalBounded, Numbers DEF EndpointsReplaced
  <2> QED
      BY <2>3, <2>5, StretchEnds
<1> QED
    BY <1>1, LimitsTypeCorrect, WindowsCountAlways, ReplacedAlways, PTL

(* A client that has not used up its rate is let through by its limit.     *)
THEOREM RefusalsAreEarned == LimitsSpec => RefusedOnlyWhenUsedUp
<1>1. ASSUME LimitsTypeOK, WindowsCount, NEW c \in Clients, NEW e \in Paths, Request(c, e),
             Cardinality(Within(passed[c], Window) \cap InForce(passed[c])) < limiter.rate
      PROVE  Len(passed'[c]) = Len(passed[c]) + 1
  <2>1. /\ passed \in [Clients -> Seq(Entries)] /\ Entry \in Entries
        /\ limiter.rate \in Nat
        BY <1>1, RateIsNat, EntryType DEF LimitsTypeOK
  <2>2. InOrder(passed[c], Kept(c)[c], ClientSpan, limiter.rate)
        BY <1>1, KeptInOrder
  <2>3. /\ Cardinality(Recent(passed[c], Kept(c)[c], Window))
              <= Cardinality(Within(passed[c], Window) \cap InForce(passed[c]))
        /\ Cardinality(Recent(passed[c], Kept(c)[c], Window)) \in Nat
        /\ Cardinality(Within(passed[c], Window) \cap InForce(passed[c])) \in Nat
        BY <2>1, <2>2, RecentSmaller DEF InOrder
  <2>4. ClientHasRoom(c)
        BY <1>1, <2>1, <2>3 DEF ClientHasRoom, HasRoom
  <2>5. Outcome(c, e) # "client"
        BY <2>4 DEF Outcome
  <2>6. passed'[c] = Append(passed[c], Entry)
        BY <1>1, <2>1, <2>5 DEF Request, Logged
  <2> QED
      BY <2>1, <2>6, LogGrows
<1>2. LimitsTypeOK /\ WindowsCount /\ [LimitsNext]_limitVars =>
        [\A c \in Clients, e \in Endpoints \cup {NoEndpoint} :
           /\ Request(c, e)
           /\ Cardinality(Within(passed[c], Window) \cap InForce(passed[c])) < limiter.rate
           => Len(passed'[c]) = Len(passed[c]) + 1]_limitVars
      BY <1>1 DEF Paths
<1> QED
    BY <1>2, LimitsTypeCorrect, WindowsCountAlways, PTL DEF RefusedOnlyWhenUsedUp, LimitsSpec

----------------------------------------------------------------------------
(* The bucket.                                                             *)

RebuiltFrom(t) == {i \in DOMAIN rebuilt : rebuilt[i] >= t}
Buckets(t) == (1 + Cardinality(RebuiltFrom(t))) * (Burst * Minute)
Own(t) == Since(granted, t) \cap InForce(granted)

(* The bucket's account: what was granted since t, with what is left, was  *)
(* in a bucket that stood full, or has flowed in between t and the last    *)
(* refill; and nothing was granted after that.                             *)
Account ==
  /\ \A i \in DOMAIN granted : granted[i].at <= limiter.refilled
  /\ \A t \in 0..limiter.refilled :
       /\ Cardinality(Own(t)) * Minute + limiter.tokens
            <= Burst * Minute + (limiter.refilled - t) * limiter.rate
       /\ Cardinality(Since(granted, t)) * Minute + limiter.tokens
            <= Buckets(t) + (limiter.refilled - t) * MaxRate

LEMMA Flow ==
  ASSUME NEW r \in Nat, NEW a \in Int, NEW b \in Int, NEW c \in Int
  PROVE  (a - b) * r + (b - c) * r = (a - c) * r
  OBVIOUS

LEMMA FasterFlow ==
  ASSUME NEW a \in Nat, NEW x \in Nat, NEW y \in Nat, x <= y
  PROVE  a * x <= a * y
<1>1. y - x \in Nat /\ a * (y - x) \in Nat
      BY ProductIsNat
<1>2. a * y = a * x + a * (y - x)
      OBVIOUS
<1> QED
    BY <1>1, <1>2

LEMMA CarriedOver ==
  ASSUME NEW n \in Int, NEW old \in Int, NEW new \in Int, NEW gone \in Int, NEW most \in Int,
         NEW burst \in Int, NEW earlier \in Int, NEW after \in Int,
         n + old <= burst + earlier, gone <= most, most + earlier = after, new <= old + gone
  PROVE  n + new <= burst + after
  OBVIOUS

LEMMA NothingCarried ==
  ASSUME NEW left \in Int, NEW burst \in Int, NEW full \in Int, NEW more \in Nat,
         left <= burst, burst <= full
  PROVE  0 + left <= full + more
  OBVIOUS

LEMMA SinceFinite ==
  ASSUME LimitsTypeOK, NEW t
  PROVE  /\ IsFiniteSet(Since(granted, t)) /\ Cardinality(Since(granted, t)) \in Nat
         /\ IsFiniteSet(Own(t)) /\ Cardinality(Own(t)) \in Nat
         /\ Cardinality(RebuiltFrom(t)) \in Nat /\ IsFiniteSet(RebuiltFrom(t))
         /\ Buckets(t) \in Nat /\ Buckets(t) >= Burst * Minute
<1>1. granted \in Seq(Entries) /\ rebuilt \in Seq(0..now)
      BY DEF LimitsTypeOK
<1>2. IsFiniteSet(DOMAIN granted) /\ IsFiniteSet(DOMAIN rebuilt)
      BY <1>1, DomainFinite
<1>3. /\ IsFiniteSet(Since(granted, t)) /\ IsFiniteSet(Own(t))
      /\ IsFiniteSet(RebuiltFrom(t))
      BY <1>2, FS_Subset DEF Since, Own, RebuiltFrom
<1>4. /\ Cardinality(Since(granted, t)) \in Nat /\ Cardinality(Own(t)) \in Nat
      /\ Cardinality(RebuiltFrom(t)) \in Nat
      BY <1>3, FS_CardinalityType
<1>5. /\ Cardinality(RebuiltFrom(t)) * (Burst * Minute) \in Nat
      /\ Buckets(t) = Burst * Minute + Cardinality(RebuiltFrom(t)) * (Burst * Minute)
      BY <1>4, ProductIsNat, Numbers DEF Buckets
<1> QED
    BY <1>3, <1>4, <1>5, Numbers

(* What a refill at the present moment makes of either line of the account.*)
LEMMA RefillLine ==
  ASSUME LimitsTypeOK, NEW t \in 0..now, NEW n \in Nat, NEW full \in Nat, NEW rate \in Nat,
         Burst * Minute <= full, limiter.rate <= rate,
         t <= limiter.refilled => n + limiter.tokens <= full + (limiter.refilled - t) * rate,
         t > limiter.refilled => n = 0
  PROVE  n + Refilled <= full + (now - t) * rate
<1> DEFINE gone == (now - limiter.refilled) * limiter.rate
           most == (now - limiter.refilled) * rate
<1>1. /\ now \in Nat /\ limiter.rate \in Nat /\ limiter.refilled \in 0..now
      /\ limiter.tokens \in Int /\ Burst * Minute \in Nat /\ Refilled \in Int
  <2>1. limiter.refilled \in 0..now /\ limiter.tokens \in 0..(Burst * Minute)
        BY DEF LimitsTypeOK
  <2>2. Refilled \in 0..(Burst * Minute)
        BY RefilledInBounds
  <2> QED
      BY <2>1, <2>2, RateIsNat, Numbers
<1>2. now - limiter.refilled \in Nat /\ now - t \in Nat
      BY <1>1
<1>3. gone \in Nat /\ most \in Nat /\ (now - t) * rate \in Nat /\ gone <= most
      BY <1>1, <1>2, ProductIsNat, FasterFlow
<1>4. Refilled <= limiter.tokens + gone /\ Refilled <= Burst * Minute
      BY <1>1, <1>3 DEF Refilled
<1>5. CASE t <= limiter.refilled
  <2>1. most + (limiter.refilled - t) * rate = (now - t) * rate
        BY <1>1, Flow
  <2>2. (limiter.refilled - t) * rate \in Nat
        BY <1>1, <1>5, ProductIsNat
  <2> QED
      BY <1>1, <1>3, <1>4, <1>5, <2>1, <2>2, CarriedOver
<1>6. CASE t > limiter.refilled
  <2>1. 0 + Refilled <= full + (now - t) * rate
        BY <1>1, <1>3, <1>4, NothingCarried
  <2> QED
      BY <1>6, <2>1
<1> QED
    BY <1>1, <1>5, <1>6

LEMMA RefillAccount ==
  ASSUME LimitsTypeOK, Account, NEW t \in 0..now
  PROVE  /\ Cardinality(Own(t)) * Minute + Refilled <= Burst * Minute + (now - t) * limiter.rate
         /\ Cardinality(Since(granted, t)) * Minute + Refilled
              <= Buckets(t) + (now - t) * MaxRate
<1>1. /\ now \in Nat /\ limiter.rate \in Nat /\ limiter.rate <= MaxRate
      /\ limiter.refilled \in 0..now
      BY RateIsNat DEF LimitsTypeOK
<1>2. /\ Cardinality(Own(t)) * Minute \in Nat
      /\ Cardinality(Since(granted, t)) * Minute \in Nat
      BY SinceFinite, ProductIsNat, Numbers
<1>3. ASSUME t > limiter.refilled
      PROVE  Cardinality(Own(t)) * Minute = 0 /\ Cardinality(Since(granted, t)) * Minute = 0
  <2>1. \A i \in DOMAIN granted : granted[i].at \in 0..now
        BY EntryOf DEF LimitsTypeOK
  <2>2. Since(granted, t) = {} /\ Own(t) = {}
        BY <1>1, <1>3, <2>1 DEF Account, Since, Own
  <2>3. Cardinality({}) = 0 /\ 0 * Minute = 0
        BY FS_EmptySet, Numbers
  <2> QED
      BY <2>2, <2>3
<1>4. ASSUME t <= limiter.refilled
      PROVE  /\ Cardinality(Own(t)) * Minute + limiter.tokens
                  <= Burst * Minute + (limiter.refilled - t) * limiter.rate
             /\ Cardinality(Since(granted, t)) * Minute + limiter.tokens
                  <= Buckets(t) + (limiter.refilled - t) * MaxRate
      BY <1>1, <1>4 DEF Account
<1>5. Cardinality(Own(t)) * Minute + Refilled <= Burst * Minute + (now - t) * limiter.rate
  <2>1. Burst * Minute \in Nat /\ Burst * Minute <= Burst * Minute
        BY Numbers
  <2>2. limiter.rate <= limiter.rate
        BY <1>1
  <2> QED
      BY <1>1, <1>2, <1>3, <1>4, <2>1, <2>2, RefillLine
<1>6. Cardinality(Since(granted, t)) * Minute + Refilled <= Buckets(t) + (now - t) * MaxRate
  <2>1. Buckets(t) \in Nat /\ Burst * Minute <= Buckets(t) /\ MaxRate \in Nat
        BY SinceFinite, Numbers
  <2> QED
      BY <1>1, <1>2, <1>3, <1>4, <2>1, RefillLine
<1> QED
    BY <1>5, <1>6

LEMMA AccountInit == LimitsInit => Account
<1> SUFFICES ASSUME LimitsInit PROVE Account
    OBVIOUS
<1>1. PICK rate \in Rates : limiter = New(rate)
      BY DEF LimitsInit
<1>2. /\ limiter.refilled = 0 /\ limiter.tokens = Burst * Minute /\ limiter.rate \in Nat
      /\ granted = <<>> /\ rebuilt = <<>>
      BY <1>1, LimitsAssumption DEF New, LimitsInit
<1>3. \A t : Cardinality(Own(t)) = 0 /\ Cardinality(Since(granted, t)) = 0
  <2>1. \A t : Own(t) = {} /\ Since(granted, t) = {}
        BY <1>2 DEF Since, Own
  <2> QED
      BY <2>1, FS_EmptySet
<1>4. Buckets(0) \in Nat /\ Buckets(0) >= Burst * Minute
      BY LimitsTypeInit, SinceFinite
<1>5. 0..limiter.refilled = {0}
      BY <1>2
<1>6. /\ 0 * Minute = 0 /\ (limiter.refilled - 0) * limiter.rate = 0
      /\ (limiter.refilled - 0) * MaxRate = 0
      BY <1>2, Numbers
<1>7. /\ Cardinality(Own(0)) * Minute + limiter.tokens
            <= Burst * Minute + (limiter.refilled - 0) * limiter.rate
      /\ Cardinality(Since(granted, 0)) * Minute + limiter.tokens
            <= Buckets(0) + (limiter.refilled - 0) * MaxRate
      BY <1>2, <1>3, <1>4, <1>6, Numbers
<1>8. \A i \in DOMAIN granted : granted[i].at <= limiter.refilled
      BY <1>2
<1> QED
    BY <1>5, <1>7, <1>8 DEF Account

(* A change of configuration fills the bucket once more.                   *)
LEMMA RebuildAccount ==
  ASSUME LimitsTypeOK, Account, NEW rate \in Rates, Rebuild(rate)
  PROVE  Account'
<1>1. /\ limiter'.refilled = now /\ limiter'.tokens = Burst * Minute
      /\ limiter'.rate \in Nat /\ granted' = granted /\ now \in Nat /\ now' = now
      /\ granted \in Seq(Entries)
      /\ rebuilt \in Seq(0..now) /\ rebuilt' = Append(rebuilt, now)
      BY LimitsAssumption DEF New, Rebuild, LimitsTypeOK
<1>2. \A i \in DOMAIN granted' : granted'[i].at <= limiter'.refilled
  <2>1. \A i \in DOMAIN granted : granted[i].at \in 0..now
        BY <1>1, EntryOf
  <2> QED
      BY <1>1, <2>1
<1>3. ASSUME NEW t \in 0..now
      PROVE  Cardinality(Own(t))' * Minute + Burst * Minute
               <= Burst * Minute + (now - t) * limiter'.rate
  <2>1. {i \in DOMAIN granted : granted[i].by = Len(rebuilt')} = {}
        BY <1>1, RebuildForgets
  <2>2. Own(t)' = {}
        BY <1>1, <2>1 DEF Own, InForce
  <2>3. Cardinality(Own(t))' = 0
        BY <2>2, FS_EmptySet
  <2>4. (now - t) * limiter'.rate \in Nat /\ 0 * Minute = 0
        BY <1>1, ProductIsNat, Numbers
  <2> QED
      BY <2>3, <2>4, Numbers
<1>4. ASSUME NEW t \in 0..now
      PROVE  Cardinality(Since(granted, t))' * Minute + Burst * Minute
               <= Buckets(t)' + (now - t) * MaxRate
  <2>1. Since(granted, t)' = Since(granted, t)
        BY <1>1 DEF Since
  <2>2. Cardinality(Since(granted, t)) * Minute + Refilled <= Buckets(t) + (now - t) * MaxRate
        BY RefillAccount
  <2>3. Refilled \in Nat
        BY RefilledInBounds, Numbers
  <2>4. Buckets(t)' = Buckets(t) + Burst * Minute
    <3>1. /\ DOMAIN rebuilt' = (DOMAIN rebuilt) \cup {Len(rebuilt) + 1}
          /\ \A i \in DOMAIN rebuilt : rebuilt'[i] = rebuilt[i]
          /\ rebuilt'[Len(rebuilt) + 1] = now
          /\ Len(rebuilt) + 1 \notin DOMAIN rebuilt
      <4>1. now \in 0..now
            BY <1>1
      <4> QED
          BY <1>1, <4>1, LogGrows
    <3>2. /\ RebuiltFrom(t)' = RebuiltFrom(t) \cup {Len(rebuilt) + 1}
          /\ Len(rebuilt) + 1 \notin RebuiltFrom(t)
          BY <1>1, <3>1 DEF RebuiltFrom
    <3>3. IsFiniteSet(RebuiltFrom(t)) /\ Cardinality(RebuiltFrom(t)) \in Nat
          BY SinceFinite
    <3>4. Cardinality(RebuiltFrom(t) \cup {Len(rebuilt) + 1}) = Cardinality(RebuiltFrom(t)) + 1
          BY <3>2, <3>3, FS_AddElement
    <3>5. Buckets(t)' = (1 + (Cardinality(RebuiltFrom(t)) + 1)) * (Burst * Minute)
          BY <3>2, <3>4 DEF Buckets
    <3> QED
        BY <3>3, <3>5, Numbers DEF Buckets
  <2>5. /\ Cardinality(Since(granted, t)) * Minute \in Nat
        /\ Buckets(t) \in Nat /\ (now - t) * MaxRate \in Nat
        BY <1>1, SinceFinite, ProductIsNat, Numbers
  <2> QED
      BY <2>1, <2>2, <2>3, <2>4, <2>5, Numbers
<1> QED
    BY <1>1, <1>2, <1>3, <1>4 DEF Account

LEMMA RequestAccount ==
  ASSUME LimitsTypeOK, Account, NEW c \in Clients, NEW e \in Paths, Request(c, e)
  PROVE  Account'
<1> DEFINE v == Outcome(c, e)
<1>1. /\ granted \in Seq(Entries) /\ now \in Nat /\ Entry \in Entries
      /\ now' = now /\ rebuilt' = rebuilt /\ limiter'.rate = limiter.rate
      BY EntryType DEF LimitsTypeOK, Request, After
<1>2. \A i \in DOMAIN granted : granted[i].at \in 0..now
      BY <1>1, EntryOf
<1>3. \A t : Buckets(t)' = Buckets(t)
      BY <1>1 DEF Buckets, RebuiltFrom
<1>4. CASE v \in {"client", "endpoint"}
  <2>1. /\ granted' = granted /\ limiter'.tokens = limiter.tokens
        /\ limiter'.refilled = limiter.refilled
        BY <1>4 DEF Request, After, Logged
  <2>2. \A t : Since(granted, t)' = Since(granted, t) /\ Own(t)' = Own(t)
        BY <1>1, <2>1 DEF Since, Own, InForce
  <2> QED
      BY <1>1, <1>3, <2>1, <2>2 DEF Account
<1>5. CASE v \notin {"client", "endpoint", "allowed"}
  <2>1. granted' = granted /\ limiter'.tokens = Refilled /\ limiter'.refilled = now
        BY <1>5 DEF Request, After, Logged
  <2>2. \A t : Since(granted, t)' = Since(granted, t) /\ Own(t)' = Own(t)
        BY <1>1, <2>1 DEF Since, Own, InForce
  <2>3. \A i \in DOMAIN granted' : granted'[i].at <= limiter'.refilled
        BY <1>1, <1>2, <2>1
  <2> QED
      BY <1>1, <1>3, <2>1, <2>2, <2>3, RefillAccount DEF Account
<1>6. CASE v = "allowed"
  <2> DEFINE new == Len(granted) + 1
  <2>1. /\ granted' = Append(granted, Entry) /\ limiter'.tokens = Refilled - Minute
        /\ limiter'.refilled = now
        BY <1>6 DEF Request, After, Logged
  <2>2. /\ DOMAIN granted' = (DOMAIN granted) \cup {new}
        /\ \A i \in DOMAIN granted : granted'[i] = granted[i]
        /\ granted'[new].at = now /\ granted'[new].by = Len(rebuilt)
        /\ new \notin DOMAIN granted
        BY <1>1, <2>1, LogGrows DEF Entry
  <2>3. \A i \in DOMAIN granted' : granted'[i].at <= now
        BY <1>1, <1>2, <2>2
  <2>4. ASSUME NEW n \in Nat, NEW bound \in Int, n * Minute + Refilled <= bound
        PROVE  (n + 1) * Minute + (Refilled - Minute) <= bound
    <3>1. (n + 1) * Minute = n * Minute + Minute /\ n * Minute \in Nat
          BY Numbers, ProductIsNat
    <3>2. Refilled \in Int /\ Minute \in Nat
          BY RefilledInBounds, Numbers
    <3> QED
        BY <2>4, <3>1, <3>2
  <2>5. ASSUME NEW t \in 0..now
        PROVE  /\ Cardinality(Own(t))' * Minute + (Refilled - Minute)
                    <= Burst * Minute + (now - t) * limiter.rate
               /\ Cardinality(Since(granted, t))' * Minute + (Refilled - Minute)
                    <= Buckets(t) + (now - t) * MaxRate
    <3>1. /\ Since(granted, t)' = Since(granted, t) \cup {new} /\ new \notin Since(granted, t)
          /\ Own(t)' = Own(t) \cup {new} /\ new \notin Own(t)
          BY <1>1, <2>2 DEF Since, Own, InForce
    <3>2. /\ IsFiniteSet(Since(granted, t)) /\ Cardinality(Since(granted, t)) \in Nat
          /\ IsFiniteSet(Own(t)) /\ Cardinality(Own(t)) \in Nat /\ Buckets(t) \in Nat
          BY SinceFinite
    <3>3. /\ Cardinality(Since(granted, t) \cup {new}) = Cardinality(Since(granted, t)) + 1
          /\ Cardinality(Own(t) \cup {new}) = Cardinality(Own(t)) + 1
          BY <3>1, <3>2, FS_AddElement
    <3>4. /\ Cardinality(Own(t))' = Cardinality(Own(t)) + 1
          /\ Cardinality(Since(granted, t))' = Cardinality(Since(granted, t)) + 1
          BY <3>1, <3>3
    <3>5. /\ Cardinality(Own(t)) * Minute + Refilled
                <= Burst * Minute + (now - t) * limiter.rate
          /\ Cardinality(Since(granted, t)) * Minute + Refilled
                <= Buckets(t) + (now - t) * MaxRate
          BY RefillAccount
    <3>6. /\ Burst * Minute + (now - t) * limiter.rate \in Int
          /\ Buckets(t) + (now - t) * MaxRate \in Int
          BY <1>1, <3>2, RateIsNat, ProductIsNat, Numbers
    <3>7. (Cardinality(Own(t)) + 1) * Minute + (Refilled - Minute)
            <= Burst * Minute + (now - t) * limiter.rate
          BY <2>4, <3>2, <3>5, <3>6
    <3>8. (Cardinality(Since(granted, t)) + 1) * Minute + (Refilled - Minute)
            <= Buckets(t) + (now - t) * MaxRate
          BY <2>4, <3>2, <3>5, <3>6
    <3> QED
        BY <3>4, <3>7, <3>8
  <2> QED
      BY <1>1, <1>3, <2>1, <2>3, <2>5 DEF Account
<1> QED
    BY <1>4, <1>5, <1>6

LEMMA AccountStep == LimitsTypeOK /\ Account /\ [LimitsNext]_limitVars => Account'
<1> SUFFICES ASSUME LimitsTypeOK, Account, [LimitsNext]_limitVars PROVE Account'
    OBVIOUS
<1>1. ASSUME NEW c \in Clients, NEW e \in Paths, Request(c, e) PROVE Account'
      BY <1>1, RequestAccount
<1>2. ASSUME NEW rate \in Rates, Rebuild(rate) PROVE Account'
      BY <1>2, RebuildAccount
<1>3. CASE Tick \/ UNCHANGED limitVars
      BY <1>3 DEF Account, Since, Own, InForce, Buckets, RebuiltFrom, Tick, limitVars
<1> QED
    BY <1>1, <1>2, <1>3 DEF LimitsNext, Paths

(* From any moment on, the limiter in force has answered no more requests  *)
(* than the burst and what the time since then has refilled; all of them   *)
(* together no more than that and a burst for each time it was replaced.   *)
THEOREM ServiceWithinRate == LimitsSpec => []GlobalShare
<1>1. LimitsTypeOK /\ Account => GlobalShare
  <2> SUFFICES ASSUME LimitsTypeOK, Account, NEW t \in 0..now
               PROVE  /\ Cardinality(Since(granted, t) \cap InForce(granted)) * Minute
                           <= Burst * Minute + (now - t) * limiter.rate
                      /\ Cardinality(Since(granted, t)) * Minute
                           <= LimitersWithin(now - t + 1) * (Burst * Minute)
                                + (now - t) * MaxRate
      BY DEF GlobalShare
  <2>1. /\ Cardinality(Own(t)) * Minute + Refilled <= Burst * Minute + (now - t) * limiter.rate
        /\ Cardinality(Since(granted, t)) * Minute + Refilled
             <= Buckets(t) + (now - t) * MaxRate
        BY RefillAccount
  <2>2. now \in Nat /\ Refilled \in Nat
        BY RefilledInBounds, RateIsNat, Numbers
  <2>3. /\ Cardinality(Own(t)) * Minute \in Nat /\ Burst * Minute \in Nat
        /\ Cardinality(Since(granted, t)) * Minute \in Nat /\ Buckets(t) \in Nat
        /\ (now - t) * limiter.rate \in Nat /\ (now - t) * MaxRate \in Nat
        BY <2>2, SinceFinite, RateIsNat, ProductIsNat, Numbers
  <2>4. LimitersWithin(now - t + 1) * (Burst * Minute) = Buckets(t)
    <3>1. \A i \in DOMAIN rebuilt : rebuilt[i] \in 0..now
      <4>1. rebuilt \in Seq(0..now)
            BY DEF LimitsTypeOK
      <4> QED
          BY <4>1, LenProperties
    <3>2. {i \in DOMAIN rebuilt : rebuilt[i] > now - (now - t + 1)} = RebuiltFrom(t)
          BY <2>2, <3>1 DEF RebuiltFrom
    <3> QED
        BY <3>2 DEF LimitersWithin, Buckets
  <2>5. Own(t) = Since(granted, t) \cap InForce(granted)
        BY DEF Own
  <2> QED
      BY <2>1, <2>2, <2>3, <2>4, <2>5
<1> QED
    BY <1>1, LimitsTypeInit, LimitsTypeStep, AccountInit, AccountStep, PTL DEF LimitsSpec

(* The state of the limiter is as described, whatever the windows and the  *)
(* idle time are configured to.                                            *)
THEOREM LimitsInvariantHolds == LimitsSpec => []LimitsInvariant
<1> QED
    BY LimitsTypeCorrect, WindowsCountAlways, PTL DEF LimitsInvariant

(* Neither a client nor an endpoint nor the service goes above its limit   *)
(* while the limiter stays, nor, over any stretch, above that by more than *)
(* a full share for each time it was replaced in it.                       *)
THEOREM SharesAreKept == LimitsSpec => []SharesKept
<1> QED
    BY ClientsWithinRate, EndpointsWithinLimit, ServiceWithinRate, PTL DEF SharesKept

----------------------------------------------------------------------------
(* StepAttempts: where an attempt is, and what holds there.                *)

InDialogue == pc \in {"script", "tools", "running"} \/ (pc = "asking" /\ exec.check = 0)
InChecks == pc = "checking" \/ (pc = "asking" /\ exec.check > 0)
AtWork == pc \in {"script", "asking", "tools", "running", "checking"}

\* What the place of an attempt says about its executor.
Where ==
  /\ AtWork => attempt >= 1
  /\ pc = "script" => ExecType = "pure_code" /\ exec.requests = 0
  /\ pc = "asking" => ExecType \in {"llm_completion", "agent_action"}
  /\ pc \in {"tools", "running"} => IsAgent /\ exec.tries = 0
  /\ pc \in {"script", "tools", "running"} => exec.check = 0
  /\ pc = "running" => exec.todo > 0 /\ ~LimitReached
  /\ pc = "checking" => exec.check > 0 /\ exec.tries = 0
  /\ InChecks => ExecType \in {"pure_code", "llm_completion", "agent_action"}
  /\ pc = "asking" /\ exec.check > 0 => Check.looks = "model"
  /\ AtWork /\ IsAgent => exec.iteration >= 1
  /\ AtWork => ~NothingToRun
  /\ Len(results) = attempt - (IF AtWork \/ (ExecType = "system_check" /\ pc = "passed")
                               THEN 1 ELSE 0)

\* What the attempt wrote is where it should be, as long as no straggler wrote.
WrittenHere ==
  ~late =>
    /\ "out" \in wrote => out.by = attempt /\ out.data # "none"
    /\ "alias" \in wrote => node.alias /\ alias.by = attempt
    /\ InDialogue /\ "out" \notin wrote => out = before
    /\ InChecks /\ wrote = {"alias"} /\ before = Nothing => out.by = attempt

Looked(k) ==
  (\E i \in DOMAIN node.checks :
     i < k /\ node.checks[i].hard /\ node.checks[i].looks \in {"file", "output"})
  => \E file \in seen : file.data = "good"

DataSeen ==
  /\ InDialogue => seen = {}
  /\ InDialogue /\ ~IsAgent => wrote = {}
  /\ ~late => seen \subseteq {out}
  /\ InChecks /\ exec.passed => Looked(exec.check)
  /\ InChecks /\ ExecType = "pure_code" => \E file \in seen : file.data = exec.output
  /\ pc = "passed" /\ ~NothingToRun /\ ExecType # "system_check" =>
       Looked(Len(node.checks) + 1)

RoundsOver ==
  IF exec.check > 0 THEN DialogueRounds + ModelChecksBefore(exec.check)
  ELSE IF ~IsAgent THEN 0
  ELSE IF pc = "asking" THEN exec.iteration - 1
  ELSE exec.iteration

RequestsCounted ==
  /\ AtWork => exec.requests <= RoundsOver * MaxTries + exec.tries
  /\ exec.requests <= (DialogueRounds + ModelChecks) * MaxTries

OwnWithin == \A p \in 1..current : own[p] <= total[p]

NothingSpent == NothingToRun => \A p \in 1..current : own[p] = 0

ChecksCounted ==
  InChecks /\ ExecType = "llm_completion" =>
    own[exec.provider] <= exec.usage + ModelChecksBefore(exec.check)

UsageWithin == exec.usage <= total[exec.provider]

ReportsWithin == UsageWithin /\ CountedOncePerReport

TokensCounted ==
  OwnWithin /\ NothingSpent /\ ChecksCounted /\ BudgetSeesFailedAttempts /\ ReportsWithin

DataInv == WrittenHere /\ ChecksSeeTheAttempt /\ DataSeen

----------------------------------------------------------------------------

Working == {"script", "asking", "tools", "running", "checking"}
Statuses == {"success", "partial", "error"}

Executors ==
  [provider : 1..current, iteration : 0..MaxIterations,
   tries : 0..(MaxTries - 1), todo : 0..MaxCalls,
   history : 0..MaxToolCalls, requests : Nat,
   check : 0..Len(node.checks), passed : BOOLEAN,
   output : {"none", "good", "bad"}, usage : Nat]

\* Everything about the node stays.
SameNode ==
  /\ node' = node
  /\ ExecType' = ExecType /\ IsAgent' = IsAgent /\ NothingToRun' = NothingToRun

LEMMA NodeStays == ASSUME node' = node PROVE SameNode
  BY DEF SameNode, ExecType, IsAgent, NothingToRun

LEMMA NodeFacts ==
  ASSUME node \in Nodes
  PROVE  /\ node.checks \in Seq([looks : Looks, hard : BOOLEAN])
         /\ Len(node.checks) \in Nat
         /\ DOMAIN node.checks = 1..Len(node.checks)
         /\ \A i \in 1..Len(node.checks) :
              node.checks[i].looks \in Looks /\ node.checks[i].hard \in BOOLEAN
         /\ ExecType \in {"pure_code", "llm_completion", "agent_action",
                          "system_check", "cron"}
         /\ node.given \in BOOLEAN /\ node.alias \in BOOLEAN
  <1>1. node \in [kind : Kinds, given : BOOLEAN, alias : BOOLEAN,
                  checks : Seq([looks : Looks, hard : BOOLEAN])]
    BY AttemptsAssumption
  <1>2. node.checks \in Seq([looks : Looks, hard : BOOLEAN])
    BY <1>1
  <1>3. /\ Len(node.checks) \in Nat
        /\ DOMAIN node.checks = 1..Len(node.checks)
        /\ \A i \in 1..Len(node.checks) : node.checks[i] \in [looks : Looks, hard : BOOLEAN]
    BY <1>2, LenProperties, ElementOfSeq
  <1>4. ExecType \in {"pure_code", "llm_completion", "agent_action", "system_check", "cron"}
    BY <1>1 DEF ExecType, Legacy, Kinds
  <1> QED BY <1>1, <1>2, <1>3, <1>4

LEMMA Positive ==
  /\ MaxAttempts \in Nat /\ MaxIterations \in Nat /\ MaxTries \in Nat
  /\ MaxToolCalls \in Nat /\ MaxCalls \in Nat /\ MaxReloads \in Nat /\ MaxOthers \in Nat
  /\ MaxAttempts >= 1 /\ MaxIterations >= 1 /\ MaxTries >= 1 /\ MaxToolCalls >= 1
  BY AttemptsAssumption

LEMMA ExecutorFacts ==
  ASSUME TypeOK
  PROVE  /\ exec \in Executors /\ Len(node.checks) \in Nat
         /\ exec.check \in 0..Len(node.checks) /\ exec.tries \in 0..(MaxTries - 1)
         /\ exec.provider \in 1..current /\ exec.passed \in BOOLEAN
         /\ exec.usage \in Nat /\ exec.requests \in Nat
         /\ exec.iteration \in 0..MaxIterations /\ exec.todo \in 0..MaxCalls
         /\ exec.history \in 0..MaxToolCalls /\ exec.output \in {"none", "good", "bad"}
  <1>1. exec \in Executors /\ node \in Nodes
    BY DEF TypeOK, Executors
  <1> QED BY <1>1, NodeFacts DEF Executors

LEMMA SettleFacts ==
  ASSUME TypeOK, NEW status \in Statuses, NEW usage \in Nat, Settle(status, usage)
  PROVE  /\ results' \in Seq(Statuses) /\ Len(results') = Len(results) + 1
         /\ reported' = reported + usage /\ reported' \in Nat
         /\ pc' \in {"passed", "idle", "exhausted"}
         /\ pc' = "passed" <=> status = "success"
  <1>1. results \in Seq(Statuses) /\ reported \in Nat
    BY DEF TypeOK, Statuses
  <1>2. results' = Append(results, status)
    BY DEF Settle
  <1>3. results' \in Seq(Statuses) /\ Len(results') = Len(results) + 1
    BY <1>1, <1>2, AppendProperties
  <1>4. reported' = reported + usage /\ reported' \in Nat
    BY <1>1 DEF Settle
  <1>5. pc' \in {"passed", "idle", "exhausted"} /\ (pc' = "passed" <=> status = "success")
    BY DEF Settle, Settled
  <1> QED BY <1>3, <1>4, <1>5

LEMMA UsageIsNat ==
  ASSUME TypeOK, NEW count \in [1..current -> Nat]
  PROVE  Usage(count) \in Nat
  BY DEF Usage, TypeOK

\* How the checks begin: with the first, unless there is none.
LEMMA RunChecksFacts ==
  ASSUME TypeOK, NEW executor \in Executors, NEW usage \in Nat,
         RunChecks(executor, usage)
  PROVE  \/ /\ node.checks = <<>>
            /\ exec' = [executor EXCEPT !.usage = usage]
            /\ exec' \in Executors
            /\ Settle("success", usage)
         \/ /\ 1 \in DOMAIN node.checks
            /\ exec' = [executor EXCEPT !.check = 1, !.tries = 0, !.usage = usage]
            /\ exec' \in Executors
            /\ pc' = "checking" /\ UNCHANGED outcomes
  <1>1. node.checks \in Seq([looks : Looks, hard : BOOLEAN]) /\ Len(node.checks) \in Nat
        /\ DOMAIN node.checks = 1..Len(node.checks)
    BY NodeFacts DEF TypeOK
  <1>2. CASE node.checks = <<>>
    <2>1. exec' = [executor EXCEPT !.usage = usage] /\ Settle("success", usage)
      BY <1>2 DEF RunChecks
    <2>2. exec' \in Executors
      BY <2>1 DEF Executors
    <2> QED BY <1>2, <2>1, <2>2
  <1>3. CASE node.checks # <<>>
    <2>1. Len(node.checks) >= 1
      BY <1>1, <1>3, EmptySeq
    <2>2. /\ exec' = [executor EXCEPT !.check = 1, !.tries = 0, !.usage = usage]
          /\ pc' = "checking" /\ UNCHANGED outcomes
      BY <1>3 DEF RunChecks
    <2>3. exec' \in Executors
      <3>1. 1 \in 0..Len(node.checks) /\ 0 \in 0..(MaxTries - 1)
        BY <1>1, <2>1, Positive
      <3> QED BY <2>2, <3>1 DEF Executors
    <2> QED BY <1>1, <2>1, <2>2, <2>3
  <1> QED BY <1>2, <1>3

\* How a check ends: the next one begins, or the attempt is over.
LEMMA VerdictFacts ==
  ASSUME TypeOK, NEW ok \in BOOLEAN, NEW executor \in Executors, NEW count \in [1..current -> Nat],
         executor.check = exec.check, exec.check > 0,
         Verdict(ok, executor, count)
  PROVE  \/ /\ exec.check = Len(node.checks)
            /\ exec' = [executor EXCEPT !.passed = StillPasses(ok)]
            /\ exec' \in Executors
            /\ Settle(IF StillPasses(ok) THEN "success" ELSE "partial",
                      IF IsAgent THEN Usage(count) ELSE exec.usage)
            /\ pc' = "passed" => StillPasses(ok)
            /\ (IF IsAgent THEN Usage(count) ELSE exec.usage) \in Nat
         \/ /\ exec.check + 1 \in DOMAIN node.checks
            /\ exec' = [executor EXCEPT !.passed = StillPasses(ok), !.check = exec.check + 1,
                                        !.tries = 0]
            /\ exec' \in Executors
            /\ pc' = "checking" /\ UNCHANGED outcomes
  <1>1. /\ Len(node.checks) \in Nat /\ DOMAIN node.checks = 1..Len(node.checks)
        /\ exec.check \in 1..Len(node.checks) /\ exec.passed \in BOOLEAN /\ exec.usage \in Nat
    <2>1. node \in Nodes
      BY DEF TypeOK
    <2>2. Len(node.checks) \in Nat /\ DOMAIN node.checks = 1..Len(node.checks)
      BY <2>1, NodeFacts
    <2> QED BY <2>2, ExecutorFacts
  <1>2. Check.hard \in BOOLEAN
    BY <1>1, NodeFacts DEF Check, TypeOK
  <1>3. StillPasses(ok) \in BOOLEAN
    BY <1>1, <1>2 DEF StillPasses
  <1>4. CASE LastCheck
    <2>1. /\ exec' = [executor EXCEPT !.passed = StillPasses(ok)]
          /\ Settle(IF StillPasses(ok) THEN "success" ELSE "partial",
                    IF IsAgent THEN Usage(count) ELSE exec.usage)
      BY <1>4 DEF Verdict
    <2>2. exec' \in Executors
      BY <1>3, <2>1 DEF Executors
    <2>3. (IF IsAgent THEN Usage(count) ELSE exec.usage) \in Nat
      BY <1>1, UsageIsNat
    <2>4. pc' = "passed" => StillPasses(ok)
      BY <2>1 DEF Settle, Settled
    <2> QED BY <1>4, <2>1, <2>2, <2>3, <2>4 DEF LastCheck
  <1>5. CASE ~LastCheck
    <2>1. exec.check + 1 \in 1..Len(node.checks)
      BY <1>1, <1>5 DEF LastCheck
    <2>2. /\ exec' = [executor EXCEPT !.passed = StillPasses(ok), !.check = exec.check + 1,
                                      !.tries = 0]
          /\ pc' = "checking" /\ UNCHANGED outcomes
      BY <1>5 DEF Verdict
    <2>3. exec' \in Executors
      <3>1. exec.check + 1 \in 0..Len(node.checks) /\ 0 \in 0..(MaxTries - 1)
        BY <1>1, <2>1, Positive
      <3> QED BY <1>3, <2>2, <3>1 DEF Executors
    <2> QED BY <1>1, <2>1, <2>2, <2>3
  <1> QED BY <1>4, <1>5

----------------------------------------------------------------------------
(* Typing, and where an attempt may be.                                    *)

Places == {"idle", "script", "asking", "tools", "running", "checking", "passed", "exhausted"}

Resting == {"passed", "idle", "exhausted"}

LEMMA TypeKept ==
  ASSUME TypeOK, UNCHANGED <<node, attempt, current, others>>,
         pc' \in Places, exec' \in Executors,
         out' \in File, alias' \in File, before' \in File, seen' \subseteq File,
         lingering' \subseteq 1..attempt,
         total' \in [1..current -> Nat], own' \in [1..current -> Nat],
         results' \in Seq(Statuses), reported' \in Nat,
         wrote' \subseteq {"out", "alias"}, late' \in BOOLEAN
  PROVE  TypeOK'
  BY DEF TypeOK, Places, Executors, Statuses, File

LEMMA TypedFacts ==
  ASSUME TypeOK
  PROVE  /\ node \in Nodes /\ pc \in Places /\ attempt \in 0..MaxAttempts
         /\ out \in File /\ alias \in File /\ before \in File /\ seen \subseteq File
         /\ lingering \subseteq 1..attempt
         /\ current \in Nat /\ current >= 1 /\ others \in Nat
         /\ total \in [1..current -> Nat] /\ own \in [1..current -> Nat]
         /\ results \in Seq(Statuses) /\ Len(results) \in Nat /\ reported \in Nat
         /\ wrote \subseteq {"out", "alias"} /\ late \in BOOLEAN
  <1>1. /\ results \in Seq(Statuses)
        /\ current \in 1..(MaxReloads + 1) /\ others \in 0..MaxOthers
    BY DEF TypeOK, Statuses
  <1>2. Len(results) \in Nat /\ current \in Nat /\ current >= 1 /\ others \in Nat
    BY <1>1, Positive, LenProperties
  <1> QED BY <1>1, <1>2 DEF TypeOK, Places

LEMMA AtWorkKinds ==
  ASSUME Where, AtWork
  PROVE  /\ ExecType \in {"pure_code", "llm_completion", "agent_action"}
         /\ Len(results) = attempt - 1 /\ attempt >= 1 /\ ~NothingToRun
  BY DEF Where, AtWork, InChecks, IsAgent

LEMMA WhereRests ==
  ASSUME TypeOK, Where, AtWork, UNCHANGED <<node, attempt>>,
         pc' \in Resting, Len(results') = Len(results) + 1
  PROVE  Where'
  <1>1. SameNode
    BY NodeStays
  <1>2. /\ ExecType # "system_check" /\ Len(results) = attempt - 1
        /\ attempt \in Int /\ Len(results) \in Int
    BY AtWorkKinds, TypedFacts
  <1>3. ~AtWork' /\ ~InChecks' /\ pc' \notin Working
    BY DEF AtWork, InChecks, Resting, Working
  <1>4. Len(results') = attempt'
    BY <1>2
  <1> QED BY <1>1, <1>2, <1>3, <1>4 DEF Where, SameNode, Working

LEMMA WhereChecks ==
  ASSUME TypeOK, Where, AtWork, UNCHANGED <<node, attempt, results>>,
         pc' = "checking", exec'.check > 0, exec'.tries = 0,
         exec'.iteration = exec.iteration
  PROVE  Where'
  <1>1. SameNode
    BY NodeStays
  <1>2. /\ ExecType \in {"pure_code", "llm_completion", "agent_action"}
        /\ Len(results) = attempt - 1 /\ attempt >= 1 /\ ~NothingToRun
    BY AtWorkKinds
  <1>3. AtWork' /\ (IsAgent => exec.iteration >= 1)
    BY DEF AtWork, Where
  <1> QED BY <1>1, <1>2, <1>3 DEF Where, SameNode

LEMMA FailFacts ==
  ASSUME TypeOK, Where, AtWork, UNCHANGED <<node, attempt>>, Fail
  PROVE  /\ pc' \in {"idle", "exhausted"} /\ pc' \in Resting /\ pc' \in Places
         /\ results' \in Seq(Statuses) /\ reported' = reported /\ reported' \in Nat
         /\ Where'
  <1>1. Settle("error", 0)
    BY DEF Fail
  <1>2. /\ results' \in Seq(Statuses) /\ Len(results') = Len(results) + 1
        /\ reported' = reported + 0 /\ reported' \in Nat
        /\ pc' \in {"passed", "idle", "exhausted"} /\ pc' # "passed"
    BY <1>1, SettleFacts DEF Statuses
  <1>3. reported' = reported
    BY <1>2, TypedFacts
  <1> QED BY <1>2, <1>3, WhereRests DEF Resting, Places

LEMMA ChecksBegin ==
  ASSUME TypeOK, Where, AtWork, UNCHANGED <<node, attempt>>,
         NEW executor \in Executors, executor.iteration = exec.iteration,
         NEW usage \in Nat, RunChecks(executor, usage)
  PROVE  /\ exec' \in Executors /\ pc' \in Places
         /\ results' \in Seq(Statuses) /\ reported' \in Nat
         /\ Where'
  <1>1. CASE /\ exec' = [executor EXCEPT !.usage = usage]
             /\ exec' \in Executors
             /\ Settle("success", usage)
    <2>1. /\ results' \in Seq(Statuses) /\ Len(results') = Len(results) + 1
          /\ reported' \in Nat /\ pc' \in Resting
      BY <1>1, SettleFacts DEF Statuses, Resting
    <2> QED BY <1>1, <2>1, WhereRests DEF Resting, Places
  <1>2. CASE /\ exec' = [executor EXCEPT !.check = 1, !.tries = 0, !.usage = usage]
             /\ exec' \in Executors
             /\ pc' = "checking" /\ UNCHANGED outcomes
    <2>1. exec'.check = 1 /\ exec'.tries = 0 /\ exec'.iteration = exec.iteration
      BY <1>2 DEF Executors
    <2>2. UNCHANGED <<results, reported>>
      BY <1>2 DEF outcomes
    <2> QED BY <1>2, <2>1, <2>2, WhereChecks, TypedFacts DEF Places
  <1> QED BY <1>1, <1>2, RunChecksFacts

LEMMA CheckEnds ==
  ASSUME TypeOK, Where, InChecks, UNCHANGED <<node, attempt>>,
         NEW ok \in BOOLEAN, NEW executor \in Executors, NEW count \in [1..current -> Nat],
         executor.check = exec.check, executor.iteration = exec.iteration,
         Verdict(ok, executor, count)
  PROVE  /\ exec' \in Executors /\ pc' \in Places
         /\ results' \in Seq(Statuses) /\ reported' \in Nat
         /\ Where'
  <1>1. AtWork /\ exec.check > 0 /\ exec.check \in Nat
    BY ExecutorFacts DEF Where, InChecks, AtWork
  <1>2. ASSUME exec' \in Executors,
               NEW status \in Statuses, NEW usage \in Nat, Settle(status, usage)
        PROVE  /\ results' \in Seq(Statuses) /\ reported' \in Nat /\ pc' \in Places
               /\ Where'
    <2>1. /\ results' \in Seq(Statuses) /\ Len(results') = Len(results) + 1
          /\ reported' \in Nat /\ pc' \in Resting
      BY <1>2, SettleFacts DEF Resting
    <2> QED BY <1>1, <2>1, WhereRests DEF Resting, Places
  <1>3. CASE /\ exec' = [executor EXCEPT !.passed = StillPasses(ok), !.check = exec.check + 1,
                                         !.tries = 0]
             /\ exec' \in Executors
             /\ pc' = "checking" /\ UNCHANGED outcomes
    <2>1. exec'.check = exec.check + 1 /\ exec'.tries = 0 /\ exec'.iteration = exec.iteration
      BY <1>3 DEF Executors
    <2>2. UNCHANGED <<results, reported>>
      BY <1>3 DEF outcomes
    <2> QED BY <1>1, <1>3, <2>1, <2>2, WhereChecks, TypedFacts DEF Places
  <1>4. CASE /\ exec' \in Executors
             /\ Settle(IF StillPasses(ok) THEN "success" ELSE "partial",
                       IF IsAgent THEN Usage(count) ELSE exec.usage)
             /\ (IF IsAgent THEN Usage(count) ELSE exec.usage) \in Nat
    <2>1. (IF StillPasses(ok) THEN "success" ELSE "partial") \in Statuses
      BY DEF Statuses
    <2> QED BY <1>2, <1>4, <2>1
  <1> QED BY <1>1, <1>3, <1>4, VerdictFacts
----------------------------------------------------------------------------
(* Each action keeps the types and the places.                             *)

Typed == TypeOK /\ Where

LEMMA InitTyped == Init => Typed
  <1> SUFFICES ASSUME Init PROVE Typed
    OBVIOUS
  <1>1. NewExecutor \in Executors /\ exec = NewExecutor
    <2>1. node \in Nodes /\ current = 1
      BY DEF Init
    <2>2. Len(node.checks) \in Nat
      BY <2>1, NodeFacts
    <2> QED BY <2>1, <2>2, Positive DEF Init, NewExecutor, Executors
  <1>2. results = <<>> /\ results \in Seq(Statuses) /\ Len(results) = 0
    BY DEF Init
  <1>3. Nothing \in File
    BY Positive DEF Nothing, File
  <1>4. TypeOK
    <2>1. /\ node \in Nodes /\ pc \in Places /\ attempt \in 0..MaxAttempts
          /\ current \in 1..(MaxReloads + 1) /\ others \in 0..MaxOthers
          /\ lingering \subseteq 1..attempt /\ seen \subseteq File /\ reported \in Nat
          /\ wrote \subseteq {"out", "alias"}
      BY Positive DEF Init, Places
    <2>4. late \in BOOLEAN
      BY DEF Init
    <2>2. out \in File /\ alias \in File /\ before \in File
      BY <1>3 DEF Init
    <2>3. total \in [1..current -> Nat] /\ own \in [1..current -> Nat]
      BY DEF Init
    <2> QED BY <1>1, <1>2, <2>1, <2>2, <2>3, <2>4 DEF TypeOK, Executors, Statuses, Places
  <1>5. ~AtWork /\ ~InChecks /\ pc = "idle" /\ attempt = 0
    BY DEF Init, AtWork, InChecks
  <1>6. Where
    <2>1. Len(results) = attempt - (IF AtWork \/ (ExecType = "system_check" /\ pc = "passed")
                                    THEN 1 ELSE 0)
      <3>1. Len(results) = 0 /\ attempt = 0
        BY <1>2, <1>5
      <3>2. ~(AtWork \/ (ExecType = "system_check" /\ pc = "passed"))
        BY <1>5
      <3>3. (IF AtWork \/ (ExecType = "system_check" /\ pc = "passed") THEN 1 ELSE 0) = 0
        BY <3>2
      <3>4. attempt - 0 = 0
        BY <3>1
      <3> QED BY <3>1, <3>3, <3>4
    <2> QED BY <1>5, <2>1 DEF Where
  <1> QED BY <1>4, <1>6 DEF Typed

LEMMA BeginTyped == ASSUME Typed, Begin PROVE Typed'
  <1> USE DEF Typed
  <1>1. /\ UNCHANGED <<node, files, lingering, tokens, current, others>>
        /\ attempt' = attempt + 1 /\ exec' = NewExecutor /\ pc = "idle"
        /\ before' = out /\ wrote' = {} /\ seen' = {} /\ late' = FALSE
        /\ attempt < MaxAttempts
    BY DEF Begin
  <1>2. SameNode
    BY <1>1, NodeStays
  <1>3. attempt \in Nat /\ Len(results) = attempt /\ Len(results) \in Nat
    BY <1>1, TypedFacts, Positive DEF Where, AtWork
  <1>4. /\ exec' \in Executors /\ exec'.check = 0 /\ exec'.tries = 0 /\ exec'.requests = 0
        /\ IsAgent => exec'.iteration = 1
    <2>1. node \in Nodes /\ current \in Nat /\ current >= 1
      BY TypedFacts
    <2>2. Len(node.checks) \in Nat
      BY <2>1, NodeFacts
    <2> QED BY <1>1, <2>1, <2>2, Positive DEF NewExecutor, Executors
  <1>5. ExecType \in {"pure_code", "llm_completion", "agent_action", "system_check", "cron"}
    BY TypedFacts, NodeFacts
  <1>6. /\ results' \in Seq(Statuses) /\ pc' \in Places /\ reported' \in Nat
        /\ \/ pc' = "script" /\ ExecType = "pure_code" /\ ~NothingToRun
              /\ Len(results') = Len(results)
           \/ pc' = "asking" /\ ExecType \in {"llm_completion", "agent_action"}
              /\ ~NothingToRun /\ Len(results') = Len(results)
           \/ pc' = "passed" /\ ExecType # "system_check" /\ Len(results') = Len(results) + 1
           \/ pc' = "passed" /\ ExecType = "system_check" /\ Len(results') = Len(results)
           \/ pc' = "exhausted" /\ ExecType # "system_check" /\ Len(results') = Len(results) + 1
    <2>1. results \in Seq(Statuses) /\ reported \in Nat
      BY TypedFacts
    <2>2. ASSUME NEW status \in Statuses
          PROVE  /\ Append(results, status) \in Seq(Statuses)
                 /\ Len(Append(results, status)) = Len(results) + 1
      BY <2>1, AppendProperties
    <2>3. CASE NothingToRun /\ results' = Append(results, "success") /\ pc' = "passed"
               /\ UNCHANGED reported
      BY <2>1, <2>2, <2>3 DEF NothingToRun, Statuses, Places
    <2>4. CASE /\ ExecType \notin {"pure_code", "llm_completion", "agent_action",
                                  "human_review", "system_check"}
               /\ results' = Append(results, "error") /\ pc' = "exhausted"
               /\ UNCHANGED reported
      BY <2>1, <2>2, <2>4 DEF Statuses, Places
    <2>5. CASE \/ /\ ~NothingToRun /\ ExecType = "pure_code"
                  /\ pc' = "script" /\ UNCHANGED outcomes
               \/ /\ ~NothingToRun /\ ExecType \in {"llm_completion", "agent_action"}
                  /\ pc' = "asking" /\ UNCHANGED outcomes
               \/ /\ ExecType \in {"human_review", "system_check"}
                  /\ pc' = "passed" /\ UNCHANGED outcomes
      BY <1>5, <2>1, <2>5 DEF outcomes, Places
    <2> QED BY <2>3, <2>4, <2>5 DEF Begin
  <1>7. TypeOK'
    <2>1. attempt' \in 0..MaxAttempts /\ lingering' \subseteq 1..attempt'
      BY <1>1, <1>3, TypedFacts, Positive
    <2>2. /\ out' = out /\ alias' = alias /\ total' = total /\ own' = own
          /\ current' = current /\ others' = others /\ node' = node
      BY <1>1 DEF files, tokens
    <2> QED BY <1>1, <1>4, <1>6, <2>1, <2>2 DEF TypeOK, Executors, Places, Statuses
  <1>8. Where'
    <2>1. exec'.iteration \in Int
      BY <1>4, Positive, TypedFacts DEF Executors
    <2> QED BY <1>1, <1>2, <1>3, <1>4, <1>6, <2>1
            DEF Where, SameNode, AtWork, InChecks, IsAgent, Places
  <1> QED BY <1>7, <1>8

\* What a step leaves alone.
LEMMA Alone ==
  /\ (UNCHANGED files => out' = out /\ alias' = alias)
  /\ (UNCHANGED tokens => total' = total /\ own' = own)
  /\ (UNCHANGED outcomes => results' = results /\ reported' = reported)
  /\ (UNCHANGED seenSoFar => before' = before /\ wrote' = wrote /\ seen' = seen /\ late' = late)
  BY DEF files, tokens, outcomes, seenSoFar

LEMMA WrittenIsFile ==
  ASSUME NEW a \in 1..MaxAttempts
  PROVE  /\ Written(a) \subseteq File
         /\ \A file \in Written(a) : file.by = a /\ file.data # "none"
  BY Positive DEF Written, File

LEMMA AttemptAtWork ==
  ASSUME Typed, AtWork
  PROVE  attempt \in 1..MaxAttempts
  BY AtWorkKinds, TypedFacts, Positive DEF Typed

\* The attempt fails, whatever else it did.
LEMMA FailTyped ==
  ASSUME Typed, AtWork, Fail,
         UNCHANGED <<node, attempt, current, others>>, exec' \in Executors,
         out' \in File, alias' \in File, before' \in File, seen' \subseteq File,
         lingering' \subseteq 1..attempt,
         total' \in [1..current -> Nat], own' \in [1..current -> Nat],
         wrote' \subseteq {"out", "alias"}, late' \in BOOLEAN
  PROVE  Typed'
  BY FailFacts, TypeKept DEF Typed

LEMMA ScriptFailsTyped ==
  ASSUME Typed, ScriptRefused \/ ScriptTimesOut PROVE Typed'
  <1>1. /\ pc = "script" /\ Fail
        /\ UNCHANGED <<node, attempt, exec, files, lingering, tokens, current, others,
                       seenSoFar>>
    BY DEF ScriptRefused, ScriptTimesOut
  <1>2. AtWork
    BY <1>1 DEF AtWork
  <1>3. exec' \in Executors
    BY <1>1, ExecutorFacts DEF Typed
  <1> QED BY <1>1, <1>2, <1>3, Alone, FailTyped, TypedFacts DEF Typed

LEMMA ReadTyped ==
  ASSUME Typed, pc = "script", NEW file \in File, ReadScriptOutput(file),
         UNCHANGED <<node, attempt, alias, lingering, tokens, current, others, before, late>>,
         out' \in File, wrote' \subseteq {"out", "alias"}
  PROVE  Typed'
  <1>1. AtWork
    BY DEF AtWork
  <1>2. seen' \subseteq File
    BY DEF ReadScriptOutput
  <1>3. CASE Fail /\ UNCHANGED exec
    <2>1. exec' \in Executors
      BY <1>3, ExecutorFacts DEF Typed
    <2> QED BY <1>1, <1>2, <1>3, <2>1, Alone, FailTyped, TypedFacts DEF Typed
  <1>4. CASE file.data \notin {"none", "failed"}
             /\ RunChecks([exec EXCEPT !.output = file.data], 0)
    <2>1. file.data \in {"good", "bad"}
      BY <1>4 DEF File
    <2> DEFINE executor == [exec EXCEPT !.output = file.data]
    <2>2. executor \in Executors /\ executor.iteration = exec.iteration
      BY <2>1, ExecutorFacts DEF Executors, Typed
    <2> HIDE DEF executor
    <2>3. RunChecks(executor, 0)
      BY <1>4 DEF executor
    <2>4. /\ exec' \in Executors /\ pc' \in Places
          /\ results' \in Seq(Statuses) /\ reported' \in Nat
          /\ Where'
      BY <1>1, <2>2, <2>3, ChecksBegin DEF Typed
    <2> QED BY <1>2, <2>4, Alone, TypeKept, TypedFacts DEF Typed
  <1> QED BY <1>3, <1>4 DEF ReadScriptOutput

LEMMA ScriptEndsTyped == ASSUME Typed, ScriptEnds PROVE Typed'
  <1>1. /\ pc = "script" /\ out' \in Written(attempt) /\ ReadScriptOutput(out')
        /\ wrote' = {"out"}
        /\ UNCHANGED <<node, attempt, alias, lingering, tokens, current, others, before, late>>
    BY DEF ScriptEnds
  <1>2. out' \in File
    BY <1>1, AttemptAtWork, WrittenIsFile DEF AtWork
  <1> QED BY <1>1, <1>2, ReadTyped

LEMMA ScriptDiesTyped == ASSUME Typed, ScriptDies PROVE Typed'
  <1>1. /\ pc = "script" /\ ReadScriptOutput(out)
        /\ UNCHANGED <<node, attempt, files, lingering, tokens, current, others,
                       before, wrote, late>>
    BY DEF ScriptDies
  <1>2. out \in File /\ out' = out /\ alias' = alias /\ wrote \subseteq {"out", "alias"}
    BY <1>1, Alone, TypedFacts DEF Typed
  <1> QED BY <1>1, <1>2, ReadTyped

LEMMA AskedFacts ==
  ASSUME TypeOK
  PROVE  /\ Asked \in Executors
         /\ Asked = [exec EXCEPT !.requests = exec.requests + 1]
         /\ Asked.iteration = exec.iteration /\ Asked.check = exec.check
         /\ Asked.requests = exec.requests + 1 /\ Asked.provider = exec.provider
         /\ Asked.tries = exec.tries
  BY ExecutorFacts DEF Asked, Executors

LEMMA AnsweredFacts ==
  ASSUME TypeOK, Answered
  PROVE  /\ total' \in [1..current -> Nat] /\ own' \in [1..current -> Nat]
         /\ total' = [total EXCEPT ![exec.provider] = @ + 1]
         /\ own' = [own EXCEPT ![exec.provider] = @ + 1]
         /\ Usage(total') \in Nat /\ pc = "asking"
  <1>1. total \in [1..current -> Nat] /\ own \in [1..current -> Nat]
    BY TypedFacts
  <1>2. /\ total' = [total EXCEPT ![exec.provider] = @ + 1]
        /\ own' = [own EXCEPT ![exec.provider] = @ + 1] /\ pc = "asking"
    BY DEF Answered
  <1>3. exec.provider \in 1..current
    BY ExecutorFacts
  <1>4. total' \in [1..current -> Nat] /\ own' \in [1..current -> Nat]
    BY <1>1, <1>2, <1>3
  <1> QED BY <1>2, <1>4, UsageIsNat

LEMMA CompleteTyped == ASSUME Typed, Complete PROVE Typed'
  <1>1. /\ Answered
        /\ UNCHANGED <<node, attempt, alias, lingering, current, others, before, seen, late>>
    BY DEF Complete
  <1>2. AtWork
    BY <1>1 DEF Answered, AtWork
  <1>3. out' \in File /\ wrote' \subseteq {"out", "alias"}
    <2>1. Written(attempt) \subseteq File
      BY <1>2, AttemptAtWork, WrittenIsFile
    <2> QED BY <2>1, TypedFacts DEF Complete, Typed
  <1>4. /\ total' \in [1..current -> Nat] /\ own' \in [1..current -> Nat]
        /\ Usage(total') \in Nat
    BY <1>1, AnsweredFacts DEF Typed
  <1>5. CASE RunChecks(Asked, Usage(total'))
    <2>1. /\ exec' \in Executors /\ pc' \in Places
          /\ results' \in Seq(Statuses) /\ reported' \in Nat
          /\ Where'
      BY <1>1, <1>2, <1>4, <1>5, AskedFacts, ChecksBegin DEF Typed
    <2> QED BY <1>1, <1>3, <1>4, <2>1, TypeKept, TypedFacts DEF Typed
  <1>6. CASE exec' = Asked /\ Fail
    <2>1. exec' \in Executors
      BY <1>6, AskedFacts DEF Typed
    <2> QED BY <1>1, <1>2, <1>3, <1>4, <1>6, <2>1, FailTyped, TypedFacts DEF Typed
  <1> QED BY <1>5, <1>6 DEF Complete

LEMMA NormalizedFacts ==
  ASSUME TypeOK
  PROVE  Normalized \in File /\ Normalized \in {out, alias}
  BY TypedFacts DEF Normalized

LEMMA AgentAnsweredTyped == ASSUME Typed, AgentAnswered PROVE Typed'
  <1>1. /\ Answered /\ IsAgent /\ exec.check = 0
        /\ UNCHANGED <<node, attempt, alias, lingering, current, others, seenSoFar>>
    BY DEF AgentAnswered
  <1>2. AtWork /\ pc = "asking"
    BY <1>1 DEF Answered, AtWork
  <1>3. /\ total' \in [1..current -> Nat] /\ own' \in [1..current -> Nat]
        /\ Usage(total') \in Nat
    BY <1>1, AnsweredFacts DEF Typed
  <1>4. CASE /\ \E n \in 1..MaxCalls : exec' = [Asked EXCEPT !.todo = n, !.tries = 0]
             /\ pc' = "tools"
             /\ UNCHANGED <<out, outcomes>>
    <2>1. /\ exec' \in Executors /\ exec'.iteration = exec.iteration
          /\ exec'.check = 0 /\ exec'.tries = 0
      <3>1. 0 \in 0..(MaxTries - 1) /\ 1..MaxCalls \subseteq 0..MaxCalls
        BY Positive
      <3> QED BY <1>1, <1>4, <3>1, AskedFacts DEF Executors, Typed
    <2>2. TypeOK'
      BY <1>1, <1>3, <1>4, <2>1, Alone, TypeKept, TypedFacts DEF Typed, Places
    <2>3. Where'
      <3>1. SameNode
        BY <1>1, NodeStays
      <3>2. /\ ExecType # "system_check" /\ Len(results) = attempt - 1 /\ attempt >= 1
            /\ ~NothingToRun /\ exec.iteration >= 1
        BY <1>1, <1>2, AtWorkKinds DEF Where, Typed
      <3> QED BY <1>1, <1>4, <2>1, <3>1, <3>2, Alone
              DEF Where, SameNode, AtWork, InChecks
    <2> QED BY <2>2, <2>3 DEF Typed
  <1>5. CASE out' = Normalized /\ RunChecks(Asked, Usage(total'))
    <2>1. /\ exec' \in Executors /\ pc' \in Places
          /\ results' \in Seq(Statuses) /\ reported' \in Nat
          /\ Where'
      BY <1>1, <1>2, <1>3, <1>5, AskedFacts, ChecksBegin DEF Typed
    <2> QED BY <1>1, <1>3, <1>5, <2>1, Alone, NormalizedFacts, TypeKept, TypedFacts DEF Typed
  <1> QED BY <1>4, <1>5 DEF AgentAnswered

LEMMA TryAgainTyped == ASSUME Typed, TryAgain PROVE Typed'
  <1>1. /\ pc = "asking" /\ exec.tries + 1 < MaxTries
        /\ exec' = [Asked EXCEPT !.tries = @ + 1]
        /\ UNCHANGED <<node, pc, attempt, files, lingering, tokens, current, others,
                       outcomes, seenSoFar>>
    BY DEF TryAgain, MayTryAgain
  <1>2. /\ exec' \in Executors /\ exec'.check = exec.check /\ exec'.iteration = exec.iteration
    <2>1. exec.tries + 1 \in 0..(MaxTries - 1)
      <3>1. exec.tries + 1 < MaxTries /\ exec.tries \in 0..(MaxTries - 1)
        BY <1>1, ExecutorFacts DEF Typed
      <3> QED BY <3>1, Positive
    <2> QED BY <1>1, <2>1, AskedFacts DEF Executors, Typed
  <1>3. TypeOK'
    BY <1>1, <1>2, Alone, TypeKept, TypedFacts DEF Typed, Places
  <1>4. Where'
    <2>1. SameNode /\ Check' = Check
      BY <1>1, <1>2, NodeStays DEF Check
    <2> QED BY <1>1, <1>2, <2>1, Alone DEF Where, Typed, SameNode, AtWork, InChecks
  <1> QED BY <1>3, <1>4 DEF Typed

LEMMA RequestFailsTyped == ASSUME Typed, RequestFails PROVE Typed'
  <1>1. /\ pc = "asking" /\ exec' = Asked /\ Fail
        /\ UNCHANGED <<node, attempt, files, lingering, tokens, current, others, seenSoFar>>
    BY DEF RequestFails
  <1>2. AtWork
    BY <1>1 DEF AtWork
  <1>3. exec' \in Executors
    BY <1>1, AskedFacts DEF Typed
  <1> QED BY <1>1, <1>2, <1>3, Alone, FailTyped, TypedFacts DEF Typed

\* The dialogue goes on: the executor changes, the attempt stays in it.
LEMMA DialogueTyped ==
  ASSUME Typed, pc \in {"tools", "running"},
         UNCHANGED <<node, attempt, current, others, lingering, tokens, outcomes>>,
         exec' \in Executors, exec'.check = 0, exec'.tries = 0,
         exec'.iteration >= 1,
         pc' \in {"tools", "running", "asking"},
         pc' = "running" => exec'.todo > 0 /\ ~LimitReached',
         out' \in File, alias' \in File, UNCHANGED before, seen' \subseteq File,
         wrote' \subseteq {"out", "alias"}, late' \in BOOLEAN
  PROVE  Typed'
  <1>1. TypeOK'
    BY Alone, TypeKept, TypedFacts DEF Typed, Places
  <1>2. Where'
    <2>1. SameNode
      BY NodeStays
    <2>2. /\ IsAgent /\ Len(results) = attempt - 1 /\ attempt >= 1 /\ ~NothingToRun
      BY AtWorkKinds DEF Where, Typed, AtWork
    <2>3. ExecType = "agent_action"
      BY <2>2 DEF IsAgent
    <2> QED BY <2>1, <2>2, <2>3, Alone DEF Where, SameNode, AtWork, InChecks
  <1> QED BY <1>1, <1>2 DEF Typed

LEMMA ToolRefusedTyped == ASSUME Typed, ToolRefused PROVE Typed'
  <1>1. /\ pc = "tools" /\ exec.todo > 0
        /\ exec' = [exec EXCEPT !.todo = @ - 1]
        /\ UNCHANGED <<node, pc, attempt, files, lingering, tokens, current, others,
                       outcomes, seenSoFar>>
    BY DEF ToolRefused
  <1>2. exec.check = 0 /\ exec.tries = 0 /\ exec.iteration >= 1
    BY <1>1 DEF Typed, Where, AtWork
  <1>3. /\ exec' \in Executors /\ exec'.check = 0 /\ exec'.tries = 0
        /\ exec'.iteration >= 1
    <2>1. exec.todo - 1 \in 0..MaxCalls
      <3>1. exec.todo > 0 /\ exec.todo \in 0..MaxCalls
        BY <1>1, ExecutorFacts DEF Typed
      <3> QED BY <3>1, Positive
    <2> QED BY <1>1, <1>2, <2>1, ExecutorFacts DEF Executors, Typed
  <1> QED BY <1>1, <1>3, Alone, TypedFacts, DialogueTyped DEF Typed

LEMMA ToolStartsTyped == ASSUME Typed, ToolStarts PROVE Typed'
  <1>1. /\ pc = "tools" /\ exec.todo > 0 /\ ~LimitReached /\ pc' = "running"
        /\ UNCHANGED <<node, attempt, exec, files, lingering, tokens, current, others,
                       outcomes, seenSoFar>>
    BY DEF ToolStarts
  <1>2. exec.check = 0 /\ exec.tries = 0 /\ exec.iteration >= 1
    BY <1>1 DEF Typed, Where, AtWork
  <1>3. exec' \in Executors
    BY <1>1, ExecutorFacts DEF Typed
  <1>4. ~LimitReached'
    BY <1>1 DEF LimitReached
  <1> QED BY <1>1, <1>2, <1>3, <1>4, Alone, TypedFacts, DialogueTyped DEF Typed

LEMMA ToolEndsTyped == ASSUME Typed, ToolEnds PROVE Typed'
  <1>1. /\ pc = "running" /\ ToolWrites /\ pc' = "tools"
        /\ exec' = [exec EXCEPT !.todo = @ - 1, !.history = @ + 1]
        /\ UNCHANGED <<node, attempt, lingering, tokens, current, others, outcomes,
                       before, seen, late>>
    BY DEF ToolEnds
  <1>2. /\ exec.check = 0 /\ exec.tries = 0 /\ exec.iteration >= 1
        /\ exec.todo > 0 /\ exec.history < MaxToolCalls
    <2>1. /\ exec.check = 0 /\ exec.tries = 0 /\ exec.iteration >= 1
          /\ exec.todo > 0 /\ ~LimitReached
      BY <1>1 DEF Typed, Where, AtWork
    <2> QED BY <2>1, ExecutorFacts, Positive DEF LimitReached, Typed
  <1>3. /\ exec' \in Executors /\ exec'.check = 0 /\ exec'.tries = 0
        /\ exec'.iteration >= 1
    <2>1. exec.todo - 1 \in 0..MaxCalls /\ exec.history + 1 \in 0..MaxToolCalls
      BY <1>2, ExecutorFacts, Positive DEF Typed
    <2> QED BY <1>1, <1>2, <2>1, ExecutorFacts DEF Executors, Typed
  <1>4. out' \in File /\ alias' \in File /\ wrote' \subseteq {"out", "alias"}
    <2>1. Written(attempt) \subseteq File
      BY <1>1, AttemptAtWork, WrittenIsFile DEF AtWork
    <2> QED BY <1>1, <2>1, Alone, TypedFacts DEF ToolWrites, Typed
  <1> QED BY <1>1, <1>3, <1>4, TypedFacts, DialogueTyped DEF Typed

LEMMA NextIterationTyped == ASSUME Typed, NextIteration PROVE Typed'
  <1>1. /\ pc = "tools" /\ exec.iteration < MaxIterations /\ pc' = "asking"
        /\ exec' = [exec EXCEPT !.iteration = @ + 1]
        /\ UNCHANGED <<node, attempt, files, lingering, tokens, current, others, outcomes,
                       seenSoFar>>
    BY DEF NextIteration
  <1>2. exec.check = 0 /\ exec.tries = 0 /\ exec.iteration >= 1
    BY <1>1 DEF Typed, Where, AtWork
  <1>3. /\ exec' \in Executors /\ exec'.check = 0 /\ exec'.tries = 0
        /\ exec'.iteration >= 1
    <2>1. exec.iteration + 1 \in 0..MaxIterations /\ exec.iteration + 1 >= 1
      <3>1. exec.iteration \in Nat /\ exec.iteration >= 1
            /\ exec.iteration < MaxIterations /\ MaxIterations \in Nat
        BY <1>1, <1>2, ExecutorFacts, Positive DEF Typed
      <3> QED BY <3>1
    <2> QED BY <1>1, <1>2, <2>1, ExecutorFacts DEF Executors, Typed
  <1> QED BY <1>1, <1>3, Alone, TypedFacts, DialogueTyped DEF Typed

LEMMA IterationsUsedUpTyped == ASSUME Typed, IterationsUsedUp PROVE Typed'
  <1>1. /\ pc = "tools" /\ out' = Normalized /\ RunChecks(exec, Usage(total))
        /\ UNCHANGED <<node, attempt, alias, lingering, tokens, current, others, seenSoFar>>
    BY DEF IterationsUsedUp
  <1>2. AtWork
    BY <1>1 DEF AtWork
  <1>3. Usage(total) \in Nat
    BY TypedFacts, UsageIsNat DEF Typed
  <1>4. /\ exec' \in Executors /\ pc' \in Places
        /\ results' \in Seq(Statuses) /\ reported' \in Nat
        /\ Where'
    BY <1>1, <1>2, <1>3, ExecutorFacts, ChecksBegin DEF Typed
  <1> QED BY <1>1, <1>4, Alone, NormalizedFacts, TypeKept, TypedFacts DEF Typed

\* A check is over, and no answer of the model was counted for it.
LEMMA CheckTyped ==
  ASSUME Typed, InChecks, NEW ok \in BOOLEAN, Verdict(ok, exec, total) \/ Verdict(ok, Asked, total),
         UNCHANGED <<node, attempt, tokens, current, others, before, wrote>>,
         seen' \subseteq File, out' \in File, alias' \in File, late' \in BOOLEAN,
         lingering' \subseteq 1..attempt
  PROVE  Typed'
  <1>1. total \in [1..current -> Nat]
    BY TypedFacts DEF Typed
  <1>2. /\ exec' \in Executors /\ pc' \in Places
        /\ results' \in Seq(Statuses) /\ reported' \in Nat
        /\ Where'
    BY <1>1, ExecutorFacts, AskedFacts, CheckEnds DEF Typed
  <1> QED BY <1>2, Alone, TypeKept, TypedFacts DEF Typed

\* What writes without being waited for writes files.
LEMMA LateWriteTyped ==
  ASSUME Typed, NEW a \in 1..attempt, UNCHANGED <<files, late>> \/ WritesLate(a)
  PROVE  out' \in File /\ alias' \in File /\ late' \in BOOLEAN
  <1>1. a \in 1..MaxAttempts
    BY TypedFacts, Positive DEF Typed
  <1>2. Written(a) \subseteq File
    BY <1>1, WrittenIsFile
  <1> QED BY <1>2, Alone, TypedFacts DEF WritesLate, Typed

LEMMA LingersTyped ==
  ASSUME Typed, AtWork, NEW more \in SUBSET {attempt}, lingering' = lingering \cup more
  PROVE  lingering' \subseteq 1..attempt
  <1>1. attempt \in 1..attempt
    BY AttemptAtWork, Positive
  <1> QED BY <1>1, TypedFacts DEF Typed

LEMMA ChecksTyped ==
  ASSUME Typed, \/ CheckUnknown \/ CheckOutput \/ CheckFile \/ CheckByProcess
                \/ CheckRunsOn \/ ModelDoesNotJudge
  PROVE  Typed'
  <1>1. CASE CheckUnknown
    BY <1>1, Alone, TypedFacts, CheckTyped DEF CheckUnknown, InChecks, Typed
  <1>2. CASE CheckOutput
    <2>1. (exec.output = "good") \in BOOLEAN
      OBVIOUS
    <2>2. InChecks /\ Verdict(exec.output = "good", exec, total)
      BY <1>2 DEF CheckOutput, InChecks
    <2> QED BY <1>2, <2>1, <2>2, Alone, TypedFacts, CheckTyped DEF CheckOutput, Typed
  <1>3. CASE CheckFile
    <2>1. (out.data = "good") \in BOOLEAN
      OBVIOUS
    <2>2. InChecks /\ Verdict(out.data = "good", exec, total) /\ seen' \subseteq File
      BY <1>3, TypedFacts DEF CheckFile, InChecks, Typed
    <2> QED BY <1>3, <2>1, <2>2, Alone, TypedFacts, CheckTyped DEF CheckFile, Typed
  <1>4. CASE CheckByProcess
    <2>1. PICK ok \in BOOLEAN : Verdict(ok, exec, total)
      BY <1>4 DEF CheckByProcess
    <2>2. /\ InChecks /\ AtWork
          /\ UNCHANGED <<node, attempt, lingering, tokens, current, others, before, wrote, seen>>
          /\ UNCHANGED <<files, late>> \/ WritesLate(attempt)
      BY <1>4 DEF CheckByProcess, ProcessRuns, InChecks, AtWork, seenSoFar
    <2>3. attempt \in 1..attempt
      BY <2>2, AttemptAtWork, Positive
    <2>4. out' \in File /\ alias' \in File /\ late' \in BOOLEAN
      BY <2>2, <2>3, LateWriteTyped
    <2> QED BY <2>1, <2>2, <2>4, TypedFacts, CheckTyped DEF Typed
  <1>5. CASE ModelDoesNotJudge
    BY <1>5, Alone, TypedFacts, CheckTyped DEF ModelDoesNotJudge, InChecks, Typed
  <1>6. CASE CheckRunsOn
    <2>1. /\ InChecks /\ AtWork /\ Verdict(FALSE, exec, total)
          /\ lingering' = lingering \cup {attempt}
          /\ UNCHANGED <<node, attempt, files, tokens, current, others, seenSoFar>>
      BY <1>6 DEF CheckRunsOn, ProcessRuns, InChecks, AtWork
    <2>2. lingering' \subseteq 1..attempt
      BY <2>1, LingersTyped
    <2> QED BY <2>1, <2>2, Alone, TypedFacts, CheckTyped DEF Typed
  <1> QED BY <1>1, <1>2, <1>3, <1>4, <1>5, <1>6

LEMMA CheckFileFailsTyped == ASSUME Typed, CheckFileFails PROVE Typed'
  <1>1. /\ pc = "checking" /\ Fail
        /\ UNCHANGED <<node, attempt, exec, files, lingering, tokens, current, others,
                       seenSoFar>>
    BY DEF CheckFileFails
  <1>2. AtWork
    BY <1>1 DEF AtWork
  <1>3. exec' \in Executors
    BY <1>1, ExecutorFacts DEF Typed
  <1> QED BY <1>1, <1>2, <1>3, Alone, FailTyped, TypedFacts DEF Typed

LEMMA ModelJudgesTyped == ASSUME Typed, ModelJudges PROVE Typed'
  <1>1. /\ Answered /\ exec.check > 0
        /\ UNCHANGED <<node, attempt, files, lingering, current, others, seenSoFar>>
    BY DEF ModelJudges
  <1>2. PICK ok \in BOOLEAN : Verdict(ok, Asked, total')
    BY DEF ModelJudges
  <1>3. total' \in [1..current -> Nat] /\ own' \in [1..current -> Nat] /\ InChecks
    BY <1>1, AnsweredFacts DEF Typed, InChecks
  <1>4. /\ exec' \in Executors /\ pc' \in Places
        /\ results' \in Seq(Statuses) /\ reported' \in Nat
        /\ Where'
    BY <1>1, <1>2, <1>3, AskedFacts, CheckEnds DEF Typed
  <1> QED BY <1>1, <1>3, <1>4, Alone, TypeKept, TypedFacts DEF Typed

LEMMA AskModelTyped == ASSUME Typed, AskModel PROVE Typed'
  <1>1. /\ pc = "checking" /\ Check.looks = "model" /\ ~Unknown("model") /\ pc' = "asking"
        /\ UNCHANGED <<node, attempt, exec, files, lingering, tokens, current, others,
                       outcomes, seenSoFar>>
    BY DEF AskModel
  <1>2. TypeOK'
    BY <1>1, Alone, TypeKept, TypedFacts, ExecutorFacts DEF Typed, Places
  <1>3. Where'
    <2>1. SameNode /\ Check' = Check
      BY <1>1, NodeStays DEF Check
    <2>2. /\ ExecType \in {"llm_completion", "agent_action"}
          /\ Len(results) = attempt - 1 /\ attempt >= 1 /\ ~NothingToRun
          /\ IsAgent => exec.iteration >= 1
      BY <1>1, AtWorkKinds DEF AtWork, Typed, Unknown, Where
    <2> QED BY <1>1, <2>1, <2>2, Alone DEF Where, SameNode, AtWork, InChecks
  <1> QED BY <1>2, <1>3 DEF Typed

LEMMA StepTimesOutTyped == ASSUME Typed, StepTimesOut PROVE Typed'
  <1>1. /\ Awaits /\ Fail
        /\ lingering' = lingering \cup (IF pc = "asking" THEN {} ELSE {attempt})
        /\ UNCHANGED <<node, attempt, exec, files, tokens, current, others, seenSoFar>>
    BY DEF StepTimesOut
  <1>2. AtWork
    BY <1>1 DEF Awaits, ProcessRuns, AtWork
  <1>3. exec' \in Executors
    BY <1>1, ExecutorFacts DEF Typed
  <1>4. lingering' \subseteq 1..attempt
    <2>1. (IF pc = "asking" THEN {} ELSE {attempt}) \in SUBSET {attempt}
      OBVIOUS
    <2> QED BY <1>1, <1>2, <2>1, LingersTyped
  <1> QED BY <1>1, <1>2, <1>3, <1>4, Alone, FailTyped, TypedFacts DEF Typed

\* Nothing that places an attempt changes.
LEMMA WhereStays ==
  ASSUME Where, UNCHANGED <<node, pc, attempt, exec, results>>
  PROVE  Where'
  <1>1. /\ SameNode /\ Check' = Check /\ AtWork' = AtWork /\ InChecks' = InChecks
        /\ LimitReached' = LimitReached
    BY NodeStays DEF Check, AtWork, InChecks, LimitReached
  <1> QED BY <1>1 DEF Where, SameNode

LEMMA StragglerTyped == ASSUME Typed, NEW a \in lingering, Straggler(a) PROVE Typed'
  <1>1. /\ lingering' \in {lingering, lingering \ {a}}
        /\ UNCHANGED <<files, late>> \/ WritesLate(a)
        /\ UNCHANGED <<node, pc, attempt, exec, tokens, current, others, outcomes,
                       before, wrote, seen>>
    BY DEF Straggler
  <1>2. lingering' \subseteq 1..attempt /\ a \in 1..attempt
    BY <1>1, TypedFacts DEF Typed
  <1>3. out' \in File /\ alias' \in File /\ late' \in BOOLEAN
    BY <1>1, <1>2, LateWriteTyped
  <1> QED BY <1>1, <1>2, <1>3, Alone, TypeKept, WhereStays, TypedFacts, ExecutorFacts
          DEF Typed

LEMMA OtherTaskAsksTyped == ASSUME Typed, OtherTaskAsks PROVE Typed'
  <1>1. /\ others < MaxOthers /\ others' = others + 1
        /\ total' = [total EXCEPT ![current] = @ + 1]
        /\ UNCHANGED <<node, pc, attempt, exec, files, lingering, current, outcomes,
                       seenSoFar, own>>
    BY DEF OtherTaskAsks
  <1>2. total' \in [1..current -> Nat] /\ others' \in 0..MaxOthers
    BY <1>1, TypedFacts, Positive DEF Typed
  <1>3. TypeOK'
    BY <1>1, <1>2, Alone DEF Typed, TypeOK
  <1> QED BY <1>1, <1>3, Alone, WhereStays DEF Typed

LEMMA OneMoreProvider ==
  ASSUME NEW n \in Nat, NEW f \in [1..n -> Nat]
  PROVE  /\ Append(f, 0) \in [1..(n + 1) -> Nat]
         /\ \A p \in 1..n : Append(f, 0)[p] = f[p]
         /\ Append(f, 0)[n + 1] = 0
  <1>1. f \in Seq(Nat) /\ Len(f) = n
    OBVIOUS
  <1>2. /\ Append(f, 0) \in Seq(Nat) /\ Len(Append(f, 0)) = n + 1
        /\ \A p \in 1..n : Append(f, 0)[p] = f[p]
        /\ Append(f, 0)[n + 1] = 0
    BY <1>1, AppendProperties
  <1>3. Append(f, 0) \in [1..(n + 1) -> Nat]
    BY <1>2, LenProperties, ElementOfSeq
  <1> QED BY <1>2, <1>3

LEMMA ReloadModelTyped == ASSUME Typed, ReloadModel PROVE Typed'
  <1>1. /\ current <= MaxReloads /\ current' = current + 1
        /\ total' = Append(total, 0) /\ own' = Append(own, 0)
        /\ UNCHANGED <<node, pc, attempt, exec, files, lingering, others, outcomes, seenSoFar>>
    BY DEF ReloadModel
  <1>2. current \in Nat /\ current >= 1
        /\ total \in [1..current -> Nat] /\ own \in [1..current -> Nat]
    BY TypedFacts DEF Typed
  <1>3. current' \in 1..(MaxReloads + 1) /\ exec'.provider \in 1..current'
    BY <1>1, <1>2, ExecutorFacts, Positive DEF Typed
  <1>4. total' \in [1..current' -> Nat] /\ own' \in [1..current' -> Nat]
    BY <1>1, <1>2, OneMoreProvider
  <1>5. exec' \in Executors'
    BY <1>1, <1>3, ExecutorFacts DEF Executors, Typed
  <1>6. TypeOK'
    BY <1>1, <1>3, <1>4, <1>5, Alone DEF Typed, TypeOK, Executors
  <1> QED BY <1>1, <1>6, Alone, WhereStays DEF Typed

LEMMA TypedStep == Typed /\ [Next]_attemptVars => Typed'
  <1> SUFFICES ASSUME Typed, [Next]_attemptVars PROVE Typed'
    OBVIOUS
  <1>1. CASE Proceed
    BY <1>1, BeginTyped, ScriptFailsTyped, ScriptEndsTyped, ScriptDiesTyped, CompleteTyped,
       AgentAnsweredTyped, TryAgainTyped, RequestFailsTyped, ToolRefusedTyped,
       ToolStartsTyped, ToolEndsTyped, NextIterationTyped, IterationsUsedUpTyped,
       ChecksTyped, CheckFileFailsTyped, AskModelTyped, ModelJudgesTyped DEF Proceed
  <1>2. CASE UNCHANGED attemptVars
    <2>1. TypeOK'
      BY <1>2 DEF attemptVars, Typed, TypeOK
    <2> QED BY <1>2, <2>1, WhereStays DEF attemptVars, Typed
  <1> QED BY <1>1, <1>2, StepTimesOutTyped, OtherTaskAsksTyped, ReloadModelTyped,
             StragglerTyped DEF Next

LEMMA AlwaysTyped == AttemptsSpec => []Typed
  BY InitTyped, TypedStep, PTL DEF AttemptsSpec
----------------------------------------------------------------------------
(* What an attempt wrote, and what its checks read.                        *)

FreshWrites ==
  ~late => /\ "out" \in wrote => out.by = attempt /\ out.data # "none"
           /\ "alias" \in wrote => node.alias /\ alias.by = attempt

SeenIsOut == ~late => seen \subseteq {out}

OwnOut ==
  ~late /\ wrote # {} => out.by = attempt \/ (wrote = {"alias"} /\ before # Nothing)

SeenGood == \E file \in seen : file.data = "good"

LEMMA InitData == Init => DataInv
  <1> SUFFICES ASSUME Init PROVE DataInv
    OBVIOUS
  <1>1. /\ pc = "idle" /\ seen = {} /\ wrote = {} /\ ~InDialogue /\ ~InChecks
    BY DEF Init, InDialogue, InChecks
  <1> QED BY <1>1 DEF DataInv, WrittenHere, ChecksSeeTheAttempt, DataSeen

\* Neither the files nor what was read of them changes, and the attempt does
\* not move on to its checks.
LEMMA DataStays ==
  ASSUME Typed, DataInv, UNCHANGED <<node, attempt, files, seenSoFar>>,
         InChecks' => /\ InChecks /\ exec'.check = exec.check
                      /\ exec'.passed = exec.passed /\ exec'.output = exec.output,
         InDialogue' => InDialogue,
         pc' = "script" => pc = "script", pc' = "passed" => pc = "passed"
  PROVE  DataInv'
  <1>1. /\ out' = out /\ alias' = alias /\ before' = before /\ wrote' = wrote
        /\ seen' = seen /\ late' = late /\ SameNode /\ node' = node /\ attempt' = attempt
    BY Alone, NodeStays
  <1>2. WrittenHere'
    BY <1>1 DEF WrittenHere, DataInv
  <1>3. ChecksSeeTheAttempt'
    BY <1>1 DEF ChecksSeeTheAttempt, DataInv
  <1>4. DataSeen'
    <2>1. InDialogue' => seen' = {}
      BY <1>1 DEF DataInv, DataSeen
    <2>2. InDialogue' /\ ~IsAgent' => wrote' = {}
      BY <1>1 DEF DataInv, DataSeen, SameNode
    <2>3. ~late' => seen' \subseteq {out'}
      BY <1>1 DEF DataInv, DataSeen
    <2>4. InChecks' /\ exec'.passed => Looked(exec.check)'
      BY <1>1 DEF DataInv, DataSeen, Looked
    <2>5. InChecks' /\ ExecType' = "pure_code" =>
            \E file \in seen' : file.data = exec'.output
      BY <1>1 DEF DataInv, DataSeen, SameNode
    <2>6. pc' = "passed" /\ ~NothingToRun' /\ ExecType' # "system_check" =>
            Looked(Len(node.checks) + 1)'
      BY <1>1 DEF DataInv, DataSeen, SameNode, Looked
    <2> QED BY <2>1, <2>2, <2>3, <2>4, <2>5, <2>6 DEF DataSeen
  <1> QED BY <1>2, <1>3, <1>4 DEF DataInv

LEMMA SeenOwn ==
  ASSUME TypeOK', SeenIsOut', OwnOut'
  PROVE  ChecksSeeTheAttempt'
  BY DEF ChecksSeeTheAttempt, SeenIsOut, OwnOut

LEMMA DataRests ==
  ASSUME FreshWrites', SeenIsOut', ChecksSeeTheAttempt', pc' \in Resting,
         pc' = "passed" /\ ~NothingToRun' /\ ExecType' # "system_check" =>
           Looked(Len(node.checks) + 1)'
  PROVE  DataInv'
  <1>1. ~InDialogue' /\ ~InChecks'
    BY DEF InDialogue, InChecks, Resting
  <1>2. WrittenHere'
    BY <1>1 DEF FreshWrites, WrittenHere
  <1>3. DataSeen'
    BY <1>1 DEF SeenIsOut, DataSeen
  <1> QED BY <1>2, <1>3 DEF DataInv

LEMMA DataChecks ==
  ASSUME TypeOK', FreshWrites', SeenIsOut', OwnOut', pc' = "checking",
         exec'.passed => Looked(exec.check)',
         ExecType' = "pure_code" => \E file \in seen' : file.data = exec'.output
  PROVE  DataInv'
  <1>1. ~InDialogue' /\ pc' # "passed"
    BY DEF InDialogue
  <1>2. WrittenHere'
    BY <1>1 DEF FreshWrites, WrittenHere, OwnOut
  <1>3. DataSeen'
    BY <1>1 DEF SeenIsOut, DataSeen
  <1> QED BY <1>2, <1>3, SeenOwn DEF DataInv

LEMMA DataChecksBegin ==
  ASSUME Typed, Typed', AtWork, node' = node, NEW executor \in Executors, NEW usage \in Nat,
         RunChecks(executor, usage),
         FreshWrites', SeenIsOut', OwnOut',
         ExecType = "pure_code" => \E file \in seen' : file.data = executor.output
  PROVE  DataInv'
  <1>1. SameNode /\ TypeOK'
    BY NodeStays DEF Typed
  <1>2. CASE node.checks = <<>> /\ Settle("success", usage)
    <2>1. pc' \in Resting
      BY <1>2, SettleFacts DEF Typed, Statuses, Resting
    <2>2. DOMAIN node'.checks = {}
      BY <1>2
    <2>3. Looked(Len(node.checks) + 1)'
      BY <2>2 DEF Looked
    <2>4. ChecksSeeTheAttempt'
      BY <1>1, SeenOwn
    <2> QED BY <2>1, <2>3, <2>4, DataRests
  <1>3. CASE /\ exec' = [executor EXCEPT !.check = 1, !.tries = 0, !.usage = usage]
             /\ pc' = "checking"
    <2>1. exec'.check = 1 /\ exec'.output = executor.output
      BY <1>3 DEF Executors
    <2>2. DOMAIN node'.checks \subseteq Nat \ {0}
      <3>1. DOMAIN node.checks = 1..Len(node.checks) /\ Len(node.checks) \in Nat
        BY NodeFacts, TypedFacts DEF Typed
      <3> QED BY <3>1
    <2>3. Looked(exec.check)'
      BY <2>1, <2>2 DEF Looked
    <2>4. ExecType' = "pure_code" => \E file \in seen' : file.data = exec'.output
      BY <1>1, <2>1 DEF SameNode
    <2> QED BY <1>1, <1>3, <2>3, <2>4, DataChecks
  <1> QED BY <1>2, <1>3, RunChecksFacts DEF Typed

LEMMA DataCheckEnds ==
  ASSUME Typed, Typed', DataInv, InChecks,
         UNCHANGED <<node, attempt, before, wrote>>,
         UNCHANGED <<files, late>> \/ late' = TRUE,
         seen \subseteq seen', seen' \subseteq seen \cup {out},
         NEW ok \in BOOLEAN, NEW executor \in Executors, NEW count \in [1..current -> Nat],
         executor.check = exec.check, executor.output = exec.output,
         Verdict(ok, executor, count),
         ok /\ Check.hard /\ Check.looks \in {"file", "output"} => SeenGood'
  PROVE  DataInv'
  <1>1. SameNode /\ TypeOK' /\ node' = node
        /\ before' = before /\ wrote' = wrote /\ attempt' = attempt
        /\ ((out' = out /\ alias' = alias /\ late' = late) \/ late' = TRUE)
    BY NodeStays, Alone DEF Typed
  <1>2. exec.check > 0 /\ exec.check \in 1..Len(node.checks) /\ Len(node.checks) \in Nat
        /\ DOMAIN node.checks = 1..Len(node.checks)
    <2>1. exec.check > 0
      BY DEF InChecks, Typed, Where
    <2> QED BY <2>1, ExecutorFacts, NodeFacts, TypedFacts DEF Typed
  <1>3. FreshWrites' /\ SeenIsOut'
    BY <1>1 DEF FreshWrites, SeenIsOut, DataInv, WrittenHere, DataSeen
  <1>4. OwnOut'
    <2>1. OwnOut
      BY TypedFacts DEF OwnOut, DataInv, WrittenHere, Typed
    <2> QED BY <1>1, <2>1 DEF OwnOut
  <1>5. ASSUME StillPasses(ok), NEW i \in DOMAIN node.checks,
               i < exec.check + 1, node.checks[i].hard,
               node.checks[i].looks \in {"file", "output"}
        PROVE  SeenGood'
    <2>1. exec.passed /\ (ok \/ ~Check.hard)
      BY <1>5 DEF StillPasses
    <2>2. CASE i = exec.check
      BY <1>5, <2>1, <2>2 DEF Check
    <2>3. CASE i # exec.check
      <3>1. i < exec.check
        BY <1>2, <1>5, <2>3
      <3>2. Looked(exec.check)
        BY <2>1 DEF DataInv, DataSeen
      <3> QED BY <1>5, <3>1, <3>2 DEF Looked, SeenGood
    <2> QED BY <2>2, <2>3
  <1>6. CASE /\ exec.check = Len(node.checks)
             /\ Settle(IF StillPasses(ok) THEN "success" ELSE "partial",
                       IF IsAgent THEN Usage(count) ELSE exec.usage)
             /\ pc' = "passed" => StillPasses(ok)
             /\ (IF IsAgent THEN Usage(count) ELSE exec.usage) \in Nat
    <2>1. pc' \in Resting
      <3>1. (IF StillPasses(ok) THEN "success" ELSE "partial") \in Statuses
        BY DEF Statuses
      <3> QED BY <1>6, <3>1, SettleFacts DEF Typed, Resting
    <2>2. pc' = "passed" => Looked(Len(node.checks) + 1)'
      BY <1>1, <1>5, <1>6 DEF Looked, SeenGood
    <2>3. ChecksSeeTheAttempt'
      BY <1>1, <1>3, <1>4, SeenOwn
    <2> QED BY <1>3, <2>1, <2>2, <2>3, DataRests
  <1>7. CASE /\ exec' = [executor EXCEPT !.passed = StillPasses(ok), !.check = exec.check + 1,
                                         !.tries = 0]
             /\ pc' = "checking"
    <2>1. /\ exec'.check = exec.check + 1 /\ exec'.output = exec.output
          /\ exec'.passed = StillPasses(ok)
      BY <1>7 DEF Executors
    <2>2. exec'.passed => Looked(exec.check)'
      BY <1>1, <1>5, <2>1 DEF Looked, SeenGood
    <2>3. ExecType' = "pure_code" => \E file \in seen' : file.data = exec'.output
      BY <1>1, <2>1 DEF SameNode, DataInv, DataSeen
    <2> QED BY <1>1, <1>3, <1>4, <1>7, <2>2, <2>3, DataChecks
  <1> QED BY <1>2, <1>6, <1>7, VerdictFacts DEF Typed

LEMMA BeginData == ASSUME Typed, Typed', Begin PROVE DataInv'
  <1>1. /\ before' = out /\ wrote' = {} /\ seen' = {} /\ exec'.check = 0
        /\ UNCHANGED <<node, files>>
    BY DEF Begin, NewExecutor
  <1>2. out' = out /\ SameNode
    BY <1>1, Alone, NodeStays
  <1>3. pc' \in {"script", "asking", "passed", "exhausted"}
    BY DEF Begin
  <1>4. ~InChecks'
    BY <1>1, <1>3 DEF InChecks
  <1>5. pc' = "passed" => NothingToRun' \/ ExecType' = "system_check"
    <2>1. ExecType # "human_review"
      BY NodeFacts, TypedFacts DEF Typed
    <2> QED BY <1>2, <2>1 DEF Begin, SameNode
  <1>6. WrittenHere' /\ ChecksSeeTheAttempt'
    BY <1>1, <1>2, <1>4 DEF WrittenHere, ChecksSeeTheAttempt
  <1>7. DataSeen'
    BY <1>1, <1>4, <1>5 DEF DataSeen
  <1> QED BY <1>6, <1>7 DEF DataInv

\* The script left a file, of its own or not.
LEMMA ReadData ==
  ASSUME Typed, Typed', DataInv, pc = "script", NEW file \in File, file = out',
         ReadScriptOutput(file),
         UNCHANGED <<node, attempt, alias, late>>,
         \/ wrote' = {"out"} /\ file.by = attempt /\ file.data # "none"
         \/ wrote' = {}
  PROVE  DataInv'
  <1>1. seen' = {file} /\ AtWork /\ node' = node /\ attempt' = attempt
    BY DEF ReadScriptOutput, AtWork
  <1>2. FreshWrites' /\ SeenIsOut' /\ OwnOut'
    BY <1>1 DEF FreshWrites, SeenIsOut, OwnOut
  <1>3. CASE Fail
    <2>1. pc' \in Resting /\ pc' # "passed"
      BY <1>1, <1>3, FailFacts DEF Typed
    <2>2. ChecksSeeTheAttempt'
      BY <1>2, SeenOwn DEF Typed
    <2> QED BY <1>2, <2>1, <2>2, DataRests
  <1>4. CASE file.data \notin {"none", "failed"}
             /\ RunChecks([exec EXCEPT !.output = file.data], 0)
    <2>1. file.data \in {"good", "bad"}
      BY <1>4 DEF File
    <2> DEFINE executor == [exec EXCEPT !.output = file.data]
    <2>2. executor \in Executors /\ executor.output = file.data
      BY <2>1, ExecutorFacts DEF Executors, Typed
    <2> HIDE DEF executor
    <2>3. RunChecks(executor, 0)
      BY <1>4 DEF executor
    <2>4. \E f \in seen' : f.data = executor.output
      BY <1>1, <2>2
    <2> QED BY <1>1, <1>2, <2>2, <2>3, <2>4, DataChecksBegin
  <1> QED BY <1>3, <1>4 DEF ReadScriptOutput

LEMMA ScriptEndsData == ASSUME Typed, Typed', DataInv, ScriptEnds PROVE DataInv'
  <1>1. /\ pc = "script" /\ out' \in Written(attempt) /\ ReadScriptOutput(out')
        /\ wrote' = {"out"}
        /\ UNCHANGED <<node, attempt, alias, late>>
    BY DEF ScriptEnds
  <1>2. out' \in File /\ out'.by = attempt /\ out'.data # "none"
    BY <1>1, AttemptAtWork, WrittenIsFile DEF AtWork
  <1> QED BY <1>1, <1>2, ReadData

LEMMA ScriptDiesData == ASSUME Typed, Typed', DataInv, ScriptDies PROVE DataInv'
  <1>1. /\ pc = "script" /\ ReadScriptOutput(out)
        /\ UNCHANGED <<node, attempt, files, wrote, late>>
    BY DEF ScriptDies
  <1>2. out \in File /\ out' = out /\ alias' = alias
    BY <1>1, Alone, TypedFacts DEF Typed
  <1>3. wrote' = {}
    <2>1. InDialogue /\ ~IsAgent
      BY <1>1 DEF InDialogue, Typed, Where, IsAgent
    <2> QED BY <1>1, <2>1 DEF DataInv, DataSeen
  <1> QED BY <1>1, <1>2, <1>3, ReadData

\* Agents and completions ask, scripts do not.
LEMMA AskingKinds ==
  ASSUME Typed, pc = "asking" \/ pc = "tools"
  PROVE  ExecType # "pure_code" /\ AtWork
  BY DEF Typed, Where, AtWork, IsAgent

LEMMA CompleteData == ASSUME Typed, Typed', DataInv, Complete PROVE DataInv'
  <1>1. /\ Answered /\ exec.check = 0 /\ ~IsAgent
        /\ UNCHANGED <<node, attempt, alias, before, seen, late>>
    BY DEF Complete
  <1>2. AtWork /\ ExecType # "pure_code" /\ seen = {} /\ wrote = {}
    BY <1>1, AskingKinds DEF Answered, DataInv, DataSeen, InDialogue
  <1>3. FreshWrites' /\ SeenIsOut' /\ OwnOut'
    <2>1. CASE out' \in Written(attempt) /\ wrote' = {"out"}
      <3>1. out'.by = attempt /\ out'.data # "none"
        BY <1>2, <2>1, AttemptAtWork, WrittenIsFile
      <3> QED BY <1>1, <1>2, <2>1, <3>1 DEF FreshWrites, SeenIsOut, OwnOut
    <2>2. CASE UNCHANGED <<out, wrote>>
      BY <1>1, <1>2, <2>2 DEF FreshWrites, SeenIsOut, OwnOut
    <2> QED BY <2>1, <2>2 DEF Complete
  <1>4. CASE RunChecks(Asked, Usage(total'))
    <2>1. Usage(total') \in Nat
      BY <1>1, AnsweredFacts DEF Typed
    <2> QED BY <1>1, <1>2, <1>3, <1>4, <2>1, AskedFacts, DataChecksBegin DEF Typed
  <1>5. CASE Fail
    <2>1. pc' \in Resting /\ pc' # "passed"
      BY <1>1, <1>2, <1>5, FailFacts DEF Typed
    <2>2. ChecksSeeTheAttempt'
      BY <1>3, SeenOwn DEF Typed
    <2> QED BY <1>3, <2>1, <2>2, DataRests
  <1> QED BY <1>4, <1>5 DEF Complete

\* The dialogue is over: a misnamed file takes its place.
LEMMA DialogueEndsData ==
  ASSUME Typed, Typed', DataInv, InDialogue, pc \in {"asking", "tools"}, out' = Normalized,
         UNCHANGED <<node, attempt, alias, seenSoFar>>,
         NEW executor \in Executors, NEW usage \in Nat, RunChecks(executor, usage)
  PROVE  DataInv'
  <1>1. /\ before' = before /\ wrote' = wrote /\ seen' = seen /\ late' = late
        /\ seen = {} /\ attempt' = attempt /\ node' = node /\ alias' = alias
    BY Alone DEF DataInv, DataSeen
  <1>2. AtWork /\ ExecType # "pure_code"
    BY AskingKinds
  <1>3. wrote \subseteq {"out", "alias"}
    BY TypedFacts DEF Typed
  <1>4. ASSUME ~late, "out" \in wrote
        PROVE  out' = out /\ out.by = attempt /\ out.data # "none"
    BY <1>4 DEF DataInv, WrittenHere, Normalized
  <1>5. ASSUME ~late, wrote = {"alias"}, before = Nothing PROVE out'.by = attempt
    <2>1. out = before /\ node.alias /\ alias.by = attempt
      BY <1>5 DEF DataInv, WrittenHere
    <2>2. out.data = "none"
      BY <1>5, <2>1 DEF Nothing
    <2> QED BY <2>1, <2>2 DEF Normalized
  <1>6. FreshWrites'
    BY <1>1, <1>4 DEF FreshWrites, DataInv, WrittenHere
  <1>7. SeenIsOut'
    BY <1>1 DEF SeenIsOut
  <1>8. OwnOut'
    BY <1>1, <1>3, <1>4, <1>5 DEF OwnOut
  <1> QED BY <1>1, <1>2, <1>6, <1>7, <1>8, DataChecksBegin

LEMMA AgentAnsweredData == ASSUME Typed, Typed', DataInv, AgentAnswered PROVE DataInv'
  <1>1. /\ Answered /\ IsAgent /\ exec.check = 0
        /\ UNCHANGED <<node, attempt, alias, seenSoFar>>
    BY DEF AgentAnswered
  <1>2. InDialogue /\ pc = "asking"
    BY <1>1 DEF Answered, InDialogue
  <1>3. CASE pc' = "tools" /\ UNCHANGED <<out, outcomes>>
    BY <1>1, <1>2, <1>3, DataStays DEF InChecks, files
  <1>4. CASE out' = Normalized /\ RunChecks(Asked, Usage(total'))
    <2>1. Usage(total') \in Nat
      BY <1>1, AnsweredFacts DEF Typed
    <2> QED BY <1>1, <1>2, <1>4, <2>1, AskedFacts, DialogueEndsData DEF Typed
  <1> QED BY <1>3, <1>4 DEF AgentAnswered

LEMMA IterationsUsedUpData == ASSUME Typed, Typed', DataInv, IterationsUsedUp PROVE DataInv'
  <1>1. /\ pc = "tools" /\ out' = Normalized /\ RunChecks(exec, Usage(total))
        /\ UNCHANGED <<node, attempt, alias, seenSoFar>>
    BY DEF IterationsUsedUp
  <1>2. InDialogue /\ exec \in Executors /\ Usage(total) \in Nat
    BY <1>1, ExecutorFacts, TypedFacts, UsageIsNat DEF InDialogue, Typed
  <1> QED BY <1>1, <1>2, DialogueEndsData

LEMMA ToolEndsData == ASSUME Typed, Typed', DataInv, ToolEnds PROVE DataInv'
  <1>1. /\ pc = "running" /\ ToolWrites /\ pc' = "tools"
        /\ UNCHANGED <<node, attempt, before, seen, late>>
    BY DEF ToolEnds
  <1>2. InDialogue /\ InDialogue' /\ ~InChecks' /\ seen = {} /\ IsAgent'
    <2>1. IsAgent /\ SameNode
      BY <1>1, NodeStays DEF Typed, Where
    <2> QED BY <1>1, <2>1 DEF InDialogue, InChecks, DataInv, DataSeen, SameNode
  <1>3. ASSUME NEW file \in Written(attempt) PROVE file.by = attempt /\ file.data # "none"
    BY <1>1, AttemptAtWork, WrittenIsFile DEF AtWork
  <1>4. WrittenHere'
    <2>1. CASE UNCHANGED <<files, wrote>>
      BY <1>1, <1>2, <2>1, Alone DEF WrittenHere, DataInv
    <2>2. CASE out' \in Written(attempt) /\ wrote' = wrote \cup {"out"} /\ UNCHANGED alias
      <3>1. out'.by = attempt /\ out'.data # "none"
        BY <1>3, <2>2
      <3> QED BY <1>1, <1>2, <2>2, <3>1 DEF WrittenHere, DataInv
    <2>3. CASE /\ node.alias /\ alias' \in Written(attempt)
               /\ wrote' = wrote \cup {"alias"} /\ UNCHANGED out
      <3>1. alias'.by = attempt
        BY <1>3, <2>3
      <3> QED BY <1>1, <1>2, <2>3, <3>1 DEF WrittenHere, DataInv
    <2> QED BY <1>1, <2>1, <2>2, <2>3 DEF ToolWrites
  <1>5. ChecksSeeTheAttempt'
    BY <1>1, <1>2 DEF ChecksSeeTheAttempt
  <1>6. DataSeen'
    BY <1>1, <1>2 DEF DataSeen
  <1> QED BY <1>4, <1>5, <1>6 DEF DataInv

\* A check that leaves the record of what was read as it is.
LEMMA OtherCheckData ==
  ASSUME Typed, Typed', DataInv, InChecks,
         UNCHANGED <<node, attempt, before, wrote, seen>>,
         UNCHANGED <<files, late>> \/ late' = TRUE,
         NEW ok \in BOOLEAN, NEW executor \in {exec, Asked}, NEW count \in [1..current -> Nat],
         Verdict(ok, executor, count),
         ok /\ Check.looks \in {"file", "output"} => SeenGood
  PROVE  DataInv'
  <1>1. /\ before' = before /\ wrote' = wrote /\ seen' = seen
    OBVIOUS
  <1>2. executor \in Executors /\ executor.check = exec.check /\ executor.output = exec.output
    BY AskedFacts, ExecutorFacts DEF Typed, Executors
  <1>3. SeenGood' <=> SeenGood
    BY <1>1 DEF SeenGood
  <1> QED BY <1>1, <1>2, <1>3, DataCheckEnds

LEMMA ChecksData ==
  ASSUME Typed, Typed', DataInv,
         \/ CheckUnknown \/ CheckOutput \/ CheckFile \/ CheckByProcess
         \/ CheckRunsOn \/ ModelJudges \/ ModelDoesNotJudge
  PROVE  DataInv'
  <1>1. total \in [1..current -> Nat] /\ exec \in {exec, Asked} /\ Asked \in {exec, Asked}
    BY TypedFacts DEF Typed
  <1>2. CASE CheckUnknown
    <2>1. InChecks /\ Verdict(FALSE, exec, total)
          /\ UNCHANGED <<node, attempt, files, seenSoFar>>
      BY <1>2 DEF CheckUnknown, InChecks
    <2> QED BY <1>1, <2>1, OtherCheckData, Alone
  <1>3. CASE CheckOutput
    <2>1. /\ InChecks /\ Verdict(exec.output = "good", exec, total)
          /\ ExecType = "pure_code"
          /\ UNCHANGED <<node, attempt, files, seenSoFar>>
      BY <1>3 DEF CheckOutput, InChecks, Unknown
    <2>2. exec.output = "good" => SeenGood
      BY <2>1 DEF DataInv, DataSeen, SeenGood
    <2>3. (exec.output = "good") \in BOOLEAN
      OBVIOUS
    <2> QED BY <1>1, <2>1, <2>2, <2>3, OtherCheckData, Alone
  <1>4. CASE CheckFile
    <2>1. /\ InChecks /\ Verdict(out.data = "good", exec, total)
          /\ seen' = seen \cup {out}
          /\ UNCHANGED <<node, attempt, files, before, wrote, late>>
      BY <1>4 DEF CheckFile, InChecks
    <2>2. out.data = "good" => SeenGood'
      BY <2>1 DEF SeenGood
    <2>3. (out.data = "good") \in BOOLEAN
      OBVIOUS
    <2>4. exec \in Executors
      BY ExecutorFacts DEF Typed
    <2> QED BY <1>1, <2>1, <2>2, <2>3, <2>4, DataCheckEnds
  <1>5. CASE CheckByProcess
    <2>1. /\ InChecks /\ Check.looks = "exec" /\ \E ok \in BOOLEAN : Verdict(ok, exec, total)
          /\ UNCHANGED <<node, attempt, before, wrote, seen>>
          /\ UNCHANGED <<files, late>> \/ late' = TRUE
      BY <1>5, Alone DEF CheckByProcess, ProcessRuns, WritesLate, InChecks
    <2> QED BY <1>1, <2>1, OtherCheckData
  <1>8. CASE CheckRunsOn
    <2>1. /\ InChecks /\ Check.looks = "exec" /\ Verdict(FALSE, exec, total)
          /\ UNCHANGED <<node, attempt, files, seenSoFar>>
      BY <1>8 DEF CheckRunsOn, ProcessRuns, InChecks
    <2> QED BY <1>1, <2>1, OtherCheckData, Alone
  <1>6. CASE ModelJudges
    <2>1. /\ Answered /\ exec.check > 0 /\ \E ok \in BOOLEAN : Verdict(ok, Asked, total')
          /\ UNCHANGED <<node, attempt, files, seenSoFar>>
      BY <1>6 DEF ModelJudges
    <2>2. InChecks /\ Check.looks = "model" /\ total' \in [1..current -> Nat]
      BY <2>1, AnsweredFacts DEF Answered, InChecks, Typed, Where
    <2> QED BY <1>1, <2>1, <2>2, OtherCheckData, Alone
  <1>7. CASE ModelDoesNotJudge
    <2>1. /\ pc = "asking" /\ exec.check > 0 /\ Verdict(FALSE, Asked, total)
          /\ UNCHANGED <<node, attempt, files, seenSoFar>>
      BY <1>7 DEF ModelDoesNotJudge
    <2>2. InChecks
      BY <2>1 DEF InChecks
    <2> QED BY <1>1, <2>1, <2>2, OtherCheckData, Alone
  <1> QED BY <1>2, <1>3, <1>4, <1>5, <1>6, <1>7, <1>8

LEMMA StragglerData ==
  ASSUME Typed, DataInv, NEW a \in lingering, Straggler(a)
  PROVE  DataInv'
  <1>1. UNCHANGED <<node, pc, attempt, exec, before, wrote, seen>>
    BY DEF Straggler
  <1>2. CASE UNCHANGED <<files, late>>
    BY <1>1, <1>2, DataStays DEF InChecks, InDialogue, seenSoFar
  <1>3. CASE late' = TRUE
    <2>1. /\ SameNode /\ InChecks' = InChecks /\ InDialogue' = InDialogue
      BY <1>1, NodeStays DEF InChecks, InDialogue
    <2>2. WrittenHere' /\ ChecksSeeTheAttempt'
      BY <1>3 DEF WrittenHere, ChecksSeeTheAttempt
    <2>3. DataSeen'
      BY <1>1, <1>3, <2>1 DEF DataSeen, DataInv, SameNode, Looked
    <2> QED BY <2>2, <2>3 DEF DataInv
  <1> QED BY <1>2, <1>3 DEF Straggler, WritesLate

\* The actions that leave the files, and what was read of them, alone.
LEMMA OtherData ==
  ASSUME Typed, DataInv,
         \/ ScriptRefused \/ ScriptTimesOut \/ TryAgain \/ RequestFails
         \/ ToolRefused \/ ToolStarts \/ NextIteration \/ CheckFileFails \/ AskModel
         \/ StepTimesOut \/ OtherTaskAsks \/ ReloadModel \/ UNCHANGED attemptVars
  PROVE  DataInv'
  <1>1. UNCHANGED <<node, attempt, files, seenSoFar>>
    BY DEF ScriptRefused, ScriptTimesOut, TryAgain, RequestFails, ToolRefused, ToolStarts,
           NextIteration, CheckFileFails, AskModel, StepTimesOut, OtherTaskAsks,
           ReloadModel, attemptVars,
           files, seenSoFar
  <1>2. CASE ScriptRefused \/ ScriptTimesOut \/ RequestFails \/ CheckFileFails \/ StepTimesOut
    <2>1. AtWork /\ Fail
      BY <1>2 DEF ScriptRefused, ScriptTimesOut, RequestFails, CheckFileFails, StepTimesOut,
                  AtWork, Awaits, ProcessRuns
    <2>2. pc' \in {"idle", "exhausted"}
      BY <1>1, <2>1, FailFacts DEF Typed
    <2> QED BY <1>1, <2>2, DataStays DEF InChecks, InDialogue
  <1>3. CASE TryAgain
    <2>1. pc' = pc /\ pc = "asking" /\ exec' = [Asked EXCEPT !.tries = @ + 1]
      BY <1>3 DEF TryAgain
    <2>2. /\ exec'.check = exec.check /\ exec'.passed = exec.passed
          /\ exec'.output = exec.output
      BY <2>1, ExecutorFacts DEF Typed, Asked, Executors
    <2> QED BY <1>1, <2>1, <2>2, DataStays DEF InChecks, InDialogue
  <1>4. CASE ToolRefused \/ ToolStarts \/ NextIteration
    <2>1. pc \in {"tools", "running"} /\ pc' \in {"tools", "running", "asking"}
          /\ exec'.check = exec.check
      BY <1>4, ExecutorFacts DEF ToolRefused, ToolStarts, NextIteration, Typed, Executors
    <2>2. exec.check = 0
      BY <2>1 DEF Typed, Where
    <2> QED BY <1>1, <2>1, <2>2, DataStays DEF InChecks, InDialogue
  <1>5. CASE AskModel
    <2>1. pc = "checking" /\ pc' = "asking" /\ exec' = exec
      BY <1>5 DEF AskModel
    <2>2. exec.check > 0 /\ exec.check \in Nat
      BY <2>1, ExecutorFacts DEF Typed, Where
    <2> QED BY <1>1, <2>1, <2>2, DataStays DEF InChecks, InDialogue
  <1>6. CASE OtherTaskAsks \/ ReloadModel \/ UNCHANGED attemptVars
    <2>1. pc' = pc /\ exec' = exec
      BY <1>6 DEF OtherTaskAsks, ReloadModel, attemptVars
    <2> QED BY <1>1, <2>1, DataStays DEF InChecks, InDialogue
  <1> QED BY <1>2, <1>3, <1>4, <1>5, <1>6

LEMMA DataStep == Typed /\ DataInv /\ [Next]_attemptVars => DataInv'
  <1> SUFFICES ASSUME Typed, DataInv, [Next]_attemptVars PROVE DataInv'
    OBVIOUS
  <1>1. Typed'
    BY TypedStep
  <1>2. CASE Proceed
    BY <1>1, <1>2, BeginData, ScriptEndsData, ScriptDiesData, CompleteData,
       AgentAnsweredData, ToolEndsData, IterationsUsedUpData, ChecksData, OtherData
       DEF Proceed
  <1>3. ASSUME NEW a \in lingering, Straggler(a) PROVE DataInv'
    BY <1>3, StragglerData
  <1> QED BY <1>2, <1>3, OtherData DEF Next

LEMMA AlwaysData == AttemptsSpec => [](Typed /\ DataInv)
  BY InitTyped, InitData, TypedStep, DataStep, PTL DEF AttemptsSpec

(* The checks of an attempt read what it wrote itself, if it wrote at all: *)
(* whatever stragglers of earlier attempts do, whatever the model calls    *)
(* its files, for every node and every number of attempts.                 *)
THEOREM AttemptsAreApart == AttemptsSpec => []AttemptsInvariant
  <1>1. Typed /\ DataInv => AttemptsInvariant
    BY DEF Typed, DataInv, AttemptsInvariant
  <1> QED BY <1>1, AlwaysData, PTL

(* No step passes unless a check that blocks has read good data, and those *)
(* data are what the next step finds unless a straggler wrote.             *)
THEOREM PassedIsEarned == AttemptsSpec => []SuccessIsEarned
  <1>1. Typed /\ DataInv => SuccessIsEarned
    <2> SUFFICES ASSUME Typed, DataInv, pc = "passed", LooksAtData
                 PROVE  /\ \E file \in seen : file.data = "good"
                        /\ seen = {out} \/ late
      BY DEF SuccessIsEarned
    <2>1. Looked(Len(node.checks) + 1)
      BY DEF DataInv, DataSeen, LooksAtData
    <2>2. PICK i \in DOMAIN node.checks :
            node.checks[i].hard /\ node.checks[i].looks \in {"file", "output"}
      BY DEF LooksAtData
    <2>3. i < Len(node.checks) + 1
      <3>1. DOMAIN node.checks = 1..Len(node.checks) /\ Len(node.checks) \in Nat
        BY NodeFacts, TypedFacts DEF Typed
      <3> QED BY <3>1
    <2>4. \E file \in seen : file.data = "good"
      BY <2>1, <2>2, <2>3 DEF Looked
    <2> QED BY <2>4 DEF DataInv, DataSeen
  <1> QED BY <1>1, AlwaysData, PTL
----------------------------------------------------------------------------
(* Rounds with the model, and the requests they may take.                  *)

LEMMA ModelChecksNat ==
  ASSUME node \in Nodes, NEW k
  PROVE  /\ ModelChecksBefore(k) \in Nat
         /\ IsFiniteSet({i \in DOMAIN node.checks : i < k /\ node.checks[i].looks = "model"})
  <1>1. IsFiniteSet(DOMAIN node.checks)
    BY NodeFacts, FS_Interval
  <1>2. {i \in DOMAIN node.checks : i < k /\ node.checks[i].looks = "model"}
          \subseteq DOMAIN node.checks
    OBVIOUS
  <1> QED BY <1>1, <1>2, FS_Subset, FS_CardinalityType DEF ModelChecksBefore

LEMMA ModelChecksGrow ==
  ASSUME node \in Nodes, NEW k \in Nat
  PROVE  /\ ModelChecksBefore(k) <= ModelChecksBefore(k + 1)
         /\ k \in DOMAIN node.checks /\ node.checks[k].looks = "model" =>
              ModelChecksBefore(k + 1) = ModelChecksBefore(k) + 1
         /\ k <= Len(node.checks) + 1 => ModelChecksBefore(k) <= ModelChecks
         /\ ModelChecksBefore(1) = 0
  <1> DEFINE S(n) == {i \in DOMAIN node.checks : i < n /\ node.checks[i].looks = "model"}
  <1>1. /\ DOMAIN node.checks = 1..Len(node.checks) /\ Len(node.checks) \in Nat
    BY NodeFacts
  <1>2. \A n : IsFiniteSet(S(n)) /\ ModelChecksBefore(n) = Cardinality(S(n))
    BY ModelChecksNat DEF ModelChecksBefore
  <1>3. S(k) \subseteq S(k + 1)
    BY <1>1
  <1>4. ASSUME k \in DOMAIN node.checks, node.checks[k].looks = "model"
        PROVE  S(k + 1) = S(k) \cup {k} /\ k \notin S(k)
    BY <1>1, <1>4
  <1>5. k <= Len(node.checks) + 1 => S(k) \subseteq S(Len(node.checks) + 1)
    BY <1>1
  <1>6. S(1) = {}
    BY <1>1
  <1>7. Cardinality(S(k)) <= Cardinality(S(k + 1))
    BY <1>2, <1>3, FS_Subset
  <1>8. ASSUME k \in DOMAIN node.checks, node.checks[k].looks = "model"
        PROVE  Cardinality(S(k + 1)) = Cardinality(S(k)) + 1
    BY <1>2, <1>4, <1>8, FS_AddElement
  <1>9. k <= Len(node.checks) + 1 =>
          Cardinality(S(k)) <= Cardinality(S(Len(node.checks) + 1))
    BY <1>2, <1>5, FS_Subset
  <1>10. Cardinality(S(1)) = 0
    BY <1>6, FS_EmptySet
  <1> HIDE DEF S
  <1> QED BY <1>2, <1>7, <1>8, <1>9, <1>10 DEF ModelChecks

LEMMA Tries ==
  ASSUME NEW a \in Nat, NEW b \in Nat
  PROVE  /\ a * MaxTries \in Nat
         /\ a <= b => a * MaxTries <= b * MaxTries
         /\ (a + 1) * MaxTries = a * MaxTries + MaxTries
  <1>1. MaxTries \in Nat
    BY Positive
  <1>2. a * MaxTries \in Nat /\ (a + 1) * MaxTries = a * MaxTries + MaxTries
    BY <1>1
  <1>3. ASSUME a <= b PROVE a * MaxTries <= b * MaxTries
    <2>1. PICK d \in Nat : b = a + d
      <3>1. b - a \in Nat /\ b = a + (b - a)
        BY <1>3
      <3> QED BY <3>1
    <2>2. b * MaxTries = a * MaxTries + d * MaxTries
      BY <1>1, <2>1
    <2>3. d * MaxTries \in Nat
      BY <1>1
    <2> QED BY <1>2, <2>2, <2>3
  <1> QED BY <1>2, <1>3

LEMMA DialogueNat ==
  ASSUME node \in Nodes
  PROVE  /\ DialogueRounds \in Nat /\ ModelChecks \in Nat /\ DialogueRounds + ModelChecks \in Nat
         /\ IsAgent => DialogueRounds = MaxIterations
         /\ ExecType = "llm_completion" => DialogueRounds = 1
  <1>1. ModelChecks \in Nat
    BY ModelChecksNat DEF ModelChecks
  <1> QED BY <1>1, Positive DEF DialogueRounds, IsAgent

\* What is over leaves room for what goes on.
RoomLeft ==
  /\ RoundsOver \in Nat
  /\ RoundsOver <= DialogueRounds + ModelChecks
  /\ pc = "asking" => RoundsOver + 1 <= DialogueRounds + ModelChecks

LEMMA RoundsRoom == Typed /\ AtWork => RoomLeft
  <1> SUFFICES ASSUME Typed, AtWork PROVE RoomLeft
    OBVIOUS
  <1> USE DEF RoomLeft
  <1>1. node \in Nodes /\ exec.check \in 0..Len(node.checks) /\ Len(node.checks) \in Nat
        /\ exec.iteration \in 0..MaxIterations /\ MaxIterations \in Nat
    BY TypedFacts, ExecutorFacts, Positive DEF Typed
  <1>2. /\ DialogueRounds \in Nat /\ ModelChecks \in Nat
        /\ IsAgent => DialogueRounds = MaxIterations
        /\ ExecType = "llm_completion" => DialogueRounds = 1
    BY <1>1, DialogueNat
  <1>3. CASE exec.check > 0
    <2>1. exec.check \in Nat /\ exec.check + 1 \in Nat /\ exec.check <= Len(node.checks) + 1
          /\ exec.check + 1 <= Len(node.checks) + 1 /\ exec.check \in DOMAIN node.checks
      BY <1>1, <1>3, NodeFacts
    <2>2. ModelChecksBefore(exec.check) <= ModelChecks
          /\ ModelChecksBefore(exec.check + 1) <= ModelChecks
          /\ ModelChecksBefore(exec.check) \in Nat
      BY <1>1, <2>1, ModelChecksGrow, ModelChecksNat
    <2>3. pc = "asking" => ModelChecksBefore(exec.check + 1) = ModelChecksBefore(exec.check) + 1
      <3>1. pc = "asking" => Check.looks = "model"
        BY <1>3 DEF Typed, Where
      <3> QED BY <1>1, <2>1, <3>1, ModelChecksGrow DEF Check
    <2>4. RoundsOver = DialogueRounds + ModelChecksBefore(exec.check)
      BY <1>3 DEF RoundsOver
    <2> QED BY <1>2, <2>2, <2>3, <2>4
  <1>4. CASE ~(exec.check > 0)
    <2>1. IsAgent => exec.iteration >= 1
      BY DEF Typed, Where
    <2>2. pc = "asking" => ExecType = "llm_completion" \/ IsAgent
      BY DEF Typed, Where, IsAgent
    <2>3. CASE ~IsAgent
      BY <1>2, <1>4, <2>2, <2>3 DEF RoundsOver
    <2>4. CASE IsAgent
      BY <1>1, <1>2, <1>4, <2>1, <2>4 DEF RoundsOver
    <2> QED BY <2>3, <2>4
  <1> QED BY <1>3, <1>4

LEMMA RoundsRoomNext == Typed' /\ AtWork' => RoomLeft'
  BY RoundsRoom, PTL

LEMMA ExecutorNext == Typed' => exec' \in Executors' /\ MaxTries - 1 \in Nat
  BY Positive DEF Typed, TypeOK, Executors

LEMMA SameRounds ==
  ASSUME node' = node
  PROVE  DialogueRounds' = DialogueRounds /\ ModelChecks' = ModelChecks
  <1>1. SameNode
    BY NodeStays
  <1> QED BY <1>1 DEF SameNode, DialogueRounds, ModelChecks, ModelChecksBefore

\* Where nothing is asked no try is under way.
NoneTried == exec.requests = 0 \/ exec.tries = 0

LEMMA NoTries == Typed /\ AtWork => pc = "asking" \/ NoneTried
  BY DEF Typed, Where, AtWork, NoneTried

LEMMA NoTriesNext == Typed' /\ AtWork' => (pc = "asking")' \/ NoneTried'
  BY NoTries, PTL

\* While the attempt works, what it sent is bounded by the rounds it has had.
LEMMA RequestsAtWork ==
  ASSUME Typed, Typed', node' = node, AtWork',
         exec'.requests <= RoundsOver' * MaxTries + exec'.tries
  PROVE  RequestsCounted'
  <1> DEFINE all == DialogueRounds + ModelChecks
             r == exec'.requests
             t == exec'.tries
             over == RoundsOver'
  <1>1. /\ over \in Nat /\ over <= all /\ all \in Nat
        /\ pc' = "asking" => over + 1 <= all
    <2>1. RoomLeft'
      BY RoundsRoomNext
    <2>2. all \in Nat
      BY DialogueNat, TypedFacts DEF Typed
    <2> QED BY <2>1, <2>2, SameRounds DEF RoomLeft
  <1>2. r \in Nat /\ t \in Nat /\ t <= MaxTries /\ MaxTries \in Nat
    <2>1. exec'.requests \in Nat /\ exec'.tries \in 0..(MaxTries - 1)
      BY ExecutorNext DEF Executors
    <2> QED BY <2>1, Positive
  <1>3. pc' # "asking" => r = 0 \/ t = 0
    BY NoTriesNext DEF NoneTried
  <1>4. r <= over * MaxTries + t
    OBVIOUS
  <1> HIDE DEF all, r, t, over
  <1>5. r <= all * MaxTries
    <2>1. /\ all * MaxTries \in Nat /\ over * MaxTries \in Nat
          /\ over * MaxTries <= all * MaxTries
      BY <1>1, Tries
    <2>2. CASE pc' = "asking"
      <3>1. (over + 1) * MaxTries <= all * MaxTries
            /\ (over + 1) * MaxTries = over * MaxTries + MaxTries
        BY <1>1, <2>2, Tries
      <3> QED BY <1>2, <1>4, <2>1, <3>1
    <2>3. CASE pc' # "asking"
      BY <1>2, <1>3, <1>4, <2>1, <2>3
    <2> QED BY <2>2, <2>3
  <1> QED BY <1>5, SameRounds DEF RequestsCounted, all, r

LEMMA NoRequests ==
  ASSUME Typed, Typed', node' = node, exec'.requests = 0
  PROVE  RequestsCounted'
  <1>1. exec'.tries \in Nat
    <2>1. exec'.tries \in 0..(MaxTries - 1)
      BY ExecutorNext DEF Executors
    <2> QED BY <2>1, Positive
  <1>2. CASE AtWork'
    <2>1. RoundsOver' \in Nat
      BY <1>2, RoundsRoomNext DEF RoomLeft
    <2>2. RoundsOver' * MaxTries \in Nat
      BY <2>1, Tries
    <2>3. 0 <= RoundsOver' * MaxTries + exec'.tries
      BY <1>1, <2>2
    <2> QED BY <1>2, <2>3, RequestsAtWork
  <1>3. CASE ~AtWork'
    <2>1. DialogueRounds + ModelChecks \in Nat
      BY DialogueNat, TypedFacts DEF Typed
    <2>2. 0 <= (DialogueRounds + ModelChecks) * MaxTries
      BY <2>1, Tries
    <2> QED BY <1>3, <2>2, SameRounds DEF RequestsCounted
  <1> QED BY <1>2, <1>3

\* One step of the attempt: nothing is sent; a round is completed; or a request
\* is tried over.
LEMMA RequestsGoOn ==
  ASSUME Typed, Typed', RequestsCounted, node' = node, AtWork, AtWork',
         NEW sent \in Nat, NEW next \in Nat, sent = exec'.requests, next = RoundsOver',
         \/ /\ sent = exec.requests /\ RoundsOver <= next
            /\ exec.tries = 0 \/ exec'.tries = exec.tries
         \/ sent = exec.requests + 1 /\ RoundsOver + 1 <= next
         \/ sent = exec.requests + 1 /\ RoundsOver = next /\ exec'.tries = exec.tries + 1
  PROVE  RequestsCounted'
  <1> DEFINE over == RoundsOver
             r == exec.requests
             t == exec.tries
             t2 == exec'.tries
  <1>1. over \in Nat
    BY RoundsRoom DEF RoomLeft
  <1>2. r \in Nat /\ t \in Nat /\ t + 1 <= MaxTries /\ MaxTries \in Nat
    <2>1. exec.requests \in Nat /\ exec.tries \in 0..(MaxTries - 1)
      BY ExecutorFacts DEF Typed
    <2> QED BY <2>1, Positive
  <1>3. t2 \in Nat
    <2>1. exec'.tries \in 0..(MaxTries - 1)
      BY ExecutorNext DEF Executors
    <2> QED BY <2>1, Positive
  <1>4. r <= over * MaxTries + t
    BY DEF RequestsCounted
  <1>5. \/ sent = r /\ over <= next /\ (t = 0 \/ t2 = t)
        \/ sent = r + 1 /\ over + 1 <= next
        \/ sent = r + 1 /\ over = next /\ t2 = t + 1
    OBVIOUS
  <1>6. ASSUME sent <= next * MaxTries + t2 PROVE RequestsCounted'
    BY <1>6, RequestsAtWork
  <1> HIDE DEF over, r, t, t2
  <1>7. /\ over * MaxTries \in Nat /\ next * MaxTries \in Nat
        /\ (over + 1) * MaxTries = over * MaxTries + MaxTries
        /\ over <= next => over * MaxTries <= next * MaxTries
        /\ over + 1 <= next => (over + 1) * MaxTries <= next * MaxTries
    BY <1>1, Tries
  <1> DEFINE a == over * MaxTries
             b == next * MaxTries
  <1>8. /\ a \in Nat /\ b \in Nat /\ r <= a + t
        /\ over <= next => a <= b
        /\ over + 1 <= next => a + MaxTries <= b
        /\ over = next => a = b
    BY <1>4, <1>7
  <1>9. sent <= b + t2
    <2> HIDE DEF a, b
    <2>1. CASE sent = r /\ over <= next /\ (t = 0 \/ t2 = t)
      BY <1>2, <1>3, <1>8, <2>1
    <2>2. CASE sent = r + 1 /\ over + 1 <= next
      BY <1>2, <1>3, <1>8, <2>2
    <2>3. CASE sent = r + 1 /\ over = next /\ t2 = t + 1
      BY <1>2, <1>3, <1>8, <2>3
    <2> QED BY <1>5, <2>1, <2>2, <2>3
  <1> QED BY <1>6, <1>9

\* The attempt is over, with or without a last request.
LEMMA RequestsRest ==
  ASSUME Typed, Typed', RequestsCounted, node' = node, ~AtWork', NEW sent \in Nat,
         sent = exec'.requests,
         sent = exec.requests \/ (pc = "asking" /\ sent = exec.requests + 1)
  PROVE  RequestsCounted'
  <1> DEFINE all == DialogueRounds + ModelChecks
             over == RoundsOver
             r == exec.requests
             t == exec.tries
  <1>1. all \in Nat /\ r \in Nat /\ r <= all * MaxTries
    BY DialogueNat, TypedFacts, ExecutorFacts DEF Typed, RequestsCounted
  <1>2. CASE sent = exec.requests
    BY <1>1, <1>2, SameRounds DEF RequestsCounted
  <1>3. CASE pc = "asking" /\ sent = exec.requests + 1
    <2>1. AtWork
      BY <1>3 DEF AtWork
    <2>2. over \in Nat /\ over + 1 <= all /\ r <= over * MaxTries + t
      BY <1>3, <2>1, RoundsRoom DEF RoomLeft, RequestsCounted
    <2>3. t \in Nat /\ t + 1 <= MaxTries /\ MaxTries \in Nat
      <3>1. exec.tries \in 0..(MaxTries - 1)
        BY ExecutorFacts DEF Typed
      <3> QED BY <3>1, Positive
    <2>4. sent = r + 1
      BY <1>3
    <2> HIDE DEF all, over, r, t
    <2>5. (over + 1) * MaxTries <= all * MaxTries /\ all * MaxTries \in Nat
          /\ over * MaxTries \in Nat
          /\ (over + 1) * MaxTries = over * MaxTries + MaxTries
      BY <1>1, <2>2, Tries
    <2>6. sent <= all * MaxTries
      BY <1>1, <2>2, <2>3, <2>4, <2>5
    <2> QED BY <2>6, SameRounds DEF RequestsCounted, all
  <1> QED BY <1>2, <1>3

\* In its checks, an attempt has had the rounds of its dialogue and of the
\* checks before.
LEMMA RoundsInChecks ==
  ASSUME Typed, node' = node, NEW k \in Nat, k > 0, exec'.check = k
  PROVE  RoundsOver' = DialogueRounds + ModelChecksBefore(k)
  <1>1. ModelChecksBefore(exec.check)' = ModelChecksBefore(k)
    BY DEF ModelChecksBefore
  <1> QED BY <1>1, SameRounds DEF RoundsOver

LEMMA ChecksBeginRequests ==
  ASSUME Typed, Typed', RequestsCounted, AtWork, node' = node,
         NEW executor \in Executors, NEW usage \in Nat, RunChecks(executor, usage),
         \/ executor.requests = exec.requests /\ exec.tries = 0 /\ RoundsOver <= DialogueRounds
         \/ /\ executor.requests = exec.requests + 1 /\ pc = "asking"
            /\ RoundsOver + 1 <= DialogueRounds
  PROVE  RequestsCounted'
  <1>1. executor.requests \in Nat /\ exec'.requests = executor.requests
    BY RunChecksFacts DEF Typed, Executors
  <1>2. CASE Settle("success", usage)
    <2>1. pc' \in Resting
      BY <1>2, SettleFacts DEF Typed, Statuses, Resting
    <2>2. ~AtWork'
      BY <2>1 DEF AtWork, Resting
    <2> QED BY <1>1, <2>2, RequestsRest
  <1>3. CASE /\ exec' = [executor EXCEPT !.check = 1, !.tries = 0, !.usage = usage]
             /\ pc' = "checking"
    <2>1. exec'.check = 1 /\ AtWork'
      BY <1>3 DEF Executors, AtWork
    <2>2. node \in Nodes /\ ModelChecksBefore(1) = 0 /\ DialogueRounds \in Nat
      BY TypedFacts, ModelChecksGrow, DialogueNat DEF Typed
    <2>3. RoundsOver' = DialogueRounds + ModelChecksBefore(1)
      BY <2>1, RoundsInChecks
    <2>4. RoundsOver' = DialogueRounds
      BY <2>2, <2>3
    <2> QED BY <1>1, <2>1, <2>2, <2>4, RequestsGoOn
  <1> QED BY <1>2, <1>3, RunChecksFacts DEF Typed

LEMMA CheckEndsRequests ==
  ASSUME Typed, Typed', RequestsCounted, InChecks, node' = node,
         NEW ok \in BOOLEAN, NEW executor \in Executors, NEW count \in [1..current -> Nat],
         executor.check = exec.check, Verdict(ok, executor, count),
         \/ executor.requests = exec.requests /\ pc = "checking"
         \/ executor.requests = exec.requests + 1 /\ pc = "asking"
  PROVE  RequestsCounted'
  <1>1. /\ AtWork /\ exec.check > 0 /\ exec.check \in Nat /\ node \in Nodes
        /\ exec.check \in DOMAIN node.checks
        /\ pc = "checking" => exec.tries = 0
        /\ pc = "asking" => Check.looks = "model"
    <2>1. exec.check > 0 /\ exec.check \in 0..Len(node.checks)
          /\ DOMAIN node.checks = 1..Len(node.checks) /\ Len(node.checks) \in Nat
      BY ExecutorFacts, NodeFacts, TypedFacts DEF Typed, Where, InChecks
    <2>2. exec.check \in Nat /\ exec.check \in DOMAIN node.checks
      BY <2>1
    <2> QED BY <2>1, <2>2, TypedFacts DEF Typed, Where, InChecks, AtWork
  <1>2. executor.requests \in Nat /\ exec'.requests = executor.requests
    <2>1. \/ exec' = [executor EXCEPT !.passed = StillPasses(ok)]
          \/ exec' = [executor EXCEPT !.passed = StillPasses(ok), !.check = exec.check + 1,
                                      !.tries = 0]
      BY <1>1, VerdictFacts DEF Typed
    <2> QED BY <2>1 DEF Executors
  <1>3. CASE Settle(IF StillPasses(ok) THEN "success" ELSE "partial",
                    IF IsAgent THEN Usage(count) ELSE exec.usage)
             /\ (IF IsAgent THEN Usage(count) ELSE exec.usage) \in Nat
    <2>1. pc' \in Resting
      <3>1. (IF StillPasses(ok) THEN "success" ELSE "partial") \in Statuses
        BY DEF Statuses
      <3> QED BY <1>3, <3>1, SettleFacts DEF Typed, Resting
    <2>2. ~AtWork'
      BY <2>1 DEF AtWork, Resting
    <2> QED BY <1>2, <2>2, RequestsRest
  <1>4. CASE /\ exec' = [executor EXCEPT !.passed = StillPasses(ok), !.check = exec.check + 1,
                                         !.tries = 0]
             /\ pc' = "checking"
    <2> DEFINE k == exec.check
    <2>1. exec'.check = k + 1 /\ AtWork'
      BY <1>4 DEF Executors, AtWork
    <2>2. /\ RoundsOver = DialogueRounds + ModelChecksBefore(k)
          /\ RoundsOver' = DialogueRounds + ModelChecksBefore(k + 1)
      <3>1. k + 1 \in Nat /\ k + 1 > 0
        BY <1>1
      <3> QED BY <1>1, <2>1, <3>1, RoundsInChecks DEF RoundsOver
    <2>3. /\ ModelChecksBefore(k) \in Nat /\ ModelChecksBefore(k + 1) \in Nat
          /\ ModelChecksBefore(k) <= ModelChecksBefore(k + 1)
          /\ pc = "asking" => ModelChecksBefore(k + 1) = ModelChecksBefore(k) + 1
          /\ DialogueRounds \in Nat
      BY <1>1, ModelChecksNat, ModelChecksGrow, DialogueNat DEF Check
    <2>4. /\ RoundsOver' \in Nat /\ RoundsOver <= RoundsOver'
          /\ pc = "asking" => RoundsOver + 1 <= RoundsOver'
      BY <2>2, <2>3
    <2> QED BY <1>1, <1>2, <2>1, <2>4, RequestsGoOn
  <1> QED BY <1>1, <1>3, <1>4, VerdictFacts DEF Typed

LEMMA DialogueRequests ==
  ASSUME Typed, Typed', RequestsCounted,
         \/ Complete \/ AgentAnswered \/ IterationsUsedUp \/ ToolRefused \/ ToolStarts
         \/ ToolEnds \/ NextIteration
  PROVE  RequestsCounted'
  <1> USE DEF Typed
  <1>1. /\ exec \in Executors /\ node \in Nodes /\ exec.requests \in Nat
        /\ exec.iteration \in 0..MaxIterations /\ MaxIterations \in Nat
        /\ IsAgent => DialogueRounds = MaxIterations
        /\ ExecType = "llm_completion" => DialogueRounds = 1
    BY ExecutorFacts, TypedFacts, DialogueNat, Positive
  <1>2. CASE Complete
    <2>1. Answered /\ exec.check = 0 /\ ~IsAgent /\ UNCHANGED <<node, attempt>>
      BY <1>2 DEF Complete
    <2>2. pc = "asking" /\ AtWork /\ RoundsOver = 0 /\ DialogueRounds = 1
      BY <1>1, <2>1 DEF Answered, AtWork, RoundsOver, Where, IsAgent
    <2>3. RoundsOver + 1 <= DialogueRounds
      BY <2>2
    <2>4. CASE RunChecks(Asked, Usage(total'))
      BY <2>1, <2>2, <2>3, <2>4, AnsweredFacts, AskedFacts, ChecksBeginRequests
    <2>5. CASE exec' = Asked /\ Fail
      <3>1. ~AtWork' /\ exec'.requests = exec.requests + 1 /\ exec.requests + 1 \in Nat
        BY <1>1, <2>1, <2>2, <2>5, FailFacts, AskedFacts DEF AtWork
      <3> QED BY <2>1, <2>2, <3>1, RequestsRest
    <2> QED BY <1>2, <2>4, <2>5 DEF Complete
  <1>3. CASE AgentAnswered
    <2>1. /\ Answered /\ exec.check = 0 /\ IsAgent /\ node' = node
      BY <1>3 DEF AgentAnswered
    <2>2. pc = "asking" /\ AtWork /\ RoundsOver = exec.iteration - 1 /\ exec.iteration >= 1
      BY <2>1 DEF Answered, AtWork, RoundsOver, Where
    <2>3. CASE RunChecks(Asked, Usage(total'))
      <3>1. RoundsOver + 1 <= DialogueRounds
        BY <1>1, <2>1, <2>2
      <3> QED BY <2>1, <2>2, <2>3, <3>1, AnsweredFacts, AskedFacts, ChecksBeginRequests
    <2>4. CASE /\ \E n \in 1..MaxCalls : exec' = [Asked EXCEPT !.todo = n, !.tries = 0]
               /\ pc' = "tools"
      <3>1. /\ exec'.requests = exec.requests + 1 /\ exec'.iteration = exec.iteration
            /\ exec'.check = 0
        BY <2>1, <2>4, AskedFacts DEF Executors
      <3>2. IsAgent' /\ AtWork'
        BY <2>1, <2>4, NodeStays DEF SameNode, AtWork
      <3>3. RoundsOver' = exec.iteration
        BY <2>4, <3>1, <3>2 DEF RoundsOver
      <3>4. RoundsOver' \in Nat /\ RoundsOver + 1 <= RoundsOver' /\ exec.requests + 1 \in Nat
        BY <1>1, <2>2, <3>3
      <3> QED BY <2>1, <2>2, <3>1, <3>2, <3>4, RequestsGoOn
    <2> QED BY <1>3, <2>3, <2>4 DEF AgentAnswered
  <1>4. CASE IterationsUsedUp
    <2>1. /\ pc = "tools" /\ node' = node /\ exec.iteration = MaxIterations
          /\ RunChecks(exec, Usage(total))
      BY <1>4 DEF IterationsUsedUp
    <2>2. AtWork /\ exec.check = 0 /\ exec.tries = 0 /\ IsAgent
      BY <2>1 DEF AtWork, Where
    <2>3. RoundsOver <= DialogueRounds
      <3>1. RoundsOver = exec.iteration
        BY <2>1, <2>2 DEF RoundsOver
      <3> QED BY <1>1, <2>1, <2>2, <3>1
    <2> QED BY <1>1, <2>1, <2>2, <2>3, TypedFacts, UsageIsNat, ChecksBeginRequests
  <1>5. CASE ToolRefused \/ ToolStarts \/ ToolEnds \/ NextIteration
    <2>1. /\ pc \in {"tools", "running"} /\ node' = node
          /\ exec'.check = exec.check /\ exec'.requests = exec.requests
          /\ \/ pc' \in {"tools", "running"} /\ exec'.iteration = exec.iteration
             \/ pc' = "asking" /\ exec'.iteration = exec.iteration + 1
      BY <1>1, <1>5 DEF ToolRefused, ToolStarts, ToolEnds, NextIteration, Executors
    <2>2. AtWork /\ AtWork' /\ exec.check = 0 /\ exec.tries = 0 /\ IsAgent /\ IsAgent'
      BY <2>1, NodeStays DEF AtWork, Where, SameNode
    <2>3. RoundsOver = exec.iteration
      BY <2>1, <2>2 DEF RoundsOver
    <2>4. RoundsOver' = IF pc' = "asking" THEN exec'.iteration - 1 ELSE exec'.iteration
      BY <2>1, <2>2 DEF RoundsOver
    <2>5. RoundsOver' = exec.iteration
      BY <1>1, <2>1, <2>4
    <2>6. RoundsOver' \in Nat /\ RoundsOver <= RoundsOver'
      BY <1>1, <2>3, <2>5
    <2> QED BY <1>1, <2>1, <2>2, <2>6, RequestsGoOn
  <1> QED BY <1>2, <1>3, <1>4, <1>5

LEMMA ChecksRequests ==
  ASSUME Typed, Typed', RequestsCounted,
         \/ CheckUnknown \/ CheckOutput \/ CheckFile \/ CheckByProcess
         \/ CheckRunsOn \/ ModelJudges \/ ModelDoesNotJudge
  PROVE  RequestsCounted'
  <1> USE DEF Typed
  <1>1. /\ total \in [1..current -> Nat]
        /\ exec \in Executors /\ Asked \in Executors /\ Asked.requests = exec.requests + 1
        /\ Asked.check = exec.check
    BY TypedFacts, ExecutorFacts, AskedFacts
  <1>2. CASE CheckUnknown \/ CheckOutput \/ CheckFile \/ CheckByProcess \/ CheckRunsOn
    <2>1. pc = "checking" /\ InChecks /\ node' = node
      BY <1>2 DEF CheckUnknown, CheckOutput, CheckFile, CheckByProcess, CheckRunsOn,
                  ProcessRuns, InChecks
    <2>2. \E ok \in BOOLEAN : Verdict(ok, exec, total)
      <3>1. (exec.output = "good") \in BOOLEAN /\ (out.data = "good") \in BOOLEAN
        OBVIOUS
      <3> QED BY <1>2, <3>1 DEF CheckUnknown, CheckOutput, CheckFile, CheckByProcess, CheckRunsOn
    <2> QED BY <1>1, <2>1, <2>2, CheckEndsRequests
  <1>3. CASE ModelJudges
    <2>1. /\ Answered /\ exec.check > 0 /\ node' = node
          /\ \E ok \in BOOLEAN : Verdict(ok, Asked, total')
      BY <1>3 DEF ModelJudges
    <2>2. pc = "asking" /\ InChecks /\ total' \in [1..current -> Nat]
      BY <2>1, AnsweredFacts DEF InChecks
    <2> QED BY <1>1, <2>1, <2>2, CheckEndsRequests
  <1>4. CASE ModelDoesNotJudge
    <2>1. /\ pc = "asking" /\ exec.check > 0 /\ node' = node
          /\ Verdict(FALSE, Asked, total)
      BY <1>4 DEF ModelDoesNotJudge
    <2>2. InChecks
      BY <2>1 DEF InChecks
    <2> QED BY <1>1, <2>1, <2>2, CheckEndsRequests
  <1> QED BY <1>2, <1>3, <1>4

LEMMA ScriptRequests ==
  ASSUME Typed, Typed', Begin \/ ScriptRefused \/ ScriptEnds \/ ScriptDies \/ ScriptTimesOut
  PROVE  RequestsCounted'
  <1>1. node' = node
    BY DEF Begin, ScriptRefused, ScriptEnds, ScriptDies, ScriptTimesOut
  <1>2. exec'.requests = 0
    <2>1. CASE Begin
      BY <2>1 DEF Begin, NewExecutor
    <2>2. CASE ScriptRefused \/ ScriptTimesOut
      BY <2>2 DEF ScriptRefused, ScriptTimesOut, Typed, Where
    <2>3. ASSUME pc = "script", NEW file \in File, ReadScriptOutput(file)
          PROVE  exec'.requests = 0
      <3>1. exec.requests = 0 /\ exec \in Executors
        BY <2>3, ExecutorFacts DEF Typed, Where
      <3>2. CASE UNCHANGED exec
        BY <3>1, <3>2
      <3>3. CASE file.data \notin {"none", "failed"}
                 /\ RunChecks([exec EXCEPT !.output = file.data], 0)
        <4>1. file.data \in {"good", "bad"}
          BY <3>3 DEF File
        <4> DEFINE executor == [exec EXCEPT !.output = file.data]
        <4>2. executor \in Executors /\ executor.requests = 0
          BY <3>1, <4>1 DEF Executors
        <4> HIDE DEF executor
        <4>3. RunChecks(executor, 0)
          BY <3>3 DEF executor
        <4>4. \/ exec' = [executor EXCEPT !.usage = 0]
              \/ exec' = [executor EXCEPT !.check = 1, !.tries = 0, !.usage = 0]
          BY <4>3 DEF RunChecks
        <4> QED BY <4>2, <4>4 DEF Executors
      <3> QED BY <2>3, <3>2, <3>3 DEF ReadScriptOutput
    <2>4. CASE ScriptEnds
      <3>1. pc = "script" /\ out' \in Written(attempt) /\ ReadScriptOutput(out')
        BY <2>4 DEF ScriptEnds
      <3>2. out' \in File
        BY <3>1, AttemptAtWork, WrittenIsFile DEF AtWork
      <3> QED BY <2>3, <3>1, <3>2
    <2>5. CASE ScriptDies
      BY <2>3, <2>5, TypedFacts DEF ScriptDies, Typed
    <2> QED BY <2>1, <2>2, <2>4, <2>5
  <1> QED BY <1>1, <1>2, NoRequests

LEMMA OtherRequests ==
  ASSUME Typed, Typed', RequestsCounted,
         \/ TryAgain \/ RequestFails \/ CheckFileFails \/ AskModel \/ StepTimesOut
         \/ OtherTaskAsks \/ ReloadModel \/ UNCHANGED attemptVars \/ \E a \in lingering : Straggler(a)
  PROVE  RequestsCounted'
  <1> USE DEF Typed
  <1>1. exec \in Executors /\ exec.requests \in Nat /\ exec.requests + 1 \in Nat
    BY ExecutorFacts
  <1>2. CASE TryAgain
    <2>1. pc = "asking" /\ pc' = pc /\ node' = node /\ exec' = [Asked EXCEPT !.tries = @ + 1]
      BY <1>2 DEF TryAgain
    <2>2. /\ exec'.requests = exec.requests + 1 /\ exec'.tries = exec.tries + 1
          /\ exec'.check = exec.check /\ exec'.iteration = exec.iteration
      BY <2>1, AskedFacts DEF Executors
    <2>3. AtWork /\ AtWork'
      BY <2>1 DEF AtWork
    <2>4. RoundsOver' = RoundsOver
      <3>1. IsAgent' = IsAgent
        BY <2>1, NodeStays DEF SameNode
      <3>2. ModelChecksBefore(exec.check)' = ModelChecksBefore(exec.check)
        BY <2>1, <2>2 DEF ModelChecksBefore
      <3> QED BY <2>1, <2>2, <3>1, <3>2, SameRounds DEF RoundsOver
    <2>5. RoundsOver' \in Nat
      BY <2>3, <2>4, RoundsRoom DEF RoomLeft
    <2> QED BY <1>1, <2>1, <2>2, <2>3, <2>4, <2>5, RequestsGoOn
  <1>3. CASE RequestFails \/ CheckFileFails \/ StepTimesOut
    <2>1. /\ AtWork /\ Fail /\ UNCHANGED <<node, attempt>>
          /\ exec' = exec \/ (pc = "asking" /\ exec' = Asked)
      BY <1>3 DEF RequestFails, CheckFileFails, StepTimesOut, AtWork, Awaits, ProcessRuns
    <2>2. ~AtWork'
      BY <2>1, FailFacts DEF AtWork
    <2>3. exec'.requests = exec.requests
          \/ (pc = "asking" /\ exec'.requests = exec.requests + 1)
      BY <2>1, AskedFacts
    <2> QED BY <1>1, <2>1, <2>2, <2>3, RequestsRest
  <1>4. CASE AskModel
    <2>1. pc = "checking" /\ pc' = "asking" /\ node' = node /\ exec' = exec
      BY <1>4 DEF AskModel
    <2>2. AtWork /\ AtWork' /\ exec.check > 0 /\ exec.check \in Nat
      BY <2>1, ExecutorFacts DEF AtWork, Where
    <2>3. RoundsOver' = DialogueRounds + ModelChecksBefore(exec.check)
      BY <2>1, <2>2, RoundsInChecks
    <2>4. RoundsOver' = RoundsOver
      BY <2>2, <2>3 DEF RoundsOver
    <2>5. RoundsOver' \in Nat /\ RoundsOver <= RoundsOver'
      BY <2>2, <2>4, RoundsRoom DEF RoomLeft
    <2> QED BY <1>1, <2>1, <2>2, <2>4, <2>5, RequestsGoOn
  <1>5. CASE OtherTaskAsks \/ ReloadModel \/ UNCHANGED attemptVars
             \/ \E a \in lingering : Straggler(a)
    <2>1. node' = node /\ pc' = pc /\ exec' = exec
      BY <1>5 DEF OtherTaskAsks, ReloadModel, attemptVars, Straggler
    <2>2. AtWork' = AtWork
      BY <2>1 DEF AtWork
    <2>3. RoundsOver' = RoundsOver
      <3>1. IsAgent' = IsAgent
        BY <2>1, NodeStays DEF SameNode
      <3>2. ModelChecksBefore(exec.check)' = ModelChecksBefore(exec.check)
        BY <2>1 DEF ModelChecksBefore
      <3> QED BY <2>1, <3>1, <3>2, SameRounds DEF RoundsOver
    <2> QED BY <2>1, <2>2, <2>3, SameRounds DEF RequestsCounted
  <1> QED BY <1>2, <1>3, <1>4, <1>5

LEMMA RequestsStep == Typed /\ RequestsCounted /\ [Next]_attemptVars => RequestsCounted'
  <1> SUFFICES ASSUME Typed, RequestsCounted, [Next]_attemptVars PROVE RequestsCounted'
    OBVIOUS
  <1>1. Typed'
    BY TypedStep
  <1> QED BY <1>1, ScriptRequests, DialogueRequests, ChecksRequests, OtherRequests
          DEF Next, Proceed

LEMMA InitRequests == Init => RequestsCounted
  <1> SUFFICES ASSUME Init PROVE RequestsCounted
    OBVIOUS
  <1>1. ~AtWork /\ exec.requests = 0 /\ node \in Nodes
    BY DEF Init, NewExecutor, AtWork
  <1>2. 0 <= (DialogueRounds + ModelChecks) * MaxTries
    <2>1. DialogueRounds + ModelChecks \in Nat
      BY <1>1, DialogueNat
    <2> QED BY <2>1, Tries
  <1> QED BY <1>1, <1>2 DEF RequestsCounted
----------------------------------------------------------------------------
(* The tokens of the task, and what the budget is told of them.            *)

LEMMA InitTokens == Init => TokensCounted
  <1> SUFFICES ASSUME Init PROVE TokensCounted
    OBVIOUS
  <1>1. pc = "idle" /\ ~InChecks /\ current = 1 /\ total = <<0>> /\ own = <<0>>
    BY DEF Init, InChecks
  <1>2. \A p \in 1..current : own[p] = 0 /\ total[p] = 0
    BY <1>1
  <1>3. ReportsWithin
    <2>1. 1 \in 1..current /\ total[1] = 0 /\ reported = 0
      BY <1>1, <1>2 DEF Init
    <2>2. exec.usage = 0 /\ exec.provider = 1
      BY <1>1 DEF Init, NewExecutor
    <2>3. Reports = 0
      <3>1. {i \in DOMAIN results : results[i] # "error"} = {}
        BY DEF Init
      <3> QED BY <3>1, FS_EmptySet DEF Reports
    <2>4. reported <= Reports * total[1]
      BY <2>1, <2>3
    <2> QED BY <2>1, <2>2, <2>4 DEF ReportsWithin, UsageWithin, CountedOncePerReport
  <1> QED BY <1>1, <1>2, <1>3
          DEF TokensCounted, OwnWithin, NothingSpent, ChecksCounted, BudgetSeesFailedAttempts

\* A step counts an answer, to this task or to another, begins with a fresh
\* provider, or leaves the counts alone.
LEMMA TokensMove ==
  ASSUME [Next]_attemptVars
  PROVE  /\ node' = node
         /\ \/ Answered /\ current' = current
            \/ OtherTaskAsks \/ ReloadModel
            \/ UNCHANGED <<tokens, current>>
  BY DEF Next, Proceed, attemptVars, tokens, Begin, ScriptRefused, ScriptEnds, ScriptDies,
         ScriptTimesOut, Complete, AgentAnswered, TryAgain, RequestFails, ToolRefused,
         ToolStarts, ToolEnds, NextIteration, IterationsUsedUp, CheckUnknown,
         CheckOutput, CheckFile, CheckFileFails, CheckByProcess, CheckRunsOn, AskModel,
         ModelJudges, ModelDoesNotJudge, StepTimesOut, Straggler, OtherTaskAsks, ReloadModel

\* The task's own tokens are among those its providers count, and where there
\* is nothing to run none is spent.
LEMMA OwnKept ==
  ASSUME Typed, OwnWithin, NothingSpent, [Next]_attemptVars
  PROVE  OwnWithin' /\ NothingSpent'
  <1>1. /\ current \in Nat /\ total \in [1..current -> Nat] /\ own \in [1..current -> Nat]
        /\ exec.provider \in 1..current
    BY TypedFacts, ExecutorFacts DEF Typed
  <1>2. node' = node /\ NothingToRun' = NothingToRun
    BY TokensMove, NodeStays DEF SameNode
  <1>3. CASE Answered /\ current' = current
    <2>1. AtWork /\ ~NothingToRun
      BY <1>3, AtWorkKinds DEF Answered, AtWork, Typed
    <2>2. \A p \in 1..current : own'[p] <= total'[p]
      BY <1>1, <1>3 DEF Answered, OwnWithin
    <2> QED BY <1>2, <1>3, <2>1, <2>2 DEF OwnWithin, NothingSpent
  <1>4. CASE OtherTaskAsks
    <2>1. total' = [total EXCEPT ![current] = @ + 1] /\ own' = own /\ current' = current
      BY <1>4 DEF OtherTaskAsks
    <2>2. \A p \in 1..current : own[p] <= total'[p]
      BY <1>1, <2>1 DEF OwnWithin
    <2> QED BY <1>2, <2>1, <2>2 DEF OwnWithin, NothingSpent
  <1>5. CASE ReloadModel
    <2>1. current' = current + 1 /\ total' = Append(total, 0) /\ own' = Append(own, 0)
      BY <1>5 DEF ReloadModel
    <2>2. /\ \A p \in 1..current : total'[p] = total[p] /\ own'[p] = own[p]
          /\ total'[current + 1] = 0 /\ own'[current + 1] = 0
      BY <1>1, <2>1, OneMoreProvider
    <2>3. \A p \in 1..(current + 1) : p \in 1..current \/ p = current + 1
      BY <1>1
    <2>4. OwnWithin'
      <3>1. ASSUME NEW p \in 1..(current + 1) PROVE own'[p] <= total'[p]
        <4>1. CASE p \in 1..current
          BY <2>2, <4>1 DEF OwnWithin
        <4>2. CASE p = current + 1
          BY <2>2, <4>2
        <4> QED BY <2>3, <4>1, <4>2
      <3> QED BY <2>1, <3>1 DEF OwnWithin
    <2>5. NothingSpent'
      BY <1>2, <2>1, <2>2, <2>3 DEF NothingSpent
    <2> QED BY <2>4, <2>5
  <1>6. CASE UNCHANGED <<tokens, current>>
    BY <1>2, <1>6, Alone DEF OwnWithin, NothingSpent
  <1> QED BY <1>3, <1>4, <1>5, <1>6, TokensMove

\* Nothing the budget looks at changes.
LEMMA SpendingStays ==
  ASSUME Typed, ChecksCounted, BudgetSeesFailedAttempts, node' = node,
         own'[exec'.provider] = own[exec.provider],
         InChecks' => InChecks /\ exec'.check = exec.check /\ exec'.usage = exec.usage,
         pc' = "passed" => pc = "passed" /\ reported' = reported
  PROVE  ChecksCounted' /\ BudgetSeesFailedAttempts'
  <1>1. SameNode
    BY NodeStays
  <1>2. ASSUME exec'.check = exec.check
        PROVE  ModelChecksBefore(exec.check)' = ModelChecksBefore(exec.check)
    BY <1>2 DEF ModelChecksBefore
  <1>3. ChecksCounted'
    BY <1>1, <1>2 DEF ChecksCounted, SameNode
  <1>4. BudgetSeesFailedAttempts'
    BY <1>1, SameRounds DEF BudgetSeesFailedAttempts, SameNode
  <1> QED BY <1>3, <1>4

LEMMA SpendingRests ==
  ASSUME Typed, node' = node, pc' \in Resting,
         NEW spent \in Nat, spent = own'[exec'.provider], reported' \in Nat,
         pc' = "passed" /\ IsAgent => spent <= reported',
         pc' = "passed" /\ ExecType = "llm_completion" => spent <= reported' + ModelChecks
  PROVE  ChecksCounted' /\ BudgetSeesFailedAttempts'
  <1>1. SameNode /\ ModelChecks \in Nat
    BY NodeStays, DialogueNat, TypedFacts DEF Typed
  <1>2. ~InChecks'
    BY DEF InChecks, Resting
  <1>3. CASE pc' = "passed" /\ IsAgent
    <2>1. reported' + 0 >= own'[exec'.provider]
      BY <1>3
    <2> QED BY <1>1, <1>2, <1>3, <2>1 DEF ChecksCounted, BudgetSeesFailedAttempts, SameNode
  <1>4. CASE pc' = "passed" /\ ExecType = "llm_completion"
    <2>1. reported' + ModelChecks >= own'[exec'.provider] /\ ~IsAgent
      BY <1>1, <1>4 DEF IsAgent
    <2> QED BY <1>1, <1>2, <1>4, <2>1, SameRounds
            DEF ChecksCounted, BudgetSeesFailedAttempts, SameNode
  <1>5. CASE ~(pc' = "passed" /\ (IsAgent \/ ExecType = "llm_completion"))
    BY <1>1, <1>2, <1>5 DEF ChecksCounted, BudgetSeesFailedAttempts, SameNode, IsAgent
  <1> QED BY <1>3, <1>4, <1>5

\* Before the checks the statistics are taken: all that was spent is in them.
LEMMA ChecksBeginSpending ==
  ASSUME Typed, Typed', AtWork, node' = node,
         NEW executor \in Executors, executor.provider = exec.provider,
         NEW usage \in Nat, RunChecks(executor, usage),
         NEW spent \in Nat, spent = own'[exec.provider],
         ExecType # "pure_code" => spent <= usage
  PROVE  ChecksCounted' /\ BudgetSeesFailedAttempts'
  <1>1. ModelChecks \in Nat /\ SameNode /\ reported \in Nat /\ node \in Nodes
    BY DialogueNat, TypedFacts, NodeStays DEF Typed
  <1>2. exec'.provider = exec.provider
    <2>1. \/ exec' = [executor EXCEPT !.usage = usage]
          \/ exec' = [executor EXCEPT !.check = 1, !.tries = 0, !.usage = usage]
      BY DEF RunChecks
    <2> QED BY <2>1 DEF Executors
  <1>3. CASE Settle("success", usage)
    <2>1. pc' \in Resting /\ reported' = reported + usage /\ reported' \in Nat
      BY <1>3, SettleFacts DEF Typed, Statuses, Resting
    <2>2. ExecType # "pure_code" => spent <= reported' /\ spent <= reported' + ModelChecks
      BY <1>1, <2>1
    <2> QED BY <1>2, <2>1, <2>2, SpendingRests DEF IsAgent
  <1>4. CASE /\ exec' = [executor EXCEPT !.check = 1, !.tries = 0, !.usage = usage]
             /\ pc' = "checking"
    <2>1. exec'.usage = usage /\ exec'.check = 1
      BY <1>4 DEF Executors
    <2>2. ModelChecksBefore(exec.check)' = ModelChecksBefore(1)
      BY <2>1 DEF ModelChecksBefore
    <2>3. ModelChecksBefore(1) \in Nat
      BY <1>1, ModelChecksNat
    <2>4. ExecType # "pure_code" => spent <= usage + ModelChecksBefore(1)
      BY <2>3
    <2>5. ChecksCounted'
      BY <1>1, <1>2, <2>1, <2>2, <2>4 DEF ChecksCounted, SameNode
    <2>6. BudgetSeesFailedAttempts'
      BY <1>4 DEF BudgetSeesFailedAttempts
    <2> QED BY <2>5, <2>6
  <1> QED BY <1>3, <1>4 DEF RunChecks

\* A check spends at most one token, and only if it asks the model; the agent
\* reports its tokens after the checks.
LEMMA CheckEndsSpending ==
  ASSUME Typed, Typed', ChecksCounted, InChecks, node' = node,
         NEW ok \in BOOLEAN, NEW executor \in Executors, NEW count \in [1..current -> Nat],
         executor.check = exec.check, executor.usage = exec.usage,
         executor.provider = exec.provider, Verdict(ok, executor, count),
         NEW spent \in Nat, spent = own'[exec.provider],
         NEW already \in Nat, already = own[exec.provider],
         spent = already \/ (pc = "asking" /\ spent = already + 1),
         spent <= Usage(count)
  PROVE  ChecksCounted' /\ BudgetSeesFailedAttempts'
  <1> DEFINE k == exec.check
  <1>1. ModelChecks \in Nat /\ SameNode /\ reported \in Nat /\ node \in Nodes
        /\ exec.usage \in Nat
    BY DialogueNat, TypedFacts, ExecutorFacts, NodeStays DEF Typed
  <1>2. /\ k > 0 /\ k \in Nat /\ k \in DOMAIN node.checks /\ k <= Len(node.checks)
        /\ k + 1 \in Nat /\ k + 1 <= Len(node.checks) + 1
        /\ pc = "asking" => Check.looks = "model"
    <2>1. k > 0 /\ k \in 0..Len(node.checks)
          /\ DOMAIN node.checks = 1..Len(node.checks) /\ Len(node.checks) \in Nat
      BY ExecutorFacts, NodeFacts, TypedFacts DEF Typed, Where, InChecks
    <2> QED BY <2>1 DEF Typed, Where
  <1>3. /\ ModelChecksBefore(k) \in Nat /\ ModelChecksBefore(k + 1) \in Nat
        /\ ModelChecksBefore(k) <= ModelChecksBefore(k + 1)
        /\ pc = "asking" => ModelChecksBefore(k + 1) = ModelChecksBefore(k) + 1
        /\ ModelChecksBefore(k + 1) <= ModelChecks
    BY <1>1, <1>2, ModelChecksNat, ModelChecksGrow DEF Check
  <1>4. ExecType = "llm_completion" => already <= exec.usage + ModelChecksBefore(k)
    BY DEF ChecksCounted
  <1>5. ExecType = "llm_completion" => spent <= exec.usage + ModelChecksBefore(k + 1)
    <2> HIDE DEF k
    <2> QED BY <1>1, <1>3, <1>4
  <1>6. \/ exec' = [executor EXCEPT !.passed = StillPasses(ok)]
        \/ exec' = [executor EXCEPT !.passed = StillPasses(ok), !.check = exec.check + 1,
                                    !.tries = 0]
    BY DEF Verdict
  <1>7. exec'.provider = exec.provider /\ exec'.usage = exec.usage
    BY <1>6 DEF Executors
  <1>8. CASE Settle(IF StillPasses(ok) THEN "success" ELSE "partial",
                    IF IsAgent THEN Usage(count) ELSE exec.usage)
    <2> DEFINE usage == IF IsAgent THEN Usage(count) ELSE exec.usage
    <2>1. usage \in Nat
      BY <1>1, UsageIsNat DEF Typed
    <2>2. pc' \in Resting /\ reported' = reported + usage /\ reported' \in Nat
      <3>1. (IF StillPasses(ok) THEN "success" ELSE "partial") \in Statuses
        BY DEF Statuses
      <3> HIDE DEF usage
      <3>2. \E status \in Statuses : Settle(status, usage)
        BY <1>8, <3>1 DEF usage
      <3> QED BY <2>1, <3>2, SettleFacts DEF Typed, Resting
    <2>3. IsAgent => spent <= reported'
      <3>1. IsAgent => usage = Usage(count)
        OBVIOUS
      <3> HIDE DEF usage
      <3>2. ASSUME usage = Usage(count) PROVE spent <= reported'
        BY <1>1, <2>1, <2>2, <3>2
      <3> QED BY <3>1, <3>2
    <2>4. ExecType = "llm_completion" => spent <= reported' + ModelChecks
      <3>1. ExecType = "llm_completion" => usage = exec.usage
        BY DEF IsAgent
      <3> DEFINE asked == ModelChecksBefore(k + 1)
                 all == ModelChecks
                 sum == reported'
                 old == reported
                 said == exec.usage
      <3>2. /\ asked \in Nat /\ all \in Nat /\ asked <= all /\ said \in Nat /\ old \in Nat
            /\ sum = old + usage
            /\ ExecType = "llm_completion" => spent <= said + asked /\ usage = said
        BY <1>1, <1>3, <1>5, <2>2, <3>1
      <3> HIDE DEF usage, asked, all, sum, old, said
      <3>3. ASSUME spent <= said + asked, usage = said PROVE spent <= sum + all
        BY <3>2, <3>3
      <3> QED BY <3>2, <3>3 DEF sum, all
    <2> QED BY <1>7, <2>2, <2>3, <2>4, SpendingRests
  <1>9. CASE /\ exec' = [executor EXCEPT !.passed = StillPasses(ok), !.check = exec.check + 1,
                                         !.tries = 0]
             /\ pc' = "checking"
    <2>1. exec'.check = k + 1
      BY <1>9 DEF Executors
    <2>2. ModelChecksBefore(exec.check)' = ModelChecksBefore(k + 1)
      BY <2>1 DEF ModelChecksBefore
    <2>3. ChecksCounted'
      BY <1>1, <1>5, <1>7, <2>2 DEF ChecksCounted, SameNode
    <2>4. BudgetSeesFailedAttempts'
      BY <1>9 DEF BudgetSeesFailedAttempts
    <2> QED BY <2>3, <2>4
  <1> QED BY <1>8, <1>9 DEF Verdict

\* Where nothing is checked and nothing has passed there is nothing to compare.
LEMMA NothingToCompare ==
  ASSUME ~InChecks', pc' # "passed"
  PROVE  ChecksCounted' /\ BudgetSeesFailedAttempts'
  BY DEF ChecksCounted, BudgetSeesFailedAttempts

LEMMA FailedSpending ==
  ASSUME Typed, AtWork, Fail, UNCHANGED <<node, attempt>>
  PROVE  ChecksCounted' /\ BudgetSeesFailedAttempts'
  <1>1. pc' \in {"idle", "exhausted"}
    BY FailFacts DEF Typed
  <1> QED BY <1>1, NothingToCompare DEF InChecks

LEMMA BeginSpending ==
  ASSUME Typed, Typed', NothingSpent, Begin
  PROVE  ChecksCounted' /\ BudgetSeesFailedAttempts'
  <1>1. /\ exec'.check = 0 /\ exec'.provider = current /\ own' = own
        /\ pc' \in {"script", "asking", "passed", "exhausted"} /\ node' = node
    BY DEF Begin, NewExecutor, tokens
  <1>2. ~InChecks'
    BY <1>1 DEF InChecks
  <1>3. current \in 1..current /\ ExecType # "human_review"
    BY TypedFacts, NodeFacts DEF Typed
  <1>4. ASSUME pc' = "passed"
       PROVE  (NothingToRun /\ reported' = reported) \/ ExecType = "system_check"
    BY <1>3, <1>4 DEF Begin
  <1>5. CASE pc' = "passed"
    <2>1. CASE ExecType = "system_check"
      <3>1. ExecType' = "system_check" /\ ~IsAgent'
        BY <1>1, <2>1, NodeStays DEF SameNode, IsAgent
      <3> QED BY <1>2, <3>1 DEF ChecksCounted, BudgetSeesFailedAttempts
    <2>2. CASE NothingToRun /\ reported' = reported
      <3>1. own'[exec'.provider] = 0
        BY <1>1, <1>3, <2>2 DEF NothingSpent
      <3>2. reported' \in Nat
        BY <2>2, TypedFacts DEF Typed
      <3>3. 0 <= reported' /\ 0 <= reported' + ModelChecks
        BY <3>2, DialogueNat, TypedFacts DEF Typed
      <3>4. pc' \in Resting /\ 0 \in Nat
        BY <1>5 DEF Resting
      <3> QED BY <1>1, <3>1, <3>2, <3>3, <3>4, SpendingRests
    <2> QED BY <1>4, <1>5, <2>1, <2>2
  <1> QED BY <1>2, <1>5, NothingToCompare

LEMMA ScriptSpending ==
  ASSUME Typed, Typed', ScriptEnds \/ ScriptDies
  PROVE  ChecksCounted' /\ BudgetSeesFailedAttempts'
  <1>1. /\ pc = "script" /\ UNCHANGED <<node, attempt, tokens>>
        /\ \E file \in File : ReadScriptOutput(file)
    <2>1. CASE ScriptEnds
      <3>1. pc = "script" /\ out' \in Written(attempt) /\ ReadScriptOutput(out')
        BY <2>1 DEF ScriptEnds
      <3>2. out' \in File
        BY <3>1, AttemptAtWork, WrittenIsFile DEF AtWork
      <3> QED BY <2>1, <3>1, <3>2 DEF ScriptEnds
    <2>2. CASE ScriptDies
      BY <2>2, TypedFacts DEF ScriptDies, Typed
    <2> QED BY <2>1, <2>2
  <1>2. PICK file \in File : ReadScriptOutput(file)
    BY <1>1
  <1>3. AtWork /\ ExecType = "pure_code" /\ own'[exec.provider] \in Nat
    <2>1. own' = own
      BY <1>1 DEF tokens
    <2> QED BY <1>1, <2>1, TypedFacts, ExecutorFacts DEF AtWork, Typed, Where
  <1>4. CASE Fail
    BY <1>1, <1>3, <1>4, FailedSpending
  <1>5. CASE file.data \notin {"none", "failed"}
             /\ RunChecks([exec EXCEPT !.output = file.data], 0)
    <2>1. file.data \in {"good", "bad"}
      BY <1>5 DEF File
    <2> DEFINE executor == [exec EXCEPT !.output = file.data]
    <2>2. executor \in Executors /\ executor.provider = exec.provider
      BY <2>1, ExecutorFacts DEF Executors, Typed
    <2> HIDE DEF executor
    <2>3. RunChecks(executor, 0)
      BY <1>5 DEF executor
    <2> QED BY <1>1, <1>3, <2>2, <2>3, ChecksBeginSpending
  <1> QED BY <1>2, <1>4, <1>5 DEF ReadScriptOutput

LEMMA AnsweredOwn ==
  ASSUME Typed, OwnWithin', Answered, UNCHANGED current
  PROVE  /\ own[exec.provider] \in Nat /\ own'[exec.provider] \in Nat
         /\ own'[exec.provider] = own[exec.provider] + 1
         /\ own'[exec.provider] <= Usage(total')
  <1>1. own \in [1..current -> Nat] /\ exec.provider \in 1..current
        /\ own' = [own EXCEPT ![exec.provider] = @ + 1]
    BY TypedFacts, ExecutorFacts DEF Typed, Answered
  <1> QED BY <1>1 DEF OwnWithin, Usage

LEMMA DialogueEndsSpending ==
  ASSUME Typed, Typed', OwnWithin', Complete \/ AgentAnswered \/ IterationsUsedUp
  PROVE  ChecksCounted' /\ BudgetSeesFailedAttempts'
  <1>1. /\ UNCHANGED <<node, attempt, current>>
        /\ pc \in {"asking", "tools"}
    BY DEF Complete, AgentAnswered, IterationsUsedUp, Answered
  <1>2. AtWork /\ ExecType # "pure_code" /\ exec \in Executors /\ Asked \in Executors
        /\ Asked.provider = exec.provider
    BY <1>1, AskingKinds, ExecutorFacts, AskedFacts DEF Typed
  <1>3. CASE Answered /\ RunChecks(Asked, Usage(total'))
    <2>1. Usage(total') \in Nat
      BY <1>3, AnsweredFacts DEF Typed
    <2> QED BY <1>1, <1>2, <1>3, <2>1, AnsweredOwn, ChecksBeginSpending
  <1>4. CASE AgentAnswered /\ pc' = "tools"
    BY <1>4, NothingToCompare DEF InChecks
  <1>6. CASE Fail
    BY <1>1, <1>2, <1>6, FailedSpending
  <1>5. CASE IterationsUsedUp
    <2>1. RunChecks(exec, Usage(total)) /\ total' = total
      BY <1>5 DEF IterationsUsedUp, tokens
    <2>2. exec.provider \in 1..current /\ total \in [1..current -> Nat]
          /\ own \in [1..current -> Nat] /\ own' = own
      BY <1>5, TypedFacts, ExecutorFacts DEF Typed, IterationsUsedUp, tokens
    <2>3. own'[exec.provider] <= Usage(total) /\ own'[exec.provider] \in Nat
          /\ Usage(total) \in Nat
      BY <1>1, <2>1, <2>2 DEF OwnWithin, Usage
    <2> QED BY <1>1, <1>2, <2>1, <2>3, ChecksBeginSpending
  <1> QED BY <1>3, <1>4, <1>5, <1>6 DEF Complete, AgentAnswered

LEMMA ChecksSpending ==
  ASSUME Typed, Typed', OwnWithin', ChecksCounted,
         \/ CheckUnknown \/ CheckOutput \/ CheckFile \/ CheckByProcess
         \/ CheckRunsOn \/ ModelJudges \/ ModelDoesNotJudge
  PROVE  ChecksCounted' /\ BudgetSeesFailedAttempts'
  <1>1. /\ total \in [1..current -> Nat] /\ own \in [1..current -> Nat]
        /\ exec.provider \in 1..current /\ exec \in Executors
        /\ Asked \in Executors /\ Asked.check = exec.check /\ Asked.provider = exec.provider
        /\ Asked.usage = exec.usage
    BY TypedFacts, ExecutorFacts, AskedFacts DEF Typed, Executors
  <1>2. CASE \/ CheckUnknown \/ CheckOutput \/ CheckFile \/ CheckByProcess \/ CheckRunsOn
             \/ ModelDoesNotJudge
    <2>1. InChecks /\ node' = node /\ UNCHANGED <<tokens, current>>
      BY <1>2 DEF CheckUnknown, CheckOutput, CheckFile, CheckByProcess, CheckRunsOn,
                  ProcessRuns, ModelDoesNotJudge, InChecks
    <2>2. own' = own /\ total' = total /\ own[exec.provider] \in Nat
          /\ own[exec.provider] <= Usage(total)
      BY <1>1, <2>1, Alone DEF OwnWithin, Usage
    <2>3. \E ok \in BOOLEAN : Verdict(ok, exec, total) \/ Verdict(ok, Asked, total)
      <3>1. (exec.output = "good") \in BOOLEAN /\ (out.data = "good") \in BOOLEAN
        OBVIOUS
      <3> QED BY <1>2, <3>1
              DEF CheckUnknown, CheckOutput, CheckFile, CheckByProcess, CheckRunsOn,
                  ModelDoesNotJudge
    <2> QED BY <1>1, <2>1, <2>2, <2>3, CheckEndsSpending
  <1>3. CASE ModelJudges
    <2>1. /\ Answered /\ exec.check > 0 /\ UNCHANGED <<node, current>>
          /\ \E ok \in BOOLEAN : Verdict(ok, Asked, total')
      BY <1>3 DEF ModelJudges
    <2>2. InChecks /\ total' \in [1..current -> Nat] /\ pc = "asking"
      BY <2>1, AnsweredFacts DEF InChecks, Typed
    <2> QED BY <1>1, <2>1, <2>2, AnsweredOwn, CheckEndsSpending
  <1> QED BY <1>2, <1>3

LEMMA OtherSpending ==
  ASSUME Typed, ChecksCounted, BudgetSeesFailedAttempts,
         \/ TryAgain \/ ToolRefused \/ ToolStarts \/ ToolEnds \/ NextIteration \/ AskModel
         \/ OtherTaskAsks \/ ReloadModel \/ UNCHANGED attemptVars
         \/ \E a \in lingering : Straggler(a)
  PROVE  ChecksCounted' /\ BudgetSeesFailedAttempts'
  <1>1. exec \in Executors /\ exec.provider \in 1..current /\ current \in Nat
        /\ own \in [1..current -> Nat]
    BY TypedFacts, ExecutorFacts DEF Typed
  <1>2. CASE ToolRefused \/ ToolStarts \/ ToolEnds \/ NextIteration
    <2>1. pc' \in {"tools", "running", "asking"} /\ exec'.check = exec.check
          /\ pc \in {"tools", "running"}
      BY <1>1, <1>2 DEF ToolRefused, ToolStarts, ToolEnds, NextIteration, Executors
    <2>2. exec.check = 0
      BY <2>1 DEF Typed, Where
    <2> QED BY <2>1, <2>2, NothingToCompare DEF InChecks
  <1>3. CASE TryAgain \/ AskModel
    <2>1. /\ node' = node /\ own' = own /\ pc' = "asking" /\ pc \in {"asking", "checking"}
          /\ exec' = exec \/ exec' = [Asked EXCEPT !.tries = @ + 1]
      BY <1>3 DEF TryAgain, AskModel, tokens
    <2>2. exec'.check = exec.check /\ exec'.usage = exec.usage
          /\ exec'.provider = exec.provider
      BY <1>1, <2>1 DEF Asked, Executors
    <2>3. InChecks' => InChecks
      BY <2>1, <2>2 DEF InChecks
    <2> QED BY <2>1, <2>2, <2>3, SpendingStays
  <1>4. CASE OtherTaskAsks \/ ReloadModel \/ UNCHANGED attemptVars
             \/ \E a \in lingering : Straggler(a)
    <2>1. node' = node /\ pc' = pc /\ exec' = exec /\ reported' = reported
      BY <1>4 DEF OtherTaskAsks, ReloadModel, attemptVars, Straggler, outcomes
    <2>2. own' = own \/ own' = Append(own, 0)
      BY <1>4 DEF OtherTaskAsks, ReloadModel, attemptVars, Straggler, tokens
    <2>3. own'[exec'.provider] = own[exec.provider]
      BY <1>1, <2>1, <2>2, OneMoreProvider
    <2>4. InChecks' => InChecks
      BY <2>1 DEF InChecks
    <2> QED BY <2>1, <2>3, <2>4, SpendingStays
  <1> QED BY <1>2, <1>3, <1>4

\* The counts of the providers only grow.
Grows == current <= current' /\ \A p \in 1..current : total[p] <= total'[p]

\* What a step adds to the results: nothing, a result that reports nothing, or
\* the report of an attempt whose checks ended, of at most one provider's count.
ReportStep ==
  \/ results' = results /\ reported' = reported
  \/ \E status \in Statuses, usage \in Nat :
       /\ results' = Append(results, status) /\ reported' = reported + usage
       /\ usage = 0 \/ (status # "error" /\ \E p \in 1..current' : usage <= total'[p])

LEMMA CountsGrow == Typed /\ [Next]_attemptVars => Grows
  <1> SUFFICES ASSUME Typed, [Next]_attemptVars PROVE Grows
    OBVIOUS
  <1>1. current \in Nat /\ total \in [1..current -> Nat] /\ exec.provider \in 1..current
    BY TypedFacts, ExecutorFacts DEF Typed
  <1>2. CASE Answered /\ current' = current
    BY <1>1, <1>2 DEF Answered, Grows
  <1>3. CASE OtherTaskAsks
    BY <1>1, <1>3 DEF OtherTaskAsks, Grows
  <1>4. CASE ReloadModel
    <2>1. current' = current + 1 /\ total' = Append(total, 0)
      BY <1>4 DEF ReloadModel
    <2>2. \A p \in 1..current : total'[p] = total[p]
      BY <1>1, <2>1, OneMoreProvider
    <2> QED BY <1>1, <2>1, <2>2 DEF Grows
  <1>5. CASE UNCHANGED <<tokens, current>>
    BY <1>1, <1>5, Alone DEF Grows
  <1> QED BY <1>2, <1>3, <1>4, <1>5, TokensMove

LEMMA ReportsNat ==
  ASSUME Typed
  PROVE  /\ Reports \in Nat
         /\ IsFiniteSet({i \in DOMAIN results : results[i] # "error"})
  <1>1. results \in Seq(Statuses) /\ Len(results) \in Nat
    BY TypedFacts DEF Typed
  <1>2. IsFiniteSet(1..Len(results)) /\ DOMAIN results = 1..Len(results)
    BY <1>1, FS_Interval
  <1>3. {i \in DOMAIN results : results[i] # "error"} \subseteq 1..Len(results)
    BY <1>2
  <1> QED BY <1>2, <1>3, FS_Subset, FS_CardinalityType DEF Reports

\* Only a result that is no error is one report more.
LEMMA ReportsGrow ==
  ASSUME Typed, NEW status \in Statuses, results' = Append(results, status)
  PROVE  Reports' = IF status = "error" THEN Reports ELSE Reports + 1
  <1> DEFINE n == Len(results)
             S == {i \in DOMAIN results : results[i] # "error"}
             T == {i \in DOMAIN results' : results'[i] # "error"}
  <1>1. results \in Seq(Statuses) /\ n \in Nat
    BY TypedFacts DEF Typed
  <1>2. /\ DOMAIN results = 1..n /\ DOMAIN results' = 1..(n + 1)
        /\ \A i \in 1..n : results'[i] = results[i]
        /\ results'[n + 1] = status
    <2>1. /\ results' \in Seq(Statuses) /\ Len(results') = n + 1
          /\ \A i \in 1..n : results'[i] = results[i]
          /\ results'[n + 1] = status
      BY <1>1, AppendProperties
    <2> QED BY <1>1, <2>1, LenProperties
  <1>3. 1..(n + 1) = 1..n \cup {n + 1} /\ n + 1 \notin 1..n
    BY <1>1
  <1>4. T = IF status = "error" THEN S ELSE S \cup {n + 1}
    BY <1>2, <1>3
  <1>5. n + 1 \notin S
    BY <1>2, <1>3
  <1>6. IsFiniteSet(S)
    BY ReportsNat
  <1>7. Reports = Cardinality(S) /\ Reports' = Cardinality(T)
    BY DEF Reports
  <1> HIDE DEF S, T
  <1>8. CASE status = "error"
    BY <1>4, <1>7, <1>8
  <1>9. CASE status # "error"
    <2>1. T = S \cup {n + 1}
      BY <1>4, <1>9
    <2>2. Cardinality(T) = Cardinality(S) + 1
      BY <1>5, <1>6, <2>1, FS_AddElement
    <2> QED BY <1>7, <1>9, <2>2
  <1> QED BY <1>8, <1>9

LEMMA Multiples ==
  ASSUME NEW n \in Nat, NEW a \in Nat, NEW b \in Nat, a <= b
  PROVE  /\ n * a \in Nat /\ n * b \in Nat /\ n * a <= n * b
         /\ (n + 1) * a = n * a + a
  <1>1. PICK d \in Nat : b = a + d
    <2>1. b - a \in Nat /\ b = a + (b - a)
      OBVIOUS
    <2> QED BY <2>1
  <1>2. n * b = n * a + n * d /\ n * d \in Nat /\ n * a \in Nat /\ n * b \in Nat
    BY <1>1
  <1>3. (n + 1) * a = n * a + a
    OBVIOUS
  <1> QED BY <1>2, <1>3

\* The sum stays within the reports, as long as each is of one provider.
LEMMA ReportsStay ==
  ASSUME Typed, Typed', CountedOncePerReport, Grows, ReportStep
  PROVE  CountedOncePerReport'
  <1>1. PICK p \in 1..current : reported <= Reports * total[p]
    BY DEF CountedOncePerReport
  <1>2. /\ current \in Nat /\ current' \in Nat /\ p \in 1..current'
        /\ total \in [1..current -> Nat] /\ total' \in [1..current' -> Nat]
        /\ total[p] <= total'[p] /\ reported \in Nat /\ Reports \in Nat
    <2>1. current \in Nat /\ total \in [1..current -> Nat] /\ reported \in Nat
      BY TypedFacts DEF Typed
    <2>2. (current \in Nat /\ total \in [1..current -> Nat])'
      <3>1. TypeOK'
        BY DEF Typed
      <3>2. current' \in 1..(MaxReloads + 1) /\ total' \in [1..current' -> Nat]
        BY <3>1 DEF TypeOK
      <3> QED BY <3>2, Positive
    <2> QED BY <2>1, <2>2, ReportsNat DEF Grows
  <1> DEFINE n == Reports
             a == total[p]
             b == total'[p]
  <1>3. n \in Nat /\ a \in Nat /\ b \in Nat /\ a <= b
    BY <1>2
  <1>4. CASE results' = results /\ reported' = reported
    <2>1. n * a <= n * b /\ n * a \in Nat /\ n * b \in Nat
      BY <1>3, Multiples
    <2>2. Reports' = n
      BY <1>4 DEF Reports
    <2>3. reported' <= n * b
      BY <1>1, <1>2, <1>4, <2>1
    <2> QED BY <1>2, <2>2, <2>3 DEF CountedOncePerReport
  <1>5. ASSUME NEW status \in Statuses, NEW usage \in Nat,
               results' = Append(results, status), reported' = reported + usage,
               usage = 0 \/ (status # "error" /\ \E q \in 1..current' : usage <= total'[q])
        PROVE  CountedOncePerReport'
    <2>1. Reports' = IF status = "error" THEN n ELSE n + 1
      BY <1>5, ReportsGrow
    <2>2. CASE usage = 0
      <3>1. n * a <= n * b /\ n * a \in Nat /\ n * b \in Nat /\ (n + 1) * b = n * b + b
        BY <1>3, Multiples
      <3>2. reported' <= n * b /\ reported' <= (n + 1) * b
        <4> DEFINE x == n * a
                   y == n * b
                   z == (n + 1) * b
        <4>1. /\ reported <= x /\ x <= y /\ z = y + b /\ b \in Nat
              /\ x \in Nat /\ y \in Nat
          BY <1>1, <1>3, <3>1
        <4>2. reported' = reported
          BY <1>2, <1>5, <2>2
        <4> HIDE DEF x, y, z, b
        <4>3. reported' <= y /\ reported' <= z
          BY <1>2, <4>1, <4>2
        <4> QED BY <4>3 DEF y, z, b
      <3>3. reported' <= Reports' * total'[p]
        BY <2>1, <3>2
      <3> QED BY <1>2, <3>3 DEF CountedOncePerReport
    <2>3. CASE usage # 0
      <3>1. PICK q \in 1..current' : usage <= total'[q]
        BY <1>5, <2>3
      <3>2. Reports' = n + 1
        BY <1>5, <2>1, <2>3
      <3>3. \E m \in 1..current' : a <= total'[m] /\ usage <= total'[m] /\ total'[m] \in Nat
        BY <1>2, <1>3, <3>1
      <3>4. PICK m \in 1..current' : a <= total'[m] /\ usage <= total'[m] /\ total'[m] \in Nat
        BY <3>3
      <3> DEFINE c == total'[m]
      <3>5. /\ n * a <= n * c /\ n * a \in Nat /\ n * c \in Nat /\ (n + 1) * c = n * c + c
            /\ c \in Nat /\ usage <= c
        BY <1>3, <3>4, Multiples
      <3>6. reported' <= (n + 1) * c
        <4>1. reported <= n * a /\ reported' = reported + usage
          BY <1>1, <1>5
        <4> HIDE DEF n, a, c
        <4> QED BY <1>2, <3>5, <4>1
      <3>7. reported' <= Reports' * total'[m]
        BY <3>2, <3>6
      <3> QED BY <3>7 DEF CountedOncePerReport
    <2> QED BY <2>2, <2>3
  <1> QED BY <1>4, <1>5 DEF ReportStep

\* What an attempt says it used, and the end of it, in the three ways it ends.
LEMMA FailReports ==
  ASSUME Typed, Fail
  PROVE  ReportStep
  <1>1. results' = Append(results, "error") /\ reported' = reported + 0
    BY DEF Fail, Settle
  <1> QED BY <1>1 DEF ReportStep, Statuses

LEMMA ChecksBeginReports ==
  ASSUME Typed, NEW executor \in Executors, executor.provider = exec.provider,
         exec.provider \in 1..current',
         NEW usage \in Nat, usage <= total'[exec.provider], RunChecks(executor, usage)
  PROVE  ReportStep /\ UsageWithin'
  <1>1. exec'.provider = exec.provider /\ exec'.usage = usage
    <2>1. \/ exec' = [executor EXCEPT !.usage = usage]
          \/ exec' = [executor EXCEPT !.check = 1, !.tries = 0, !.usage = usage]
      BY DEF RunChecks
    <2> QED BY <2>1 DEF Executors
  <1>2. CASE Settle("success", usage)
    <2>1. results' = Append(results, "success") /\ reported' = reported + usage
      BY <1>2 DEF Settle
    <2> QED BY <1>1, <2>1 DEF ReportStep, UsageWithin, Statuses
  <1>3. CASE UNCHANGED outcomes
    BY <1>1, <1>3, Alone DEF ReportStep, UsageWithin
  <1> QED BY <1>2, <1>3 DEF RunChecks

LEMMA CheckEndsReports ==
  ASSUME Typed, UsageWithin, NEW ok \in BOOLEAN, NEW executor \in {exec, Asked},
         exec.provider \in 1..current', total[exec.provider] <= total'[exec.provider],
         total'[exec.provider] \in Nat,
         NEW count \in [1..current -> Nat], count[exec.provider] = total'[exec.provider],
         Verdict(ok, executor, count)
  PROVE  ReportStep /\ UsageWithin'
  <1>1. /\ exec.usage \in Nat /\ exec \in Executors /\ total[exec.provider] \in Nat
        /\ executor \in Executors /\ executor.provider = exec.provider
        /\ executor.usage = exec.usage
    BY ExecutorFacts, TypedFacts, AskedFacts DEF Typed, Asked, Executors
  <1>2. exec'.provider = exec.provider /\ exec'.usage = exec.usage
    <2>1. \/ exec' = [executor EXCEPT !.passed = StillPasses(ok)]
          \/ exec' = [executor EXCEPT !.passed = StillPasses(ok), !.check = exec.check + 1,
                                      !.tries = 0]
          \/ exec' = [executor EXCEPT !.passed = StillPasses(ok), !.check = executor.check + 1,
                                      !.tries = 0]
      BY DEF Verdict
    <2> QED BY <1>1, <2>1 DEF Executors
  <1>3. UsageWithin'
    BY <1>1, <1>2 DEF UsageWithin
  <1> DEFINE usage == IF IsAgent THEN Usage(count) ELSE exec.usage
             status == IF StillPasses(ok) THEN "success" ELSE "partial"
  <1>4. usage \in Nat /\ usage <= total'[exec.provider] /\ status \in Statuses /\ status # "error"
    BY <1>1 DEF Usage, UsageWithin, Statuses
  <1> HIDE DEF usage, status
  <1>5. CASE Settle(status, usage)
    <2>1. results' = Append(results, status) /\ reported' = reported + usage
      BY <1>5 DEF Settle
    <2> QED BY <1>3, <1>4, <2>1 DEF ReportStep
  <1>6. CASE UNCHANGED outcomes
    BY <1>3, <1>6, Alone DEF ReportStep
  <1> QED BY <1>5, <1>6 DEF Verdict, usage, status

LEMMA ReportsKept ==
  ASSUME Typed, Typed', ReportsWithin, [Next]_attemptVars
  PROVE  ReportsWithin'
  <1>1. /\ current \in Nat /\ total \in [1..current -> Nat] /\ exec.provider \in 1..current
        /\ exec \in Executors /\ Asked \in Executors /\ Asked.provider = exec.provider
        /\ Asked.usage = exec.usage /\ exec.usage \in Nat
    BY TypedFacts, ExecutorFacts, AskedFacts DEF Typed, Asked, Executors
  <1>2. Grows
    BY CountsGrow
  <1>3. /\ current' \in Nat /\ total' \in [1..current' -> Nat] /\ exec.provider \in 1..current'
        /\ total[exec.provider] <= total'[exec.provider]
    <2>1. TypeOK'
      BY DEF Typed
    <2>2. current' \in 1..(MaxReloads + 1) /\ total' \in [1..current' -> Nat]
      BY <2>1 DEF TypeOK
    <2> QED BY <1>1, <1>2, <2>2, Positive DEF Grows
  <1>4. total[exec.provider] \in Nat /\ total'[exec.provider] \in Nat
        /\ UsageWithin /\ CountedOncePerReport
    BY <1>1, <1>3 DEF ReportsWithin
  <1>5. ASSUME exec'.provider = exec.provider, exec'.usage = exec.usage PROVE UsageWithin'
    BY <1>1, <1>3, <1>4, <1>5 DEF UsageWithin
  <1>6. SUFFICES ReportStep /\ UsageWithin'
    BY <1>2, <1>4, ReportsStay DEF ReportsWithin
  <1>7. CASE Begin
    <2>1. exec'.usage = 0 /\ exec'.provider = current /\ current' = current
      BY <1>7 DEF Begin, NewExecutor
    <2>2. current \in 1..current /\ total'[current] \in Nat
      BY <1>3, <2>1, TypedFacts DEF Typed
    <2>3. UsageWithin'
      BY <2>1, <2>2 DEF UsageWithin
    <2>4. reported + 0 = reported
      BY TypedFacts DEF Typed
    <2>5. \/ UNCHANGED outcomes
          \/ UNCHANGED reported /\ \E status \in Statuses : results' = Append(results, status)
      BY <1>7 DEF Begin, Statuses
    <2> QED BY <2>3, <2>4, <2>5, Alone DEF ReportStep
  <1>8. CASE \/ ScriptRefused \/ ScriptTimesOut \/ RequestFails \/ CheckFileFails \/ StepTimesOut
             \/ (Complete /\ exec' = Asked /\ Fail)
    <2>1. Fail /\ (exec' = exec \/ exec' = Asked)
      BY <1>8 DEF ScriptRefused, ScriptTimesOut, RequestFails, CheckFileFails, StepTimesOut
    <2> QED BY <1>1, <1>5, <2>1, FailReports
  <1>9. CASE ScriptEnds \/ ScriptDies
    <2>1. \E file \in File : ReadScriptOutput(file)
      <3>1. pc = "script"
        BY <1>9 DEF ScriptEnds, ScriptDies
      <3>2. Written(attempt) \subseteq File /\ out \in File
        BY <3>1, AttemptAtWork, WrittenIsFile, TypedFacts DEF AtWork, Typed
      <3> QED BY <1>9, <3>2 DEF ScriptEnds, ScriptDies
    <2>2. PICK file \in File : ReadScriptOutput(file)
      BY <2>1
    <2>3. CASE Fail /\ UNCHANGED exec
      BY <1>5, <2>3, FailReports
    <2>4. CASE file.data \notin {"none", "failed"}
               /\ RunChecks([exec EXCEPT !.output = file.data], 0)
      <3>1. file.data \in {"good", "bad"}
        BY <2>4 DEF File
      <3> DEFINE executor == [exec EXCEPT !.output = file.data]
      <3>2. executor \in Executors /\ executor.provider = exec.provider
        BY <1>1, <3>1 DEF Executors
      <3> HIDE DEF executor
      <3>3. RunChecks(executor, 0)
        BY <2>4 DEF executor
      <3>4. 0 \in Nat /\ 0 <= total'[exec.provider]
        BY <1>4
      <3> QED BY <1>3, <3>2, <3>3, <3>4, ChecksBeginReports
    <2> QED BY <2>2, <2>3, <2>4 DEF ReadScriptOutput
  <1>10. CASE (Complete \/ AgentAnswered) /\ RunChecks(Asked, Usage(total'))
    <2>1. Usage(total') = total'[exec.provider]
      BY DEF Usage
    <2> QED BY <1>1, <1>3, <1>4, <1>10, <2>1, ChecksBeginReports
  <1>11. CASE IterationsUsedUp
    <2>1. RunChecks(exec, Usage(total)) /\ total' = total
      BY <1>11 DEF IterationsUsedUp, tokens
    <2>2. Usage(total) = total'[exec.provider]
      BY <2>1 DEF Usage
    <2> QED BY <1>1, <1>3, <1>4, <2>1, <2>2, ChecksBeginReports
  <1>12. CASE \/ CheckUnknown \/ CheckOutput \/ CheckFile \/ CheckByProcess \/ CheckRunsOn
              \/ ModelDoesNotJudge
    <2>1. total' = total
      BY <1>12 DEF CheckUnknown, CheckOutput, CheckFile, CheckByProcess, CheckRunsOn,
                   ModelDoesNotJudge, tokens
    <2>2. \E ok \in BOOLEAN, executor \in {exec, Asked} : Verdict(ok, executor, total)
      <3>1. (exec.output = "good") \in BOOLEAN /\ (out.data = "good") \in BOOLEAN
        OBVIOUS
      <3> QED BY <1>12, <3>1 DEF CheckUnknown, CheckOutput, CheckFile, CheckByProcess,
                                 CheckRunsOn, ModelDoesNotJudge
    <2> QED BY <1>1, <1>3, <1>4, <2>1, <2>2, CheckEndsReports
  <1>13. CASE ModelJudges
    <2>1. Answered /\ current' = current /\ \E ok \in BOOLEAN : Verdict(ok, Asked, total')
      BY <1>13 DEF ModelJudges
    <2>2. total' \in [1..current -> Nat]
      BY <1>3, <2>1
    <2> QED BY <1>3, <1>4, <2>1, <2>2, CheckEndsReports
  <1>14. CASE \/ TryAgain \/ ToolRefused \/ ToolStarts \/ ToolEnds \/ NextIteration \/ AskModel
              \/ OtherTaskAsks \/ ReloadModel \/ UNCHANGED attemptVars
              \/ \E a \in lingering : Straggler(a)
              \/ (AgentAnswered /\ \E n \in 1..MaxCalls :
                                     exec' = [Asked EXCEPT !.todo = n, !.tries = 0])
                   /\ UNCHANGED outcomes
    <2>1. UNCHANGED outcomes
      BY <1>14 DEF TryAgain, ToolRefused, ToolStarts, ToolEnds, NextIteration, AskModel,
                   OtherTaskAsks, ReloadModel, attemptVars, Straggler, outcomes
    <2>2. exec'.provider = exec.provider /\ exec'.usage = exec.usage
      BY <1>1, <1>14 DEF TryAgain, ToolRefused, ToolStarts, ToolEnds, NextIteration, AskModel,
                   OtherTaskAsks, ReloadModel, attemptVars, Straggler, Executors
    <2> QED BY <1>5, <2>1, <2>2, Alone DEF ReportStep
  <1>15. CASE Complete
    BY <1>8, <1>10, <1>15 DEF Complete
  <1>16. CASE AgentAnswered
    BY <1>10, <1>14, <1>16 DEF AgentAnswered
  <1> QED BY <1>7, <1>8, <1>9, <1>11, <1>12, <1>13, <1>14, <1>15, <1>16 DEF Next, Proceed

LEMMA TokensStep == Typed /\ TokensCounted /\ [Next]_attemptVars => TokensCounted'
  <1> SUFFICES ASSUME Typed, TokensCounted, [Next]_attemptVars PROVE TokensCounted'
    OBVIOUS
  <1> USE DEF TokensCounted
  <1>1. Typed' /\ OwnWithin' /\ NothingSpent'
    BY TypedStep, OwnKept
  <1>2. ASSUME \/ ScriptRefused \/ ScriptTimesOut \/ RequestFails \/ CheckFileFails
               \/ StepTimesOut
        PROVE  ChecksCounted' /\ BudgetSeesFailedAttempts'
    <2>1. AtWork /\ Fail /\ UNCHANGED <<node, attempt>>
      BY <1>2 DEF ScriptRefused, ScriptTimesOut, RequestFails, CheckFileFails, StepTimesOut,
                  AtWork, Awaits, ProcessRuns
    <2> QED BY <1>1, <2>1, FailedSpending
  <1>3. ChecksCounted' /\ BudgetSeesFailedAttempts'
    BY <1>1, <1>2, BeginSpending, ScriptSpending, DialogueEndsSpending, ChecksSpending,
       OtherSpending DEF Next, Proceed
  <1>4. ReportsWithin'
    BY <1>1, ReportsKept
  <1> QED BY <1>1, <1>3, <1>4

\* The requests and tokens of a step, counted as it goes on.
SpendingInv == RequestsCounted /\ TokensCounted

LEMMA AlwaysCounted == AttemptsSpec => [](Typed /\ SpendingInv)
  <1>1. Init => Typed /\ SpendingInv
    BY InitTyped, InitRequests, InitTokens DEF SpendingInv
  <1>2. Typed /\ SpendingInv /\ [Next]_attemptVars => Typed' /\ SpendingInv'
    BY TypedStep, RequestsStep, TokensStep DEF SpendingInv
  <1> QED BY <1>1, <1>2, PTL DEF AttemptsSpec

(* Whatever the model answers and the network does, a step sends no more   *)
(* requests than its rounds, each tried over, allow, and leaves one result *)
(* for each attempt.  When it passes its results report at least what it   *)
(* spent on the provider of the attempt that passed, but for the requests  *)
(* a completion's checks sent; and they never report more than the count   *)
(* of one provider for each attempt whose checks ended.                    *)
THEOREM SpendingIsBounded == AttemptsSpec => []SpendingIsCounted
  <1>1. Typed /\ SpendingInv => SpendingIsCounted
    <2> SUFFICES ASSUME Typed, SpendingInv PROVE SpendingIsCounted
      OBVIOUS
    <2>1. ASSUME pc \in {"idle", "passed", "exhausted"}
          PROVE  Len(results) = attempt -
                   (IF ExecType = "system_check" /\ pc = "passed" THEN 1 ELSE 0)
      BY <2>1 DEF Typed, Where, AtWork
    <2> QED BY <2>1 DEF SpendingIsCounted, RequestsAreBounded, SpendingInv, RequestsCounted,
                        TokensCounted, ReportsWithin
  <1> QED BY <1>1, AlwaysCounted, PTL
=============================================================================
