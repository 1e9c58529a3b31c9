--------------------------- MODULE SessionsProofs ---------------------------
(***************************************************************************)
(* What Sessions promises holds for any number of sessions, passwords and  *)
(* rates, any life time, and any number of writes, faults and restarts.    *)
(* The argument about sessions is about places: a session is gone when     *)
(* neither AuthManager, nor a provider, nor a store has it, and no action  *)
(* makes one of a session that is gone.                                    *)
(***************************************************************************)
EXTENDS Sessions, TLAPS

Stores == {"redis", "process"}

\* No place has session t.
Gone(t) ==
  /\ t \notin memory
  /\ \A p \in Providers : t \notin copies[p]
  /\ \A s \in Stores : t \notin store[s]

\* A process that reaches redis uses nothing else: the store it has in its
\* memory is for one that was started without.
OneStore == current = "redis" => store["process"] = {}

EndedAreGone == \A t \in ended \ escaped : Gone(t)

\* Once SSO is mandatory no local session is left, and none can be made.
LocalsAreGone ==
  locked => file.sso = "on" /\ \A t \in Kind("local") \ escaped : Gone(t)

LiveAreStored == \A t \in Alive \ (ended \cup unsaved) : t \in store["redis"]

SessionInv == OneStore /\ EndedAreGone /\ LocalsAreGone /\ LiveAreStored

\* ConfigManager knows whether its copy is the file.
ConfigInv == (fresh => manager = file) /\ LimiterFollows

\* Both copies AuthManager writes from have the passwords last acknowledged, but
\* for those overwritten by a copy that nothing brought up to date.
SamePasswords(cfg) == \A f \in Fields \ lost : cfg[f] = acked[f]
PasswordsKept ==
  /\ SamePasswords(file) /\ (cached # None => SamePasswords(cached))
  /\ lost # {} => env.token

----------------------------------------------------------------------------
(* Configurations.                                                         *)

LEMMA NoneIsNoConfig == None \notin Config
  BY DEF None, Config

LEMMA ViewIsConfig == TypeOK => AuthView \in Config
  BY NoneIsNoConfig DEF TypeOK, AuthView

\* One password is exchanged.
LEMMA OneFieldChanged ==
  ASSUME NEW cfg \in Config, NEW f \in Fields, NEW pw \in Passwords
  PROVE  /\ [cfg EXCEPT ![f] = pw] \in Config
         /\ [cfg EXCEPT ![f] = pw].sso = cfg.sso
         /\ \A g \in Fields : [cfg EXCEPT ![f] = pw][g] = IF g = f THEN pw ELSE cfg[g]
<1>1. CASE f = "admin"
  BY <1>1 DEF Config, Fields
<1>2. CASE f = "operator"
  BY <1>2 DEF Config, Fields
<1> QED BY <1>1, <1>2 DEF Fields

\* TypeOK in two halves, of what each half of the variables holds.
ConfigOK ==
  /\ writes \in Nat
  /\ file \in Config /\ manager \in Config /\ cached \in Config \cup {None}
  /\ limits \in Rates /\ fresh \in BOOLEAN /\ locked \in BOOLEAN
  /\ acked \in [admin : Passwords, operator : Passwords] /\ lost \subseteq Fields
  /\ env \in Environments

SessionsOK ==
  /\ now \in Nat /\ faults \in Nat
  /\ issued \in Seq([kind : {"local", "sso"}, expires : Nat])
  /\ memory \subseteq Kind("local")
  /\ copies \in [Providers -> SUBSET Kind("sso")]
  /\ store \in [Stores -> SUBSET Alive]
  /\ current \in Stores
  /\ ended \subseteq Known /\ escaped \subseteq ended /\ unsaved \subseteq Known

LEMMA TypeHalves == TypeOK <=> ConfigOK /\ SessionsOK
  BY DEF TypeOK, ConfigOK, SessionsOK, Stores

LEMMA RateOf == \A c \in Config : c.rate \in Rates /\ c.sso \in Modes
  BY DEF Config

LEMMA AckedFieldChanged ==
  ASSUME TypeOK, NEW f \in Fields, NEW pw \in Passwords,
         acked' = [acked EXCEPT ![f] = pw]
  PROVE  /\ acked' \in [admin : Passwords, operator : Passwords]
         /\ \A g \in Fields : acked'[g] = IF g = f THEN pw ELSE acked[g]
<1>1. CASE f = "admin"
  BY <1>1 DEF TypeOK, Fields
<1>2. CASE f = "operator"
  BY <1>2 DEF TypeOK, Fields
<1> QED BY <1>1, <1>2 DEF Fields

----------------------------------------------------------------------------
(* What the configuration keeps, step by step.                             *)

\* Steps that do not write config.json: it may be read again.
ReadsOnly ==
  /\ UNCHANGED <<env, file, acked, lost, locked, writes>>
  /\ cached' \in {cached, AuthView, None}
  /\ \/ ReadConfig \/ IgnoreConfig
     \/ manager' = file /\ fresh' = TRUE /\ limits' = file.rate

ConfigKept == ConfigOK /\ ConfigInv

LEMMA ReadsKeep ==
  ASSUME TypeOK, ConfigInv, PasswordsKept, ReadsOnly
  PROVE  ConfigKept' /\ PasswordsKept'
<1>1. AuthView \in Config /\ file \in Config /\ manager \in Config /\ file.rate \in Rates
  BY ViewIsConfig, RateOf DEF TypeOK
<1>2. ConfigOK'
  BY <1>1 DEF ConfigOK, TypeOK, ReadsOnly, ReadConfig, Reload, IgnoreConfig
<1>3. ConfigInv'
  BY <1>1 DEF TypeOK, ConfigInv, LimiterFollows, ReadsOnly, ReadConfig, Reload, IgnoreConfig
<1>4. PasswordsKept'
  BY <1>1 DEF PasswordsKept, SamePasswords, ReadsOnly, AuthView
<1> QED BY <1>2, <1>3, <1>4 DEF ConfigKept

LEMMA ConfigStep ==
  ASSUME TypeOK, ConfigInv, PasswordsKept, [Next]_vars
  PROVE  ConfigKept' /\ PasswordsKept'
<1>0. AuthView \in Config /\ file \in Config /\ manager \in Config
  BY ViewIsConfig DEF TypeOK
<1>1. ASSUME NEW pw \in Passwords, Login(pw) \/ LoginRejected(pw) \/ ChangeRefused(pw)
      PROVE  ReadsOnly
  BY <1>1 DEF Login, LoginRejected, ChangeRefused, ReadsOnly
<1>2. ASSUME SsoLogin PROVE ReadsOnly
  BY <1>2 DEF SsoLogin, ReadsOnly
<1>3. ASSUME NEW t \in Tokens, NEW p \in Providers, Check(t, p) PROVE ReadsOnly
  BY <1>3 DEF Check, ReadsOnly
<1>4. ASSUME NEW t \in Tokens, Logout(t) PROVE ReadsOnly
  BY <1>4 DEF Logout, ReadsOnly
<1>5. ASSUME Pass \/ Restart PROVE ReadsOnly
  BY <1>5 DEF Pass, Restart, ReadsOnly, IgnoreConfig
<1>6. ASSUME NEW f \in Fields, NEW old \in Passwords, NEW new \in Passwords,
             ChangePassword(f, old, new)
      PROVE  ConfigKept' /\ PasswordsKept'
  <2>1. /\ file' = [AuthView EXCEPT ![f] = new] /\ cached' = None /\ fresh' = FALSE
        /\ manager' = file /\ limits' = IF fresh THEN limits ELSE file.rate
        /\ acked' = [acked EXCEPT ![f] = new] /\ lost' = lost \ {f}
        /\ writes' \in Nat /\ locked' \in BOOLEAN /\ env' = env
    BY <1>6 DEF ChangePassword, Reload, Invalidated, TypeOK
  <2>2. ConfigOK'
    BY <1>0, <2>1, OneFieldChanged, AckedFieldChanged, RateOf DEF ConfigOK, TypeOK, Fields
  <2>3. ConfigInv'
    BY <2>1 DEF ConfigInv, LimiterFollows
  <2>4. PasswordsKept'
    <3>1. SamePasswords(AuthView)
      BY DEF PasswordsKept, AuthView
    <3>2. \A g \in Fields : file'[g] = IF g = f THEN new ELSE AuthView[g]
      BY <1>0, <2>1, OneFieldChanged DEF Fields
    <3>3. \A g \in Fields : acked'[g] = IF g = f THEN new ELSE acked[g]
      BY <2>1, AckedFieldChanged
    <3>4. \A g \in Fields \ lost' : g # f => g \in Fields \ lost
      BY <2>1
    <3>5. SamePasswords(file)'
      BY <3>1, <3>2, <3>3, <3>4 DEF SamePasswords
    <3>6. cached' = None /\ (lost' # {} => env'.token)
      BY <2>1 DEF PasswordsKept
    <3> QED BY <3>5, <3>6 DEF PasswordsKept
  <2> QED BY <2>2, <2>3, <2>4 DEF ConfigKept
<1>7. ASSUME NEW cfg \in Config, Overwrite(cfg), cached' = AuthView, writes' \in Nat,
             locked' \in BOOLEAN, acked' = acked, env' = env, lost' \subseteq Fields,
             lost \subseteq lost', lost' # {} => env.token,
             \A f \in Fields \ lost' : cfg[f] = acked[f]
      PROVE  ConfigKept' /\ PasswordsKept'
  <2>1. ConfigKept'
    BY <1>0, <1>7, RateOf DEF Overwrite, ConfigKept, ConfigOK, ConfigInv, LimiterFollows, TypeOK
  <2>2. PasswordsKept'
    BY <1>7 DEF Overwrite, PasswordsKept, SamePasswords, AuthView
  <2> QED BY <2>1, <2>2
<1>8. ASSUME NEW m \in Modes, NEW r \in Rates, UpdateConfig(m, r)
      PROVE  ConfigKept' /\ PasswordsKept'
  <2> DEFINE after == [file EXCEPT !.sso = m, !.rate = r]
  <2>1. after \in Config /\ after.admin = file.admin /\ after.operator = file.operator
    BY <1>0 DEF Config
  <2>2. /\ Overwrite(after) /\ cached' = AuthView /\ writes' \in Nat
        /\ locked' \in BOOLEAN /\ acked' = acked /\ env' = env /\ lost' = lost
    BY <1>8 DEF UpdateConfig, TypeOK
  <2> HIDE DEF after
  <2>3. \A f \in Fields \ lost : after[f] = acked[f]
    BY <2>1 DEF PasswordsKept, SamePasswords, Fields
  <2>4. lost \subseteq Fields /\ (lost # {} => env.token)
    BY DEF TypeOK, PasswordsKept
  <2> QED BY <1>7, <2>1, <2>2, <2>3, <2>4
<1>9. ASSUME SetWorkflow PROVE ConfigKept' /\ PasswordsKept'
  <2>1. /\ Overwrite(BeforeSet) /\ cached' = AuthView /\ writes' \in Nat
        /\ locked' \in BOOLEAN /\ acked' = acked /\ env' = env
        /\ lost' = IF env.token THEN lost \cup {f \in Fields : manager[f] # acked[f]} ELSE lost
    BY <1>9 DEF SetWorkflow, TypeOK
  <2>2. BeforeSet \in Config
    BY <1>0 DEF BeforeSet
  <2>3. \A f \in Fields \ lost' : BeforeSet[f] = acked[f]
    BY <2>1 DEF BeforeSet, PasswordsKept, SamePasswords
  <2>4. lost' \subseteq Fields /\ lost \subseteq lost' /\ (lost' # {} => env.token)
    BY <2>1 DEF TypeOK, PasswordsKept
  <2> QED BY <1>7, <2>1, <2>2, <2>3, <2>4
<1>10. ASSUME NEW m \in Modes, NEW r \in Rates, EditFile(m, r)
       PROVE  ConfigKept' /\ PasswordsKept'
  <2>1. file' \in Config /\ file'.admin = file.admin /\ file'.operator = file.operator
    BY <1>0, <1>10 DEF EditFile, Config
  <2>2. /\ fresh' = FALSE /\ locked' = FALSE /\ writes' \in Nat
        /\ UNCHANGED <<env, limits, manager, cached, acked, lost>>
    BY <1>10 DEF EditFile, TypeOK
  <2>3. \A f \in Fields : file'[f] = file[f]
    BY <2>1 DEF Fields
  <2> QED BY <2>1, <2>2, <2>3 DEF ConfigKept, ConfigOK, TypeOK, ConfigInv, LimiterFollows,
             PasswordsKept, SamePasswords
<1>11. ASSUME UNCHANGED vars PROVE ReadsOnly
  BY <1>11 DEF vars, configVars, sessionVars, ReadsOnly, IgnoreConfig
<1> QED
  BY <1>1, <1>2, <1>3, <1>4, <1>5, <1>6, <1>8, <1>9, <1>10, <1>11, ReadsKeep DEF Next

----------------------------------------------------------------------------
(* Sessions that are there before and after a step.                        *)

NoneNew == issued' = issued /\ now' = now

LEMMA SameSessions ==
  ASSUME NoneNew
  PROVE  /\ Known' = Known /\ Alive' = Alive
         /\ Kind("local")' = Kind("local") /\ Kind("sso")' = Kind("sso")
  BY DEF NoneNew, Known, Alive, Kind

LEMMA OneNew ==
  ASSUME TypeOK, NEW k \in {"local", "sso"}, Issue(k), now' = now
  PROVE  /\ issued' \in Seq([kind : {"local", "sso"}, expires : Nat])
         /\ Fresh \notin Known /\ Known' = Known \cup {Fresh}
         /\ Alive' = Alive \cup {Fresh}
         /\ Kind("local")' = Kind("local") \cup (IF k = "local" THEN {Fresh} ELSE {})
         /\ Kind("sso")' = Kind("sso") \cup (IF k = "sso" THEN {Fresh} ELSE {})
<1> DEFINE Session == [kind : {"local", "sso"}, expires : Nat]
           s == [kind |-> k, expires |-> now + Lifetime]
<1>1. s \in Session /\ now < now + Lifetime
  BY SessionsAssumption DEF TypeOK
<1>2. issued \in Seq(Session) /\ issued' = Append(issued, s)
  BY DEF TypeOK, Issue
<1>3. s.kind = k /\ s.expires = now + Lifetime
  OBVIOUS
<1> HIDE DEF s
<1>4. /\ issued' \in Seq(Session) /\ Len(issued') = Len(issued) + 1
      /\ issued'[Len(issued) + 1] = s
      /\ \A t \in 1..Len(issued) : issued'[t] = issued[t]
  <2> HIDE DEF Session
  <2> QED BY <1>1, <1>2
<1>5. Known = 1..Len(issued) /\ Known' = 1..(Len(issued) + 1) /\ Len(issued) \in Nat
  BY <1>2, <1>4 DEF Known
<1>6. Fresh \notin Known /\ Known' = Known \cup {Fresh}
  BY <1>5 DEF Fresh
<1>7. \A t \in Known : issued'[t] = issued[t]
  BY <1>4, <1>5
<1>8. issued'[Fresh] = s
  BY <1>4 DEF Fresh
<1>9. Alive' = Alive \cup {Fresh}
  BY <1>1, <1>3, <1>6, <1>7, <1>8 DEF Alive
<1>10. /\ Kind("local")' = Kind("local") \cup (IF k = "local" THEN {Fresh} ELSE {})
       /\ Kind("sso")' = Kind("sso") \cup (IF k = "sso" THEN {Fresh} ELSE {})
  BY <1>3, <1>6, <1>7, <1>8 DEF Kind
<1> QED BY <1>4, <1>6, <1>9, <1>10

LEMMA KnownFacts ==
  ASSUME TypeOK
  PROVE  /\ Alive \subseteq Known /\ Kind("local") \subseteq Known
         /\ Kind("sso") \subseteq Known
         /\ Known = Kind("local") \cup Kind("sso") /\ Kind("local") \cap Kind("sso") = {}
<1> DEFINE Session == [kind : {"local", "sso"}, expires : Nat]
<1>1. issued \in Seq(Session)
  BY DEF TypeOK
<1>2. \A t \in Known : issued[t] \in Session
  <2> HIDE DEF Session
  <2> QED BY <1>1 DEF Known
<1>3. \A t \in Known : issued[t].kind \in {"local", "sso"}
  BY <1>2
<1> QED BY <1>3 DEF Alive, Kind

LEMMA LifeTimes ==
  ASSUME TypeOK
  PROVE  \A t \in Known : issued[t].expires \in Nat
<1> DEFINE Session == [kind : {"local", "sso"}, expires : Nat]
<1>1. issued \in Seq(Session)
  BY DEF TypeOK
<1>2. \A t \in Known : issued[t] \in Session
  <2> HIDE DEF Session
  <2> QED BY <1>1 DEF Known
<1> QED BY <1>2

\* What the configuration's reading does to the providers.
LEMMA EmptiedFacts ==
  ASSUME TypeOK
  PROVE  /\ Emptied \in [Providers -> SUBSET Kind("sso")]
         /\ \A p \in Providers : Emptied[p] \subseteq copies[p]
  BY DEF TypeOK, Emptied

SessionsKept == SessionsOK /\ SessionInv

USE DEF Stores, Providers

\* A new session, put where it belongs; with redis in reach it is there.
LEMMA IssueKeeps ==
  ASSUME TypeOK, SessionInv, NEW k \in {"local", "sso"}, Issue(k), now' = now,
         k = "local" => file.sso # "on",
         faults' \in Nat,
         memory' \subseteq memory \cup (IF k = "local" THEN {Fresh} ELSE {}),
         copies' \in [Providers -> SUBSET Kind("sso")'],
         \A p \in Providers : copies'[p] \subseteq copies[p] \cup {Fresh},
         \/ Saved(Fresh)
         \/ store' = store /\ unsaved' = unsaved \cup {Fresh},
         UNCHANGED <<file, locked, current, ended, escaped>>
  PROVE  SessionsKept'
<1>1. /\ issued' \in Seq([kind : {"local", "sso"}, expires : Nat])
      /\ Fresh \notin Known /\ Known' = Known \cup {Fresh}
      /\ Alive' = Alive \cup {Fresh}
      /\ Kind("local")' = Kind("local") \cup (IF k = "local" THEN {Fresh} ELSE {})
      /\ Kind("sso")' = Kind("sso") \cup (IF k = "sso" THEN {Fresh} ELSE {})
  BY OneNew
<1>2. /\ store' \in [Stores -> SUBSET Alive']
      /\ \A s \in Stores : store[s] \subseteq store'[s] /\ store'[s] \subseteq store[s] \cup {Fresh}
      /\ unsaved \subseteq unsaved' /\ unsaved' \subseteq unsaved \cup {Fresh}
      /\ Fresh \in unsaved' \cup store'["redis"]
      /\ current = "redis" => store'["process"] = store["process"]
  BY <1>1 DEF Saved, TypeOK
<1>3. SessionsOK'
  BY <1>1, <1>2 DEF SessionsOK, TypeOK
<1>4. \A t \in Known : Gone(t) => Gone(t)'
  BY <1>1, <1>2 DEF Gone
<1>5. OneStore'
  BY <1>2 DEF OneStore, SessionInv
<1>6. EndedAreGone'
  BY <1>4 DEF EndedAreGone, SessionInv, TypeOK
<1>7. LocalsAreGone'
  BY <1>1, <1>4, KnownFacts DEF LocalsAreGone, SessionInv
<1>8. LiveAreStored'
  BY <1>1, <1>2 DEF LiveAreStored, SessionInv
<1> QED BY <1>3, <1>5, <1>6, <1>7, <1>8 DEF SessionsKept, SessionInv

\* No session begins or ends; what was there may be dropped or copied.
LEMMA MovesKeep ==
  ASSUME TypeOK, SessionInv, NoneNew, faults' \in Nat,
         memory' \subseteq Kind("local"), copies' \in [Providers -> SUBSET Kind("sso")],
         \A t \in Known : Gone(t) => Gone(t)',
         UNCHANGED <<store, current, ended, escaped, unsaved>>,
         locked' => locked /\ file'.sso = "on"
  PROVE  SessionsKept'
<1>1. SessionsOK'
  BY SameSessions DEF SessionsOK, TypeOK, NoneNew
<1>2. OneStore' /\ LiveAreStored'
  BY SameSessions DEF OneStore, LiveAreStored, SessionInv
<1>3. EndedAreGone'
  BY DEF EndedAreGone, SessionInv, TypeOK
<1>4. LocalsAreGone'
  BY SameSessions, KnownFacts DEF LocalsAreGone, SessionInv
<1> QED BY <1>1, <1>2, <1>3, <1>4 DEF SessionsKept, SessionInv

\* Sessions ts end, each gone or escaped; all others stay where they were stored.
LEMMA EndKeeps ==
  ASSUME TypeOK, SessionInv, NoneNew, faults' \in Nat,
         NEW ts \in SUBSET Known,
         memory' \subseteq memory, copies' \in [Providers -> SUBSET Kind("sso")],
         \A p \in Providers : copies'[p] \subseteq copies[p],
         store' \in [Stores -> SUBSET Alive],
         \A s \in Stores : store'[s] \subseteq store[s] /\ store[s] \ store'[s] \subseteq ts,
         ended' = ended \cup ts, escaped \subseteq escaped', escaped' \subseteq escaped \cup ts,
         \A t \in ts \ escaped' : Gone(t)',
         UNCHANGED <<current, unsaved>>,
         locked' => \/ locked /\ file'.sso = "on"
                    \/ file'.sso = "on" /\ ts = Kind("local")
  PROVE  SessionsKept'
<1>1. SessionsOK'
  BY SameSessions DEF SessionsOK, TypeOK, NoneNew
<1>2. \A t \in Known : Gone(t) => Gone(t)'
  BY DEF Gone
<1>3. OneStore'
  BY DEF OneStore, SessionInv
<1>4. LiveAreStored'
  BY SameSessions DEF LiveAreStored, SessionInv
<1>5. EndedAreGone'
  BY <1>2 DEF EndedAreGone, SessionInv, TypeOK
<1>6. LocalsAreGone'
  BY <1>2, SameSessions, KnownFacts DEF LocalsAreGone, SessionInv
<1> QED BY <1>1, <1>3, <1>4, <1>5, <1>6 DEF SessionsKept, SessionInv

----------------------------------------------------------------------------
(* What sessions keep, step by step.                                       *)

LEMMA LoginKeeps ==
  ASSUME TypeOK, SessionInv, NEW pw \in Passwords, Login(pw)
  PROVE  SessionsKept'
<1>1. CASE StoreWorks /\ Issue("local") /\ Persist(Fresh)
  <2>1. memory' \subseteq memory \cup {Fresh} /\ Saved(Fresh) /\ faults' \in Nat
    BY <1>1 DEF Persist, Kept, StoreWorks, TypeOK
  <2>2. /\ copies' \in [Providers -> SUBSET Kind("sso")']
        /\ \A p \in Providers : copies'[p] \subseteq copies[p] \cup {Fresh}
    BY <1>1, EmptiedFacts, OneNew DEF Login
  <2> QED BY <1>1, <2>1, <2>2, IssueKeeps DEF Login
<1>2. CASE StoreFails /\ UNCHANGED <<issued, memory, store, unsaved>>
  <2>1. faults' \in Nat /\ NoneNew
    BY <1>2 DEF Login, StoreFails, TypeOK, NoneNew
  <2>2. /\ copies' \in [Providers -> SUBSET Kind("sso")]
        /\ \A p \in Providers : copies'[p] \subseteq copies[p]
    BY EmptiedFacts DEF Login
  <2>3. \A t \in Known : Gone(t) => Gone(t)'
    BY <1>2, <2>2 DEF Gone
  <2> QED BY <1>2, <2>1, <2>2, <2>3, MovesKeep
      DEF Login, TypeOK, SessionInv, LocalsAreGone
<1> QED BY <1>1, <1>2 DEF Login

LEMMA LoginRejectedKeeps ==
  ASSUME TypeOK, SessionInv, NEW pw \in Passwords, LoginRejected(pw)
  PROVE  SessionsKept'
<1>1. faults' \in Nat /\ NoneNew
  BY DEF LoginRejected, TypeOK, NoneNew
<1>2. /\ copies' \in [Providers -> SUBSET Kind("sso")]
      /\ \A p \in Providers : copies'[p] \subseteq copies[p]
  BY EmptiedFacts DEF LoginRejected
<1>3. \A t \in Known : Gone(t) => Gone(t)'
  BY <1>2 DEF LoginRejected, Gone
<1> QED BY <1>1, <1>2, <1>3, MovesKeep DEF LoginRejected, TypeOK, SessionInv, LocalsAreGone

LEMMA ChangeRefusedKeeps ==
  ASSUME TypeOK, SessionInv, NEW pw \in Passwords, ChangeRefused(pw)
  PROVE  SessionsKept'
<1>1. memory' \subseteq memory \cup {Fresh} /\ Saved(Fresh) /\ faults' \in Nat
  BY DEF ChangeRefused, Persist, Kept, TypeOK
<1>2. /\ copies' \in [Providers -> SUBSET Kind("sso")']
      /\ \A p \in Providers : copies'[p] \subseteq copies[p] \cup {Fresh}
  BY EmptiedFacts, OneNew DEF ChangeRefused
<1> QED BY <1>1, <1>2, IssueKeeps DEF ChangeRefused

LEMMA SsoLoginKeeps ==
  ASSUME TypeOK, SessionInv, SsoLogin
  PROVE  SessionsKept'
<1>1. Issue("sso") /\ now' = now /\ Kind("sso")' = Kind("sso") \cup {Fresh}
  BY OneNew DEF SsoLogin
<1>2. /\ copies' \in [Providers -> SUBSET Kind("sso")']
      /\ \A p \in Providers : copies'[p] \subseteq copies[p] \cup {Fresh}
  BY <1>1, EmptiedFacts DEF SsoLogin
<1>3. faults' \in Nat
  BY DEF SsoLogin, StoreWorks, StoreFails, TypeOK
<1> QED BY <1>1, <1>2, <1>3, IssueKeeps DEF SsoLogin

\* A look-up keeps what it found, and it finds nothing that is gone.
LEMMA LookUpMoves ==
  ASSUME TypeOK, NEW t \in Known, NEW p \in Providers, NEW mode,
         NEW held \in [Providers -> SUBSET Kind("sso")],
         \A q \in Providers : held[q] \subseteq copies[q],
         LookedUp(t, p, held, mode)
  PROVE  /\ faults' \in Nat /\ memory' \subseteq Kind("local")
         /\ copies' \in [Providers -> SUBSET Kind("sso")]
         /\ store' = store => \A s \in Known : Gone(s) => Gone(s)'
<1>1. faults' \in Nat
  BY DEF LookedUp, StoreWorks, StoreFails, TypeOK
<1>2. /\ AcceptsLocal(t) => t \in Kind("local") /\ ~Gone(t)
      /\ FoundSso(t, held[p], mode) => t \in Kind("sso") /\ ~Gone(t)
  BY DEF AcceptsLocal, FoundSso, InStore, Gone, TypeOK
<1>3. /\ memory' \subseteq memory \cup {s \in {t} : AcceptsLocal(s)}
      /\ \/ copies' = held
         \/ copies' = [held EXCEPT ![p] = @ \cup {s \in {t} : FoundSso(s, held[p], mode)}]
  BY DEF LookedUp, Kept
<1> QED BY <1>1, <1>2, <1>3 DEF Gone, TypeOK

LEMMA CheckKeeps ==
  ASSUME TypeOK, SessionInv, NEW t \in Tokens, NEW p \in Providers, Check(t, p)
  PROVE  SessionsKept'
<1>1. NoneNew /\ t \in Known
  BY DEF Check, NoneNew
<1>2. /\ faults' \in Nat /\ memory' \subseteq Kind("local")
      /\ copies' \in [Providers -> SUBSET Kind("sso")]
      /\ \A s \in Known : Gone(s) => Gone(s)'
  <2>1. CASE LookedUp(t, p, Emptied, file.sso)
    BY <1>1, <2>1, EmptiedFacts, LookUpMoves DEF Check
  <2>2. CASE LookedUp(t, p, copies, manager.sso)
    BY <1>1, <2>2, LookUpMoves DEF Check, TypeOK
  <2> QED BY <2>1, <2>2 DEF Check
<1> QED BY <1>1, <1>2, MovesKeep DEF Check, TypeOK, SessionInv, LocalsAreGone

LEMMA LogoutKeeps ==
  ASSUME TypeOK, SessionInv, NEW t \in Tokens, Logout(t)
  PROVE  SessionsKept'
<1>1. NoneNew /\ t \in Known
  BY DEF Logout, NoneNew
<1>2. PICK reads \in BOOLEAN :
       LET mode == IF reads THEN file.sso ELSE manager.sso
           held == IF reads THEN Emptied ELSE copies
           gone == IF mode = "off" THEN {t} \cap Kind("local") ELSE {t}
       IN /\ memory' = memory \ {t}
          /\ copies' = [held EXCEPT !["login"] = @ \ gone]
          /\ \/ /\ StoreWorks
                /\ store' = Without(gone)
                /\ End({t}, held, LeftInRedis({t}) \cup ({t} \ gone))
             \/ /\ StoreFails
                /\ store' = store
                /\ End({t}, held, {t})
  BY DEF Logout
<1> DEFINE mode == IF reads THEN file.sso ELSE manager.sso
           held == IF reads THEN Emptied ELSE copies
           gone == IF mode = "off" THEN {t} \cap Kind("local") ELSE {t}
<1>3. /\ held \in [Providers -> SUBSET Kind("sso")]
      /\ \A p \in Providers : held[p] \subseteq copies[p]
  BY EmptiedFacts DEF TypeOK
<1>4. gone \in SUBSET {t}
  OBVIOUS
<1> HIDE DEF held, gone, mode
<1>5. /\ memory' = memory \ {t}
      /\ copies' = [held EXCEPT !["login"] = @ \ gone]
      /\ \/ /\ StoreWorks
            /\ store' = Without(gone)
            /\ End({t}, held, LeftInRedis({t}) \cup ({t} \ gone))
         \/ /\ StoreFails
            /\ store' = store
            /\ End({t}, held, {t})
  BY <1>2 DEF held, gone, mode
<1>6. faults' \in Nat
  BY <1>5 DEF StoreWorks, StoreFails, TypeOK
<1>7. /\ copies' \in [Providers -> SUBSET Kind("sso")]
      /\ \A p \in Providers : copies'[p] \subseteq copies[p]
      /\ copies'["login"] = held["login"] \ gone /\ copies'["deps"] = held["deps"]
  BY <1>3, <1>5
<1>8. /\ store' \in [Stores -> SUBSET Alive]
      /\ \A s \in Stores : store'[s] \subseteq store[s] /\ store[s] \ store'[s] \subseteq {t}
  BY <1>4, <1>5 DEF Without, TypeOK
<1>9. /\ ended' = ended \cup {t} /\ escaped \subseteq escaped'
      /\ escaped' \subseteq escaped \cup {t}
  BY <1>5 DEF End
<1>10. t \notin escaped' => Gone(t)'
  <2>1. CASE StoreFails
    BY <1>5, <2>1 DEF End, StoreFails, StoreWorks, TypeOK
  <2>2. CASE /\ store' = Without(gone)
             /\ End({t}, held, LeftInRedis({t}) \cup ({t} \ gone))
    <3>1. SUFFICES ASSUME t \notin escaped' PROVE Gone(t)'
      OBVIOUS
    <3>2. t \in gone /\ t \notin held["deps"] /\ t \notin LeftInRedis({t})
      BY <2>2, <3>1 DEF End
    <3>3. t \notin memory' /\ \A p \in Providers : t \notin copies'[p]
      BY <1>5, <1>7, <3>2
    <3>4. \A s \in Stores : t \notin store'[s]
      BY <2>2, <3>2 DEF Without, LeftInRedis, SessionInv, OneStore, TypeOK
    <3> QED BY <3>3, <3>4 DEF Gone
  <2> QED BY <1>5, <2>1, <2>2
<1> QED
  <2>1. memory' \subseteq memory /\ UNCHANGED <<current, unsaved>> /\ {t} \in SUBSET Known
    BY <1>1, <1>5 DEF Logout
  <2>2. locked' => locked /\ file'.sso = "on"
    BY DEF Logout, SessionInv, LocalsAreGone
  <2> QED BY <1>1, <1>6, <1>7, <1>8, <1>9, <1>10, <2>1, <2>2, EndKeeps

\* Every local session ends; with the store in reach none escapes, except what
\* redis has while the process uses its own memory.
LEMMA RevokeFacts ==
  ASSUME TypeOK, SessionInv, RevokeAll, Alive' = Alive,
         NEW held \in [Providers -> SUBSET Kind("sso")], copies' = held
  PROVE  /\ faults' \in Nat /\ memory' \subseteq memory
         /\ store' \in [Stores -> SUBSET Alive]
         /\ \A s \in Stores : store'[s] \subseteq store[s]
                              /\ store[s] \ store'[s] \subseteq Kind("local")
         /\ ended' = ended \cup Kind("local")
         /\ escaped \subseteq escaped' /\ escaped' \subseteq escaped \cup Kind("local")
         /\ \A t \in Kind("local") \ escaped' : Gone(t)'
<1> DEFINE locals == Kind("local")
           none == [p \in Providers |-> {}]
<1>1. /\ memory' = {}
      /\ \/ StoreWorks /\ store' = Without(Revoked) /\ End(locals, none, LeftInRedis(locals))
         \/ StoreFails /\ store' = store /\ End(locals, none, locals)
  BY DEF RevokeAll
<1>2. faults' \in Nat
  BY <1>1 DEF StoreWorks, StoreFails, TypeOK
<1>3. /\ store' \in [Stores -> SUBSET Alive]
      /\ \A s \in Stores : store'[s] \subseteq store[s] /\ store[s] \ store'[s] \subseteq locals
  BY <1>1 DEF Without, Revoked, TypeOK
<1>4. /\ ended' = ended \cup locals
      /\ escaped \subseteq escaped' /\ escaped' \subseteq escaped \cup locals
  BY <1>1 DEF End
<1>5. ASSUME NEW t \in locals, t \notin escaped' PROVE Gone(t)'
  <2>1. /\ store' = Without(Revoked) /\ t \notin LeftInRedis(locals)
    BY <1>1, <1>5 DEF End
  <2>2. \A s \in Stores : t \notin store'[s]
    BY <2>1 DEF Without, Revoked, LeftInRedis, SessionInv, OneStore, TypeOK
  <2>3. \A p \in Providers : t \notin copies'[p]
    BY KnownFacts
  <2> QED BY <1>1, <2>2, <2>3 DEF Gone
<1> QED BY <1>1, <1>2, <1>3, <1>4, <1>5

LEMMA ChangePasswordKeeps ==
  ASSUME TypeOK, SessionInv, NEW f \in Fields, NEW old \in Passwords,
         NEW new \in Passwords, ChangePassword(f, old, new)
  PROVE  SessionsKept'
<1>1. NoneNew /\ RevokeAll /\ copies' = Emptied
  BY DEF ChangePassword, NoneNew
<1>2. ~locked'
  BY DEF ChangePassword, SessionInv, LocalsAreGone
<1> QED BY <1>1, <1>2, EmptiedFacts, KnownFacts, SameSessions, RevokeFacts, EndKeeps
    DEF ChangePassword

LEMMA UpdateConfigKeeps ==
  ASSUME TypeOK, SessionInv, NEW m \in Modes, NEW r \in Rates, UpdateConfig(m, r)
  PROVE  SessionsKept'
<1> DEFINE after == [file EXCEPT !.sso = m, !.rate = r]
           none == [p \in Providers |-> {}]
<1>1. file' = after /\ after.sso = m /\ NoneNew /\ copies' = none
  BY DEF UpdateConfig, Overwrite, NoneNew, TypeOK, Config
<1>2. none \in [Providers -> SUBSET Kind("sso")]
  OBVIOUS
<1>3. CASE MustRevoke(file, after) /\ RevokeAll
  <2>1. locked' => file'.sso = "on"
    BY <1>1 DEF UpdateConfig
  <2> QED BY <1>1, <1>2, <1>3, <2>1, KnownFacts, SameSessions, RevokeFacts, EndKeeps
      DEF UpdateConfig
<1>4. CASE ~MustRevoke(file, after) /\ UNCHANGED <<memory, store, ended, escaped, faults>>
  <2>1. m = "on" => file.sso = "on"
    BY <1>1, <1>4 DEF MustRevoke, TypeOK, Config, Modes
  <2>2. locked' => locked /\ file'.sso = "on"
    <3>1. locked' => m = "on" /\ (locked \/ file.sso # "on")
      BY DEF UpdateConfig
    <3> HIDE DEF after
    <3> QED BY <1>1, <2>1, <3>1
  <2>3. \A t \in Known : Gone(t) => Gone(t)'
    BY <1>1, <1>4 DEF Gone
  <2> QED BY <1>1, <1>2, <1>4, <2>2, <2>3, MovesKeep DEF UpdateConfig, TypeOK
<1> QED BY <1>3, <1>4 DEF UpdateConfig

LEMMA SetWorkflowKeeps ==
  ASSUME TypeOK, SessionInv, SetWorkflow
  PROVE  SessionsKept'
<1>1. NoneNew /\ faults' \in Nat
  BY DEF SetWorkflow, NoneNew, TypeOK
<1>2. /\ copies' \in [Providers -> SUBSET Kind("sso")]
      /\ \A p \in Providers : copies'[p] = {}
  BY DEF SetWorkflow, Overwrite
<1>3. locked' => locked /\ file'.sso = "on"
  BY DEF SetWorkflow, Overwrite
<1>4. \A t \in Known : Gone(t) => Gone(t)'
  BY <1>2 DEF SetWorkflow, Gone
<1> QED BY <1>1, <1>2, <1>3, <1>4, MovesKeep DEF SetWorkflow, TypeOK

LEMMA EditFileKeeps ==
  ASSUME TypeOK, SessionInv, NEW m \in Modes, NEW r \in Rates, EditFile(m, r)
  PROVE  SessionsKept'
<1>1. NoneNew /\ ~locked' /\ UNCHANGED sessionVars
  BY DEF EditFile, sessionVars, NoneNew
<1>2. \A t \in Known : Gone(t) => Gone(t)'
  BY <1>1 DEF Gone, sessionVars
<1> QED BY <1>1, <1>2, MovesKeep DEF sessionVars, TypeOK

\* Time takes sessions out of the store, and then they are alive no longer.
LEMMA PassKeeps ==
  ASSUME TypeOK, SessionInv, Pass
  PROVE  SessionsKept'
<1>1. /\ now' = now + 1 /\ now' \in Nat
      /\ store' = [s \in DOMAIN store |-> {t \in store[s] : issued[t].expires > now + 1}]
      /\ UNCHANGED <<file, locked, issued, memory, copies, current, ended, escaped,
                     unsaved, faults>>
  BY DEF Pass, TypeOK
<1>2. Known' = Known /\ Kind("local")' = Kind("local") /\ Kind("sso")' = Kind("sso")
  BY <1>1 DEF Known, Kind
<1>3. Alive' = {t \in Known : issued[t].expires > now + 1}
  BY <1>1, <1>2, LifeTimes DEF Alive
<1>4. Alive' \subseteq Alive
  BY <1>3, LifeTimes DEF Alive, TypeOK
<1>5. /\ store' \in [Stores -> SUBSET Alive']
      /\ \A s \in Stores : store'[s] = store[s] \cap Alive'
  BY <1>1, <1>3, KnownFacts DEF TypeOK
<1>6. SessionsOK'
  BY <1>1, <1>2, <1>5 DEF SessionsOK, TypeOK
<1>7. \A t \in Known : Gone(t) => Gone(t)'
  BY <1>1, <1>5 DEF Gone
<1>8. OneStore' /\ LiveAreStored'
  BY <1>1, <1>4, <1>5 DEF OneStore, LiveAreStored, SessionInv
<1>9. EndedAreGone' /\ LocalsAreGone'
  BY <1>1, <1>2, <1>7, KnownFacts DEF EndedAreGone, LocalsAreGone, SessionInv, TypeOK
<1> QED BY <1>6, <1>8, <1>9 DEF SessionsKept, SessionInv

\* What redis has outlives the process.
LEMMA RestartKeeps ==
  ASSUME TypeOK, SessionInv, Restart
  PROVE  SessionsKept'
<1>1. NoneNew /\ faults' \in Nat /\ current' \in Stores
  BY DEF Restart, NoneNew, TypeOK
<1>2. /\ store' = [store EXCEPT !["process"] = {}] /\ memory' = {}
      /\ copies' \in [Providers -> SUBSET Kind("sso")]
      /\ \A p \in Providers : copies'[p] = {}
      /\ UNCHANGED <<file, locked, ended, escaped, unsaved>>
  BY DEF Restart
<1>3. SessionsOK'
  BY <1>1, <1>2, SameSessions DEF SessionsOK, TypeOK, NoneNew
<1>4. \A t \in Known : Gone(t) => Gone(t)'
  BY <1>2 DEF Gone, TypeOK
<1>5. OneStore' /\ LiveAreStored'
  BY <1>1, <1>2, SameSessions DEF OneStore, LiveAreStored, SessionInv, TypeOK
<1>6. EndedAreGone' /\ LocalsAreGone'
  BY <1>1, <1>2, <1>4, SameSessions, KnownFacts
  DEF EndedAreGone, LocalsAreGone, SessionInv, TypeOK
<1> QED BY <1>3, <1>5, <1>6 DEF SessionsKept, SessionInv

LEMMA SessionStep ==
  ASSUME TypeOK, SessionInv, [Next]_vars
  PROVE  SessionsKept'
<1>1. ASSUME UNCHANGED vars PROVE SessionsKept'
  <2>1. NoneNew /\ UNCHANGED sessionVars /\ UNCHANGED <<file, locked>>
    BY <1>1 DEF vars, configVars, sessionVars, NoneNew
  <2>2. \A t \in Known : Gone(t) => Gone(t)'
    BY <2>1 DEF Gone, sessionVars
  <2> QED BY <2>1, <2>2, MovesKeep DEF sessionVars, TypeOK, SessionInv, LocalsAreGone
<1> QED
  BY <1>1, LoginKeeps, LoginRejectedKeeps, ChangeRefusedKeeps, SsoLoginKeeps, CheckKeeps,
     LogoutKeeps, ChangePasswordKeeps, UpdateConfigKeeps, SetWorkflowKeeps, EditFileKeeps,
     PassKeeps, RestartKeeps
  DEF Next

----------------------------------------------------------------------------
(* The results.                                                            *)

Together == TypeOK /\ SessionInv /\ ConfigInv /\ PasswordsKept

LEMMA Initially == Init => Together
<1> SUFFICES ASSUME Init PROVE Together
  OBVIOUS
<1>1. PICK a, o \in Passwords, r \in Rates :
        /\ file = [admin |-> a, operator |-> o, rate |-> r, sso |-> "off"]
        /\ acked = [admin |-> a, operator |-> o]
        /\ limits = r
  BY DEF Init
<1>2. ConfigOK
  BY <1>1 DEF Init, ConfigOK, Config, Modes
<1>3. Known = {} /\ Kind("local") = {} /\ Kind("sso") = {} /\ Alive = {}
  BY DEF Init, Known, Kind, Alive
<1>4. SessionsOK /\ SessionInv
  BY <1>3 DEF Init, SessionsOK, SessionInv, OneStore, EndedAreGone, LocalsAreGone, LiveAreStored
<1>5. ConfigInv /\ PasswordsKept
  BY <1>1 DEF Init, ConfigInv, LimiterFollows, PasswordsKept, SamePasswords, Fields
<1> QED BY <1>2, <1>4, <1>5, TypeHalves DEF Together

LEMMA TogetherHolds == Spec => []Together
<1>1. Together /\ [Next]_vars => Together'
  <2> SUFFICES ASSUME Together, [Next]_vars PROVE Together'
    OBVIOUS
  <2>1. TypeOK /\ SessionInv /\ ConfigInv /\ PasswordsKept
    BY DEF Together
  <2>2. ConfigOK' /\ ConfigInv' /\ PasswordsKept'
    BY <2>1, ConfigStep DEF ConfigKept
  <2>3. SessionsOK' /\ SessionInv'
    BY <2>1, SessionStep DEF SessionsKept
  <2>4. TypeOK'
    BY <2>2, <2>3 DEF ConfigOK, SessionsOK, TypeOK
  <2> QED BY <2>2, <2>3, <2>4 DEF Together
<1> QED BY Initially, <1>1, PTL DEF Spec

LEMMA GoneIsNotAccepted ==
  ASSUME TypeOK, NEW t, Gone(t)
  PROVE  ~Accepted(t)
  BY DEF Gone, Accepted, AcceptsLocal, AcceptsSso, FoundSso, InStore, TypeOK

\* Whoever's session was ended stays out: no store, provider, look-up or restart
\* lets one in again that was gone when it ended.
THEOREM EndedIsEnded == Spec => []EndedStaysEnded
<1>1. Together => EndedStaysEnded
  BY GoneIsNotAccepted DEF Together, SessionInv, EndedAreGone, EndedStaysEnded
<1> QED BY <1>1, TogetherHolds, PTL

\* A session redis was told of outlives restarts, reloads and look-ups until it
\* expires or is ended.
THEOREM LiveSessionsAreAccepted == Spec => []LiveIsAccepted
<1>1. Together => LiveIsAccepted
  <2>1. SUFFICES ASSUME Together, NEW t \in Alive \ (ended \cup unsaved),
                        current = "redis", t \in Kind("sso") => manager.sso # "off"
                 PROVE  Accepted(t)
    BY DEF LiveIsAccepted
  <2>2. InStore(t) /\ t \in Kind("local") \cup Kind("sso")
    BY <2>1, KnownFacts DEF Together, SessionInv, LiveAreStored, InStore
  <2> QED BY <2>1, <2>2 DEF Accepted, AcceptsLocal, AcceptsSso, FoundSso
<1> QED BY <1>1, TogetherHolds, PTL

\* The two managers agree with each other and with what they ask for: sessions
\* of the right kind, the limiter of the configuration, no local session where
\* SSO was made mandatory.
THEOREM ManagersAgree == Spec => []SessionsInvariant
<1>1. Together => SessionsInvariant
  BY GoneIsNotAccepted
  DEF Together, SessionInv, LocalsAreGone, ConfigInv, SessionsInvariant, SsoIsMandatory
<1> QED BY <1>1, TogetherHolds, PTL

\* The next login is checked against the password of the environment where it
\* sets one, and else against the last acknowledged: no writer of config.json
\* loses it, provided the service token is looked up in the configuration.  That
\* look-up is what brings ConfigManager's copy up to date before it is saved;
\* where the token comes from the environment, only what such a save overwrote
\* is lost, until it is changed again.
THEOREM PasswordsAreKept == Spec => []PasswordsAreAcknowledged
<1>1. Together => PasswordsAreAcknowledged
  <2> SUFFICES ASSUME Together, NEW f \in Fields
               PROVE  \/ env[f] # None /\ Credentials(AuthView)[f] = env[f]
                      \/ env[f] = None /\ Credentials(AuthView)[f] = acked[f]
                      \/ env.token /\ f \in lost
    BY DEF PasswordsAreAcknowledged
  <2>1. f \notin lost => AuthView[f] = acked[f]
    BY DEF Together, PasswordsKept, SamePasswords, AuthView
  <2>2. lost # {} => env.token
    BY DEF Together, PasswordsKept
  <2>3. Credentials(AuthView)[f] = IF env[f] # None THEN env[f] ELSE AuthView[f]
    BY DEF Credentials
  <2> QED BY <2>1, <2>2, <2>3
<1> QED BY <1>1, TogetherHolds, PTL
=============================================================================
