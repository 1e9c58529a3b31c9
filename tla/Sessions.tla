------------------------------ MODULE Sessions ------------------------------
(***************************************************************************)
(* Logging in and out, and the configuration it depends on.  One process:  *)
(* AuthManager (security/auth.py) keeps local sessions in a dictionary and *)
(* in the StateStore, two providers built for the same SSO (one by         *)
(* api/auth.py, one by api/deps.py) each do so with SSO sessions, and      *)
(* config.json is written by AuthManager, by ConfigManager and by hand.    *)
(* AuthManager reads it through a cache that lives for a second (less than *)
(* a tick), ConfigManager keeps a copy and reads again when the file's     *)
(* modification time changed; every change it sees replaces the request    *)
(* limiter (RequestLimits) and the providers.  Handlers of requests run on *)
(* one event loop and await nothing: each is one step.                     *)
(***************************************************************************)
EXTENDS Integers, Sequences

CONSTANTS
  Tokens,        \* 1..n, handed out in order
  Passwords,
  Rates,         \* values rate_limit_per_minute is configured to
  Lifetime,      \* token_expire_hours, expires_in
  Backend,       \* BLOG_WRITER_STATE_BACKEND: "redis" or "memory"
  Environments,  \* environments the process may run in, see env
  MaxTime,       \* bound: the clock stops here
  MaxWrites,     \* bound: changes of config.json
  MaxFaults      \* bound: restarts and failing store operations

ASSUME SessionsAssumption ==
  /\ Lifetime \in Nat \ {0}
  /\ Backend \in {"redis", "memory"}
  /\ \A e \in Environments : e.token \in BOOLEAN
  /\ {MaxTime, MaxWrites, MaxFaults} \subseteq Nat

VARIABLES
  now,
  env,       \* admin and operator: BLOG_WRITER_ADMIN_PASSWORD and
             \* BLOG_WRITER_OPERATOR_PASSWORD, or None; token:
             \* BLOG_WRITER_API_TOKEN is set, and config.json not asked for it
  limits,    \* the rate the request limiter in force was built for
  file,      \* config.json
  manager,   \* ConfigManager._config
  fresh,     \* ConfigManager._file_mtime is the file's
  cached,    \* AuthManager's cached configuration, or None
  issued,    \* the sessions handed out, in order
  memory,    \* AuthManager._active_tokens
  copies,    \* provider -> SSOAuthProvider._session_tokens
  store,     \* "redis" and "process" -> sessions kept there
  current,   \* the StateStore this process uses
  acked,     \* ghost: the passwords last acknowledged
  lost,      \* ghost: of these, what a stale copy of config.json overwrote
  ended,     \* ghost: sessions a logout or a revocation has ended
  escaped,   \* ghost: ended while the store was out of reach, or another
             \* provider held a copy
  unsaved,   \* ghost: sessions redis was never told of
  locked,    \* ghost: SSO was made mandatory through the API
  writes, faults

configVars  == <<env, limits, file, manager, fresh, cached, acked, lost, locked, writes>>
sessionVars == <<issued, memory, copies, store, current, ended, escaped, unsaved, faults>>
vars        == <<now, configVars, sessionVars>>

Modes     == {"off", "both", "on"}   \* SSO: disabled, with local fallback, alone
Providers == {"login", "deps"}
Config    == [admin: Passwords, operator: Passwords, rate: Rates, sso: Modes]
None      == [none |-> TRUE]

----------------------------------------------------------------------------

\* _load_config: what AuthManager believes the file says.
AuthView == IF cached = None THEN file ELSE cached

Fields == {"admin", "operator"}

\* _get_credentials: a password of the environment comes before that of the file.
Credentials(cfg) ==
  [f \in Fields |-> IF env[f] # None THEN env[f] ELSE cfg[f]]

\* _verify_password: the administrator's password is tried first.
RoleOf(cfg, pw) ==
  IF pw = Credentials(cfg).admin THEN "admin"
  ELSE IF pw = Credentials(cfg).operator THEN "operator"
  ELSE "nobody"

Known   == DOMAIN issued
Kind(k) == {t \in Known : issued[t].kind = k}
Alive   == {t \in Known : now < issued[t].expires}

\* _cleanup_expired_tokens, and the expiry of keys in the store.
Kept(ts) == ts \cap Alive

InStore(t) == t \in store[current]

\* AuthManager.verify_token would say yes.
AcceptsLocal(t) == t \in Kind("local") \cap Alive /\ (t \in memory \/ InStore(t))

\* SSOAuthProvider.verify_token would, if it holds "held"; with SSO off there is
\* no such provider.
FoundSso(t, held, mode) ==
  /\ t \in Kind("sso") \cap Alive
  /\ mode # "off"
  /\ t \in held \/ InStore(t)

AcceptsSso(t, p) == FoundSso(t, copies[p], manager.sso)

Accepted(t) == AcceptsLocal(t) \/ \E p \in Providers : AcceptsSso(t, p)

StoreFails == current = "redis" /\ faults < MaxFaults /\ faults' = faults + 1
StoreWorks == faults' = faults

----------------------------------------------------------------------------

Init ==
  /\ now = 0
  /\ env \in Environments
  /\ \E a, o \in Passwords, r \in Rates :
       /\ a # o
       /\ file = [admin |-> a, operator |-> o, rate |-> r, sso |-> "off"]
       /\ acked = [admin |-> a, operator |-> o]
       /\ limits = r
  /\ manager = file /\ fresh = TRUE /\ cached = None
  /\ issued = <<>> /\ memory = {}
  /\ copies = [p \in Providers |-> {}]
  /\ store = [s \in {"redis", "process"} |-> {}]
  /\ current = IF Backend = "redis" THEN "redis" ELSE "process"
  /\ ended = {} /\ escaped = {} /\ unsaved = {} /\ locked = FALSE /\ lost = {}
  /\ writes = 0 /\ faults = 0

\* get_all and get: a file changed since is read again, and then the callbacks
\* of _on_config_changed put a new limiter in force ...
Reload ==
  /\ manager' = file
  /\ limits' = IF fresh THEN limits ELSE file.rate

ReadConfig == Reload /\ fresh' = TRUE

\* ... and let the providers start anew, without sessions.
Emptied == IF fresh THEN copies ELSE [p \in Providers |-> {}]

\* A request whose handler does not look at the configuration.
IgnoreConfig == UNCHANGED <<limits, manager, fresh>>

Fresh == Len(issued) + 1

Issue(kind) ==
  issued' = Append(issued, [kind |-> kind, expires |-> now + Lifetime])

\* What redis does not hold, a restart loses.
Saved(t) ==
  /\ store' = [store EXCEPT ![current] = @ \cup {t}]
  /\ unsaved' = unsaved \cup (IF current = "redis" THEN {} ELSE {t})

FaultyPersist(t) ==
  /\ memory' = Kept(memory) \cup {t}
  /\ UNCHANGED <<store, unsaved>>

\* _persist_token and the clean-up after it.
Persist(t) ==
  /\ memory' = Kept(memory) \cup {t}
  /\ Saved(t)

\* POST /auth/login with a password: AuthManager.login_with_role.  A store that
\* fails makes it fail, and the session is taken back.
Login(pw) ==
  /\ Fresh \in Tokens
  /\ file.sso # "on"
  /\ RoleOf(AuthView, pw) # "nobody"
  /\ ReadConfig
  /\ copies' = Emptied
  /\ cached' = AuthView
  /\ \/ StoreWorks /\ Issue("local") /\ Persist(Fresh)
     \/ StoreFails /\ UNCHANGED <<issued, memory, store, unsaved>>
  /\ UNCHANGED <<now, env, file, acked, lost, locked, writes, current, ended, escaped>>

\* A wrong password, or a local one where SSO is mandatory.
LoginRejected(pw) ==
  /\ IF file.sso = "on" THEN UNCHANGED cached
     ELSE RoleOf(AuthView, pw) = "nobody" /\ cached' = AuthView
  /\ ReadConfig
  /\ copies' = Emptied
  /\ UNCHANGED <<now, env, file, acked, lost, locked, writes, issued, memory, store, current,
                 ended, escaped, unsaved, faults>>

\* POST /auth/login with a user name or a code: _store_session of the provider
\* in api/auth.py.  There a store that fails is only logged.
SsoLogin ==
  /\ Fresh \in Tokens
  /\ file.sso # "off"
  /\ ReadConfig
  /\ copies' = [Emptied EXCEPT !["login"] = @ \cup {Fresh}]
  /\ Issue("sso")
  /\ \/ StoreWorks /\ Saved(Fresh)
     \/ StoreFails /\ store' = store /\ unsaved' = unsaved \cup {Fresh}
  /\ UNCHANGED <<now, env, file, cached, acked, lost, locked, writes, memory, current, ended, escaped>>

\* What a look-up finds in the store is kept in the memory of who looked.
LookedUp(t, p, held, mode) ==
  \/ /\ StoreWorks
     /\ memory' = Kept(memory) \cup {s \in {t} : AcceptsLocal(s)}
     /\ copies' = [held EXCEPT ![p] = @ \cup {s \in {t} : FoundSso(s, @, mode)}]
  \/ /\ StoreFails
     /\ memory' = Kept(memory)
     /\ copies' = held

\* A request with session t.  Most go through api/deps.py, which asks the
\* configuration for the service token first; GET /auth/verify has a provider
\* of its own, and either builds it from the configuration when it has none.
Check(t, p) ==
  /\ t \in Known
  /\ \/ ReadConfig /\ LookedUp(t, p, Emptied, file.sso)
     \/ /\ p = "login" \/ env.token
        /\ IgnoreConfig /\ LookedUp(t, p, copies, manager.sso)
  /\ UNCHANGED <<now, env, file, cached, acked, lost, locked, writes, issued, store, current,
                 ended, escaped, unsaved>>

\* The sessions of ts end.  One that redis still has afterwards, or of which the
\* other provider has a copy, comes back or lives on.
End(ts, held, remaining) ==
  /\ ended' = ended \cup ts
  /\ escaped' = escaped \cup (ts \cap (remaining \cup held["deps"]))

\* The store without ts.
Without(ts) == [store EXCEPT ![current] = @ \ ts]

\* What a deletion that could not reach redis leaves there.
LeftInRedis(ts) ==
  IF current = "redis" THEN {} ELSE ts \cap store["redis"]

\* POST /auth/logout: the provider of api/auth.py, then AuthManager.
\* _delete_token and _delete_session swallow the errors of the store.
Logout(t) ==
  /\ t \in Known
  /\ \E reads \in BOOLEAN :
       LET mode == IF reads THEN file.sso ELSE manager.sso
           held == IF reads THEN Emptied ELSE copies
           gone == IF mode = "off" THEN {t} \cap Kind("local") ELSE {t}
       IN /\ IF reads THEN ReadConfig
                      ELSE IgnoreConfig
          /\ memory' = memory \ {t}
          /\ copies' = [held EXCEPT !["login"] = @ \ gone]
          /\ \/ /\ StoreWorks
                /\ store' = Without(gone)
                /\ End({t}, held, LeftInRedis({t}) \cup ({t} \ gone))
             \/ /\ StoreFails
                /\ store' = store
                /\ End({t}, held, {t})
  /\ UNCHANGED <<now, env, file, cached, acked, lost, locked, writes, issued, current, unsaved>>

FaultyRevoked == memory \cap Kind("local")

\* revoke_all_tokens: what is in memory, then every key found in the store.
Revoked == (memory \cup store[current]) \cap Kind("local")

RevokeAll ==
  LET locals == Kind("local")
      none   == [p \in Providers |-> {}]
  IN /\ memory' = {}
     /\ \/ /\ StoreWorks
           /\ store' = Without(Revoked)
           /\ End(locals, none, LeftInRedis(locals))
        \/ /\ StoreFails
           /\ store' = store
           /\ End(locals, none, locals)

\* _invalidate_cache, at the end of _save_config.
Invalidated == cached' = None

\* POST /auth/change-password and /auth/change-operator-password: the old
\* password of an administrator, one field of what AuthManager believes the
\* configuration to be, and the end of every local session.
ChangePassword(field, old, new) ==
  /\ writes < MaxWrites /\ writes' = writes + 1
  /\ file.sso # "on"
  /\ RoleOf(AuthView, old) = "admin"
  /\ Reload
  /\ fresh' = FALSE
  /\ file' = [AuthView EXCEPT ![field] = new]
  /\ Invalidated
  /\ acked' = [acked EXCEPT ![field] = new]
  /\ lost' = lost \ {field}
  /\ RevokeAll
  /\ copies' = Emptied
  /\ locked' = (locked /\ file'.sso = "on")
  /\ UNCHANGED <<now, env, issued, current, unsaved>>

\* The same with an operator's password: refused, and the session made to check
\* the password stays, in nobody's hands.
ChangeRefused(old) ==
  /\ Fresh \in Tokens
  /\ file.sso # "on"
  /\ RoleOf(AuthView, old) = "operator"
  /\ ReadConfig
  /\ copies' = Emptied
  /\ cached' = AuthView
  /\ Issue("local") /\ Persist(Fresh)
  /\ UNCHANGED <<now, env, file, acked, lost, locked, writes, current, ended, escaped, faults>>

FaultyMustRevoke(before, after) == after.sso # "off" /\ before.sso = "off"

\* update_config: SSO was enabled, or the local fallback was withdrawn.
MustRevoke(before, after) ==
  /\ after.sso # "off"
  /\ \/ before.sso = "off"
     \/ before.sso = "both" /\ after.sso = "on"

\* ConfigManager.update and set: the copy is changed, saved over the file, and
\* the callbacks run.
Overwrite(cfg) ==
  /\ manager' = cfg
  /\ file' = cfg
  /\ fresh' = TRUE
  /\ limits' = cfg.rate
  /\ copies' = [p \in Providers |-> {}]

\* PUT /admin/config by the platform service.  verify_admin_access has looked at
\* AuthManager's configuration for a limit of its own, and get_all has brought
\* the copy up to date.
UpdateConfig(mode, rate) ==
  LET after == [file EXCEPT !.sso = mode, !.rate = rate]
  IN /\ after # file
     /\ writes < MaxWrites /\ writes' = writes + 1
     /\ cached' = AuthView
     /\ Overwrite(after)
     /\ locked' = (mode = "on" /\ (locked \/ file.sso # "on"))
     /\ IF MustRevoke(file, after) THEN RevokeAll
        ELSE UNCHANGED <<memory, store, ended, escaped, faults>>
     /\ UNCHANGED <<now, env, acked, lost, issued, current, unsaved>>

FaultyBeforeSet == manager

\* The copy that PUT /admin/config/workflow and .../llm start from.  Only the
\* search for the service token, while checking who asks, brings it up to date.
BeforeSet == IF env.token THEN manager ELSE file

\* PUT /admin/config/workflow: it changes nothing modelled here, but saves all.
SetWorkflow ==
  /\ writes < MaxWrites /\ writes' = writes + 1
  /\ cached' = AuthView
  /\ Overwrite(BeforeSet)
  /\ locked' = (locked /\ BeforeSet.sso = "on")
  /\ lost' = IF env.token THEN lost \cup {f \in Fields : manager[f] # acked[f]} ELSE lost
  /\ UNCHANGED <<now, env, acked, issued, memory, store, current, ended, escaped,
                 unsaved, faults>>

\* Someone edits config.json: nothing happens until it is read.
EditFile(mode, rate) ==
  /\ writes < MaxWrites /\ writes' = writes + 1
  /\ file' = [file EXCEPT !.sso = mode, !.rate = rate]
  /\ file' # file
  /\ fresh' = FALSE
  /\ locked' = FALSE
  /\ UNCHANGED <<now, env, limits, manager, cached, acked, lost, sessionVars>>

\* Time goes by: AuthManager's cache and keys of the store expire.
Pass ==
  /\ now < MaxTime /\ now' = now + 1
  /\ cached' = None
  /\ store' = [s \in DOMAIN store |->
                 {t \in store[s] : issued[t].expires > now + 1}]
  /\ UNCHANGED <<env, limits, file, manager, fresh, acked, lost, locked, writes, issued,
                 memory, copies, current, ended, escaped, unsaved, faults>>

\* A process started while redis cannot be reached keeps to its own memory for
\* as long as it runs (get_state_store).
Restart ==
  /\ faults < MaxFaults /\ faults' = faults + 1
  /\ current' \in IF Backend = "redis" THEN {"redis", "process"} ELSE {"process"}
  /\ store' = [store EXCEPT !["process"] = {}]
  /\ memory' = {} /\ copies' = [p \in Providers |-> {}]
  /\ cached' = None /\ manager' = file /\ fresh' = TRUE
  /\ limits' = file.rate
  /\ UNCHANGED <<now, env, file, acked, lost, locked, writes, issued, ended, escaped, unsaved>>

Next ==
  \/ \E pw \in Passwords : Login(pw) \/ LoginRejected(pw) \/ ChangeRefused(pw)
  \/ SsoLogin
  \/ \E t \in Tokens : Logout(t) \/ \E p \in Providers : Check(t, p)
  \/ \E f \in Fields, old, new \in Passwords :
       ChangePassword(f, old, new)
  \/ \E m \in Modes, r \in Rates : UpdateConfig(m, r) \/ EditFile(m, r)
  \/ SetWorkflow
  \/ Pass
  \/ Restart

Spec == Init /\ [][Next]_vars

----------------------------------------------------------------------------

\* The types of the variables: each place holds sessions of its own kind only,
\* and a store none that has expired.
TypeOK ==
  /\ now \in Nat /\ {writes, faults} \subseteq Nat
  /\ file \in Config /\ manager \in Config /\ cached \in Config \cup {None}
  /\ limits \in Rates /\ fresh \in BOOLEAN /\ locked \in BOOLEAN
  /\ acked \in [admin : Passwords, operator : Passwords] /\ lost \subseteq Fields
  /\ env \in Environments
  /\ issued \in Seq([kind : {"local", "sso"}, expires : Nat])
  /\ memory \subseteq Kind("local")
  /\ copies \in [Providers -> SUBSET Kind("sso")]
  /\ store \in [{"redis", "process"} -> SUBSET Alive]
  /\ current \in {"redis", "process"}
  /\ ended \subseteq Known /\ escaped \subseteq ended /\ unsaved \subseteq Known

\* A session that was logged out or revoked is not accepted again, by whatever
\* way it could come back - the store, the other provider, a restart - unless
\* redis was out of reach then or a provider of its own held a copy.
EndedStaysEnded == \A t \in ended \ escaped : ~ Accepted(t)

\* A session that nobody ended is accepted until it expires, across restarts
\* and reloads, as long as redis knows it and is in use.
LiveIsAccepted ==
  \A t \in Alive \ (ended \cup unsaved) :
    (current = "redis" /\ (t \in Kind("sso") => manager.sso # "off")) => Accepted(t)

\* The next login is checked against the passwords last acknowledged, though
\* three writers save config.json, two of them from copies.  There are two
\* exceptions.  Where the environment sets a password, that one is asked for: a
\* change is acknowledged, and saved, to no effect.  And under a service token
\* from the environment a save of ConfigManager's copy undoes a change made
\* since it was read.
PasswordsAreAcknowledged ==
  \A f \in Fields :
    \/ env[f] # None /\ Credentials(AuthView)[f] = env[f]
    \/ env[f] = None /\ Credentials(AuthView)[f] = acked[f]
    \/ env.token /\ f \in lost

\* Where SSO was made mandatory through the API, no local session is accepted.
SsoIsMandatory ==
  locked => \A t \in Kind("local") \ escaped : ~ Accepted(t)

\* The limiter in force is the one ConfigManager's configuration asks for.
LimiterFollows == limits = manager.rate

\* The state of the two managers: typed, with the limiter and the kinds of
\* sessions the configuration in force asks for.
SessionsInvariant == TypeOK /\ SsoIsMandatory /\ LimiterFollows
=============================================================================
