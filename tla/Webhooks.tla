------------------------------- MODULE Webhooks -------------------------------
(***************************************************************************)
(* The webhook of one task: its subscription in the memory of every        *)
(* replica and in the state store they share (api/webhooks.py and          *)
(* state_store.py), and the deliveries, each a coroutine that tries three   *)
(* times.  With the in-memory state store there is one replica.            *)
(*                                                                         *)
(* A replica that has no record reads the store and then acts on what it   *)
(* read: other replicas take steps in between, its own event loop does     *)
(* not.  The store may be away: its errors are swallowed.                  *)
(***************************************************************************)
EXTENDS Naturals, Sequences, FiniteSets

CONSTANTS
  Replicas,
  DefaultEvents,      \* DEFAULT_CALLBACK_EVENTS, the events of a task
  Requests,           \* the lists of events clients ask for, {} for no list
  MaxRegistrations,   \* bound on the registrations of the task
  MaxFires,           \* bound on the deliveries that are followed
  MaxFaults           \* bound on the restarts of replicas and outages of the store

ASSUME WebhooksAssumption ==
  /\ Replicas # {}
  /\ "task.created" \in DefaultEvents /\ "webhook.test" \notin DefaultEvents
  /\ Requests \subseteq SUBSET (DefaultEvents \cup {"webhook.test"})
  /\ MaxRegistrations \in Nat \ {0} /\ MaxFires \in Nat /\ MaxFaults \in Nat

VARIABLES
  callbacks,    \* WebhookManager._callbacks[task] of every replica
  store,        \* the record under _WEBHOOK_KEY_PREFIX
  up,           \* the store can be reached
  looking,      \* what a replica has read from the store, and for what
  fires,        \* the coroutines of WebhookManager.fire
  history,      \* WebhookManager._history, by delivery
  asked,        \* history: the events every registration asked for
  current,      \* history: the registration that holds, 0 when there is none
  stale,        \* history: a change of it left an older copy behind
  unsaved,      \* history: the registration that holds has left the store
  faults

subscription == <<callbacks, store, looking>>
notes == <<asked, current, stale, unsaved>>
vars == <<callbacks, store, up, looking, fires, history, asked, current,
          stale, unsaved, faults>>

Events == DefaultEvents \cup {"webhook.test"}

Attempts == 3

\* events as stored: a record of an older version has none
Record == [registration : 0..MaxRegistrations, events : SUBSET Events]
NoRecord == [registration |-> 0, events |-> {}]
Exists(r) == r # NoRecord

Idle == [for |-> "nothing", event |-> "webhook.test", fire |-> 0, read |-> NoRecord]
NotFired == [stage |-> "free", at |-> CHOOSE r \in Replicas : TRUE,
             event |-> "webhook.test", registration |-> 0, attempt |-> 0]

Settled == {"delivered", "skipped", "exhausted", "lost"}

\* normalize_callback_events
Wanted(events) == IF events = {} THEN DefaultEvents ELSE events

\* _normalize_callback_record
Normalized(r) == IF Exists(r) THEN [r EXCEPT !.events = Wanted(@)] ELSE r

\* Another replica has a copy of the subscription, or is about to have one.
HeldElsewhere(r) ==
  \E q \in Replicas \ {r} : Exists(callbacks[q]) \/ Exists(looking[q].read)

Free == {f \in 1..MaxFires : fires[f].stage = "free"}

\* A delivery created now takes the first free place.
Place(f) == f \in Free /\ \A g \in Free : f <= g

Init ==
  /\ callbacks = [r \in Replicas |-> NoRecord]
  /\ store \in {NoRecord, [registration |-> 1, events |-> {}]}
  /\ up = TRUE
  /\ looking = [r \in Replicas |-> Idle]
  /\ fires = [f \in 1..MaxFires |-> NotFired]
  /\ history = [f \in 1..MaxFires |-> <<>>]
  /\ asked = IF Exists(store) THEN <<{}>> ELSE <<>>
  /\ current = IF Exists(store) THEN 1 ELSE 0
  /\ stale = FALSE
  /\ unsaved = FALSE
  /\ faults = 0

-----------------------------------------------------------------------------
(* The state store                                                         *)

Persist(r) == store' = IF up THEN r ELSE store

Read == IF up THEN store ELSE NoRecord

\* A record expires after seven days: with its registration still in force
\* it is then in memory only, and a delivery writes it again.
Expires ==
  /\ Exists(store) /\ up
  /\ store' = NoRecord
  /\ unsaved' = (current # 0)
  /\ UNCHANGED <<callbacks, up, looking, fires, history, asked, current, stale, faults>>

StoreGoes ==
  /\ up /\ faults < MaxFaults
  /\ up' = FALSE
  /\ faults' = faults + 1
  /\ UNCHANGED <<subscription, fires, history, notes>>

StoreReturns ==
  /\ ~up
  /\ up' = TRUE
  /\ UNCHANGED <<subscription, fires, history, notes, faults>>

-----------------------------------------------------------------------------
(* Registering: a task is started with a callback URL, or started again.   *)

Register(r, events) ==
  LET n == Len(asked) + 1
      payload == [registration |-> n, events |-> Wanted(events)] IN
  /\ looking[r] = Idle
  /\ n <= MaxRegistrations
  /\ callbacks' = [callbacks EXCEPT ![r] = payload]
  /\ Persist(payload)
  /\ asked' = Append(asked, events)
  /\ current' = n
  /\ stale' = (stale \/ HeldElsewhere(r) \/ (~up /\ Exists(store)))
  /\ unsaved' = ~up
  /\ \/ \E f \in 1..MaxFires :
          /\ Place(f)
          /\ fires' = [fires EXCEPT ![f].stage = "pending", ![f].at = r,
                                    ![f].event = "task.created"]
     \/ UNCHANGED fires    \* batch_start_tasks sends no task.created
  /\ UNCHANGED <<up, looking, history, faults>>

-----------------------------------------------------------------------------
(* What is done with the record, or with its absence                       *)

FaultyUnregister(r) ==
  /\ callbacks' = [callbacks EXCEPT ![r] = NoRecord]
  /\ UNCHANGED store
  /\ current' = 0
  /\ stale' = (stale \/ HeldElsewhere(r) \/ (~up /\ Exists(store)))
  /\ UNCHANGED <<fires, asked, unsaved>>

\* the handler unregister_webhook
Unregister(r) ==
  /\ callbacks' = [callbacks EXCEPT ![r] = NoRecord]
  /\ Persist(NoRecord)
  /\ current' = 0
  /\ stale' = (stale \/ HeldElsewhere(r) \/ (~up /\ Exists(store)))
  /\ UNCHANGED <<fires, asked, unsaved>>

FaultySkip(f) ==
  /\ fires' = [fires EXCEPT ![f].stage = "pending"]
  /\ UNCHANGED <<store, notes>>

Skip(f) ==
  /\ fires' = [fires EXCEPT ![f].stage = "skipped"]
  /\ UNCHANGED <<store, notes>>

\* the part of fire before its first await
Send(f, r, event, c) ==
  IF event \in c.events
  THEN /\ fires' = [fires EXCEPT ![f].stage = "sending", ![f].at = r, ![f].event = event,
                                 ![f].registration = c.registration, ![f].attempt = 1]
       /\ Persist(c)
       /\ unsaved' = (unsaved /\ ~(up /\ c.registration = current))
       /\ UNCHANGED <<asked, current, stale>>
  ELSE Skip(f)

Nothing == UNCHANGED <<store, fires, notes>>

\* _fire_task_webhook: the delivery is a coroutine that begins later
Notify(r, event) ==
  \E f \in 1..MaxFires :
    /\ Place(f)
    /\ fires' = [fires EXCEPT ![f].stage = "pending", ![f].at = r, ![f].event = event]
    /\ UNCHANGED <<store, notes>>

\* the handler test_webhook awaits the delivery it makes
Test(r, c) == \E f \in 1..MaxFires : Place(f) /\ Send(f, r, "webhook.test", c)

\* The replica goes on with the record c, which is in its memory if it exists.
Proceed(r, for, event, f, c) ==
  \/ for = "notify" /\ (~Exists(c) \/ Free = {}) /\ Nothing
  \/ for = "notify" /\ Exists(c) /\ Notify(r, event)
  \/ for = "test" /\ (~Exists(c) \/ Free = {}) /\ Nothing
  \/ for = "test" /\ Exists(c) /\ Test(r, c)
  \/ for = "unregister" /\ ~Exists(c) /\ Nothing
  \/ for = "fire" /\ ~Exists(c) /\ Skip(f)
  \/ for = "fire" /\ Exists(c) /\ Send(f, r, fires[f].event, c)

\* has_callback, get_callback: memory first.  A replica that read nothing goes
\* on at once: it changes nothing that others see.
Look(r, for, event, f) ==
  /\ looking[r] = Idle
  /\ IF for = "unregister" /\ Exists(callbacks[r])
     THEN Unregister(r) /\ UNCHANGED looking
     ELSE /\ UNCHANGED callbacks
          /\ IF ~Exists(callbacks[r]) /\ Exists(Read)
             THEN /\ looking' = [looking EXCEPT ![r] =
                        [for |-> for, event |-> event, fire |-> f, read |-> Read]]
                  /\ UNCHANGED <<store, fires, notes>>
             ELSE /\ UNCHANGED looking
                  /\ Proceed(r, for, event, f, Normalized(callbacks[r]))
  /\ UNCHANGED <<up, history, faults>>

\* A record that was read is restored to memory.
Found(r) ==
  LET c == Normalized(looking[r].read) IN
  /\ looking[r] # Idle
  /\ looking' = [looking EXCEPT ![r] = Idle]
  /\ IF looking[r].for = "unregister" THEN Unregister(r)
     ELSE /\ callbacks' = [callbacks EXCEPT ![r] = c]
          /\ Proceed(r, looking[r].for, looking[r].event, looking[r].fire, c)
  /\ UNCHANGED <<up, history, faults>>

TaskEvent(r) == \E e \in DefaultEvents \ {"task.created"} : Look(r, "notify", e, 0)
TestWebhook(r) == Look(r, "test", "webhook.test", 0)
UnregisterWebhook(r) == Look(r, "unregister", "webhook.test", 0)

FireBegins(f) ==
  /\ fires[f].stage = "pending"
  /\ \A r \in Replicas : looking[r].fire # f
  /\ Look(fires[f].at, "fire", fires[f].event, f)

-----------------------------------------------------------------------------
(* Delivering.  A request fails before it is sent (a refused address, no   *)
(* name, no connection), is answered with an error, or is received and its *)
(* answer lost: all of these are tried again, only an answer 2xx is not.   *)

Outcomes == {"accepted", "failed"}

\* what fire does with the answer to its attempt
FaultyAfterAnswer(attempt, outcome) ==
  IF attempt < Attempts THEN "waiting"
  ELSE IF outcome = "accepted" THEN "delivered" ELSE "exhausted"

AfterAnswer(attempt, outcome) ==
  CASE outcome = "accepted" -> "delivered"
    [] outcome # "accepted" /\ attempt < Attempts -> "waiting"
    [] OTHER -> "exhausted"

Recorded(attempt, outcome) ==
  IF AfterAnswer(attempt, outcome) = "exhausted" THEN <<FALSE, FALSE>>
  ELSE <<outcome = "accepted">>

Answered(f, outcome) ==
  /\ fires[f].stage = "sending"
  /\ fires' = [fires EXCEPT ![f].stage = AfterAnswer(fires[f].attempt, outcome)]
  /\ history' = [history EXCEPT ![f] = @ \o Recorded(fires[f].attempt, outcome)]
  /\ UNCHANGED <<subscription, up, notes, faults>>

\* the back-off has passed
Retry(f) ==
  /\ fires[f].stage = "waiting"
  /\ fires' = [fires EXCEPT ![f].stage = "sending", ![f].attempt = @ + 1]
  /\ UNCHANGED <<subscription, up, history, notes, faults>>

\* A restart loses the memory of a replica, its history and its deliveries.
Restart(r) ==
  LET lost == {f \in 1..MaxFires : fires[f].at = r /\ fires[f].stage \notin Settled \cup {"free"}} IN
  /\ faults < MaxFaults
  /\ faults' = faults + 1
  /\ callbacks' = [callbacks EXCEPT ![r] = NoRecord]
  /\ looking' = [looking EXCEPT ![r] = Idle]
  /\ fires' = [f \in 1..MaxFires |-> IF f \in lost THEN [fires[f] EXCEPT !.stage = "lost"]
                                     ELSE fires[f]]
  /\ history' = [f \in 1..MaxFires |-> IF fires[f].at = r THEN <<>> ELSE history[f]]
  /\ UNCHANGED <<store, up, notes>>

Delivery(f) == FireBegins(f) \/ Retry(f) \/ \E o \in Outcomes : Answered(f, o)

Next ==
  \/ Expires \/ StoreGoes \/ StoreReturns
  \/ \E r \in Replicas :
       \/ \E events \in Requests : Register(r, events)
       \/ TaskEvent(r) \/ TestWebhook(r) \/ UnregisterWebhook(r)
       \/ Found(r)
       \/ Restart(r)
  \/ \E f \in 1..MaxFires : Delivery(f)

Spec == Init /\ [][Next]_vars

\* The event loops go on, a request ends (it has a time limit of ten
\* seconds) and so does a back-off.  A coroutine that was created gets its
\* turn before the handlers that come later, however many they are: the ready
\* queue of asyncio is first in, first out.
FairSpec ==
  /\ Spec
  /\ \A f \in 1..MaxFires : WF_vars(Delivery(f)) /\ SF_vars(FireBegins(f))
  /\ \A r \in Replicas : WF_vars(Found(r))

-----------------------------------------------------------------------------
(* Properties                                                              *)

\* The types of the variables; a delivery makes three attempts at most.
TypeOK ==
  /\ callbacks \in [Replicas -> Record]
  /\ store \in Record
  /\ looking \in [Replicas -> [for : {"nothing", "notify", "test", "unregister", "fire"},
                               event : Events, fire : 0..MaxFires, read : Record]]
  /\ fires \in [1..MaxFires -> [stage : {"free", "pending", "sending", "waiting"} \cup Settled,
                                at : Replicas, event : Events,
                                registration : 0..MaxRegistrations,
                                attempt : 0..Attempts]]
  /\ history \in [1..MaxFires -> Seq(BOOLEAN)]
  /\ asked \in Seq(SUBSET Events) /\ current \in 0..Len(asked)
  /\ {up, stale, unsaved} \subseteq BOOLEAN
  /\ faults \in 0..MaxFaults

\* As long as no change of the subscription missed a copy, memory and store
\* know no other registration than the one in force, and the store has that
\* one unless it expired or could not be written: what a restart loses is
\* found again, and what was unregistered does not come back from the store.
CurrentRecord ==
  ~stale =>
    /\ \A r \in Replicas :
         /\ callbacks[r].registration \in {0, current}
         /\ Exists(looking[r].read) => looking[r].read.registration = current
    /\ store.registration \in {0, current}
    /\ current # 0 /\ ~unsaved => store.registration = current

\* What is sent was asked for in the registration under which it is sent,
\* also when the record has been through the store, or was stored by a version
\* that kept no list of events (_normalize_callback_record).
SentAsSubscribed ==
  \A f \in 1..MaxFires :
    fires[f].registration # 0 =>
      fires[f].event \in (IF asked[fires[f].registration] = {} THEN DefaultEvents
                          ELSE asked[fires[f].registration])

\* The history shown to the client agrees with what was delivered: one entry
\* per attempt, and a last one for a delivery that was given up.
HistoryTellsAttempts ==
  \A f \in 1..MaxFires :
    history[f] # <<>> =>
      /\ fires[f].stage = "delivered" =>
           history[f] = [i \in 1..fires[f].attempt |-> i = fires[f].attempt]
      /\ fires[f].stage = "exhausted" => history[f] = [i \in 1..(Attempts + 1) |-> FALSE]

\* A delivery ends: received, given up after three attempts, not wanted, or
\* lost with its process.
FireSettles ==
  \A f \in 1..MaxFires : fires[f].stage = "pending" ~> fires[f].stage \in Settled

\* The state of subscriptions and deliveries: typed, the registration in force
\* in every copy, nothing sent that was not asked for, a truthful history.
WebhooksInvariant == TypeOK /\ CurrentRecord /\ SentAsSubscribed /\ HistoryTellsAttempts

\* An attempt goes out only while the receiver has not accepted the event (it
\* gets it twice only when an answer was lost or was an error), and a delivery
\* begins with the registration in force: after DELETE /webhooks/<task> nothing
\* new is sent, and after a new registration nothing new goes to the old address.
SendsAreWanted ==
  [][\A f \in 1..MaxFires :
       /\ fires'[f].attempt > fires[f].attempt =>
            \A i \in 1..Len(history[f]) : ~history[f][i]
       /\ fires[f].registration = 0 /\ fires'[f].registration # 0 =>
            stale \/ fires'[f].registration = current]_vars
=============================================================================
