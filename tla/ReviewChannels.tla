---------------------------- MODULE ReviewChannels ----------------------------
(***************************************************************************)
(* One human review of one task, and the four channels by which a verdict  *)
(* reaches the coroutine that waits for it: the event and the record in    *)
(* the memory of its replica, the review event bus (in memory, or Redis    *)
(* pub/sub, which forgets what nobody listens to), the state store, and    *)
(* the task's row in the database (review_event_bus.py, review_wait.py,    *)
(* `_await_human_review`, task_control.py).  The replicas share the row,   *)
(* and the state store when it is Redis.                                   *)
(*                                                                         *)
(* StepLoop has what a verdict does to the run.  Here a runner that took   *)
(* one just goes on, and pauses and cancellations are those under the      *)
(* review.  A client's request writes the state store and then the row:    *)
(* other replicas take steps in between.                                   *)
(***************************************************************************)
EXTENDS Naturals, FiniteSets

CONSTANTS
  Replicas,
  Owner,         \* the replica whose runner asks for the review
  Decisions,
  RedisBus,      \* REVIEW_EVENT_BACKEND = redis
  SharedStore,   \* BLOG_WRITER_STATE_BACKEND = redis
  MaxRequests,   \* bound on the verdicts, pauses, resumptions, cancellations
  MaxRestarts    \* bound on the restarts of replicas

ASSUME ReviewChannelsAssumption ==
  /\ Owner \in Replicas /\ "shared" \notin Replicas
  /\ {"approve", "reject"} \subseteq Decisions /\ "none" \notin Decisions
  /\ {RedisBus, SharedStore} \subseteq BOOLEAN
  /\ {MaxRequests, MaxRestarts} \subseteq Nat

VARIABLES
  tasks,        \* WorkflowService._tasks[task] of every replica
  row,          \* the row of the task
  key,          \* the decision under _REVIEW_KEY_PREFIX
  bus,          \* _event_bus: not made yet, in memory (or fallen back to it), Redis
  kept,         \* MemoryReviewEventBus._decisions
  listener,     \* RedisReviewEventBus._listeners: absent, waiting, or its result
  publishing,   \* coroutines of publish_decision
  inbox,        \* Redis messages on their way to a replica
  runner,       \* where the coroutine of the task stands
  event,        \* WorkflowService._pause_events
  saving,       \* a request that has yet to write the row
  accepted,     \* history: the verdicts that were accepted
  taken,        \* history: the verdicts that runners went on with
  cancelled,    \* history: a cancellation was accepted
  roused,       \* history: a runner was resumed that had not left its wait
  dropped,      \* history: a resumed run dropped the last copy of a verdict
  crossed,      \* history: a request went to a replica that was not up to date
  orphaned,     \* history: a replica restarted after an accepted request
  requests, restarts

channels == <<key, bus, kept, listener, publishing, inbox>>
history == <<accepted, taken, cancelled, roused, dropped, crossed, orphaned>>
bounds == <<requests, restarts>>
vars == <<tasks, row, key, bus, kept, listener, publishing, inbox, runner, event,
          saving, accepted, taken, cancelled, roused, dropped, crossed, orphaned,
          requests, restarts>>

Status == {"absent", "running", "waiting_review", "paused", "cancelled"}
Decision == Decisions \cup {"none"}
Record == [status : Status, decision : Decision]
NoRecord == [status |-> "absent", decision |-> "none"]
Running == [status |-> "running", decision |-> "none"]

\* "resuming": a coroutine of _safe_resume_workflow that has not begun
Stage == {"none", "asking", "checking", "waiting", "going on", "resuming", "stopped"}
Alive == Stage \ {"none", "stopped"}

Stores == IF SharedStore THEN {"shared"} ELSE Replicas
StoreOf(r) == IF SharedStore THEN "shared" ELSE r

\* _ensure_task_loaded
Loaded(r) == IF tasks[r] # NoRecord THEN tasks[r] ELSE row

\* _pull_external_review_decision: the state store, then the row
Pulled(r) ==
  LET mine == tasks[r] IN
  CASE mine.decision # "none" -> mine
    [] mine.decision = "none" /\ key[StoreOf(r)] # "none" ->
         [mine EXCEPT !.decision = key[StoreOf(r)]]
    [] OTHER -> [status |-> IF row.status = "cancelled" THEN "cancelled" ELSE mine.status,
                 decision |-> row.decision]

Init ==
  /\ tasks = [r \in Replicas |-> IF r = Owner THEN Running ELSE NoRecord]
  /\ row = Running
  /\ key = [s \in Stores |-> "none"]
  /\ bus = [r \in Replicas |-> "none"]
  /\ kept = [r \in Replicas |-> "none"]
  /\ listener = [r \in Replicas |-> "absent"]
  /\ publishing = [r \in Replicas |-> {}]
  /\ inbox = [r \in Replicas |-> {}]
  /\ runner = [r \in Replicas |-> IF r = Owner THEN "asking" ELSE "none"]
  /\ event = [r \in Replicas |-> "none"]
  /\ saving = [r \in Replicas |-> FALSE]
  /\ accepted = {} /\ taken = {}
  /\ cancelled = FALSE /\ roused = FALSE /\ dropped = FALSE
  /\ crossed = FALSE /\ orphaned = FALSE
  /\ requests = 0 /\ restarts = 0

-----------------------------------------------------------------------------
(* The waiting coroutine.  A request keeps the event loop of its replica    *)
(* from taking other steps.                                                *)

\* The verdict is consumed: removed from memory, state store and row.
GoesOn(r, d) ==
  /\ runner' = [runner EXCEPT ![r] = "going on"]
  /\ taken' = taken \cup {d}
  /\ tasks' = [tasks EXCEPT ![r] = Running]
  /\ row' = Running
  /\ key' = [key EXCEPT ![StoreOf(r)] = "none"]
  /\ event' = [event EXCEPT ![r] = "none"]

\* The run ends with the record as it is, a verdict in it included.
Stops(r, record) ==
  /\ runner' = [runner EXCEPT ![r] = "stopped"]
  /\ tasks' = [tasks EXCEPT ![r] = record]
  /\ row' = record
  /\ event' = [event EXCEPT ![r] = "none"]
  /\ UNCHANGED <<taken, key>>

\* A paused task goes on, too.
FaultyLeaves(r, record) ==
  IF record.status = "cancelled" THEN Stops(r, record)
  ELSE GoesOn(r, IF record.decision = "none" THEN "approve" ELSE record.decision)

\* What a runner that has left the wait does with the record it finds: a
\* missing verdict counts as an approval.
Leaves(r, record) ==
  IF record.status \in {"cancelled", "paused"} THEN Stops(r, record)
  ELSE GoesOn(r, IF record.decision = "none" THEN "approve" ELSE record.decision)

Ask(r) ==
  /\ runner[r] = "asking" /\ ~saving[r]
  /\ IF Pulled(r).decision # "none"
     THEN GoesOn(r, Pulled(r).decision)
     ELSE /\ runner' = [runner EXCEPT ![r] = "checking"]
          /\ event' = [event EXCEPT ![r] = "clear"]
          /\ tasks' = [tasks EXCEPT ![r].status = "waiting_review"]
          /\ row' = [tasks[r] EXCEPT !.status = "waiting_review"]
          /\ UNCHANGED <<taken, key>>
  /\ UNCHANGED <<bus, kept, listener, publishing, inbox, saving, accepted, cancelled,
                 roused, dropped, crossed, orphaned, bounds>>

\* The wait of a round begins; the bus is made at the first one, and falls
\* back to memory when Redis cannot be reached.
BeginsRound(r, b) ==
  /\ bus[r] # "none" => b = bus[r]
  /\ bus[r] = "none" => b \in {"memory"} \cup (IF RedisBus THEN {"redis"} ELSE {})
  /\ bus' = [bus EXCEPT ![r] = b]
  /\ listener' = [listener EXCEPT ![r] = IF b = "redis" THEN "waiting" ELSE @]
  /\ runner' = [runner EXCEPT ![r] = "waiting"]
  /\ UNCHANGED <<tasks, row, key, event, taken>>

Check(r) ==
  /\ runner[r] = "checking" /\ ~saving[r]
  /\ IF \/ tasks[r].status \in {"cancelled", "paused"}
        \/ Pulled(r).decision # "none" \/ Pulled(r).status = "cancelled"
     THEN /\ Leaves(r, IF tasks[r].status \in {"cancelled", "paused"} THEN tasks[r]
                       ELSE Pulled(r))
          /\ UNCHANGED <<bus, listener>>
     ELSE \E b \in {"memory", "redis"} : BeginsRound(r, b)
  /\ UNCHANGED <<kept, publishing, inbox, saving, accepted, cancelled,
                 roused, dropped, crossed, orphaned, bounds>>

\* the verdict the bus has for a waiting runner
Heard(r) ==
  CASE bus[r] = "redis" /\ listener[r] \notin {"absent", "waiting"} -> listener[r]
    [] bus[r] = "memory" -> kept[r]
    [] OTHER -> "none"

WakeByBus(r) ==
  /\ runner[r] = "waiting" /\ ~saving[r]
  /\ Heard(r) # "none"
  /\ kept' = [kept EXCEPT ![r] = IF bus[r] = "memory" THEN "none" ELSE @]
  /\ listener' = [listener EXCEPT ![r] = "absent"]
  /\ Leaves(r, [tasks[r] EXCEPT !.decision = Heard(r)])
  /\ UNCHANGED <<bus, publishing, inbox, saving, accepted, cancelled,
                 roused, dropped, crossed, orphaned, bounds>>

WakeByEvent(r) ==
  /\ runner[r] = "waiting" /\ ~saving[r]
  /\ event[r] = "set"
  /\ listener' = [listener EXCEPT ![r] = "absent"]
  /\ Leaves(r, tasks[r])
  /\ UNCHANGED <<bus, kept, publishing, inbox, saving, accepted, cancelled,
                 roused, dropped, crossed, orphaned, bounds>>

\* After 1.5 seconds the next round; a message that comes now is dropped.
RoundEnds(r) ==
  /\ runner[r] = "waiting" /\ ~saving[r] /\ event[r] # "set" /\ Heard(r) = "none"
  /\ runner' = [runner EXCEPT ![r] = "checking"]
  /\ listener' = [listener EXCEPT ![r] = "absent"]
  /\ UNCHANGED <<tasks, row, key, bus, kept, publishing, inbox, event, saving, history, bounds>>

\* _safe_resume_workflow begins, on the record as the row has it, except the
\* verdict: the state store alone keeps that, for the review its loop comes to.
ResumeBegins(r) ==
  /\ runner[r] = "resuming" /\ ~saving[r]
  /\ runner' = [runner EXCEPT ![r] = "asking"]
  /\ tasks' = [tasks EXCEPT ![r] = Running]
  /\ row' = Running
  /\ dropped' = (dropped \/ (row.decision \notin {"none", key[StoreOf(r)]}))
  /\ UNCHANGED <<channels, event, saving, accepted, taken, cancelled, roused, crossed,
                 orphaned, bounds>>

-----------------------------------------------------------------------------
(* Requests of clients                                                     *)

\* Another replica has the runner or handles a request, or the copy in
\* memory here, loaded by a query, is out of date.
Meets(r) ==
  \/ \E q \in Replicas \ {r} : runner[q] \in Alive \/ saving[q]
  \/ Loaded(r) # row

Request(r) ==
  /\ ~saving[r] /\ requests < MaxRequests
  /\ requests' = requests + 1
  /\ crossed' = (crossed \/ Meets(r))

\* A verdict the state store refuses is not stored, and nobody is told.
Store(r, d) ==
  \/ key' = [key EXCEPT ![StoreOf(r)] = d]
  \/ SharedStore /\ UNCHANGED key

\* publish_review_decision, publish_review_decision_sync: where no bus was
\* made yet this makes one in memory, whatever the configuration says
Publish(r, d) ==
  /\ Store(r, d)
  /\ bus' = [bus EXCEPT ![r] = IF @ = "none" THEN "memory" ELSE @]
  /\ publishing' = [publishing EXCEPT ![r] = @ \cup {d}]
  /\ UNCHANGED <<kept, listener, inbox>>

Approve(r, d) ==
  /\ Request(r)
  /\ Loaded(r) = [status |-> "waiting_review", decision |-> "none"]
  /\ tasks' = [tasks EXCEPT ![r] = [status |-> "waiting_review", decision |-> d]]
  /\ Publish(r, d)
  /\ accepted' = accepted \cup {d}
  /\ saving' = [saving EXCEPT ![r] = TRUE]
  /\ UNCHANGED <<row, runner, event, taken, cancelled, roused, dropped, orphaned, restarts>>

\* The same verdict again is published again, and nothing is resumed.
ApproveAgain(r, d) ==
  /\ Request(r)
  /\ Loaded(r) = [status |-> "waiting_review", decision |-> d]
  /\ tasks' = [tasks EXCEPT ![r] = Loaded(r)]
  /\ event' = [event EXCEPT ![r] = IF @ = "none" THEN @ ELSE "set"]
  /\ Publish(r, d)
  /\ accepted' = accepted \cup {d}
  /\ UNCHANGED <<row, runner, saving, taken, cancelled, roused, dropped, orphaned, restarts>>

\* get_pending_reviews and the queries load the task, another verdict is refused
Query(r) ==
  /\ ~saving[r] /\ tasks[r] = NoRecord
  /\ tasks' = [tasks EXCEPT ![r] = row]
  /\ UNCHANGED <<row, channels, runner, event, saving, history, bounds>>

\* the variables a request under the review leaves alone
outsideRequest == <<row, bus, kept, listener, publishing, inbox, runner, event, accepted,
                    taken, dropped, orphaned, restarts>>

Pause(r) ==
  /\ Request(r)
  /\ Loaded(r).status = "waiting_review"
  /\ tasks' = [tasks EXCEPT ![r] = [Loaded(r) EXCEPT !.status = "paused"]]
  /\ saving' = [saving EXCEPT ![r] = TRUE]
  /\ UNCHANGED <<outsideRequest, key, cancelled, roused>>

\* A runner still there finds the status as it was; TaskRunners tells what
\* comes of a second resumption before the first has begun.
Resume(r) ==
  /\ Request(r)
  /\ Loaded(r).status = "paused" /\ runner[r] # "resuming"
  /\ LET back == IF runner[r] \in Alive THEN "waiting_review" ELSE "running"
     IN tasks' = [tasks EXCEPT ![r] = [Loaded(r) EXCEPT !.status = back]]
  /\ roused' = (roused \/ runner[r] \in Alive)
  /\ saving' = [saving EXCEPT ![r] = TRUE]
  /\ UNCHANGED <<outsideRequest, key, cancelled>>

FaultyCancel(r) ==
  /\ Request(r)
  /\ Loaded(r).status \in {"waiting_review", "paused"}
  /\ tasks' = [tasks EXCEPT ![r] = [status |-> "waiting_review", decision |-> "reject"]]
  /\ Store(r, "reject")
  /\ cancelled' = TRUE
  /\ saving' = [saving EXCEPT ![r] = TRUE]
  /\ UNCHANGED <<outsideRequest, roused>>

\* Only a cancellation of the waiting task leaves a verdict.
Cancel(r) ==
  /\ Request(r)
  /\ Loaded(r).status \in {"waiting_review", "paused"}
  /\ IF Loaded(r).status = "waiting_review"
     THEN /\ tasks' = [tasks EXCEPT ![r] = [status |-> "cancelled", decision |-> "reject"]]
          /\ Store(r, "reject")
     ELSE /\ tasks' = [tasks EXCEPT ![r] = [Loaded(r) EXCEPT !.status = "cancelled"]]
          /\ UNCHANGED key
  /\ cancelled' = TRUE
  /\ saving' = [saving EXCEPT ![r] = TRUE]
  /\ UNCHANGED <<outsideRequest, roused>>

FaultyWakesOnly(r) ==
  /\ event' = [event EXCEPT ![r] = IF @ = "none" THEN @ ELSE "set"]
  /\ row' = tasks[r]
  /\ UNCHANGED <<tasks, runner>>

\* A runner that waits here is woken; with none here the task is resumed.
Saved(r) ==
  IF event[r] # "none" \/ tasks[r].status \in {"paused", "cancelled"} \/ runner[r] \in Alive
  THEN /\ event' = [event EXCEPT ![r] = IF @ = "none" THEN @ ELSE "set"]
       /\ row' = tasks[r]
       /\ UNCHANGED <<tasks, runner>>
  ELSE /\ tasks' = [tasks EXCEPT ![r].status = "running"]
       /\ row' = tasks'[r]
       /\ runner' = [runner EXCEPT ![r] = "resuming"]
       /\ UNCHANGED event

SaveRequest(r) ==
  /\ saving[r]
  /\ saving' = [saving EXCEPT ![r] = FALSE]
  /\ Saved(r)
  /\ UNCHANGED <<channels, history, bounds>>

-----------------------------------------------------------------------------
(* The bus, time and crashes                                               *)

PublishInMemory(r, d) ==
  /\ bus[r] = "memory"
  /\ kept' = [kept EXCEPT ![r] = d]
  /\ UNCHANGED inbox

\* every subscribed replica, the publisher among them
PublishOverRedis(r, d) ==
  /\ bus[r] = "redis"
  /\ inbox' = [q \in Replicas |-> IF bus[q] = "redis" THEN inbox[q] \cup {d} ELSE inbox[q]]
  /\ UNCHANGED kept

\* Once connected the bus has no fallback: a failing publication raises.
PublishRaises(r) == bus[r] = "redis" /\ UNCHANGED <<kept, inbox>>

Published(r) ==
  \E d \in publishing[r] :
    /\ ~saving[r]
    /\ publishing' = [publishing EXCEPT ![r] = @ \ {d}]
    /\ PublishInMemory(r, d) \/ PublishOverRedis(r, d) \/ PublishRaises(r)
    /\ UNCHANGED <<tasks, row, key, bus, listener, runner, event, saving, history, bounds>>

\* _listen_loop: a message that finds no listener is dropped
Receive(r) ==
  \E d \in inbox[r] :
    /\ ~saving[r]
    /\ inbox' = [inbox EXCEPT ![r] = @ \ {d}]
    /\ listener' = [listener EXCEPT ![r] = IF @ = "waiting" THEN d ELSE @]
    /\ UNCHANGED <<tasks, row, key, bus, kept, publishing, runner, event, saving, history, bounds>>

\* after a day, in a review that is still open
KeyExpires ==
  \E s \in Stores :
    /\ key[s] # "none"
    /\ key' = [key EXCEPT ![s] = "none"]
    /\ dropped' = (dropped \/ \E r \in Replicas : runner[r] = "asking")
    /\ UNCHANGED <<tasks, row, bus, kept, listener, publishing, inbox, runner, event, saving,
                   accepted, taken, cancelled, roused, crossed, orphaned, bounds>>

Restart(r) ==
  /\ restarts < MaxRestarts
  /\ restarts' = restarts + 1
  /\ tasks' = [tasks EXCEPT ![r] = NoRecord]
  /\ key' = [s \in Stores |-> IF s = r THEN "none" ELSE key[s]]
  /\ bus' = [bus EXCEPT ![r] = "none"]
  /\ kept' = [kept EXCEPT ![r] = "none"]
  /\ listener' = [listener EXCEPT ![r] = "absent"]
  /\ publishing' = [publishing EXCEPT ![r] = {}]
  /\ inbox' = [inbox EXCEPT ![r] = {}]
  /\ runner' = [runner EXCEPT ![r] = "none"]
  /\ event' = [event EXCEPT ![r] = "none"]
  /\ saving' = [saving EXCEPT ![r] = FALSE]
  /\ orphaned' = (orphaned \/ accepted # {} \/ cancelled)
  /\ UNCHANGED <<row, accepted, taken, cancelled, roused, dropped, crossed, requests>>

Wait(r) == Ask(r) \/ Check(r) \/ WakeByBus(r) \/ WakeByEvent(r) \/ RoundEnds(r) \/ ResumeBegins(r)

Client(r) ==
  \/ \E d \in Decisions : Approve(r, d) \/ ApproveAgain(r, d)
  \/ Query(r) \/ Pause(r) \/ Resume(r) \/ Cancel(r)

Next ==
  \/ \E r \in Replicas :
       Wait(r) \/ Client(r) \/ SaveRequest(r) \/ Published(r) \/ Receive(r) \/ Restart(r)
  \/ KeyExpires

Spec == Init /\ [][Next]_vars

\* Event loops and requests that have begun go on; clients need not come.
FairSpec ==
  /\ Spec
  /\ \A r \in Replicas :
       WF_vars(Wait(r)) /\ WF_vars(SaveRequest(r)) /\ WF_vars(Published(r)) /\ WF_vars(Receive(r))

-----------------------------------------------------------------------------
(* Properties                                                              *)

\* The types of the variables.
TypeOK ==
  /\ tasks \in [Replicas -> Record] /\ row \in Record
  /\ key \in [Stores -> Decision]
  /\ bus \in [Replicas -> {"none", "memory", "redis"}]
  /\ kept \in [Replicas -> Decision]
  /\ listener \in [Replicas -> {"absent", "waiting"} \cup Decisions]
  /\ publishing \in [Replicas -> SUBSET Decisions] /\ inbox \in [Replicas -> SUBSET Decisions]
  /\ runner \in [Replicas -> Stage]
  /\ event \in [Replicas -> {"none", "clear", "set"}] /\ saving \in [Replicas -> BOOLEAN]
  /\ accepted \subseteq Decisions /\ taken \subseteq Decisions
  /\ {cancelled, roused, dropped, crossed, orphaned} \subseteq BOOLEAN
  /\ requests \in 0..MaxRequests /\ restarts \in 0..MaxRestarts

Runners == {r \in Replicas : runner[r] \in Alive}

\* A runner goes on with a verdict a client gave, whichever channel woke it.
\* The default `_await_human_review` has for a missing one, an approval, is
\* taken in one case: a client paused the task and resumed it before its
\* runner had left the wait.  A restart amid a cancellation leaves the
\* cancellation's reject in the state store, for a task still in review.
TakenWasAccepted ==
  ~crossed =>
    taken \subseteq accepted \cup (IF roused THEN {"approve"} ELSE {})
                           \cup (IF cancelled /\ orphaned THEN {"reject"} ELSE {})

\* One verdict is accepted for the review, whoever else gives one.  A restart
\* between the two writes of a request forgets it; so does a run resumed
\* when the state store has it no longer.
OneVerdict == ~crossed /\ ~orphaned /\ ~dropped => Cardinality(accepted) <= 1

\* An accepted verdict is acted upon unless the task stays paused: the bus may
\* lose it and the state store refuse or forget it, the row and the record
\* have it.  A restart between the acceptance and the wake-up leaves the task
\* in review for good; a resumed run has only the state store's copy.
VerdictIsTaken ==
  (accepted # {}) ~> (taken # {} \/ cancelled \/ crossed \/ orphaned \/ dropped
                      \/ [](row.status = "paused"))

\* A cancellation ends the wait, and the run with it.
CancelStops ==
  cancelled ~> (Runners = {} \/ crossed \/ orphaned)

\* The state of a review: typed, one verdict, and that one is taken.
ReviewInvariant == TypeOK /\ TakenWasAccepted /\ OneVerdict
=============================================================================
