# A verification of blog_writer's orchestration

TLA+ models of the part of blog_writer that decides *what runs when and who is
told what*: the concurrency limiter, the execution loop of a task with its
routing, retries and reviews, the attempts of a step, the control calls clients
make, the coroutines that run a task, the store that keeps it, and what stands
around it: webhooks, sessions, the configuration and the request limiter. Small
instances are checked with TLC, the main results are proved with TLAPS for every
value of the constants.

Run from this directory: `tlc -config <cfg> <module>` for a run listed in
`PROJECT.json`, `tlapm <module>` for a proof module.

## 1. The system

blog_writer is a Python service (FastAPI on one asyncio event loop; several
processes only behind a shared Redis) that takes a task "write an article"
through a list of *step files*. Paths below are relative to `src/blog_writer/`.

| Component | State | Operations | Correct when | Module |
|---|---|---|---|---|
| **Concurrency limiter** `workflow_service.py` 595–660, 824–1060 | `max_concurrent_tasks`, `_available_slots`, `_priority_queue`, `_queue_counter`, `held_slot` and `_queue_aborted` per task | acquire, release, abort a waiter, change a priority, resize | no slot lost or invented, none idle beside a waiter, served in order | TaskSlots |
| **Execution loop** `workflow_service.py` 1690–2480, `workflow/routing.py`, `helpers.py`, `budgets.py` | the task record (`status`, `current_step`, `completed_steps`, `retry_counts`, `node_results`), locals `skip_steps`, `retry_count`, `jump_budget`, `loop_count` | execute a step, retry, fall back, jump, finish, resume, re-run | nothing is executed over its own completion record, nothing is completed that did not succeed, the loop ends | StepLoop |
| **Step executors** `agent/*.py`, `llm/providers.py` | messages, tool calls, token counts, output files | model request, tool call, script, checks | bounded; a success passed its checks on this attempt's output | StepAttempts |
| **Human review wait** `workflow_service.py` 455–593, `workflow/review_wait.py` | `review_decision`, the published decision, `_pause_events` | wait, be woken, consume the decision | one decision per review, given by a person, and taken | StepLoop, ReviewChannels |
| **Review event bus** `review_event_bus.py` | a decision and an event per task, or a Redis channel | publish, wait, clear | a decision reaches its review | ReviewChannels |
| **Task control** `workflow/task_control.py` | writes into the task record | approve, pause, resume, cancel, retry-node | the status tells what the loop does | each module the handler reaches |
| **Task runners** `workflow_service.py` 145–155, 1690–1760, 1915–1960; `api/tasks.py` | `_running_tasks` | the coroutines of start, resume, approve, retry-node, resume-from, rerun-from | one loop per task | TaskRunners |
| **Scheduler** `workflow_service.py` 689–870 | scheduled tasks in memory and in the database | launch a due task, end a schedule | every due task launched once | TaskStore |
| **Task store** `db.py`, `_save_state`, `_load_state`, `_ensure_task_loaded`, clean-up timer | rows, the tasks in memory, the status cache | save, load, clean up, recover, delete | an answer given is not taken back | TaskStore, TaskRegister |
| **Task start** `api/tasks.py` | registration, batches | start, batch start | no task registered without a runner | TaskStore |
| **State store** `state_store.py` | keys with an expiry | set, get, delete | – | in its users |
| **Webhook delivery** `api/webhooks.py`, `api/integration_events.py` | subscriptions, retries, history | register, unregister, fire, retry | wanted events, to the address in force, once unless an answer is lost | Webhooks |
| **Rate limiter** `security/rate_limiter.py` | windows, a bucket | allow, clean up, rebuild | nobody above a rate, nobody refused below it | RequestLimits |
| **Authentication** `security/auth.py`, `api/auth.py`, `api/deps.py`, `integrations.py` | sessions in five places, passwords | log in, log out, revoke, change a password | an ended session is refused, a live one accepted | Sessions |
| **Configuration** `config_manager.py`, `main.py` 54–150, `api/admin/config.py` | the file, two views of it, what is built from it | update, reload, rebuild | no acknowledged password is lost, what was built follows | Sessions |

Not considered: the static checks of program text, paths and addresses (no
state), who may see which task (`task_access.py`, a pure predicate), node and
brand administration, the task log, alerts and metrics, content scripts, the web
interface.

### How they interact

* `POST /tasks/start` registers the task and creates its `start_workflow`
  coroutine, wrapped in `_safe_start_task` with the optional whole-task timeout.
  That coroutine asks the limiter for a slot, enters the loop, gives the slot
  back. The scheduler creates the same coroutine without the wrapper.
* The loop awaits an executor, a sleep before a retry, or a review. Between two
  awaits nothing else runs, in between every handler may.
* An executor sends requests to the provider all tasks share, and runs tools and
  scripts in threads and processes that do not end when the step times out.
* Handlers never call into the loop: they write the shared task record, publish
  to the StateStore and the bus, set the event of a waiting review, or create a
  further coroutine. The limiter hands slots to waiters through events.
* Resumed and re-run coroutines do not ask for a slot; they replace the record in
  memory by the one in the database.
* A timer thread drops ended tasks from memory; every handler loads them again.
* Each request passes the limiter, then authentication; either may notice that
  `config.json` has changed and call back into what has to be rebuilt.
* Events of a task become deliveries, one coroutine each.

### What is hard

* The loop reads status and decision after every await, and a handler may have
  changed either, more than once, in between.
* Every coroutine but the first is created by a handler that has only looked at a
  mark set *later*, when the coroutine begins.
* A decision travels through four channels (record, row, StateStore, event bus),
  each cleared in places of its own, perhaps in another process.
* Cancelling a coroutine (whole-task timeout) at `event.wait()` runs none of the
  limiter's code; cancelling one at a tool (step timeout) stops neither its
  thread nor its process.
* Jumps back, retries and resumed runs each drop part of what a step left behind.
* Saves and deletions fail, processes restart, and what was in memory only is
  gone, while what is in the row only has no coroutine.
* Two writers hold stale copies of one configuration file.

`PROJECT.json` lists the hazards at their lines, with the properties that cover
them.

## 2. The models

### SlotSemaphore: what the limiter promises

A resizable counting semaphore: `limit`, `capacity` (slots that exist), `holders`.
`Acquire`, `Release`, `HandOver` (a slot that goes to a waiter without being
free), `SetLimit` (a raise creates slots, a lower limit removes none). It has no
queue, no abort and no status.

### TaskSlots: the limiter

One state component per field (comments in the module name them); `pc[t]` is where
the coroutine of task `t` stands with respect to the one await, `event.wait()`.

| Action | Code |
|---|---|
| `StartTask`, `LaunchScheduledTask` | `pre_register_task` + `create_task`; the scheduler's launch |
| `AcquireSlot`, `Wake` | `_acquire_slot` before and after its await, with the check of `start_workflow` that follows (`AfterAcquire`) |
| `Finish` | the end of `start_workflow`: `_finalize_task` and the `finally` clause (`ReleaseSlot`) |
| `TimeOut` | `asyncio.wait_for` in `_safe_start_task` |
| `CancelQueuedTask`, `EndScheduleOfQueued` | cancel-queue and the scheduled end, through `_abort_queued_waiter` |
| `CancelTask`, `PauseTask`, `ResumeTask` | control calls that reach the limiter only through the status |
| `OtherRunnerStarts`, `OtherRunnerEnds` | what a resumed or re-run coroutine writes into the record |
| `SetTaskPriority`, `SetMaxConcurrent` | the two administrator calls |

The queue is a sequence kept sorted; `append; sort()` is the choice of the place
that keeps it sorted (`SortedInserts`). Counters make the place unique. Two
constants widen the environment: `TaskTimeout` (the variable
`BLOG_WRITER_TASK_TIMEOUT_SECONDS`, off by default) and `OtherRunners`.

`TaskSlots` implements `SlotSemaphore` under the mapping `limit <- maxConcurrent`,
`capacity <- SlotsInExistence`, `holders <- Holders`: a slot belongs to a run with
`held_slot`, or to a coroutine whose event was set by a hand-over.

### StepLoop: the execution loop

One task, one loop. Actions are the stretches between two awaits, or shorter where
a property looks in between: states in `Transient` are inside such a stretch and no
client action is enabled there. `pc` values `attempt`, `backoff` and `review` are
the three awaits.

* Head of the outer loop: `EndLoop`, `StopAtStep`, `SkipCompletedStep`,
  `SkipHumanReview`, `RequestHumanReview`, `StartStep`.
* The retry loop of a step: `GiveUp`, `BackOff`, `Attempt`, the outcomes of an
  executor `StepSucceeds`, `ChecksFail`, `StepTimesOut`, `StepRaises`, then
  `StepPassed` or `StepFailed`.
* The review: `AwaitReview` (the code before the first await), `ReviewWakes`, and
  one action per verdict and kind of review. A decision is in three places: the
  record (`decision`), the StateStore (`stored`) and the memory event bus (`bus`).
  A round of the wait ends with whatever comes first. When the record is read
  first, the bus keeps its copy (`ReviewWakes`, first two disjuncts); when the wait
  on the bus comes first, it takes the copy off (`TakeOffBus`). The bus's own event
  is set by the first decision and never cleared, so from the second review on the
  loop does not park on it and finds the decision in the record; in the first review
  it does so only between two polls. The model has both outcomes in every review.
  `given` is what clients decided of the review that waits, and `strays` how an answer
  nobody gave it came about: both are history.
* `MoveTo` is `_apply_route_jump`, `PassOn` is `resolve_next(passed=True)` and the
  move, `CanFallBack`/`CountJump` the jump budget.
* `FinalizeTask` is the check of the loop limit with `_finalize_task`.
* `BeginResumedRun` is `_resume_workflow`, `BeginRerun` is `rerun_from_node`.
* Clients: `PauseTask`, `ResumeTask`, `CancelTask`, `ApproveReview`, `RetryNode`,
  `ResumeFrom`, `RerunFrom`.

The registry is data: `OnPass[s]` is the set of steps a passed step may lead to
(several where a risk code selects one), `OnFail[s]` its fall-back, 0 meaning *finish*
and *none*. Steps are numbered in the order of `step_files`. The result of a step
is only what `_finalize_task` and the checks tell apart: `success`, `partial`,
`error`. Token sums are abstracted to "the budget may be exceeded now".

### TaskRunners: the coroutines of one task

The mark `_running_tasks`, the status, the review's event, and where each coroutine
stands. `StartBegins`, `ResumedRunBegins` are the entries into `_execute_steps`
with their opposite treatment of the mark; `RunAsksReview`, `ReviewEnds`,
`RunEnds` are StepLoop's loop seen from outside; the handlers create coroutines.
`hasty` is a history
variable: a handler has created a coroutine while another had not begun.

### TaskRegister: what the store promises

A task's status is a durable register: it changes along the edges of `Follows`
and disappears only by a deletion. There is no memory, no database and no restart.
The promise ends with the first write that fails.

### TaskStore: where a task is kept

Record in memory (`mem`), row (`row`), status cache (`cache`), the coroutine
(`coro`), `_scheduled_launching`, the clean-up timers and what a clean-up thread has
read and not yet acted upon (`dropping`), the clock of a schedule. A record is its
status and its plan.

| Action | Code |
|---|---|
| `StartTask`, `StartWithRefusedCallback`, `StartUnsaved`, `BatchStart` | `start_task`, `batch_start_tasks`, with the error paths after registration |
| `Sweep` | one pass of the scheduler: both scans over memory and rows, launch and end |
| `StartBegins`, `SlotGranted`, `SlotGrantedInVain` | `start_workflow` up to the loop |
| `ResumeBegins`, `ResumeFails` | `_resume_workflow`, `rerun_from_node` |
| `LoopEnds`, `LoopRaises` | the end of a run, its last save, the clean-up timer |
| `TimerFires`, `TimerDrops` | the timer's thread: look at the status, then drop the record |
| `QueryTask`, `CancelTask`, `CancelQueuedTask`, `PauseTask`, `ResumeTask`, `ResumeCompletedTask`, `RetryNode`, `ResumeFrom`, `DeleteTask`, `DeleteTaskFails` | the handlers, each through `_ensure_task_loaded` (`Ensure`) |
| `Restart`, `TimePasses` | the process; the clock |

Under the mapping `status <- Visible` (what `GET /tasks/<id>` answers, from memory,
cache or row), `failed <- faults > 0`, TaskStore implements TaskRegister.
`stranded` is the history of tasks a restart, a refusal or a failed save left
without a coroutine.

### Webhooks

One task's subscription in every replica's memory and in the shared store, and the
deliveries. A replica that has no record reads the store first and acts on what it
read (`Found`): other replicas take steps in between, its own event loop does not.
`FireBegins`, then per attempt a request and its answer (accepted, refused, lost
after the receiver accepted), the back-off, the history. `StoreGoes`,
`StoreReturns`, `Expires`, `Restart` are the faults. `stale` and `unsaved` remember
that a change of the subscription missed a copy.

### ReviewChannels: one level below StepLoop's review

StepLoop's review takes a verdict from "whatever comes first"; here are the rounds
of `_await_human_review` (`Ask`, `Check`, `WakeByBus`, `WakeByEvent`, `RoundEnds`), the
publication as a coroutine of its own (`Published`), Redis messages on their way
(`Receive`), the two writes of a request (`Approve`, `Pause`, `Resume`, `Cancel` write
memory, some of them the StateStore, and `SaveRequest` the row) with other replicas in
between, a StateStore that refuses (`Store`), restarts and the day after which a key
expires (`KeyExpires`). A runner that leaves its wait finds a verdict, a paused or
cancelled task (`Stops`), or nothing, and then takes the code's default, an approval
(`Leaves`). One that took a verdict just goes on; what the verdict does to the run is
StepLoop's. A paused task that is resumed comes to the review again in a new run
(`ResumeBegins`), which drops the record's copy of a verdict and asks the StateStore.
History: `roused`, a client resumed the task before its runner had left the wait;
`dropped`, the last copy of a verdict went with such a new run; `crossed`, a request at
a replica that does not own the runner made a second runner; `orphaned`, a restart fell
between the acceptance and the wake-up.

### RequestLimits

`Request(c, e)` is the whole of `check_rate_limit`: the client's window, the clean-up
of idle windows when due, the endpoint's window, the bucket, in the code's order, and
what an earlier limit counted is not given back. `Rebuild` is the callback of
a configuration change: windows and bucket start afresh. Windows are sets of positions
in a log of what was let through, so that properties can be about the log and not about
the window. The logs (`passed`, `reached`, `granted`) outlive a rebuild; an entry has its
time and the number of the limiter it met, and `rebuilt` the times of the rebuilds. So a
property can say both what one limiter keeps and what all of them together let through.

### Sessions

Local sessions in `AuthManager`'s dictionary and in the StateStore, SSO sessions in
the two provider objects (`api/auth.py`, `api/deps.py`) and in the StateStore.
`config.json` as a file, as ConfigManager's copy (re-read when the modification time
changed) and as AuthManager's copy (which lives less than a tick). Three writers:
`ChangePassword` from AuthManager's copy, `UpdateConfig`/`SetWorkflow` from
ConfigManager's, `EditFile` by hand. `env` is the process's environment: the passwords it
sets come before those of the file (`Credentials`), and with a service token in it no
call reads the file for one. Handlers await nothing: each is one step, with
the reload and the call-backs it sets off. `escaped` are sessions that ended while
Redis was out of reach or a provider held a copy, `lost` the roles whose acknowledged
password a stale copy has overwritten.

### StepAttempts: one level below StepLoop's attempt

The executor made for each attempt: the agent's rounds with the model and its tool
calls, a single completion, which may save all, nothing, or fail at it; a script, or
neither; the checks, hard and soft, which may also raise (`CheckFileFails`); the
result. The output file and its misnamed alias, the threads and processes a timeout
leaves running, that of a check at its own limit included (`lingering`, `CheckRunsOn`,
`Straggler`), the provider's totals which other tasks
raise (`OtherTaskAsks`) and a change of configuration replaces (`ReloadModel`). Data are
good, bad, failed or none, and carry the attempt that wrote them. `results` are the
statuses the loop appends to `node_results`, `reported` is what `accumulate_tokens` makes
of the whole list; `seen` collects the files the checks of an attempt read. A check its
executor cannot look at fails (`CheckUnknown`): a script has no model to ask, and
only a script leaves values. `Kinds` are the kinds of node that reach an executor at all.

### How they fit together

Each model takes the others as its environment. StepLoop's handlers create a run
only when its loop is away, TaskRunners shows when that is so. TaskSlots treats a run
as something that ends, StepLoop's `RunEnds` says when it does, and StepLoop takes the
outcome of an attempt that StepAttempts' `StepSettles` says arrives. What the other
runners do to a queued task is in TaskSlots as `OtherRunnerStarts/Ends`.
ReviewChannels stands inside StepLoop's three review channels, TaskStore gives the
record that StepLoop and TaskSlots hold in one place, and says what a restart does to
it. A configuration change in Sessions is RequestLimits' `Rebuild`. A cancelled,
paused, retried or re-run task is an action in each module whose state the handler
reaches.

## 3. What is checked

Every run states its instance in its cfg. Each property is tested against a
plausible slip in the code (the `Faulty…` operators, listed under `mutants`). A
module's typing is part of its `…Invariant`, or proved (StepLoop, TaskRunners).

| Run | Instance | Shows |
|---|---|---|
| `slots` | no timeout, no other runners | `ImplementsSemaphore`, `NoSlotLost`, the invariant of the proofs (with `WaitersAreQueued`), `EveryWaiterLeaves` |
| `slots_disturbed` | whole-task timeout and other runners | what survives them: `EveryWaiterQueued`, `NoIdleSlot`, `HandOverInOrder` |
| `supervised` | a review its rule may skip, paused and cancelled under it | `WaitingMeansWaiting`, `DecisionsAnswerTheirReview`, `CompletedReachedTheEnd`, `StoppedStartsNoStep` |
| `manual` | a reviewer decides on results, too | `GivenUpAfterAttempt`, `RunEnds` |
| `reruns` | auto mode, token budget, every call | `CompletedStepNotRedone`, `DoneMeansSucceeded` |
| `runners` | four coroutines of one task | `MarkMeansExecuting`, `RunningHasRunner`, `OneLoopUnlessHasty` |
| `store` | one task, one restart, one fault, the timer as a thread | `ImplementsRegister`; `StoreInvariant` (memory and row agree, started once); `UnattendedIsKnown`; `CancelSticks`; `SchedulesAreKept` |
| `webhooks` | two replicas, two registrations, one delivery, one fault | `WebhooksInvariant` (the registration in force everywhere, nothing sent unasked, truthful history); `SendsAreWanted`; `FireSettles` |
| `reviews` | two replicas on Redis, three requests, one restart | `ReviewInvariant` (one verdict, and the one taken was given, or nobody was asked); `VerdictIsTaken`; `CancelStops` |
| `limits` | two clients, an endpoint, two rates, one rebuild, four ticks | `LimitsInvariant`, `SharesKept` (per limiter, and over a rebuild), `RefusedOnlyWhenUsedUp` |
| `sessions` | two sessions, two passwords, two environments, two writes, one fault | `SessionsInvariant` (SSO mandatory, limiter follows); `EndedStaysEnded`; `LiveIsAccepted`; `PasswordsAreAcknowledged` |
| `attempts` | eight nodes of seven kinds, two of everything | `AttemptsInvariant` (checks see this attempt's data); `SuccessIsEarned`; `SpendingIsCounted` (requests are bounded; what is reported lies between what was spent on the last provider and a multiple of its count); `StepSettles` |

### Exceptions the properties name

The code keeps several promises only up to a point, and the properties say up to
which: a task is `stranded`, a subscription `stale` or `unsaved`, a review `crossed`,
`orphaned`, `roused` or `dropped`, a session `escaped` or `unsaved`, a password `lost`, an
output `late`, a decision one of the `strays`. Each is a history variable set by exactly
the steps that cause it, so a property with such a premise is about all other
behaviours; section 6 says what happens in these. Where a premise can be a bound instead
it is one: a rebuilt limiter (`rebuilt`) costs one more share in `SharesKept`.

Not covered by a property, though near one: which of several deliveries of one webhook
arrives first (`webhooks` follows one), a receiver asked again after a lost answer (only
that it may be), two loops after hasty calls (`OneLoopUnlessHasty` names them, and no
property says what they do to each other), a step skipped that a jump back invalidated,
a run that reached its end in its very last pass and says `failed`, SSO made mandatory by
hand in the file.

### Bounds, and why they are enough

* TaskSlots: three tasks and one slot, two if raised. Two waiters beside a holder
  are what the queue needs to be reordered, aborted in the middle and drained; the
  abort flag, the hand-over and the entry concern one task at a time. `slots` has
  one priority (its properties do not depend on the order), `slots_disturbed` two,
  which gives ties and orders. Lowering and raising the limit again creates slots
  each time (section 6); `SlotBound` stops that. A task has one start coroutine,
  so `queueCounter` is bounded by the tasks.
* StepLoop: four steps (draft, its review, a gate, the publication) have every kind
  of route: forwards, past a review, back to itself, back over two steps, none.
  One retry gives first, last and exhausted attempts. `MaxLoop` is 10, room for a
  jump back and a second round; longer runs are cut off, which is how the loop limit
  is reached. In `reruns` there are three steps and `MaxLoop` is 6, since five calls
  at every state make the product large. In `manual` it is 7: two full rounds of
  the draft, its review and the gate, and the publication. `RetryBound` bounds
  `retry_node`, whose count grows for ever.
* TaskRunners: the start coroutine and three others. Two coroutines that race and a
  third that arrives afterwards are the shape of every race here; four make sure
  the number is no accident.
* TaskStore: tasks do not meet in it, except in a sweep, a batch and a restart, which
  treat each by itself; one task is enough for TLC, and the proofs are for any number.
  Fault and restart together give every state in which memory and row disagree when the
  process comes back. Two timers are the most one task can have (a second end within
  thirty seconds).
* Webhooks: a second registration is what makes a copy stale, a second replica is where
  it is; deliveries share nothing but the subscription and the history, so that one is
  followed; all later ones are as the first.
* ReviewChannels: one runner's review; three requests are two verdicts and a
  cancellation, a verdict, a rival and a late one, or a pause, a resumption and a verdict.
* RequestLimits: a client's window is four ticks and dropped after two idle ones, an
  endpoint's is two ticks: one window loses requests that should still count, one slides
  away fully, in four ticks. One rebuild (`MaxRebuilds`) makes two limiters;
  `MaxRate` is the larger rate, and `MaxPassed`, the bound of a client's log, two
  such shares. Theorems lift all of these bounds.
* Sessions: one session of each kind, or two of one; two passwords tell the one
  acknowledged from the one overwritten or set by the environment; two writes are the
  stale write after the fresh one; two ticks let a session expire. One environment is
  empty, the other that of `docker-compose.yml`.
* StepAttempts: the second attempt is the one that meets what the first left behind; the
  second round with the model follows tool results; the second try follows a failed
  request. One tool call makes the limit bite at the second.

### Fairness

* `EveryWaiterLeaves`: weak fairness of each coroutine's steps. The event loop runs
  ready coroutines; that an executing run ends is an assumption on steps (they have
  timeouts) *and on reviewers*: a run that waits for a decision nobody takes keeps
  its slot. The code gives no more than that.
* `RunEnds`: weak fairness of the loop. A step has a timeout, a sleep ends;
  nothing makes a reviewer decide, so waiting for one is one of the two ends.
* `SchedulesAreKept`: weak fairness of the sweep, which wakes every fifteen seconds
  as long as the process lives.
* `FireSettles`: weak fairness of a delivery's steps (requests have a time limit, a
  back-off ends) and of the look-up; strong fairness of its first step, since registering
  and unregistering again and again would otherwise keep it from its turn: asyncio's ready
  queue is first in, first out.
* `VerdictIsTaken`, `CancelStops`: weak fairness of the waiting coroutine (it polls),
  of the second half of a request that has begun, and of publications and messages.
* `StepSettles`: weak fairness of the coroutine *where it does not wait*, and of the
  timeout that ends every wait. That a model answers or a tool ends is not assumed.
* Clients are never fair.

`CHECK_DEADLOCK FALSE` stands where the system may come to rest (a task that is done)
or a bounded clock stops; the limiter's instances never stop.

## 4. What is proved

Every proof is checked to the leaves; `PROJECT.json` lists the theorems.

* **TaskSlotsProofs**, for any finite set of tasks and any limit.
  * Under every setting, the whole-task timeout and other runners included:
    `TypeCorrect`, `NoSlotIdles`, `WaitersKeepTheirEntry`, `HandOversInOrder` (every step
    serves a prefix of a sorted queue). They follow from `Core`: the queue is sorted,
    each entry is of one task, each suspended coroutine has its entry, queue numbers
    never exceed the counter. A coroutine the timeout kills leaves its entry behind,
    so that entries and coroutines correspond one way only.
  * Assuming `~TaskTimeout`, they correspond both ways: `WaitersMatchQueue`,
    `SlotsInvariantHolds`. An abort flag is then only up while its coroutine is
    woken; without that a later grant would be read as an abort. With the timeout
    this is false (section 6).
  * `LimiterIsASemaphore` (also `~OtherRunners`), from the same invariant: initial
    states map, and each action maps to a semaphore action or a stutter.
    `NoSlotIsLost` needs no such restriction on other runners: one may only *add* a holder.
    Both assume `~TaskTimeout`, since a timed out entry swallows a slot.
* **StepLoopProofs**, for every route, mode, retry limit and set of calls:
  * `TypeCorrect`, with `Placed`: wherever the loop is inside a step, there is one.
  * `CompletedStepsStay` from `NotRedone`: a step at or after the current one is completed
    only if it is in `skip_steps` (`Ahead`), and the step being executed is not completed
    (`Fresh`). The copy `skip_steps` may be stale (section 6); it errs on the side of
    skipping, which is why this holds.
  * `DoneStepsSucceeded` from `Earned`: reviews outside manual mode are those of
    review steps, and `passed` is reached with a success.
  * `TriedBeforeGivenUp` from `Counted` (a step whose retry count is positive has a
    result): assumes clients do not use retry-node, which breaks it
    (section 6).
  * `StoppedRunsStop`, an action property from typing; the same assumption.
  * `WaitingRunsWait` from `HeldByReview`: inside a step that is not under review, neither
    the status nor `_prev_status` of a paused task says `waiting_review`; at the head of
    the loop they may, when the review is about to be asked for again. It assumes
    `Mode # "manual"`: after an approved result the status stays (section 6).
  * `DecisionsAnswer` from `AnswersKept`, in every run and mode and for every call: what
    clients gave is forgotten with its review, and record, StateStore and bus hold nothing
    else unless one of `strays` put it there. The invariant speaks of the bus of a
    cancelled task apart, which may hold the approval its reject has overwritten.
  * `CompletedTasksEnded` from `Ending`: a run leaves the loop because it passed the
    last step, was stopped, or ran out of passes (`LeftFor`), and once the last step is
    recorded the run is on its way out (`AtTheEnd`), so that no resumed run finds it
    in its `skip_steps` (`Onward`). Besides the mode it assumes that clients only
    pause, resume, cancel and review, since the other calls send a task to any step
    by hand; and `OneWayOut`: only the last step's route leaves the workflow, as in
    `registry.json`.
* **TaskRunnersProofs**: `MarkIsNoLeftover` and `RunningIsAttended` together (each
  needs the other: a handler hands the task to the loop *because* of the mark);
  `OneLoopAtATime` from `Exclusive`: as long as nobody was hasty, at most one
  coroutine is pending or in the loop, and a loop is always marked.

* **TaskStoreProofs**, for any number of tasks, timers, restarts and failed saves. A
  sweep, a batch and a restart act on all tasks at once: the proofs take them as one
  outcome per task, so that everything is argued about one task's view.
  * `StoreIsSound`, `UnattendedAreKnown` from four parts. `Whole`: a record that waits
    for its time is the one in the row. `Watched` adds to `UnattendedIsKnown` the row
    behind the record, which a clean-up or a restart brings back to light. `Calm`: before
    the first failed save the record *is* the row, and the coroutine's place bounds its
    status. `Counted`: up to one failed save, a task whose row still says `scheduled` has
    been launched no more often than saves have failed, or is in
    `_scheduled_launching`, the only thing that then keeps the sweep away.
    Started-once is claimed up to one failed save: after two it is false (section 6).
  * `CancellationSticks`, an action property.
  * `StoreImplementsRegister`: the first failed save is `Register!Fail`, a restart that
    forgets records `Register!Forget`, a deletion `Register!Delete`, and every other step
    moves the answers along the register's order, or leaves them.
* **WebhooksProofs**, for any processes, events and registrations: `SubscriptionsHold`,
  `SendsOnlyWhatIsWanted`. A copy anywhere (memory, store, what a look-up has read and
  not yet used) is of some registration and has its events (`CopiesKnown`); while
  nothing was missed, copies and store are of the current one or none
  (`CurrentRecord`); a look-up has a purpose that fits its delivery (`LooksFor`); a delivery
  and its history agree at every stage (`FiresOK`).
* **ReviewChannelsProofs**, for any processes, requests and restarts, either bus:
  `ReviewIsDecidedOnce`. That only one verdict is accepted rests on everything a second
  request looks at: an accepted verdict is in the row or its request is still
  between its two writes (`VerdictSeen`), the record of the runner's process is the row
  between two requests and has the verdict during one (`InStep`), and one process alone
  has runner and requests (`OneSite`). That a runner takes nothing else rests on what may
  wake it: a verdict or a stop in its record, or a resumption (`Woken`). The properties'
  exceptions are where these stop being true.
* **SessionsProofs**, for any number of sessions, passwords and rates, any life time, any
  writes, faults and restarts. The argument about sessions is about places: a session is
  `Gone` when neither AuthManager, nor a provider, nor a store has it, and no action
  takes a session from anywhere but one of these.
  * `EndedIsEnded` from `EndedAreGone` and `OneStore` (a process that reaches Redis has
    nothing in the store of its own memory, so that deleting in Redis is enough). The
    premise `escaped` is where an end did not reach every place.
  * `LiveSessionsAreAccepted` from `LiveAreStored`: only what is in Redis outlives a
    restart, so that the places in memory are of no use to the invariant.
  * `ManagersAgree` (`SessionsInvariant`) from `ConfigInv` (a copy taken for fresh *is* the
    file, and the limiter follows) and `LocalsAreGone` (once SSO was made mandatory
    there is no local session in any place and the file still says so, whence none is made).
  * `PasswordsAreKept` from `PasswordsKept`: the file and AuthManager's copy both have the
    passwords last acknowledged, but for the `lost` ones, of which there are none unless
    the service token is in the environment. Otherwise each call of an administrator looks
    up that token in the configuration, and the look-up is what refreshes ConfigManager's
    copy before it is saved. It holds for any set of environments.
* **RequestBoundsProofs**, the modules that bound what is asked: of the service
  (RequestLimits) and of the model (StepAttempts).

  RequestLimits, for any clients, endpoints, rates, windows, idle times, rebuilds and any
  length of time:
  * `LimitsTypeCorrect`, with the bucket between nothing and its burst.
  * `WindowsCountAlways`: the windows are in order (`InOrder`: positions of their log, as
    many as admitted, all those of this limiter within the span), which alone is not
    inductive: a clean-up could drop a window that holds a recent request. `SeenLast` (a
    client was seen no earlier than its last passed request) makes it harmless within
    `ClientSpan`, the window or the idle time, whichever is shorter; beyond the idle
    time a window does forget. `RefusalsAreEarned` and `LimitsInvariantHolds` follow.
  * `ClientsWithinRate`, `EndpointsWithinLimit`: what the limiter in force let through is
    in its windows. For the limiters before it, `Replaced`: from any moment of the
    span on they let through no more than a share for each rebuild since then. It is
    about every such moment, since each rebuild turns a present share into a past one.
  * `ServiceWithinRate` from `Account`: for every moment, what was granted since plus
    what the bucket holds is no more than the burst plus what has flowed in, and a burst
    more for each rebuild. The bound alone is not inductive: it must carry the bucket's
    content. `SharesAreKept` joins the three limits.

  StepAttempts, for any node, any number of attempts, rounds, tries and tool calls. All
  of it rests on `Where`: what the place of an attempt says about its executor.
  * `AttemptsAreApart` from `WrittenHere`: as long as no straggler wrote, what the
    attempt wrote is where it should be, and the output file is untouched otherwise.
    The exception of `ChecksSeeTheAttempt` (a misnamed file beside an older one of the
    right name) comes out of this proof's last case.
  * `PassedIsEarned` from `DataSeen`: while an attempt still passes, each hard check of data
    it has behind it has seen good data, and, no straggler having written, all its checks
    saw the file that is there now. So does the value a script left, which was read
    from the file when the script ended.
  * `SpendingIsBounded` from two countings. `RequestsCounted`: an attempt has sent no more
    than the tries of the rounds *behind* it (`RoundsOver`) and those of the present one;
    the bound alone is not inductive, since it does not say in which round one is.
    `TokensCounted`: a provider has counted at least what this task spent on it
    (`OwnWithin`), and during the checks of a completion, whose statistics are taken
    before them, it lacks no more than the checks so far that ask the model
    (`ChecksCounted`). Proved with the number of model checks as a cardinality that grows
    by one, so that no induction over the list of checks is needed. The bound from above
    (`ReportsWithin`) has one provider's total times the results that report: a total
    only grows (`CountsGrow`), and a new report is no more than it.

  Proving corrected the model in several places TLC's instance did not reach: a node of
  kind `system` that has checks passes without them and leaves no result; a script whose
  check asks the model has none to ask; a value is checked as it was read when the script
  ended, which is not always what the file says later; and a soft check may look at the
  file again after a straggler wrote, so that several files may have been seen.

Assumptions on constants are the modules' ASSUMEs, evaluated in every run.

So every invariant, action property and refinement a run checks is a theorem, some under
the hypotheses named above. Only model-checked is liveness (`EveryWaiterLeaves`,
`RunEnds`, `SchedulesAreKept`, `FireSettles`, `VerdictIsTaken`, `CancelStops`,
`StepSettles`): it needs ENABLED and fairness, which the provers do not handle.

## 5. What is not modelled

* Components with status `not_modelled` in `PROJECT.json`.
* StepLoop: a step file the registry does not know or a missing node file (both
  fail the task before a step starts), the status another process may have written to
  the database, the registry changing while a task runs, the risk level (which steps
  write) edited by hand under a review.
* TaskStore: connections, SQL dialects and migrations; a read that fails (`_load_state`
  takes it for an absent task); the limits of a scan (1000 and 2000 rows). A handler's
  write and save is one step with respect to the timer's thread; a coroutine begins
  within the timer's thirty seconds; nothing is deleted between a clean-up thread's look
  and its drop; the save after a failed one succeeds; resume-from is not called on a
  scheduled task. A launch without parameters (`_mark_scheduled_failed`) does not occur,
  since every stored scheduled task has keywords.
* Webhooks: payload and signature, the lengths of the histories, deliveries made
  from a thread without a loop.
* ReviewChannels: a second resumption before the first has begun (TaskRunners has it).
* RequestLimits: the floor of the refill rate, the multiplier of endpoints, a
  per-client burst nothing reads.
* Sessions: a second process, the limit per address in `auth.py`, hashing.
* StepAttempts: streaming (no executor uses it), prompts, the wording of rules, the
  reviews of manual mode (StepLoop has them).

## 6. Behaviours worth knowing

Things the models contain because the code does, several of them at odds with what a
comment or a guide says. They are in no property, or are the exceptions of section 3.

Limiter

* The entry of a coroutine that timed out while queued swallows a slot: it is handed
  one nobody takes (`workflow_service.py` 611; 629 says
  "释放槽位，唤醒队列中最高优先级任务。").
* A lowered limit is never enforced: freed slots are granted again (1053).
* An abort flag lost with a replaced record makes a slot out of nothing, which is why
  `LimiterIsASemaphore` excludes other runners.

Loop and runners

* A resumed run skips steps a jump back has just invalidated: `skip_steps` is a copy
  (1996; 1878 says "应用路由决策，回跳时清理后续完成记录与 outputs").
* The review of a re-run is answered by the reject an earlier cancellation published
  (2566 says "清除残留的审核决策，防止 _await_human_review 误用旧决策").
* Pausing and resuming a task in review approves it (563, `roused`; 462 says
  "等待人工审核决策。"). A retry-node under a review that was just answered drops the answer,
  with the same end.
* Two calls in a row make two loops of one task (1755; 149 says "防止同一 task 并发执行多个编排协程").
* retry-node adds one to a retry count instead of resetting it, so a step whose retries
  ran out fails untried; two theorems exclude that call.
* A step that fails after the cancellation writes `failed` over `cancelled`.
* After a result is approved in manual mode the task stays `waiting_review`, so
  `WaitingMeansWaiting` is checked in supervised mode.

Reviews

* The memory bus keeps the decision of one review for the next
  (`review_event_bus.py` 89; `workflow_service.py` 2060 says
  "消费后清除，避免后续节点误用；同步落盘清掉 extra 中的决策"), and its event is never cleared. This
  is one of the `strays` of `DecisionsAnswerTheirReview`; the others are a review withdrawn with its
  decision, a client who answers a status left over, and the two above.
* A run resumed after a pause drops the verdict in the record and in the row, and finds it
  in the StateStore only. When that refused or forgot it (or, without Redis, another
  process has it) the review is asked for again (`dropped`).
* An approval at a replica that does not have the runner also schedules a resumed run
  there: two runners (`crossed`). `deploy/部署说明.md` 100 forbids several copies
  "除非配 Redis 审核总线": this is with that bus. A cancellation there is taken for a
  rejection.
* A restart between the acceptance and the wake-up leaves the task in review
  (`orphaned`).
* Publishing before the bus was made creates a memory bus for good (309); a connected
  Redis bus has no fall-back.

Store and scheduler

* After a restart nothing goes on with queued and running rows (`stranded`).
* A retry-node whose save fails on a scheduled task, and a restart, launch it twice.
  After two failed saves (a launch's and a retry-node's or a pause's) no restart is
  needed: the row says `scheduled`, the record does not, and the sweep, which scans both
  (863–905), launches the task again.
* A coroutine that begins after the deletion of its task shows the task as queued again,
  unsaved; a restart forgets it (`Register!Forget`).
* A final save that fails and the clean-up after it take the answer back to running,
  which is where TaskRegister's promise ends.
* `delete_task` deletes from a table `task_results` that no schema creates.
* retry-node leaves the end of a schedule in place.

Webhooks

* A stale copy in another replica can bring an unregistered subscription back or
  overwrite a newer one.
* `webhook.test` is not among the default events: the test call of a default
  subscription sends nothing and reports failure.
* Retries go on after unregister; deleting a task does not unregister it.

Sessions and configuration

* `BLOG_WRITER_ADMIN_PASSWORD` and `BLOG_WRITER_OPERATOR_PASSWORD` come before
  `config.json` (`auth.py` 156–174). `docker-compose.yml` 45 sets the first, and there a
  password change is acknowledged, saved, and of no effect: the next log-in is checked
  against the environment's.
* With `BLOG_WRITER_API_TOKEN` set (`docker-compose.yml` 46), saving a setting through the
  administration calls writes a stale copy and loses a password change (`lost`).
* AuthManager's copy, up to a second old, overwrites a configuration update made just
  before.
* With Redis down at start the process uses its memory, though `auth.py` 195
  speaks of failing closed. Deletions the store refuses bring a session back (`escaped`).
* An SSO log-out leaves the other provider's copy; one while SSO is off leaves the
  stored session. Enabling SSO by editing the file does not revoke local sessions.

Limits

* Every configuration change gives all clients fresh windows and a full bucket, so that
  each lets everyone have as much again: `SharesKept` says that it is no more than that.
* `rate_limit_per_minute` is applied per configured window, however long. A window
  longer than the ten idle minutes is dropped while it counts: a client is then held to
  its rate within ten minutes, not within its window (`ClientSpan`).

Step attempts

* A tool's thread, a script's process or that of a check (`base_executor.py` 341 waits 30
  seconds and does not end it) that outlived its timeout writes beside the next
  attempt, or the next check (`late`). A script that leaves no output file is given the one from before.
* An older file of the right name shadows a newer one under the wrong name.
* A node without script or prompt passes unchecked.
* The limit on tool calls is per executor, and refused calls do not count.
* `token_usage` is a running total of a provider all tasks share, and the budget sums
  these totals (2703–2710 says "不能求和"): a provider's total is in the sum once for each
  attempt that reported, other tasks' tokens included, so that a budget ends tasks too early.
* Never reported, and so not seen by any budget: what a completion's checks ask the model,
  and what failed attempts spent on a provider that was replaced meanwhile.
  `SpendingIsCounted` states both bounds with these exceptions.

## 7. Plan

Done: SlotSemaphore, TaskSlots and their refinement; StepLoop; TaskRunners;
TaskRegister, TaskStore and their refinement; ReviewChannels; Webhooks; RequestLimits;
Sessions; StepAttempts; the theorems of section 4.

The proofs are complete up to liveness. Left, most important first:

1. The hypotheses that exclude more than need be: `WaitingRunsWait` and
   `CompletedTasksEnded` for manual mode, which takes a weaker property (section 6).
2. A second process in Sessions, whose copies of the configuration are stale in their own
   way.
3. The hazard without a property: lowering the limit while slots are taken. And what the
   end of "Exceptions the properties name" lists.
4. Node administration, whose registry edits reach a running StepLoop.
