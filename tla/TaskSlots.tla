----------------------------- MODULE TaskSlots -----------------------------
(***************************************************************************)
(* The concurrency limiter of WorkflowService: the execution slots, the    *)
(* priority queue of start_workflow coroutines that wait for one, and the  *)
(* control calls that reach into the queue (cancel-queue, set priority,    *)
(* scheduled end, resize).                                                 *)
(*                                                                         *)
(* Every function of the limiter runs on the event loop, so it is atomic   *)
(* between two awaits; the one await that matters is event.wait() in       *)
(* _acquire_slot.  pc tells where the start_workflow coroutine of a task   *)
(* stands with respect to it:                                              *)
(*                                                                         *)
(*   idle       no coroutine yet                                           *)
(*   created    create_task was called, the coroutine has not run          *)
(*   waiting    suspended in event.wait(), its entry is in the queue       *)
(*   woken      its event is set, the loop has not resumed it yet          *)
(*   executing  past the wait, inside _execute_steps                       *)
(*   exited     returned                                                   *)
(*                                                                         *)
(* A task has one start_workflow coroutine: pre_register_task refuses an   *)
(* id that exists.  The runners that resume, retry and re-run create never *)
(* ask for a slot; here they appear only through what they write into the  *)
(* task record (TaskRunners models them).  waiting_review is part of       *)
(* "running", and "ended" stands for completed, completed_partial, failed  *)
(* and rejected: the limiter tells none of them apart.                     *)
(*                                                                         *)
(* The operators named Faulty... are slips one could make in the operator  *)
(* that follows them; the properties are tested against them.              *)
(***************************************************************************)
EXTENDS Integers, Sequences, FiniteSets

CONSTANTS Task,          \* task ids
          Priority,      \* the priorities a caller may give: 1 (low) .. 3 (high)
          InitialLimit,  \* MAX_CONCURRENT_TASKS
          LimitCeiling,  \* set_max_concurrent clamps to 1..LimitCeiling (20)
          TaskTimeout,   \* whether BLOG_WRITER_TASK_TIMEOUT_SECONDS is set
          OtherRunners   \* whether clients resume, retry or re-run a task while
                         \* its start_workflow coroutine is still there

ASSUME SlotsAssumption ==
  /\ IsFiniteSet(Task)
  /\ Priority \subseteq Nat
  /\ LimitCeiling \in Nat \ {0}
  /\ InitialLimit \in 1..LimitCeiling
  /\ TaskTimeout \in BOOLEAN
  /\ OtherRunners \in BOOLEAN

VARIABLES maxConcurrent,   \* self.max_concurrent_tasks
          availableSlots,  \* self._available_slots
          priorityQueue,   \* self._priority_queue, sorted
          queueCounter,    \* self._queue_counter
          status,          \* task["status"]
          queueAborted,    \* task["_queue_aborted"]
          priority,        \* extra["priority"], read when the task asks for a slot
          pc,              \* where the start_workflow coroutine stands
          slotHeld,        \* its local held_slot
          timed            \* whether it runs under the whole-task timeout

queueVars == <<priorityQueue, queueCounter>>
vars == <<maxConcurrent, availableSlots, priorityQueue, queueCounter,
          status, queueAborted, priority, pc, slotHeld, timed>>

Status == {"absent", "queued", "running", "paused", "cancelled", "ended"}
Place == {"idle", "created", "waiting", "woken", "executing", "exited"}
Entry == [task : Task, prio : Priority, seq : Nat]

\* The statuses on which start_workflow gives up after the wait.
Stopped == {"cancelled", "paused"}

----------------------------------------------------------------------------
(* The queue: a list of (-priority, counter, task_id, event), which every  *)
(* change leaves sorted.                                                   *)

Precedes(a, b) == a.prio > b.prio \/ (a.prio = b.prio /\ a.seq < b.seq)

Sorted(q) == \A i, j \in DOMAIN q : i < j => Precedes(q[i], q[j])

InsertAt(q, k, e) ==
  [i \in 1..(Len(q) + 1) |->
     IF i <= k THEN q[i] ELSE IF i = k + 1 THEN e ELSE q[i - 1]]

DeleteAt(q, k) == [i \in 1..(Len(q) - 1) |-> IF i < k THEN q[i] ELSE q[i + 1]]

\* Appended, and the sort forgotten.
FaultySortedInserts(q, e) == {Append(q, e)}

\* append(e); sort(): the places e may take in the sorted list.
SortedInserts(q, e) ==
  {r \in {InsertAt(q, k, e) : k \in 0..Len(q)} : Sorted(r)}

\* The places of t's entry.
EntriesOf(t) == {i \in DOMAIN priorityQueue : priorityQueue[i].task = t}

\* event.set(): it reaches the coroutines that wait, and nobody if they are gone.
SetEvents(places, tasks) ==
  [t \in Task |->
     IF t \in tasks /\ places[t] = "waiting" THEN "woken" ELSE places[t]]

----------------------------------------------------------------------------
Init ==
  /\ maxConcurrent = InitialLimit
  /\ availableSlots = InitialLimit
  /\ priorityQueue = <<>>
  /\ queueCounter = 0
  /\ status = [t \in Task |-> "absent"]
  /\ queueAborted = [t \in Task |-> FALSE]
  /\ priority \in [Task -> Priority]
  /\ pc = [t \in Task |-> "idle"]
  /\ slotHeld = [t \in Task |-> FALSE]
  /\ timed = [t \in Task |-> FALSE]

\* The slot is made free, whoever waits.
FaultyReleaseSlot(places, avail) ==
  /\ pc' = places
  /\ availableSlots' = avail + 1
  /\ UNCHANGED priorityQueue

(* _release_slot, called with `avail' free slots by a handler that leaves  *)
(* the coroutines at `places': the first waiter gets the slot, or it is    *)
(* free.                                                                   *)
ReleaseSlot(places, avail) ==
  \/ /\ priorityQueue # <<>>
     /\ pc' = SetEvents(places, {Head(priorityQueue).task})
     /\ priorityQueue' = Tail(priorityQueue)
     /\ availableSlots' = avail
  \/ /\ priorityQueue = <<>>
     /\ pc' = places
     /\ availableSlots' = avail + 1
     /\ UNCHANGED priorityQueue

\* A task stopped while it waited forgets the slot it was given.
FaultyAfterAcquire(t, held, avail) ==
  /\ pc' = [pc EXCEPT ![t] = IF status[t] \in Stopped THEN "exited" ELSE "executing"]
  /\ slotHeld' = [slotHeld EXCEPT ![t] = held /\ status[t] \notin Stopped]
  /\ availableSlots' = avail
  /\ UNCHANGED <<status, priorityQueue>>

(* start_workflow after _acquire_slot returned `held': give up if the task *)
(* was cancelled or paused meanwhile (releasing a slot it really holds),   *)
(* else run.  `avail' is the number of free slots at that point.           *)
AfterAcquire(t, held, avail) ==
  \/ /\ status[t] \in Stopped
     /\ IF held
        THEN ReleaseSlot([pc EXCEPT ![t] = "exited"], avail)
        ELSE /\ pc' = [pc EXCEPT ![t] = "exited"]
             /\ availableSlots' = avail
             /\ UNCHANGED priorityQueue
     /\ UNCHANGED <<status, slotHeld>>
  \/ /\ status[t] \notin Stopped
     /\ status' = [status EXCEPT ![t] = IF @ = "queued" THEN "running" ELSE @]
     /\ pc' = [pc EXCEPT ![t] = "executing"]
     /\ slotHeld' = [slotHeld EXCEPT ![t] = held]
     /\ availableSlots' = avail
     /\ UNCHANGED priorityQueue

----------------------------------------------------------------------------
(* Tasks appear: POST /tasks/start registers a task as "running" and       *)
(* creates its coroutine, under the whole-task timeout if there is one;    *)
(* the scheduler launches a scheduled task as "queued", without a timeout. *)
Launch(t, s, deadline) ==
  /\ pc[t] = "idle"
  /\ pc' = [pc EXCEPT ![t] = "created"]
  /\ status' = [status EXCEPT ![t] = s]
  /\ timed' = [timed EXCEPT ![t] = deadline]
  /\ UNCHANGED <<maxConcurrent, availableSlots, queueVars, queueAborted,
                 priority, slotHeld>>

StartTask(t) == Launch(t, "running", TaskTimeout)
LaunchScheduledTask(t) == Launch(t, "queued", FALSE)

\* _acquire_slot up to its await, and what follows when there is none.
AcquireSlot(t) ==
  /\ pc[t] = "created"
  /\ \/ /\ availableSlots > 0
        /\ AfterAcquire(t, TRUE, availableSlots - 1)
        /\ UNCHANGED queueCounter
     \/ /\ availableSlots <= 0
        /\ queueCounter' = queueCounter + 1
        /\ priorityQueue' \in SortedInserts(priorityQueue,
             [task |-> t, prio |-> priority[t], seq |-> queueCounter + 1])
        /\ pc' = [pc EXCEPT ![t] = "waiting"]
        /\ UNCHANGED <<availableSlots, status, slotHeld>>
  /\ UNCHANGED <<maxConcurrent, queueAborted, priority, timed>>

\* _acquire_slot from its await on: pop the abort flag, then go on.
Wake(t) ==
  /\ pc[t] = "woken"
  /\ queueAborted' = [queueAborted EXCEPT ![t] = FALSE]
  /\ AfterAcquire(t, ~queueAborted[t], availableSlots)
  /\ UNCHANGED <<maxConcurrent, queueCounter, priority, timed>>

(* The run ends, normally or with an exception, and the finally clause     *)
(* gives the slot back.  _finalize_task keeps a paused or cancelled        *)
(* status, unless a failing step has written "failed" over it.             *)
Finish(t) ==
  /\ pc[t] = "executing"
  /\ \E s \in {"ended"} \cup ({status[t]} \cap Stopped) :
       status' = [status EXCEPT ![t] = s]
  /\ slotHeld' = [slotHeld EXCEPT ![t] = FALSE]
  /\ IF slotHeld[t]
     THEN ReleaseSlot([pc EXCEPT ![t] = "exited"], availableSlots)
     ELSE /\ pc' = [pc EXCEPT ![t] = "exited"]
          /\ UNCHANGED <<availableSlots, priorityQueue>>
  /\ UNCHANGED <<maxConcurrent, queueCounter, queueAborted, priority,
                 timed>>

(* The whole-task timeout: _safe_start_task cancels the coroutine and      *)
(* marks the task failed unless it has ended.  A coroutine past the wait   *)
(* unwinds through its finally clause; one that is cancelled in            *)
(* event.wait() leaves its entry in the queue, and takes a slot that was   *)
(* just handed to it along.                                                *)
TimeOut(t) ==
  /\ timed[t]
  /\ pc[t] \in {"waiting", "woken", "executing"}
  /\ status' = [status EXCEPT ![t] = IF @ = "cancelled" THEN @ ELSE "ended"]
  /\ slotHeld' = [slotHeld EXCEPT ![t] = FALSE]
  /\ IF slotHeld[t]
     THEN ReleaseSlot([pc EXCEPT ![t] = "exited"], availableSlots)
     ELSE /\ pc' = [pc EXCEPT ![t] = "exited"]
          /\ UNCHANGED <<availableSlots, priorityQueue>>
  /\ UNCHANGED <<maxConcurrent, queueCounter, queueAborted, priority, timed>>

----------------------------------------------------------------------------
\* The abort that says nothing: the waiter takes it for a hand-over.
FaultyAbortQueuedWaiter(t, i) ==
  /\ priorityQueue' = DeleteAt(priorityQueue, i)
  /\ pc' = SetEvents(pc, {t})
  /\ UNCHANGED queueAborted

\* The abort that drops the entry and sets no event.
SilentAbortQueuedWaiter(t, i) ==
  /\ priorityQueue' = DeleteAt(priorityQueue, i)
  /\ UNCHANGED <<queueAborted, pc>>

(* _abort_queued_waiter for the entry at place i: drop the entry, leave    *)
(* word that no slot came with the event, set the event.                   *)
AbortQueuedWaiter(t, i) ==
  /\ priorityQueue' = DeleteAt(priorityQueue, i)
  /\ queueAborted' = [queueAborted EXCEPT ![t] = TRUE]
  /\ pc' = SetEvents(pc, {t})

\* POST /tasks/{id}/cancel-queue
CancelQueuedTask(t) ==
  /\ \E i \in EntriesOf(t) : AbortQueuedWaiter(t, i)
  /\ status' = [status EXCEPT ![t] = "cancelled"]
  /\ UNCHANGED <<maxConcurrent, availableSlots, queueCounter, priority,
                 slotHeld, timed>>

(* _pause_for_schedule_end of a task whose status is "queued": abort the   *)
(* waiter if there is one, and pause in any case.                          *)
EndScheduleOfQueued(t) ==
  /\ status[t] = "queued"
  /\ status' = [status EXCEPT ![t] = "paused"]
  /\ \/ \E i \in EntriesOf(t) : AbortQueuedWaiter(t, i)
     \/ /\ EntriesOf(t) = {}
        /\ UNCHANGED <<priorityQueue, queueAborted, pc>>
  /\ UNCHANGED <<maxConcurrent, availableSlots, queueCounter, priority,
                 slotHeld, timed>>

\* The control calls that touch nothing but the status.
SetStatus(t, s) ==
  /\ status' = [status EXCEPT ![t] = s]
  /\ UNCHANGED <<maxConcurrent, availableSlots, queueVars, queueAborted,
                 priority, pc, slotHeld, timed>>

\* A queued task cancelled or paused this way keeps its place in the queue.
CancelTask(t) == status[t] # "absent" /\ SetStatus(t, "cancelled")
PauseTask(t) == status[t] = "running" /\ SetStatus(t, "paused")
ResumeTask(t) == status[t] = "paused" /\ SetStatus(t, "running")

(* Another runner of the task, outside the limiter: _resume_workflow and   *)
(* rerun_from_node put a record loaded from the database, which has no     *)
(* abort flag, in the place of the one in memory, and set it running; when *)
(* their loop is over, so is the task.                                     *)
OtherRunnerStarts(t) ==
  /\ OtherRunners
  /\ status[t] # "absent"
  /\ status' = [status EXCEPT ![t] = "running"]
  /\ queueAborted' = [queueAborted EXCEPT ![t] = FALSE]
  /\ UNCHANGED <<maxConcurrent, availableSlots, queueVars, priority, pc,
                 slotHeld, timed>>

OtherRunnerEnds(t) ==
  /\ OtherRunners
  /\ status[t] = "running"
  /\ SetStatus(t, "ended")

\* PUT /tasks/{id}/priority: replace the entry and sort.
SetTaskPriority(t, p) ==
  /\ \E i \in EntriesOf(t) :
       priorityQueue' \in SortedInserts(DeleteAt(priorityQueue, i),
                                        [priorityQueue[i] EXCEPT !.prio = p])
  /\ UNCHANGED <<maxConcurrent, availableSlots, queueCounter, status,
                 queueAborted, priority, pc, slotHeld, timed>>

Clamp(n) == IF n < 1 THEN 1 ELSE IF n > LimitCeiling THEN LimitCeiling ELSE n
Least(a, b) == IF a <= b THEN a ELSE b

(* PUT /tasks/concurrency: a raise releases one slot per unit, which wakes *)
(* the first waiters; a lower limit leaves the slots as they are.          *)
SetMaxConcurrent(n) ==
  /\ maxConcurrent' = Clamp(n)
  /\ LET raise == IF Clamp(n) > maxConcurrent THEN Clamp(n) - maxConcurrent ELSE 0
         wakes == Least(raise, Len(priorityQueue))
         woken == {priorityQueue[i].task : i \in 1..wakes}
     IN /\ priorityQueue' = SubSeq(priorityQueue, wakes + 1, Len(priorityQueue))
        /\ pc' = SetEvents(pc, woken)
        /\ availableSlots' = availableSlots + (raise - wakes)
  /\ UNCHANGED <<queueCounter, status, queueAborted, priority, slotHeld, timed>>

----------------------------------------------------------------------------
\* What the event loop runs on its own, and what clients ask for.
Runner(t) == AcquireSlot(t) \/ Wake(t) \/ Finish(t)

Control(t) ==
  \/ StartTask(t) \/ LaunchScheduledTask(t)
  \/ CancelQueuedTask(t) \/ EndScheduleOfQueued(t)
  \/ CancelTask(t) \/ PauseTask(t) \/ ResumeTask(t)
  \/ OtherRunnerStarts(t) \/ OtherRunnerEnds(t)
  \/ \E p \in Priority : SetTaskPriority(t, p)

Next ==
  \/ \E t \in Task : Runner(t) \/ TimeOut(t) \/ Control(t)
  \/ \E n \in 0..(LimitCeiling + 1) : SetMaxConcurrent(n)

Spec == Init /\ [][Next]_vars

(* The event loop runs every ready coroutine.  That a run ends is an       *)
(* assumption on its steps, which have timeouts, and on reviewers: a run   *)
(* that waits for a decision nobody takes keeps its slot.                  *)
FairSpec == Spec /\ \A t \in Task : WF_vars(Runner(t))

----------------------------------------------------------------------------
\* The tasks a slot belongs to: those that run with one and those whose
\* event was set by a hand-over and not by an abort.
Holders ==
  {t \in Task : \/ pc[t] = "executing" /\ slotHeld[t]
                \/ pc[t] = "woken" /\ ~queueAborted[t]}

SlotsInExistence == availableSlots + Cardinality(Holders)

\* The types of the limiter and of the records it reads.
TypeOK ==
  /\ maxConcurrent \in 1..LimitCeiling
  /\ availableSlots \in Nat
  /\ priorityQueue \in Seq(Entry)
  /\ queueCounter \in Nat
  /\ status \in [Task -> Status]
  /\ queueAborted \in [Task -> BOOLEAN]
  /\ priority \in [Task -> Priority]
  /\ pc \in [Task -> Place]
  /\ slotHeld \in [Task -> BOOLEAN]
  /\ timed \in [Task -> BOOLEAN]

----------------------------------------------------------------------------
(* A suspended coroutine has exactly one entry in the queue: without one   *)
(* it would sleep for ever, with two it would be handed two slots.         *)
EveryWaiterQueued ==
  \A t \in Task : pc[t] = "waiting" =>
    \E i \in EntriesOf(t) : \A j \in EntriesOf(t) : j = i

(* Exactly the suspended coroutines have an entry in the queue, each one   *)
(* entry, and an abort flag lives only until the waiter it is meant for    *)
(* reads it.  An entry without a waiter would swallow a slot, a flag left  *)
(* behind would make the next grant look like an abort.                    *)
WaitersAreQueued ==
  /\ \A t \in Task : pc[t] = "waiting" <=> EntriesOf(t) # {}
  /\ \A i, j \in DOMAIN priorityQueue :
       priorityQueue[i].task = priorityQueue[j].task => i = j
  /\ \A t \in Task : queueAborted[t] => pc[t] = "woken"

(* A slot is never free while a coroutine waits for one, whatever mix of   *)
(* releases, aborts and resizes led here.                                  *)
NoIdleSlot == availableSlots > 0 => priorityQueue = <<>>

(* No slot is lost: free and held slots together are never fewer than the  *)
(* configured limit, so an aborted, cancelled or paused waiter takes no    *)
(* slot with it.                                                           *)
NoSlotLost == SlotsInExistence >= maxConcurrent

(* The inductive invariant behind the theorems of TaskSlotsProofs: the      *)
(* parts above, a sorted queue, and no slot recorded as held by a run      *)
(* that is not executing.                                                  *)
SlotsInvariant ==
  /\ TypeOK
  /\ WaitersAreQueued
  /\ NoIdleSlot
  /\ Sorted(priorityQueue)
  /\ \A t \in Task : slotHeld[t] => pc[t] = "executing"

(* A hand-over goes to the waiter with the highest priority, the one that  *)
(* asked first among equals, also after priorities were changed.           *)
HandOverInOrder ==
  [][\A i, j \in DOMAIN priorityQueue :
       LET served == priorityQueue[i].task
           passed == priorityQueue[j].task
       IN (/\ pc'[served] = "woken" /\ ~queueAborted'[served]
           /\ pc'[passed] = "waiting")
          => Precedes(priorityQueue[i], priorityQueue[j])]_vars

(* The limiter is a semaphore: every step grants, returns, hands over or   *)
(* creates slots the way SlotSemaphore says, or does not concern it.  In   *)
(* particular no sequence of aborts and late wake-ups inflates the number  *)
(* of slots, which the comment in start_workflow (release only a slot      *)
(* really held) is about.                                                  *)
Semaphore == INSTANCE SlotSemaphore
               WITH limit <- maxConcurrent,
                    capacity <- SlotsInExistence,
                    holders <- Holders

ImplementsSemaphore == Semaphore!Spec

(* A coroutine that waits for a slot does not wait for ever.               *)
EveryWaiterLeaves == \A t \in Task : pc[t] = "waiting" ~> pc[t] # "waiting"
============================================================================
