------------------------------ MODULE TaskStore ------------------------------
(***************************************************************************)
(* Where a task is kept, and what becomes of it: the record in memory      *)
(* (`_tasks`), the row in the database (db.py), the minimal cache, the     *)
(* coroutine that carries the task on, the timer thread that drops ended   *)
(* tasks from memory, the scheduler's sweep, deletion, failing saves and   *)
(* restarts of the process.                                                *)
(*                                                                         *)
(* A record is reduced to its status and its plan: `timed` says that it    *)
(* has a scheduled_at, `ends` that its scheduled_end_at is still there.    *)
(* waiting_review counts as running; failed stands for rejected and        *)
(* completed_partial, too: here they differ in nothing.                    *)
(***************************************************************************)
EXTENDS Naturals, FiniteSets

CONSTANTS
  Tasks,
  MaxRestarts,   \* bound on the restarts of the process
  MaxFaults,     \* bound on the saves and deletions that fail
  CleanerThread  \* TRUE: the clean-up timer is a thread, it checks and drops in two steps

ASSUME StoreAssumption ==
  /\ IsFiniteSet(Tasks)
  /\ MaxRestarts \in Nat
  /\ MaxFaults \in Nat
  /\ CleanerThread \in BOOLEAN

VARIABLES
  mem,        \* WorkflowService._tasks
  row,        \* the table tasks
  cache,      \* WorkflowService._task_cache
  coro,       \* where the coroutine of the task stands
  launching,  \* WorkflowService._scheduled_launching
  timers,     \* clean-up timers that run
  dropping,   \* the status a clean-up thread has read and not acted upon yet
  clock,      \* before scheduled_at, within the window, after scheduled_end_at
  launches,   \* history: start coroutines made since the task was registered
  stranded,   \* history: tasks a restart, a refusal or a failed save left behind
  restarts, faults

vars == <<mem, row, cache, coro, launching, timers, dropping, clock,
          launches, stranded, restarts, faults>>

Ended == {"completed", "failed", "cancelled"}
Active == {"scheduled", "queued", "running"}
Status == {"absent", "paused"} \cup Ended \cup Active

Record == [status : Status, timed : BOOLEAN, ends : BOOLEAN]

NoTask == [status |-> "absent", timed |-> FALSE, ends |-> FALSE]

\* not begun: "starting", "resuming" and "rerunning" (three kinds of
\* coroutines), "waiting": for a slot, "looping": marked as executing
Coroutine == {"none", "starting", "waiting", "resuming", "rerunning", "looping"}

NotBegun == {"starting", "resuming", "rerunning"}

Exists(r) == r # NoTask

\* The record r with another status.
InStatus(r, s) == [r EXCEPT !.status = s]

\* get_task_status, _ensure_task_loaded: memory first, then the row
Ensure(t) == IF Exists(mem[t]) THEN mem[t] ELSE row[t]

\* what a client is told; the cache answers for a task found nowhere else
Visible(t) == IF Exists(Ensure(t)) THEN Ensure(t).status
              ELSE IF cache[t] # "absent" THEN cache[t]
              ELSE "absent"

FaultyRegistered(timed) ==
  [status |-> "running", timed |-> timed, ends |-> timed]

Registered(timed) ==
  [status |-> IF timed THEN "scheduled" ELSE "running", timed |-> timed, ends |-> timed]

Init ==
  /\ mem = [t \in Tasks |-> NoTask]
  /\ row = [t \in Tasks |-> NoTask]
  /\ cache = [t \in Tasks |-> "absent"]
  /\ coro = [t \in Tasks |-> "none"]
  /\ launching = {}
  /\ timers = [t \in Tasks |-> 0]
  /\ dropping = [t \in Tasks |-> "absent"]
  /\ clock = [t \in Tasks |-> "before"]
  /\ launches = [t \in Tasks |-> 0]
  /\ stranded = {}
  /\ restarts = 0
  /\ faults = 0

-----------------------------------------------------------------------------
(* Saving.  A save that fails raises: the record in memory has changed, the *)
(* row has not, and the rest of the handler is not executed.               *)

Save(t, r) ==
  /\ mem' = [mem EXCEPT ![t] = r]
  /\ row' = [row EXCEPT ![t] = r]
  /\ UNCHANGED faults

SaveFails(t, r) ==
  /\ faults < MaxFaults
  /\ faults' = faults + 1
  /\ mem' = [mem EXCEPT ![t] = r]
  /\ UNCHANGED row

\* _schedule_task_memory_cleanup; two timers of one task are enough to meet
ArmTimer(t) == timers' = [timers EXCEPT ![t] = IF @ < 2 THEN @ + 1 ELSE @]

\* _mark_task_failed and the handler of _safe_resume_workflow
Failed(r) == IF r.status \in Ended THEN r ELSE InStatus(r, "failed")

-----------------------------------------------------------------------------
(* Starting                                                                *)

FaultyMayRegister(t) == ~Exists(mem[t])

\* pre_register_task refuses an id in memory or in the database; a repeated
\* idempotency key is answered with the task that exists.
MayRegister(t) == ~Exists(mem[t]) /\ ~Exists(row[t])

\* Bound OneRunner: one coroutine of a task at a time (TaskRunners has more).
Unused(t) == MayRegister(t) /\ coro[t] = "none"

StartTask(t, timed) ==
  /\ Unused(t)
  /\ Save(t, Registered(timed))
  /\ IF timed
     THEN UNCHANGED <<coro, launches>>
     ELSE /\ coro' = [coro EXCEPT ![t] = "starting"]
          /\ launches' = [launches EXCEPT ![t] = @ + 1]
  /\ stranded' = stranded \ {t}
  /\ UNCHANGED <<cache, launching, timers, dropping, clock, restarts>>

\* The task is registered, then the callback URL is refused: 400, and no
\* coroutine is made.
StartWithRefusedCallback(t, timed) ==
  /\ Unused(t)
  /\ Save(t, Registered(timed))
  /\ stranded' = IF timed THEN stranded ELSE stranded \cup {t}
  /\ UNCHANGED <<cache, coro, launching, timers, dropping, clock, launches, restarts>>

\* The save of the new record fails: 500, and the record stays in memory.
StartUnsaved(t, timed) ==
  /\ Unused(t)
  /\ SaveFails(t, Registered(timed))
  /\ stranded' = stranded \cup {t}
  /\ UNCHANGED <<cache, coro, launching, timers, dropping, clock, launches, restarts>>

\* batch_start_tasks stops at its first bad item: the items before it run.
BatchStart(started) ==
  /\ \A t \in started : Unused(t)
  /\ mem' = [t \in Tasks |-> IF t \in started THEN Registered(FALSE) ELSE mem[t]]
  /\ row' = [t \in Tasks |-> IF t \in started THEN Registered(FALSE) ELSE row[t]]
  /\ coro' = [t \in Tasks |-> IF t \in started THEN "starting" ELSE coro[t]]
  /\ launches' = [t \in Tasks |-> launches[t] + IF t \in started THEN 1 ELSE 0]
  /\ stranded' = stranded \ started
  /\ UNCHANGED <<cache, launching, timers, dropping, clock, restarts, faults>>

-----------------------------------------------------------------------------
(* The coroutines                                                          *)

\* start_workflow up to its wait for a slot.  A task deleted meanwhile is
\* not in `_tasks`: it gets a new record.
Unregistered == InStatus(NoTask, "queued")

StartBegins(t) ==
  /\ coro[t] = "starting"
  /\ coro' = [coro EXCEPT ![t] = "waiting"]
  /\ mem' = [mem EXCEPT ![t] =
       IF Exists(@) THEN @ ELSE Unregistered]
  /\ UNCHANGED <<row, cache, launching, timers, dropping, clock, launches,
                 stranded, restarts, faults>>

\* The end of a coroutine that raised.  A start made by the API and every
\* resumed run mark the task as failed; the scheduler only writes a log.
\* (Bound: the save after a failed save succeeds.)
RaiseFrom(t, r) ==
  LET marked == t \notin launching /\ Exists(r)
      final  == IF marked THEN Failed(r) ELSE r
  IN /\ coro' = [coro EXCEPT ![t] = "none"]
     /\ launching' = launching \ {t}
     /\ mem' = [mem EXCEPT ![t] = final]
     /\ IF marked /\ final # r
        THEN row' = [row EXCEPT ![t] = final] /\ UNCHANGED stranded
        ELSE UNCHANGED row /\ stranded' = stranded \cup {t}

\* A coroutine that waits is given a slot, or woken because its task was
\* cancelled or paused in the queue.
SlotGranted(t) ==
  /\ coro[t] = "waiting"
  /\ \/ /\ mem[t].status \in {"cancelled", "paused"}
        /\ coro' = [coro EXCEPT ![t] = "none"]
        /\ launching' = launching \ {t}
        /\ UNCHANGED <<mem, row, faults>>
     \/ /\ mem[t].status = "queued"
        /\ coro' = [coro EXCEPT ![t] = "looping"]
        /\ Save(t, InStatus(mem[t], "running"))
        /\ UNCHANGED launching
     \/ /\ mem[t].status \notin {"cancelled", "paused", "queued", "absent"}
        /\ coro' = [coro EXCEPT ![t] = "looping"]
        /\ UNCHANGED <<mem, row, launching, faults>>
  /\ UNCHANGED <<cache, timers, dropping, clock, launches, stranded, restarts>>

\* ... the record is gone (deleted, or dropped by the timer), or cannot be
\* saved: the coroutine raises.
SlotGrantedInVain(t) ==
  /\ coro[t] = "waiting"
  /\ \/ /\ mem[t] = NoTask
        /\ RaiseFrom(t, IF t \in launching THEN NoTask ELSE row[t])
        /\ UNCHANGED faults
     \/ /\ mem[t].status = "queued"
        /\ faults < MaxFaults
        /\ faults' = faults + 1
        /\ RaiseFrom(t, InStatus(mem[t], "running"))
  /\ UNCHANGED <<cache, timers, dropping, clock, launches, restarts>>

\* _resume_workflow and rerun_from_node replace the record by the row.
ResumedRecord(t) == InStatus(row[t], "running")

MayResume(t) == Exists(row[t]) /\ (coro[t] = "resuming" => row[t].status # "completed")

ResumeBegins(t) ==
  /\ coro[t] \in {"resuming", "rerunning"}
  /\ MayResume(t)
  /\ Save(t, ResumedRecord(t))
  /\ coro' = [coro EXCEPT ![t] = "looping"]
  /\ UNCHANGED <<cache, launching, timers, dropping, clock, launches, stranded, restarts>>

ResumeFails(t) ==
  /\ coro[t] \in {"resuming", "rerunning"}
  /\ \/ ~MayResume(t) /\ RaiseFrom(t, Ensure(t)) /\ UNCHANGED faults
     \/ /\ MayResume(t)
        /\ faults < MaxFaults
        /\ faults' = faults + 1
        /\ RaiseFrom(t, ResumedRecord(t))
  /\ UNCHANGED <<cache, timers, dropping, clock, launches, restarts>>

\* The loop is over: _finalize_task keeps a status that stopped it.
FaultyFinalStatus(t) == {"completed", "failed"}

FinalStatus(t) ==
  IF mem[t].status \in {"paused", "cancelled", "failed"}
  THEN {mem[t].status} ELSE {"completed", "failed"}

LoopEnds(t) ==
  /\ coro[t] = "looping"
  /\ Exists(mem[t])
  /\ \E s \in FinalStatus(t) :
       /\ Save(t, InStatus(mem[t], s))
       /\ IF s \in Ended THEN ArmTimer(t) ELSE UNCHANGED timers
  /\ coro' = [coro EXCEPT ![t] = "none"]
  /\ launching' = launching \ {t}
  /\ UNCHANGED <<cache, dropping, clock, launches, stranded, restarts>>

\* The record is gone, or its last save fails.
LoopRaises(t) ==
  /\ coro[t] = "looping"
  /\ \/ /\ mem[t] = NoTask
        /\ RaiseFrom(t, IF t \in launching THEN NoTask ELSE row[t])
        /\ UNCHANGED faults
     \/ /\ Exists(mem[t])
        /\ faults < MaxFaults
        /\ faults' = faults + 1
        /\ \E s \in FinalStatus(t) : RaiseFrom(t, InStatus(mem[t], s))
  /\ UNCHANGED <<cache, timers, dropping, clock, launches, restarts>>

-----------------------------------------------------------------------------
(* Control calls.  Each loads the task first; a call that has nothing to    *)
(* do only loads it (QueryTask).                                           *)

QueryTask(t) ==
  /\ ~Exists(mem[t])
  /\ Exists(row[t])
  /\ mem' = [mem EXCEPT ![t] = row[t]]
  /\ cache' = [cache EXCEPT ![t] = "absent"]
  /\ UNCHANGED <<row, coro, launching, timers, dropping, clock, launches,
                 stranded, restarts, faults>>

\* Whatever the call writes, a failing save is a 500 with the record changed.
CallFails(t, r) ==
  /\ SaveFails(t, r)
  /\ stranded' = stranded \cup {t}
  /\ UNCHANGED <<cache, coro, launching, timers, dropping, clock, launches, restarts>>

Cancelled(t) == InStatus(Ensure(t), "cancelled")

CancelTask(t) ==
  /\ Exists(Ensure(t))
  /\ \/ /\ Save(t, Cancelled(t))
        /\ ArmTimer(t)
        /\ UNCHANGED <<cache, coro, launching, dropping, clock, launches,
                       stranded, restarts>>
     \/ CallFails(t, Cancelled(t))

\* cancel_queued_task arms no timer; the coroutine is woken by the abort.
CancelQueuedTask(t) ==
  /\ coro[t] = "waiting"
  /\ Exists(mem[t])
  /\ \/ /\ Save(t, Cancelled(t))
        /\ UNCHANGED <<cache, coro, launching, timers, dropping, clock, launches,
                       stranded, restarts>>
     \/ CallFails(t, Cancelled(t))

PauseTask(t) ==
  /\ Ensure(t).status = "running"
  /\ LET r == InStatus(Ensure(t), "paused")
     IN \/ /\ Save(t, r)
           /\ UNCHANGED <<cache, coro, launching, timers, dropping, clock, launches,
                          stranded, restarts>>
        \/ CallFails(t, r)

\* resume_task removes the end of the schedule, so that the next sweep does
\* not pause the task again.
ResumedByHand(t) == [InStatus(Ensure(t), "running") EXCEPT !.ends = FALSE]

ResumeTask(t) ==
  /\ Ensure(t).status = "paused"
  /\ coro[t] \in {"none", "looping"}
  /\ \/ /\ Save(t, ResumedByHand(t))
        /\ coro' = [coro EXCEPT ![t] = IF @ = "none" THEN "resuming" ELSE @]
        /\ stranded' = stranded \ {t}
        /\ UNCHANGED <<cache, launching, timers, dropping, clock, launches, restarts>>
     \/ CallFails(t, ResumedByHand(t))

\* ... every remaining step is done: there is nothing to execute.
ResumeCompletedTask(t) ==
  /\ Ensure(t).status = "paused"
  /\ coro[t] = "none"
  /\ Save(t, InStatus(ResumedByHand(t), "completed"))
  /\ ArmTimer(t)
  /\ UNCHANGED <<cache, coro, launching, dropping, clock, launches, stranded, restarts>>

RetryNode(t) ==
  /\ Exists(Ensure(t))
  /\ coro[t] \in {"none", "looping"}
  /\ LET again == InStatus(Ensure(t), "running")
         r == IF coro[t] = "none" \/ Ensure(t).status \in {"completed", "failed"}
              THEN again ELSE Ensure(t)
     IN \/ /\ Save(t, r)
           /\ coro' = [coro EXCEPT ![t] = IF @ = "none" THEN "resuming" ELSE @]
           /\ stranded' = stranded \ {t}
           /\ UNCHANGED <<cache, launching, timers, dropping, clock, launches, restarts>>
        \/ CallFails(t, r)

\* resume-from, rerun-from: only a coroutine is made, it writes when it
\* begins.  Bound: not on a task whose own start is still to come.
ResumeFrom(t, kind) ==
  /\ Exists(Ensure(t))
  /\ Ensure(t).status # "scheduled"
  /\ row[t].status # "scheduled"
  /\ coro[t] = "none"
  /\ mem' = [mem EXCEPT ![t] = Ensure(t)]
  /\ coro' = [coro EXCEPT ![t] = kind]
  /\ stranded' = stranded \ {t}
  /\ UNCHANGED <<row, cache, launching, timers, dropping, clock, launches,
                 restarts, faults>>

\* delete_task cancels a running task first.  The rows, the record and the
\* cache entry go; the coroutine and the queue entry stay.  (Bound: no
\* deletion just between the check and the drop of a clean-up thread.)
DeleteTask(t) ==
  /\ Exists(Ensure(t))
  /\ dropping[t] = "absent"
  /\ row' = [row EXCEPT ![t] = NoTask]
  /\ mem' = [mem EXCEPT ![t] = NoTask]
  /\ cache' = [cache EXCEPT ![t] = "absent"]
  /\ launches' = [launches EXCEPT ![t] = 0]
  /\ stranded' = stranded \ {t}
  /\ IF Ensure(t).status = "running" THEN ArmTimer(t) ELSE UNCHANGED timers
  /\ UNCHANGED <<coro, launching, dropping, clock, restarts, faults>>

\* The deletion of the row fails, which is only printed: the record goes.
DeleteTaskFails(t) ==
  /\ Exists(Ensure(t))
  /\ dropping[t] = "absent"
  /\ faults < MaxFaults
  /\ faults' = faults + 1
  /\ IF Ensure(t).status = "running"
     THEN ArmTimer(t) /\ row' = [row EXCEPT ![t] = Cancelled(t)]
     ELSE UNCHANGED <<timers, row>>
  /\ mem' = [mem EXCEPT ![t] = NoTask]
  /\ cache' = [cache EXCEPT ![t] = "absent"]
  /\ stranded' = stranded \cup {t}
  /\ UNCHANGED <<coro, launching, dropping, clock, launches, restarts>>

-----------------------------------------------------------------------------
(* The clean-up timer                                                      *)

\* The timer runs at least 30 seconds: a coroutine has begun by then.
MayClean(t) ==
  /\ coro[t] # "looping"
  /\ mem[t].status \in Ended

TimerFires(t) ==
  /\ timers[t] > 0
  /\ coro[t] \notin NotBegun
  /\ dropping[t] = "absent"
  /\ timers' = [timers EXCEPT ![t] = @ - 1]
  /\ IF ~MayClean(t)
     THEN UNCHANGED <<mem, cache, dropping>>
     ELSE IF CleanerThread
     THEN dropping' = [dropping EXCEPT ![t] = mem[t].status] /\ UNCHANGED <<mem, cache>>
     ELSE /\ cache' = [cache EXCEPT ![t] = mem[t].status]
          /\ mem' = [mem EXCEPT ![t] = NoTask]
          /\ UNCHANGED dropping
  /\ UNCHANGED <<row, coro, launching, clock, launches, stranded, restarts, faults>>

\* The thread drops what it has found ended, whatever it is by now.
TimerDrops(t) ==
  /\ dropping[t] # "absent"
  /\ dropping' = [dropping EXCEPT ![t] = "absent"]
  /\ cache' = [cache EXCEPT ![t] = dropping[t]]
  /\ mem' = [mem EXCEPT ![t] = NoTask]
  /\ UNCHANGED <<row, coro, launching, timers, clock, launches, stranded,
                 restarts, faults>>

-----------------------------------------------------------------------------
(* The scheduler.  A sweep has no await: it is one step over all tasks.     *)
(* What it does to one task is a function of the view of that task.        *)

View(t) == [mem |-> mem[t], row |-> row[t], coro |-> coro[t],
            launch |-> t \in launching, launches |-> launches[t]]

Found(v) == IF Exists(v.mem) THEN v.mem ELSE v.row

Loaded(v) == [v EXCEPT !.mem = Found(v)]

\* Change the record and save it, unless this save fails.
Written(v, r, fails) ==
  [v EXCEPT !.mem = r, !.row = IF fails THEN @ ELSE r]

\* _pause_for_schedule_end: cancel what has not started, pause the rest.
EndSchedule(v, fails) ==
  CASE Found(v).status = "scheduled" ->
         Written(v, InStatus(Found(v), "cancelled"), fails)
    [] Found(v).status \in {"queued", "running"} ->
         Written(v, InStatus(Found(v), "paused"), fails)
    [] OTHER -> v

\* The rows are not looked at.
FaultyDueToStart(t, v) ==
  clock[t] # "before" /\ v.mem.status = "scheduled" /\ v.mem.timed

\* _dispatch_due_scheduled_tasks with _launch_scheduled_task.  The task is
\* due by its record or by its row; the record decides what happens.
DueToStart(t, v) ==
  /\ clock[t] # "before"
  /\ \/ v.mem.status = "scheduled" /\ v.mem.timed
     \/ v.row.status = "scheduled" /\ v.row.timed

\* A coroutine is made for the task.
Launched(v) == [v EXCEPT !.coro = "starting", !.launch = TRUE, !.launches = @ + 1]

\* The guard against a second launch is gone.
FaultyLaunchDue(t, v, fails) ==
  IF DueToStart(t, v) /\ Found(v).status # "cancelled"
  THEN Launched([v EXCEPT !.mem = InStatus(Found(v), "queued")])
  ELSE v

LaunchDue(t, v, fails) ==
  LET queued == IF Found(v).status = "scheduled"
                THEN Written(v, InStatus(Found(v), "queued"), fails)
                ELSE Loaded(v)
  IN IF ~DueToStart(t, v) THEN v
     ELSE IF v.launch \/ Found(v).status = "cancelled" THEN Loaded(v)
     ELSE IF Found(v).ends /\ clock[t] = "after" THEN EndSchedule(Loaded(v), fails)
     ELSE IF fails /\ Found(v).status = "scheduled" THEN queued
     ELSE Launched(queued)

\* _dispatch_due_schedule_ends
DueToEnd(t, v) ==
  /\ clock[t] = "after"
  /\ \/ v.mem.status \in Active /\ v.mem.ends
     \/ v.row.status \in Active /\ v.row.ends

EndDue(t, v, fails) ==
  IF DueToEnd(t, v) THEN EndSchedule(Loaded(v), fails) ELSE v

Swept(t, fails) == EndDue(t, LaunchDue(t, View(t), fails), fails)

Sweep ==
  \E F \in SUBSET Tasks :
    LET new == [t \in Tasks |-> Swept(t, t \in F)]
    IN /\ faults + Cardinality(F) <= MaxFaults
       /\ \A t \in F : new[t].mem # new[t].row
       /\ faults' = faults + Cardinality(F)
       /\ mem' = [t \in Tasks |-> new[t].mem]
       /\ row' = [t \in Tasks |-> new[t].row]
       /\ coro' = [t \in Tasks |-> new[t].coro]
       /\ launching' = {t \in Tasks : new[t].launch}
       /\ launches' = [t \in Tasks |-> new[t].launches]
       /\ stranded' = (stranded \cup F) \ {t \in Tasks : new[t].coro # coro[t]}
  /\ UNCHANGED <<cache, timers, dropping, clock, restarts>>

-----------------------------------------------------------------------------
(* The environment                                                         *)

TimePasses(t) ==
  /\ clock[t] # "after"
  /\ clock' = [clock EXCEPT ![t] = IF @ = "before" THEN "within" ELSE "after"]
  /\ UNCHANGED <<mem, row, cache, coro, launching, timers, dropping, launches,
                 stranded, restarts, faults>>

\* The process dies and is started again: the database is all that is left.
\* Startup starts the scheduler and nothing else.
Restart ==
  /\ restarts < MaxRestarts
  /\ restarts' = restarts + 1
  /\ mem' = [t \in Tasks |-> NoTask]
  /\ cache' = [t \in Tasks |-> "absent"]
  /\ coro' = [t \in Tasks |-> "none"]
  /\ launching' = {}
  /\ timers' = [t \in Tasks |-> 0]
  /\ dropping' = [t \in Tasks |-> "absent"]
  /\ stranded' = {t \in Tasks : row[t].status \in {"queued", "running"}}
  /\ UNCHANGED <<row, clock, launches, faults>>

-----------------------------------------------------------------------------
Next ==
  \/ Sweep
  \/ Restart
  \/ \E S \in SUBSET Tasks : S # {} /\ BatchStart(S)
  \/ \E t \in Tasks :
       \/ \E timed \in BOOLEAN :
            \/ StartTask(t, timed)
            \/ StartWithRefusedCallback(t, timed)
            \/ StartUnsaved(t, timed)
       \/ StartBegins(t) \/ SlotGranted(t) \/ SlotGrantedInVain(t)
       \/ ResumeBegins(t) \/ ResumeFails(t) \/ LoopEnds(t) \/ LoopRaises(t)
       \/ QueryTask(t)
       \/ CancelTask(t) \/ CancelQueuedTask(t) \/ PauseTask(t)
       \/ ResumeTask(t) \/ ResumeCompletedTask(t) \/ RetryNode(t)
       \/ \E kind \in {"resuming", "rerunning"} : ResumeFrom(t, kind)
       \/ DeleteTask(t) \/ DeleteTaskFails(t)
       \/ TimerFires(t) \/ TimerDrops(t)
       \/ TimePasses(t)

Spec == Init /\ [][Next]_vars

\* The scheduler wakes every fifteen seconds as long as the process lives.
FairSpec == Spec /\ WF_vars(Sweep)

-----------------------------------------------------------------------------
\* The types of the variables; a task has at most two clean-up timers.
TypeOK ==
  /\ mem \in [Tasks -> Record]
  /\ row \in [Tasks -> Record]
  /\ cache \in [Tasks -> {"absent"} \cup Ended]
  /\ coro \in [Tasks -> Coroutine]
  /\ launching \subseteq Tasks
  /\ timers \in [Tasks -> 0..2]
  /\ dropping \in [Tasks -> {"absent"} \cup Ended]
  /\ clock \in [Tasks -> {"before", "within", "after"}]
  /\ launches \in [Tasks -> Nat]
  /\ stranded \subseteq Tasks
  /\ restarts \in 0..MaxRestarts
  /\ faults \in 0..MaxFaults

\* Whoever asks for a task is told its status, and that answer is never
\* taken back by the clean-up of memory, by a load or by a restart, as long
\* as no save has failed.
Register == INSTANCE TaskRegister WITH
  status <- [t \in Tasks |-> Visible(t)],
  failed <- faults > 0

ImplementsRegister == Register!Spec

\* A task that is said to be queued or running has a coroutine that carries
\* it on, unless it is known why not: a restart, a refused callback, a save
\* or a deletion that failed.
UnattendedIsKnown ==
  \A t \in Tasks :
    Visible(t) \in {"queued", "running"} /\ coro[t] = "none" => t \in stranded

\* A registered task is started at most once, whatever the sweeps, restarts
\* and repeated requests; after a save that failed it may be started once more,
\* by the sweep after a restart.  (When two saves have failed, every sweep may
\* start it: in memory it is paused, in its row still scheduled.)
StartedOnce == faults <= 1 => \A t \in Tasks : launches[t] <= 1 + faults

\* The memory and the row of a task only differ by what has not been saved:
\* a fault, or the record start_workflow makes for a task it does not find.
Coherent ==
  \A t \in Tasks : Exists(mem[t]) /\ mem[t] # row[t] =>
    \/ faults > 0
    \/ mem[t] = Unregistered

\* A cancellation that was saved (the client was told so) stays, except for
\* a call that asks for the task to run and for a run that was asked for
\* before the cancellation: no wait for a slot, no stale launch and no end of
\* a loop overwrites it.
CancelSticks ==
  [][\A t \in Tasks :
       (/\ row[t].status = "cancelled"
        /\ Visible(t) = "cancelled"
        /\ row'[t].status \notin {"cancelled", "absent"})
       => "resuming" \in {coro[t], coro'[t]} \/ "rerunning" \in {coro[t], coro'[t]}]_vars

\* A task whose time has come does not stay scheduled.
DueIsLaunched ==
  \A t \in Tasks :
    (Visible(t) = "scheduled" /\ clock[t] # "before") ~> Visible(t) # "scheduled"

\* A task does not go on after the end of its schedule, unless somebody has
\* removed the end.
EndIsKept ==
  \A t \in Tasks :
    (clock[t] = "after" /\ Visible(t) \in Active /\ Ensure(t).ends)
      ~> ~(Visible(t) \in Active /\ Ensure(t).ends)

\* The state of the store: typed, coherent, and no task started twice.
StoreInvariant == TypeOK /\ Coherent /\ StartedOnce

\* Schedules begin and end: what is due is launched, what is over is ended.
SchedulesAreKept == DueIsLaunched /\ EndIsKept
=============================================================================
