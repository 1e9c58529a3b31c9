---------------------------- MODULE TaskRunners ----------------------------
(***************************************************************************)
(* The coroutines that run one task.  start_workflow makes the first one;  *)
(* the handlers of resume, approve, retry-node, resume-from and rerun-from *)
(* make others, unless the task is marked in _running_tasks.  The mark is  *)
(* meant to keep a second loop from running; but it is set only when a     *)
(* coroutine enters its loop, and a coroutine that resumes or re-runs      *)
(* takes a mark it finds for a leftover and removes it.                    *)
(*                                                                         *)
(* A coroutine is atomic between two awaits.  pc tells where it stands:    *)
(*                                                                         *)
(*   none       not created                                                *)
(*   queued     the first one, not yet past the wait for a slot            *)
(*   scheduled  created by a handler, it has not run yet                   *)
(*   executing  inside _execute_steps                                      *)
(*   reviewing  inside _execute_steps, in _await_human_review              *)
(*   exited     returned                                                   *)
(*                                                                         *)
(* What the loop does is left to StepLoop, the slots to TaskSlots.         *)
(* "failed" stands for rejected, too, "running" for queued.                *)
(*                                                                         *)
(* The operators named Faulty... are slips one could make in the operator  *)
(* that follows them; the properties are tested against them.              *)
(***************************************************************************)
EXTENDS Naturals, FiniteSets

CONSTANTS Runner,  \* the coroutines that may be created for the task
          First    \* the one of start_workflow

ASSUME RunnersAssumption ==
  /\ IsFiniteSet(Runner)
  /\ First \in Runner

VARIABLES status,      \* task["status"]
          prevStatus,  \* task["_prev_status"]
          mark,        \* whether the task is in _running_tasks
          event,       \* whether _pause_events has an event for the task
          pc,          \* where the coroutines stand
          kind,        \* "resume" or "rerun", of the coroutines handlers create
          hasty        \* history: a coroutine was created while one was pending

vars == <<status, prevStatus, mark, event, pc, kind, hasty>>

Status == {"running", "waiting_review", "paused", "cancelled", "failed",
           "completed", "completed_partial"}
Terminal == {"cancelled", "failed", "completed", "completed_partial"}
Place == {"none", "queued", "scheduled", "executing", "reviewing", "exited"}
Pending == {"queued", "scheduled"}
InLoop == {"executing", "reviewing"}

Init ==
  /\ status = "running" /\ prevStatus = "running"
  /\ mark = FALSE /\ event = FALSE
  /\ pc = [r \in Runner |-> IF r = First THEN "queued" ELSE "none"]
  /\ kind = [r \in Runner |-> "resume"]
  /\ hasty = FALSE

----------------------------------------------------------------------------
(* How a coroutine enters the loop.                                        *)

Enter(r) == pc' = [pc EXCEPT ![r] = "executing"] /\ mark' = TRUE
Exit(r) == pc' = [pc EXCEPT ![r] = "exited"]

(* start_workflow past its wait: it gives up if the task was stopped; if   *)
(* the task is marked, _execute_steps raises and the task is marked failed *)
(* unless it has ended.                                                    *)
StartBegins ==
  /\ pc[First] = "queued"
  /\ \/ status \in {"cancelled", "paused"} /\ Exit(First) /\ UNCHANGED <<status, mark>>
     \/ status \notin {"cancelled", "paused"} /\ ~mark /\ Enter(First) /\ UNCHANGED status
     \/ /\ status \notin {"cancelled", "paused"} /\ mark
        /\ Exit(First)
        /\ status' = IF status \in Terminal THEN status ELSE "failed"
        /\ UNCHANGED mark
  /\ UNCHANGED <<prevStatus, event, kind, hasty>>

\* The whole-task timeout, where one is configured, ends the wait for a slot.
StartTimesOut ==
  /\ pc[First] = "queued"
  /\ Exit(First)
  /\ status' = IF status \in Terminal THEN status ELSE "failed"
  /\ UNCHANGED <<prevStatus, mark, event, kind, hasty>>

(* _resume_workflow and rerun_from_node: the mark is removed, and at once  *)
(* set again, and the record is replaced by the one in the database, which *)
(* has no _prev_status; only resuming a completed task is refused.         *)
ResumedRunBegins(r) ==
  /\ pc[r] = "scheduled"
  /\ IF kind[r] = "resume" /\ status = "completed"
     THEN Exit(r) /\ UNCHANGED <<status, prevStatus, mark>>
     ELSE Enter(r) /\ status' = "running" /\ prevStatus' = "running"
  /\ UNCHANGED <<event, kind, hasty>>

----------------------------------------------------------------------------
(* What the loop does to the record, and its end.                          *)

RunAsksReview(r) ==
  /\ pc[r] = "executing"
  /\ pc' = [pc EXCEPT ![r] = "reviewing"]
  /\ status' = "waiting_review"
  /\ event' = TRUE
  /\ UNCHANGED <<prevStatus, mark, kind, hasty>>

\* The wait is over, for whatever reason; an approved human_review step
\* sets the task running again.
ReviewEnds(r) ==
  /\ pc[r] = "reviewing"
  /\ pc' = [pc EXCEPT ![r] = "executing"]
  /\ event' = FALSE
  /\ \/ status = "waiting_review" /\ status' = "running"
     \/ UNCHANGED status
  /\ UNCHANGED <<prevStatus, mark, kind, hasty>>

\* The mark is left behind.
FaultyRunEnds(r) ==
  /\ pc[r] = "executing"
  /\ Exit(r)
  /\ \/ status' = "failed"
     \/ status \in {"paused", "cancelled", "waiting_review"} /\ UNCHANGED status
     \/ /\ status \notin {"paused", "cancelled", "waiting_review", "failed"}
        /\ status' \in {"completed", "completed_partial"}
  /\ UNCHANGED <<prevStatus, mark, event, kind, hasty>>

(* _execute_steps returns, which removes the mark, and _finalize_task      *)
(* keeps the status that stopped the run or settles it; or the run raises  *)
(* or fails a step, whatever the status was.                               *)
RunEnds(r) ==
  /\ pc[r] = "executing"
  /\ Exit(r)
  /\ mark' = FALSE
  /\ \/ status' = "failed"
     \/ status \in {"paused", "cancelled", "waiting_review"} /\ UNCHANGED status
     \/ /\ status \notin {"paused", "cancelled", "waiting_review", "failed"}
        /\ status' \in {"completed", "completed_partial"}
  /\ UNCHANGED <<prevStatus, event, kind, hasty>>

----------------------------------------------------------------------------
(* The handlers.                                                           *)

\* The handler creates a coroutine.
Create(k) ==
  /\ hasty' = (hasty \/ \E r \in Runner : pc[r] \in Pending)
  /\ \E r \in Runner :
       /\ pc[r] = "none"
       /\ pc' = [pc EXCEPT ![r] = "scheduled"]
       /\ kind' = [kind EXCEPT ![r] = k]

ScheduleResume == status' = "running" /\ Create("resume")

PauseTask ==
  /\ status \in {"running", "waiting_review"}
  /\ prevStatus' = status
  /\ status' = "paused"
  /\ UNCHANGED <<mark, event, pc, kind, hasty>>

\* The status is put back, and nobody is there to go on.
FaultyResumeTask ==
  /\ status = "paused"
  /\ status' = prevStatus
  /\ UNCHANGED <<prevStatus, mark, event, pc, kind, hasty>>

ResumeTask ==
  /\ status = "paused"
  /\ \/ mark /\ status' = prevStatus /\ UNCHANGED <<pc, kind, hasty>>
     \/ ~mark /\ status' = "completed" /\ UNCHANGED <<pc, kind, hasty>>
     \/ ~mark /\ ScheduleResume
  /\ UNCHANGED <<prevStatus, mark, event>>

CancelTask ==
  /\ status' = "cancelled"
  /\ UNCHANGED <<prevStatus, mark, event, pc, kind, hasty>>

\* The decision is taken up by the loop that waits; a run is scheduled if
\* none does, and none executes.
ApproveReview ==
  /\ status = "waiting_review" /\ ~event /\ ~mark
  /\ ScheduleResume
  /\ UNCHANGED <<prevStatus, mark, event>>

RetryNode ==
  /\ \/ /\ mark
        /\ status' = IF status \in Terminal \ {"cancelled"} THEN "running" ELSE status
        /\ UNCHANGED <<pc, kind, hasty>>
     \/ ~mark /\ ScheduleResume
  /\ UNCHANGED <<prevStatus, mark, event>>

\* A run is made beside the one there is.
FaultyRunFrom(k) ==
  /\ Create(k)
  /\ UNCHANGED <<status, prevStatus, mark, event>>

\* POST resume-from and rerun-from: refused while the task is marked.
RunFrom(k) ==
  /\ ~mark
  /\ Create(k)
  /\ UNCHANGED <<status, prevStatus, mark, event>>

----------------------------------------------------------------------------
Run(r) ==
  \/ ResumedRunBegins(r)
  \/ RunAsksReview(r) \/ ReviewEnds(r) \/ RunEnds(r)

Clients ==
  \/ PauseTask \/ ResumeTask \/ CancelTask \/ ApproveReview \/ RetryNode
  \/ \E k \in {"resume", "rerun"} : RunFrom(k)

Next == StartBegins \/ StartTimesOut \/ (\E r \in Runner : Run(r)) \/ Clients

Spec == Init /\ [][Next]_vars

----------------------------------------------------------------------------
\* The types of the variables.
TypeOK ==
  /\ status \in Status
  /\ prevStatus \in {"running", "waiting_review"}
  /\ mark \in BOOLEAN
  /\ event \in BOOLEAN
  /\ pc \in [Runner -> Place]
  /\ kind \in [Runner -> {"resume", "rerun"}]

(* A mark is never a leftover: as long as the task is marked, some loop is *)
(* there, so no handler refuses a task, or hands it to a loop, for nothing. *)
MarkMeansExecuting == mark => \E r \in Runner : pc[r] \in InLoop

(* A task reported as running has a coroutine that runs it or is about to: *)
(* no mix of calls leaves it running for ever with nobody there.           *)
RunningHasRunner ==
  status = "running" => \E r \in Runner : pc[r] \in InLoop \cup Pending

(* One loop of a task runs at a time, as long as no client makes a second  *)
(* coroutine before the first one has begun.                               *)
OneLoopUnlessHasty ==
  ~hasty => \A r, s \in Runner : pc[r] \in InLoop /\ pc[s] \in InLoop => r = s
=============================================================================
