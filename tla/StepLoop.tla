------------------------------ MODULE StepLoop ------------------------------
(***************************************************************************)
(* The execution loop of one task: _execute_steps_inner walks the step     *)
(* files of the task along the routes of the registry, retries a step,     *)
(* falls back on failure, waits for reviewers, and is paused, cancelled,   *)
(* retried, resumed and re-run by clients; _finalize_task settles what is  *)
(* left.                                                                   *)
(*                                                                         *)
(* Loop and handlers share one event loop, so the loop is atomic between   *)
(* two awaits.  pc is where it stands:                                     *)
(*                                                                         *)
(*   idle       no loop runs                                               *)
(*   scheduled  a resume or re-run coroutine was created, it has not run   *)
(*   attempt    awaiting executor.execute                                  *)
(*   backoff    awaiting the sleep before a retry                          *)
(*   review     awaiting a review decision                                 *)
(*                                                                         *)
(* and, between two awaits (Transient: no handler runs),                   *)
(*                                                                         *)
(*   top        at the head of the outer while loop                        *)
(*   attempting at the head of the retry loop of the current step          *)
(*   decided, withdrawn   back from _await_human_review with a decision,   *)
(*              or because the task was paused or cancelled                *)
(*   passed, exhausted    after the retry loop, with success or without    *)
(*   ending     out of the outer loop                                      *)
(*                                                                         *)
(* Here a task has at most one loop: TaskSlots tells when the first one    *)
(* may start, TaskRunners what happens when the handlers start another.    *)
(*                                                                         *)
(* The operators named Faulty... are slips one could make in the operator  *)
(* that follows them; the properties are tested against them.              *)
(***************************************************************************)
EXTENDS Integers, FiniteSets

CONSTANTS NumSteps,    \* the length of step_files
          Human,       \* the steps whose exec_type is human_review
          SystemCheck, \* the steps that need no executor
          Mode,        \* "auto", "supervised" or "manual"
          Conditional, \* the reviews a rule on the risk level may skip (the
                       \* registry has such a rule for supervised mode only)
          OnPass,      \* the routes a step may take once passed (0: finish);
                       \* several where the risk code selects one
          OnFail,      \* the route of a failed step (0: fail closed)
          MaxRetries,  \* max_retries_for each step
          MaxLoop,     \* max_steps * 4
          TokenBudget, \* whether max_tokens_per_task is set
          Calls        \* the calls clients make, out of ClientCall

Step == 1..NumSteps
ClientCall == {"pause", "cancel", "retry", "resume", "rerun"}

ASSUME StepLoopAssumption ==
  /\ NumSteps \in Nat \ {0}
  /\ Human \subseteq Step
  /\ SystemCheck \subseteq Step \ Human
  /\ Mode \in {"auto", "supervised", "manual"}
  /\ Conditional \subseteq Human
  /\ Mode = "manual" => Conditional = {}
  /\ OnPass \in [Step -> SUBSET (Step \cup {0})]
  /\ \A s \in Step : OnPass[s] # {} /\ s \notin OnPass[s]
  /\ OnFail \in [Step -> Step \cup {0}]
  /\ MaxRetries \in [Step -> Nat]
  /\ MaxLoop \in Nat \ {0}
  /\ TokenBudget \in BOOLEAN
  /\ Calls \subseteq ClientCall

VARIABLES status,       \* task["status"]
          prevStatus,   \* task["_prev_status"]
          currentStep,  \* task["current_step"], as a step
          completed,    \* task["completed_steps"]
          retryCounts,  \* task["retry_counts"]
          decision,     \* task["review_decision"]
          stored,       \* the decision published in the StateStore
          bus,          \* the decision the event bus keeps
          result,       \* the status of a step's last entry in node_results
          pc,           \* where the loop stands
          run,          \* which call started the loop
          cur,          \* current_file (0: None), or where a run will start
          loops,        \* passes of the outer loop
          skip,         \* skip_steps
          retry,        \* retry_count
          jumpBudget,   \* jump_budget, keyed by the step that jumps
          reason,       \* what the review is for
          eventSet,     \* whether the review's event was set
          given,        \* history: what clients decided of the review that waits
          strays        \* history: why an answer nobody gave it may be about

record == <<status, prevStatus, currentStep, completed, retryCounts, decision>>
published == <<stored, bus>>
locals == <<loops, skip, retry, jumpBudget>>
review == <<reason, eventSet, given, strays>>
vars == <<record, published, result, pc, run, cur, locals, review>>

Status == {"running", "waiting_review", "paused", "cancelled", "rejected",
           "failed", "completed", "completed_partial"}
Stopped == {"cancelled", "paused", "rejected", "failed"}
Terminal == {"completed", "failed", "cancelled", "rejected", "completed_partial"}
Decision == {"approve", "modify", "reject", "retry"}
Result == {"none", "success", "partial", "error"}
Reason == {"human_review", "check_failed", "retries_exhausted"}
(* How the answer to a review may be one that no client gave it: the bus   *)
(* keeps a decision after it was used; a withdrawn human review leaves the *)
(* decision it had; a client answers while a status is left over and no    *)
(* review waits; retry_node drops the answer a waiting review was given;   *)
(* resume_task wakes a review that was given none.  The first four leave a *)
(* decision about, the last two wake a review without one.                 *)
LeavesDecision == {"bus", "withdrawn", "unasked", "dropped"}
WakesWithoutOne == {"dropped", "roused"}
Transient == {"top", "attempting", "decided", "withdrawn", "passed", "exhausted",
              "ending"}
Awaiting == {"attempt", "backoff", "review"}

Executing == pc \in Transient \cup Awaiting

\* The first run of the task, past the wait for a slot.
Init ==
  /\ status = "running" /\ prevStatus = "running"
  /\ currentStep = 1 /\ completed = {}
  /\ retryCounts = [s \in Step |-> 0]
  /\ decision = "none" /\ stored = "none" /\ bus = "none"
  /\ result = [s \in Step |-> "none"]
  /\ pc = "top" /\ run = "start" /\ cur = 1
  /\ loops = 0 /\ skip = {} /\ retry = 0
  /\ jumpBudget = [s \in Step |-> 0]
  /\ reason = "human_review" /\ eventSet = FALSE
  /\ given = "none" /\ strays = {}

----------------------------------------------------------------------------
(* Routing.                                                                *)

(* _apply_route_jump, with `done' completed: a jump back forgets what the  *)
(* target and all steps after it have done; going on, or back to the same  *)
(* step, forgets nothing, the retry count included.                        *)
MoveTo(target, done) ==
  /\ cur' = target
  /\ IF target \in 1..(cur - 1)
     THEN /\ completed' = {s \in done : s < target}
          /\ result' = [s \in Step |-> IF s < target THEN result[s] ELSE "none"]
          /\ retryCounts' = [s \in Step |-> IF s < target THEN retryCounts[s] ELSE 0]
     ELSE /\ completed' = done
          /\ UNCHANGED <<result, retryCounts>>

\* resolve_next(passed=True) and resolve_skip_target, then the move.
PassOn(done) == \E target \in OnPass[cur] : MoveTo(target, done)

\* The budget of the on_fail jump allows one more.
CanFallBack == OnFail[cur] # 0 /\ jumpBudget[cur] <= MaxRetries[cur]

CountJump ==
  IF OnFail[cur] # 0
  THEN jumpBudget' = [jumpBudget EXCEPT ![cur] = @ + 1]
  ELSE UNCHANGED jumpBudget

----------------------------------------------------------------------------
(* The head of the outer loop.                                             *)

EndLoop ==
  /\ pc = "top" /\ (cur = 0 \/ loops >= MaxLoop)
  /\ pc' = "ending"
  /\ UNCHANGED <<record, published, result, run, cur, locals, review>>

\* A pass of the outer loop that sees a status in S begins.
PassBegins(S) ==
  /\ pc = "top" /\ cur # 0 /\ loops < MaxLoop
  /\ status \in S
  /\ loops' = loops + 1
  /\ currentStep' = cur

Live == Status \ Stopped

StopAtStep ==
  /\ PassBegins(Stopped)
  /\ pc' = "ending"
  /\ UNCHANGED <<status, prevStatus, completed, retryCounts, decision, published,
                 result, run, cur, skip, retry, jumpBudget, review>>

SkipCompletedStep ==
  /\ PassBegins(Live)
  /\ cur \in skip
  /\ PassOn(completed)
  /\ UNCHANGED <<status, prevStatus, decision, published, pc, run, skip, retry,
                 jumpBudget, review>>

(* _should_skip_human_review: auto skips every review, the other modes     *)
(* those whose rule finds the risk low.  Only steps write what the rule    *)
(* reads: it answers for a review that is asked for again, which the       *)
(* status still shows, as it did before.                                   *)
MaySkipReview ==
  \/ Mode = "auto"
  \/ cur \in Conditional /\ status # "waiting_review"

SkipHumanReview ==
  /\ PassBegins(Live)
  /\ cur \in Human \ skip
  /\ MaySkipReview
  /\ PassOn(completed \cup {cur})
  /\ UNCHANGED <<status, prevStatus, decision, published, pc, run, skip, retry,
                 jumpBudget, review>>

\* The decision in memory, or the one published meanwhile.
PulledDecision == IF decision # "none" THEN decision ELSE stored

(* _await_human_review up to its first await: a decision already taken is  *)
(* used at once.                                                           *)
AwaitReview(why) ==
  /\ reason' = why
  /\ \/ /\ PulledDecision # "none"
        /\ pc' = "decided"
        /\ decision' = PulledDecision
        /\ UNCHANGED <<status, eventSet>>
     \/ /\ PulledDecision = "none"
        /\ pc' = "review"
        /\ status' = "waiting_review"
        /\ eventSet' = FALSE
        /\ UNCHANGED decision
  /\ UNCHANGED <<given, strays>>

RequestHumanReview ==
  /\ PassBegins(Live)
  /\ cur \in Human \ skip
  /\ Mode # "auto"
  /\ AwaitReview("human_review")
  /\ UNCHANGED <<prevStatus, completed, retryCounts, published, result, run, cur, skip,
                 retry, jumpBudget>>

\* The paused and the cancelled task goes on.
FaultyStartStep ==
  /\ PassBegins(Status)
  /\ cur \notin Human \cup skip
  /\ retry' = retryCounts[cur]
  /\ pc' = "attempting"
  /\ UNCHANGED <<status, prevStatus, completed, retryCounts, decision, published,
                 result, run, cur, skip, jumpBudget, review>>

StartStep ==
  /\ PassBegins(Live)
  /\ cur \notin Human \cup skip
  /\ retry' = retryCounts[cur]
  /\ pc' = "attempting"
  /\ UNCHANGED <<status, prevStatus, completed, retryCounts, decision, published,
                 result, run, cur, skip, jumpBudget, review>>

----------------------------------------------------------------------------
(* The retry loop of a step.                                               *)

outsideAttempt == <<status, prevStatus, currentStep, completed, decision, published,
                    run, cur, loops, skip, jumpBudget, review>>

GiveUp ==
  /\ pc = "attempting" /\ retry > MaxRetries[cur]
  /\ pc' = "exhausted"
  /\ UNCHANGED <<outsideAttempt, retryCounts, result, retry>>

BackOff ==
  /\ pc = "attempting" /\ retry \in 1..MaxRetries[cur]
  /\ pc' = "backoff"
  /\ UNCHANGED <<outsideAttempt, retryCounts, result, retry>>

Record(r) == result' = [result EXCEPT ![cur] = r]

\* The refused configuration leaves no result.
FaultyAttempt ==
  /\ pc = "backoff" \/ (pc = "attempting" /\ retry = 0)
  /\ pc' \in {"attempt", "passed", "exhausted"}
  /\ UNCHANGED <<outsideAttempt, result, retryCounts, retry>>

(* After the sleep, or without one: the executor is created and runs, the  *)
(* step needs none and has passed, or its configuration is refused.        *)
Attempt ==
  /\ pc = "backoff" \/ (pc = "attempting" /\ retry = 0)
  /\ \/ /\ cur \notin SystemCheck /\ pc' = "attempt" /\ UNCHANGED result
     \/ /\ cur \in SystemCheck /\ pc' = "passed" /\ UNCHANGED result
     \/ /\ cur \notin SystemCheck /\ pc' = "exhausted" /\ Record("error")
  /\ UNCHANGED <<outsideAttempt, retryCounts, retry>>

CountRetry ==
  /\ retry' = retry + 1
  /\ retryCounts' = [retryCounts EXCEPT ![cur] = retry + 1]

\* The retry is taken without being counted.
FaultyRetryOr(giveUp) ==
  IF retry < MaxRetries[cur]
  THEN /\ pc' = "attempting" /\ UNCHANGED <<retry, retryCounts>>
       /\ UNCHANGED <<status, decision, review>>
  ELSE giveUp /\ UNCHANGED <<retry, retryCounts>>

RetryOr(giveUp) ==
  IF retry < MaxRetries[cur]
  THEN /\ CountRetry /\ pc' = "attempting"
       /\ UNCHANGED <<status, decision, review>>
  ELSE giveUp /\ UNCHANGED <<retry, retryCounts>>

Exhaust == pc' = "exhausted" /\ UNCHANGED <<status, decision, review>>

outsideOutcome == <<prevStatus, currentStep, completed, published, run, cur, loops,
                    skip, jumpBudget>>

StepSucceeds ==
  /\ pc = "attempt"
  /\ Record("success")
  /\ pc' = "passed"
  /\ UNCHANGED <<outsideAttempt, retryCounts, retry>>

(* The executor ran and its checks do not hold: in manual mode a reviewer  *)
(* decides at once, else the step is retried.                              *)
ChecksFail ==
  /\ pc = "attempt"
  /\ \E r \in {"partial", "error"} : Record(r)
  /\ IF Mode = "manual"
     THEN AwaitReview("check_failed") /\ UNCHANGED <<retry, retryCounts>>
     ELSE RetryOr(Exhaust)
  /\ UNCHANGED outsideOutcome

StepTimesOut ==
  /\ pc = "attempt"
  /\ Record("error")
  /\ RetryOr(Exhaust)
  /\ UNCHANGED outsideOutcome

StepRaises ==
  /\ pc = "attempt"
  /\ Record("error")
  /\ RetryOr(IF Mode = "manual" THEN AwaitReview("retries_exhausted") ELSE Exhaust)
  /\ UNCHANGED outsideOutcome

(* The step is recorded, then the token budget may end the run.            *)
StepPassed ==
  /\ pc = "passed"
  /\ \/ /\ PassOn(completed \cup {cur})
        /\ pc' = "top"
        /\ UNCHANGED status
     \/ /\ TokenBudget
        /\ completed' = completed \cup {cur}
        /\ status' = "failed" /\ pc' = "ending"
        /\ UNCHANGED <<cur, result, retryCounts>>
  /\ UNCHANGED <<prevStatus, currentStep, decision, published, run, locals, review>>

(* Out of retries: fall back along on_fail while the budget lasts, or fail. *)
StepFailed ==
  /\ pc = "exhausted"
  /\ CountJump
  /\ IF CanFallBack
     THEN /\ MoveTo(OnFail[cur], completed)
          /\ pc' = "top"
          /\ UNCHANGED status
     ELSE /\ status' = "failed" /\ pc' = "ending"
          /\ UNCHANGED <<cur, completed, result, retryCounts>>
  /\ UNCHANGED <<prevStatus, currentStep, decision, published, run, loops, skip,
                 retry, review>>

----------------------------------------------------------------------------
(* The review.                                                             *)

\* wait_for_decision: the decision kept comes back, and is kept no longer.
TakeOffBus == bus # "none" /\ decision' = bus /\ bus' = "none"

(* The wait ends when the event is set, or when a poll finds the task      *)
(* stopped, a decision, or a published decision, which leaves the bus with *)
(* what it keeps; or the wait on the bus, beside them, comes first.        *)
ReviewWakes ==
  /\ pc = "review"
  /\ \/ /\ eventSet \/ status \in {"cancelled", "paused"} \/ decision # "none"
        /\ UNCHANGED <<decision, bus>>
     \/ /\ status \notin {"cancelled", "paused"} /\ decision = "none" /\ stored # "none"
        /\ decision' = PulledDecision
        /\ UNCHANGED bus
     \/ TakeOffBus
  /\ pc' = IF status \in {"cancelled", "paused"} THEN "withdrawn" ELSE "decided"
  /\ UNCHANGED <<status, prevStatus, currentStep, completed, retryCounts, stored,
                 result, run, cur, locals, review>>

\* A wait that ended without a decision counts as an approval.
Verdict == IF decision = "none" THEN "approve" ELSE decision

\* The review is over; `left' says whether it leaves a decision, and how.
ReviewOver(left, why) == given' = "none" /\ strays' = IF left THEN {why} ELSE {}

\* Only the memory of the process forgets the decision.
FaultyConsumeDecision ==
  /\ decision' = "none" /\ UNCHANGED published
  /\ ReviewOver(bus # "none", "bus")

\* Nothing is taken off the bus.
ConsumeDecision ==
  /\ decision' = "none" /\ stored' = "none" /\ UNCHANGED bus
  /\ ReviewOver(bus # "none", "bus")

afterReview == <<prevStatus, currentStep, run, loops, skip, reason, eventSet>>

\* A withdrawn review of a human_review step keeps its decision.
ReviewWithdrawn ==
  /\ pc = "withdrawn"
  /\ IF reason = "human_review"
     THEN /\ UNCHANGED <<decision, published>>
          /\ ReviewOver({decision, stored, bus} # {"none"}, "withdrawn")
     ELSE ConsumeDecision
  /\ pc' = "ending"
  /\ UNCHANGED <<afterReview, status, completed, retryCounts, result, cur, retry,
                 jumpBudget>>

Rejects == pc = "decided" /\ Verdict = "reject" /\ ConsumeDecision

\* A human_review step sends the run back along on_fail while its budget lasts.
HumanRejects ==
  /\ Rejects /\ reason = "human_review"
  /\ CountJump
  /\ IF CanFallBack
     THEN /\ MoveTo(OnFail[cur], completed)
          /\ status' = "running" /\ pc' = "top"
     ELSE /\ status' = "rejected" /\ pc' = "ending"
          /\ UNCHANGED <<cur, completed, result, retryCounts>>
  /\ UNCHANGED <<afterReview, retry>>

\* A rejected result of an ordinary step ends the run.
ResultRejected ==
  /\ Rejects /\ reason # "human_review"
  /\ status' = "rejected" /\ pc' = "ending"
  /\ UNCHANGED <<afterReview, completed, retryCounts, result, cur, retry, jumpBudget>>

\* Asking again for a human_review step leaves the status as it is.
ReviewAgain ==
  /\ pc = "decided" /\ Verdict = "retry" /\ reason = "human_review"
  /\ ConsumeDecision
  /\ pc' = "top"
  /\ UNCHANGED <<afterReview, status, completed, retryCounts, result, cur, retry,
                 jumpBudget>>

RetryAsDecided ==
  /\ pc = "decided" /\ Verdict = "retry" /\ reason # "human_review"
  /\ ConsumeDecision
  /\ CountRetry
  /\ status' = "running" /\ pc' = "attempting"
  /\ UNCHANGED <<afterReview, completed, result, cur, jumpBudget>>

\* The status stays waiting_review, as after the approval of a result.
FaultyHumanApproves ==
  /\ pc = "decided" /\ Verdict \in {"approve", "modify"} /\ reason = "human_review"
  /\ ConsumeDecision
  /\ PassOn(completed \cup {cur})
  /\ pc' = "top"
  /\ UNCHANGED <<afterReview, status, retry, jumpBudget>>

HumanApproves ==
  /\ pc = "decided" /\ Verdict \in {"approve", "modify"} /\ reason = "human_review"
  /\ ConsumeDecision
  /\ PassOn(completed \cup {cur})
  /\ status' = "running" /\ pc' = "top"
  /\ UNCHANGED <<afterReview, retry, jumpBudget>>

\* The approved result counts as passed; the status is left as it is.
ResultApproved ==
  /\ pc = "decided" /\ Verdict \in {"approve", "modify"} /\ reason # "human_review"
  /\ ConsumeDecision
  /\ pc' = "passed"
  /\ UNCHANGED <<afterReview, status, completed, retryCounts, result, cur, retry,
                 jumpBudget>>

----------------------------------------------------------------------------
(* The end of a run.                                                       *)

\* What the latest results of the steps amount to.
Outcome ==
  LET results == {result[s] : s \in Step} \ {"none"}
  IN CASE results = {"success"} -> "completed"
       [] "error" \in results \/ results = {} -> "failed"
       [] OTHER -> "completed_partial"

\* The coroutine returns: its locals are gone.
LeaveLoop ==
  /\ pc' = "idle" /\ run' = "none" /\ cur' = 0
  /\ loops' = 0 /\ skip' = {} /\ retry' = 0
  /\ jumpBudget' = [s \in Step |-> 0]
  /\ reason' = "human_review" /\ eventSet' = FALSE
  /\ UNCHANGED <<given, strays>>

\* A run cut off by the loop limit is settled like any other.
FaultyFinalStatus == IF status \in Stopped \cup {"waiting_review"} THEN status ELSE Outcome

FinalStatus ==
  CASE status = "running" /\ loops >= MaxLoop -> "failed"
    [] status \in Stopped \cup {"waiting_review"} -> status
    [] OTHER -> Outcome

(* The check of the loop limit that closes _execute_steps_inner, and       *)
(* _finalize_task.                                                         *)
FinalizeTask ==
  /\ pc = "ending"
  /\ status' = FinalStatus
  /\ LeaveLoop
  /\ UNCHANGED <<prevStatus, currentStep, completed, retryCounts, decision, published,
                 result>>

----------------------------------------------------------------------------
(* The runs that resume and re-run.                                        *)

Schedule(kind, s) == pc' = "scheduled" /\ run' = kind /\ cur' = s

\* skip_steps is not handed on.
FaultyEnterLoop(done) ==
  /\ pc' = "top"
  /\ loops' = 0 /\ retry' = 0 /\ skip' = {}
  /\ jumpBudget' = [s \in Step |-> 0]

\* A fresh call of _execute_steps_inner at cur.
EnterLoop(done) ==
  /\ pc' = "top"
  /\ loops' = 0 /\ retry' = 0 /\ skip' = done
  /\ jumpBudget' = [s \in Step |-> 0]

(* _resume_workflow: only a completed task is refused.  The record is read *)
(* from the database, where neither the decision nor _prev_status has a    *)
(* column, and saving it drops the copy of the decision in extra.          *)
BeginResumedRun ==
  /\ pc = "scheduled" /\ run # "rerun"
  /\ IF status = "completed"
     THEN LeaveLoop /\ UNCHANGED <<status, prevStatus, decision>>
     ELSE /\ EnterLoop(completed)
          /\ status' = "running" /\ prevStatus' = "running" /\ decision' = "none"
          /\ UNCHANGED <<run, cur, review>>
  /\ UNCHANGED <<currentStep, completed, retryCounts, published, result>>

\* Only the results are forgotten.
FaultyBeginRerun ==
  /\ pc = "scheduled" /\ run = "rerun"
  /\ EnterLoop(completed)
  /\ result' = [s \in Step |-> IF s < cur THEN result[s] ELSE "none"]
  /\ retryCounts' = [s \in Step |-> IF s < cur THEN retryCounts[s] ELSE 0]
  /\ decision' = "none"
  /\ status' = "running" /\ prevStatus' = "running"
  /\ UNCHANGED <<currentStep, completed, published, run, cur, review>>

\* rerun_from_node: what the step and all after it have done is forgotten.
BeginRerun ==
  /\ pc = "scheduled" /\ run = "rerun"
  /\ LET kept == {s \in completed : s < cur}
     IN completed' = kept /\ EnterLoop(kept)
  /\ result' = [s \in Step |-> IF s < cur THEN result[s] ELSE "none"]
  /\ retryCounts' = [s \in Step |-> IF s < cur THEN retryCounts[s] ELSE 0]
  /\ decision' = "none"
  /\ status' = "running" /\ prevStatus' = "running"
  /\ UNCHANGED <<currentStep, published, run, cur, review>>

----------------------------------------------------------------------------
(* What clients call.                                                      *)

May(call) == call \in Calls /\ pc \notin Transient

\* The review's event is set, if a review waits for it.
SetEvent == eventSet' = (eventSet \/ pc = "review") /\ UNCHANGED reason

\* A client decides: of the review that waits, if one does.
Decide(d) ==
  /\ given' = IF pc = "review" THEN d ELSE "none"
  /\ strays' = IF pc = "review" THEN {} ELSE {"unasked"}

PauseTask ==
  /\ May("pause") /\ status \in {"running", "waiting_review"}
  /\ prevStatus' = status
  /\ status' = "paused"
  /\ SetEvent
  /\ UNCHANGED <<given, strays, currentStep, completed, retryCounts, decision, published, result, pc,
                 run, cur, locals>>

(* resume_task: a loop still there finds its status again; else all        *)
(* remaining steps are done, or a run is scheduled at the current one.     *)
ResumeTask ==
  /\ May("pause") /\ status = "paused" /\ pc # "scheduled"
  /\ IF Executing
     THEN /\ status' = prevStatus
          /\ SetEvent
          /\ strays' = strays \cup
               IF pc = "review" /\ given = "none" THEN {"roused"} ELSE {}
          /\ UNCHANGED <<given, pc, run, cur>>
     ELSE /\ IF currentStep..NumSteps \subseteq completed
             THEN status' = "completed" /\ UNCHANGED <<pc, run, cur>>
             ELSE status' = "running" /\ Schedule("resume", currentStep)
          /\ UNCHANGED review
  /\ UNCHANGED <<prevStatus, currentStep, completed, retryCounts, decision, published,
                 result, locals>>

CancelTask ==
  /\ May("cancel")
  /\ status' = "cancelled"
  /\ IF status = "waiting_review"
     THEN /\ decision' = "reject" /\ stored' = "reject" /\ UNCHANGED bus
          /\ SetEvent /\ Decide("reject")
     ELSE UNCHANGED <<decision, published, review>>
  /\ UNCHANGED <<prevStatus, currentStep, completed, retryCounts, result, pc, run,
                 cur, locals>>

\* The StateStore and the event bus get the decision.
Publish(d) == stored' = d /\ bus' = d

(* approve_review: the first decision stands; a loop that waits is woken,  *)
(* and where none runs one is scheduled.                                   *)
ApproveReview(d) ==
  /\ pc \notin Transient /\ status = "waiting_review" /\ pc # "scheduled"
  /\ decision \in {"none", d}
  /\ decision' = d /\ Publish(d)
  /\ SetEvent /\ Decide(d)
  /\ IF pc = "idle" /\ decision = "none"
     THEN status' = "running" /\ Schedule("resume", currentStep)
     ELSE UNCHANGED <<status, pc, run, cur>>
  /\ UNCHANGED <<prevStatus, currentStep, completed, retryCounts, result, locals>>

(* retry_node: the step's record is dropped and its retry counted; a run   *)
(* is scheduled unless a loop is there, which keeps its own results.       *)
RetryNode(s) ==
  /\ May("retry") /\ pc # "scheduled"
  /\ decision' = "none"
  /\ completed' = completed \ {s}
  /\ retryCounts' = [retryCounts EXCEPT ![s] = @ + 1]
  /\ currentStep' = s
  /\ IF Executing
     THEN /\ status' = IF status \in Terminal \ {"cancelled"} THEN "running" ELSE status
          /\ UNCHANGED <<result, pc, run, cur>>
     ELSE /\ status' = "running"
          /\ result' = [result EXCEPT ![s] = "none"]
          /\ Schedule("retry", s)
  /\ IF pc = "review" /\ given # "none"
     THEN given' = "none" /\ strays' = strays \cup {"dropped"}
     ELSE UNCHANGED <<given, strays>>
  /\ UNCHANGED <<prevStatus, published, locals, reason, eventSet>>

ResumeFrom(s) ==
  /\ May("resume") /\ pc = "idle"
  /\ Schedule("resume", s)
  /\ UNCHANGED <<record, published, result, locals, review>>

RerunFrom(s) ==
  /\ May("rerun") /\ pc = "idle"
  /\ Schedule("rerun", s)
  /\ UNCHANGED <<record, published, result, locals, review>>

----------------------------------------------------------------------------
Loop ==
  \/ EndLoop \/ StopAtStep \/ SkipCompletedStep \/ SkipHumanReview
  \/ RequestHumanReview \/ StartStep
  \/ GiveUp \/ BackOff \/ Attempt
  \/ StepSucceeds \/ ChecksFail \/ StepTimesOut \/ StepRaises
  \/ StepPassed \/ StepFailed
  \/ ReviewWakes \/ ReviewWithdrawn \/ HumanRejects \/ ResultRejected
  \/ ReviewAgain \/ RetryAsDecided \/ HumanApproves \/ ResultApproved
  \/ FinalizeTask \/ BeginResumedRun \/ BeginRerun

Clients ==
  \/ PauseTask \/ ResumeTask \/ CancelTask
  \/ \E d \in Decision : ApproveReview(d)
  \/ \E s \in Step : RetryNode(s) \/ ResumeFrom(s) \/ RerunFrom(s)

Next == Loop \/ Clients

Spec == Init /\ [][Next]_vars

(* The event loop runs every ready coroutine, and what the loop awaits     *)
(* comes back: a step has a timeout, a sleep ends.  Nothing makes a        *)
(* reviewer decide.                                                        *)
FairSpec == Spec /\ WF_vars(Loop)

----------------------------------------------------------------------------
\* The types of the record, of the loop's locals and of the channels of a review.
TypeOK ==
  /\ status \in Status
  /\ prevStatus \in {"running", "waiting_review"}
  /\ currentStep \in Step
  /\ completed \subseteq Step
  /\ retryCounts \in [Step -> Nat]
  /\ decision \in Decision \cup {"none"}
  /\ stored \in Decision \cup {"none"}
  /\ bus \in Decision \cup {"none"}
  /\ result \in [Step -> Result]
  /\ pc \in {"idle", "scheduled"} \cup Transient \cup Awaiting
  /\ run \in {"none", "start", "resume", "retry", "rerun"}
  /\ cur \in Step \cup {0}
  /\ loops \in 0..MaxLoop
  /\ skip \subseteq Step
  /\ retry \in Nat
  /\ jumpBudget \in [Step -> Nat]
  /\ reason \in Reason
  /\ eventSet \in BOOLEAN
  /\ given \in Decision \cup {"none"}
  /\ strays \subseteq LeavesDecision \cup WakesWithoutOne

(* A completed step is never executed again on top of its record, through  *)
(* any sequence of jumps, retries, pauses and resumed runs.                *)
CompletedStepNotRedone == pc \in {"attempt", "backoff"} => cur \notin completed

(* Unless a reviewer may accept less, a step counts as completed only      *)
(* while the last thing it did was to succeed: completion record and       *)
(* results are dropped together by jumps, retries and re-runs.             *)
DoneMeansSucceeded ==
  Mode # "manual" =>
    \A s \in completed \ (Human \cup SystemCheck) : result[s] = "success"

(* A task reported as completed got past a step the route ends at; it was  *)
(* not cut off by the loop limit, a failure or a review.                   *)
CompletedReachedTheEnd ==
  status = "completed" => \E s \in completed : 0 \in OnPass[s]

(* A step is given up only after it was tried.                             *)
GivenUpAfterAttempt == pc = "exhausted" => result[cur] # "none"

(* Once its task is paused or cancelled a run goes on to no other step; it *)
(* may finish the attempt and the retries of the one it is in.             *)
StoppedStartsNoStep ==
  [][(status \in {"paused", "cancelled"} /\ Executing
      /\ pc' \in {"attempting", "backoff", "attempt"})
     => currentStep' = currentStep]_vars

(* The task of a run that goes on says that it waits for a reviewer only   *)
(* while the run does wait.                                                *)
WaitingMeansWaiting ==
  Executing /\ status = "waiting_review" => pc \in Transient \cup {"review"}

(* A review goes by what clients decided of that very review, wherever the *)
(* decision was read: memory, StateStore or bus, in any run and mode.      *)
(* strays names when it does not: another decision is used only where one  *)
(* was left about, and a review ends without any, which counts as an       *)
(* approval, only where a client woke it so.                               *)
DecisionsAnswerTheirReview ==
  pc = "decided" =>
    \/ decision # "none" /\ decision = given
    \/ decision # "none" /\ strays \cap LeavesDecision # {}
    \/ decision = "none" /\ strays \cap WakesWithoutOne # {}

(* The loop does not go round for ever: from wherever it is, it returns or *)
(* gets to wait for a reviewer.                                            *)
RunEnds == Executing ~> pc \in {"idle", "review"}
=============================================================================
