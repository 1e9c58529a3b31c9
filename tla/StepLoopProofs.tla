--------------------------- MODULE StepLoopProofs ---------------------------
(***************************************************************************)
(* Proofs about StepLoop, for every route, every retry limit, every mode   *)
(* and every set of calls clients make.                                    *)
(***************************************************************************)
EXTENDS StepLoop, TLAPS

LEMMA Constants ==
  /\ 1 \in Step
  /\ MaxLoop \in Nat
  /\ \A s \in Step : /\ s \in Nat \ {0}
                     /\ OnPass[s] \subseteq Step \cup {0}
                     /\ OnFail[s] \in Step \cup {0}
                     /\ MaxRetries[s] \in Nat
  BY StepLoopAssumption DEF Step

\* The values the actions assign are among those TypeOK allows.
LEMMA Members ==
  /\ {"running", "waiting_review", "paused", "cancelled", "rejected", "failed",
      "completed", "completed_partial"} \subseteq Status
  /\ {"approve", "modify", "reject", "retry"} \subseteq Decision
  /\ {"none", "success", "partial", "error"} \subseteq Result
  /\ {"human_review", "check_failed", "retries_exhausted"} \subseteq Reason
  /\ {"top", "attempting", "decided", "withdrawn", "passed", "exhausted", "ending",
      "attempt", "backoff", "review"} \subseteq Transient \cup Awaiting
  BY DEF Status, Decision, Result, Reason, Transient, Awaiting

----------------------------------------------------------------------------
(* What the helpers of the actions assign has the right type.              *)

LEMMA MoveTyped ==
  ASSUME TypeOK, NEW target \in Step \cup {0}, NEW done \in SUBSET Step,
         MoveTo(target, done)
  PROVE  /\ cur' \in Step \cup {0}
         /\ completed' \subseteq Step
         /\ result' \in [Step -> Result]
         /\ retryCounts' \in [Step -> Nat]
  <1>1. CASE target \in 1..(cur - 1)
    <2>1. /\ cur' = target
          /\ completed' = {s \in done : s < target}
          /\ result' = [s \in Step |-> IF s < target THEN result[s] ELSE "none"]
          /\ retryCounts' = [s \in Step |-> IF s < target THEN retryCounts[s] ELSE 0]
      BY <1>1 DEF MoveTo
    <2>2. \A s \in Step : result[s] \in Result /\ retryCounts[s] \in Nat
      BY DEF TypeOK
    <2>3. "none" \in Result
      BY Members
    <2>4. result' \in [Step -> Result]
      BY <2>1, <2>2, <2>3
    <2>5. retryCounts' \in [Step -> Nat]
      BY <2>1, <2>2
    <2> QED BY <2>1, <2>4, <2>5
  <1>2. CASE target \notin 1..(cur - 1)
    BY <1>2 DEF TypeOK, MoveTo
  <1> QED BY <1>1, <1>2

LEMMA PassTyped ==
  ASSUME TypeOK, cur \in Step, NEW done \in SUBSET Step, PassOn(done)
  PROVE  /\ cur' \in Step \cup {0}
         /\ completed' \subseteq Step
         /\ result' \in [Step -> Result]
         /\ retryCounts' \in [Step -> Nat]
  <1>1. PICK target \in OnPass[cur] : MoveTo(target, done)
    BY DEF PassOn
  <1>2. target \in Step \cup {0}
    BY <1>1, Constants
  <1> QED BY <1>1, <1>2, MoveTyped

LEMMA CountsTyped ==
  ASSUME TypeOK
  PROVE  /\ CountRetry => retry' \in Nat /\ retryCounts' \in [Step -> Nat]
         /\ CountJump => jumpBudget' \in [Step -> Nat]
         /\ \A r \in Result : Record(r) => result' \in [Step -> Result]
  <1>1. ASSUME CountRetry
        PROVE  retry' \in Nat /\ retryCounts' \in [Step -> Nat]
    <2>1. retry' \in Nat
      BY <1>1 DEF TypeOK, CountRetry
    <2>2. CASE cur \in Step
      BY <1>1, <2>1, <2>2 DEF TypeOK, CountRetry
    <2>3. CASE cur \notin Step
      BY <1>1, <2>1, <2>3 DEF TypeOK, CountRetry
    <2> QED BY <2>2, <2>3
  <1>2. ASSUME CountJump PROVE jumpBudget' \in [Step -> Nat]
    <2>1. CASE cur \in Step
      BY <1>2, <2>1 DEF TypeOK, CountJump
    <2>2. CASE cur \notin Step
      BY <1>2, <2>2 DEF TypeOK, CountJump
    <2> QED BY <2>1, <2>2
  <1>3. ASSUME NEW r \in Result, Record(r) PROVE result' \in [Step -> Result]
    BY <1>3 DEF TypeOK, Record
  <1> QED BY <1>1, <1>2, <1>3

HistoryTyped ==
  /\ given' \in Decision \cup {"none"}
  /\ strays' \subseteq LeavesDecision \cup WakesWithoutOne

\* What is recorded of a review has the right type, however it is changed.
LEMMA HistoriesTyped ==
  /\ TypeOK /\ UNCHANGED <<given, strays>> => HistoryTyped
  /\ ConsumeDecision => HistoryTyped
  /\ \A d \in Decision : Decide(d) => HistoryTyped
  <1>1. TypeOK /\ UNCHANGED <<given, strays>> => HistoryTyped
    BY DEF TypeOK, HistoryTyped
  <1>2. ConsumeDecision => HistoryTyped
    BY DEF ConsumeDecision, ReviewOver, HistoryTyped, LeavesDecision
  <1>3. \A d \in Decision : Decide(d) => HistoryTyped
    BY DEF Decide, HistoryTyped, LeavesDecision
  <1> QED BY <1>1, <1>2, <1>3

\* The variables a review request or the end of an attempt may assign.
Settled ==
  /\ status' \in Status
  /\ decision' \in Decision \cup {"none"}
  /\ reason' \in Reason
  /\ eventSet' \in BOOLEAN
  /\ pc' \in Transient \cup Awaiting
  /\ HistoryTyped

LEMMA ReviewTyped ==
  ASSUME TypeOK, NEW why \in Reason, AwaitReview(why)
  PROVE  Settled
  BY Members, HistoriesTyped DEF TypeOK, AwaitReview, PulledDecision, Settled

LEMMA ExhaustTyped == TypeOK /\ Exhaust => Settled
  BY Members, HistoriesTyped DEF TypeOK, Exhaust, Settled, review

LEMMA LocalsTyped ==
  /\ LeaveLoop => /\ pc' = "idle" /\ run' = "none" /\ cur' = 0 /\ loops' = 0
                  /\ skip' = {} /\ retry' = 0 /\ jumpBudget' \in [Step -> Nat]
                  /\ reason' = "human_review" /\ eventSet' \in BOOLEAN
                  /\ UNCHANGED <<given, strays>>
  /\ \A done \in SUBSET Step :
       EnterLoop(done) => /\ pc' = "top" /\ loops' = 0 /\ skip' \subseteq Step
                          /\ retry' = 0 /\ jumpBudget' \in [Step -> Nat]
  <1>1. LeaveLoop => eventSet' \in BOOLEAN
    BY DEF LeaveLoop
  <1>2. (\A s \in Step : 0 \in Nat) => [s \in Step |-> 0] \in [Step -> Nat]
    OBVIOUS
  <1> QED BY <1>1, <1>2 DEF LeaveLoop, EnterLoop

\* Where the loop works on a step, or is to start at one, there is one.
AtStep == {"attempting", "decided", "withdrawn", "passed", "exhausted", "attempt",
           "backoff", "review"}

Placed == pc \in AtStep \cup {"scheduled"} => cur \in Step

LEMMA TypeStep == TypeOK /\ Placed /\ [Next]_vars => TypeOK'
  <1> SUFFICES ASSUME TypeOK, Placed, [Next]_vars PROVE TypeOK'
    OBVIOUS
  <1> USE DEF record, published, locals, review, outsideAttempt, outsideOutcome, afterReview
  <1>c. cur = 0 \/ cur \in Step
    BY DEF TypeOK
  <1>d. completed \in SUBSET Step /\ completed \cup {cur} \subseteq Step \cup {0}
    BY DEF TypeOK
  <1>1. ASSUME EndLoop PROVE TypeOK'
    BY <1>1, Members DEF EndLoop, TypeOK
  <1>2. ASSUME StopAtStep PROVE TypeOK'
    BY <1>2, Constants, Members DEF StopAtStep, PassBegins, TypeOK
  <1>3. ASSUME SkipCompletedStep PROVE TypeOK'
    <2>1. cur \in Step /\ PassOn(completed)
      BY <1>3, <1>c DEF SkipCompletedStep, PassBegins
    <2>2. loops' \in 0..MaxLoop /\ currentStep' \in Step
      BY <1>3, <2>1, Constants DEF SkipCompletedStep, PassBegins, TypeOK
    <2> QED BY <1>3, <1>d, <2>1, <2>2, PassTyped DEF SkipCompletedStep, TypeOK
  <1>4. ASSUME SkipHumanReview PROVE TypeOK'
    <2>1. cur \in Step /\ PassOn(completed \cup {cur})
      BY <1>4, <1>c DEF SkipHumanReview, PassBegins
    <2>2. loops' \in 0..MaxLoop /\ currentStep' \in Step
      BY <1>4, <2>1, Constants DEF SkipHumanReview, PassBegins, TypeOK
    <2>3. completed \cup {cur} \in SUBSET Step
      BY <1>d, <2>1
    <2> QED BY <1>4, <2>1, <2>2, <2>3, PassTyped DEF SkipHumanReview, TypeOK
  <1>5. ASSUME RequestHumanReview PROVE TypeOK'
    <2>1. loops' \in 0..MaxLoop /\ currentStep' \in Step
      BY <1>5, <1>c, Constants DEF RequestHumanReview, PassBegins, TypeOK
    <2>2. Settled
      BY <1>5, ReviewTyped, Members DEF RequestHumanReview
    <2> QED BY <1>5, <2>1, <2>2 
      DEF RequestHumanReview, TypeOK, Settled, HistoryTyped
  <1>6. ASSUME StartStep PROVE TypeOK'
    <2>1. cur \in Step /\ loops' \in 0..MaxLoop /\ currentStep' \in Step
      BY <1>6, <1>c, Constants DEF StartStep, PassBegins, TypeOK
    <2> QED BY <1>6, <2>1, Members DEF StartStep, TypeOK
  <1>7. ASSUME GiveUp PROVE TypeOK'
    BY <1>7, Members DEF GiveUp, TypeOK
  <1>8. ASSUME BackOff PROVE TypeOK'
    BY <1>8, Members DEF BackOff, TypeOK
  <1>9. ASSUME Attempt PROVE TypeOK'
    <2>1. result' \in [Step -> Result]
      BY <1>9, CountsTyped, Members DEF Attempt, TypeOK
    <2> QED BY <1>9, <2>1, Members DEF Attempt, TypeOK
  <1>10. ASSUME StepSucceeds PROVE TypeOK'
    <2>1. result' \in [Step -> Result]
      BY <1>10, CountsTyped, Members DEF StepSucceeds
    <2> QED BY <1>10, <2>1, Members DEF StepSucceeds, TypeOK
  <1>11. ASSUME ChecksFail PROVE TypeOK'
    <2>1. result' \in [Step -> Result]
      BY <1>11, CountsTyped, Members DEF ChecksFail
    <2>2. retry' \in Nat /\ retryCounts' \in [Step -> Nat] /\ Settled
      <3>1. CASE Mode = "manual"
        BY <1>11, <3>1, ReviewTyped, Members DEF ChecksFail, TypeOK
      <3>2. CASE Mode # "manual" /\ retry < MaxRetries[cur]
        BY <1>11, <3>2, CountsTyped, HistoriesTyped, Members
        DEF ChecksFail, RetryOr, TypeOK, Settled
      <3>3. CASE Mode # "manual" /\ ~(retry < MaxRetries[cur])
        BY <1>11, <3>3, ExhaustTyped DEF ChecksFail, RetryOr, TypeOK
      <3> QED BY <3>1, <3>2, <3>3
    <2> QED BY <1>11, <2>1, <2>2 DEF ChecksFail, TypeOK, Settled, HistoryTyped
  <1>12. ASSUME StepTimesOut PROVE TypeOK'
    <2>1. result' \in [Step -> Result]
      BY <1>12, CountsTyped, Members DEF StepTimesOut
    <2>2. retry' \in Nat /\ retryCounts' \in [Step -> Nat] /\ Settled
      <3>1. CASE retry < MaxRetries[cur]
        BY <1>12, <3>1, CountsTyped, HistoriesTyped, Members
        DEF StepTimesOut, RetryOr, TypeOK, Settled
      <3>2. CASE ~(retry < MaxRetries[cur])
        BY <1>12, <3>2, ExhaustTyped DEF StepTimesOut, RetryOr, TypeOK
      <3> QED BY <3>1, <3>2
    <2> QED BY <1>12, <2>1, <2>2 DEF StepTimesOut, TypeOK, Settled, HistoryTyped
  <1>13. ASSUME StepRaises PROVE TypeOK'
    <2>1. result' \in [Step -> Result]
      BY <1>13, CountsTyped, Members DEF StepRaises
    <2>2. retry' \in Nat /\ retryCounts' \in [Step -> Nat] /\ Settled
      <3>1. CASE retry < MaxRetries[cur]
        BY <1>13, <3>1, CountsTyped, HistoriesTyped, Members
        DEF StepRaises, RetryOr, TypeOK, Settled
      <3>2. CASE ~(retry < MaxRetries[cur]) /\ Mode = "manual"
        BY <1>13, <3>2, ReviewTyped, Members DEF StepRaises, RetryOr, TypeOK
      <3>3. CASE ~(retry < MaxRetries[cur]) /\ Mode # "manual"
        BY <1>13, <3>3, ExhaustTyped DEF StepRaises, RetryOr, TypeOK
      <3> QED BY <3>1, <3>2, <3>3
    <2> QED BY <1>13, <2>1, <2>2 DEF StepRaises, TypeOK, Settled, HistoryTyped
  <1>14. ASSUME StepPassed PROVE TypeOK'
    <2>1. cur \in Step /\ completed \cup {cur} \in SUBSET Step
      BY <1>14, <1>d DEF StepPassed, Placed, AtStep
    <2>2. CASE PassOn(completed \cup {cur}) /\ pc' = "top" /\ UNCHANGED status
      BY <1>14, <2>1, <2>2, PassTyped, Members DEF StepPassed, TypeOK
    <2>3. CASE ~(PassOn(completed \cup {cur}) /\ pc' = "top" /\ UNCHANGED status)
      BY <1>14, <2>1, <2>3, Members DEF StepPassed, TypeOK
    <2> QED BY <2>2, <2>3
  <1>15. ASSUME StepFailed PROVE TypeOK'
    <2>1. cur \in Step /\ OnFail[cur] \in Step \cup {0}
      BY <1>15, Constants DEF StepFailed, Placed, AtStep
    <2>2. jumpBudget' \in [Step -> Nat]
      BY <1>15, CountsTyped DEF StepFailed
    <2>3. CASE CanFallBack
      BY <1>15, <1>d, <2>1, <2>2, <2>3, MoveTyped, Members DEF StepFailed, TypeOK
    <2>4. CASE ~CanFallBack
      BY <1>15, <2>2, <2>4, Members DEF StepFailed, TypeOK
    <2> QED BY <2>3, <2>4
  <1>16. ASSUME ReviewWakes PROVE TypeOK'
    BY <1>16, Members DEF ReviewWakes, TakeOffBus, PulledDecision, TypeOK
  <1>17. ASSUME ReviewWithdrawn PROVE TypeOK'
    <2>1. HistoryTyped
      <3>1. CASE reason = "human_review"
        BY <1>17, <3>1 DEF ReviewWithdrawn, ReviewOver, HistoryTyped, LeavesDecision
      <3>2. CASE reason # "human_review"
        BY <1>17, <3>2, HistoriesTyped DEF ReviewWithdrawn
      <3> QED BY <3>1, <3>2
    <2> QED
      BY <1>17, <2>1, Members
      DEF ReviewWithdrawn, ConsumeDecision, TypeOK, HistoryTyped
  <1>18. ASSUME HumanRejects PROVE TypeOK'
    <2>1. cur \in Step /\ OnFail[cur] \in Step \cup {0}
      BY <1>18, Constants DEF HumanRejects, Rejects, Placed, AtStep
    <2>2. jumpBudget' \in [Step -> Nat]
      BY <1>18, CountsTyped DEF HumanRejects
    <2>3. decision' = "none" /\ stored' = "none" /\ bus' = bus /\ HistoryTyped
      BY <1>18, HistoriesTyped DEF HumanRejects, Rejects, ConsumeDecision
    <2>4. CASE CanFallBack
      BY <1>18, <1>d, <2>1, <2>2, <2>3, <2>4, MoveTyped, Members
      DEF HumanRejects, TypeOK, HistoryTyped
    <2>5. CASE ~CanFallBack
      BY <1>18, <2>2, <2>3, <2>5, Members DEF HumanRejects, TypeOK, HistoryTyped
    <2> QED BY <2>4, <2>5
  <1>19. ASSUME ResultRejected PROVE TypeOK'
    BY <1>19, HistoriesTyped, Members
    DEF ResultRejected, Rejects, ConsumeDecision, TypeOK, HistoryTyped
  <1>20. ASSUME ReviewAgain PROVE TypeOK'
    BY <1>20, HistoriesTyped, Members
    DEF ReviewAgain, ConsumeDecision, TypeOK, HistoryTyped
  <1>21. ASSUME RetryAsDecided PROVE TypeOK'
    BY <1>21, CountsTyped, HistoriesTyped, Members
    DEF RetryAsDecided, ConsumeDecision, TypeOK, HistoryTyped
  <1>22. ASSUME HumanApproves PROVE TypeOK'
    <2>1. cur \in Step /\ completed \cup {cur} \in SUBSET Step
      BY <1>22, <1>d DEF HumanApproves, Placed, AtStep
    <2> QED
      BY <1>22, <2>1, PassTyped, HistoriesTyped, Members
      DEF HumanApproves, ConsumeDecision, TypeOK, HistoryTyped
  <1>23. ASSUME ResultApproved PROVE TypeOK'
    BY <1>23, HistoriesTyped, Members
    DEF ResultApproved, ConsumeDecision, TypeOK, HistoryTyped
  <1>24. ASSUME FinalizeTask PROVE TypeOK'
    <2>1. status' \in Status
      BY <1>24, Members DEF FinalizeTask, FinalStatus, Outcome, TypeOK
    <2> QED BY <1>24, <2>1, LocalsTyped, Members, Constants DEF FinalizeTask, TypeOK
  <1>25. ASSUME BeginResumedRun PROVE TypeOK'
    <2>1. CASE status = "completed"
      <3>1. LeaveLoop
        BY <1>25, <2>1 DEF BeginResumedRun
      <3>2. /\ pc' = "idle" /\ run' = "none" /\ cur' = 0 /\ loops' = 0
            /\ skip' = {} /\ retry' = 0 /\ jumpBudget' \in [Step -> Nat]
            /\ reason' = "human_review" /\ eventSet' \in BOOLEAN
            /\ UNCHANGED <<given, strays>>
        BY <3>1, LocalsTyped
      <3> QED BY <1>25, <2>1, <3>2, Members, Constants DEF BeginResumedRun, TypeOK
    <2>2. CASE status # "completed"
      BY <1>25, <2>2, <1>d, LocalsTyped, Members, Constants DEF BeginResumedRun, TypeOK
    <2> QED BY <2>1, <2>2
  <1>26. ASSUME BeginRerun PROVE TypeOK'
    <2> DEFINE kept == {s \in completed : s < cur}
    <2>1. kept \in SUBSET Step
      BY <1>d
    <2>2. completed' = kept /\ EnterLoop(kept)
      BY <1>26 DEF BeginRerun
    <2>3. /\ result' = [s \in Step |-> IF s < cur THEN result[s] ELSE "none"]
          /\ retryCounts' = [s \in Step |-> IF s < cur THEN retryCounts[s] ELSE 0]
      BY <1>26 DEF BeginRerun
    <2>4. \A s \in Step : result[s] \in Result /\ retryCounts[s] \in Nat
      BY DEF TypeOK
    <2>5. result' \in [Step -> Result]
      BY <2>3, <2>4, Members
    <2>6. retryCounts' \in [Step -> Nat]
      BY <2>3, <2>4
    <2> HIDE DEF kept
    <2> QED
      BY <1>26, <2>1, <2>2, <2>5, <2>6, LocalsTyped, Members, Constants
      DEF BeginRerun, TypeOK
  <1>27. ASSUME PauseTask PROVE TypeOK'
    BY <1>27, Members DEF PauseTask, SetEvent, TypeOK
  <1>28. ASSUME ResumeTask PROVE TypeOK'
    BY <1>28, Members DEF ResumeTask, SetEvent, Schedule, TypeOK, WakesWithoutOne
  <1>29. ASSUME CancelTask PROVE TypeOK'
    BY <1>29, HistoriesTyped, Members DEF CancelTask, SetEvent, TypeOK, HistoryTyped
  <1>30. ASSUME NEW d \in Decision, ApproveReview(d) PROVE TypeOK'
    BY <1>30, HistoriesTyped, Members
    DEF ApproveReview, Publish, SetEvent, Schedule, TypeOK, HistoryTyped
  <1>31. ASSUME NEW s \in Step, RetryNode(s) PROVE TypeOK'
    <2>1. /\ completed' = completed \ {s}
          /\ retryCounts' = [retryCounts EXCEPT ![s] = @ + 1]
          /\ result' = result \/ result' = [result EXCEPT ![s] = "none"]
      BY <1>31 DEF RetryNode
    <2>2. retryCounts' \in [Step -> Nat] /\ result' \in [Step -> Result]
      BY <2>1, Members DEF TypeOK
    <2>3. HistoryTyped
      BY <1>31 DEF RetryNode, HistoryTyped, TypeOK, WakesWithoutOne
    <2> QED
      BY <1>31, <2>1, <2>2, <2>3, Members DEF RetryNode, Schedule, TypeOK, HistoryTyped
  <1>32. ASSUME NEW s \in Step, ResumeFrom(s) PROVE TypeOK'
    BY <1>32 DEF ResumeFrom, Schedule, TypeOK
  <1>33. ASSUME NEW s \in Step, RerunFrom(s) PROVE TypeOK'
    BY <1>33 DEF RerunFrom, Schedule, TypeOK
  <1>34. ASSUME UNCHANGED vars PROVE TypeOK'
    BY <1>34 DEF vars, TypeOK
  <1> QED
    BY <1>1, <1>2, <1>3, <1>4, <1>5, <1>6, <1>7, <1>8, <1>9, <1>10, <1>11, <1>12,
       <1>13, <1>14, <1>15, <1>16, <1>17, <1>18, <1>19, <1>20, <1>21, <1>22, <1>23,
       <1>24, <1>25, <1>26, <1>27, <1>28, <1>29, <1>30, <1>31, <1>32, <1>33, <1>34
    DEF Next, Loop, Clients

LEMMA PlacedStep == TypeOK /\ Placed /\ [Next]_vars => Placed'
  <1> SUFFICES ASSUME TypeOK, Placed, [Next]_vars PROVE Placed'
    OBVIOUS
  <1> USE DEF record, published, locals, review, outsideAttempt, outsideOutcome, afterReview
  <1>1. CASE UNCHANGED <<pc, cur>>
    BY <1>1 DEF Placed
  <1>2. CASE pc' \notin AtStep \cup {"scheduled"}
    BY <1>2 DEF Placed
  <1>3. CASE pc \in AtStep /\ UNCHANGED cur
    BY <1>3 DEF Placed
  <1>4. CASE pc = "top" /\ cur # 0 /\ UNCHANGED cur
    BY <1>4 DEF TypeOK, Placed
  <1>5. CASE cur' \in Step
    BY <1>5 DEF Placed
  <1>6. ASSUME Loop PROVE \/ UNCHANGED <<pc, cur>>
                          \/ pc' \notin AtStep \cup {"scheduled"}
                          \/ pc \in AtStep /\ UNCHANGED cur
                          \/ pc = "top" /\ cur # 0 /\ UNCHANGED cur
    <2>1. CASE EndLoop \/ StopAtStep \/ SkipCompletedStep \/ SkipHumanReview
               \/ RequestHumanReview \/ StartStep
      BY <2>1 DEF EndLoop, StopAtStep, SkipCompletedStep, SkipHumanReview,
                  RequestHumanReview, StartStep, PassBegins, AtStep
    <2>2. CASE GiveUp \/ BackOff \/ Attempt \/ StepSucceeds \/ ChecksFail
               \/ StepTimesOut \/ StepRaises
      BY <2>2 DEF GiveUp, BackOff, Attempt, StepSucceeds, ChecksFail, StepTimesOut,
                  StepRaises, AtStep
    <2>3. CASE StepPassed \/ StepFailed
      BY <2>3 DEF StepPassed, StepFailed, AtStep
    <2>4. CASE ReviewWakes \/ ReviewWithdrawn \/ HumanRejects \/ ResultRejected
               \/ ReviewAgain \/ RetryAsDecided \/ HumanApproves \/ ResultApproved
      BY <2>4 DEF ReviewWakes, ReviewWithdrawn, HumanRejects, Rejects, ResultRejected,
                  ReviewAgain, RetryAsDecided, HumanApproves, ResultApproved, AtStep
    <2>5. CASE FinalizeTask \/ BeginResumedRun \/ BeginRerun
      BY <2>5 DEF FinalizeTask, BeginResumedRun, BeginRerun, LeaveLoop, EnterLoop,
                  AtStep
    <2> QED BY <1>6, <2>1, <2>2, <2>3, <2>4, <2>5 DEF Loop
  <1>7. ASSUME Clients PROVE UNCHANGED <<pc, cur>> \/ cur' \in Step
    <2>1. currentStep \in Step
      BY DEF TypeOK
    <2> QED
      BY <1>7, <2>1 DEF Clients, PauseTask, ResumeTask, CancelTask, ApproveReview,
                        RetryNode, ResumeFrom, RerunFrom, Schedule
  <1> QED BY <1>1, <1>2, <1>3, <1>4, <1>5, <1>6, <1>7 DEF Next, vars

LEMMA StartTyped == Init => TypeOK /\ Placed
  <1> SUFFICES ASSUME Init PROVE TypeOK /\ Placed
    OBVIOUS
  <1>1. jumpBudget \in [Step -> Nat] /\ retryCounts \in [Step -> Nat]
    BY DEF Init
  <1>2. result \in [Step -> Result]
    BY Members DEF Init
  <1>e. eventSet \in BOOLEAN
    BY DEF Init
  <1>3. TypeOK
    BY <1>1, <1>2, <1>e, Constants, Members DEF Init, TypeOK
  <1>4. Placed
    BY Constants DEF Init, Placed
  <1> QED BY <1>3, <1>4

(* Every variable keeps its type, and a run that works on a step always    *)
(* has one: the route never leads it off the registry.                     *)
THEOREM TypeCorrect == Spec => [](TypeOK /\ Placed)
  <1>1. TypeOK /\ Placed /\ [Next]_vars => (TypeOK /\ Placed)'
    BY TypeStep, PlacedStep
  <1> QED BY StartTyped, <1>1, PTL DEF Spec

----------------------------------------------------------------------------
(* CompletedStepNotRedone.  What keeps a completed step from being         *)
(* executed is skip_steps, a copy made when the run began: it has to hold  *)
(* all records from the current step on, although records are added and    *)
(* dropped all the time.                                                   *)

Ahead == pc \in AtStep \cup {"top"} /\ cur # 0 =>
           \A s \in completed : s >= cur => s \in skip

Fresh == pc \in AtStep => cur \notin completed

NotRedone == Ahead /\ Fresh

\* Moving on, or back, leaves no record ahead but those of skip_steps.
LEMMA MoveKeepsAhead ==
  ASSUME TypeOK, cur \in Step, NEW target \in Step \cup {0}, NEW done \in SUBSET Step,
         MoveTo(target, done), UNCHANGED skip,
         \A s \in done \ {cur} : s >= cur => s \in skip,
         cur \in done \ skip => target # cur
  PROVE  cur' # 0 => \A s \in completed' : s >= cur' => s \in skip'
  <1>1. cur \in Nat \ {0} /\ target \in Nat /\ \A s \in done : s \in Nat
    BY Constants
  <1>2. CASE target \in 1..(cur - 1)
    BY <1>1, <1>2 DEF MoveTo
  <1>3. CASE target \notin 1..(cur - 1)
    BY <1>1, <1>3 DEF MoveTo
  <1> QED BY <1>2, <1>3

LEMMA PassKeepsAhead ==
  ASSUME TypeOK, cur \in Step, NEW done \in SUBSET Step, PassOn(done), UNCHANGED skip,
         \A s \in done \ {cur} : s >= cur => s \in skip
  PROVE  cur' # 0 => \A s \in completed' : s >= cur' => s \in skip'
  <1>1. PICK target \in OnPass[cur] : MoveTo(target, done)
    BY DEF PassOn
  <1>2. target \in Step \cup {0} /\ target # cur
    BY <1>1, StepLoopAssumption
  <1> QED BY <1>1, <1>2, MoveKeepsAhead

LEMMA NotRedoneStep == TypeOK /\ Placed /\ NotRedone /\ [Next]_vars => NotRedone'
  <1> SUFFICES ASSUME TypeOK, Placed, NotRedone, [Next]_vars PROVE NotRedone'
    OBVIOUS
  <1> USE DEF record, published, locals, review, outsideAttempt, outsideOutcome, afterReview
  <1> DEFINE Working == AtStep \cup {"top"}
  <1>a. completed \in SUBSET Step /\ (cur \in Step => completed \cup {cur} \in SUBSET Step)
    BY DEF TypeOK
  <1>b. cur \in Step => cur # 0 /\ cur \in Nat
    BY Constants
  \* Steps that leave the records, or take some away, where they stand.
  <1>c. CASE /\ completed' \subseteq completed /\ UNCHANGED <<cur, skip>>
             /\ (pc' \in AtStep => pc \in AtStep)
             /\ (pc' = "top" => pc \in Working)
    BY <1>c DEF NotRedone, Ahead, Fresh
  <1>d. CASE pc' \notin Working
    BY <1>d DEF NotRedone, Ahead, Fresh
  <1>1. ASSUME EndLoop \/ StopAtStep PROVE NotRedone'
    BY <1>1, <1>d DEF EndLoop, StopAtStep, AtStep
  <1>2. ASSUME SkipCompletedStep \/ SkipHumanReview PROVE NotRedone'
    <2>1. pc = "top" /\ pc' = "top" /\ cur \in Step /\ UNCHANGED skip
      BY <1>2 DEF SkipCompletedStep, SkipHumanReview, PassBegins, TypeOK
    <2>2. PassOn(completed) \/ PassOn(completed \cup {cur})
      BY <1>2 DEF SkipCompletedStep, SkipHumanReview
    <2>3. \A s \in completed : s >= cur => s \in skip
      BY <2>1, <1>b DEF NotRedone, Ahead
    <2>4. cur' # 0 => \A s \in completed' : s >= cur' => s \in skip'
      BY <1>a, <2>1, <2>2, <2>3, PassKeepsAhead
    <2> QED BY <2>1, <2>4 DEF NotRedone, Ahead, Fresh, AtStep
  <1>3. ASSUME RequestHumanReview \/ StartStep PROVE NotRedone'
    <2>1. /\ pc = "top" /\ cur \in Step /\ cur \notin skip
          /\ UNCHANGED <<cur, completed, skip>>
      BY <1>3 DEF RequestHumanReview, StartStep, PassBegins, TypeOK
    <2>2. \A s \in completed : s >= cur => s \in skip
      BY <2>1, <1>b DEF NotRedone, Ahead
    <2>3. cur \notin completed
      BY <2>1, <2>2, <1>b
    <2> QED BY <2>1, <2>2, <2>3 DEF NotRedone, Ahead, Fresh
  <1>4. ASSUME GiveUp \/ BackOff \/ Attempt \/ StepSucceeds PROVE NotRedone'
    BY <1>4, <1>c DEF GiveUp, BackOff, Attempt, StepSucceeds, AtStep
  <1>5. ASSUME ChecksFail \/ StepTimesOut \/ StepRaises PROVE NotRedone'
    BY <1>5, <1>c DEF ChecksFail, StepTimesOut, StepRaises, AtStep
  <1>6. ASSUME StepPassed PROVE NotRedone'
    <2>1. CASE PassOn(completed \cup {cur}) /\ pc' = "top"
      <3>1. pc = "passed" /\ cur \in Step /\ UNCHANGED skip
        BY <1>6 DEF StepPassed, Placed, AtStep
      <3>2. \A s \in (completed \cup {cur}) \ {cur} : s >= cur => s \in skip
        BY <3>1, <1>b DEF NotRedone, Ahead, AtStep
      <3>3. cur' # 0 => \A s \in completed' : s >= cur' => s \in skip'
        BY <1>a, <2>1, <3>1, <3>2, PassKeepsAhead
      <3> QED BY <2>1, <3>3 DEF NotRedone, Ahead, Fresh, AtStep
    <2>2. CASE pc' = "ending"
      BY <2>2, <1>d DEF AtStep
    <2> QED BY <1>6, <2>1, <2>2 DEF StepPassed
  <1>7. ASSUME StepFailed \/ HumanRejects PROVE NotRedone'
    <2>1. /\ pc \in AtStep /\ cur \in Step /\ UNCHANGED skip
          /\ OnFail[cur] \in Step \cup {0}
      BY <1>7, Constants DEF StepFailed, HumanRejects, Rejects, Placed, AtStep
    <2>2. CASE MoveTo(OnFail[cur], completed) /\ pc' = "top"
      <3>1. \A s \in completed : s >= cur => s \in skip
        BY <2>1, <1>b DEF NotRedone, Ahead
      <3>2. cur \notin completed
        BY <2>1 DEF NotRedone, Fresh
      <3>3. cur' # 0 => \A s \in completed' : s >= cur' => s \in skip'
        BY <1>a, <2>1, <2>2, <3>1, <3>2, MoveKeepsAhead
      <3> QED BY <2>2, <3>3 DEF NotRedone, Ahead, Fresh, AtStep
    <2>3. CASE pc' = "ending"
      BY <2>3, <1>d DEF AtStep
    <2> QED BY <1>7, <2>2, <2>3 DEF StepFailed, HumanRejects
  <1>8. ASSUME ReviewWakes \/ ReviewWithdrawn \/ ResultRejected \/ ReviewAgain
               \/ RetryAsDecided \/ ResultApproved
        PROVE  NotRedone'
    <2>1. UNCHANGED <<completed, cur, skip>> /\ pc \in AtStep
      BY <1>8 DEF ReviewWakes, ReviewWithdrawn, ResultRejected, Rejects, ReviewAgain,
                  RetryAsDecided, ResultApproved, AtStep
    <2> QED BY <2>1, <1>c
  <1>9. ASSUME HumanApproves PROVE NotRedone'
    <2>1. /\ pc = "decided" /\ cur \in Step /\ UNCHANGED skip
          /\ PassOn(completed \cup {cur}) /\ pc' = "top"
      BY <1>9 DEF HumanApproves, Placed, AtStep
    <2>2. \A s \in (completed \cup {cur}) \ {cur} : s >= cur => s \in skip
      BY <2>1, <1>b DEF NotRedone, Ahead, AtStep
    <2>3. cur' # 0 => \A s \in completed' : s >= cur' => s \in skip'
      BY <1>a, <2>1, <2>2, PassKeepsAhead
    <2> QED BY <2>1, <2>3 DEF NotRedone, Ahead, Fresh, AtStep
  <1>10. ASSUME FinalizeTask PROVE NotRedone'
    BY <1>10, <1>d DEF FinalizeTask, LeaveLoop, AtStep
  <1>11. ASSUME BeginResumedRun \/ BeginRerun PROVE NotRedone'
    <2>1. \/ pc' = "idle"
          \/ pc' = "top" /\ skip' = completed'
      BY <1>11 DEF BeginResumedRun, BeginRerun, LeaveLoop, EnterLoop
    <2> QED BY <2>1 DEF NotRedone, Ahead, Fresh, AtStep
  <1>12. ASSUME PauseTask \/ CancelTask PROVE NotRedone'
    BY <1>12, <1>c DEF PauseTask, CancelTask
  <1>13. ASSUME ResumeTask PROVE NotRedone'
    <2>1. UNCHANGED <<completed, skip>> /\ (UNCHANGED <<pc, cur>> \/ pc' = "scheduled")
      BY <1>13 DEF ResumeTask, Schedule
    <2> QED BY <2>1, <1>c, <1>d DEF AtStep
  <1>14. ASSUME NEW d \in Decision, ApproveReview(d) PROVE NotRedone'
    <2>1. UNCHANGED <<completed, skip>> /\ (UNCHANGED <<pc, cur>> \/ pc' = "scheduled")
      BY <1>14 DEF ApproveReview, Schedule
    <2> QED BY <2>1, <1>c, <1>d DEF AtStep
  <1>15. ASSUME NEW s \in Step, RetryNode(s) \/ ResumeFrom(s) \/ RerunFrom(s)
         PROVE  NotRedone'
    <2>1. /\ completed' \subseteq completed /\ UNCHANGED skip
          /\ UNCHANGED <<pc, cur>> \/ pc' = "scheduled"
      BY <1>15 DEF RetryNode, ResumeFrom, RerunFrom, Schedule
    <2> QED BY <2>1, <1>c, <1>d DEF AtStep
  <1>16. ASSUME UNCHANGED vars PROVE NotRedone'
    BY <1>16, <1>c DEF vars
  <1> QED
    BY <1>1, <1>2, <1>3, <1>4, <1>5, <1>6, <1>7, <1>8, <1>9, <1>10, <1>11, <1>12,
       <1>13, <1>14, <1>15, <1>16
    DEF Next, Loop, Clients

(* However a task is driven back along its routes, paused, resumed and     *)
(* re-run, and whatever its registry, a step whose completion is recorded  *)
(* is not executed again.                                                  *)
THEOREM CompletedStepsStay == Spec => []CompletedStepNotRedone
  <1>1. Init => NotRedone
    BY DEF Init, NotRedone, Ahead, Fresh, AtStep
  <1>2. TypeOK /\ Placed /\ NotRedone /\ [Next]_vars => NotRedone'
    BY NotRedoneStep
  <1>3. NotRedone => CompletedStepNotRedone
    BY DEF NotRedone, Fresh, CompletedStepNotRedone, AtStep
  <1> QED BY TypeCorrect, <1>1, <1>2, <1>3, PTL DEF Spec

----------------------------------------------------------------------------
(* DoneMeansSucceeded.  A record is made when the retry loop says that the *)
(* step passed, so what passed has to be a success; and the result of a    *)
(* recorded step may change only with its record: no attempt touches it,   *)
(* by Fresh, and jumps and re-runs drop both.                              *)

Reviewing == {"review", "decided", "withdrawn"}

(* Only human_review steps are reviewed outside manual mode, and the       *)
(* review says so.                                                         *)
ReviewsKnown ==
  pc \in Reviewing => /\ reason = "human_review" <=> cur \in Human
                      /\ Mode # "manual" => cur \in Human

OrdinaryAt ==
  pc \in AtStep \ Reviewing => cur \notin Human

PassedMeansSucceeded ==
  Mode # "manual" /\ pc = "passed" /\ cur \notin SystemCheck => result[cur] = "success"

Earned == ReviewsKnown /\ OrdinaryAt /\ PassedMeansSucceeded /\ DoneMeansSucceeded

\* A move drops results and records together, and makes no result.
LEMMA MoveKeepsDone ==
  ASSUME TypeOK, NEW target \in Step \cup {0}, NEW done \in SUBSET Step,
         MoveTo(target, done),
         \A s \in done \ (Human \cup SystemCheck) : result[s] = "success"
  PROVE  \A s \in completed' \ (Human \cup SystemCheck) : result'[s] = "success"
  <1>1. CASE target \in 1..(cur - 1)
    <2>1. /\ completed' = {s \in done : s < target}
          /\ result' = [s \in Step |-> IF s < target THEN result[s] ELSE "none"]
      BY <1>1 DEF MoveTo
    <2> QED BY <2>1
  <1>2. CASE target \notin 1..(cur - 1)
    BY <1>2 DEF MoveTo
  <1> QED BY <1>1, <1>2

LEMMA PassKeepsDone ==
  ASSUME TypeOK, cur \in Step, NEW done \in SUBSET Step, PassOn(done),
         \A s \in done \ (Human \cup SystemCheck) : result[s] = "success"
  PROVE  \A s \in completed' \ (Human \cup SystemCheck) : result'[s] = "success"
  <1>1. PICK target \in OnPass[cur] : MoveTo(target, done)
    BY DEF PassOn
  <1>2. target \in Step \cup {0}
    BY <1>1, Constants
  <1> QED BY <1>1, <1>2, MoveKeepsDone

LEMMA EarnedStep ==
  TypeOK /\ Placed /\ NotRedone /\ Earned /\ [Next]_vars => Earned'
  <1> SUFFICES ASSUME TypeOK, Placed, NotRedone, Earned, [Next]_vars PROVE Earned'
    OBVIOUS
  <1> USE DEF record, published, locals, review, outsideAttempt, outsideOutcome, afterReview
  <1>a. completed \in SUBSET Step /\ (cur \in Step => completed \cup {cur} \in SUBSET Step)
    BY DEF TypeOK
  <1>b. Mode # "manual" => \A s \in completed \ (Human \cup SystemCheck) : result[s] = "success"
    BY DEF Earned, DoneMeansSucceeded
  \* Steps that change no result, make no record and leave the loop where it is.
  <1>c. CASE /\ completed' \subseteq completed /\ UNCHANGED <<pc, cur, result, reason>>
    BY <1>c DEF Earned, ReviewsKnown, OrdinaryAt, PassedMeansSucceeded, DoneMeansSucceeded
  \* Steps that leave the step.
  <1>d. CASE /\ pc' \notin AtStep
             /\ Mode # "manual" =>
                  \A s \in completed' \ (Human \cup SystemCheck) : result'[s] = "success"
    BY <1>d DEF Earned, ReviewsKnown, OrdinaryAt, PassedMeansSucceeded,
                DoneMeansSucceeded, AtStep, Reviewing
  \* Attempts, which may change the result of the current step.
  <1>e. CASE /\ pc \in AtStep \ Reviewing /\ pc' \in AtStep \ (Reviewing \cup {"passed"})
             /\ UNCHANGED <<cur, completed>>
             /\ \A s \in Step \ {cur} : result'[s] = result[s]
    BY <1>a, <1>b, <1>e DEF Earned, ReviewsKnown, OrdinaryAt, PassedMeansSucceeded,
       DoneMeansSucceeded, AtStep, Reviewing, NotRedone, Fresh
  <1>f. \A r : Record(r) => \A s \in Step \ {cur} : result'[s] = result[s]
    BY DEF Record, TypeOK
  <1>1. ASSUME EndLoop \/ StopAtStep PROVE Earned'
    BY <1>1, <1>b, <1>d DEF EndLoop, StopAtStep, AtStep
  <1>2. ASSUME SkipCompletedStep \/ SkipHumanReview PROVE Earned'
    <2>1. pc' = "top" /\ cur \in Step
      BY <1>2 DEF SkipCompletedStep, SkipHumanReview, PassBegins, TypeOK
    <2>2. PassOn(completed) \/ (PassOn(completed \cup {cur}) /\ cur \in Human)
      BY <1>2 DEF SkipCompletedStep, SkipHumanReview
    <2>3. Mode # "manual" =>
            \A s \in completed' \ (Human \cup SystemCheck) : result'[s] = "success"
      BY <1>a, <1>b, <2>1, <2>2, PassKeepsDone
    <2> QED BY <2>1, <2>3, <1>d DEF AtStep
  <1>3. ASSUME RequestHumanReview PROVE Earned'
    <2>1. /\ cur \in Human /\ reason' = "human_review" /\ pc' \in {"decided", "review"}
          /\ UNCHANGED <<cur, completed, result>>
      BY <1>3 DEF RequestHumanReview, AwaitReview
    <2> QED BY <2>1, <1>b DEF Earned, ReviewsKnown, OrdinaryAt, PassedMeansSucceeded,
                              DoneMeansSucceeded, AtStep, Reviewing
  <1>4. ASSUME StartStep PROVE Earned'
    <2>1. /\ cur \notin Human /\ pc' = "attempting"
          /\ UNCHANGED <<cur, completed, result>>
      BY <1>4 DEF StartStep
    <2> QED BY <2>1, <1>b DEF Earned, ReviewsKnown, OrdinaryAt, PassedMeansSucceeded,
                              DoneMeansSucceeded, AtStep, Reviewing
  <1>5. ASSUME GiveUp \/ BackOff PROVE Earned'
    BY <1>5, <1>e DEF GiveUp, BackOff, AtStep, Reviewing
  <1>6. ASSUME Attempt PROVE Earned'
    <2>1. CASE pc' = "passed"
      <3>1. /\ cur \in SystemCheck /\ pc \in AtStep \ Reviewing
            /\ UNCHANGED <<cur, completed, result>>
        BY <1>6, <2>1 DEF Attempt, AtStep, Reviewing
      <3> QED BY <2>1, <3>1, <1>b DEF Earned, ReviewsKnown, OrdinaryAt,
                   PassedMeansSucceeded, DoneMeansSucceeded, AtStep, Reviewing
    <2>2. CASE pc' # "passed"
      BY <1>6, <2>2, <1>e, <1>f DEF Attempt, AtStep, Reviewing
    <2> QED BY <2>1, <2>2
  <1>7. ASSUME StepSucceeds PROVE Earned'
    <2>1. /\ pc = "attempt" /\ pc' = "passed" /\ cur \in Step
          /\ UNCHANGED <<cur, completed>>
          /\ result' = [result EXCEPT ![cur] = "success"]
      BY <1>7 DEF StepSucceeds, Record, Placed, AtStep
    <2>2. result'[cur] = "success" /\ \A s \in Step \ {cur} : result'[s] = result[s]
      BY <2>1 DEF TypeOK
    <2> QED BY <2>1, <2>2, <1>a, <1>b DEF Earned, ReviewsKnown, OrdinaryAt,
                 PassedMeansSucceeded, DoneMeansSucceeded, AtStep, Reviewing
  <1>8. ASSUME ChecksFail PROVE Earned'
    <2>1. /\ pc = "attempt" /\ UNCHANGED <<cur, completed>>
          /\ \A s \in Step \ {cur} : result'[s] = result[s]
      BY <1>8, <1>f DEF ChecksFail
    <2>2. CASE Mode = "manual"
      <3>1. reason' = "check_failed" /\ pc' \in {"decided", "review"}
        BY <1>8, <2>2 DEF ChecksFail, AwaitReview
      <3> QED BY <2>1, <2>2, <3>1 DEF Earned, ReviewsKnown, OrdinaryAt,
                   PassedMeansSucceeded, DoneMeansSucceeded, AtStep, Reviewing
    <2>3. CASE Mode # "manual"
      <3>1. pc' \in {"attempting", "exhausted"}
        BY <1>8, <2>3 DEF ChecksFail, RetryOr, Exhaust
      <3> QED BY <2>1, <3>1, <1>e DEF AtStep, Reviewing
    <2> QED BY <2>2, <2>3
  <1>9. ASSUME StepTimesOut PROVE Earned'
    <2>1. /\ pc = "attempt" /\ UNCHANGED <<cur, completed>>
          /\ \A s \in Step \ {cur} : result'[s] = result[s]
      BY <1>9, <1>f DEF StepTimesOut
    <2>2. pc' \in {"attempting", "exhausted"}
      BY <1>9 DEF StepTimesOut, RetryOr, Exhaust
    <2> QED BY <2>1, <2>2, <1>e DEF AtStep, Reviewing
  <1>10. ASSUME StepRaises PROVE Earned'
    <2>1. /\ pc = "attempt" /\ UNCHANGED <<cur, completed>>
          /\ \A s \in Step \ {cur} : result'[s] = result[s]
      BY <1>10, <1>f DEF StepRaises
    <2>2. \/ pc' \in {"attempting", "exhausted"}
          \/ /\ Mode = "manual" /\ reason' = "retries_exhausted"
             /\ pc' \in {"decided", "review"}
      BY <1>10 DEF StepRaises, RetryOr, Exhaust, AwaitReview
    <2>3. CASE pc' \in {"attempting", "exhausted"}
      BY <2>1, <2>3, <1>e DEF AtStep, Reviewing
    <2>4. CASE /\ Mode = "manual" /\ reason' = "retries_exhausted"
               /\ pc' \in {"decided", "review"}
      BY <2>1, <2>4 DEF Earned, ReviewsKnown, OrdinaryAt,
           PassedMeansSucceeded, DoneMeansSucceeded, AtStep, Reviewing
    <2> QED BY <2>2, <2>3, <2>4
  <1>11. ASSUME StepPassed PROVE Earned'
    <2>1. pc = "passed" /\ cur \in Step /\ cur \notin Human /\ pc' \in {"top", "ending"}
      BY <1>11 DEF StepPassed, Placed, AtStep, Earned, OrdinaryAt, Reviewing
    <2>2. Mode # "manual" =>
            \A s \in (completed \cup {cur}) \ (Human \cup SystemCheck) : result[s] = "success"
      BY <2>1, <1>b DEF Earned, PassedMeansSucceeded
    <2>3. \/ PassOn(completed \cup {cur})
          \/ completed' = completed \cup {cur} /\ UNCHANGED result
      BY <1>11 DEF StepPassed
    <2>4. Mode # "manual" =>
            \A s \in completed' \ (Human \cup SystemCheck) : result'[s] = "success"
      BY <1>a, <2>1, <2>2, <2>3, PassKeepsDone
    <2> QED BY <2>1, <2>4, <1>d DEF AtStep
  <1>12. ASSUME StepFailed \/ HumanRejects PROVE Earned'
    <2>1. cur \in Step /\ OnFail[cur] \in Step \cup {0} /\ pc' \in {"top", "ending"}
      BY <1>12, Constants DEF StepFailed, HumanRejects, Rejects, Placed, AtStep
    <2>2. MoveTo(OnFail[cur], completed) \/ UNCHANGED <<completed, result>>
      BY <1>12 DEF StepFailed, HumanRejects
    <2>3. Mode # "manual" =>
            \A s \in completed' \ (Human \cup SystemCheck) : result'[s] = "success"
      BY <1>a, <1>b, <2>1, <2>2, MoveKeepsDone
    <2> QED BY <2>1, <2>3, <1>d DEF AtStep
  <1>13. ASSUME ReviewWakes PROVE Earned'
    <2>1. /\ pc = "review" /\ pc' \in {"withdrawn", "decided"}
          /\ UNCHANGED <<cur, completed, result, reason>>
      BY <1>13 DEF ReviewWakes
    <2> QED BY <2>1 DEF Earned, ReviewsKnown, OrdinaryAt,
                 PassedMeansSucceeded, DoneMeansSucceeded, AtStep, Reviewing
  <1>14. ASSUME ReviewWithdrawn \/ ResultRejected \/ ReviewAgain PROVE Earned'
    <2>1. pc' \in {"top", "ending"} /\ UNCHANGED <<completed, result>>
      BY <1>14 DEF ReviewWithdrawn, ResultRejected, ReviewAgain
    <2> QED BY <2>1, <1>b, <1>d DEF AtStep
  <1>15. ASSUME RetryAsDecided \/ ResultApproved PROVE Earned'
    <2>1. /\ pc = "decided" /\ reason # "human_review" /\ pc' \in {"attempting", "passed"}
          /\ UNCHANGED <<cur, completed, result>>
      BY <1>15 DEF RetryAsDecided, ResultApproved
    <2>2. Mode = "manual" /\ cur \notin Human
      BY <2>1 DEF Earned, ReviewsKnown, Reviewing
    <2> QED BY <2>1, <2>2 DEF Earned, ReviewsKnown, OrdinaryAt,
                 PassedMeansSucceeded, DoneMeansSucceeded, AtStep, Reviewing
  <1>16. ASSUME HumanApproves PROVE Earned'
    <2>1. /\ pc = "decided" /\ reason = "human_review" /\ pc' = "top" /\ cur \in Step
          /\ PassOn(completed \cup {cur})
      BY <1>16 DEF HumanApproves, Placed, AtStep
    <2>2. cur \in Human
      BY <2>1 DEF Earned, ReviewsKnown, Reviewing
    <2>3. Mode # "manual" =>
            \A s \in completed' \ (Human \cup SystemCheck) : result'[s] = "success"
      BY <1>a, <1>b, <2>1, <2>2, PassKeepsDone
    <2> QED BY <2>1, <2>3, <1>d DEF AtStep
  <1>17. ASSUME FinalizeTask \/ BeginResumedRun PROVE Earned'
    <2>1. pc' \in {"idle", "top"} /\ UNCHANGED <<completed, result>>
      BY <1>17 DEF FinalizeTask, BeginResumedRun, LeaveLoop, EnterLoop
    <2> QED BY <2>1, <1>b, <1>d DEF AtStep
  <1>18. ASSUME BeginRerun PROVE Earned'
    <2>1. /\ pc' = "top" /\ completed' = {s \in completed : s < cur}
          /\ result' = [s \in Step |-> IF s < cur THEN result[s] ELSE "none"]
      BY <1>18 DEF BeginRerun, EnterLoop
    <2>2. Mode # "manual" =>
            \A s \in completed' \ (Human \cup SystemCheck) : result'[s] = "success"
      BY <1>a, <1>b, <2>1
    <2> QED BY <2>1, <2>2, <1>d DEF AtStep
  <1>19. ASSUME PauseTask \/ CancelTask PROVE Earned'
    BY <1>19, <1>c DEF PauseTask, CancelTask, SetEvent
  <1>20. ASSUME ResumeTask PROVE Earned'
    <2>1. /\ UNCHANGED <<completed, result, reason>>
          /\ UNCHANGED <<pc, cur>> \/ pc' = "scheduled"
      BY <1>20 DEF ResumeTask, Schedule, SetEvent
    <2> QED BY <2>1, <1>b, <1>c, <1>d DEF AtStep
  <1>21. ASSUME NEW d \in Decision, ApproveReview(d) PROVE Earned'
    <2>1. /\ UNCHANGED <<completed, result, reason>>
          /\ UNCHANGED <<pc, cur>> \/ pc' = "scheduled"
      BY <1>21 DEF ApproveReview, Schedule, SetEvent
    <2> QED BY <2>1, <1>b, <1>c, <1>d DEF AtStep
  <1>22. ASSUME NEW s \in Step, RetryNode(s) PROVE Earned'
    <2>1. CASE Executing
      BY <1>22, <2>1, <1>c DEF RetryNode
    <2>2. CASE ~Executing
      <3>1. /\ pc' = "scheduled" /\ completed' = completed \ {s}
            /\ result' = [result EXCEPT ![s] = "none"]
        BY <1>22, <2>2 DEF RetryNode, Schedule
      <3>2. \A t \in completed' : result'[t] = result[t]
        BY <3>1, <1>a DEF TypeOK
      <3> QED BY <3>1, <3>2, <1>b, <1>d DEF AtStep
    <2> QED BY <2>1, <2>2
  <1>23. ASSUME NEW s \in Step, ResumeFrom(s) \/ RerunFrom(s) PROVE Earned'
    <2>1. pc' = "scheduled" /\ UNCHANGED <<completed, result>>
      BY <1>23 DEF ResumeFrom, RerunFrom, Schedule
    <2> QED BY <2>1, <1>b, <1>d DEF AtStep
  <1>24. ASSUME UNCHANGED vars PROVE Earned'
    BY <1>24, <1>c DEF vars
  <1> QED
    BY <1>1, <1>2, <1>3, <1>4, <1>5, <1>6, <1>7, <1>8, <1>9, <1>10, <1>11, <1>12,
       <1>13, <1>14, <1>15, <1>16, <1>17, <1>18, <1>19, <1>20, <1>21, <1>22, <1>23,
       <1>24
    DEF Next, Loop, Clients

(* Outside manual mode the record of an ordinary step is worth its name:   *)
(* the last thing the step did was to succeed.                             *)
THEOREM DoneStepsSucceeded == Spec => []DoneMeansSucceeded
  <1>1. Init => NotRedone /\ Earned
    BY DEF Init, NotRedone, Ahead, Fresh, AtStep, Earned, ReviewsKnown, OrdinaryAt,
           PassedMeansSucceeded, DoneMeansSucceeded, Reviewing
  <1>2. TypeOK /\ Placed /\ NotRedone /\ Earned /\ [Next]_vars => (NotRedone /\ Earned)'
    BY NotRedoneStep, EarnedStep
  <1>3. Earned => DoneMeansSucceeded
    BY DEF Earned
  <1> QED BY TypeCorrect, <1>1, <1>2, <1>3, PTL DEF Spec

----------------------------------------------------------------------------
(* GivenUpAfterAttempt.  retry_counts outlives the run: a step must not    *)
(* carry its count to a time when it has no result.  The call that retries *)
(* a step does carry it, so nobody makes it here.                          *)

Counted == \A s \in Step : retryCounts[s] > 0 => result[s] # "none"

Tried ==
  /\ pc \in {"attempting", "backoff", "attempt"} /\ retry > 0 => result[cur] # "none"
  /\ pc = "exhausted" => result[cur] # "none"
  /\ pc \in Reviewing /\ reason # "human_review" => result[cur] # "none"

LEMMA MoveKeepsCounted ==
  ASSUME TypeOK, Counted, NEW target, NEW done, MoveTo(target, done)
  PROVE  Counted'
  <1>1. CASE target \in 1..(cur - 1)
    <2>1. /\ result' = [s \in Step |-> IF s < target THEN result[s] ELSE "none"]
          /\ retryCounts' = [s \in Step |-> IF s < target THEN retryCounts[s] ELSE 0]
      BY <1>1 DEF MoveTo
    <2> QED BY <2>1 DEF Counted
  <1>2. CASE target \notin 1..(cur - 1)
    BY <1>2 DEF MoveTo, Counted
  <1> QED BY <1>1, <1>2

LEMMA TriedStep ==
  ASSUME "retry" \notin Calls, TypeOK, Placed, Counted, Tried, [Next]_vars
  PROVE  Counted' /\ Tried'
  <1> USE DEF record, published, locals, review, outsideAttempt, outsideOutcome, afterReview
  \* Steps that leave result and count of the current step as they are.
  <1>a. CASE UNCHANGED <<result, retryCounts, retry, cur, pc, reason>>
    BY <1>a DEF Counted, Tried
  \* Steps that leave the step.
  <1>b. CASE Counted' /\ pc' \notin AtStep
    BY <1>b DEF Tried, AtStep, Reviewing
  <1>c. CASE UNCHANGED <<result, retryCounts>> /\ pc' \notin AtStep
    BY <1>b, <1>c DEF Counted
  \* The result of an attempt.
  <1>d. ASSUME cur \in Step, NEW r \in Result \ {"none"}, Record(r),
               \/ UNCHANGED retryCounts
               \/ CountRetry
        PROVE  Counted' /\ result'[cur] # "none"
    <2>1. /\ result'[cur] = r
          /\ \A s \in Step \ {cur} : result'[s] = result[s] /\ retryCounts'[s] = retryCounts[s]
      BY <1>d DEF Record, CountRetry, TypeOK
    <2> QED BY <2>1, <1>d DEF Counted
  <1>1. ASSUME EndLoop \/ StopAtStep PROVE Counted' /\ Tried'
    BY <1>1, <1>c DEF EndLoop, StopAtStep, AtStep
  <1>2. ASSUME SkipCompletedStep \/ SkipHumanReview PROVE Counted' /\ Tried'
    <2>1. pc' = "top" /\ Counted'
      BY <1>2, MoveKeepsCounted
      DEF SkipCompletedStep, SkipHumanReview, PassBegins, PassOn
    <2> QED BY <2>1, <1>b DEF AtStep
  <1>3. ASSUME RequestHumanReview PROVE Counted' /\ Tried'
    <2>1. /\ reason' = "human_review" /\ pc' \in {"decided", "review"}
          /\ UNCHANGED <<result, retryCounts>>
      BY <1>3 DEF RequestHumanReview, AwaitReview
    <2> QED BY <2>1 DEF Counted, Tried, Reviewing
  <1>4. ASSUME StartStep PROVE Counted' /\ Tried'
    <2>1. /\ pc' = "attempting" /\ retry' = retryCounts[cur] /\ cur \in Step
          /\ UNCHANGED <<cur, result, retryCounts>>
      BY <1>4 DEF StartStep, PassBegins, TypeOK
    <2> QED BY <2>1 DEF Counted, Tried, Reviewing
  <1>5. ASSUME GiveUp PROVE Counted' /\ Tried'
    <2>1. /\ pc = "attempting" /\ retry > 0 /\ pc' = "exhausted"
          /\ UNCHANGED <<cur, result, retryCounts>>
      BY <1>5, Constants DEF GiveUp, Placed, AtStep, TypeOK
    <2> QED BY <2>1 DEF Counted, Tried, Reviewing
  <1>6. ASSUME BackOff PROVE Counted' /\ Tried'
    <2>1. /\ pc = "attempting" /\ pc' = "backoff"
          /\ UNCHANGED <<cur, result, retryCounts, retry>>
      BY <1>6 DEF BackOff
    <2> QED BY <2>1 DEF Counted, Tried, Reviewing
  <1>7. ASSUME Attempt PROVE Counted' /\ Tried'
    <2>1. /\ pc \in {"attempting", "backoff"} /\ cur \in Step
          /\ UNCHANGED <<cur, retryCounts, retry>>
      BY <1>7 DEF Attempt, Placed, AtStep
    <2>2. CASE pc' \in {"attempt", "passed"} /\ UNCHANGED result
      BY <2>1, <2>2 DEF Counted, Tried, Reviewing
    <2>3. CASE pc' = "exhausted" /\ Record("error")
      BY <2>1, <2>3, <1>d, Members DEF Tried, Reviewing
    <2> QED BY <1>7, <2>2, <2>3 DEF Attempt
  <1>8. ASSUME StepSucceeds PROVE Counted' /\ Tried'
    <2>1. pc' = "passed" /\ UNCHANGED cur /\ Counted'
      BY <1>8, <1>d, Members DEF StepSucceeds, Placed, AtStep
    <2> QED BY <2>1 DEF Tried, Reviewing
  <1>9. ASSUME ChecksFail \/ StepTimesOut \/ StepRaises PROVE Counted' /\ Tried'
    <2>1. PICK r \in {"partial", "error"} : Record(r)
      BY <1>9 DEF ChecksFail, StepTimesOut, StepRaises
    <2>2. pc = "attempt" /\ cur \in Step /\ UNCHANGED cur
      BY <1>9 DEF ChecksFail, StepTimesOut, StepRaises, Placed, AtStep
    <2>3. UNCHANGED retryCounts \/ CountRetry
      BY <1>9 DEF ChecksFail, StepTimesOut, StepRaises, RetryOr
    <2>4. Counted' /\ result'[cur] # "none"
      BY <2>1, <2>2, <2>3, <1>d, Members
    <2> QED BY <2>2, <2>4 DEF Tried
  <1>10. ASSUME StepPassed \/ StepFailed PROVE Counted' /\ Tried'
    <2>1. pc' \in {"top", "ending"} /\ Counted'
      BY <1>10, MoveKeepsCounted DEF StepPassed, StepFailed, PassOn, Counted
    <2> QED BY <2>1, <1>b DEF AtStep
  <1>11. ASSUME ReviewWakes PROVE Counted' /\ Tried'
    <2>1. /\ pc = "review" /\ pc' \in Reviewing
          /\ UNCHANGED <<result, retryCounts, retry, cur, reason>>
      BY <1>11 DEF ReviewWakes, Reviewing
    <2> QED BY <2>1 DEF Counted, Tried, Reviewing
  <1>12. ASSUME ReviewWithdrawn \/ ResultRejected \/ ReviewAgain
         PROVE  Counted' /\ Tried'
    BY <1>12, <1>c DEF ReviewWithdrawn, ResultRejected, ReviewAgain, AtStep
  <1>13. ASSUME HumanRejects \/ HumanApproves PROVE Counted' /\ Tried'
    <2>1. pc' \in {"top", "ending"} /\ Counted'
      BY <1>13, MoveKeepsCounted DEF HumanRejects, HumanApproves, PassOn, Counted
    <2> QED BY <2>1, <1>b DEF AtStep
  <1>14. ASSUME RetryAsDecided PROVE Counted' /\ Tried'
    <2>1. /\ pc = "decided" /\ reason # "human_review" /\ pc' = "attempting"
          /\ cur \in Step /\ UNCHANGED <<cur, result>> /\ CountRetry
      BY <1>14 DEF RetryAsDecided, Placed, AtStep
    <2>2. result[cur] # "none"
      BY <2>1 DEF Tried, Reviewing
    <2>3. \A s \in Step \ {cur} : retryCounts'[s] = retryCounts[s]
      BY <2>1 DEF CountRetry, TypeOK
    <2> QED BY <2>1, <2>2, <2>3 DEF Counted, Tried, Reviewing
  <1>15. ASSUME ResultApproved PROVE Counted' /\ Tried'
    <2>1. pc' = "passed" /\ UNCHANGED <<cur, result, retryCounts>>
      BY <1>15 DEF ResultApproved
    <2> QED BY <2>1 DEF Counted, Tried, Reviewing
  <1>16. ASSUME FinalizeTask \/ BeginResumedRun PROVE Counted' /\ Tried'
    BY <1>16, <1>c DEF FinalizeTask, BeginResumedRun, LeaveLoop, EnterLoop, AtStep
  <1>17. ASSUME BeginRerun PROVE Counted' /\ Tried'
    <2>1. /\ pc' = "top"
          /\ result' = [s \in Step |-> IF s < cur THEN result[s] ELSE "none"]
          /\ retryCounts' = [s \in Step |-> IF s < cur THEN retryCounts[s] ELSE 0]
      BY <1>17 DEF BeginRerun, EnterLoop
    <2>2. Counted'
      BY <2>1 DEF Counted
    <2> QED BY <2>1, <2>2, <1>b DEF AtStep
  <1>18. ASSUME PauseTask \/ CancelTask PROVE Counted' /\ Tried'
    BY <1>18, <1>a DEF PauseTask, CancelTask, SetEvent
  <1>19. ASSUME ResumeTask \/ \E d \in Decision : ApproveReview(d)
         PROVE  Counted' /\ Tried'
    <2>1. /\ UNCHANGED <<result, retryCounts, retry, reason>>
          /\ UNCHANGED <<pc, cur>> \/ pc' = "scheduled"
      BY <1>19 DEF ResumeTask, ApproveReview, Schedule, SetEvent
    <2> QED BY <2>1, <1>a, <1>c DEF AtStep
  <1>20. ASSUME NEW s \in Step, RetryNode(s) \/ ResumeFrom(s) \/ RerunFrom(s)
         PROVE  Counted' /\ Tried'
    <2>1. pc' = "scheduled" /\ UNCHANGED <<result, retryCounts>>
      BY <1>20 DEF RetryNode, ResumeFrom, RerunFrom, May, Schedule
    <2> QED BY <2>1, <1>c DEF AtStep
  <1>21. ASSUME UNCHANGED vars PROVE Counted' /\ Tried'
    BY <1>21, <1>a DEF vars
  <1> QED
    BY <1>1, <1>2, <1>3, <1>4, <1>5, <1>6, <1>7, <1>8, <1>9, <1>10, <1>11, <1>12,
       <1>13, <1>14, <1>15, <1>16, <1>17, <1>18, <1>19, <1>20, <1>21
    DEF Next, Loop, Clients

(* As long as no client retries a step by hand, the run gives a step up    *)
(* only after it was tried, whatever counts earlier runs left behind.      *)
THEOREM TriedBeforeGivenUp ==
  ASSUME "retry" \notin Calls
  PROVE  Spec => []GivenUpAfterAttempt
  <1>1. Init => Counted /\ Tried
    BY DEF Init, Counted, Tried, Reviewing
  <1>2. TypeOK /\ Placed /\ Counted /\ Tried /\ [Next]_vars => (Counted /\ Tried)'
    BY TriedStep
  <1>3. Tried => GivenUpAfterAttempt
    BY DEF Tried, GivenUpAfterAttempt
  <1> QED BY TypeCorrect, <1>1, <1>2, <1>3, PTL DEF Spec

----------------------------------------------------------------------------
(* The run of a paused or cancelled task may finish the step it is in; it  *)
(* goes on to no other.  Retrying by hand moves current_step under a run.  *)
THEOREM StoppedRunsStop ==
  ASSUME "retry" \notin Calls
  PROVE  Spec => StoppedStartsNoStep
  <1> USE DEF record, published, locals, review, outsideAttempt, outsideOutcome, afterReview
  <1>1. ASSUME Next, status \in {"paused", "cancelled"}, Executing,
               pc' \in {"attempting", "backoff", "attempt"}
        PROVE  currentStep' = currentStep
    <2>1. CASE Loop
      <3>1. CASE EndLoop \/ StopAtStep \/ SkipCompletedStep \/ SkipHumanReview
                 \/ RequestHumanReview \/ StartStep
        BY <1>1, <3>1 DEF EndLoop, StopAtStep, SkipCompletedStep, SkipHumanReview,
             RequestHumanReview, StartStep, PassBegins, Live, Stopped, AwaitReview
      <3>2. CASE GiveUp \/ BackOff \/ Attempt \/ StepSucceeds \/ ChecksFail
                 \/ StepTimesOut \/ StepRaises \/ StepPassed \/ StepFailed
        BY <3>2 DEF GiveUp, BackOff, Attempt, StepSucceeds, ChecksFail, StepTimesOut,
                    StepRaises, StepPassed, StepFailed
      <3>3. CASE ReviewWakes \/ ReviewWithdrawn \/ HumanRejects \/ ResultRejected
                 \/ ReviewAgain \/ RetryAsDecided \/ HumanApproves \/ ResultApproved
        BY <3>3 DEF ReviewWakes, ReviewWithdrawn, HumanRejects, ResultRejected,
                    ReviewAgain, RetryAsDecided, HumanApproves, ResultApproved
      <3>4. CASE FinalizeTask \/ BeginResumedRun \/ BeginRerun
        BY <3>4 DEF FinalizeTask, BeginResumedRun, BeginRerun
      <3> QED BY <2>1, <3>1, <3>2, <3>3, <3>4 DEF Loop
    <2>2. CASE Clients
      BY <1>1, <2>2 DEF Clients, PauseTask, ResumeTask, CancelTask, ApproveReview,
                        RetryNode, ResumeFrom, RerunFrom, May
    <2> QED BY <1>1, <2>1, <2>2 DEF Next
  <1>2. [Next]_vars => [(status \in {"paused", "cancelled"} /\ Executing
                         /\ pc' \in {"attempting", "backoff", "attempt"})
                        => currentStep' = currentStep]_vars
    BY <1>1
  <1> QED BY <1>2, PTL DEF Spec, StoppedStartsNoStep

----------------------------------------------------------------------------
(* WaitingMeansWaiting.  waiting_review is written by the loop when it     *)
(* begins to wait, and taken back by the branch that follows the decision: *)
(* it must not survive into an attempt, not by way of _prev_status either. *)

NotHeld ==
  /\ status # "waiting_review"
  /\ ~(status = "paused" /\ prevStatus = "waiting_review")

\* The task is held by a review that is still to be settled.
UnderReview == Mode # "auto" /\ cur \in Human \ skip

HeldByReview ==
  /\ pc \in AtStep \ Reviewing => NotHeld
  /\ pc = "top" => NotHeld \/ UnderReview
  /\ pc \in Reviewing => reason = "human_review" /\ UnderReview

LEMMA HeldStep ==
  ASSUME Mode # "manual"
  PROVE  TypeOK /\ HeldByReview /\ [Next]_vars => HeldByReview'
  <1> SUFFICES ASSUME TypeOK, HeldByReview, [Next]_vars PROVE HeldByReview'
    OBVIOUS
  <1> USE DEF record, published, locals, review, outsideAttempt, outsideOutcome, afterReview
  \* Outside the head of the loop and a review, the status is that of a run.
  <1>a. CASE NotHeld' /\ pc' \notin Reviewing
    BY <1>a DEF HeldByReview
  <1>b. CASE pc' \notin AtStep \cup {"top"}
    BY <1>b DEF HeldByReview, Reviewing, AtStep
  <1>c. CASE /\ pc \in AtStep \ Reviewing
             /\ pc' \notin Reviewing
             /\ UNCHANGED <<status, prevStatus>>
    BY <1>a, <1>c DEF HeldByReview, NotHeld
  <1>1. ASSUME EndLoop \/ StopAtStep PROVE HeldByReview'
    BY <1>1, <1>b DEF EndLoop, StopAtStep, AtStep
  <1>2. ASSUME SkipCompletedStep \/ SkipHumanReview PROVE HeldByReview'
    <2>1. NotHeld /\ UNCHANGED <<status, prevStatus, pc>> /\ pc = "top"
      BY <1>2 DEF SkipCompletedStep, SkipHumanReview, PassBegins, MaySkipReview,
                  HeldByReview, UnderReview, NotHeld, Live, Stopped
    <2> QED BY <2>1, <1>a DEF NotHeld, Reviewing
  <1>3. ASSUME RequestHumanReview PROVE HeldByReview'
    <2>1. /\ pc' \in {"decided", "review"} /\ reason' = "human_review"
          /\ Mode # "auto" /\ cur \in Human \ skip /\ UNCHANGED <<cur, skip>>
      BY <1>3 DEF RequestHumanReview, AwaitReview
    <2> QED BY <2>1 DEF HeldByReview, UnderReview, Reviewing
  <1>4. ASSUME StartStep PROVE HeldByReview'
    <2>1. NotHeld /\ UNCHANGED <<status, prevStatus>> /\ pc' = "attempting"
      BY <1>4 DEF StartStep, PassBegins, HeldByReview, UnderReview
    <2> QED BY <2>1, <1>a DEF NotHeld, Reviewing
  <1>5. ASSUME GiveUp \/ BackOff \/ Attempt \/ StepSucceeds PROVE HeldByReview'
    BY <1>5, <1>c DEF GiveUp, BackOff, Attempt, StepSucceeds, AtStep, Reviewing
  <1>6. ASSUME ChecksFail \/ StepTimesOut \/ StepRaises PROVE HeldByReview'
    BY <1>6, <1>c DEF ChecksFail, StepTimesOut, StepRaises, RetryOr, Exhaust, AtStep,
                      Reviewing
  <1>7. ASSUME StepPassed \/ StepFailed PROVE HeldByReview'
    <2>1. /\ pc \in AtStep \ Reviewing /\ pc' \in {"top", "ending"}
          /\ UNCHANGED <<status, prevStatus>> \/ pc' = "ending"
      BY <1>7 DEF StepPassed, StepFailed, AtStep, Reviewing
    <2> QED BY <2>1, <1>b, <1>c DEF AtStep, Reviewing
  <1>8. ASSUME ReviewWakes PROVE HeldByReview'
    BY <1>8 DEF ReviewWakes, HeldByReview, UnderReview, Reviewing
  <1>9. ASSUME ReviewWithdrawn \/ FinalizeTask PROVE HeldByReview'
    BY <1>9, <1>b DEF ReviewWithdrawn, FinalizeTask, LeaveLoop, AtStep
  <1>10. ASSUME HumanRejects \/ HumanApproves PROVE HeldByReview'
    <2>1. pc' = "ending" \/ (pc' = "top" /\ status' = "running")
      BY <1>10 DEF HumanRejects, HumanApproves
    <2> QED BY <2>1, <1>a, <1>b DEF NotHeld, AtStep, Reviewing
  <1>11. ASSUME ResultRejected \/ RetryAsDecided \/ ResultApproved PROVE HeldByReview'
    BY <1>11 DEF ResultRejected, Rejects, RetryAsDecided, ResultApproved, HeldByReview,
                 Reviewing
  <1>12. ASSUME ReviewAgain PROVE HeldByReview'
    BY <1>12 DEF ReviewAgain, HeldByReview, UnderReview, Reviewing, AtStep
  <1>13. ASSUME BeginResumedRun \/ BeginRerun PROVE HeldByReview'
    <2>1. pc' = "idle" \/ (pc' = "top" /\ status' = "running")
      BY <1>13 DEF BeginResumedRun, BeginRerun, EnterLoop, LeaveLoop
    <2> QED BY <2>1, <1>a, <1>b DEF NotHeld, AtStep, Reviewing
  <1>14. ASSUME PauseTask \/ ResumeTask \/ CancelTask PROVE HeldByReview'
    <2>1. pc # "top" /\ (pc' = "scheduled" \/ UNCHANGED <<pc, cur, skip, reason>>)
      BY <1>14 DEF PauseTask, ResumeTask, CancelTask, May, Transient, SetEvent, Schedule
    <2>2. NotHeld => NotHeld'
      BY <1>14 DEF PauseTask, ResumeTask, CancelTask, Schedule, NotHeld, Executing,
                   TypeOK
    <2> QED BY <2>1, <2>2, <1>b DEF HeldByReview, UnderReview, AtStep, Reviewing
  <1>15. ASSUME NEW d \in Decision, ApproveReview(d) PROVE HeldByReview'
    <2>1. /\ pc # "top" /\ status = "waiting_review"
          /\ pc' = "scheduled" \/ UNCHANGED <<pc, cur, skip, reason>>
      BY <1>15 DEF ApproveReview, Transient, SetEvent, Schedule
    <2> QED BY <2>1, <1>b DEF HeldByReview, NotHeld, UnderReview, AtStep, Reviewing
  <1>16. ASSUME NEW s \in Step, RetryNode(s) \/ ResumeFrom(s) \/ RerunFrom(s)
         PROVE  HeldByReview'
    <2>1. pc # "top" /\ (pc' = "scheduled" \/ UNCHANGED <<pc, cur, skip, reason>>)
      BY <1>16 DEF RetryNode, ResumeFrom, RerunFrom, May, Transient, Schedule
    <2>2. NotHeld => NotHeld'
      BY <1>16 DEF RetryNode, ResumeFrom, RerunFrom, Schedule, NotHeld
    <2> QED BY <2>1, <2>2, <1>b DEF HeldByReview, UnderReview, AtStep, Reviewing
  <1>17. ASSUME UNCHANGED vars PROVE HeldByReview'
    BY <1>17 DEF vars, HeldByReview, NotHeld, UnderReview
  <1> QED
    BY <1>1, <1>2, <1>3, <1>4, <1>5, <1>6, <1>7, <1>8, <1>9, <1>10, <1>11, <1>12,
       <1>13, <1>14, <1>15, <1>16, <1>17
    DEF Next, Loop, Clients

(* Where no result is reviewed, the status of a run that goes on says      *)
(* waiting_review only at a review, whatever clients call meanwhile.       *)
THEOREM WaitingRunsWait ==
  ASSUME Mode # "manual"
  PROVE  Spec => []WaitingMeansWaiting
  <1>1. Init => HeldByReview
    BY DEF Init, HeldByReview, NotHeld, AtStep, Reviewing
  <1>2. TypeOK /\ HeldByReview /\ [Next]_vars => HeldByReview'
    BY HeldStep
  <1>3. HeldByReview => WaitingMeansWaiting
    BY DEF HeldByReview, WaitingMeansWaiting, NotHeld, AtStep, Reviewing, Executing,
           Transient, Awaiting
  <1> QED BY TypeCorrect, <1>1, <1>2, <1>3, PTL DEF Spec

----------------------------------------------------------------------------
(* DecisionsAnswerTheirReview.  What a client gave is forgotten when its   *)
(* review is over, so it is the answer to the one that waits; memory,      *)
(* store and bus hold nothing else unless something was left about, and    *)
(* the event is set only with an answer in memory or a task that was       *)
(* stopped.  A cancelled task takes the bus's word for the reject it was   *)
(* given, and withdraws.                                                   *)

AnswersKept ==
  /\ given # "none" => pc \in {"review", "decided", "withdrawn"}
  /\ pc = "review" => decision = given
  /\ strays \cap LeavesDecision = {} =>
       /\ pc = "withdrawn" \/ {decision, stored} \subseteq {"none", given}
       /\ \/ pc = "withdrawn" \/ bus \in {"none", given}
          \/ pc = "review" /\ status = "cancelled"
  /\ strays \cap WakesWithoutOne = {} =>
       /\ pc = "review" /\ eventSet => decision # "none" \/ status \in {"cancelled", "paused"}
       /\ pc = "decided" => decision # "none"

\* What the end of a review and a client's answer leave about.
LEMMA LeftAbout ==
  /\ ConsumeDecision => /\ given' = "none" /\ decision' = "none" /\ stored' = "none"
                        /\ strays' \cap LeavesDecision = {} => bus' = "none"
  /\ \A d : Decide(d) => IF pc = "review" THEN given' = d /\ strays' = {}
                         ELSE given' = "none" /\ strays' \cap LeavesDecision # {}
  BY DEF ReviewOver, ConsumeDecision, Decide, LeavesDecision

LEMMA AnswersStep == TypeOK /\ AnswersKept /\ [Next]_vars => AnswersKept'
  <1> SUFFICES ASSUME TypeOK, AnswersKept, [Next]_vars PROVE AnswersKept'
    OBVIOUS
  <1> USE DEF record, published, locals, review, outsideAttempt, outsideOutcome, afterReview
  \* Steps beside the reviews, that may drop the decision in memory.
  <1>a. CASE /\ UNCHANGED <<stored, bus, given, strays>>
             /\ decision' = decision \/ decision' = "none"
             /\ pc \notin {"review", "decided", "withdrawn"}
             /\ pc' \notin {"review", "decided", "withdrawn"}
    BY <1>a DEF AnswersKept
  \* The end of a review.
  <1>b. CASE ConsumeDecision /\ pc' \notin {"review", "decided", "withdrawn"}
    BY <1>b, LeftAbout DEF AnswersKept
  <1>1. ASSUME EndLoop \/ StopAtStep \/ SkipCompletedStep \/ SkipHumanReview \/ StartStep
        PROVE  AnswersKept'
    BY <1>1, <1>a DEF EndLoop, StopAtStep, SkipCompletedStep, SkipHumanReview, StartStep,
                      PassBegins
  <1>2. ASSUME NEW why, AwaitReview(why), UNCHANGED <<stored, bus>>,
               pc \notin {"review", "decided", "withdrawn"}
        PROVE  AnswersKept'
    <2>1. given = "none" /\ UNCHANGED <<given, strays>>
      BY <1>2 DEF AnswersKept, AwaitReview
    <2>2. CASE PulledDecision # "none"
      <3>1. pc' = "decided" /\ decision' \in {decision, stored} /\ decision' # "none"
        BY <1>2, <2>2 DEF AwaitReview, PulledDecision
      <3> QED BY <1>2, <2>1, <3>1 DEF AnswersKept
    <2>3. CASE PulledDecision = "none"
      <3>1. /\ pc' = "review" /\ eventSet' = FALSE
            /\ decision = "none" /\ decision' = "none"
        BY <1>2, <2>3 DEF AwaitReview, PulledDecision
      <3> QED BY <1>2, <2>1, <3>1 DEF AnswersKept
    <2> QED BY <2>2, <2>3
  <1>3. ASSUME RequestHumanReview PROVE AnswersKept'
    BY <1>2, <1>3 DEF RequestHumanReview, PassBegins
  <1>4. ASSUME GiveUp \/ BackOff \/ Attempt \/ StepSucceeds PROVE AnswersKept'
    BY <1>4, <1>a DEF GiveUp, BackOff, Attempt, StepSucceeds
  <1>5. ASSUME ChecksFail \/ StepTimesOut \/ StepRaises PROVE AnswersKept'
    <2>1. UNCHANGED <<stored, bus>> /\ pc = "attempt"
      BY <1>5 DEF ChecksFail, StepTimesOut, StepRaises
    <2>2. CASE \E why \in Reason : AwaitReview(why)
      BY <1>2, <2>1, <2>2
    <2>3. CASE ~\E why \in Reason : AwaitReview(why)
      <3>1. UNCHANGED <<decision, given, strays>> /\ pc' \in {"attempting", "exhausted"}
        BY <1>5, <2>3, Members DEF ChecksFail, StepTimesOut, StepRaises, RetryOr, Exhaust
      <3> QED BY <1>a, <2>1, <3>1
    <2> QED BY <2>2, <2>3
  <1>6. ASSUME StepPassed \/ StepFailed PROVE AnswersKept'
    BY <1>6, <1>a DEF StepPassed, StepFailed
  <1>7. ASSUME ReviewWakes PROVE AnswersKept'
    <2>1. /\ pc = "review" /\ UNCHANGED <<stored, status, given, strays, eventSet>>
          /\ pc' = IF status \in {"cancelled", "paused"} THEN "withdrawn" ELSE "decided"
      BY <1>7 DEF ReviewWakes
    <2>2. CASE status \in {"cancelled", "paused"}
      BY <2>1, <2>2 DEF AnswersKept
    <2>3. CASE status \notin {"cancelled", "paused"} /\ UNCHANGED <<decision, bus>>
      <3>1. ~TakeOffBus
        BY <2>3 DEF TakeOffBus
      <3>2. eventSet \/ decision # "none" \/ (decision' = stored /\ stored # "none")
        BY <1>7, <2>3, <3>1 DEF ReviewWakes, PulledDecision
      <3> QED BY <2>1, <2>3, <3>2 DEF AnswersKept
    <2>4. CASE status \notin {"cancelled", "paused"} /\ ~UNCHANGED <<decision, bus>>
      <3>1. /\ decision' # "none" /\ bus' \in {bus, "none"}
            /\ decision' = stored \/ decision' = bus
        BY <1>7, <2>4 DEF ReviewWakes, TakeOffBus, PulledDecision
      <3> QED BY <2>1, <2>4, <3>1 DEF AnswersKept
    <2> QED BY <2>2, <2>3, <2>4
  <1>8. ASSUME ReviewWithdrawn PROVE AnswersKept'
    <2>1. CASE reason = "human_review"
      <3>1. /\ pc' = "ending" /\ given' = "none" /\ UNCHANGED <<decision, stored, bus>>
            /\ strays' \cap LeavesDecision = {} => {decision, stored, bus} = {"none"}
        BY <1>8, <2>1 DEF ReviewWithdrawn, ReviewOver, LeavesDecision
      <3> QED BY <3>1 DEF AnswersKept
    <2>2. CASE reason # "human_review"
      BY <1>8, <1>b, <2>2 DEF ReviewWithdrawn
    <2> QED BY <2>1, <2>2
  <1>9. ASSUME HumanRejects \/ ResultRejected \/ ReviewAgain \/ RetryAsDecided
               \/ HumanApproves \/ ResultApproved
        PROVE  AnswersKept'
    <2>1. ConsumeDecision
      BY <1>9 DEF HumanRejects, ResultRejected, Rejects, ReviewAgain, RetryAsDecided,
                  HumanApproves, ResultApproved
    <2>2. pc' \in {"top", "ending", "attempting", "passed"}
      BY <1>9 DEF HumanRejects, ResultRejected, ReviewAgain, RetryAsDecided,
                  HumanApproves, ResultApproved
    <2> QED BY <1>b, <2>1, <2>2
  <1>10. ASSUME FinalizeTask \/ BeginResumedRun \/ BeginRerun PROVE AnswersKept'
    BY <1>10, <1>a DEF FinalizeTask, BeginResumedRun, BeginRerun, LeaveLoop, EnterLoop
  \* A call of a client finds the run at an await.
  <1>11. ASSUME PauseTask PROVE AnswersKept'
    <2>1. /\ UNCHANGED <<decision, stored, bus, given, strays, pc>> /\ status' = "paused"
          /\ status # "cancelled" /\ pc \notin Transient
      BY <1>11 DEF PauseTask, May
    <2> QED BY <2>1 DEF AnswersKept, Transient
  <1>12. ASSUME ResumeTask PROVE AnswersKept'
    <2>1. UNCHANGED <<decision, stored, bus, given>> /\ pc \notin Transient /\ status = "paused"
      BY <1>12 DEF ResumeTask, May
    <2>2. CASE Executing /\ pc = "review" /\ given = "none"
      <3>1. pc' = pc /\ strays' = strays \cup {"roused"}
        BY <1>12, <2>2 DEF ResumeTask
      <3>2. /\ strays' \cap WakesWithoutOne # {}
            /\ strays' \cap LeavesDecision = {} => strays \cap LeavesDecision = {}
        BY <3>1 DEF WakesWithoutOne
      <3> QED BY <2>1, <2>2, <3>1, <3>2 DEF AnswersKept
    <2>3. CASE Executing /\ ~(pc = "review" /\ given = "none")
      <3>1. pc' = pc /\ strays' = strays
        BY <1>12, <2>3 DEF ResumeTask
      <3> QED BY <2>1, <2>3, <3>1 DEF AnswersKept, Transient
    <2>4. CASE ~Executing
      <3>1. /\ pc \notin {"review", "decided", "withdrawn"} /\ UNCHANGED strays
            /\ pc' = pc \/ pc' = "scheduled"
        BY <1>12, <2>4 DEF ResumeTask, Executing, Transient, Awaiting, Schedule
      <3> QED BY <1>a, <2>1, <3>1
    <2> QED BY <2>2, <2>3, <2>4
  <1>13. ASSUME CancelTask PROVE AnswersKept'
    <2>1. pc' = pc /\ status' = "cancelled" /\ bus' = bus /\ pc \notin Transient
      BY <1>13 DEF CancelTask, May
    <2>2. CASE status = "waiting_review"
      BY <1>13, <2>1, <2>2, LeftAbout DEF CancelTask, AnswersKept, Transient, Decision
    <2>3. CASE status # "waiting_review"
      BY <1>13, <2>1, <2>3 DEF CancelTask, AnswersKept, Transient
    <2> QED BY <2>2, <2>3
  <1>14. ASSUME NEW d \in Decision, ApproveReview(d) PROVE AnswersKept'
    <2>1. /\ decision' = d /\ stored' = d /\ bus' = d /\ d # "none" /\ Decide(d)
          /\ pc \notin Transient
      BY <1>14 DEF ApproveReview, Publish, Decision
    <2>2. pc' = pc \/ pc' = "scheduled"
      BY <1>14 DEF ApproveReview, Schedule
    <2>3. CASE pc = "review"
      <3>1. pc' = pc
        BY <1>14, <2>3 DEF ApproveReview
      <3> QED BY <2>1, <2>3, <3>1, LeftAbout DEF AnswersKept
    <2>4. CASE pc # "review"
      BY <2>1, <2>2, <2>4, LeftAbout DEF AnswersKept, Transient
    <2> QED BY <2>3, <2>4
  <1>15. ASSUME NEW s \in Step, RetryNode(s) PROVE AnswersKept'
    <2>1. /\ UNCHANGED <<stored, bus, eventSet>> /\ decision' = "none"
          /\ pc \notin Transient
      BY <1>15 DEF RetryNode, May
    <2>5. pc' = pc \/ pc' = "scheduled"
      BY <1>15 DEF RetryNode, Schedule
    <2>2. CASE pc = "review" /\ given # "none"
      <3>1. pc' = pc /\ given' = "none" /\ strays' = strays \cup {"dropped"}
        BY <1>15, <2>2 DEF RetryNode, Executing, Awaiting
      <3>2. strays' \cap LeavesDecision # {} /\ strays' \cap WakesWithoutOne # {}
        BY <3>1 DEF LeavesDecision, WakesWithoutOne
      <3> QED BY <2>1, <2>2, <3>1, <3>2 DEF AnswersKept
    <2>3. CASE pc = "review" /\ given = "none"
      <3>1. /\ pc' = pc /\ UNCHANGED <<given, strays>>
            /\ status \in {"cancelled", "paused"} => status' = status
        BY <1>15, <2>3 DEF RetryNode, Executing, Awaiting, Terminal
      <3> QED BY <2>1, <2>3, <3>1 DEF AnswersKept
    <2>4. CASE pc # "review"
      <3>1. UNCHANGED <<given, strays>>
        BY <1>15, <2>4 DEF RetryNode
      <3> QED BY <1>a, <2>1, <2>4, <2>5, <3>1 DEF Transient
    <2> QED BY <2>2, <2>3, <2>4
  <1>16. ASSUME NEW s \in Step, ResumeFrom(s) \/ RerunFrom(s) PROVE AnswersKept'
    BY <1>16, <1>a DEF ResumeFrom, RerunFrom, Schedule
  <1>17. ASSUME UNCHANGED vars PROVE AnswersKept'
    BY <1>17 DEF vars, AnswersKept
  <1> QED
    BY <1>1, <1>3, <1>4, <1>5, <1>6, <1>7, <1>8, <1>9, <1>10, <1>11, <1>12, <1>13,
       <1>14, <1>15, <1>16, <1>17
    DEF Next, Loop, Clients

(* In every mode, on every route and under every sequence of calls, a      *)
(* review goes by the decision given to it, except in the ways `strays'    *)
(* names: DecisionsAnswerTheirReview.                                      *)
THEOREM DecisionsAnswer == Spec => []DecisionsAnswerTheirReview
  <1>1. Init => AnswersKept
    BY DEF Init, AnswersKept
  <1>2. TypeOK /\ AnswersKept /\ [Next]_vars => AnswersKept'
    BY AnswersStep
  <1>3. AnswersKept => DecisionsAnswerTheirReview
    BY DEF AnswersKept, DecisionsAnswerTheirReview
  <1> QED BY TypeCorrect, <1>1, <1>2, <1>3, PTL DEF Spec

----------------------------------------------------------------------------
(* CompletedReachedTheEnd.  A task is completed by what its results amount *)
(* to when the loop is left, or by a resume that finds nothing to do: both *)
(* must mean that the last step is recorded.  The record of the last step  *)
(* is made on the way out, and no later run may find it in skip_steps.     *)

OneWayOut ==
  /\ OnPass[NumSteps] = {0}
  /\ \A s \in Step : 0 \in OnPass[s] => s = NumSteps

EndRecorded == NumSteps \in completed

\* Where a run can be once the last step is recorded.
OnTheWayOut ==
  \/ pc \in {"top", "ending"} /\ cur = 0
  \/ pc = "ending" /\ status \in Stopped
  \/ pc = "idle"

AtTheEnd ==
  /\ EndRecorded => currentStep = NumSteps /\ status # "waiting_review" /\ OnTheWayOut
  /\ status = "completed" => EndRecorded

\* Why the loop is being left.
LeftFor ==
  /\ pc \in {"top", "ending"} /\ cur = 0 => EndRecorded
  /\ pc = "ending" /\ cur # 0 =>
       status \in Stopped \cup {"waiting_review"} \/ loops >= MaxLoop
  /\ pc = "withdrawn" => status \in {"cancelled", "paused"}

Onward ==
  /\ pc \in AtStep => currentStep = cur
  /\ NumSteps \notin skip
  /\ status \in {"completed", "completed_partial"} => ~Executing

Ending == AtTheEnd /\ LeftFor /\ Onward

LEMMA LastStep ==
  ASSUME OneWayOut
  PROVE  /\ NumSteps \in Step
         /\ \A s \in Step : s <= NumSteps
         /\ \A s \in Step : \A t \in OnPass[s] : t = 0 <=> s = NumSteps
  BY StepLoopAssumption DEF Step, OneWayOut

\* A move leaves the last step recorded only on the way out.
LEMMA MoveKeepsEnd ==
  ASSUME TypeOK, OneWayOut, cur \in Step, NEW target \in Step \cup {0},
         NEW done \in SUBSET Step, MoveTo(target, done)
  PROVE  /\ cur' = target
         /\ EndRecorded' => NumSteps \in done
         /\ target = 0 /\ NumSteps \in done => EndRecorded'
  <1>1. cur \in Nat /\ target \in Nat /\ NumSteps \in Nat /\ cur <= NumSteps
    BY LastStep, Constants
  <1>2. CASE target \in 1..(cur - 1)
    BY <1>1, <1>2 DEF MoveTo, EndRecorded
  <1>3. CASE target \notin 1..(cur - 1)
    BY <1>1, <1>3 DEF MoveTo, EndRecorded
  <1> QED BY <1>2, <1>3

LEMMA PassKeepsEnd ==
  ASSUME TypeOK, OneWayOut, cur \in Step, NEW done \in SUBSET Step, PassOn(done),
         cur = NumSteps <=> NumSteps \in done
  PROVE  /\ EndRecorded' => cur' = 0 /\ cur = NumSteps
         /\ cur' = 0 => EndRecorded'
  <1>1. PICK target \in OnPass[cur] : MoveTo(target, done)
    BY DEF PassOn
  <1>2. target \in Step \cup {0} /\ (target = 0 <=> cur = NumSteps)
    BY <1>1, Constants, LastStep
  <1> QED BY <1>1, <1>2, MoveKeepsEnd

LEMMA EndingStep ==
  ASSUME Mode # "manual",
         Calls \subseteq {"pause", "cancel"}, OneWayOut
  PROVE  TypeOK /\ Placed /\ HeldByReview /\ Ending /\ [Next]_vars => Ending'
  <1> SUFFICES ASSUME TypeOK, Placed, HeldByReview, Ending, [Next]_vars PROVE Ending'
    OBVIOUS
  <1> USE DEF record, published, locals, review, outsideAttempt, outsideOutcome, afterReview
  <1>z. 0 \notin Step /\ NumSteps \in Step
    BY Constants, LastStep
  <1>s. /\ completed \in SUBSET Step
        /\ cur \in Step => completed \cup {cur} \in SUBSET Step
    BY DEF TypeOK
  \* At work the last step is not recorded.
  <1>w. pc \in AtStep => ~EndRecorded /\ cur # 0 /\ currentStep = cur /\ Executing
    BY <1>z DEF Ending, AtTheEnd, OnTheWayOut, Onward, Placed, AtStep, Executing,
                Transient, Awaiting
  <1>t. pc = "top" => status # "completed" /\ status # "completed_partial"
    BY DEF Ending, Onward, Executing, Transient
  \* Steps of the loop from one place at the step to another.
  <1>a. CASE /\ pc \in AtStep /\ pc' \in AtStep \ {"withdrawn"}
             /\ UNCHANGED <<cur, currentStep, completed, skip>>
             /\ status' = status \/ status' \in {"running", "waiting_review"}
    BY <1>a, <1>w DEF Ending, AtTheEnd, OnTheWayOut, LeftFor, Onward, EndRecorded, AtStep,
                      Executing
  \* Moves along the route.
  <1>b. CASE /\ pc' = "top" /\ UNCHANGED skip
             /\ EndRecorded' => cur' = 0 /\ currentStep' = NumSteps
                                /\ status' # "waiting_review"
             /\ cur' = 0 => EndRecorded'
             /\ status' = "running"
                \/ (status' = status /\ status \notin {"completed", "completed_partial"})
    BY <1>b DEF Ending, AtTheEnd, OnTheWayOut, LeftFor, Onward, AtStep, Executing,
                Transient
  \* The loop is left at the step, its task stopped.
  <1>c. CASE /\ pc' = "ending" /\ UNCHANGED <<cur, skip>> /\ cur # 0
             /\ status' \in Stopped
             /\ EndRecorded' => currentStep' = NumSteps
    BY <1>c DEF Ending, AtTheEnd, OnTheWayOut, LeftFor, Onward, AtStep, Stopped
  <1>1. ASSUME EndLoop PROVE Ending'
    BY <1>1, <1>t
    DEF EndLoop, Ending, AtTheEnd, OnTheWayOut, LeftFor, Onward, AtStep, EndRecorded,
        Executing, Transient
  <1>2. ASSUME StopAtStep PROVE Ending'
    <2>1. pc = "top" /\ cur # 0 /\ status \in Stopped /\ UNCHANGED completed
      BY <1>2 DEF StopAtStep, PassBegins
    <2>2. ~EndRecorded'
      BY <2>1 DEF Ending, AtTheEnd, OnTheWayOut, EndRecorded
    <2> QED BY <1>2, <1>c, <2>1, <2>2 DEF StopAtStep
  <1>3. ASSUME SkipCompletedStep \/ SkipHumanReview \/ RequestHumanReview \/ StartStep
        PROVE  /\ pc = "top" /\ cur \in Step /\ ~EndRecorded /\ currentStep' = cur
               /\ status # "completed" /\ status # "completed_partial"
    <2>1. pc = "top" /\ cur # 0 /\ currentStep' = cur
      BY <1>3 DEF SkipCompletedStep, SkipHumanReview, RequestHumanReview, StartStep,
                  PassBegins
    <2> QED BY <2>1, <1>t DEF TypeOK, Ending, AtTheEnd, OnTheWayOut
  <1>4. ASSUME SkipCompletedStep PROVE Ending'
    <2>1. PassOn(completed) /\ cur # NumSteps /\ pc' = "top" /\ UNCHANGED <<status, skip>>
      BY <1>3, <1>4 DEF SkipCompletedStep, Ending, Onward
    <2>2. (EndRecorded' => cur' = 0 /\ cur = NumSteps) /\ (cur' = 0 => EndRecorded')
      BY <1>3, <1>4, <1>s, <2>1, PassKeepsEnd DEF EndRecorded
    <2> QED BY <1>b, <1>3, <1>4, <2>1, <2>2
  <1>5. ASSUME SkipHumanReview PROVE Ending'
    <2>1. /\ PassOn(completed \cup {cur}) /\ pc' = "top" /\ UNCHANGED <<status, skip>>
          /\ status # "waiting_review"
      BY <1>5 DEF SkipHumanReview, PassBegins, MaySkipReview, HeldByReview, UnderReview,
                  NotHeld
    <2>2. (EndRecorded' => cur' = 0 /\ cur = NumSteps) /\ (cur' = 0 => EndRecorded')
      BY <1>3, <1>5, <1>s, <2>1, PassKeepsEnd DEF EndRecorded
    <2> QED BY <1>b, <1>3, <1>5, <2>1, <2>2
  <1>6. ASSUME RequestHumanReview \/ StartStep PROVE Ending'
    <2>1. /\ pc' \in AtStep \ {"withdrawn"} /\ UNCHANGED <<cur, completed, skip>>
          /\ status' = status \/ status' = "waiting_review"
      BY <1>6 DEF RequestHumanReview, StartStep, AwaitReview, AtStep
    <2>2. /\ pc' \notin {"top", "ending", "withdrawn"} /\ ~EndRecorded'
          /\ status' \notin {"completed", "completed_partial"}
      BY <1>3, <1>6, <2>1 DEF EndRecorded, AtStep
    <2>3. currentStep' = cur' /\ NumSteps \notin skip'
      BY <1>3, <1>6, <2>1 DEF Ending, Onward
    <2> QED BY <2>2, <2>3 DEF Ending, AtTheEnd, LeftFor, Onward
  <1>7. ASSUME GiveUp \/ BackOff \/ Attempt \/ StepSucceeds PROVE Ending'
    BY <1>7, <1>a DEF GiveUp, BackOff, Attempt, StepSucceeds, AtStep
  <1>8. ASSUME ChecksFail \/ StepTimesOut \/ StepRaises PROVE Ending'
    BY <1>8, <1>a DEF ChecksFail, StepTimesOut, StepRaises, RetryOr, Exhaust, AtStep
  <1>9. ASSUME StepPassed PROVE Ending'
    <2>1. pc = "passed" /\ pc \in AtStep /\ cur \in Step /\ UNCHANGED <<skip, currentStep>>
      BY <1>9 DEF StepPassed, Placed, AtStep
    <2>2. /\ status \notin {"completed", "completed_partial"} /\ status # "waiting_review"
          /\ ~EndRecorded /\ currentStep = cur
      BY <1>w, <2>1 DEF Ending, Onward, HeldByReview, NotHeld, Reviewing
    <2>3. CASE PassOn(completed \cup {cur}) /\ pc' = "top" /\ UNCHANGED status
      <3>1. (EndRecorded' => cur' = 0 /\ cur = NumSteps) /\ (cur' = 0 => EndRecorded')
        BY <1>s, <2>1, <2>2, <2>3, PassKeepsEnd DEF EndRecorded
      <3> QED BY <1>b, <2>1, <2>2, <2>3, <3>1
    <2>4. CASE /\ completed' = completed \cup {cur} /\ status' = "failed"
               /\ pc' = "ending" /\ UNCHANGED cur
      BY <1>c, <1>z, <2>1, <2>2, <2>4 DEF EndRecorded, Stopped
    <2> QED BY <1>9, <2>3, <2>4 DEF StepPassed
  \* Falling back: the last step is not recorded, and stays so.
  <1>10. ASSUME StepFailed \/ HumanRejects PROVE Ending'
    <2>1. /\ pc \in AtStep /\ cur \in Step /\ ~EndRecorded
          /\ status \notin {"completed", "completed_partial"}
          /\ UNCHANGED <<skip, currentStep>>
      BY <1>10, <1>w DEF StepFailed, HumanRejects, Rejects, Placed, AtStep, Ending, Onward
    <2>2. CASE CanFallBack
      <3>1. /\ MoveTo(OnFail[cur], completed) /\ pc' = "top"
            /\ status' = status \/ status' = "running"
        BY <1>10, <2>2 DEF StepFailed, HumanRejects
      <3>2. OnFail[cur] \in Step \cup {0} /\ OnFail[cur] # 0
        BY <2>1, <2>2, Constants DEF CanFallBack
      <3>3. ~EndRecorded' /\ cur' # 0
        BY <1>s, <2>1, <3>1, <3>2, MoveKeepsEnd DEF EndRecorded
      <3> QED BY <1>b, <2>1, <3>1, <3>3
    <2>3. CASE ~CanFallBack
      <3>1. /\ pc' = "ending" /\ UNCHANGED <<cur, completed>>
            /\ status' = "failed" \/ status' = "rejected"
        BY <1>10, <2>3 DEF StepFailed, HumanRejects
      <3> QED BY <1>c, <1>z, <2>1, <3>1 DEF EndRecorded, Stopped
    <2> QED BY <2>2, <2>3
  <1>11. ASSUME ReviewWakes PROVE Ending'
    <2>1. /\ pc = "review" /\ UNCHANGED <<cur, currentStep, completed, skip, status>>
          /\ pc' = IF status \in {"cancelled", "paused"} THEN "withdrawn" ELSE "decided"
      BY <1>11 DEF ReviewWakes
    <2> QED
      BY <2>1, <1>w DEF Ending, AtTheEnd, OnTheWayOut, LeftFor, Onward, EndRecorded,
                        AtStep, Executing
  <1>12. ASSUME ReviewWithdrawn PROVE Ending'
    <2>1. /\ pc = "withdrawn" /\ pc' = "ending"
          /\ UNCHANGED <<cur, skip, status, completed, currentStep>>
      BY <1>12 DEF ReviewWithdrawn
    <2>2. status \in Stopped /\ ~EndRecorded /\ cur # 0
      BY <2>1, <1>w DEF Ending, LeftFor, AtStep, Stopped
    <2> QED BY <1>c, <2>1, <2>2 DEF EndRecorded
  <1>13. ASSUME ResultRejected \/ RetryAsDecided \/ ResultApproved PROVE Ending'
    BY <1>13 DEF ResultRejected, Rejects, RetryAsDecided, ResultApproved, HeldByReview,
                 Reviewing
  <1>14. ASSUME ReviewAgain PROVE Ending'
    <2>1. /\ pc \in AtStep /\ pc' = "top"
          /\ UNCHANGED <<cur, skip, status, completed, currentStep>>
      BY <1>14 DEF ReviewAgain, AtStep
    <2>2. ~EndRecorded' /\ cur' # 0 /\ status \notin {"completed", "completed_partial"}
      BY <2>1, <1>w DEF Ending, Onward, EndRecorded
    <2> QED BY <1>b, <2>1, <2>2
  <1>15. ASSUME HumanApproves PROVE Ending'
    <2>1. /\ pc \in AtStep /\ pc' = "top" /\ cur \in Step /\ status' = "running"
          /\ PassOn(completed \cup {cur}) /\ UNCHANGED <<skip, currentStep>>
      BY <1>15 DEF HumanApproves, Placed, AtStep
    <2>2. (EndRecorded' => cur' = 0 /\ cur = NumSteps) /\ (cur' = 0 => EndRecorded')
      BY <1>s, <1>w, <2>1, PassKeepsEnd DEF EndRecorded
    <2> QED BY <1>b, <1>w, <2>1, <2>2
  <1>16. ASSUME FinalizeTask PROVE Ending'
    <2>1. /\ pc = "ending" /\ pc' = "idle" /\ skip' = {} /\ status' = FinalStatus
          /\ UNCHANGED <<completed, currentStep>>
      BY <1>16 DEF FinalizeTask, LeaveLoop
    <2>2. status \notin {"completed", "completed_partial"}
      BY <2>1 DEF Ending, Onward, Executing, Transient
    <2>3. FinalStatus = "completed" => EndRecorded
      <3>1. CASE cur = 0
        BY <2>1, <3>1 DEF Ending, LeftFor
      <3>2. CASE status \in Stopped \cup {"waiting_review"}
        BY <3>2 DEF FinalStatus, Stopped
      <3>3. CASE cur # 0 /\ status \notin Stopped \cup {"waiting_review"}
        <4>1. status = "running" /\ loops >= MaxLoop
          BY <2>1, <2>2, <3>3 DEF Ending, LeftFor, TypeOK, Status, Stopped
        <4> QED BY <4>1 DEF FinalStatus
      <3> QED BY <3>1, <3>2, <3>3
    <2>4. status # "waiting_review" => FinalStatus # "waiting_review"
      BY DEF FinalStatus, Outcome
    <2> QED
      BY <2>1, <2>3, <2>4 DEF Ending, AtTheEnd, OnTheWayOut, LeftFor, Onward, EndRecorded,
                              AtStep, Executing, Transient, Awaiting
  <1>17. ASSUME BeginResumedRun \/ BeginRerun PROVE Ending'
    <2>1. pc = "scheduled" /\ ~EndRecorded /\ status # "completed" /\ cur \in Step
      BY <1>17 DEF BeginResumedRun, BeginRerun, Ending, AtTheEnd, OnTheWayOut, Placed
    <2>2. /\ pc' = "top" /\ status' = "running" /\ completed' \subseteq completed
          /\ skip' = completed' /\ UNCHANGED cur
      BY <1>17, <2>1 DEF BeginResumedRun, BeginRerun, EnterLoop
    <2>3. cur' # 0 /\ ~EndRecorded' /\ NumSteps \notin skip'
      BY <1>z, <2>1, <2>2 DEF EndRecorded
    <2> QED BY <2>2, <2>3 DEF Ending, AtTheEnd, LeftFor, Onward, AtStep
  <1>18. ASSUME PauseTask \/ CancelTask PROVE Ending'
    <2>1. /\ pc \notin Transient /\ status' \in {"paused", "cancelled"}
          /\ UNCHANGED <<cur, skip, pc, completed, currentStep>>
      BY <1>18 DEF PauseTask, CancelTask, May
    <2> QED
      BY <2>1 DEF Ending, AtTheEnd, OnTheWayOut, LeftFor, Onward, EndRecorded, Transient
  <1>19. ASSUME ResumeTask PROVE Ending'
    <2>1. /\ pc \notin Transient \cup {"scheduled"} /\ status = "paused"
          /\ UNCHANGED <<skip, completed, currentStep>>
      BY <1>19 DEF ResumeTask, May
    <2>2. CASE Executing
      <3>1. UNCHANGED <<pc, cur>> /\ status' = prevStatus /\ pc \in AtStep
        BY <1>19, <2>1, <2>2 DEF ResumeTask, Executing, Awaiting, AtStep
      <3>2. status' \in {"running", "waiting_review"}
        BY <3>1 DEF TypeOK
      <3> QED
        BY <2>1, <3>1, <3>2, <1>w DEF Ending, AtTheEnd, LeftFor, Onward, EndRecorded,
                                      Transient
    <2>3. CASE ~Executing /\ currentStep..NumSteps \subseteq completed
      <3>1. UNCHANGED <<pc, cur>> /\ status' = "completed" /\ pc = "idle"
        BY <1>19, <2>1, <2>3 DEF ResumeTask, Executing, TypeOK
      <3>2. currentStep \in Step /\ NumSteps \in currentStep..NumSteps
        BY LastStep, Constants DEF TypeOK
      <3>3. EndRecorded
        BY <2>3, <3>2 DEF EndRecorded
      <3> QED
        BY <2>1, <3>1, <3>3 DEF Ending, AtTheEnd, OnTheWayOut, LeftFor, Onward,
             EndRecorded, AtStep, Executing, Transient, Awaiting
    <2>4. CASE ~Executing /\ ~(currentStep..NumSteps \subseteq completed)
      <3>1. /\ pc' = "scheduled" /\ status' = "running"
        BY <1>19, <2>4 DEF ResumeTask, Schedule
      <3>2. ~EndRecorded
        <4>1. EndRecorded => currentStep = NumSteps
          BY DEF Ending, AtTheEnd
        <4>2. NumSteps..NumSteps = {NumSteps}
          BY LastStep, Constants
        <4> QED BY <2>4, <4>1, <4>2 DEF EndRecorded
      <3> QED
        BY <2>1, <3>1, <3>2 DEF Ending, AtTheEnd, LeftFor, Onward, EndRecorded, AtStep
    <2> QED BY <2>2, <2>3, <2>4
  <1>20. ASSUME NEW d \in Decision, ApproveReview(d) PROVE Ending'
    <2>1. /\ pc \notin Transient /\ status = "waiting_review"
          /\ UNCHANGED <<skip, completed, currentStep>>
          /\ \/ pc' = "scheduled" /\ status' = "running"
             \/ UNCHANGED <<status, pc, cur>>
      BY <1>20 DEF ApproveReview, Schedule
    <2>2. ~EndRecorded
      BY <2>1 DEF Ending, AtTheEnd
    <2> QED
      BY <2>1, <2>2 DEF Ending, AtTheEnd, LeftFor, Onward, EndRecorded, AtStep, Transient
  <1>21. ASSUME NEW s \in Step, RetryNode(s) \/ ResumeFrom(s) \/ RerunFrom(s)
         PROVE  Ending'
    BY <1>21 DEF RetryNode, ResumeFrom, RerunFrom, May
  <1>22. ASSUME UNCHANGED vars PROVE Ending'
    BY <1>22 DEF vars, Ending, AtTheEnd, OnTheWayOut, LeftFor, Onward, EndRecorded,
                 Executing
  <1> QED
    BY <1>1, <1>2, <1>4, <1>5, <1>6, <1>7, <1>8, <1>9, <1>10, <1>11, <1>12, <1>13,
       <1>14, <1>15, <1>16, <1>17, <1>18, <1>19, <1>20, <1>21, <1>22
    DEF Next, Loop, Clients

(* As long as no client sends a task back or to another step by hand, a    *)
(* task is reported as completed only with the last step of its route      *)
(* recorded, through every jump, pause, withdrawn review and resumed run.  *)
THEOREM CompletedTasksEnded ==
  ASSUME Mode # "manual",
         Calls \subseteq {"pause", "cancel"}, OneWayOut
  PROVE  Spec => []CompletedReachedTheEnd
  <1>1. Init => HeldByReview
    BY DEF Init, HeldByReview, NotHeld, AtStep, Reviewing
  <1>2. Init => Ending
    BY DEF Init, Ending, AtTheEnd, LeftFor, Onward, EndRecorded, AtStep
  <1>3. TypeOK /\ Placed /\ HeldByReview /\ Ending /\ [Next]_vars
        => (HeldByReview /\ Ending)'
    BY HeldStep, EndingStep
  <1>4. Ending => CompletedReachedTheEnd
    <2>1. NumSteps \in Step /\ 0 \in OnPass[NumSteps]
      BY LastStep DEF OneWayOut
    <2> QED BY <2>1 DEF Ending, AtTheEnd, EndRecorded, CompletedReachedTheEnd
  <1> QED BY TypeCorrect, <1>1, <1>2, <1>3, <1>4, PTL DEF Spec
=============================================================================
