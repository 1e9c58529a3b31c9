------------------------- MODULE TaskRunnersProofs -------------------------
(***************************************************************************)
(* Proofs about TaskRunners, for every set of coroutines.  The typing, the *)
(* mark and the status are invariants whatever the clients do.  One loop   *)
(* runs at a time as long as no client was hasty; the strengthening is     *)
(* that at most one coroutine is active, that is, pending or in its loop,  *)
(* and that a task whose loop runs is marked.                              *)
(***************************************************************************)
EXTENDS TaskRunners, TLAPS

Active == Pending \cup InLoop

----------------------------------------------------------------------------
(* Typing.                                                                 *)

LEMMA TypeInit == Init => TypeOK
  BY RunnersAssumption DEF Init, TypeOK, Status, Place

LEMMA TypeStep == TypeOK /\ [Next]_vars => TypeOK'
<1> SUFFICES ASSUME TypeOK, [Next]_vars PROVE TypeOK'
    OBVIOUS
<1> USE RunnersAssumption DEF TypeOK, Status, Place
<1>1. CASE StartBegins
      BY <1>1 DEF StartBegins, Enter, Exit, Terminal
<1>2. CASE StartTimesOut
      BY <1>2 DEF StartTimesOut, Exit, Terminal
<1>3. ASSUME NEW r \in Runner, ResumedRunBegins(r) PROVE TypeOK'
      BY <1>3 DEF ResumedRunBegins, Enter, Exit
<1>4. ASSUME NEW r \in Runner, RunAsksReview(r) PROVE TypeOK'
      BY <1>4 DEF RunAsksReview
<1>5. ASSUME NEW r \in Runner, ReviewEnds(r) PROVE TypeOK'
      BY <1>5 DEF ReviewEnds
<1>6. ASSUME NEW r \in Runner, RunEnds(r) PROVE TypeOK'
      BY <1>6 DEF RunEnds, Exit
<1>7. CASE PauseTask
      BY <1>7 DEF PauseTask
<1>8. CASE ResumeTask
      BY <1>8 DEF ResumeTask, ScheduleResume, Create
<1>9. CASE CancelTask
      BY <1>9 DEF CancelTask
<1>10. CASE ApproveReview
      BY <1>10 DEF ApproveReview, ScheduleResume, Create
<1>11. CASE RetryNode
      BY <1>11 DEF RetryNode, ScheduleResume, Create, Terminal
<1>12. ASSUME NEW k \in {"resume", "rerun"}, RunFrom(k) PROVE TypeOK'
      BY <1>12 DEF RunFrom, Create
<1>13. CASE UNCHANGED vars
      BY <1>13 DEF vars
<1>14. QED
      BY <1>1, <1>2, <1>3, <1>4, <1>5, <1>6, <1>7, <1>8, <1>9, <1>10, <1>11,
         <1>12, <1>13 DEF Next, Run, Clients

(* Every reachable record, mark and place is of its type, for every number *)
(* of coroutines.                                                          *)
THEOREM TypeCorrect == Spec => []TypeOK
<1> QED
    BY TypeInit, TypeStep, PTL DEF Spec

----------------------------------------------------------------------------
(* The mark and the status.                                                *)

Attended == MarkMeansExecuting /\ RunningHasRunner

LEMMA AttendedInit == Init => Attended
  BY RunnersAssumption
  DEF Init, Attended, MarkMeansExecuting, RunningHasRunner, InLoop, Pending

LEMMA AttendedStep == TypeOK /\ Attended /\ [Next]_vars => Attended'
<1> SUFFICES ASSUME TypeOK, Attended, [Next]_vars PROVE Attended'
    OBVIOUS
<1> USE RunnersAssumption
        DEF TypeOK, Attended, MarkMeansExecuting, RunningHasRunner, InLoop, Pending
<1>1. CASE StartBegins
      BY <1>1 DEF StartBegins, Enter, Exit, Terminal
<1>2. CASE StartTimesOut
      BY <1>2 DEF StartTimesOut, Exit, Terminal
<1>3. ASSUME NEW r \in Runner, ResumedRunBegins(r) PROVE Attended'
      BY <1>3 DEF ResumedRunBegins, Enter, Exit
<1>4. ASSUME NEW r \in Runner, RunAsksReview(r) PROVE Attended'
      BY <1>4 DEF RunAsksReview
<1>5. ASSUME NEW r \in Runner, ReviewEnds(r) PROVE Attended'
      BY <1>5 DEF ReviewEnds
<1>6. ASSUME NEW r \in Runner, RunEnds(r) PROVE Attended'
      BY <1>6 DEF RunEnds, Exit
<1>7. CASE PauseTask
      BY <1>7 DEF PauseTask
<1>8. CASE ResumeTask
      BY <1>8 DEF ResumeTask, ScheduleResume, Create
<1>9. CASE CancelTask
      BY <1>9 DEF CancelTask
<1>10. CASE ApproveReview
      BY <1>10 DEF ApproveReview, ScheduleResume, Create
<1>11. CASE RetryNode
      BY <1>11 DEF RetryNode, ScheduleResume, Create, Terminal
<1>12. ASSUME NEW k \in {"resume", "rerun"}, RunFrom(k) PROVE Attended'
      BY <1>12 DEF RunFrom, Create
<1>13. CASE UNCHANGED vars
      BY <1>13 DEF vars
<1>14. QED
      BY <1>1, <1>2, <1>3, <1>4, <1>5, <1>6, <1>7, <1>8, <1>9, <1>10, <1>11,
         <1>12, <1>13 DEF Next, Run, Clients

LEMMA AttendedHolds == Spec => []Attended
<1> QED
    BY TypeInit, TypeStep, AttendedInit, AttendedStep, PTL DEF Spec

(* A marked task has a coroutine in its loop, whatever the clients do and  *)
(* however many loops there are.                                           *)
THEOREM MarkIsNoLeftover == Spec => []MarkMeansExecuting
<1>1. Attended => MarkMeansExecuting
      BY DEF Attended
<1> QED
    BY <1>1, AttendedHolds, PTL

(* A task reported as running is attended by a coroutine: none is stuck in *)
(* that status for want of one.                                            *)
THEOREM RunningIsAttended == Spec => []RunningHasRunner
<1>1. Attended => RunningHasRunner
      BY DEF Attended
<1> QED
    BY <1>1, AttendedHolds, PTL

----------------------------------------------------------------------------
(* One loop at a time, as long as no client was hasty.                     *)

OneActive == \A r, s \in Runner : pc[r] \in Active /\ pc[s] \in Active => r = s
LoopIsMarked == \A r \in Runner : pc[r] \in InLoop => mark = TRUE
Exclusive == OneActive /\ LoopIsMarked
HastyKnown == hasty \in BOOLEAN
ExclusiveUnlessHasty == HastyKnown /\ (hasty = FALSE => Exclusive)

LEMMA ExclusiveInit == Init => ExclusiveUnlessHasty
  BY RunnersAssumption
  DEF Init, ExclusiveUnlessHasty, HastyKnown, Exclusive, OneActive, LoopIsMarked,
      Active, Pending, InLoop

(* A coroutine is created, and nobody was hasty, only where none is        *)
(* active: none is pending, and none is in its loop, since the task would  *)
(* be marked.                                                              *)
LEMMA CreateExcludes ==
  ASSUME TypeOK, Exclusive, ~hasty', ~mark,
         NEW k \in {"resume", "rerun"}, Create(k), UNCHANGED mark
  PROVE  Exclusive'
<1>1. \A r \in Runner : pc[r] \notin Active
      BY DEF Create, Exclusive, LoopIsMarked, Active, Pending
<1>2. PICK r \in Runner : pc' = [pc EXCEPT ![r] = "scheduled"]
      BY DEF Create
<1>3. \A s \in Runner : s # r => pc'[s] \notin Active
      BY <1>1, <1>2 DEF TypeOK
<1>4. pc'[r] = "scheduled"
      BY <1>2 DEF TypeOK
<1>5. OneActive'
      BY <1>3 DEF OneActive, Active, Pending, InLoop
<1>6. LoopIsMarked'
      BY <1>3, <1>4 DEF LoopIsMarked, Active, Pending, InLoop
<1> QED
    BY <1>5, <1>6 DEF Exclusive

LEMMA ExclusiveStep ==
  ASSUME TypeOK, Exclusive, ~hasty', [Next]_vars
  PROVE  Exclusive'
<1> USE RunnersAssumption DEF TypeOK
<1>1. CASE StartBegins
  <2>1. OneActive'
        BY <1>1 DEF StartBegins, Enter, Exit, Exclusive, OneActive, Active, Pending, InLoop
  <2>2. LoopIsMarked'
        BY <1>1 DEF StartBegins, Enter, Exit, Exclusive, LoopIsMarked, InLoop
  <2> QED
      BY <2>1, <2>2 DEF Exclusive
<1>2. CASE StartTimesOut
      BY <1>2 DEF StartTimesOut, Exit, Exclusive, OneActive, LoopIsMarked, Active,
                  Pending, InLoop
<1>3. ASSUME NEW r \in Runner, ResumedRunBegins(r) PROVE Exclusive'
  <2>1. OneActive'
        BY <1>3 DEF ResumedRunBegins, Enter, Exit, Exclusive, OneActive, Active,
                    Pending, InLoop
  <2>2. LoopIsMarked'
        BY <1>3 DEF ResumedRunBegins, Enter, Exit, Exclusive, LoopIsMarked, InLoop
  <2> QED
      BY <2>1, <2>2 DEF Exclusive
<1>4. ASSUME NEW r \in Runner, RunAsksReview(r) PROVE Exclusive'
      BY <1>4 DEF RunAsksReview, Exclusive, OneActive, LoopIsMarked, Active, Pending,
                  InLoop
<1>5. ASSUME NEW r \in Runner, ReviewEnds(r) PROVE Exclusive'
      BY <1>5 DEF ReviewEnds, Exclusive, OneActive, LoopIsMarked, Active, Pending,
                  InLoop
\* The mark is removed; no other coroutine is in its loop.
<1>6. ASSUME NEW r \in Runner, RunEnds(r) PROVE Exclusive'
  <2>1. \A s \in Runner : pc'[s] \notin Active
        BY <1>6 DEF RunEnds, Exit, Exclusive, OneActive, Active, Pending, InLoop
  <2> QED
      BY <2>1 DEF Exclusive, OneActive, LoopIsMarked, Active
<1>7. CASE UNCHANGED <<pc, mark>>
      BY <1>7 DEF Exclusive, OneActive, LoopIsMarked
<1>8. CASE PauseTask \/ CancelTask \/ UNCHANGED vars
      BY <1>7, <1>8 DEF PauseTask, CancelTask, vars
<1>9. CASE ResumeTask
      BY <1>7, <1>9, CreateExcludes DEF ResumeTask, ScheduleResume
<1>10. CASE ApproveReview
      BY <1>10, CreateExcludes DEF ApproveReview, ScheduleResume
<1>11. CASE RetryNode
      BY <1>7, <1>11, CreateExcludes DEF RetryNode, ScheduleResume
<1>12. ASSUME NEW k \in {"resume", "rerun"}, RunFrom(k) PROVE Exclusive'
      BY <1>12, CreateExcludes DEF RunFrom
<1>13. QED
      BY <1>1, <1>2, <1>3, <1>4, <1>5, <1>6, <1>8, <1>9, <1>10, <1>11, <1>12
      DEF Next, Run, Clients

(* Whoever was hasty once remains so.                                      *)
LEMMA HastyStep ==
  ASSUME HastyKnown, [Next]_vars
  PROVE  HastyKnown' /\ (hasty => hasty')
<1>1. CASE UNCHANGED hasty
      BY <1>1 DEF HastyKnown
<1>2. ASSUME NEW k \in {"resume", "rerun"}, Create(k)
      PROVE  HastyKnown' /\ (hasty => hasty')
  <2>1. hasty' = (hasty \/ \E r \in Runner : pc[r] \in Pending)
        BY <1>2 DEF Create
  <2> QED
      BY <2>1 DEF HastyKnown
<1>3. UNCHANGED hasty \/ \E k \in {"resume", "rerun"} : Create(k)
      BY DEF Next, Run, Clients, StartBegins, StartTimesOut, ResumedRunBegins,
             RunAsksReview, ReviewEnds, RunEnds, PauseTask, ResumeTask, CancelTask,
             ApproveReview, RetryNode, RunFrom, ScheduleResume, vars
<1> QED
    BY <1>1, <1>2, <1>3

(* As long as no client creates a coroutine while another has not begun,   *)
(* one task is never run by two loops, however many runs it has.           *)
THEOREM OneLoopAtATime == Spec => []OneLoopUnlessHasty
<1>1. ExclusiveUnlessHasty => OneLoopUnlessHasty
      BY DEF ExclusiveUnlessHasty, HastyKnown, Exclusive, OneActive,
             OneLoopUnlessHasty, Active
<1>2. TypeOK /\ ExclusiveUnlessHasty /\ [Next]_vars => ExclusiveUnlessHasty'
  <2> SUFFICES ASSUME TypeOK, ExclusiveUnlessHasty, [Next]_vars
               PROVE  ExclusiveUnlessHasty'
      OBVIOUS
  <2>1. HastyKnown' /\ (hasty => hasty')
        BY HastyStep DEF ExclusiveUnlessHasty
  <2>2. CASE hasty'
        BY <2>1, <2>2 DEF ExclusiveUnlessHasty
  <2>3. CASE ~hasty'
    <3>1. Exclusive
          BY <2>1, <2>3 DEF ExclusiveUnlessHasty, HastyKnown
    <3> QED
        BY <3>1, <2>1, <2>3, ExclusiveStep DEF ExclusiveUnlessHasty
  <2> QED
      BY <2>2, <2>3
<1> QED
    BY <1>1, <1>2, TypeInit, TypeStep, ExclusiveInit, PTL DEF Spec
=============================================================================
