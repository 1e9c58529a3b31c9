-------------------------- MODULE TaskStoreProofs --------------------------
(***************************************************************************)
(* Proofs about TaskStore, for every set of tasks and every number of      *)
(* restarts and of failing saves.                                          *)
(*                                                                         *)
(* Almost every step is about one task.  The strengthening is Kept(t), in  *)
(* four parts (Whole, Watched, Calm, Counted), each a statement about one  *)
(* task; for every action there is a lemma that the task it acts on stays  *)
(* kept and that the others are the same in all that Kept speaks of.  A    *)
(* sweep acts on all tasks: what it does to each is an Outcome.            *)
(***************************************************************************)
EXTENDS TaskStore, FiniteSetTheorems, TLAPS

----------------------------------------------------------------------------
(* Records and views.  The lemmas of this section say all that the proofs  *)
(* need of a record: its fields are not looked at below.                   *)

Views == [mem : Record, row : Record, coro : Coroutine,
          launch : BOOLEAN, launches : Nat]

LEMMA NoTaskFacts ==
  /\ NoTask \in Record
  /\ NoTask.status = "absent"
  BY DEF NoTask, Record, Status

LEMMA RecordFacts ==
  ASSUME NEW r \in Record
  PROVE  r.status \in Status /\ r.timed \in BOOLEAN /\ r.ends \in BOOLEAN
  BY DEF Record

LEMMA InStatusFacts ==
  ASSUME NEW r \in Record, NEW s \in Status
  PROVE  /\ InStatus(r, s) \in Record
         /\ InStatus(r, s).status = s
         /\ s # "absent" => Exists(InStatus(r, s))
         /\ InStatus(r, s).ends = r.ends
  BY DEF InStatus, Record, Exists, NoTask

LEMMA RegisteredFacts ==
  ASSUME NEW timed \in BOOLEAN
  PROVE  /\ Registered(timed) \in Record
         /\ Registered(timed).status = IF timed THEN "scheduled" ELSE "running"
         /\ Exists(Registered(timed))
  BY DEF Registered, Record, Status, Active, Exists, NoTask

LEMMA ResumedByHandFacts ==
  ASSUME NEW t, Ensure(t) \in Record
  PROVE  /\ ResumedByHand(t) \in Record
         /\ ResumedByHand(t).status = "running"
         /\ Exists(ResumedByHand(t))
  BY DEF ResumedByHand, InStatus, Record, Status, Active, Exists, NoTask

LEMMA ViewFacts ==
  ASSUME NEW v \in Views
  PROVE  /\ v.mem \in Record /\ v.row \in Record /\ v.coro \in Coroutine
         /\ v.launch \in BOOLEAN /\ v.launches \in Nat
         /\ Found(v) \in Record
  BY DEF Views, Found

LEMMA LoadedFacts ==
  ASSUME NEW v \in Views
  PROVE  /\ Loaded(v) \in Views
         /\ Loaded(v).mem = Found(v)
         /\ Loaded(v).row = v.row /\ Loaded(v).coro = v.coro
         /\ Loaded(v).launch = v.launch /\ Loaded(v).launches = v.launches
         /\ Found(Loaded(v)) = Found(v)
  BY ViewFacts DEF Loaded, Views, Found

LEMMA WrittenFacts ==
  ASSUME NEW v \in Views, NEW r \in Record, NEW fails \in BOOLEAN
  PROVE  /\ Written(v, r, fails) \in Views
         /\ Written(v, r, fails).mem = r
         /\ Written(v, r, fails).row = IF fails THEN v.row ELSE r
         /\ Written(v, r, fails).coro = v.coro
         /\ Written(v, r, fails).launch = v.launch
         /\ Written(v, r, fails).launches = v.launches
  BY DEF Written, Views

LEMMA LaunchedFacts ==
  ASSUME NEW v \in Views
  PROVE  /\ Launched(v) \in Views
         /\ Launched(v).mem = v.mem /\ Launched(v).row = v.row
         /\ Launched(v).coro = "starting" /\ Launched(v).launch = TRUE
         /\ Launched(v).launches = v.launches + 1
<1>1. v.launches + 1 \in Nat /\ "starting" \in Coroutine
      BY ViewFacts DEF Coroutine
<1>2. v = [mem |-> v.mem, row |-> v.row, coro |-> v.coro,
           launch |-> v.launch, launches |-> v.launches]
      BY DEF Views
<1> QED
    BY <1>1, <1>2 DEF Launched, Views

----------------------------------------------------------------------------
(* What a sweep does to a task.                                            *)

(* The end of a schedule cancels or pauses what it finds, or nothing.      *)
LEMMA EndScheduleCases ==
  ASSUME NEW v \in Views, NEW fails \in BOOLEAN
  PROVE  \/ EndSchedule(v, fails) = v /\ Found(v).status \notin Active
         \/ /\ EndSchedule(v, fails) = Written(v, InStatus(Found(v), "cancelled"), fails)
            /\ Found(v).status = "scheduled"
         \/ /\ EndSchedule(v, fails) = Written(v, InStatus(Found(v), "paused"), fails)
            /\ Found(v).status \in {"queued", "running"}
<1> USE DEF EndSchedule, Active
<1>1. CASE Found(v).status = "scheduled"
      BY <1>1
<1>2. CASE Found(v).status \in {"queued", "running"}
      BY <1>2
<1>3. CASE Found(v).status \notin Active
      BY <1>3
<1> QED
    BY <1>1, <1>2, <1>3

LEMMA SweptIsTyped ==
  ASSUME TypeOK, NEW t \in Tasks, NEW fails \in BOOLEAN
  PROVE  /\ View(t) \in Views
         /\ LaunchDue(t, View(t), fails) \in Views
         /\ Swept(t, fails) \in Views
<1> USE DEF Status, Active, Ended
<1>1. View(t) \in Views
      BY DEF TypeOK, View, Views
<1>2. ASSUME NEW v \in Views PROVE EndSchedule(v, fails) \in Views
  <2>1. Found(v) \in Record /\ InStatus(Found(v), "cancelled") \in Record
        /\ InStatus(Found(v), "paused") \in Record
        BY <1>2, InStatusFacts, ViewFacts
  <2> QED
      BY <1>2, <2>1, EndScheduleCases, WrittenFacts
<1>3. LaunchDue(t, View(t), fails) \in Views
  <2> DEFINE v == View(t)
             queued == IF Found(v).status = "scheduled"
                       THEN Written(v, InStatus(Found(v), "queued"), fails)
                       ELSE Loaded(v)
  <2>1. Loaded(v) \in Views /\ queued \in Views
        BY <1>1, LoadedFacts, WrittenFacts, InStatusFacts, ViewFacts
  <2>2. Launched(queued) \in Views /\ EndSchedule(Loaded(v), fails) \in Views
        BY <1>2, <2>1, LaunchedFacts
  <2> HIDE DEF v
  <2>3. LaunchDue(t, v, fails) \in {v, Loaded(v), EndSchedule(Loaded(v), fails),
                                    queued, Launched(queued)}
    <3>1. CASE ~DueToStart(t, v)
          BY <3>1 DEF LaunchDue
    <3>2. CASE DueToStart(t, v) /\ (v.launch \/ Found(v).status = "cancelled")
          BY <3>2 DEF LaunchDue
    <3>3. CASE /\ DueToStart(t, v) /\ ~(v.launch \/ Found(v).status = "cancelled")
               /\ Found(v).ends /\ clock[t] = "after"
          BY <3>3 DEF LaunchDue
    <3>4. CASE /\ DueToStart(t, v) /\ ~(v.launch \/ Found(v).status = "cancelled")
               /\ ~(Found(v).ends /\ clock[t] = "after")
          BY <3>4 DEF LaunchDue
    <3> QED
        BY <3>1, <3>2, <3>3, <3>4
  <2> QED
      BY <1>1, <2>1, <2>2, <2>3 DEF v
<1>4. Swept(t, fails) \in Views
      BY <1>2, <1>3, LoadedFacts DEF Swept, EndDue
<1> QED
    BY <1>1, <1>3, <1>4

(* A sweep in which the saves of the tasks of F fail.                      *)
SweepBy(F) ==
  /\ faults + Cardinality(F) <= MaxFaults
  /\ faults' = faults + Cardinality(F)
  /\ mem' = [t \in Tasks |-> Swept(t, t \in F).mem]
  /\ row' = [t \in Tasks |-> Swept(t, t \in F).row]
  /\ coro' = [t \in Tasks |-> Swept(t, t \in F).coro]
  /\ launching' = {t \in Tasks : Swept(t, t \in F).launch}
  /\ launches' = [t \in Tasks |-> Swept(t, t \in F).launches]
  /\ stranded' = (stranded \cup F) \ {t \in Tasks : Swept(t, t \in F).coro # coro[t]}
  /\ UNCHANGED <<cache, timers, dropping, clock, restarts>>

LEMMA SubsetsAreCounted ==
  ASSUME NEW F \in SUBSET Tasks
  PROVE  Cardinality(F) \in Nat /\ (Cardinality(F) = 0 <=> F = {})
<1>1. IsFiniteSet(F)
      BY StoreAssumption, FS_Subset
<1> QED
    BY <1>1, FS_CardinalityType, FS_EmptySet

LEMMA SweepIsBySome == Sweep => \E F \in SUBSET Tasks : SweepBy(F)
  BY DEF Sweep, SweepBy

----------------------------------------------------------------------------
(* Typing.                                                                 *)

LEMMA TypeInit == Init => TypeOK
  BY StoreAssumption, NoTaskFacts DEF Init, TypeOK, Ended, Coroutine

LEMMA TypeStep == TypeOK /\ [Next]_vars => TypeOK'
<1> SUFFICES ASSUME TypeOK, [Next]_vars PROVE TypeOK'
    OBVIOUS
<1> USE StoreAssumption, NoTaskFacts, InStatusFacts DEF TypeOK, Status, Ended, Active, Coroutine
<1>0. ASSUME NEW t \in Tasks
      PROVE  mem[t] \in Record /\ row[t] \in Record /\ Ensure(t) \in Record
      BY DEF Ensure
<1>1. CASE Sweep
  <2>1. PICK F \in SUBSET Tasks : SweepBy(F)
        BY <1>1, SweepIsBySome
  <2>2. Cardinality(F) \in Nat
        BY SubsetsAreCounted
  <2>3. ASSUME NEW t \in Tasks
        PROVE  Swept(t, t \in F) \in Views
    <3>1. (t \in F) \in BOOLEAN
          OBVIOUS
    <3> QED
        BY <3>1, SweptIsTyped, Zenon
  <2>4. mem' \in [Tasks -> Record] /\ row' \in [Tasks -> Record]
        BY <2>1, <2>3, ViewFacts DEF SweepBy
  <2>5. coro' \in [Tasks -> Coroutine] /\ launches' \in [Tasks -> Nat]
        BY <2>1, <2>3, ViewFacts DEF SweepBy
  <2> QED
      BY <2>1, <2>2, <2>4, <2>5 DEF SweepBy
<1>2. CASE Restart
      BY <1>2 DEF Restart
<1>3. ASSUME NEW S \in SUBSET Tasks, BatchStart(S) PROVE TypeOK'
  <2>1. launches' \in [Tasks -> Nat]
        BY <1>3 DEF BatchStart
  <2> QED
      BY <1>3, <2>1, RegisteredFacts DEF BatchStart
<1>4. ASSUME NEW t \in Tasks, NEW timed \in BOOLEAN, StartTask(t, timed) PROVE TypeOK'
      BY <1>4, RegisteredFacts DEF StartTask, Save
<1>5. ASSUME NEW t \in Tasks, NEW timed \in BOOLEAN, StartWithRefusedCallback(t, timed)
      PROVE  TypeOK'
      BY <1>5, RegisteredFacts DEF StartWithRefusedCallback, Save
<1>6. ASSUME NEW t \in Tasks, NEW timed \in BOOLEAN, StartUnsaved(t, timed)
      PROVE  TypeOK'
      BY <1>6, RegisteredFacts DEF StartUnsaved, SaveFails
<1>7. ASSUME NEW t \in Tasks, StartBegins(t) PROVE TypeOK'
      BY <1>0, <1>7 DEF StartBegins, Unregistered
<1>8. ASSUME NEW t \in Tasks, SlotGranted(t) PROVE TypeOK'
      BY <1>0, <1>8 DEF SlotGranted, Save
<1>9. ASSUME NEW t \in Tasks, SlotGrantedInVain(t) PROVE TypeOK'
      BY <1>0, <1>9 DEF SlotGrantedInVain, RaiseFrom, Failed
<1>10. ASSUME NEW t \in Tasks, ResumeBegins(t) PROVE TypeOK'
      BY <1>0, <1>10 DEF ResumeBegins, Save, ResumedRecord
<1>11. ASSUME NEW t \in Tasks, ResumeFails(t) PROVE TypeOK'
      BY <1>0, <1>11 DEF ResumeFails, RaiseFrom, Failed, ResumedRecord
<1>12. ASSUME NEW t \in Tasks, LoopEnds(t) PROVE TypeOK'
      BY <1>0, <1>12 DEF LoopEnds, Save, ArmTimer, FinalStatus
<1>13. ASSUME NEW t \in Tasks, LoopRaises(t) PROVE TypeOK'
      BY <1>0, <1>13 DEF LoopRaises, RaiseFrom, Failed, FinalStatus
<1>14. ASSUME NEW t \in Tasks, QueryTask(t) PROVE TypeOK'
      BY <1>0, <1>14 DEF QueryTask
<1>15. ASSUME NEW t \in Tasks, CancelTask(t) PROVE TypeOK'
      BY <1>0, <1>15 DEF CancelTask, CallFails, Save, SaveFails, Cancelled, ArmTimer
<1>16. ASSUME NEW t \in Tasks, CancelQueuedTask(t) PROVE TypeOK'
      BY <1>0, <1>16 DEF CancelQueuedTask, CallFails, Save, SaveFails, Cancelled
<1>17. ASSUME NEW t \in Tasks, PauseTask(t) PROVE TypeOK'
      BY <1>0, <1>17 DEF PauseTask, CallFails, Save, SaveFails
<1>18. ASSUME NEW t \in Tasks, ResumeTask(t) PROVE TypeOK'
      BY <1>0, <1>18, ResumedByHandFacts DEF ResumeTask, CallFails, Save, SaveFails
<1>19. ASSUME NEW t \in Tasks, ResumeCompletedTask(t) PROVE TypeOK'
      BY <1>0, <1>19, ResumedByHandFacts DEF ResumeCompletedTask, Save, ArmTimer
<1>20. ASSUME NEW t \in Tasks, RetryNode(t) PROVE TypeOK'
      BY <1>0, <1>20 DEF RetryNode, CallFails, Save, SaveFails
<1>21. ASSUME NEW t \in Tasks, NEW kind \in {"resuming", "rerunning"}, ResumeFrom(t, kind)
       PROVE  TypeOK'
      BY <1>0, <1>21 DEF ResumeFrom
<1>22. ASSUME NEW t \in Tasks, DeleteTask(t) PROVE TypeOK'
      BY <1>0, <1>22 DEF DeleteTask, ArmTimer
<1>23. ASSUME NEW t \in Tasks, DeleteTaskFails(t) PROVE TypeOK'
      BY <1>0, <1>23 DEF DeleteTaskFails, ArmTimer, Cancelled
<1>24. ASSUME NEW t \in Tasks, TimerFires(t) PROVE TypeOK'
      BY <1>24 DEF TimerFires, MayClean
<1>25. ASSUME NEW t \in Tasks, TimerDrops(t) PROVE TypeOK'
      BY <1>25 DEF TimerDrops
<1>26. ASSUME NEW t \in Tasks, TimePasses(t) PROVE TypeOK'
      BY <1>26 DEF TimePasses
<1>27. CASE UNCHANGED vars
      BY <1>27 DEF vars
<1> QED
    BY <1>1, <1>2, <1>3, <1>4, <1>5, <1>6, <1>7, <1>8, <1>9, <1>10, <1>11, <1>12,
       <1>13, <1>14, <1>15, <1>16, <1>17, <1>18, <1>19, <1>20, <1>21, <1>22, <1>23,
       <1>24, <1>25, <1>26, <1>27 DEF Next

(* Every reachable record, row and cache entry is of its type.             *)
THEOREM TypeCorrect == Spec => []TypeOK
<1> QED
    BY TypeInit, TypeStep, PTL DEF Spec

----------------------------------------------------------------------------
(* The invariant, task by task.                                            *)

Unsettled == {"queued", "running"}

\* What holds whatever has failed.  A record that waits for its time is the
\* one in the row: nothing but a save makes it change.
Whole(t) ==
  /\ Exists(mem[t]) => mem[t].status # "absent"
  /\ Exists(row[t]) => row[t].status # "absent"
  /\ dropping[t] # "absent" => Exists(mem[t])
  /\ mem[t].status = "scheduled" => row[t] \in {mem[t], NoTask}

\* Who is left without a coroutine is known; so is the task whose row, behind
\* a record that says otherwise, would be shown as unsettled by a restart.
Watched(t) ==
  /\ Visible(t) \in Unsettled /\ coro[t] = "none" => t \in stranded
  /\ (/\ row[t].status \in Unsettled
      /\ Exists(mem[t]) /\ mem[t].status \notin Unsettled
      /\ coro[t] \in {"none", "starting", "waiting"})
       => t \in stranded

\* As long as no save has failed: the record is the row, and the statuses
\* that are possible where the coroutine stands.
Calm(t) ==
  faults = 0 =>
    /\ \/ mem[t] \in {row[t], NoTask}
       \/ mem[t] = Unregistered /\ row[t] = NoTask
    /\ row[t] = NoTask => cache[t] = "absent" /\ dropping[t] = "absent"
    /\ row[t].status = "scheduled" => coro[t] = "none" /\ dropping[t] = "absent"
    /\ coro[t] \in {"starting", "waiting"} =>
         row[t].status \in {"absent", "queued", "running", "paused", "cancelled"}
    /\ coro[t] = "looping" =>
         row[t].status \in {"absent", "running", "paused", "cancelled", "failed"}
    /\ coro[t] = "looping" => mem[t].status # "queued"
    /\ coro[t] = "starting" => dropping[t] = "absent" /\ (Exists(mem[t]) \/ row[t] = NoTask)

\* As long as at most one save has failed: a task that its row still calls
\* scheduled has not been launched more often than saves have failed, or is
\* being launched right now, which the set launching remembers.
Counted(t) ==
  faults <= 1 =>
    /\ launches[t] <= 1 + faults
    /\ row[t] = NoTask => launches[t] = 0
    /\ mem[t].status = "scheduled" => coro[t] = "none"
    /\ row[t].status = "scheduled" =>
         \/ /\ mem[t].status \in {"absent", "scheduled"} /\ launches[t] <= faults
            /\ coro[t] = "none" /\ dropping[t] = "absent"
         \/ /\ faults = 1 /\ mem[t].status = "cancelled" /\ launches[t] = 0
            /\ coro[t] = "none"
         \/ /\ faults = 1 /\ mem[t].status \in Unsettled /\ dropping[t] = "absent"
            /\ launches[t] = 0 \/ (launches[t] = 1 /\ t \in launching)

Kept(t) == Whole(t) /\ Watched(t) /\ Calm(t) /\ Counted(t)
KeptInv == \A t \in Tasks : Kept(t)

\* All that Kept(u) speaks of is as before.
Same(u) ==
  /\ mem'[u] = mem[u] /\ row'[u] = row[u] /\ cache'[u] = cache[u]
  /\ coro'[u] = coro[u] /\ dropping'[u] = dropping[u] /\ launches'[u] = launches[u]
  /\ u \in launching' <=> u \in launching
  /\ u \in stranded => u \in stranded'

LEMMA KeptIfSame ==
  ASSUME NEW u \in Tasks, Kept(u), Same(u), faults \in Nat, faults' \in Nat,
         faults <= faults', launches[u] \in Nat
  PROVE  Kept(u)'
<1> USE DEF Kept, Same, Visible, Ensure
<1>1. Whole(u)'
      BY DEF Whole
<1>2. Watched(u)'
      BY DEF Watched
<1>3. Calm(u)'
      BY DEF Calm
<1>4. Counted(u)'
      BY DEF Counted
<1> QED
    BY <1>1, <1>2, <1>3, <1>4

(* The actions, one by one.                                                *)

LEMMA StartTaskKeeps ==
  ASSUME TypeOK, TypeOK', NEW t \in Tasks, Kept(t), NEW timed \in BOOLEAN,
         StartTask(t, timed)
  PROVE  /\ Kept(t)' /\ faults <= faults'
         /\ \A u \in Tasks \ {t} : Same(u)
<1> USE NoTaskFacts, InStatusFacts, RegisteredFacts
    DEF TypeOK, Status, Ended, Active, Coroutine, StartTask, Save, Unused, MayRegister
<1>1. \A u \in Tasks \ {t} : Same(u)
      BY DEF Same, ArmTimer
<1>2. faults <= faults'
      OBVIOUS
<1>3. mem[t] \in Record /\ row[t] \in Record /\ Ensure(t) \in Record
      BY DEF Ensure
<1> USE DEF Ensure
<1>4. Whole(t)'
      BY <1>3 DEF Kept, Whole, Exists, Calm, Unregistered
<1>5. Watched(t)'
      BY <1>3
      DEF Kept, Whole, Watched, Unsettled, Visible, Exists, NotBegun, Unregistered, Calm
<1>6. Calm(t)'
      BY <1>3 DEF Kept, Whole, Calm, Exists, Unregistered, NotBegun
<1>7. Counted(t)'
      BY <1>3 DEF Kept, Whole, Calm, Counted, Unsettled, Exists, NotBegun, Unregistered
<1> QED
    BY <1>1, <1>2, <1>4, <1>5, <1>6, <1>7 DEF Kept

LEMMA StartWithRefusedCallbackKeeps ==
  ASSUME TypeOK, TypeOK', NEW t \in Tasks, Kept(t), NEW timed \in BOOLEAN,
         StartWithRefusedCallback(t, timed)
  PROVE  /\ Kept(t)' /\ faults <= faults'
         /\ \A u \in Tasks \ {t} : Same(u)
<1> USE NoTaskFacts, InStatusFacts, RegisteredFacts
    DEF TypeOK, Status, Ended, Active, Coroutine, StartWithRefusedCallback, Save, Unused,
        MayRegister
<1>1. \A u \in Tasks \ {t} : Same(u)
      BY DEF Same, ArmTimer
<1>2. faults <= faults'
      OBVIOUS
<1>3. mem[t] \in Record /\ row[t] \in Record /\ Ensure(t) \in Record
      BY DEF Ensure
<1> USE DEF Ensure
<1>4. Whole(t)'
      BY <1>3 DEF Kept, Whole, Exists, Calm, Unregistered
<1>5. Watched(t)'
      BY <1>3
      DEF Kept, Whole, Watched, Unsettled, Visible, Exists, NotBegun, Unregistered, Calm
<1>6. Calm(t)'
      BY <1>3 DEF Kept, Whole, Calm, Exists, Unregistered, NotBegun
<1>7. Counted(t)'
      BY <1>3 DEF Kept, Whole, Calm, Counted, Unsettled, Exists, NotBegun, Unregistered
<1> QED
    BY <1>1, <1>2, <1>4, <1>5, <1>6, <1>7 DEF Kept

LEMMA StartUnsavedKeeps ==
  ASSUME TypeOK, TypeOK', NEW t \in Tasks, Kept(t), NEW timed \in BOOLEAN,
         StartUnsaved(t, timed)
  PROVE  /\ Kept(t)' /\ faults <= faults'
         /\ \A u \in Tasks \ {t} : Same(u)
<1> USE NoTaskFacts, InStatusFacts, RegisteredFacts
    DEF TypeOK, Status, Ended, Active, Coroutine, StartUnsaved, SaveFails, Unused,
        MayRegister
<1>1. \A u \in Tasks \ {t} : Same(u)
      BY DEF Same, ArmTimer
<1>2. faults <= faults'
      OBVIOUS
<1>3. mem[t] \in Record /\ row[t] \in Record /\ Ensure(t) \in Record
      BY DEF Ensure
<1> USE DEF Ensure
<1>4. Whole(t)'
      BY <1>3 DEF Kept, Whole, Exists, Calm, Unregistered
<1>5. Watched(t)'
      BY <1>3
      DEF Kept, Whole, Watched, Unsettled, Visible, Exists, NotBegun, Unregistered, Calm
<1>6. Calm(t)'
      BY <1>3 DEF Kept, Whole, Calm, Exists, Unregistered, NotBegun
<1>7. Counted(t)'
      BY <1>3 DEF Kept, Whole, Calm, Counted, Unsettled, Exists, NotBegun, Unregistered
<1> QED
    BY <1>1, <1>2, <1>4, <1>5, <1>6, <1>7 DEF Kept

LEMMA StartBeginsKeeps ==
  ASSUME TypeOK, TypeOK', NEW t \in Tasks, Kept(t),
         StartBegins(t)
  PROVE  /\ Kept(t)' /\ faults <= faults'
         /\ \A u \in Tasks \ {t} : Same(u)
<1> USE NoTaskFacts, InStatusFacts
    DEF TypeOK, Status, Ended, Active, Coroutine, StartBegins
<1>1. \A u \in Tasks \ {t} : Same(u)
      BY DEF Same, ArmTimer
<1>2. faults <= faults'
      OBVIOUS
<1>3. mem[t] \in Record /\ row[t] \in Record /\ Ensure(t) \in Record
      BY DEF Ensure
<1> USE DEF Ensure
<1>4. Whole(t)'
      BY <1>3 DEF Kept, Whole, Exists, Calm, Unregistered
<1>5. Watched(t)'
      BY <1>3
      DEF Kept, Whole, Watched, Unsettled, Visible, Exists, NotBegun, Unregistered, Calm
<1>6. Calm(t)'
      BY <1>3 DEF Kept, Whole, Calm, Exists, Unregistered, NotBegun
<1>7. Counted(t)'
      BY <1>3 DEF Kept, Whole, Calm, Counted, Unsettled, Exists, NotBegun, Unregistered
<1> QED
    BY <1>1, <1>2, <1>4, <1>5, <1>6, <1>7 DEF Kept

LEMMA SlotGrantedKeeps ==
  ASSUME TypeOK, TypeOK', NEW t \in Tasks, Kept(t),
         SlotGranted(t)
  PROVE  /\ Kept(t)' /\ faults <= faults'
         /\ \A u \in Tasks \ {t} : Same(u)
<1> USE NoTaskFacts, InStatusFacts
    DEF TypeOK, Status, Ended, Active, Coroutine, SlotGranted, Save
<1>1. \A u \in Tasks \ {t} : Same(u)
      BY DEF Same, ArmTimer
<1>2. faults <= faults'
      OBVIOUS
<1>3. mem[t] \in Record /\ row[t] \in Record /\ Ensure(t) \in Record
      BY DEF Ensure
<1> USE DEF Ensure
<1>4. Whole(t)'
      BY <1>3 DEF Kept, Whole, Exists, Calm, Unregistered
<1>5. Watched(t)'
      BY <1>3
      DEF Kept, Whole, Watched, Unsettled, Visible, Exists, NotBegun, Unregistered, Calm
<1>6. Calm(t)'
      BY <1>3 DEF Kept, Whole, Calm, Exists, Unregistered, NotBegun
<1>7. Counted(t)'
      BY <1>3 DEF Kept, Whole, Calm, Counted, Unsettled, Exists, NotBegun, Unregistered
<1> QED
    BY <1>1, <1>2, <1>4, <1>5, <1>6, <1>7 DEF Kept

LEMMA SlotGrantedInVainKeeps ==
  ASSUME TypeOK, TypeOK', NEW t \in Tasks, Kept(t),
         SlotGrantedInVain(t)
  PROVE  /\ Kept(t)' /\ faults <= faults'
         /\ \A u \in Tasks \ {t} : Same(u)
<1> USE NoTaskFacts, InStatusFacts
    DEF TypeOK, Status, Ended, Active, Coroutine, SlotGrantedInVain, RaiseFrom, Failed
<1>1. \A u \in Tasks \ {t} : Same(u)
      BY DEF Same, ArmTimer
<1>2. faults <= faults'
      OBVIOUS
<1>3. mem[t] \in Record /\ row[t] \in Record /\ Ensure(t) \in Record
      BY DEF Ensure
<1> USE DEF Ensure
<1>4. Whole(t)'
      BY <1>3 DEF Kept, Whole, Exists, Calm, Unregistered
<1>5. Watched(t)'
      BY <1>3
      DEF Kept, Whole, Watched, Unsettled, Visible, Exists, NotBegun, Unregistered, Calm
<1>6. Calm(t)'
      BY <1>3 DEF Kept, Whole, Calm, Exists, Unregistered, NotBegun
<1>7. Counted(t)'
      BY <1>3 DEF Kept, Whole, Calm, Counted, Unsettled, Exists, NotBegun, Unregistered
<1> QED
    BY <1>1, <1>2, <1>4, <1>5, <1>6, <1>7 DEF Kept

LEMMA ResumeBeginsKeeps ==
  ASSUME TypeOK, TypeOK', NEW t \in Tasks, Kept(t),
         ResumeBegins(t)
  PROVE  /\ Kept(t)' /\ faults <= faults'
         /\ \A u \in Tasks \ {t} : Same(u)
<1> USE NoTaskFacts, InStatusFacts
    DEF TypeOK, Status, Ended, Active, Coroutine, ResumeBegins, Save, ResumedRecord,
        MayResume
<1>1. \A u \in Tasks \ {t} : Same(u)
      BY DEF Same, ArmTimer
<1>2. faults <= faults'
      OBVIOUS
<1>3. mem[t] \in Record /\ row[t] \in Record /\ Ensure(t) \in Record
      BY DEF Ensure
<1> USE DEF Ensure
<1>4. Whole(t)'
      BY <1>3 DEF Kept, Whole, Exists, Calm, Unregistered
<1>5. Watched(t)'
      BY <1>3
      DEF Kept, Whole, Watched, Unsettled, Visible, Exists, NotBegun, Unregistered, Calm
<1>6. Calm(t)'
      BY <1>3 DEF Kept, Whole, Calm, Exists, Unregistered, NotBegun
<1>7. Counted(t)'
      BY <1>3 DEF Kept, Whole, Calm, Counted, Unsettled, Exists, NotBegun, Unregistered
<1> QED
    BY <1>1, <1>2, <1>4, <1>5, <1>6, <1>7 DEF Kept

LEMMA ResumeFailsKeeps ==
  ASSUME TypeOK, TypeOK', NEW t \in Tasks, Kept(t),
         ResumeFails(t)
  PROVE  /\ Kept(t)' /\ faults <= faults'
         /\ \A u \in Tasks \ {t} : Same(u)
<1> USE NoTaskFacts, InStatusFacts
    DEF TypeOK, Status, Ended, Active, Coroutine, ResumeFails, RaiseFrom, Failed,
        ResumedRecord, MayResume
<1>1. \A u \in Tasks \ {t} : Same(u)
      BY DEF Same, ArmTimer
<1>2. faults <= faults'
      OBVIOUS
<1>3. mem[t] \in Record /\ row[t] \in Record /\ Ensure(t) \in Record
      BY DEF Ensure
<1> USE DEF Ensure
<1>4. Whole(t)'
      BY <1>3 DEF Kept, Whole, Exists, Calm, Unregistered
<1>5. Watched(t)'
      BY <1>3
      DEF Kept, Whole, Watched, Unsettled, Visible, Exists, NotBegun, Unregistered, Calm
<1>6. Calm(t)'
      BY <1>3 DEF Kept, Whole, Calm, Exists, Unregistered, NotBegun
<1>7. Counted(t)'
      BY <1>3 DEF Kept, Whole, Calm, Counted, Unsettled, Exists, NotBegun, Unregistered
<1> QED
    BY <1>1, <1>2, <1>4, <1>5, <1>6, <1>7 DEF Kept

LEMMA LoopEndsKeeps ==
  ASSUME TypeOK, TypeOK', NEW t \in Tasks, Kept(t),
         LoopEnds(t)
  PROVE  /\ Kept(t)' /\ faults <= faults'
         /\ \A u \in Tasks \ {t} : Same(u)
<1> USE NoTaskFacts, InStatusFacts
    DEF TypeOK, Status, Ended, Active, Coroutine, LoopEnds, Save, ArmTimer, FinalStatus
<1>1. \A u \in Tasks \ {t} : Same(u)
      BY DEF Same, ArmTimer
<1>2. faults <= faults'
      OBVIOUS
<1>3. mem[t] \in Record /\ row[t] \in Record /\ Ensure(t) \in Record
      BY DEF Ensure
<1> USE DEF Ensure
<1>4. Whole(t)'
      BY <1>3 DEF Kept, Whole, Exists, Calm, Unregistered
<1>5. Watched(t)'
      BY <1>3
      DEF Kept, Whole, Watched, Unsettled, Visible, Exists, NotBegun, Unregistered, Calm
<1>6. Calm(t)'
      BY <1>3 DEF Kept, Whole, Calm, Exists, Unregistered, NotBegun
<1>7. Counted(t)'
      BY <1>3 DEF Kept, Whole, Calm, Counted, Unsettled, Exists, NotBegun, Unregistered
<1> QED
    BY <1>1, <1>2, <1>4, <1>5, <1>6, <1>7 DEF Kept

LEMMA LoopRaisesKeeps ==
  ASSUME TypeOK, TypeOK', NEW t \in Tasks, Kept(t),
         LoopRaises(t)
  PROVE  /\ Kept(t)' /\ faults <= faults'
         /\ \A u \in Tasks \ {t} : Same(u)
<1> USE NoTaskFacts, InStatusFacts
    DEF TypeOK, Status, Ended, Active, Coroutine, LoopRaises, RaiseFrom, Failed, FinalStatus
<1>1. \A u \in Tasks \ {t} : Same(u)
      BY DEF Same, ArmTimer
<1>2. faults <= faults'
      OBVIOUS
<1>3. mem[t] \in Record /\ row[t] \in Record /\ Ensure(t) \in Record
      BY DEF Ensure
<1> USE DEF Ensure
<1>4. Whole(t)'
      BY <1>3 DEF Kept, Whole, Exists, Calm, Unregistered
<1>5. Watched(t)'
      BY <1>3
      DEF Kept, Whole, Watched, Unsettled, Visible, Exists, NotBegun, Unregistered, Calm
<1>6. Calm(t)'
      BY <1>3 DEF Kept, Whole, Calm, Exists, Unregistered, NotBegun
<1>7. Counted(t)'
      BY <1>3 DEF Kept, Whole, Calm, Counted, Unsettled, Exists, NotBegun, Unregistered
<1> QED
    BY <1>1, <1>2, <1>4, <1>5, <1>6, <1>7 DEF Kept

LEMMA QueryTaskKeeps ==
  ASSUME TypeOK, TypeOK', NEW t \in Tasks, Kept(t),
         QueryTask(t)
  PROVE  /\ Kept(t)' /\ faults <= faults'
         /\ \A u \in Tasks \ {t} : Same(u)
<1> USE NoTaskFacts, InStatusFacts
    DEF TypeOK, Status, Ended, Active, Coroutine, QueryTask
<1>1. \A u \in Tasks \ {t} : Same(u)
      BY DEF Same, ArmTimer
<1>2. faults <= faults'
      OBVIOUS
<1>3. mem[t] \in Record /\ row[t] \in Record /\ Ensure(t) \in Record
      BY DEF Ensure
<1> USE DEF Ensure
<1>4. Whole(t)'
      BY <1>3 DEF Kept, Whole, Exists, Calm, Unregistered
<1>5. Watched(t)'
      BY <1>3
      DEF Kept, Whole, Watched, Unsettled, Visible, Exists, NotBegun, Unregistered, Calm
<1>6. Calm(t)'
      BY <1>3 DEF Kept, Whole, Calm, Exists, Unregistered, NotBegun
<1>7. Counted(t)'
      BY <1>3 DEF Kept, Whole, Calm, Counted, Unsettled, Exists, NotBegun, Unregistered
<1> QED
    BY <1>1, <1>2, <1>4, <1>5, <1>6, <1>7 DEF Kept

LEMMA CancelTaskKeeps ==
  ASSUME TypeOK, TypeOK', NEW t \in Tasks, Kept(t),
         CancelTask(t)
  PROVE  /\ Kept(t)' /\ faults <= faults'
         /\ \A u \in Tasks \ {t} : Same(u)
<1> USE NoTaskFacts, InStatusFacts
    DEF TypeOK, Status, Ended, Active, Coroutine, CancelTask, CallFails, Save, SaveFails,
        Cancelled
<1>1. \A u \in Tasks \ {t} : Same(u)
      BY DEF Same, ArmTimer
<1>2. faults <= faults'
      OBVIOUS
<1>3. mem[t] \in Record /\ row[t] \in Record /\ Ensure(t) \in Record
      BY DEF Ensure
<1> USE DEF Ensure
<1>4. Whole(t)'
      BY <1>3 DEF Kept, Whole, Exists, Calm, Unregistered
<1>5. Watched(t)'
      BY <1>3
      DEF Kept, Whole, Watched, Unsettled, Visible, Exists, NotBegun, Unregistered, Calm
<1>6. Calm(t)'
      BY <1>3 DEF Kept, Whole, Calm, Exists, Unregistered, NotBegun
<1>7. Counted(t)'
      BY <1>3 DEF Kept, Whole, Calm, Counted, Unsettled, Exists, NotBegun, Unregistered
<1> QED
    BY <1>1, <1>2, <1>4, <1>5, <1>6, <1>7 DEF Kept

LEMMA CancelQueuedTaskKeeps ==
  ASSUME TypeOK, TypeOK', NEW t \in Tasks, Kept(t),
         CancelQueuedTask(t)
  PROVE  /\ Kept(t)' /\ faults <= faults'
         /\ \A u \in Tasks \ {t} : Same(u)
<1> USE NoTaskFacts, InStatusFacts
    DEF TypeOK, Status, Ended, Active, Coroutine, CancelQueuedTask, CallFails, Save,
        SaveFails, Cancelled
<1>1. \A u \in Tasks \ {t} : Same(u)
      BY DEF Same, ArmTimer
<1>2. faults <= faults'
      OBVIOUS
<1>3. mem[t] \in Record /\ row[t] \in Record /\ Ensure(t) \in Record
      BY DEF Ensure
<1> USE DEF Ensure
<1>4. Whole(t)'
      BY <1>3 DEF Kept, Whole, Exists, Calm, Unregistered
<1>5. Watched(t)'
      BY <1>3
      DEF Kept, Whole, Watched, Unsettled, Visible, Exists, NotBegun, Unregistered, Calm
<1>6. Calm(t)'
      BY <1>3 DEF Kept, Whole, Calm, Exists, Unregistered, NotBegun
<1>7. Counted(t)'
      BY <1>3 DEF Kept, Whole, Calm, Counted, Unsettled, Exists, NotBegun, Unregistered
<1> QED
    BY <1>1, <1>2, <1>4, <1>5, <1>6, <1>7 DEF Kept

LEMMA PauseTaskKeeps ==
  ASSUME TypeOK, TypeOK', NEW t \in Tasks, Kept(t),
         PauseTask(t)
  PROVE  /\ Kept(t)' /\ faults <= faults'
         /\ \A u \in Tasks \ {t} : Same(u)
<1> USE NoTaskFacts, InStatusFacts
    DEF TypeOK, Status, Ended, Active, Coroutine, PauseTask, CallFails, Save, SaveFails
<1>1. \A u \in Tasks \ {t} : Same(u)
      BY DEF Same, ArmTimer
<1>2. faults <= faults'
      OBVIOUS
<1>3. mem[t] \in Record /\ row[t] \in Record /\ Ensure(t) \in Record
      BY DEF Ensure
<1> USE DEF Ensure
<1>4. Whole(t)'
      BY <1>3 DEF Kept, Whole, Exists, Calm, Unregistered
<1>5. Watched(t)'
      BY <1>3
      DEF Kept, Whole, Watched, Unsettled, Visible, Exists, NotBegun, Unregistered, Calm
<1>6. Calm(t)'
      BY <1>3 DEF Kept, Whole, Calm, Exists, Unregistered, NotBegun
<1>7. Counted(t)'
      BY <1>3 DEF Kept, Whole, Calm, Counted, Unsettled, Exists, NotBegun, Unregistered
<1> QED
    BY <1>1, <1>2, <1>4, <1>5, <1>6, <1>7 DEF Kept

LEMMA ResumeTaskKeeps ==
  ASSUME TypeOK, TypeOK', NEW t \in Tasks, Kept(t),
         ResumeTask(t)
  PROVE  /\ Kept(t)' /\ faults <= faults'
         /\ \A u \in Tasks \ {t} : Same(u)
<1> USE NoTaskFacts, InStatusFacts, ResumedByHandFacts
    DEF TypeOK, Status, Ended, Active, Coroutine, ResumeTask, CallFails, Save, SaveFails
<1>1. \A u \in Tasks \ {t} : Same(u)
      BY DEF Same, ArmTimer
<1>2. faults <= faults'
      OBVIOUS
<1>3. mem[t] \in Record /\ row[t] \in Record /\ Ensure(t) \in Record
      BY DEF Ensure
<1> USE DEF Ensure
<1>4. Whole(t)'
      BY <1>3 DEF Kept, Whole, Exists, Calm, Unregistered
<1>5. Watched(t)'
      BY <1>3
      DEF Kept, Whole, Watched, Unsettled, Visible, Exists, NotBegun, Unregistered, Calm
<1>6. Calm(t)'
      BY <1>3 DEF Kept, Whole, Calm, Exists, Unregistered, NotBegun
<1>7. Counted(t)'
      BY <1>3 DEF Kept, Whole, Calm, Counted, Unsettled, Exists, NotBegun, Unregistered
<1> QED
    BY <1>1, <1>2, <1>4, <1>5, <1>6, <1>7 DEF Kept

LEMMA ResumeCompletedTaskKeeps ==
  ASSUME TypeOK, TypeOK', NEW t \in Tasks, Kept(t),
         ResumeCompletedTask(t)
  PROVE  /\ Kept(t)' /\ faults <= faults'
         /\ \A u \in Tasks \ {t} : Same(u)
<1> USE NoTaskFacts, InStatusFacts, ResumedByHandFacts
    DEF TypeOK, Status, Ended, Active, Coroutine, ResumeCompletedTask, Save
<1>1. \A u \in Tasks \ {t} : Same(u)
      BY DEF Same, ArmTimer
<1>2. faults <= faults'
      OBVIOUS
<1>3. mem[t] \in Record /\ row[t] \in Record /\ Ensure(t) \in Record
      BY DEF Ensure
<1> USE DEF Ensure
<1>4. Whole(t)'
      BY <1>3 DEF Kept, Whole, Exists, Calm, Unregistered
<1>5. Watched(t)'
      BY <1>3
      DEF Kept, Whole, Watched, Unsettled, Visible, Exists, NotBegun, Unregistered, Calm
<1>6. Calm(t)'
      BY <1>3 DEF Kept, Whole, Calm, Exists, Unregistered, NotBegun
<1>7. Counted(t)'
      BY <1>3 DEF Kept, Whole, Calm, Counted, Unsettled, Exists, NotBegun, Unregistered
<1> QED
    BY <1>1, <1>2, <1>4, <1>5, <1>6, <1>7 DEF Kept

LEMMA RetryNodeKeeps ==
  ASSUME TypeOK, TypeOK', NEW t \in Tasks, Kept(t),
         RetryNode(t)
  PROVE  /\ Kept(t)' /\ faults <= faults'
         /\ \A u \in Tasks \ {t} : Same(u)
<1> USE NoTaskFacts, InStatusFacts
    DEF TypeOK, Status, Ended, Active, Coroutine, RetryNode, CallFails, Save, SaveFails
<1>1. \A u \in Tasks \ {t} : Same(u)
      BY DEF Same, ArmTimer
<1>2. faults <= faults'
      OBVIOUS
<1>3. mem[t] \in Record /\ row[t] \in Record /\ Ensure(t) \in Record
      BY DEF Ensure
<1> USE DEF Ensure
<1>4. Whole(t)'
      BY <1>3 DEF Kept, Whole, Exists, Calm, Unregistered
<1>5. Watched(t)'
      BY <1>3
      DEF Kept, Whole, Watched, Unsettled, Visible, Exists, NotBegun, Unregistered, Calm
<1>6. Calm(t)'
      BY <1>3 DEF Kept, Whole, Calm, Exists, Unregistered, NotBegun
<1>7. Counted(t)'
      BY <1>3 DEF Kept, Whole, Calm, Counted, Unsettled, Exists, NotBegun, Unregistered
<1> QED
    BY <1>1, <1>2, <1>4, <1>5, <1>6, <1>7 DEF Kept

LEMMA ResumeFromKeeps ==
  ASSUME TypeOK, TypeOK', NEW t \in Tasks, Kept(t), NEW kind \in {"resuming", "rerunning"},
         ResumeFrom(t, kind)
  PROVE  /\ Kept(t)' /\ faults <= faults'
         /\ \A u \in Tasks \ {t} : Same(u)
<1> USE NoTaskFacts, InStatusFacts
    DEF TypeOK, Status, Ended, Active, Coroutine, ResumeFrom
<1>1. \A u \in Tasks \ {t} : Same(u)
      BY DEF Same, ArmTimer
<1>2. faults <= faults'
      OBVIOUS
<1>3. mem[t] \in Record /\ row[t] \in Record /\ Ensure(t) \in Record
      BY DEF Ensure
<1> USE DEF Ensure
<1>4. Whole(t)'
      BY <1>3 DEF Kept, Whole, Exists, Calm, Unregistered
<1>5. Watched(t)'
      BY <1>3
      DEF Kept, Whole, Watched, Unsettled, Visible, Exists, NotBegun, Unregistered, Calm
<1>6. Calm(t)'
      BY <1>3 DEF Kept, Whole, Calm, Exists, Unregistered, NotBegun
<1>7. Counted(t)'
      BY <1>3 DEF Kept, Whole, Calm, Counted, Unsettled, Exists, NotBegun, Unregistered
<1> QED
    BY <1>1, <1>2, <1>4, <1>5, <1>6, <1>7 DEF Kept

LEMMA DeleteTaskKeeps ==
  ASSUME TypeOK, TypeOK', NEW t \in Tasks, Kept(t),
         DeleteTask(t)
  PROVE  /\ Kept(t)' /\ faults <= faults'
         /\ \A u \in Tasks \ {t} : Same(u)
<1> USE NoTaskFacts, InStatusFacts
    DEF TypeOK, Status, Ended, Active, Coroutine, DeleteTask
<1>1. \A u \in Tasks \ {t} : Same(u)
      BY DEF Same, ArmTimer
<1>2. faults <= faults'
      OBVIOUS
<1>3. mem[t] \in Record /\ row[t] \in Record /\ Ensure(t) \in Record
      BY DEF Ensure
<1> USE DEF Ensure
<1>4. Whole(t)'
      BY <1>3 DEF Kept, Whole, Exists, Calm, Unregistered
<1>5. Watched(t)'
      BY <1>3
      DEF Kept, Whole, Watched, Unsettled, Visible, Exists, NotBegun, Unregistered, Calm
<1>6. Calm(t)'
      BY <1>3 DEF Kept, Whole, Calm, Exists, Unregistered, NotBegun
<1>7. Counted(t)'
      BY <1>3 DEF Kept, Whole, Calm, Counted, Unsettled, Exists, NotBegun, Unregistered
<1> QED
    BY <1>1, <1>2, <1>4, <1>5, <1>6, <1>7 DEF Kept

LEMMA DeleteTaskFailsKeeps ==
  ASSUME TypeOK, TypeOK', NEW t \in Tasks, Kept(t),
         DeleteTaskFails(t)
  PROVE  /\ Kept(t)' /\ faults <= faults'
         /\ \A u \in Tasks \ {t} : Same(u)
<1> USE NoTaskFacts, InStatusFacts
    DEF TypeOK, Status, Ended, Active, Coroutine, DeleteTaskFails, Cancelled
<1>1. \A u \in Tasks \ {t} : Same(u)
      BY DEF Same, ArmTimer
<1>2. faults <= faults'
      OBVIOUS
<1>3. mem[t] \in Record /\ row[t] \in Record /\ Ensure(t) \in Record
      BY DEF Ensure
<1> USE DEF Ensure
<1>4. Whole(t)'
      BY <1>3 DEF Kept, Whole, Exists, Calm, Unregistered
<1>5. Watched(t)'
      BY <1>3
      DEF Kept, Whole, Watched, Unsettled, Visible, Exists, NotBegun, Unregistered, Calm
<1>6. Calm(t)'
      BY <1>3 DEF Kept, Whole, Calm, Exists, Unregistered, NotBegun
<1>7. Counted(t)'
      BY <1>3 DEF Kept, Whole, Calm, Counted, Unsettled, Exists, NotBegun, Unregistered
<1> QED
    BY <1>1, <1>2, <1>4, <1>5, <1>6, <1>7 DEF Kept

LEMMA TimerFiresKeeps ==
  ASSUME TypeOK, TypeOK', NEW t \in Tasks, Kept(t),
         TimerFires(t)
  PROVE  /\ Kept(t)' /\ faults <= faults'
         /\ \A u \in Tasks \ {t} : Same(u)
<1> USE NoTaskFacts, InStatusFacts
    DEF TypeOK, Status, Ended, Active, Coroutine, TimerFires, MayClean
<1>1. \A u \in Tasks \ {t} : Same(u)
      BY DEF Same, ArmTimer
<1>2. faults <= faults'
      OBVIOUS
<1>3. mem[t] \in Record /\ row[t] \in Record /\ Ensure(t) \in Record
      BY DEF Ensure
<1> USE DEF Ensure
<1>4. Whole(t)'
      BY <1>3 DEF Kept, Whole, Exists, Calm, Unregistered
<1>5. Watched(t)'
      BY <1>3
      DEF Kept, Whole, Watched, Unsettled, Visible, Exists, NotBegun, Unregistered, Calm
<1>6. Calm(t)'
      BY <1>3 DEF Kept, Whole, Calm, Exists, Unregistered, NotBegun
<1>7. Counted(t)'
      BY <1>3 DEF Kept, Whole, Calm, Counted, Unsettled, Exists, NotBegun, Unregistered
<1> QED
    BY <1>1, <1>2, <1>4, <1>5, <1>6, <1>7 DEF Kept

LEMMA TimerDropsKeeps ==
  ASSUME TypeOK, TypeOK', NEW t \in Tasks, Kept(t),
         TimerDrops(t)
  PROVE  /\ Kept(t)' /\ faults <= faults'
         /\ \A u \in Tasks \ {t} : Same(u)
<1> USE NoTaskFacts, InStatusFacts
    DEF TypeOK, Status, Ended, Active, Coroutine, TimerDrops
<1>1. \A u \in Tasks \ {t} : Same(u)
      BY DEF Same, ArmTimer
<1>2. faults <= faults'
      OBVIOUS
<1>3. mem[t] \in Record /\ row[t] \in Record /\ Ensure(t) \in Record
      BY DEF Ensure
<1> USE DEF Ensure
<1>4. Whole(t)'
      BY <1>3 DEF Kept, Whole, Exists, Calm, Unregistered
<1>5. Watched(t)'
      BY <1>3
      DEF Kept, Whole, Watched, Unsettled, Visible, Exists, NotBegun, Unregistered, Calm
<1>6. Calm(t)'
      BY <1>3 DEF Kept, Whole, Calm, Exists, Unregistered, NotBegun
<1>7. Counted(t)'
      BY <1>3 DEF Kept, Whole, Calm, Counted, Unsettled, Exists, NotBegun, Unregistered
<1> QED
    BY <1>1, <1>2, <1>4, <1>5, <1>6, <1>7 DEF Kept

LEMMA TimePassesKeeps ==
  ASSUME TypeOK, TypeOK', NEW t \in Tasks, Kept(t),
         TimePasses(t)
  PROVE  /\ Kept(t)' /\ faults <= faults'
         /\ \A u \in Tasks \ {t} : Same(u)
<1> USE NoTaskFacts, InStatusFacts
    DEF TypeOK, Status, Ended, Active, Coroutine, TimePasses
<1>1. \A u \in Tasks \ {t} : Same(u)
      BY DEF Same, ArmTimer
<1>2. faults <= faults'
      OBVIOUS
<1>3. mem[t] \in Record /\ row[t] \in Record /\ Ensure(t) \in Record
      BY DEF Ensure
<1> USE DEF Ensure
<1>4. Whole(t)'
      BY <1>3 DEF Kept, Whole, Exists, Calm, Unregistered
<1>5. Watched(t)'
      BY <1>3
      DEF Kept, Whole, Watched, Unsettled, Visible, Exists, NotBegun, Unregistered, Calm
<1>6. Calm(t)'
      BY <1>3 DEF Kept, Whole, Calm, Exists, Unregistered, NotBegun
<1>7. Counted(t)'
      BY <1>3 DEF Kept, Whole, Calm, Counted, Unsettled, Exists, NotBegun, Unregistered
<1> QED
    BY <1>1, <1>2, <1>4, <1>5, <1>6, <1>7 DEF Kept

----------------------------------------------------------------------------
(* The steps that touch several tasks.                                     *)

\* A sweep makes the view w of a task from the view v: no coroutine is made.
Untouched(v, w) == w.coro = v.coro /\ w.launch = v.launch /\ w.launches = v.launches

\* The task is loaded ...
IsLoaded(v, w) == Untouched(v, w) /\ w.mem = Found(v) /\ w.row = v.row

\* ... and cancelled or paused, for its schedule is over ...
IsStopped(v, w, fails) ==
  /\ Untouched(v, w)
  /\ Found(v).status \in Active
  /\ w.mem.status = IF Found(v).status = "scheduled" THEN "cancelled" ELSE "paused"
  /\ Exists(w.mem)
  /\ w.row = IF fails THEN v.row ELSE w.mem

\* ... or queued, but the save fails ...
IsQueuedInVain(v, w) ==
  /\ Untouched(v, w)
  /\ Found(v).status = "scheduled"
  /\ w.mem.status = "queued" /\ w.mem.ends = Found(v).ends /\ w.row = v.row

\* ... or launched.
IsLaunched(v, w) ==
  /\ ~v.launch /\ Found(v).status # "cancelled"
  /\ w.launch = TRUE /\ w.coro = "starting" /\ w.launches = v.launches + 1

(* The end of a schedule, after the record has been loaded.                *)
LEMMA EndCases ==
  ASSUME NEW v \in Views, NEW fails \in BOOLEAN
  PROVE  LET w == EndSchedule(Loaded(v), fails)
         IN /\ w \in Views
            /\ \/ IsLoaded(v, w) /\ Found(v).status \notin Active
               \/ IsStopped(v, w, fails)
<1> USE DEF Status, Active, Ended, IsLoaded, IsStopped
<1>1. Loaded(v) \in Views /\ Found(Loaded(v)) = Found(v) /\ Found(v) \in Record
      BY LoadedFacts, ViewFacts
<1>2. /\ InStatus(Found(v), "cancelled") \in Record
      /\ InStatus(Found(v), "cancelled").status = "cancelled"
      /\ Exists(InStatus(Found(v), "cancelled"))
      BY <1>1, InStatusFacts
<1>3. /\ InStatus(Found(v), "paused") \in Record
      /\ InStatus(Found(v), "paused").status = "paused"
      /\ Exists(InStatus(Found(v), "paused"))
      BY <1>1, InStatusFacts
<1>4. CASE Found(v).status \notin Active
      BY <1>1, <1>4, EndScheduleCases, LoadedFacts DEF Untouched
<1>5. CASE Found(v).status = "scheduled"
  <2>1. EndSchedule(Loaded(v), fails)
          = Written(Loaded(v), InStatus(Found(v), "cancelled"), fails)
        BY <1>1, <1>5, EndScheduleCases
  <2> QED
      BY <1>1, <1>2, <1>5, <2>1, LoadedFacts, WrittenFacts DEF Untouched
<1>6. CASE Found(v).status \in {"queued", "running"}
  <2>1. EndSchedule(Loaded(v), fails)
          = Written(Loaded(v), InStatus(Found(v), "paused"), fails)
        BY <1>1, <1>6, EndScheduleCases
  <2> QED
      BY <1>1, <1>3, <1>6, <2>1, LoadedFacts, WrittenFacts DEF Untouched
<1> QED
    BY <1>4, <1>5, <1>6

(* What is due is loaded, ended, or launched.                              *)
LEMMA LaunchCases ==
  ASSUME NEW t \in Tasks, NEW v \in Views, NEW fails \in BOOLEAN
  PROVE  LET w == LaunchDue(t, v, fails)
         IN /\ w \in Views
            /\ \/ w = v
               \/ /\ DueToStart(t, v)
                  /\ \/ IsLoaded(v, w)
                     \/ IsStopped(v, w, fails)
                     \/ /\ fails /\ IsQueuedInVain(v, w)
                        /\ ~(Found(v).ends /\ clock[t] = "after")
                     \/ /\ IsLaunched(v, w)
                        /\ \/ /\ Found(v).status # "scheduled"
                              /\ w.mem = Found(v) /\ w.row = v.row
                           \/ /\ Found(v).status = "scheduled" /\ ~fails
                              /\ w.mem.status = "queued" /\ w.row = w.mem
                              /\ ~(w.mem.ends /\ clock[t] = "after")
<1> USE DEF Status, Active, Ended, IsLoaded, IsStopped, IsQueuedInVain, IsLaunched
<1>1. Found(v) \in Record
      BY ViewFacts
<1>2. /\ InStatus(Found(v), "queued") \in Record
      /\ InStatus(Found(v), "queued").status = "queued"
      /\ InStatus(Found(v), "queued").ends = Found(v).ends
      BY <1>1, InStatusFacts
<1> DEFINE queued == IF Found(v).status = "scheduled"
                     THEN Written(v, InStatus(Found(v), "queued"), fails)
                     ELSE Loaded(v)
<1>3. /\ queued \in Views /\ Untouched(v, queued)
      /\ \/ Found(v).status # "scheduled" /\ queued.mem = Found(v) /\ queued.row = v.row
         \/ /\ Found(v).status = "scheduled"
            /\ queued.mem.status = "queued" /\ queued.mem.ends = Found(v).ends
            /\ queued.row = IF fails THEN v.row ELSE queued.mem
      BY <1>2, LoadedFacts, WrittenFacts DEF Untouched
<1>4. CASE ~DueToStart(t, v)
  <2>1. LaunchDue(t, v, fails) = v
        BY <1>4 DEF LaunchDue
  <2> QED
      BY <2>1
<1>5. CASE DueToStart(t, v) /\ (v.launch \/ Found(v).status = "cancelled")
  <2>1. LaunchDue(t, v, fails) = Loaded(v)
        BY <1>5 DEF LaunchDue
  <2> QED
      BY <1>5, <2>1, LoadedFacts DEF Untouched
<1>6. CASE /\ DueToStart(t, v) /\ ~(v.launch \/ Found(v).status = "cancelled")
           /\ Found(v).ends /\ clock[t] = "after"
  <2>1. LaunchDue(t, v, fails) = EndSchedule(Loaded(v), fails)
        BY <1>6 DEF LaunchDue
  <2> HIDE DEF queued
  <2> QED
      BY <1>6, <2>1, EndCases
<1>7. CASE /\ DueToStart(t, v) /\ ~(v.launch \/ Found(v).status = "cancelled")
           /\ ~(Found(v).ends /\ clock[t] = "after")
           /\ fails /\ Found(v).status = "scheduled"
  <2>1. LaunchDue(t, v, fails) = queued
        BY <1>7 DEF LaunchDue
  <2> HIDE DEF queued
  <2> QED
      BY <1>3, <1>7, <2>1
<1>8. CASE /\ DueToStart(t, v) /\ ~(v.launch \/ Found(v).status = "cancelled")
           /\ ~(Found(v).ends /\ clock[t] = "after")
           /\ ~(fails /\ Found(v).status = "scheduled")
  <2>1. LaunchDue(t, v, fails) = Launched(queued)
        BY <1>8 DEF LaunchDue
  <2> HIDE DEF queued
  <2> QED
    <3> DEFINE w == Launched(queued)
    <3>1. /\ w \in Views /\ w.mem = queued.mem /\ w.row = queued.row
          /\ w.launch = TRUE /\ w.coro = "starting" /\ w.launches = queued.launches + 1
          BY <1>3, LaunchedFacts
    <3>2. w.launches = v.launches + 1
          BY <1>3, <3>1 DEF Untouched
    <3> HIDE DEF w
    <3>3. DueToStart(t, v) /\ ~v.launch /\ Found(v).status # "cancelled"
          BY <1>8
    <3>4. \/ /\ Found(v).status # "scheduled"
             /\ w.mem = Found(v) /\ w.row = v.row
          \/ /\ Found(v).status = "scheduled" /\ ~fails
             /\ w.mem.status = "queued" /\ w.row = w.mem
             /\ ~(w.mem.ends /\ clock[t] = "after")
          BY <1>3, <1>8, <3>1
    <3>5. LaunchDue(t, v, fails) = w
          BY <2>1 DEF w
    <3> QED
        BY <3>1, <3>2, <3>3, <3>4, <3>5
<1> QED
    BY <1>4, <1>5, <1>6, <1>7, <1>8

\* The row, unlike the record, still has an end to its schedule.
EndsByRow(v) == ~Found(v).ends /\ v.row.ends /\ v.row.status \in Active

\* What a sweep makes of a task.  What it launches it may pause at once, when
\* the record and the row disagree about the end of the schedule.
Outcome(v, w, fails) ==
  \/ w = v
  \/ IsLoaded(v, w)
  \/ IsStopped(v, w, fails)
  \/ /\ fails /\ Untouched(v, w) /\ Found(v).status = "scheduled" /\ w.row = v.row
     /\ w.mem.status = "queued" \/ (w.mem.status = "paused" /\ EndsByRow(v))
  \/ /\ IsLaunched(v, w)
     /\ v.mem.status = "scheduled" \/ v.row.status = "scheduled"
     /\ \/ Found(v).status # "scheduled" /\ w.mem = Found(v) /\ w.row = v.row
        \/ Found(v).status = "scheduled" /\ w.mem.status = "queued" /\ w.row = w.mem
        \/ Found(v).status # "scheduled" /\ w.mem.status = "paused" /\ w.row = w.mem
        \/ fails /\ Found(v).status # "scheduled" /\ w.mem.status = "paused" /\ w.row = v.row

LEMMA SweptCases ==
  ASSUME TypeOK, NEW t \in Tasks, NEW fails \in BOOLEAN
  PROVE  Swept(t, fails) \in Views /\ Outcome(View(t), Swept(t, fails), fails)
<1> DEFINE v == View(t)
           l == LaunchDue(t, v, fails)
           w == Swept(t, fails)
<1>1. v \in Views /\ l \in Views /\ w \in Views
      BY SweptIsTyped
<1>2. DueToStart(t, v) => v.mem.status = "scheduled" \/ v.row.status = "scheduled"
      BY DEF DueToStart
<1>3. \/ w = l
      \/ /\ w = EndSchedule(Loaded(l), fails) /\ clock[t] = "after"
         /\ \/ l.mem.status \in Active /\ l.mem.ends
            \/ l.row.status \in Active /\ l.row.ends
      BY DEF Swept, EndDue, DueToEnd
<1>4. \/ w = l
      \/ /\ IsLoaded(l, w) /\ Found(l).status \notin Active
      \/ /\ IsStopped(l, w, fails) /\ clock[t] = "after"
         /\ \/ l.mem.status \in Active /\ l.mem.ends
            \/ l.row.status \in Active /\ l.row.ends
      BY <1>1, <1>3, EndCases
<1>5. ASSUME l.mem.status # "absent" PROVE Found(l) = l.mem
      BY <1>5, NoTaskFacts DEF Found, Exists
<1>6. ASSUME l.mem = Found(v), l.row = v.row PROVE Found(l) = Found(v)
      BY <1>6 DEF Found
<1>7. \/ l = v
      \/ /\ DueToStart(t, v)
         /\ \/ IsLoaded(v, l)
            \/ IsStopped(v, l, fails)
            \/ /\ fails /\ IsQueuedInVain(v, l)
               /\ ~(Found(v).ends /\ clock[t] = "after")
            \/ /\ IsLaunched(v, l)
               /\ \/ Found(v).status # "scheduled" /\ l.mem = Found(v) /\ l.row = v.row
                  \/ /\ Found(v).status = "scheduled" /\ ~fails
                     /\ l.mem.status = "queued" /\ l.row = l.mem
                     /\ ~(l.mem.ends /\ clock[t] = "after")
      BY <1>1, LaunchCases
<1> HIDE DEF v, l, w
<1>8. Outcome(v, w, fails)
  <2> USE DEF Outcome, IsLoaded, IsStopped, Untouched, Active
  <2>1. CASE l = v
        BY <1>4, <2>1
  <2>2. CASE IsLoaded(v, l)
        BY <1>4, <1>6, <2>2
  <2>3. CASE IsStopped(v, l, fails)
        BY <1>4, <1>5, <2>3
  <2>4. CASE /\ fails /\ IsQueuedInVain(v, l)
              /\ ~(Found(v).ends /\ clock[t] = "after")
        BY <1>4, <1>5, <2>4 DEF IsQueuedInVain, EndsByRow
  <2>5. CASE /\ DueToStart(t, v) /\ IsLaunched(v, l)
              /\ Found(v).status # "scheduled" /\ l.mem = Found(v) /\ l.row = v.row
        BY <1>2, <1>4, <1>6, <2>5 DEF IsLaunched
  <2>6. CASE /\ DueToStart(t, v) /\ IsLaunched(v, l)
              /\ Found(v).status = "scheduled" /\ ~fails
              /\ l.mem.status = "queued" /\ l.row = l.mem
              /\ ~(l.mem.ends /\ clock[t] = "after")
        BY <1>2, <1>4, <1>5, <2>6 DEF IsLaunched
  <2> QED
      BY <1>7, <2>1, <2>2, <2>3, <2>4, <2>5, <2>6
<1> QED
    BY <1>1, <1>8 DEF v, w

LEMMA SweepKeeps ==
  ASSUME TypeOK, NEW F \in SUBSET Tasks, SweepBy(F), NEW t \in Tasks, Kept(t)
  PROVE  Kept(t)'
<1> DEFINE v == View(t)
           w == Swept(t, t \in F)
<1>1. /\ v.mem = mem[t] /\ v.row = row[t] /\ v.coro = coro[t]
      /\ v.launch = (t \in launching) /\ v.launches = launches[t]
      /\ Found(v) = Ensure(t)
      BY DEF View, Found, Ensure
<1>2. w \in Views /\ Outcome(v, w, t \in F)
  <2>1. (t \in F) \in BOOLEAN
        OBVIOUS
  <2> QED
      BY <2>1, SweptCases, Zenon
<1>3. /\ mem'[t] = w.mem /\ row'[t] = w.row /\ coro'[t] = w.coro
      /\ launches'[t] = w.launches /\ (t \in launching' <=> w.launch)
      /\ t \in stranded' <=> (t \in stranded \/ t \in F) /\ w.coro = coro[t]
      /\ cache'[t] = cache[t] /\ dropping'[t] = dropping[t]
      BY DEF SweepBy
<1>4. /\ faults \in Nat /\ faults' \in Nat /\ faults <= faults'
      /\ t \in F => faults < faults'
  <2>1. Cardinality(F) \in Nat /\ (t \in F => Cardinality(F) # 0)
        BY SubsetsAreCounted
  <2>2. faults \in Nat /\ faults' = faults + Cardinality(F)
        BY StoreAssumption DEF TypeOK, SweepBy
  <2> QED
      BY <2>1, <2>2
<1>5. /\ mem[t] \in Record /\ row[t] \in Record /\ Ensure(t) \in Record
      /\ w.mem \in Record /\ w.row \in Record /\ launches[t] \in Nat
      /\ mem[t].status \in Status /\ row[t].status \in Status
      BY <1>2, ViewFacts, RecordFacts DEF TypeOK, Ensure
<1> HIDE DEF v, w
<1> USE NoTaskFacts DEF Outcome, IsLoaded, IsStopped, IsLaunched, Untouched, EndsByRow,
        Active, Ensure, Kept, Exists
<1>6. Whole(t)'
      BY <1>1, <1>2, <1>3, <1>5 DEF Whole
<1>7. Watched(t)'
      BY <1>1, <1>2, <1>3, <1>5 DEF Whole, Watched, Visible, Unsettled
<1>8. Calm(t)'
      BY <1>1, <1>2, <1>3, <1>4, <1>5 DEF Whole, Calm, Unregistered
<1>9. Counted(t)'
  <2> SUFFICES ASSUME faults' <= 1
      PROVE  /\ launches'[t] <= 1 + faults'
             /\ row'[t] = NoTask => launches'[t] = 0
             /\ mem'[t].status = "scheduled" => coro'[t] = "none"
             /\ row'[t].status = "scheduled" =>
                  \/ /\ mem'[t].status \in {"absent", "scheduled"}
                     /\ launches'[t] <= faults'
                     /\ coro'[t] = "none" /\ dropping'[t] = "absent"
                  \/ /\ faults' = 1 /\ mem'[t].status = "cancelled" /\ launches'[t] = 0
                     /\ coro'[t] = "none"
                  \/ /\ faults' = 1 /\ mem'[t].status \in Unsettled
                     /\ dropping'[t] = "absent"
                     /\ launches'[t] = 0 \/ (launches'[t] = 1 /\ t \in launching')
      BY DEF Counted
  <2>1. faults <= 1 /\ (t \in F => faults = 0 /\ faults' = 1)
        BY <1>4
  <2>2. CASE IsLaunched(v, w)
    <3>1. launches'[t] = launches[t] + 1 /\ t \in launching' /\ t \notin launching
          BY <1>1, <1>3, <2>2
    <3>2. launches'[t] <= 1 + faults'
          BY <1>1, <1>2, <1>3, <1>4, <1>5, <2>1, <2>2, <3>1 DEF Whole, Counted
    <3>3. row'[t] # NoTask /\ mem'[t].status # "scheduled"
          BY <1>1, <1>2, <1>3, <1>4, <1>5, <2>1, <2>2 DEF Whole, Counted
    <3>4. ASSUME row'[t].status = "scheduled"
          PROVE  /\ faults' = 1 /\ mem'[t].status \in Unsettled /\ dropping'[t] = "absent"
                 /\ launches'[t] = 1
          BY <1>1, <1>2, <1>3, <1>4, <1>5, <2>1, <2>2, <3>1, <3>4
          DEF Whole, Counted, Unsettled
    <3> QED
        BY <3>1, <3>2, <3>3, <3>4
  <2>3. CASE ~IsLaunched(v, w)
    <3>1. Untouched(v, w)
          BY <1>2, <2>3
    <3>2. launches'[t] = launches[t] /\ coro'[t] = coro[t] /\ (t \in launching' <=> t \in launching)
          BY <1>1, <1>3, <3>1
    <3>3. launches'[t] <= 1 + faults' /\ (row'[t] = NoTask => launches'[t] = 0)
          BY <1>1, <1>2, <1>3, <1>4, <1>5, <2>1, <2>3, <3>2 DEF Whole, Counted
    <3>4. mem'[t].status = "scheduled" => coro'[t] = "none"
          BY <1>1, <1>2, <1>3, <1>4, <1>5, <2>1, <2>3, <3>2 DEF Whole, Counted, Unsettled
    <3>5. ASSUME row'[t].status = "scheduled"
          PROVE  \/ /\ mem'[t].status \in {"absent", "scheduled"}
                    /\ launches'[t] <= faults'
                    /\ coro'[t] = "none" /\ dropping'[t] = "absent"
                 \/ /\ faults' = 1 /\ mem'[t].status = "cancelled" /\ launches'[t] = 0
                    /\ coro'[t] = "none"
                 \/ /\ faults' = 1 /\ mem'[t].status \in Unsettled
                    /\ dropping'[t] = "absent"
                    /\ launches'[t] = 0 \/ (launches'[t] = 1 /\ t \in launching')
          BY <1>1, <1>2, <1>3, <1>4, <1>5, <2>1, <2>3, <3>2, <3>5
          DEF Whole, Calm, Counted, Unsettled
    <3> QED
        BY <3>3, <3>4, <3>5
  <2> QED
      BY <2>2, <2>3
<1> QED
    BY <1>6, <1>7, <1>8, <1>9

LEMMA BatchKeeps ==
  ASSUME TypeOK, NEW S \in SUBSET Tasks, BatchStart(S), NEW t \in Tasks, Kept(t)
  PROVE  Kept(t)'
<1>1. CASE t \in S
  <2>1. /\ mem'[t] = Registered(FALSE) /\ row'[t] = Registered(FALSE)
        /\ coro'[t] = "starting" /\ launches'[t] = launches[t] + 1
        /\ launching' = launching
        /\ mem[t] = NoTask /\ row[t] = NoTask /\ coro[t] = "none"
        /\ cache'[t] = cache[t] /\ dropping'[t] = dropping[t] /\ faults' = faults
        BY <1>1 DEF BatchStart, Unused, MayRegister, Exists, TypeOK
  <2>2. Registered(FALSE).status = "running" /\ Exists(Registered(FALSE))
        BY RegisteredFacts
  <2>6. faults \in Nat /\ launches[t] \in Nat
        BY StoreAssumption DEF TypeOK
  <2> USE NoTaskFacts DEF Kept, Exists, Unsettled
  <2>3. Whole(t)' /\ Watched(t)'
        BY <2>1, <2>2 DEF Whole, Watched, Visible, Ensure
  <2>4. Calm(t)'
        BY <2>1, <2>2 DEF Whole, Calm
  <2>5. Counted(t)'
    <3>1. faults <= 1 => launches[t] = 0
          BY <2>1 DEF Counted
    <3>2. faults' <= 1 => launches'[t] <= 1 + faults'
          BY <2>1, <2>6, <3>1
    <3>3. row'[t] # NoTask /\ mem'[t].status = "running" /\ row'[t].status = "running"
          BY <2>1, <2>2
    <3> QED
        BY <3>2, <3>3 DEF Counted
  <2> QED
      BY <2>3, <2>4, <2>5
<1>2. CASE t \notin S
  <2>1. launches'[t] = launches[t]
        BY <1>2 DEF BatchStart, TypeOK
  <2>2. Same(t) /\ faults' = faults
        BY <1>2, <2>1 DEF Same, BatchStart
  <2>3. faults \in Nat /\ launches[t] \in Nat
        BY StoreAssumption DEF TypeOK
  <2> QED
      BY <2>2, <2>3, KeptIfSame
<1> QED
    BY <1>1, <1>2

LEMMA RestartKeeps ==
  ASSUME TypeOK, Restart, NEW t \in Tasks, Kept(t)
  PROVE  Kept(t)'
<1>1. /\ mem'[t] = NoTask /\ row'[t] = row[t] /\ cache'[t] = "absent"
      /\ coro'[t] = "none" /\ t \notin launching' /\ dropping'[t] = "absent"
      /\ launches'[t] = launches[t] /\ faults' = faults
      /\ t \in stranded' <=> row[t].status \in {"queued", "running"}
      BY DEF Restart
<1>2. faults \in Nat /\ launches[t] \in Nat
      BY StoreAssumption DEF TypeOK
<1> USE NoTaskFacts DEF Kept, Exists, Unsettled
<1>3. Whole(t)' /\ Watched(t)'
      BY <1>1 DEF Whole, Watched, Visible, Ensure
<1>4. Calm(t)'
      BY <1>1 DEF Calm
<1>5. Counted(t)'
      BY <1>1, <1>2 DEF Counted
<1> QED
    BY <1>3, <1>4, <1>5

(* Together.                                                               *)

LEMMA KeptInit == Init => KeptInv
  BY NoTaskFacts, StoreAssumption
  DEF Init, KeptInv, Kept, Whole, Watched, Calm, Counted, Visible, Ensure, Exists, Unsettled

LEMMA KeptIfOthersSame ==
  ASSUME TypeOK, TypeOK', KeptInv, NEW t \in Tasks, Kept(t)', faults <= faults',
         \A u \in Tasks \ {t} : Same(u)
  PROVE  KeptInv'
<1> SUFFICES ASSUME NEW u \in Tasks PROVE Kept(u)'
    BY DEF KeptInv
<1>1. faults \in Nat /\ faults' \in Nat /\ launches[u] \in Nat
      BY StoreAssumption DEF TypeOK
<1> QED
    BY <1>1, KeptIfSame DEF KeptInv

LEMMA KeptStep == TypeOK /\ TypeOK' /\ KeptInv /\ [Next]_vars => KeptInv' /\ faults <= faults'
<1> SUFFICES ASSUME TypeOK, TypeOK', KeptInv, [Next]_vars PROVE KeptInv' /\ faults <= faults'
    OBVIOUS
<1>0. ASSUME NEW t \in Tasks PROVE Kept(t)
      BY DEF KeptInv
<1>00. faults \in Nat
      BY StoreAssumption DEF TypeOK
<1>1. CASE Sweep
  <2>1. PICK F \in SUBSET Tasks : SweepBy(F)
        BY <1>1, SweepIsBySome
  <2>2. Cardinality(F) \in Nat /\ faults' = faults + Cardinality(F)
        BY <2>1, SubsetsAreCounted DEF SweepBy
  <2> QED
      BY <1>0, <1>00, <2>1, <2>2, SweepKeeps DEF KeptInv
<1>2. CASE Restart
  <2>1. KeptInv'
        BY <1>0, <1>2, RestartKeeps DEF KeptInv
  <2> QED
      BY <1>00, <1>2, <2>1 DEF Restart
<1>3. ASSUME NEW S \in SUBSET Tasks, BatchStart(S) PROVE KeptInv' /\ faults <= faults'
  <2>1. KeptInv'
        BY <1>0, <1>3, BatchKeeps DEF KeptInv
  <2> QED
      BY <1>00, <1>3, <2>1 DEF BatchStart
<1>4. ASSUME NEW t \in Tasks, NEW timed \in BOOLEAN, StartTask(t, timed)
      PROVE  KeptInv' /\ faults <= faults'
      BY <1>0, <1>4, StartTaskKeeps, KeptIfOthersSame
<1>5. ASSUME NEW t \in Tasks, NEW timed \in BOOLEAN, StartWithRefusedCallback(t, timed)
      PROVE  KeptInv' /\ faults <= faults'
      BY <1>0, <1>5, StartWithRefusedCallbackKeeps, KeptIfOthersSame
<1>6. ASSUME NEW t \in Tasks, NEW timed \in BOOLEAN, StartUnsaved(t, timed)
      PROVE  KeptInv' /\ faults <= faults'
      BY <1>0, <1>6, StartUnsavedKeeps, KeptIfOthersSame
<1>7. ASSUME NEW t \in Tasks, StartBegins(t)
      PROVE  KeptInv' /\ faults <= faults'
      BY <1>0, <1>7, StartBeginsKeeps, KeptIfOthersSame
<1>8. ASSUME NEW t \in Tasks, SlotGranted(t)
      PROVE  KeptInv' /\ faults <= faults'
      BY <1>0, <1>8, SlotGrantedKeeps, KeptIfOthersSame
<1>9. ASSUME NEW t \in Tasks, SlotGrantedInVain(t)
      PROVE  KeptInv' /\ faults <= faults'
      BY <1>0, <1>9, SlotGrantedInVainKeeps, KeptIfOthersSame
<1>10. ASSUME NEW t \in Tasks, ResumeBegins(t)
      PROVE  KeptInv' /\ faults <= faults'
      BY <1>0, <1>10, ResumeBeginsKeeps, KeptIfOthersSame
<1>11. ASSUME NEW t \in Tasks, ResumeFails(t)
      PROVE  KeptInv' /\ faults <= faults'
      BY <1>0, <1>11, ResumeFailsKeeps, KeptIfOthersSame
<1>12. ASSUME NEW t \in Tasks, LoopEnds(t)
      PROVE  KeptInv' /\ faults <= faults'
      BY <1>0, <1>12, LoopEndsKeeps, KeptIfOthersSame
<1>13. ASSUME NEW t \in Tasks, LoopRaises(t)
      PROVE  KeptInv' /\ faults <= faults'
      BY <1>0, <1>13, LoopRaisesKeeps, KeptIfOthersSame
<1>14. ASSUME NEW t \in Tasks, QueryTask(t)
      PROVE  KeptInv' /\ faults <= faults'
      BY <1>0, <1>14, QueryTaskKeeps, KeptIfOthersSame
<1>15. ASSUME NEW t \in Tasks, CancelTask(t)
      PROVE  KeptInv' /\ faults <= faults'
      BY <1>0, <1>15, CancelTaskKeeps, KeptIfOthersSame
<1>16. ASSUME NEW t \in Tasks, CancelQueuedTask(t)
      PROVE  KeptInv' /\ faults <= faults'
      BY <1>0, <1>16, CancelQueuedTaskKeeps, KeptIfOthersSame
<1>17. ASSUME NEW t \in Tasks, PauseTask(t)
      PROVE  KeptInv' /\ faults <= faults'
      BY <1>0, <1>17, PauseTaskKeeps, KeptIfOthersSame
<1>18. ASSUME NEW t \in Tasks, ResumeTask(t)
      PROVE  KeptInv' /\ faults <= faults'
      BY <1>0, <1>18, ResumeTaskKeeps, KeptIfOthersSame
<1>19. ASSUME NEW t \in Tasks, ResumeCompletedTask(t)
      PROVE  KeptInv' /\ faults <= faults'
      BY <1>0, <1>19, ResumeCompletedTaskKeeps, KeptIfOthersSame
<1>20. ASSUME NEW t \in Tasks, RetryNode(t)
      PROVE  KeptInv' /\ faults <= faults'
      BY <1>0, <1>20, RetryNodeKeeps, KeptIfOthersSame
<1>21. ASSUME NEW t \in Tasks, NEW kind \in {"resuming", "rerunning"}, ResumeFrom(t, kind)
      PROVE  KeptInv' /\ faults <= faults'
      BY <1>0, <1>21, ResumeFromKeeps, KeptIfOthersSame
<1>22. ASSUME NEW t \in Tasks, DeleteTask(t)
      PROVE  KeptInv' /\ faults <= faults'
      BY <1>0, <1>22, DeleteTaskKeeps, KeptIfOthersSame
<1>23. ASSUME NEW t \in Tasks, DeleteTaskFails(t)
      PROVE  KeptInv' /\ faults <= faults'
      BY <1>0, <1>23, DeleteTaskFailsKeeps, KeptIfOthersSame
<1>24. ASSUME NEW t \in Tasks, TimerFires(t)
      PROVE  KeptInv' /\ faults <= faults'
      BY <1>0, <1>24, TimerFiresKeeps, KeptIfOthersSame
<1>25. ASSUME NEW t \in Tasks, TimerDrops(t)
      PROVE  KeptInv' /\ faults <= faults'
      BY <1>0, <1>25, TimerDropsKeeps, KeptIfOthersSame
<1>26. ASSUME NEW t \in Tasks, TimePasses(t)
      PROVE  KeptInv' /\ faults <= faults'
      BY <1>0, <1>26, TimePassesKeeps, KeptIfOthersSame
<1>27. CASE UNCHANGED vars
  <2> SUFFICES ASSUME NEW t \in Tasks PROVE Kept(t)'
      BY <1>00, <1>27 DEF KeptInv, vars
  <2>1. Same(t) /\ faults' = faults
        BY <1>27 DEF vars, Same
  <2>2. faults \in Nat /\ launches[t] \in Nat
        BY StoreAssumption DEF TypeOK
  <2> QED
      BY <1>0, <2>1, <2>2, KeptIfSame
<1> QED
    BY <1>1, <1>2, <1>3, <1>4, <1>5, <1>6, <1>7, <1>8, <1>9, <1>10, <1>11, <1>12, <1>13,
       <1>14, <1>15, <1>16, <1>17, <1>18, <1>19, <1>20, <1>21, <1>22, <1>23, <1>24,
       <1>25, <1>26, <1>27
    DEF Next

LEMMA KeptHolds == Spec => [](TypeOK /\ KeptInv)
<1>1. Init => TypeOK /\ KeptInv
      BY TypeInit, KeptInit
<1>2. TypeOK /\ KeptInv /\ [Next]_vars => TypeOK' /\ KeptInv'
      BY TypeStep, KeptStep
<1> QED
    BY <1>1, <1>2, PTL DEF Spec

(* The store is typed, the memory and the row of a task only differ by     *)
(* what was not saved, and no task is started twice.                       *)
THEOREM StoreIsSound == Spec => []StoreInvariant
<1>1. TypeOK /\ KeptInv => StoreInvariant
  <2> SUFFICES ASSUME TypeOK, KeptInv PROVE Coherent /\ StartedOnce
      BY DEF StoreInvariant
  <2>1. faults \in Nat
        BY StoreAssumption DEF TypeOK
  <2>2. Coherent
        BY <2>1 DEF KeptInv, Kept, Calm, Coherent, Exists
  <2>3. StartedOnce
        BY DEF KeptInv, Kept, Counted, StartedOnce
  <2> QED
      BY <2>2, <2>3
<1> QED
    BY <1>1, KeptHolds, PTL

(* No task is said to be queued or running without a coroutine, but those  *)
(* a restart, a refusal or a failed save is known to have left behind.     *)
THEOREM UnattendedAreKnown == Spec => []UnattendedIsKnown
<1>1. TypeOK /\ KeptInv => UnattendedIsKnown
      BY DEF KeptInv, Kept, Watched, UnattendedIsKnown, Unsettled
<1> QED
    BY <1>1, KeptHolds, PTL

----------------------------------------------------------------------------
(* A saved cancellation.                                                   *)

CancelStays(t) ==
  (/\ row[t].status = "cancelled"
   /\ Visible(t) = "cancelled"
   /\ row'[t].status \notin {"cancelled", "absent"})
  => "resuming" \in {coro[t], coro'[t]} \/ "rerunning" \in {coro[t], coro'[t]}

LEMMA CancelStep == TypeOK /\ [Next]_vars => \A u \in Tasks : CancelStays(u)
<1> SUFFICES ASSUME TypeOK, [Next]_vars,
                    NEW u \in Tasks, row[u].status = "cancelled", Visible(u) = "cancelled",
                    row'[u].status \notin {"cancelled", "absent"}
             PROVE  "resuming" \in {coro[u], coro'[u]} \/ "rerunning" \in {coro[u], coro'[u]}
    BY DEF CancelStays
<1>0. /\ mem[u] \in Record /\ row[u] \in Record /\ Ensure(u) \in Record
      /\ row[u] # NoTask /\ Ensure(u).status = "cancelled"
      /\ mem[u] # NoTask => mem[u].status = "cancelled"
      BY NoTaskFacts DEF TypeOK, Ensure, Visible, Exists
<1> USE NoTaskFacts, InStatusFacts DEF TypeOK, Exists, Status, Ended, Active
<1>1. CASE Sweep
  <2>1. PICK F \in SUBSET Tasks : SweepBy(F)
        BY <1>1, SweepIsBySome
  <2> DEFINE w == Swept(u, u \in F)
  <2>2. Outcome(View(u), w, u \in F)
    <3>1. (u \in F) \in BOOLEAN
          OBVIOUS
    <3> QED
        BY <3>1, SweptCases, Zenon
  <2>3. View(u).row = row[u] /\ Found(View(u)) = Ensure(u)
        BY DEF View, Found, Ensure
  <2>4. row'[u] = w.row
        BY <2>1 DEF SweepBy
  <2> HIDE DEF w
  <2> QED
      BY <1>0, <2>2, <2>3, <2>4 DEF Outcome, IsLoaded, IsStopped, IsLaunched
<1>2. CASE Restart
      BY <1>2 DEF Restart
<1>3. ASSUME NEW S \in SUBSET Tasks, BatchStart(S)
      PROVE  "resuming" \in {coro[u], coro'[u]} \/ "rerunning" \in {coro[u], coro'[u]}
      BY <1>0, <1>3 DEF BatchStart, Unused, MayRegister
<1>4. ASSUME NEW t \in Tasks, NEW timed \in BOOLEAN, StartTask(t, timed)
      PROVE  "resuming" \in {coro[u], coro'[u]} \/ "rerunning" \in {coro[u], coro'[u]}
      BY <1>0, <1>4, RegisteredFacts DEF StartTask, Save, Unused, MayRegister
<1>5. ASSUME NEW t \in Tasks, NEW timed \in BOOLEAN, StartWithRefusedCallback(t, timed)
      PROVE  "resuming" \in {coro[u], coro'[u]} \/ "rerunning" \in {coro[u], coro'[u]}
      BY <1>0, <1>5, RegisteredFacts DEF StartWithRefusedCallback, Save, Unused, MayRegister
<1>6. ASSUME NEW t \in Tasks, NEW timed \in BOOLEAN, StartUnsaved(t, timed)
      PROVE  "resuming" \in {coro[u], coro'[u]} \/ "rerunning" \in {coro[u], coro'[u]}
      BY <1>0, <1>6, RegisteredFacts DEF StartUnsaved, SaveFails, Unused, MayRegister
<1>7. ASSUME NEW t \in Tasks, StartBegins(t)
      PROVE  "resuming" \in {coro[u], coro'[u]} \/ "rerunning" \in {coro[u], coro'[u]}
      BY <1>0, <1>7 DEF StartBegins
<1>8. ASSUME NEW t \in Tasks, SlotGranted(t)
      PROVE  "resuming" \in {coro[u], coro'[u]} \/ "rerunning" \in {coro[u], coro'[u]}
      BY <1>0, <1>8 DEF SlotGranted, Save
<1>9. ASSUME NEW t \in Tasks, SlotGrantedInVain(t)
      PROVE  "resuming" \in {coro[u], coro'[u]} \/ "rerunning" \in {coro[u], coro'[u]}
      BY <1>0, <1>9 DEF SlotGrantedInVain, RaiseFrom, Failed
<1>10. ASSUME NEW t \in Tasks, ResumeBegins(t)
      PROVE  "resuming" \in {coro[u], coro'[u]} \/ "rerunning" \in {coro[u], coro'[u]}
      BY <1>0, <1>10 DEF ResumeBegins, Save, ResumedRecord
<1>11. ASSUME NEW t \in Tasks, ResumeFails(t)
      PROVE  "resuming" \in {coro[u], coro'[u]} \/ "rerunning" \in {coro[u], coro'[u]}
      BY <1>0, <1>11 DEF ResumeFails, RaiseFrom, Failed, ResumedRecord
<1>12. ASSUME NEW t \in Tasks, LoopEnds(t)
      PROVE  "resuming" \in {coro[u], coro'[u]} \/ "rerunning" \in {coro[u], coro'[u]}
      BY <1>0, <1>12 DEF LoopEnds, Save, FinalStatus
<1>13. ASSUME NEW t \in Tasks, LoopRaises(t)
      PROVE  "resuming" \in {coro[u], coro'[u]} \/ "rerunning" \in {coro[u], coro'[u]}
      BY <1>0, <1>13 DEF LoopRaises, RaiseFrom, Failed, FinalStatus
<1>14. ASSUME NEW t \in Tasks, QueryTask(t)
      PROVE  "resuming" \in {coro[u], coro'[u]} \/ "rerunning" \in {coro[u], coro'[u]}
      BY <1>0, <1>14 DEF QueryTask
<1>15. ASSUME NEW t \in Tasks, CancelTask(t)
      PROVE  "resuming" \in {coro[u], coro'[u]} \/ "rerunning" \in {coro[u], coro'[u]}
      BY <1>0, <1>15 DEF CancelTask, CallFails, Save, SaveFails, Cancelled
<1>16. ASSUME NEW t \in Tasks, CancelQueuedTask(t)
      PROVE  "resuming" \in {coro[u], coro'[u]} \/ "rerunning" \in {coro[u], coro'[u]}
      BY <1>0, <1>16 DEF CancelQueuedTask, CallFails, Save, SaveFails, Cancelled
<1>17. ASSUME NEW t \in Tasks, PauseTask(t)
      PROVE  "resuming" \in {coro[u], coro'[u]} \/ "rerunning" \in {coro[u], coro'[u]}
      BY <1>0, <1>17 DEF PauseTask, CallFails, Save, SaveFails
<1>18. ASSUME NEW t \in Tasks, ResumeTask(t)
      PROVE  "resuming" \in {coro[u], coro'[u]} \/ "rerunning" \in {coro[u], coro'[u]}
      BY <1>0, <1>18, ResumedByHandFacts DEF ResumeTask, CallFails, Save, SaveFails
<1>19. ASSUME NEW t \in Tasks, ResumeCompletedTask(t)
      PROVE  "resuming" \in {coro[u], coro'[u]} \/ "rerunning" \in {coro[u], coro'[u]}
      BY <1>0, <1>19, ResumedByHandFacts DEF ResumeCompletedTask, Save
<1>20. ASSUME NEW t \in Tasks, RetryNode(t)
      PROVE  "resuming" \in {coro[u], coro'[u]} \/ "rerunning" \in {coro[u], coro'[u]}
      BY <1>0, <1>20 DEF RetryNode, CallFails, Save, SaveFails
<1>21. ASSUME NEW t \in Tasks, NEW kind \in {"resuming", "rerunning"}, ResumeFrom(t, kind)
      PROVE  "resuming" \in {coro[u], coro'[u]} \/ "rerunning" \in {coro[u], coro'[u]}
      BY <1>0, <1>21 DEF ResumeFrom
<1>22. ASSUME NEW t \in Tasks, DeleteTask(t)
      PROVE  "resuming" \in {coro[u], coro'[u]} \/ "rerunning" \in {coro[u], coro'[u]}
      BY <1>0, <1>22 DEF DeleteTask
<1>23. ASSUME NEW t \in Tasks, DeleteTaskFails(t)
      PROVE  "resuming" \in {coro[u], coro'[u]} \/ "rerunning" \in {coro[u], coro'[u]}
      BY <1>0, <1>23 DEF DeleteTaskFails, Cancelled
<1>24. ASSUME NEW t \in Tasks, TimerFires(t)
      PROVE  "resuming" \in {coro[u], coro'[u]} \/ "rerunning" \in {coro[u], coro'[u]}
      BY <1>0, <1>24 DEF TimerFires, MayClean
<1>25. ASSUME NEW t \in Tasks, TimerDrops(t)
      PROVE  "resuming" \in {coro[u], coro'[u]} \/ "rerunning" \in {coro[u], coro'[u]}
      BY <1>0, <1>25 DEF TimerDrops
<1>26. ASSUME NEW t \in Tasks, TimePasses(t)
      PROVE  "resuming" \in {coro[u], coro'[u]} \/ "rerunning" \in {coro[u], coro'[u]}
      BY <1>0, <1>26 DEF TimePasses
<1>27. CASE UNCHANGED vars
      BY <1>27 DEF vars
<1> QED
    BY <1>1, <1>2, <1>3, <1>4, <1>5, <1>6, <1>7, <1>8, <1>9, <1>10, <1>11, <1>12, <1>13,
       <1>14, <1>15, <1>16, <1>17, <1>18, <1>19, <1>20, <1>21, <1>22, <1>23, <1>24,
       <1>25, <1>26, <1>27
    DEF Next

(* A saved cancellation is overwritten by nothing but a run that was asked *)
(* for: no step of the program brings a cancelled task back by itself.     *)
THEOREM CancellationSticks == Spec => CancelSticks
<1>1. TypeOK /\ [Next]_vars =>
        [\A t \in Tasks :
           (/\ row[t].status = "cancelled"
            /\ Visible(t) = "cancelled"
            /\ row'[t].status \notin {"cancelled", "absent"})
           => "resuming" \in {coro[t], coro'[t]} \/ "rerunning" \in {coro[t], coro'[t]}]_vars
      BY CancelStep DEF CancelStays
<1> QED
    BY <1>1, TypeCorrect, PTL DEF Spec, CancelSticks

----------------------------------------------------------------------------
(* The register.  A step after which a write has failed is Register!Fail;  *)
(* the deletion of a task is Register!Delete; every other step moves the   *)
(* answers along Follows, or leaves them.                                  *)

Answers == [u \in Tasks |-> Visible(u)]

Moves(u) == Visible(u)' = Visible(u) \/ Visible(u)' \in Register!Follows(Visible(u))

LEMMA VisibleIsStatus ==
  ASSUME TypeOK', NEW u \in Tasks
  PROVE  Visible(u)' \in Register!Status
<1>1. mem'[u] \in Record /\ row'[u] \in Record /\ cache'[u] \in {"absent"} \cup Ended
      BY DEF TypeOK
<1>2. mem'[u].status \in Status /\ row'[u].status \in Status
      BY <1>1, RecordFacts
<1> QED
    BY <1>1, <1>2 DEF Visible, Ensure, Exists, Status, Ended, Active,
       Register!Status, Register!Ended

LEMMA MovesIfSame ==
  ASSUME NEW u \in Tasks, Same(u)
  PROVE  Moves(u)
  BY DEF Same, Moves, Visible, Ensure

LEMMA QuietStep ==
  ASSUME TypeOK, TypeOK', KeptInv, KeptInv', [Next]_vars, faults' = 0,
         ~Restart, \A t \in Tasks : ~DeleteTask(t)
  PROVE  \A u \in Tasks : Moves(u)
<1>0. ASSUME NEW t \in Tasks
      PROVE  /\ mem[t] \in Record /\ row[t] \in Record /\ Ensure(t) \in Record
             /\ Kept(t) /\ Kept(t)'
             /\ Whole(t) /\ Whole(t)' /\ Calm(t) /\ Calm(t)'
             /\ mem[t].status \in Status /\ row[t].status \in Status
             /\ cache[t] \in {"absent"} \cup Ended
  BY RecordFacts DEF TypeOK, KeptInv, Kept, Ensure
<1>00. faults = 0
  <2>1. faults \in Nat /\ faults <= faults'
        BY StoreAssumption, KeptStep DEF TypeOK
  <2> QED
      BY <2>1
<1>1. CASE Sweep
  <2>1. PICK F \in SUBSET Tasks : SweepBy(F)
        BY <1>1, SweepIsBySome
  <2>2. Cardinality(F) \in Nat /\ (Cardinality(F) = 0 <=> F = {})
        BY SubsetsAreCounted
  <2>3. F = {} /\ faults = 0
        BY <1>00, <2>1, <2>2 DEF SweepBy
  <2> SUFFICES ASSUME NEW u \in Tasks PROVE Moves(u)
      OBVIOUS
  <2> DEFINE w == Swept(u, FALSE)
  <2>4. w \in Views /\ Outcome(View(u), w, FALSE)
        BY SweptCases
  <2>5. /\ View(u).row = row[u] /\ Found(View(u)) = Ensure(u) /\ View(u).mem = mem[u]
        BY DEF View, Found, Ensure
  <2>6. (u \in F) = FALSE
        BY <2>3
  <2>7. row'[u] = w.row /\ mem'[u] = w.mem /\ cache'[u] = cache[u]
        BY <2>1, <2>6 DEF SweepBy
  <2> HIDE DEF w
  <2> QED
      BY <1>0, <2>3, <2>4, <2>5, <2>7, NoTaskFacts
      DEF Outcome, IsLoaded, IsStopped, IsLaunched, Moves, Visible, Ensure, Exists, Active,
          Register!Follows, Register!Ended, Whole, Calm
<1>2. CASE Restart
      BY <1>2
<1>3. ASSUME NEW S \in SUBSET Tasks, BatchStart(S)
      PROVE  \A u \in Tasks : Moves(u)
  <2> SUFFICES ASSUME NEW u \in Tasks PROVE Moves(u)
      OBVIOUS
  <2> QED
      BY <1>0, <1>00, <1>3, NoTaskFacts, RegisteredFacts
      DEF BatchStart, Unused, MayRegister, Moves, Visible, Ensure, Exists, Calm,
          Register!Follows
<1>4. ASSUME NEW t \in Tasks, NEW timed \in BOOLEAN, StartTask(t, timed)
      PROVE  \A u \in Tasks : Moves(u)
  <2>1. \A u \in Tasks \ {t} : Moves(u)
        BY <1>0, <1>4, StartTaskKeeps, MovesIfSame
  <2>2. Moves(t)
        BY <1>0, <1>00, <1>4, NoTaskFacts, InStatusFacts, RegisteredFacts
        DEF StartTask, Save, Unused, MayRegister, TypeOK, Status, Ended, Active, Moves,
            Visible, Ensure, Exists,
            Register!Follows, Register!Ended, Whole, Calm, Unregistered
  <2> QED
      BY <2>1, <2>2
<1>5. ASSUME NEW t \in Tasks, NEW timed \in BOOLEAN, StartWithRefusedCallback(t, timed)
      PROVE  \A u \in Tasks : Moves(u)
  <2>1. \A u \in Tasks \ {t} : Moves(u)
        BY <1>0, <1>5, StartWithRefusedCallbackKeeps, MovesIfSame
  <2>2. Moves(t)
        BY <1>0, <1>00, <1>5, NoTaskFacts, InStatusFacts, RegisteredFacts
        DEF StartWithRefusedCallback, Save, Unused, MayRegister, TypeOK, Status, Ended,
            Active, Moves, Visible, Ensure, Exists,
            Register!Follows, Register!Ended, Whole, Calm, Unregistered
  <2> QED
      BY <2>1, <2>2
<1>6. ASSUME NEW t \in Tasks, NEW timed \in BOOLEAN, StartUnsaved(t, timed)
      PROVE  \A u \in Tasks : Moves(u)
  <2>1. \A u \in Tasks \ {t} : Moves(u)
        BY <1>0, <1>6, StartUnsavedKeeps, MovesIfSame
  <2>2. Moves(t)
        BY <1>0, <1>00, <1>6, NoTaskFacts, InStatusFacts, RegisteredFacts
        DEF StartUnsaved, SaveFails, Unused, MayRegister, TypeOK, Status, Ended, Active,
            Moves, Visible, Ensure, Exists,
            Register!Follows, Register!Ended, Whole, Calm, Unregistered
  <2> QED
      BY <2>1, <2>2
<1>7. ASSUME NEW t \in Tasks, StartBegins(t)
      PROVE  \A u \in Tasks : Moves(u)
  <2>1. \A u \in Tasks \ {t} : Moves(u)
        BY <1>0, <1>7, StartBeginsKeeps, MovesIfSame
  <2>2. Moves(t)
        BY <1>0, <1>00, <1>7, NoTaskFacts, InStatusFacts
        DEF StartBegins, TypeOK, Status, Ended, Active, Moves, Visible, Ensure, Exists,
            Register!Follows, Register!Ended, Whole, Calm, Unregistered
  <2> QED
      BY <2>1, <2>2
<1>8. ASSUME NEW t \in Tasks, SlotGranted(t)
      PROVE  \A u \in Tasks : Moves(u)
  <2>1. \A u \in Tasks \ {t} : Moves(u)
        BY <1>0, <1>8, SlotGrantedKeeps, MovesIfSame
  <2>2. Moves(t)
        BY <1>0, <1>00, <1>8, NoTaskFacts, InStatusFacts
        DEF SlotGranted, Save, TypeOK, Status, Ended, Active, Moves, Visible, Ensure,
            Exists,
            Register!Follows, Register!Ended, Whole, Calm, Unregistered
  <2> QED
      BY <2>1, <2>2
<1>9. ASSUME NEW t \in Tasks, SlotGrantedInVain(t)
      PROVE  \A u \in Tasks : Moves(u)
  <2>1. \A u \in Tasks \ {t} : Moves(u)
        BY <1>0, <1>9, SlotGrantedInVainKeeps, MovesIfSame
  <2>2. Moves(t)
        BY <1>0, <1>00, <1>9, NoTaskFacts, InStatusFacts
        DEF SlotGrantedInVain, RaiseFrom, Failed, TypeOK, Status, Ended, Active, Moves,
            Visible, Ensure, Exists,
            Register!Follows, Register!Ended, Whole, Calm, Unregistered
  <2> QED
      BY <2>1, <2>2
<1>10. ASSUME NEW t \in Tasks, ResumeBegins(t)
      PROVE  \A u \in Tasks : Moves(u)
  <2>1. \A u \in Tasks \ {t} : Moves(u)
        BY <1>0, <1>10, ResumeBeginsKeeps, MovesIfSame
  <2>2. Moves(t)
        BY <1>0, <1>00, <1>10, NoTaskFacts, InStatusFacts
        DEF ResumeBegins, Save, ResumedRecord, MayResume, TypeOK, Status, Ended, Active,
            Moves, Visible, Ensure, Exists,
            Register!Follows, Register!Ended, Whole, Calm, Unregistered
  <2> QED
      BY <2>1, <2>2
<1>11. ASSUME NEW t \in Tasks, ResumeFails(t)
      PROVE  \A u \in Tasks : Moves(u)
  <2>1. \A u \in Tasks \ {t} : Moves(u)
        BY <1>0, <1>11, ResumeFailsKeeps, MovesIfSame
  <2>2. Moves(t)
        BY <1>0, <1>00, <1>11, NoTaskFacts, InStatusFacts
        DEF ResumeFails, RaiseFrom, Failed, ResumedRecord, MayResume, TypeOK, Status,
            Ended, Active, Moves, Visible, Ensure, Exists,
            Register!Follows, Register!Ended, Whole, Calm, Unregistered
  <2> QED
      BY <2>1, <2>2
<1>12. ASSUME NEW t \in Tasks, LoopEnds(t)
      PROVE  \A u \in Tasks : Moves(u)
  <2>1. \A u \in Tasks \ {t} : Moves(u)
        BY <1>0, <1>12, LoopEndsKeeps, MovesIfSame
  <2>2. Moves(t)
        BY <1>0, <1>00, <1>12, NoTaskFacts, InStatusFacts
        DEF LoopEnds, Save, ArmTimer, FinalStatus, TypeOK, Status, Ended, Active, Moves,
            Visible, Ensure, Exists,
            Register!Follows, Register!Ended, Whole, Calm, Unregistered
  <2> QED
      BY <2>1, <2>2
<1>13. ASSUME NEW t \in Tasks, LoopRaises(t)
      PROVE  \A u \in Tasks : Moves(u)
  <2>1. \A u \in Tasks \ {t} : Moves(u)
        BY <1>0, <1>13, LoopRaisesKeeps, MovesIfSame
  <2>2. Moves(t)
        BY <1>0, <1>00, <1>13, NoTaskFacts, InStatusFacts
        DEF LoopRaises, RaiseFrom, Failed, FinalStatus, TypeOK, Status, Ended, Active,
            Moves, Visible, Ensure, Exists,
            Register!Follows, Register!Ended, Whole, Calm, Unregistered
  <2> QED
      BY <2>1, <2>2
<1>14. ASSUME NEW t \in Tasks, QueryTask(t)
      PROVE  \A u \in Tasks : Moves(u)
  <2>1. \A u \in Tasks \ {t} : Moves(u)
        BY <1>0, <1>14, QueryTaskKeeps, MovesIfSame
  <2>2. Moves(t)
        BY <1>0, <1>00, <1>14, NoTaskFacts, InStatusFacts
        DEF QueryTask, TypeOK, Status, Ended, Active, Moves, Visible, Ensure, Exists,
            Register!Follows, Register!Ended, Whole, Calm, Unregistered
  <2> QED
      BY <2>1, <2>2
<1>15. ASSUME NEW t \in Tasks, CancelTask(t)
      PROVE  \A u \in Tasks : Moves(u)
  <2>1. \A u \in Tasks \ {t} : Moves(u)
        BY <1>0, <1>15, CancelTaskKeeps, MovesIfSame
  <2>2. Moves(t)
        BY <1>0, <1>00, <1>15, NoTaskFacts, InStatusFacts
        DEF CancelTask, CallFails, Save, SaveFails, Cancelled, TypeOK, Status, Ended,
            Active, Moves, Visible, Ensure, Exists,
            Register!Follows, Register!Ended, Whole, Calm, Unregistered
  <2> QED
      BY <2>1, <2>2
<1>16. ASSUME NEW t \in Tasks, CancelQueuedTask(t)
      PROVE  \A u \in Tasks : Moves(u)
  <2>1. \A u \in Tasks \ {t} : Moves(u)
        BY <1>0, <1>16, CancelQueuedTaskKeeps, MovesIfSame
  <2>2. Moves(t)
        BY <1>0, <1>00, <1>16, NoTaskFacts, InStatusFacts
        DEF CancelQueuedTask, CallFails, Save, SaveFails, Cancelled, TypeOK, Status,
            Ended, Active, Moves, Visible, Ensure, Exists,
            Register!Follows, Register!Ended, Whole, Calm, Unregistered
  <2> QED
      BY <2>1, <2>2
<1>17. ASSUME NEW t \in Tasks, PauseTask(t)
      PROVE  \A u \in Tasks : Moves(u)
  <2>1. \A u \in Tasks \ {t} : Moves(u)
        BY <1>0, <1>17, PauseTaskKeeps, MovesIfSame
  <2>2. Moves(t)
        BY <1>0, <1>00, <1>17, NoTaskFacts, InStatusFacts
        DEF PauseTask, CallFails, Save, SaveFails, TypeOK, Status, Ended, Active, Moves,
            Visible, Ensure, Exists,
            Register!Follows, Register!Ended, Whole, Calm, Unregistered
  <2> QED
      BY <2>1, <2>2
<1>18. ASSUME NEW t \in Tasks, ResumeTask(t)
      PROVE  \A u \in Tasks : Moves(u)
  <2>1. \A u \in Tasks \ {t} : Moves(u)
        BY <1>0, <1>18, ResumeTaskKeeps, MovesIfSame
  <2>2. Moves(t)
        BY <1>0, <1>00, <1>18, NoTaskFacts, InStatusFacts, ResumedByHandFacts
        DEF ResumeTask, CallFails, Save, SaveFails, TypeOK, Status, Ended, Active, Moves,
            Visible, Ensure, Exists,
            Register!Follows, Register!Ended, Whole, Calm, Unregistered
  <2> QED
      BY <2>1, <2>2
<1>19. ASSUME NEW t \in Tasks, ResumeCompletedTask(t)
      PROVE  \A u \in Tasks : Moves(u)
  <2>1. \A u \in Tasks \ {t} : Moves(u)
        BY <1>0, <1>19, ResumeCompletedTaskKeeps, MovesIfSame
  <2>2. Moves(t)
        BY <1>0, <1>00, <1>19, NoTaskFacts, InStatusFacts, ResumedByHandFacts
        DEF ResumeCompletedTask, Save, TypeOK, Status, Ended, Active, Moves, Visible,
            Ensure, Exists,
            Register!Follows, Register!Ended, Whole, Calm, Unregistered
  <2> QED
      BY <2>1, <2>2
<1>20. ASSUME NEW t \in Tasks, RetryNode(t)
      PROVE  \A u \in Tasks : Moves(u)
  <2>1. \A u \in Tasks \ {t} : Moves(u)
        BY <1>0, <1>20, RetryNodeKeeps, MovesIfSame
  <2>2. Moves(t)
        BY <1>0, <1>00, <1>20, NoTaskFacts, InStatusFacts
        DEF RetryNode, CallFails, Save, SaveFails, TypeOK, Status, Ended, Active, Moves,
            Visible, Ensure, Exists,
            Register!Follows, Register!Ended, Whole, Calm, Unregistered
  <2> QED
      BY <2>1, <2>2
<1>21. ASSUME NEW t \in Tasks, NEW kind \in {"resuming", "rerunning"}, ResumeFrom(t, kind)
      PROVE  \A u \in Tasks : Moves(u)
  <2>1. \A u \in Tasks \ {t} : Moves(u)
        BY <1>0, <1>21, ResumeFromKeeps, MovesIfSame
  <2>2. Moves(t)
        BY <1>0, <1>00, <1>21, NoTaskFacts, InStatusFacts
        DEF ResumeFrom, TypeOK, Status, Ended, Active, Moves, Visible, Ensure, Exists,
            Register!Follows, Register!Ended, Whole, Calm, Unregistered
  <2> QED
      BY <2>1, <2>2
<1>22. ASSUME NEW t \in Tasks, DeleteTaskFails(t)
      PROVE  \A u \in Tasks : Moves(u)
  <2>1. \A u \in Tasks \ {t} : Moves(u)
        BY <1>0, <1>22, DeleteTaskFailsKeeps, MovesIfSame
  <2>2. Moves(t)
        BY <1>0, <1>00, <1>22, NoTaskFacts, InStatusFacts
        DEF DeleteTaskFails, Cancelled, TypeOK, Status, Ended, Active, Moves, Visible,
            Ensure, Exists,
            Register!Follows, Register!Ended, Whole, Calm, Unregistered
  <2> QED
      BY <2>1, <2>2
<1>23. ASSUME NEW t \in Tasks, TimerFires(t)
      PROVE  \A u \in Tasks : Moves(u)
  <2>1. \A u \in Tasks \ {t} : Moves(u)
        BY <1>0, <1>23, TimerFiresKeeps, MovesIfSame
  <2>2. Moves(t)
        BY <1>0, <1>00, <1>23, NoTaskFacts, InStatusFacts
        DEF TimerFires, MayClean, TypeOK, Status, Ended, Active, Moves, Visible, Ensure,
            Exists,
            Register!Follows, Register!Ended, Whole, Calm, Unregistered
  <2> QED
      BY <2>1, <2>2
<1>24. ASSUME NEW t \in Tasks, TimerDrops(t)
      PROVE  \A u \in Tasks : Moves(u)
  <2>1. \A u \in Tasks \ {t} : Moves(u)
        BY <1>0, <1>24, TimerDropsKeeps, MovesIfSame
  <2>2. Moves(t)
        BY <1>0, <1>00, <1>24, NoTaskFacts, InStatusFacts
        DEF TimerDrops, TypeOK, Status, Ended, Active, Moves, Visible, Ensure, Exists,
            Register!Follows, Register!Ended, Whole, Calm, Unregistered
  <2> QED
      BY <2>1, <2>2
<1>25. ASSUME NEW t \in Tasks, TimePasses(t)
      PROVE  \A u \in Tasks : Moves(u)
  <2>1. \A u \in Tasks \ {t} : Moves(u)
        BY <1>0, <1>25, TimePassesKeeps, MovesIfSame
  <2>2. Moves(t)
        BY <1>0, <1>00, <1>25, NoTaskFacts, InStatusFacts
        DEF TimePasses, TypeOK, Status, Ended, Active, Moves, Visible, Ensure, Exists,
            Register!Follows, Register!Ended, Whole, Calm, Unregistered
  <2> QED
      BY <2>1, <2>2
<1>26. CASE UNCHANGED vars
      BY <1>26 DEF vars, Moves, Visible, Ensure
<1> QED
    BY <1>1, <1>2, <1>3, <1>4, <1>5, <1>6, <1>7, <1>8, <1>9, <1>10, <1>11, <1>12, <1>13,
       <1>14, <1>15, <1>16, <1>17, <1>18, <1>19, <1>20, <1>21, <1>22, <1>23, <1>24,
       <1>25, <1>26
    DEF Next

LEMMA RegisterInit == Init => Register!Init
  BY DEF Init, Register!Init, Visible, Ensure, Exists, NoTask

LEMMA RegisterStep ==
  TypeOK /\ TypeOK' /\ KeptInv /\ KeptInv' /\ [Next]_vars
    => [Register!Next]_(Register!vars)
<1> SUFFICES ASSUME TypeOK, TypeOK', KeptInv, KeptInv', [Next]_vars
             PROVE  [Register!Next]_(Register!vars)
    OBVIOUS
<1>1. /\ faults \in Nat /\ faults' \in Nat
      /\ Answers' \in [Tasks -> Register!Status]
      BY StoreAssumption, VisibleIsStatus DEF TypeOK, Answers
<1>2. CASE faults' > 0
      BY <1>1, <1>2 DEF Register!Next, Register!Fail, Answers
<1>3. CASE faults' = 0 /\ ~Restart /\ \A t \in Tasks : ~DeleteTask(t)
  <2>1. \A u \in Tasks : Moves(u)
        BY <1>3, QuietStep
  <2>2. faults = 0
        BY <1>1, <1>3, KeptStep
  <2> QED
      BY <1>1, <1>3, <2>1, <2>2 DEF Register!Next, Register!Change, Moves, Answers
<1>4. ASSUME NEW t \in Tasks, DeleteTask(t), faults' = 0 PROVE Register!Next
  <2>1. Visible(t) # "absent" /\ Visible(t)' = "absent"
        BY <1>4, NoTaskFacts
        DEF KeptInv, Kept, Whole, DeleteTask, Visible, Ensure, Exists, TypeOK
  <2>2. \A u \in Tasks \ {t} : Visible(u)' = Visible(u)
        BY <1>4 DEF DeleteTask, Visible, Ensure, TypeOK
  <2>3. faults = 0
        BY <1>4 DEF DeleteTask
  <2> QED
      BY <1>4, <2>1, <2>2, <2>3 DEF Register!Next, Register!Delete
<1>5. CASE Restart /\ faults' = 0
  <2> DEFINE S == {t \in Tasks : Visible(t) = "queued" /\ Visible(t)' = "absent"}
  <2>1. faults = 0
        BY <1>5 DEF Restart
  <2>2. ASSUME NEW t \in Tasks PROVE Visible(t)' = IF t \in S THEN "absent" ELSE Visible(t)
    <3>1. Whole(t) /\ Calm(t)
          BY DEF KeptInv, Kept
    <3> QED
        BY <1>5, <2>1, <3>1, NoTaskFacts, InStatusFacts
        DEF Restart, Visible, Ensure, Exists, Calm, Whole, Unregistered, Status, Active
  <2>3. Register!Forget(S)
        BY <2>1, <1>5, <2>2 DEF Register!Forget
  <2> QED
      BY <2>3 DEF Register!Next
<1> QED
    BY <1>1, <1>2, <1>3, <1>4, <1>5

(* The store implements the register: whoever asks for a task gets an      *)
(* answer that no load, clean-up, restart or launch takes back, as long as *)
(* no write has failed.                                                    *)
THEOREM StoreImplementsRegister == Spec => ImplementsRegister
<1>1. TypeOK /\ KeptInv /\ TypeOK' /\ KeptInv' /\ [Next]_vars
        => [Register!Next]_(Register!vars)
      BY RegisterStep
<1> QED
    BY RegisterInit, <1>1, KeptHolds, PTL DEF Spec, ImplementsRegister, Register!Spec
=============================================================================
