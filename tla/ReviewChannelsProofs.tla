------------------------- MODULE ReviewChannelsProofs -------------------------
(***************************************************************************)
(* Proofs about ReviewChannels, for any replicas, verdicts and backends.   *)
(* A verdict has four ways to the runner, and the runner takes the first   *)
(* that it meets.  That it takes only accepted ones needs what each        *)
(* channel holds at any time (RecordsSound, BusSound, KeySound) and what   *)
(* can have set the event (Woken); that there is one needs to know in      *)
(* whose hands the review is (OneSite), how far memory and row agree       *)
(* there (InStep), and where an accepted verdict keeps a second one out    *)
(* (VerdictSeen).                                                          *)
(***************************************************************************)
EXTENDS ReviewChannels, FiniteSetTheorems, TLAPS

\* A replica with a live runner, or with a request under way.
Busy(r) == runner[r] \in Alive \/ saving[r]

\* As long as no request went to another replica than the one it concerns,
\* one replica at most has the review in its hands.
OneSite == ~crossed => \A q, r \in Replicas : Busy(q) /\ Busy(r) => q = r

\* A verdict in a record was accepted, except that of a cancellation.
Sound(record) ==
  record.decision # "none" /\ record.status # "cancelled" => record.decision \in accepted

RecordsSound == Sound(row) /\ \A r \in Replicas : Sound(tasks[r])

\* What the bus has in hand or on its way was accepted; the state store may
\* also have the reject of a cancellation.
BusSound ==
  \A r \in Replicas :
    /\ kept[r] \in accepted \cup {"none"}
    /\ listener[r] \in accepted \cup {"absent", "waiting"}
    /\ publishing[r] \subseteq accepted /\ inbox[r] \subseteq accepted

KeySound ==
  \A s \in Stores :
    key[s] # "none" => key[s] \in accepted \/ (cancelled /\ key[s] = "reject")

\* A runner that is woken has a verdict or a stop in its record, or was
\* resumed; one that has not come to the review has neither.
Woken(r) ==
  /\ event[r] # "none" => runner[r] \in {"checking", "waiting"}
  /\ event[r] # "none" /\ (saving[r] \/ event[r] = "set") =>
       roused \/ tasks[r].decision # "none" \/ tasks[r].status \in {"paused", "cancelled"}
  /\ runner[r] \in {"asking", "resuming"} => tasks[r].status = "running"
  /\ runner[r] = "asking" => tasks[r].decision = "none"

\* The accepted verdict may be forgotten.
Lost == orphaned \/ dropped

\* Between two requests a runner's record and the row agree; a request under
\* way, and a runner that has yet to come to the review, have the verdict.
InStep(r) ==
  /\ runner[r] \in Alive /\ ~saving[r] => tasks[r] = row
  /\ saving[r] => row.status # "cancelled"
  /\ accepted # {} /\ ~Lost =>
       /\ saving[r] => tasks[r].decision # "none" \/ tasks[r].status = "cancelled"
       /\ runner[r] = "resuming" => tasks[r].decision # "none"
       /\ runner[r] = "asking" => key[StoreOf(r)] # "none"

\* An accepted verdict, and a cancellation, can be seen in the row, or its
\* request goes on.
VerdictSeen ==
  accepted # {} /\ ~Lost =>
    \/ \E r \in Replicas : saving[r]
    \/ row.decision # "none" \/ row.status \in {"running", "cancelled"}

CancelSeen ==
  cancelled /\ ~orphaned =>
    \/ row.status = "cancelled"
    \/ \E r \in Replicas : saving[r] /\ tasks[r].status = "cancelled"

IInv ==
  /\ OneSite /\ RecordsSound /\ BusSound /\ KeySound
  /\ \A r \in Replicas : Woken(r)
  /\ ~crossed => VerdictSeen /\ CancelSeen /\ \A r \in Replicas : InStep(r)
  /\ TakenWasAccepted /\ OneVerdict

----------------------------------------------------------------------------
(* The types, in a form the provers can use.                               *)

Here ==
  /\ tasks \in [Replicas -> Record] /\ row \in Record
  /\ runner \in [Replicas -> Stage]
  /\ event \in [Replicas -> {"none", "clear", "set"}] /\ saving \in [Replicas -> BOOLEAN]

Channels ==
  /\ key \in [Stores -> Decision]
  /\ bus \in [Replicas -> {"none", "memory", "redis"}]
  /\ kept \in [Replicas -> Decision]
  /\ listener \in [Replicas -> {"absent", "waiting"} \cup Decisions]
  /\ publishing \in [Replicas -> SUBSET Decisions] /\ inbox \in [Replicas -> SUBSET Decisions]

Histories ==
  /\ accepted \subseteq Decisions /\ taken \subseteq Decisions
  /\ cancelled \in BOOLEAN /\ roused \in BOOLEAN /\ dropped \in BOOLEAN
  /\ crossed \in BOOLEAN /\ orphaned \in BOOLEAN
  /\ requests \in 0..MaxRequests /\ restarts \in 0..MaxRestarts

LEMMA TypesOK ==
  /\ TypeOK <=> Here /\ Channels /\ Histories
  /\ TypeOK' <=> Here' /\ Channels' /\ Histories'
<1>1. TypeOK <=> Here /\ Channels /\ Histories
      BY DEF Here, Channels, Histories, TypeOK
<1>2. TypeOK' <=> Here' /\ Channels' /\ Histories'
      BY DEF Here, Channels, Histories, TypeOK
<1> QED
    BY <1>1, <1>2

LEMMA RecordFacts ==
  /\ NoRecord \in Record /\ NoRecord.status = "absent" /\ NoRecord.decision = "none"
  /\ Running \in Record /\ Running.status = "running" /\ Running.decision = "none"
  /\ "none" \in Decision /\ Decisions \subseteq Decision
  /\ "approve" \in Decisions /\ "reject" \in Decisions /\ "none" \notin Decisions
  BY ReviewChannelsAssumption DEF NoRecord, Running, Record, Status, Decision

LEMMA RecordChanged ==
  ASSUME NEW x \in Record
  PROVE  /\ x.status \in Status /\ x.decision \in Decision
         /\ \A s \in Status : /\ [x EXCEPT !.status = s] \in Record
                              /\ [x EXCEPT !.status = s].status = s
                              /\ [x EXCEPT !.status = s].decision = x.decision
         /\ \A d \in Decision : /\ [x EXCEPT !.decision = d] \in Record
                                /\ [x EXCEPT !.decision = d].status = x.status
                                /\ [x EXCEPT !.decision = d].decision = d
         /\ \A s \in Status, d \in Decision :
              /\ [status |-> s, decision |-> d] \in Record
              /\ [status |-> s, decision |-> d].status = s
              /\ [status |-> s, decision |-> d].decision = d
  BY DEF Record

LEMMA StatusChanged ==
  ASSUME NEW x \in Record, NEW s \in Status
  PROVE  /\ [x EXCEPT !.status = s] \in Record
         /\ [x EXCEPT !.status = s].status = s
         /\ [x EXCEPT !.status = s].decision = x.decision
  BY DEF Record

LEMMA StoreFacts ==
  \A r \in Replicas : StoreOf(r) \in Stores
  BY ReviewChannelsAssumption DEF StoreOf, Stores

\* What a runner finds: its own verdict, else that of the state store, else the row's.
LEMMA PulledFacts ==
  ASSUME Here, Channels, NEW r \in Replicas
  PROVE  /\ Pulled(r) \in Record /\ Pulled(r).status \in {tasks[r].status, "cancelled"}
         /\ tasks[r].decision # "none" => Pulled(r) = tasks[r]
         /\ tasks[r].decision = "none" /\ key[StoreOf(r)] # "none" =>
              /\ Pulled(r).status = tasks[r].status
              /\ Pulled(r).decision = key[StoreOf(r)]
         /\ tasks[r].decision = "none" /\ key[StoreOf(r)] = "none" =>
              Pulled(r).decision = row.decision
         /\ Pulled(r).decision = "none" =>
              /\ tasks[r].decision = "none" /\ key[StoreOf(r)] = "none"
              /\ row.decision = "none"
<1>1. /\ tasks[r] \in Record /\ row \in Record /\ key[StoreOf(r)] \in Decision
      BY StoreFacts DEF Here, Channels
<1>2. CASE tasks[r].decision # "none"
  <2>1. Pulled(r) = tasks[r]
        BY <1>2 DEF Pulled
  <2> QED
      BY <1>1, <1>2, <2>1
<1>3. CASE tasks[r].decision = "none" /\ key[StoreOf(r)] # "none"
  <2>1. Pulled(r) = [tasks[r] EXCEPT !.decision = key[StoreOf(r)]]
        BY <1>3 DEF Pulled
  <2>2. /\ Pulled(r) \in Record /\ Pulled(r).status = tasks[r].status
        /\ Pulled(r).decision = key[StoreOf(r)]
        BY <1>1, <2>1, RecordChanged
  <2> QED
      BY <1>3, <2>2
<1>4. CASE tasks[r].decision = "none" /\ key[StoreOf(r)] = "none"
  <2>1. Pulled(r) = [status |-> IF row.status = "cancelled" THEN "cancelled" ELSE tasks[r].status,
                     decision |-> row.decision]
        BY <1>4 DEF Pulled
  <2>2. /\ Pulled(r) \in Record /\ Pulled(r).decision = row.decision
        /\ Pulled(r).status \in {tasks[r].status, "cancelled"}
    <3>1. (IF row.status = "cancelled" THEN "cancelled" ELSE tasks[r].status) \in Status
          BY <1>1, RecordChanged
    <3> QED
        BY <1>1, <2>1, <3>1, RecordChanged
  <2> QED
      BY <1>4, <2>2
<1> QED
    BY <1>2, <1>3, <1>4

----------------------------------------------------------------------------
(* A step at one replica.  It leaves there a record, a stage of the runner, *)
(* an event, and a request under way or none; the lemma says what these     *)
(* have to satisfy for the invariant to hold after it.                     *)

Leaving(r, record, stage, ev, busy) ==
  /\ record \in Record /\ stage \in Stage
  /\ ev \in {"none", "clear", "set"} /\ busy \in BOOLEAN
  /\ tasks' = [tasks EXCEPT ![r] = record]
  /\ runner' = [runner EXCEPT ![r] = stage]
  /\ event' = [event EXCEPT ![r] = ev]
  /\ saving' = [saving EXCEPT ![r] = busy]

\* Histories are never taken back.
Remembers ==
  /\ accepted \subseteq accepted'
  /\ (crossed => crossed') /\ (orphaned => orphaned') /\ (dropped => dropped')
  /\ (cancelled => cancelled') /\ (roused => roused')

SoundAfter(record) ==
  record.decision # "none" /\ record.status # "cancelled" => record.decision \in accepted'

WokenAfter(record, stage, ev, busy) ==
  /\ ev # "none" => stage \in {"checking", "waiting"}
  /\ ev # "none" /\ (busy \/ ev = "set") =>
       roused' \/ record.decision # "none" \/ record.status \in {"paused", "cancelled"}
  /\ stage \in {"asking", "resuming"} => record.status = "running"
  /\ stage = "asking" => record.decision = "none"

\* with no other replica that has the review in its hands
InStepAfter(r, record, stage, busy) ==
  /\ \A q \in Replicas \ {r} : ~Busy(q)
  /\ stage \in Alive /\ ~busy => record = row'
  /\ busy => row'.status # "cancelled"
  /\ accepted' # {} /\ ~Lost' =>
       /\ busy => record.decision # "none" \/ record.status = "cancelled"
       /\ stage = "resuming" => record.decision # "none"
       /\ stage = "asking" => key'[StoreOf(r)] # "none"
       /\ busy \/ row'.decision # "none" \/ row'.status \in {"running", "cancelled"}
  /\ cancelled' /\ ~orphaned' =>
       row'.status = "cancelled" \/ (busy /\ record.status = "cancelled")

LEMMA StepAt ==
  ASSUME TypeOK, IInv, NEW r \in Replicas, NEW record, NEW stage, NEW ev, NEW busy,
         Leaving(r, record, stage, ev, busy), Remembers,
         row' \in Record, Channels', Histories', BusSound', KeySound',
         SoundAfter(record), SoundAfter(row'),
         WokenAfter(record, stage, ev, busy),
         ~crossed' => InStepAfter(r, record, stage, busy),
         TakenWasAccepted', OneVerdict'
  PROVE  TypeOK' /\ IInv'
<1>1. /\ Here /\ OneSite /\ RecordsSound /\ \A q \in Replicas : Woken(q)
      BY TypesOK DEF IInv
<1>2. /\ tasks' \in [Replicas -> Record] /\ tasks'[r] = record
      /\ runner' \in [Replicas -> Stage] /\ runner'[r] = stage
      /\ event' \in [Replicas -> {"none", "clear", "set"}] /\ event'[r] = ev
      /\ saving' \in [Replicas -> BOOLEAN] /\ saving'[r] = busy
      BY <1>1 DEF Here, Leaving
<1>3. ASSUME NEW q \in Replicas, q # r
      PROVE  tasks'[q] = tasks[q] /\ runner'[q] = runner[q] /\ event'[q] = event[q]
             /\ saving'[q] = saving[q]
      BY <1>1, <1>3 DEF Here, Leaving
<1>4. TypeOK'
      BY <1>2, TypesOK DEF Here
<1>5. ASSUME ~crossed', NEW q \in Replicas, q # r
      PROVE  runner'[q] \notin Alive /\ ~saving'[q]
      BY <1>3, <1>5 DEF InStepAfter, Busy
<1>6. OneSite'
      BY <1>5 DEF OneSite, Busy
<1>7. RecordsSound'
  <2>1. Sound(row)' /\ Sound(tasks[r])'
        BY <1>2 DEF Sound, SoundAfter
  <2>2. ASSUME NEW q \in Replicas, q # r PROVE Sound(tasks[q])'
        BY <1>1, <1>3, <2>2 DEF Sound, RecordsSound, Remembers
  <2> QED
      BY <2>1, <2>2 DEF RecordsSound
<1>8. ASSUME NEW q \in Replicas PROVE Woken(q)'
  <2>1. CASE q = r
        BY <1>2, <2>1 DEF Woken, WokenAfter
  <2>2. CASE q # r
        BY <1>1, <1>3, <2>2 DEF Woken, Remembers
  <2> QED
      BY <2>1, <2>2
<1>9. ASSUME ~crossed' PROVE VerdictSeen' /\ CancelSeen' /\ \A q \in Replicas : InStep(q)'
  <2>1. InStepAfter(r, record, stage, busy)
        BY <1>9
  <2>2. VerdictSeen' /\ CancelSeen'
        BY <1>2, <2>1 DEF VerdictSeen, CancelSeen, InStepAfter
  <2>3. ASSUME NEW q \in Replicas PROVE InStep(q)'
    <3>1. CASE q = r
          BY <1>2, <2>1, <3>1 DEF InStep, InStepAfter
    <3>2. CASE q # r
      <4>1. "asking" \in Alive /\ "resuming" \in Alive
            BY DEF Alive, Stage
      <4> QED
          BY <1>5, <1>9, <3>2, <4>1 DEF InStep
    <3> QED
        BY <3>1, <3>2
  <2> QED
      BY <2>2, <2>3
<1> QED
    BY <1>4, <1>6, <1>7, <1>8, <1>9 DEF IInv

LEMMA BusSoundKept ==
  ASSUME BusSound, accepted \subseteq accepted',
         \A q \in Replicas : /\ kept'[q] \in {kept[q], "none"}
                             /\ listener'[q] \in {listener[q], "absent", "waiting"}
                             /\ publishing'[q] \subseteq publishing[q] \cup accepted'
                             /\ inbox'[q] \subseteq inbox[q]
  PROVE  BusSound'
<1> SUFFICES ASSUME NEW q \in Replicas
             PROVE  /\ kept'[q] \in accepted' \cup {"none"}
                    /\ listener'[q] \in accepted' \cup {"absent", "waiting"}
                    /\ publishing'[q] \subseteq accepted' /\ inbox'[q] \subseteq accepted'
    BY DEF BusSound
<1>1. /\ kept[q] \in accepted \cup {"none"}
      /\ listener[q] \in accepted \cup {"absent", "waiting"}
      /\ publishing[q] \subseteq accepted /\ inbox[q] \subseteq accepted
      BY DEF BusSound
<1> QED
    BY <1>1

----------------------------------------------------------------------------
(* The runner.                                                             *)

\* What a step of runner r leaves alone.
Aside(r) ==
  /\ runner[r] \in Alive /\ ~saving[r]
  /\ bus' \in [Replicas -> {"none", "memory", "redis"}]
  /\ kept' \in [Replicas -> Decision] /\ \A q \in Replicas : kept'[q] \in {kept[q], "none"}
  /\ listener' \in [Replicas -> {"absent", "waiting"} \cup Decisions]
  /\ \A q \in Replicas : listener'[q] \in {listener[q], "absent", "waiting"}
  /\ UNCHANGED <<publishing, inbox, saving, accepted, cancelled, roused, crossed, orphaned,
                 requests, restarts>>

LEMMA AsideFacts ==
  ASSUME TypeOK, IInv, NEW r \in Replicas, Aside(r),
         key' \in [Stores -> Decision], \A s \in Stores : key'[s] \in {key[s], "none"},
         taken' \subseteq Decisions, dropped' \in BOOLEAN, dropped => dropped'
  PROVE  Channels' /\ Histories' /\ BusSound' /\ KeySound' /\ Remembers /\ OneVerdict'
<1>1. /\ Channels /\ Histories /\ BusSound /\ KeySound /\ OneVerdict
      BY TypesOK DEF IInv
<1>2. /\ UNCHANGED <<publishing, inbox, saving, accepted, cancelled, roused, crossed, orphaned,
                     requests, restarts>>
      BY DEF Aside
<1>3. Channels' /\ Histories' /\ Remembers
      BY <1>1, <1>2 DEF Channels, Histories, Remembers, Aside
<1>4. BusSound'
      BY <1>1, <1>2, BusSoundKept DEF Aside
<1>5. KeySound'
      BY <1>1, <1>2 DEF KeySound
<1>6. OneVerdict'
      BY <1>1, <1>2 DEF OneVerdict
<1> QED
    BY <1>3, <1>4, <1>5, <1>6

\* What a runner between two requests can rely on.
LEMMA RunnerFacts ==
  ASSUME TypeOK, IInv, NEW r \in Replicas, runner[r] \in Alive, ~saving[r]
  PROVE  /\ Here /\ Channels /\ Histories
         /\ tasks[r] \in Record /\ row \in Record /\ Sound(tasks[r]) /\ Woken(r)
         /\ ~crossed =>
              /\ \A q \in Replicas \ {r} : ~Busy(q)
              /\ tasks[r] = row /\ InStep(r)
              /\ cancelled /\ ~orphaned => row.status = "cancelled"
              /\ accepted # {} /\ ~Lost =>
                   row.decision # "none" \/ row.status \in {"running", "cancelled"}
<1>1. /\ Here /\ Channels /\ Histories /\ OneSite /\ RecordsSound /\ Woken(r)
      BY TypesOK DEF IInv
<1>2. tasks[r] \in Record /\ row \in Record /\ Sound(tasks[r])
      BY <1>1 DEF Here, RecordsSound
<1>3. ASSUME ~crossed PROVE \A q \in Replicas \ {r} : ~Busy(q)
      BY <1>1, <1>3 DEF OneSite, Busy
<1>4. ASSUME ~crossed PROVE VerdictSeen /\ CancelSeen /\ InStep(r)
      BY <1>4 DEF IInv
<1>5. ASSUME ~crossed PROVE \A q \in Replicas : ~saving[q]
      BY <1>3, <1>5 DEF Busy
<1> QED
    BY <1>1, <1>2, <1>3, <1>4, <1>5 DEF InStep, VerdictSeen, CancelSeen

\* The verdicts a runner may go on with.
MayTake ==
  accepted \cup (IF roused THEN {"approve"} ELSE {})
           \cup (IF cancelled /\ orphaned THEN {"reject"} ELSE {})

LEMMA GoesOnKeeps ==
  ASSUME TypeOK, IInv, NEW r \in Replicas, NEW d \in Decisions, GoesOn(r, d), Aside(r),
         dropped' = dropped, tasks[r].status # "cancelled",
         ~crossed => d \in MayTake
  PROVE  TypeOK' /\ IInv'
<1>1. /\ Here /\ Channels /\ Histories
      /\ ~crossed => /\ \A q \in Replicas \ {r} : ~Busy(q)
                     /\ cancelled => orphaned
      BY RunnerFacts DEF Aside
<1>2. /\ UNCHANGED <<publishing, inbox, saving, accepted, cancelled, roused, crossed, orphaned>>
      /\ ~saving[r]
      BY DEF Aside
<1>3. /\ Running \in Record /\ row' = Running
      /\ Running.status = "running" /\ Running.decision = "none"
      BY RecordFacts DEF GoesOn
<1>4. Leaving(r, Running, "going on", "none", FALSE)
      BY <1>1, <1>2, <1>3 DEF Leaving, GoesOn, Stage, Here
<1>5. /\ key' \in [Stores -> Decision] /\ \A s \in Stores : key'[s] \in {key[s], "none"}
      BY <1>1, RecordFacts DEF Channels, GoesOn
<1>6. taken' = taken \cup {d} /\ taken' \subseteq Decisions /\ dropped' \in BOOLEAN
      BY <1>1 DEF GoesOn, Histories
<1>7. Channels' /\ Histories' /\ BusSound' /\ KeySound' /\ Remembers /\ OneVerdict'
      BY <1>5, <1>6, AsideFacts
<1>8. SoundAfter(Running) /\ SoundAfter(row') /\ WokenAfter(Running, "going on", "none", FALSE)
      BY <1>3 DEF SoundAfter, WokenAfter
<1>9. ~crossed' => InStepAfter(r, Running, "going on", FALSE)
      BY <1>1, <1>2, <1>3 DEF InStepAfter
<1>10. TakenWasAccepted'
  <2>1. TakenWasAccepted
        BY DEF IInv
  <2> QED
      BY <1>2, <1>6, <2>1 DEF TakenWasAccepted, MayTake
<1> QED
    BY <1>3, <1>4, <1>7, <1>8, <1>9, <1>10, StepAt

LEMMA StopsKeeps ==
  ASSUME TypeOK, IInv, NEW r \in Replicas, NEW record \in Record, Stops(r, record), Aside(r),
         dropped' = dropped, Sound(record), record.status \in {"cancelled", "paused"},
         tasks[r].status = "cancelled" => record.status = "cancelled",
         record.status = "paused" => record.decision # "none" \/ record = tasks[r]
  PROVE  TypeOK' /\ IInv'
<1>1. /\ Here /\ Channels /\ Histories
      /\ ~crossed => /\ \A q \in Replicas \ {r} : ~Busy(q)
                     /\ tasks[r] = row
                     /\ cancelled /\ ~orphaned => row.status = "cancelled"
                     /\ accepted # {} /\ ~Lost =>
                          row.decision # "none" \/ row.status \in {"running", "cancelled"}
      BY RunnerFacts DEF Aside
<1>2. /\ UNCHANGED <<publishing, inbox, saving, accepted, cancelled, roused, crossed, orphaned>>
      /\ ~saving[r] /\ taken' = taken /\ key' = key /\ row' = record
      BY DEF Aside, Stops
<1>3. Leaving(r, record, "stopped", "none", FALSE)
      BY <1>1, <1>2 DEF Leaving, Stops, Stage, Here
<1>4. Channels' /\ Histories' /\ BusSound' /\ KeySound' /\ Remembers /\ OneVerdict'
      BY <1>1, <1>2, AsideFacts DEF Channels, Histories
<1>5. SoundAfter(record) /\ WokenAfter(record, "stopped", "none", FALSE)
      BY <1>2 DEF Sound, SoundAfter, WokenAfter
<1>6. "stopped" \notin Alive
      BY DEF Alive
<1>7. ~crossed' => InStepAfter(r, record, "stopped", FALSE)
      BY <1>1, <1>2, <1>6 DEF InStepAfter, Lost
<1>8. TakenWasAccepted'
      BY <1>2 DEF IInv, TakenWasAccepted
<1> QED
    BY <1>2, <1>3, <1>4, <1>5, <1>7, <1>8, StepAt

LEMMA LeavesKeeps ==
  ASSUME TypeOK, IInv, NEW r \in Replicas, NEW record \in Record, Leaves(r, record), Aside(r),
         dropped' = dropped,
         record.status \in {"cancelled", "paused"} => Sound(record),
         tasks[r].status = "cancelled" => record.status = "cancelled",
         record.status = "paused" => record.decision # "none" \/ record = tasks[r],
         ~crossed /\ record.status \notin {"cancelled", "paused"} =>
           IF record.decision = "none" THEN roused ELSE record.decision \in MayTake
  PROVE  TypeOK' /\ IInv'
<1> DEFINE d == IF record.decision = "none" THEN "approve" ELSE record.decision
<1>1. CASE record.status \in {"cancelled", "paused"}
      BY <1>1, StopsKeeps DEF Leaves
<1>2. CASE record.status \notin {"cancelled", "paused"}
  <2>1. GoesOn(r, d) /\ tasks[r].status # "cancelled"
        BY <1>2 DEF Leaves
  <2>2. d \in Decisions
    <3>1. record.decision \in Decisions \cup {"none"}
          BY RecordChanged DEF Decision
    <3> QED
        BY <3>1, RecordFacts
  <2>3. ~crossed => d \in MayTake
        BY <1>2 DEF MayTake
  <2> HIDE DEF d
  <2> QED
      BY <2>1, <2>2, <2>3, GoesOnKeeps
<1> QED
    BY <1>1, <1>2

\* What a runner finds that has not been cancelled.
LEMMA FoundFacts ==
  ASSUME TypeOK, IInv, NEW r \in Replicas, runner[r] \in Alive, ~saving[r], ~crossed,
         tasks[r].status # "cancelled", Pulled(r).decision # "none"
  PROVE  Pulled(r).decision \in MayTake
<1>1. /\ Here /\ Channels /\ Sound(tasks[r]) /\ tasks[r] = row
      /\ cancelled => orphaned
      BY RunnerFacts
<1>2. CASE tasks[r].decision # "none"
      BY <1>1, <1>2, PulledFacts DEF Sound, MayTake
<1>3. CASE tasks[r].decision = "none"
  <2>1. key[StoreOf(r)] # "none" /\ Pulled(r).decision = key[StoreOf(r)]
        BY <1>1, <1>3, PulledFacts
  <2>2. key[StoreOf(r)] \in accepted \/ (cancelled /\ key[StoreOf(r)] = "reject")
        BY <2>1, StoreFacts DEF IInv, KeySound
  <2> QED
      BY <1>1, <2>1, <2>2 DEF MayTake
<1> QED
    BY <1>2, <1>3

LEMMA AskKeeps ==
  ASSUME TypeOK, IInv, NEW r \in Replicas, Ask(r)
  PROVE  TypeOK' /\ IInv'
<1>1. /\ runner[r] = "asking" /\ ~saving[r] /\ dropped' = dropped
      /\ UNCHANGED <<bus, kept, listener, publishing, inbox, saving, accepted, cancelled,
                     roused, crossed, orphaned, requests, restarts>>
      BY DEF Ask, bounds
<1>2. runner[r] \in Alive
      BY <1>1 DEF Alive, Stage
<1>3. /\ Here /\ Channels /\ Histories /\ tasks[r] \in Record
      /\ tasks[r].status = "running" /\ tasks[r].decision = "none"
      /\ ~crossed => /\ \A q \in Replicas \ {r} : ~Busy(q)
                     /\ tasks[r] = row /\ InStep(r)
                     /\ cancelled => orphaned
      BY <1>1, <1>2, RunnerFacts DEF Woken
<1>4. Aside(r)
      BY <1>1, <1>2, <1>3 DEF Aside, Channels
<1>5. Pulled(r) \in Record
      BY <1>3, PulledFacts
<1>6. CASE Pulled(r).decision # "none"
  <2>1. Pulled(r).decision \in Decisions /\ GoesOn(r, Pulled(r).decision)
        BY <1>5, <1>6, RecordChanged DEF Decision, Ask
  <2>2. ~crossed => Pulled(r).decision \in MayTake
        BY <1>1, <1>2, <1>3, <1>6, FoundFacts
  <2> QED
      BY <1>1, <1>3, <1>4, <2>1, <2>2, GoesOnKeeps
<1>7. CASE Pulled(r).decision = "none"
  <2> DEFINE record == [tasks[r] EXCEPT !.status = "waiting_review"]
  <2>1. record \in Record /\ record.status = "waiting_review" /\ record.decision = "none"
        BY <1>3, RecordChanged DEF Status
  <2>2. /\ tasks' = [tasks EXCEPT ![r] = record] /\ row' = record
        /\ runner' = [runner EXCEPT ![r] = "checking"]
        /\ event' = [event EXCEPT ![r] = "clear"]
        /\ UNCHANGED <<taken, key>>
        BY <1>7 DEF Ask
  <2> HIDE DEF record
  <2>3. Leaving(r, record, "checking", "clear", FALSE)
        BY <1>1, <1>3, <2>1, <2>2 DEF Leaving, Stage, Here
  <2>4. Channels' /\ Histories' /\ BusSound' /\ KeySound' /\ Remembers /\ OneVerdict'
        BY <1>1, <1>3, <1>4, <2>2, AsideFacts DEF Channels, Histories
  <2>5. SoundAfter(record) /\ WokenAfter(record, "checking", "clear", FALSE)
        BY <2>1 DEF SoundAfter, WokenAfter
  <2>6. ~crossed' => InStepAfter(r, record, "checking", FALSE)
    <3>1. key[StoreOf(r)] = "none"
          BY <1>3, <1>7, PulledFacts
    <3>2. ~crossed => accepted = {} \/ Lost
          BY <1>1, <1>3, <3>1 DEF InStep
    <3> QED
        BY <1>1, <1>3, <2>1, <2>2, <3>2 DEF InStepAfter, Lost
  <2>7. TakenWasAccepted'
        BY <1>1, <2>2 DEF IInv, TakenWasAccepted
  <2> QED
      BY <2>1, <2>2, <2>3, <2>4, <2>5, <2>6, <2>7, StepAt
<1> QED
    BY <1>6, <1>7

\* The steps of a runner from one part of its wait to another.
LEMMA MovesKeeps ==
  ASSUME TypeOK, IInv, NEW r \in Replicas, NEW stage \in {"checking", "waiting"},
         runner[r] \in {"checking", "waiting"}, Aside(r),
         runner' = [runner EXCEPT ![r] = stage],
         UNCHANGED <<tasks, row, key, event, taken, dropped>>
  PROVE  TypeOK' /\ IInv'
<1>1. /\ Here /\ Channels /\ Histories /\ tasks[r] \in Record /\ row \in Record
      /\ Sound(tasks[r]) /\ Woken(r)
      /\ ~crossed => /\ \A q \in Replicas \ {r} : ~Busy(q)
                     /\ tasks[r] = row /\ InStep(r)
                     /\ cancelled /\ ~orphaned => row.status = "cancelled"
                     /\ accepted # {} /\ ~Lost =>
                          row.decision # "none" \/ row.status \in {"running", "cancelled"}
      BY RunnerFacts DEF Aside
<1>2. /\ UNCHANGED <<publishing, inbox, saving, accepted, cancelled, roused, crossed, orphaned>>
      /\ ~saving[r]
      BY DEF Aside
<1>3. Leaving(r, tasks[r], stage, event[r], FALSE)
      BY <1>1, <1>2 DEF Leaving, Stage, Here
<1>4. Channels' /\ Histories' /\ BusSound' /\ KeySound' /\ Remembers /\ OneVerdict'
      BY <1>1, AsideFacts DEF Channels, Histories
<1>5. SoundAfter(tasks[r]) /\ SoundAfter(row') /\ WokenAfter(tasks[r], stage, event[r], FALSE)
      BY <1>1, <1>2 DEF IInv, RecordsSound, Sound, SoundAfter, Woken, WokenAfter
<1>6. ~crossed' => InStepAfter(r, tasks[r], stage, FALSE)
      BY <1>1, <1>2 DEF InStepAfter, Lost
<1>7. TakenWasAccepted'
      BY <1>2 DEF IInv, TakenWasAccepted
<1> QED
    BY <1>1, <1>3, <1>4, <1>5, <1>6, <1>7, StepAt

LEMMA CheckKeeps ==
  ASSUME TypeOK, IInv, NEW r \in Replicas, Check(r)
  PROVE  TypeOK' /\ IInv'
<1> DEFINE stop == tasks[r].status \in {"cancelled", "paused"}
           found == Pulled(r).decision # "none" \/ Pulled(r).status = "cancelled"
           record == IF stop THEN tasks[r] ELSE Pulled(r)
<1>1. /\ runner[r] = "checking" /\ ~saving[r] /\ dropped' = dropped
      /\ UNCHANGED <<kept, publishing, inbox, saving, accepted, cancelled,
                     roused, crossed, orphaned, requests, restarts>>
      BY DEF Check, bounds
<1>2. runner[r] \in Alive
      BY <1>1 DEF Alive, Stage
<1>3. /\ Here /\ Channels /\ Histories /\ tasks[r] \in Record /\ Sound(tasks[r])
      BY <1>1, <1>2, RunnerFacts
<1>4. CASE stop \/ found
  <2>1. Leaves(r, record) /\ bus' = bus /\ listener' = listener
        BY <1>4 DEF Check
  <2>2. Aside(r)
        BY <1>1, <1>2, <1>3, <2>1 DEF Aside, Channels
  <2>3. Pulled(r) \in Record /\ Pulled(r).status \in {tasks[r].status, "cancelled"}
        BY <1>3, PulledFacts
  <2>4. /\ record \in Record
        /\ record.status \in {"cancelled", "paused"} => Sound(record)
        /\ tasks[r].status = "cancelled" => record.status = "cancelled"
        /\ record.status = "paused" => record.decision # "none" \/ record = tasks[r]
        BY <1>3, <1>4, <2>3 DEF Sound
  <2>5. ~crossed /\ record.status \notin {"cancelled", "paused"} =>
          IF record.decision = "none" THEN roused ELSE record.decision \in MayTake
        BY <1>1, <1>2, <1>4, FoundFacts
  <2> HIDE DEF record
  <2> QED
      BY <1>1, <2>1, <2>2, <2>4, <2>5, LeavesKeeps
<1>5. CASE ~stop /\ ~found
  <2>1. PICK b \in {"memory", "redis"} : BeginsRound(r, b)
        BY <1>5 DEF Check
  <2>2. /\ bus' = [bus EXCEPT ![r] = b]
        /\ listener' = [listener EXCEPT ![r] = IF b = "redis" THEN "waiting" ELSE listener[r]]
        /\ runner' = [runner EXCEPT ![r] = "waiting"]
        /\ UNCHANGED <<tasks, row, key, event, taken>>
        BY <2>1 DEF BeginsRound
  <2>3. Aside(r)
        BY <1>1, <1>2, <1>3, <2>2 DEF Aside, Channels
  <2> QED
      BY <1>1, <2>2, <2>3, MovesKeeps
<1> QED
    BY <1>4, <1>5

LEMMA WakeKeeps ==
  ASSUME TypeOK, IInv, NEW r \in Replicas, WakeByBus(r) \/ WakeByEvent(r)
  PROVE  TypeOK' /\ IInv'
<1>1. /\ runner[r] = "waiting" /\ ~saving[r] /\ dropped' = dropped
      /\ listener' = [listener EXCEPT ![r] = "absent"]
      /\ UNCHANGED <<bus, publishing, inbox, saving, accepted, cancelled,
                     roused, crossed, orphaned, requests, restarts>>
      BY DEF WakeByBus, WakeByEvent, bounds
<1>2. runner[r] \in Alive
      BY <1>1 DEF Alive, Stage
<1>3. /\ Here /\ Channels /\ Histories /\ tasks[r] \in Record /\ Sound(tasks[r]) /\ Woken(r)
      BY <1>1, <1>2, RunnerFacts
<1>4. kept' \in [Replicas -> Decision] /\ \A q \in Replicas : kept'[q] \in {kept[q], "none"}
      BY <1>3, RecordFacts DEF WakeByBus, WakeByEvent, Channels
<1>5. Aside(r)
      BY <1>1, <1>2, <1>3, <1>4 DEF Aside, Channels
<1>6. CASE WakeByBus(r)
  <2> DEFINE record == [tasks[r] EXCEPT !.decision = Heard(r)]
  <2>1. Heard(r) # "none" /\ Leaves(r, record)
        BY <1>6 DEF WakeByBus
  <2>2. Heard(r) \in accepted
    <3>1. kept[r] \in accepted \cup {"none"} /\ listener[r] \in accepted \cup {"absent", "waiting"}
          BY DEF IInv, BusSound
    <3> QED
        BY <2>1, <3>1 DEF Heard
  <2>3. record \in Record /\ record.decision = Heard(r) /\ record.status = tasks[r].status
    <3>1. Heard(r) \in Decision
          BY <1>3, <2>2 DEF Histories, Decision
    <3> QED
        BY <1>3, <3>1, RecordChanged
  <2> HIDE DEF record
  <2> QED
      BY <1>1, <1>5, <2>1, <2>2, <2>3, LeavesKeeps DEF Sound, MayTake
<1>7. CASE WakeByEvent(r)
  <2>1. Leaves(r, tasks[r]) /\ event[r] = "set"
        BY <1>7 DEF WakeByEvent
  <2>2. tasks[r].status \notin {"cancelled", "paused"} =>
          IF tasks[r].decision = "none" THEN roused ELSE tasks[r].decision \in MayTake
        BY <1>3, <2>1 DEF Woken, Sound, MayTake
  <2> QED
      BY <1>1, <1>3, <1>5, <2>1, <2>2, LeavesKeeps
<1> QED
    BY <1>6, <1>7

LEMMA RoundEndsKeeps ==
  ASSUME TypeOK, IInv, NEW r \in Replicas, RoundEnds(r)
  PROVE  TypeOK' /\ IInv'
<1>1. /\ runner[r] = "waiting" /\ runner' = [runner EXCEPT ![r] = "checking"] /\ ~saving[r]
      /\ listener' = [listener EXCEPT ![r] = "absent"]
      /\ UNCHANGED <<tasks, row, key, bus, kept, publishing, inbox, event, saving, accepted, taken,
                     cancelled, roused, dropped, crossed, orphaned, requests, restarts>>
      BY DEF RoundEnds, history, bounds
<1>2. Aside(r)
      BY <1>1, TypesOK DEF Aside, Channels, Alive, Stage
<1> QED
    BY <1>1, <1>2, MovesKeeps

LEMMA ResumeBeginsKeeps ==
  ASSUME TypeOK, IInv, NEW r \in Replicas, ResumeBegins(r)
  PROVE  TypeOK' /\ IInv'
<1>1. /\ runner[r] = "resuming" /\ ~saving[r]
      /\ runner' = [runner EXCEPT ![r] = "asking"]
      /\ tasks' = [tasks EXCEPT ![r] = Running] /\ row' = Running
      /\ dropped' = (dropped \/ (row.decision \notin {"none", key[StoreOf(r)]}))
      /\ UNCHANGED <<key, bus, kept, listener, publishing, inbox, event, saving, accepted, taken,
                     cancelled, roused, crossed, orphaned, requests, restarts>>
      BY DEF ResumeBegins, channels, bounds
<1>2. runner[r] \in Alive
      BY <1>1 DEF Alive, Stage
<1>3. /\ Here /\ Channels /\ Histories /\ tasks[r].status = "running" /\ event[r] = "none"
      /\ ~crossed => /\ \A q \in Replicas \ {r} : ~Busy(q)
                     /\ tasks[r] = row /\ InStep(r)
                     /\ cancelled => orphaned
      BY <1>1, <1>2, RunnerFacts DEF Woken
<1>4. Running \in Record /\ Running.status = "running" /\ Running.decision = "none"
      BY RecordFacts
<1>5. Leaving(r, Running, "asking", "none", FALSE)
      BY <1>1, <1>3, <1>4 DEF Leaving, Stage, Here
<1>6. Channels' /\ Histories' /\ BusSound' /\ KeySound' /\ Remembers /\ OneVerdict'
  <2>1. Aside(r)
        BY <1>1, <1>2, <1>3 DEF Aside, Channels
  <2> QED
      BY <1>1, <1>3, <2>1, AsideFacts DEF Channels, Histories
<1>7. SoundAfter(Running) /\ SoundAfter(row') /\ WokenAfter(Running, "asking", "none", FALSE)
      BY <1>1, <1>4 DEF SoundAfter, WokenAfter
<1>8. ~crossed' => InStepAfter(r, Running, "asking", FALSE)
      BY <1>1, <1>3, <1>4 DEF InStepAfter, InStep, Lost
<1>9. TakenWasAccepted'
      BY <1>1 DEF IInv, TakenWasAccepted
<1> QED
    BY <1>1, <1>4, <1>5, <1>6, <1>7, <1>8, <1>9, StepAt

----------------------------------------------------------------------------
(* The requests.                                                           *)

LEMMA RequestFacts ==
  ASSUME TypeOK, IInv, NEW r \in Replicas, Request(r),
         Loaded(r).status \in {"waiting_review", "paused"}
  PROVE  /\ Here /\ Channels /\ Histories /\ ~saving[r] /\ Woken(r)
         /\ row \in Record /\ Sound(row) /\ Loaded(r) \in Record /\ Sound(Loaded(r))
         /\ runner[r] \notin {"asking", "resuming"}
         /\ requests' \in 0..MaxRequests /\ crossed' \in BOOLEAN /\ (crossed => crossed')
         /\ ~crossed' =>
              /\ \A q \in Replicas \ {r} : ~Busy(q)
              /\ Loaded(r) = row
              /\ cancelled => orphaned
              /\ accepted # {} /\ ~Lost => row.decision # "none"
<1>1. /\ Here /\ Channels /\ Histories /\ RecordsSound /\ Woken(r)
      BY TypesOK DEF IInv
<1>2. /\ ~saving[r] /\ requests < MaxRequests /\ requests' = requests + 1
      /\ crossed' = (crossed \/ Meets(r))
      BY DEF Request
<1>3. /\ tasks[r] \in Record /\ row \in Record /\ Sound(row) /\ Loaded(r) \in Record
      /\ Sound(Loaded(r))
      BY <1>1 DEF Here, Loaded, RecordsSound
<1>4. requests' \in 0..MaxRequests
      BY <1>1, <1>2, ReviewChannelsAssumption DEF Histories
<1>5. crossed' \in BOOLEAN /\ (crossed => crossed')
      BY <1>1, <1>2 DEF Histories, Meets
<1>6. runner[r] \notin {"asking", "resuming"}
  <2>1. ASSUME tasks[r].status = "running" PROVE Loaded(r).status = "running"
        BY <2>1, RecordFacts DEF Loaded
  <2> QED
      BY <1>1, <2>1 DEF Woken
<1>7. ASSUME ~crossed'
      PROVE  /\ \A q \in Replicas \ {r} : ~Busy(q)
             /\ Loaded(r) = row
             /\ cancelled => orphaned
             /\ accepted # {} /\ ~Lost => row.decision # "none"
  <2>1. /\ ~crossed /\ \A q \in Replicas \ {r} : ~Busy(q)
        /\ Loaded(r) = row
        BY <1>2, <1>7 DEF Meets, Busy
  <2>2. \A q \in Replicas : ~saving[q]
        BY <1>2, <2>1 DEF Busy
  <2>3. VerdictSeen /\ CancelSeen
        BY <2>1 DEF IInv
  <2> QED
      BY <2>1, <2>2, <2>3 DEF VerdictSeen, CancelSeen
<1> QED
    BY <1>1, <1>2, <1>3, <1>4, <1>5, <1>6, <1>7

LEMMA RequestKeeps ==
  ASSUME TypeOK, IInv, NEW r \in Replicas, Request(r),
         Loaded(r).status \in {"waiting_review", "paused"},
         NEW record, NEW ev, NEW busy, Leaving(r, record, runner[r], ev, busy),
         UNCHANGED <<row, taken, dropped, orphaned, restarts>>,
         accepted \subseteq accepted', accepted' \subseteq Decisions,
         roused' \in BOOLEAN, roused => roused',
         cancelled' = (cancelled \/ (busy /\ record.status = "cancelled")),
         Channels', BusSound', KeySound', OneVerdict', SoundAfter(record),
         ev # "none" => event[r] # "none",
         ev # "none" /\ (busy \/ ev = "set") =>
           roused' \/ record.decision # "none" \/ record.status \in {"paused", "cancelled"},
         ~busy => record = Loaded(r) /\ record.decision # "none",
         \/ record.decision # "none" \/ record.status = "cancelled"
         \/ record.decision = Loaded(r).decision /\ accepted' = accepted
  PROVE  TypeOK' /\ IInv'
<1>1. /\ Here /\ Channels /\ Histories /\ ~saving[r] /\ Woken(r)
      /\ row \in Record /\ Sound(row) /\ Loaded(r) \in Record
      /\ runner[r] \notin {"asking", "resuming"}
      /\ requests' \in 0..MaxRequests /\ crossed' \in BOOLEAN /\ (crossed => crossed')
      /\ ~crossed' =>
           /\ \A q \in Replicas \ {r} : ~Busy(q)
           /\ Loaded(r) = row
           /\ cancelled => orphaned
           /\ accepted # {} /\ ~Lost => row.decision # "none"
      BY RequestFacts
<1>2. record \in Record /\ busy \in BOOLEAN
      BY DEF Leaving
<1>3. Histories' /\ Remembers
      BY <1>1, <1>2 DEF Histories, Remembers
<1>4. SoundAfter(row')
      BY <1>1 DEF Sound, SoundAfter
<1>5. WokenAfter(record, runner[r], ev, busy)
      BY <1>1 DEF Woken, WokenAfter
<1>6. ~crossed' => InStepAfter(r, record, runner[r], busy)
      BY <1>1, <1>2 DEF InStepAfter, Lost
<1>7. TakenWasAccepted'
  <2>1. TakenWasAccepted
        BY DEF IInv
  <2> QED
      BY <1>1, <1>3, <2>1 DEF TakenWasAccepted, Remembers
<1> QED
    BY <1>1, <1>3, <1>4, <1>5, <1>6, <1>7, StepAt

LEMMA StoreKeeps ==
  ASSUME TypeOK, IInv, NEW r \in Replicas, NEW d \in Decisions, Store(r, d),
         Remembers, d \in accepted' \/ (cancelled' /\ d = "reject")
  PROVE  key' \in [Stores -> Decision] /\ KeySound'
<1>1. key \in [Stores -> Decision] /\ KeySound /\ d \in Decision
      BY TypesOK, RecordFacts DEF IInv, Channels
<1>2. key' \in [Stores -> Decision] /\ \A s \in Stores : key'[s] \in {key[s], d}
      BY <1>1 DEF Store
<1> QED
    BY <1>1, <1>2 DEF KeySound, Remembers

LEMMA PublishKeeps ==
  ASSUME TypeOK, IInv, NEW r \in Replicas, NEW d \in Decisions, Publish(r, d),
         Remembers, d \in accepted'
  PROVE  Channels' /\ BusSound' /\ KeySound'
<1>1. Channels /\ BusSound
      BY TypesOK DEF IInv
<1>2. /\ bus' = [bus EXCEPT ![r] = IF bus[r] = "none" THEN "memory" ELSE bus[r]]
      /\ publishing' = [publishing EXCEPT ![r] = publishing[r] \cup {d}]
      /\ UNCHANGED <<kept, listener, inbox>> /\ Store(r, d)
      BY DEF Publish
<1>3. key' \in [Stores -> Decision] /\ KeySound'
      BY <1>2, StoreKeeps
<1>4. Channels'
      BY <1>1, <1>2, <1>3 DEF Channels
<1>5. BusSound'
      BY <1>1, <1>2, BusSoundKept DEF Remembers, Channels
<1> QED
    BY <1>3, <1>4, <1>5

LEMMA ApproveKeeps ==
  ASSUME TypeOK, IInv, NEW r \in Replicas, NEW d \in Decisions, Approve(r, d)
  PROVE  TypeOK' /\ IInv'
<1> DEFINE record == [status |-> "waiting_review", decision |-> d]
<1>1. /\ Request(r) /\ Loaded(r) = [status |-> "waiting_review", decision |-> "none"]
      /\ tasks' = [tasks EXCEPT ![r] = record] /\ Publish(r, d)
      /\ accepted' = accepted \cup {d}
      /\ saving' = [saving EXCEPT ![r] = TRUE]
      /\ UNCHANGED <<row, runner, event, taken, cancelled, roused, dropped, orphaned, restarts>>
      BY DEF Approve
<1>2. Loaded(r).status = "waiting_review" /\ Loaded(r).decision = "none"
      BY <1>1
<1>3. /\ Here /\ Channels /\ Histories
      /\ crossed' \in BOOLEAN /\ (crossed => crossed')
      /\ ~crossed' =>
           /\ Loaded(r) = row
           /\ accepted # {} /\ ~Lost => row.decision # "none"
      BY <1>1, <1>2, RequestFacts
<1>4. /\ record \in Record /\ record.status = "waiting_review" /\ record.decision = d
      /\ d # "none" /\ d \in accepted'
      BY <1>1, RecordFacts DEF Record, Status
<1> HIDE DEF record
<1>5. Remembers
      BY <1>1, <1>3 DEF Remembers
<1>6. Channels' /\ BusSound' /\ KeySound'
      BY <1>1, <1>4, <1>5, PublishKeeps
<1>7. OneVerdict'
  <2>1. ASSUME ~crossed', ~orphaned', ~dropped' PROVE accepted' = {d}
        BY <1>1, <1>2, <1>3, <2>1 DEF Lost
  <2>2. Cardinality({d}) = 1
        BY FS_Singleton
  <2> QED
      BY <2>1, <2>2 DEF OneVerdict
<1>8. Leaving(r, record, runner[r], event[r], TRUE)
      BY <1>1, <1>3, <1>4 DEF Leaving, Here
<1>9. /\ SoundAfter(record) /\ accepted \subseteq accepted' /\ accepted' \subseteq Decisions
      /\ roused' \in BOOLEAN /\ cancelled \in BOOLEAN
      BY <1>1, <1>3, <1>4 DEF SoundAfter, Histories
<1> QED
    BY <1>1, <1>2, <1>4, <1>6, <1>7, <1>8, <1>9, RequestKeeps

LEMMA ApproveAgainKeeps ==
  ASSUME TypeOK, IInv, NEW r \in Replicas, NEW d \in Decisions, ApproveAgain(r, d)
  PROVE  TypeOK' /\ IInv'
<1> DEFINE ev == IF event[r] = "none" THEN "none" ELSE "set"
<1>1. /\ Request(r) /\ Loaded(r) = [status |-> "waiting_review", decision |-> d]
      /\ tasks' = [tasks EXCEPT ![r] = Loaded(r)] /\ Publish(r, d)
      /\ event' = [event EXCEPT ![r] = ev]
      /\ accepted' = accepted \cup {d}
      /\ UNCHANGED <<row, runner, saving, taken, cancelled, roused, dropped, orphaned, restarts>>
      BY DEF ApproveAgain
<1>2. /\ Loaded(r).status = "waiting_review" /\ Loaded(r).decision = d /\ d # "none"
      BY <1>1, RecordFacts
<1>3. /\ Here /\ Channels /\ Histories /\ ~saving[r] /\ (crossed => crossed')
      /\ Loaded(r) \in Record /\ Sound(Loaded(r))
      BY <1>1, <1>2, RequestFacts
<1>4. accepted' = accepted /\ d \in accepted
      BY <1>1, <1>2, <1>3 DEF Sound
<1>5. Remembers
      BY <1>1, <1>3 DEF Remembers
<1>6. Channels' /\ BusSound' /\ KeySound'
      BY <1>1, <1>4, <1>5, PublishKeeps
<1>7. OneVerdict'
      BY <1>1, <1>3, <1>4 DEF IInv, OneVerdict
<1>8. Leaving(r, Loaded(r), runner[r], ev, FALSE)
      BY <1>1, <1>3 DEF Leaving, Here
<1>9. /\ SoundAfter(Loaded(r)) /\ accepted' \subseteq Decisions /\ roused' \in BOOLEAN
      /\ cancelled \in BOOLEAN
      BY <1>1, <1>3, <1>4 DEF Sound, SoundAfter, Histories
<1>10. ev # "none" => event[r] # "none"
       OBVIOUS
<1> HIDE DEF ev
<1> QED
    BY <1>1, <1>2, <1>4, <1>6, <1>7, <1>8, <1>9, <1>10, RequestKeeps

LEMMA QueryKeeps ==
  ASSUME TypeOK, IInv, NEW r \in Replicas, Query(r)
  PROVE  TypeOK' /\ IInv'
<1>1. /\ ~saving[r] /\ tasks[r] = NoRecord /\ tasks' = [tasks EXCEPT ![r] = row]
      /\ UNCHANGED <<row, key, bus, kept, listener, publishing, inbox, runner, event, saving,
                     accepted, taken, cancelled, roused, dropped, crossed, orphaned,
                     requests, restarts>>
      BY DEF Query, channels, history, bounds
<1>2. Here /\ Channels /\ Histories /\ OneSite /\ RecordsSound /\ BusSound /\ KeySound
      BY TypesOK DEF IInv
<1>3. /\ tasks' \in [Replicas -> Record] /\ tasks'[r] = row
      /\ \A q \in Replicas : q # r => tasks'[q] = tasks[q]
      BY <1>1, <1>2 DEF Here
<1>4. TypeOK'
      BY <1>1, <1>2, <1>3, TypesOK DEF Here, Channels, Histories
<1>5. OneSite' /\ BusSound' /\ KeySound' /\ TakenWasAccepted' /\ OneVerdict'
      BY <1>1 DEF IInv, OneSite, Busy, BusSound, KeySound, TakenWasAccepted, OneVerdict
<1>6. RecordsSound'
      BY <1>1, <1>2, <1>3 DEF RecordsSound, Sound
<1>7. ASSUME NEW q \in Replicas PROVE Woken(q)'
  <2>1. Woken(q)
        BY DEF IInv
  <2> QED
      BY <1>1, <1>3, <2>1, RecordFacts DEF Woken
<1>8. ASSUME ~crossed' PROVE VerdictSeen' /\ CancelSeen' /\ \A q \in Replicas : InStep(q)'
  <2>1. VerdictSeen /\ CancelSeen /\ \A q \in Replicas : InStep(q)
        BY <1>1, <1>8 DEF IInv
  <2>2. VerdictSeen' /\ CancelSeen'
        BY <1>1, <1>3, <2>1 DEF VerdictSeen, CancelSeen, Lost
  <2>3. ASSUME NEW q \in Replicas PROVE InStep(q)'
        BY <1>1, <1>3, <2>1, RecordFacts DEF InStep, Lost
  <2> QED
      BY <2>2, <2>3
<1> QED
    BY <1>4, <1>5, <1>6, <1>7, <1>8 DEF IInv

LEMMA PauseKeeps ==
  ASSUME TypeOK, IInv, NEW r \in Replicas, Pause(r)
  PROVE  TypeOK' /\ IInv'
<1> DEFINE record == [Loaded(r) EXCEPT !.status = "paused"]
<1>1. /\ Request(r) /\ Loaded(r).status = "waiting_review"
      /\ tasks' = [tasks EXCEPT ![r] = record]
      /\ saving' = [saving EXCEPT ![r] = TRUE]
      /\ UNCHANGED <<row, key, bus, kept, listener, publishing, inbox, runner, event, accepted,
                     taken, cancelled, roused, dropped, orphaned, restarts>>
      BY DEF Pause, outsideRequest
<1>2. /\ Here /\ Channels /\ Histories /\ Loaded(r) \in Record /\ Sound(Loaded(r))
      /\ (crossed => crossed')
      BY <1>1, RequestFacts
<1>3. record \in Record /\ record.status = "paused" /\ record.decision = Loaded(r).decision
  <2>1. "paused" \in Status
        BY DEF Status
  <2> QED
      BY <1>2, <2>1, StatusChanged
<1>4. SoundAfter(record)
      BY <1>1, <1>2, <1>3 DEF Sound, SoundAfter
<1> HIDE DEF record
<1>5. Leaving(r, record, runner[r], event[r], TRUE)
      BY <1>1, <1>2, <1>3 DEF Leaving, Here
<1>6. /\ Channels' /\ BusSound' /\ KeySound' /\ OneVerdict'
      /\ accepted' \subseteq Decisions /\ roused' \in BOOLEAN /\ cancelled \in BOOLEAN
      BY <1>1, <1>2 DEF IInv, Channels, Histories, BusSound, KeySound, OneVerdict
<1> QED
    BY <1>1, <1>3, <1>4, <1>5, <1>6, RequestKeeps

LEMMA ResumeKeeps ==
  ASSUME TypeOK, IInv, NEW r \in Replicas, Resume(r)
  PROVE  TypeOK' /\ IInv'
<1> DEFINE back == IF runner[r] \in Alive THEN "waiting_review" ELSE "running"
           record == [Loaded(r) EXCEPT !.status = back]
<1>1. /\ Request(r) /\ Loaded(r).status = "paused"
      /\ tasks' = [tasks EXCEPT ![r] = record]
      /\ saving' = [saving EXCEPT ![r] = TRUE]
      /\ roused' = (roused \/ runner[r] \in Alive)
      /\ UNCHANGED <<row, key, bus, kept, listener, publishing, inbox, runner, event, accepted,
                     taken, cancelled, dropped, orphaned, restarts>>
      BY DEF Resume, outsideRequest
<1>2. /\ Here /\ Channels /\ Histories /\ Loaded(r) \in Record /\ Sound(Loaded(r)) /\ Woken(r)
      /\ (crossed => crossed')
      BY <1>1, RequestFacts
<1>3. /\ record \in Record /\ record.status # "cancelled"
      /\ record.decision = Loaded(r).decision
  <2>1. back \in Status /\ back # "cancelled"
        BY DEF Status
  <2> HIDE DEF back
  <2> QED
      BY <1>2, <2>1, StatusChanged
<1>4. SoundAfter(record)
      BY <1>1, <1>2, <1>3 DEF Sound, SoundAfter
<1> HIDE DEF record
<1>5. Leaving(r, record, runner[r], event[r], TRUE)
      BY <1>1, <1>2, <1>3 DEF Leaving, Here
<1>6. /\ Channels' /\ BusSound' /\ KeySound' /\ OneVerdict'
      /\ accepted' \subseteq Decisions /\ roused' \in BOOLEAN /\ cancelled \in BOOLEAN
      BY <1>1, <1>2 DEF IInv, Channels, Histories, BusSound, KeySound, OneVerdict
<1>7. event[r] # "none" => roused'
      BY <1>1, <1>2 DEF Woken, Alive, Stage
<1> QED
    BY <1>1, <1>3, <1>4, <1>5, <1>6, <1>7, RequestKeeps

LEMMA CancelKeeps ==
  ASSUME TypeOK, IInv, NEW r \in Replicas, Cancel(r)
  PROVE  TypeOK' /\ IInv'
<1> DEFINE record == IF Loaded(r).status = "waiting_review"
                     THEN [status |-> "cancelled", decision |-> "reject"]
                     ELSE [Loaded(r) EXCEPT !.status = "cancelled"]
<1>1. /\ Request(r) /\ Loaded(r).status \in {"waiting_review", "paused"}
      /\ tasks' = [tasks EXCEPT ![r] = record]
      /\ Store(r, "reject") \/ key' = key
      /\ cancelled' = TRUE
      /\ saving' = [saving EXCEPT ![r] = TRUE]
      /\ UNCHANGED <<row, bus, kept, listener, publishing, inbox, runner, event, accepted,
                     taken, roused, dropped, orphaned, restarts>>
      BY DEF Cancel, outsideRequest
<1>2. /\ Here /\ Channels /\ Histories /\ Loaded(r) \in Record /\ (crossed => crossed')
      BY <1>1, RequestFacts
<1>3. record \in Record /\ record.status = "cancelled"
      BY <1>2, RecordFacts, RecordChanged DEF Status, Record
<1> HIDE DEF record
<1>4. Leaving(r, record, runner[r], event[r], TRUE) /\ SoundAfter(record)
      BY <1>1, <1>2, <1>3 DEF Leaving, Here, SoundAfter
<1>5. Remembers
      BY <1>1, <1>2 DEF Remembers
<1>6. key' \in [Stores -> Decision] /\ KeySound'
  <2>1. CASE Store(r, "reject")
        BY <1>1, <1>5, <2>1, RecordFacts, StoreKeeps
  <2>2. CASE key' = key
        BY <1>1, <1>2, <2>2 DEF IInv, KeySound, Channels
  <2> QED
      BY <1>1, <2>1, <2>2
<1>7. /\ Channels' /\ BusSound' /\ OneVerdict'
      /\ accepted' \subseteq Decisions /\ roused' \in BOOLEAN
      BY <1>1, <1>2, <1>6 DEF IInv, Channels, Histories, BusSound, OneVerdict
<1> QED
    BY <1>1, <1>3, <1>4, <1>6, <1>7, RequestKeeps

LEMMA SaveRequestKeeps ==
  ASSUME TypeOK, IInv, NEW r \in Replicas, SaveRequest(r)
  PROVE  TypeOK' /\ IInv'
<1>1. /\ Here /\ Channels /\ Histories /\ OneSite /\ RecordsSound /\ Woken(r)
      BY TypesOK DEF IInv
<1>2. /\ saving[r] /\ saving' = [saving EXCEPT ![r] = FALSE] /\ Saved(r)
      /\ UNCHANGED <<key, bus, kept, listener, publishing, inbox, accepted, taken, cancelled,
                     roused, dropped, crossed, orphaned, requests, restarts>>
      BY DEF SaveRequest, channels, history, bounds
<1>3. tasks[r] \in Record /\ Sound(tasks[r])
      BY <1>1 DEF Here, RecordsSound
<1>4. ~crossed =>
        /\ \A q \in Replicas \ {r} : ~Busy(q)
        /\ row.status # "cancelled"
        /\ accepted # {} /\ ~Lost => tasks[r].decision # "none" \/ tasks[r].status = "cancelled"
        /\ cancelled /\ ~orphaned => tasks[r].status = "cancelled"
  <2>1. ASSUME ~crossed PROVE InStep(r) /\ CancelSeen /\ \A q \in Replicas \ {r} : ~Busy(q)
        BY <1>1, <1>2, <2>1 DEF IInv, OneSite, Busy
  <2> QED
      BY <1>2, <2>1 DEF InStep, CancelSeen, Busy
<1>5. /\ Channels' /\ Histories' /\ BusSound' /\ KeySound' /\ Remembers
      /\ TakenWasAccepted' /\ OneVerdict'
      BY <1>1, <1>2 DEF IInv, Channels, Histories, BusSound, KeySound, Remembers,
                        TakenWasAccepted, OneVerdict
<1>6. CASE event[r] # "none" \/ tasks[r].status \in {"paused", "cancelled"}
             \/ runner[r] \in Alive
  <2> DEFINE ev == IF event[r] = "none" THEN "none" ELSE "set"
  <2>1. /\ event' = [event EXCEPT ![r] = ev] /\ row' = tasks[r]
        /\ tasks' = tasks /\ runner' = runner
        BY <1>2, <1>6 DEF Saved
  <2>2. Leaving(r, tasks[r], runner[r], ev, FALSE)
        BY <1>1, <1>2, <1>3, <2>1 DEF Leaving, Here
  <2>3. SoundAfter(tasks[r])
        BY <1>2, <1>3 DEF Sound, SoundAfter
  <2>4. WokenAfter(tasks[r], runner[r], ev, FALSE)
        BY <1>1, <1>2 DEF Woken, WokenAfter
  <2>5. ~crossed' => InStepAfter(r, tasks[r], runner[r], FALSE)
    <3>1. ASSUME ~crossed PROVE InStep(r)
          BY <3>1 DEF IInv
    <3> QED
        BY <1>2, <1>4, <2>1, <3>1 DEF InStepAfter, InStep, Lost
  <2> HIDE DEF ev
  <2> QED
      BY <1>3, <1>5, <2>1, <2>2, <2>3, <2>4, <2>5, StepAt
<1>7. CASE ~(event[r] # "none" \/ tasks[r].status \in {"paused", "cancelled"}
             \/ runner[r] \in Alive)
  <2> DEFINE record == [tasks[r] EXCEPT !.status = "running"]
  <2>1. /\ tasks' = [tasks EXCEPT ![r] = record]
        /\ row' = tasks'[r]
        /\ runner' = [runner EXCEPT ![r] = "resuming"] /\ event' = event
        BY <1>2, <1>7 DEF Saved
  <2>2. /\ record \in Record /\ record.status = "running" /\ record.decision = tasks[r].decision
    <3>1. "running" \in Status
          BY DEF Status
    <3> QED
        BY <1>3, <3>1, StatusChanged
  <2> HIDE DEF record
  <2>3. row' = record
        BY <1>1, <2>1 DEF Here
  <2>4. Leaving(r, record, "resuming", "none", FALSE)
        BY <1>1, <1>2, <1>7, <2>1, <2>2 DEF Leaving, Here, Stage
  <2>5. SoundAfter(record)
        BY <1>2, <1>3, <1>7, <2>2 DEF Sound, SoundAfter
  <2>6. WokenAfter(record, "resuming", "none", FALSE)
        BY <2>2 DEF WokenAfter
  <2>7. ~crossed' => InStepAfter(r, record, "resuming", FALSE)
        BY <1>2, <1>4, <1>7, <2>2, <2>3 DEF InStepAfter, Lost
  <2> QED
      BY <1>5, <2>2, <2>3, <2>4, <2>5, <2>6, <2>7, StepAt
<1> QED
    BY <1>6, <1>7

----------------------------------------------------------------------------
(* The channels, and restarts.                                             *)

\* A step of the bus, or of time, that no runner or request takes part in.
LEMMA ChannelsKeep ==
  ASSUME TypeOK, IInv, Channels', BusSound', KeySound',
         UNCHANGED <<tasks, row, runner, event, saving, accepted, taken, cancelled, roused,
                     crossed, orphaned, requests, restarts>>,
         dropped' \in BOOLEAN, dropped => dropped',
         ~dropped' => \A q \in Replicas : runner[q] = "asking" => key'[StoreOf(q)] = key[StoreOf(q)]
  PROVE  TypeOK' /\ IInv'
<1>1. TypeOK'
      BY TypesOK DEF Here, Histories
<1>2. /\ OneSite' /\ RecordsSound' /\ TakenWasAccepted' /\ OneVerdict'
      BY DEF IInv, OneSite, Busy, RecordsSound, Sound, TakenWasAccepted, OneVerdict
<1>3. \A q \in Replicas : Woken(q)'
      BY DEF IInv, Woken
<1>4. ASSUME ~crossed' PROVE VerdictSeen' /\ CancelSeen' /\ \A q \in Replicas : InStep(q)'
  <2>1. VerdictSeen /\ CancelSeen /\ \A q \in Replicas : InStep(q)
        BY <1>4 DEF IInv
  <2>2. VerdictSeen' /\ CancelSeen'
        BY <2>1 DEF VerdictSeen, CancelSeen, Lost
  <2>3. ASSUME NEW q \in Replicas PROVE InStep(q)'
        BY <2>1 DEF InStep, Lost
  <2> QED
      BY <2>2, <2>3
<1> QED
    BY <1>1, <1>2, <1>3, <1>4 DEF IInv

LEMMA BusKeeps ==
  ASSUME TypeOK, IInv, NEW r \in Replicas, Published(r) \/ Receive(r)
  PROVE  TypeOK' /\ IInv'
<1>1. Channels /\ Histories /\ BusSound /\ KeySound
      BY TypesOK DEF IInv
<1>2. UNCHANGED <<tasks, row, key, bus, runner, event, saving, accepted, taken, cancelled,
                  roused, dropped, crossed, orphaned, requests, restarts>>
      BY DEF Published, Receive, history, bounds
<1>3. /\ kept' \in [Replicas -> Decision]
      /\ listener' \in [Replicas -> {"absent", "waiting"} \cup Decisions]
      /\ publishing' \in [Replicas -> SUBSET Decisions] /\ inbox' \in [Replicas -> SUBSET Decisions]
      /\ BusSound'
  <2>1. CASE Published(r)
    <3>1. PICK d \in publishing[r] :
            /\ publishing' = [publishing EXCEPT ![r] = publishing[r] \ {d}]
            /\ \/ PublishInMemory(r, d) \/ PublishOverRedis(r, d) \/ PublishRaises(r)
            /\ listener' = listener
          BY <2>1 DEF Published
    <3>2. d \in accepted /\ d \in Decisions /\ d \in Decision
          BY <1>1 DEF Channels, BusSound, Decision
    <3>3. /\ publishing' \in [Replicas -> SUBSET Decisions]
          /\ \A q \in Replicas : publishing'[q] \subseteq publishing[q]
          BY <1>1, <3>1 DEF Channels
    <3>4. /\ kept' \in [Replicas -> Decision]
          /\ \A q \in Replicas : kept'[q] \in {kept[q], d}
          /\ inbox' \in [Replicas -> SUBSET Decisions]
          /\ \A q \in Replicas : inbox'[q] \subseteq inbox[q] \cup {d}
          BY <1>1, <3>1, <3>2 DEF Channels, PublishInMemory, PublishOverRedis, PublishRaises
    <3>5. BusSound'
      <4> SUFFICES ASSUME NEW q \in Replicas
                   PROVE  /\ kept'[q] \in accepted' \cup {"none"}
                          /\ listener'[q] \in accepted' \cup {"absent", "waiting"}
                          /\ publishing'[q] \subseteq accepted' /\ inbox'[q] \subseteq accepted'
          BY DEF BusSound
      <4>1. /\ kept[q] \in accepted \cup {"none"}
            /\ listener[q] \in accepted \cup {"absent", "waiting"}
            /\ publishing[q] \subseteq accepted /\ inbox[q] \subseteq accepted
            BY <1>1 DEF BusSound
      <4> QED
          BY <1>2, <3>1, <3>2, <3>3, <3>4, <4>1
    <3> QED
        BY <1>1, <3>1, <3>3, <3>4, <3>5 DEF Channels
  <2>2. CASE Receive(r)
    <3>1. PICK d \in inbox[r] :
            /\ inbox' = [inbox EXCEPT ![r] = inbox[r] \ {d}]
            /\ listener' = [listener EXCEPT ![r] = IF listener[r] = "waiting" THEN d
                                                   ELSE listener[r]]
            /\ kept' = kept /\ publishing' = publishing
          BY <2>2 DEF Receive
    <3>2. d \in accepted /\ d \in Decisions
          BY <1>1 DEF Channels, BusSound
    <3>3. /\ inbox' \in [Replicas -> SUBSET Decisions]
          /\ \A q \in Replicas : inbox'[q] \subseteq inbox[q]
          /\ listener' \in [Replicas -> {"absent", "waiting"} \cup Decisions]
          /\ \A q \in Replicas : listener'[q] \in {listener[q], d}
          BY <1>1, <3>1, <3>2 DEF Channels
    <3>4. BusSound'
      <4> SUFFICES ASSUME NEW q \in Replicas
                   PROVE  /\ kept'[q] \in accepted' \cup {"none"}
                          /\ listener'[q] \in accepted' \cup {"absent", "waiting"}
                          /\ publishing'[q] \subseteq accepted' /\ inbox'[q] \subseteq accepted'
          BY DEF BusSound
      <4>1. /\ kept[q] \in accepted \cup {"none"}
            /\ listener[q] \in accepted \cup {"absent", "waiting"}
            /\ publishing[q] \subseteq accepted /\ inbox[q] \subseteq accepted
            BY <1>1 DEF BusSound
      <4> QED
          BY <1>2, <3>1, <3>2, <3>3, <4>1
    <3> QED
        BY <1>1, <3>1, <3>3, <3>4 DEF Channels
  <2> QED
      BY <2>1, <2>2
<1>4. Channels' /\ KeySound' /\ dropped' \in BOOLEAN
      BY <1>1, <1>2, <1>3 DEF Channels, KeySound, Histories
<1> QED
    BY <1>2, <1>3, <1>4, ChannelsKeep

LEMMA KeyExpiresKeeps ==
  ASSUME TypeOK, IInv, KeyExpires
  PROVE  TypeOK' /\ IInv'
<1>1. Channels /\ Histories /\ BusSound /\ KeySound
      BY TypesOK DEF IInv
<1>2. PICK s \in Stores :
        /\ key' = [key EXCEPT ![s] = "none"]
        /\ dropped' = (dropped \/ \E r \in Replicas : runner[r] = "asking")
        /\ UNCHANGED <<tasks, row, bus, kept, listener, publishing, inbox, runner, event, saving,
                       accepted, taken, cancelled, roused, crossed, orphaned, requests, restarts>>
      BY DEF KeyExpires, bounds
<1>3. key' \in [Stores -> Decision] /\ KeySound'
      BY <1>1, <1>2, RecordFacts DEF Channels, KeySound
<1>4. Channels' /\ BusSound' /\ dropped' \in BOOLEAN
      BY <1>1, <1>2, <1>3 DEF Channels, Histories, BusSound
<1> QED
    BY <1>2, <1>3, <1>4, ChannelsKeep

\* The restarted replica has neither record nor runner; what was accepted
\* before the restart may be forgotten.
LEMMA RestartKeeps ==
  ASSUME TypeOK, IInv, NEW r \in Replicas, Restart(r)
  PROVE  TypeOK' /\ IInv'
<1>1. /\ Here /\ Channels /\ Histories /\ OneSite /\ RecordsSound /\ BusSound /\ KeySound
      BY TypesOK DEF IInv
<1>2. /\ restarts < MaxRestarts /\ restarts' = restarts + 1
      /\ tasks' = [tasks EXCEPT ![r] = NoRecord]
      /\ key' = [s \in Stores |-> IF s = r THEN "none" ELSE key[s]]
      /\ bus' = [bus EXCEPT ![r] = "none"] /\ kept' = [kept EXCEPT ![r] = "none"]
      /\ listener' = [listener EXCEPT ![r] = "absent"]
      /\ publishing' = [publishing EXCEPT ![r] = {}] /\ inbox' = [inbox EXCEPT ![r] = {}]
      /\ runner' = [runner EXCEPT ![r] = "none"] /\ event' = [event EXCEPT ![r] = "none"]
      /\ saving' = [saving EXCEPT ![r] = FALSE]
      /\ orphaned' = (orphaned \/ accepted # {} \/ cancelled)
      /\ UNCHANGED <<row, accepted, taken, cancelled, roused, dropped, crossed, requests>>
      BY DEF Restart
<1>3. /\ tasks' \in [Replicas -> Record] /\ tasks'[r] = NoRecord
      /\ runner' \in [Replicas -> Stage] /\ runner'[r] = "none"
      /\ event' \in [Replicas -> {"none", "clear", "set"}] /\ event'[r] = "none"
      /\ saving' \in [Replicas -> BOOLEAN] /\ ~saving'[r]
      /\ \A q \in Replicas : q # r =>
           tasks'[q] = tasks[q] /\ runner'[q] = runner[q] /\ event'[q] = event[q]
           /\ saving'[q] = saving[q]
      BY <1>1, <1>2, RecordFacts DEF Here, Stage
<1>4. Channels'
      BY <1>1, <1>2, RecordFacts DEF Channels
<1>5. Histories' /\ (accepted' # {} => orphaned') /\ (cancelled' => orphaned')
  <2>1. restarts \in 0..MaxRestarts /\ MaxRestarts \in Nat
        BY <1>1, ReviewChannelsAssumption DEF Histories
  <2>2. restarts' \in 0..MaxRestarts
        BY <1>2, <2>1
  <2> QED
      BY <1>1, <1>2, <2>2 DEF Histories
<1>6. TypeOK'
      BY <1>1, <1>2, <1>3, <1>4, <1>5, TypesOK DEF Here
<1>7. BusSound' /\ KeySound'
  <2>1. BusSound'
        BY <1>1, <1>2, BusSoundKept DEF Channels
  <2> QED
      BY <1>1, <1>2, <2>1 DEF KeySound
<1>8. "none" \notin Alive
      BY DEF Alive
<1>9. OneSite'
      BY <1>1, <1>2, <1>3, <1>8 DEF OneSite, Busy
<1>10. RecordsSound'
       BY <1>1, <1>2, <1>3, RecordFacts DEF RecordsSound, Sound
<1>11. ASSUME NEW q \in Replicas PROVE Woken(q)'
       BY <1>2, <1>3, <1>11 DEF IInv, Woken
<1>12. ASSUME ~crossed' PROVE VerdictSeen' /\ CancelSeen' /\ \A q \in Replicas : InStep(q)'
  <2>1. VerdictSeen' /\ CancelSeen'
        BY <1>5 DEF VerdictSeen, CancelSeen, Lost
  <2>2. ASSUME NEW q \in Replicas PROVE InStep(q)'
    <3>1. CASE q = r
          BY <1>3, <1>8, <3>1 DEF InStep
    <3>2. CASE q # r
      <4>1. InStep(q)
            BY <1>2, <1>12 DEF IInv
      <4> QED
          BY <1>2, <1>3, <1>5, <3>2, <4>1 DEF InStep, Lost
    <3> QED
        BY <3>1, <3>2
  <2> QED
      BY <2>1, <2>2
<1>13. TakenWasAccepted' /\ OneVerdict'
       BY <1>1, <1>2 DEF IInv, TakenWasAccepted, OneVerdict, Histories
<1> QED
    BY <1>6, <1>7, <1>9, <1>10, <1>11, <1>12, <1>13 DEF IInv

----------------------------------------------------------------------------
(* The invariant.                                                          *)

LEMMA InitOK == Init => TypeOK /\ IInv
<1> SUFFICES ASSUME Init PROVE TypeOK /\ IInv
    OBVIOUS
<1>1. /\ tasks = [q \in Replicas |-> IF q = Owner THEN Running ELSE NoRecord]
      /\ row = Running /\ key = [s \in Stores |-> "none"]
      /\ bus = [q \in Replicas |-> "none"] /\ kept = [q \in Replicas |-> "none"]
      /\ listener = [q \in Replicas |-> "absent"]
      /\ publishing = [q \in Replicas |-> {}] /\ inbox = [q \in Replicas |-> {}]
      /\ runner = [q \in Replicas |-> IF q = Owner THEN "asking" ELSE "none"]
      /\ event = [q \in Replicas |-> "none"] /\ saving = [q \in Replicas |-> FALSE]
      /\ accepted = {} /\ taken = {} /\ cancelled = FALSE /\ roused = FALSE /\ dropped = FALSE
      /\ crossed = FALSE /\ orphaned = FALSE /\ requests = 0 /\ restarts = 0
      BY DEF Init
<1>2. TypeOK
  <2>1. 0 \in 0..MaxRequests /\ 0 \in 0..MaxRestarts
        BY ReviewChannelsAssumption
  <2> QED
      BY <1>1, <2>1, RecordFacts, TypesOK DEF Here, Channels, Histories, Stage
<1>3. "none" \notin Alive
      BY DEF Alive
<1>4. OneSite
      BY <1>1, <1>3 DEF OneSite, Busy
<1>5. /\ RecordsSound /\ BusSound /\ KeySound /\ VerdictSeen /\ CancelSeen /\ TakenWasAccepted
      BY <1>1, RecordFacts DEF RecordsSound, Sound, BusSound, KeySound, VerdictSeen, CancelSeen,
                               TakenWasAccepted
<1>6. \A q \in Replicas : Woken(q) /\ InStep(q)
      BY <1>1, <1>3, RecordFacts DEF Woken, InStep
<1>7. OneVerdict
      BY <1>1, FS_EmptySet DEF OneVerdict
<1> QED
    BY <1>2, <1>4, <1>5, <1>6, <1>7 DEF IInv

LEMMA StepOK ==
  ASSUME TypeOK, IInv, [Next]_vars
  PROVE  TypeOK' /\ IInv'
<1>1. ASSUME NEW r \in Replicas, Wait(r) PROVE TypeOK' /\ IInv'
      BY <1>1, AskKeeps, CheckKeeps, WakeKeeps, RoundEndsKeeps, ResumeBeginsKeeps DEF Wait
<1>2. ASSUME NEW r \in Replicas, Client(r) PROVE TypeOK' /\ IInv'
      BY <1>2, ApproveKeeps, ApproveAgainKeeps, QueryKeeps, PauseKeeps, ResumeKeeps,
         CancelKeeps DEF Client
<1>3. ASSUME NEW r \in Replicas, SaveRequest(r) PROVE TypeOK' /\ IInv'
      BY <1>3, SaveRequestKeeps
<1>4. ASSUME NEW r \in Replicas, Published(r) \/ Receive(r) PROVE TypeOK' /\ IInv'
      BY <1>4, BusKeeps
<1>5. ASSUME NEW r \in Replicas, Restart(r) PROVE TypeOK' /\ IInv'
      BY <1>5, RestartKeeps
<1>6. CASE KeyExpires
      BY <1>6, KeyExpiresKeeps
<1>7. CASE UNCHANGED vars
  <2>1. /\ UNCHANGED <<tasks, row, key, bus, kept, listener, publishing, inbox, runner, event,
                       saving, accepted, taken, cancelled, roused, dropped, crossed, orphaned,
                       requests, restarts>>
        BY <1>7 DEF vars
  <2>2. Channels' /\ BusSound' /\ KeySound' /\ dropped' \in BOOLEAN
        BY <2>1, TypesOK DEF IInv, Channels, Histories, BusSound, KeySound
  <2> QED
      BY <2>1, <2>2, ChannelsKeep
<1> QED
    BY <1>1, <1>2, <1>3, <1>4, <1>5, <1>6, <1>7 DEF Next

LEMMA Invariants == Spec => [](TypeOK /\ IInv)
<1>1. Init => TypeOK /\ IInv
      BY InitOK
<1>2. TypeOK /\ IInv /\ [Next]_vars => (TypeOK /\ IInv)'
      BY StepOK
<1> QED
    BY <1>1, <1>2, PTL DEF Spec

\* Whatever the channels lose, delay or repeat, a runner goes on with a
\* verdict that was accepted (`_await_human_review`), as long as requests come
\* to the replica of the runner.  What it goes on with otherwise is named: an
\* approval nobody gave after a pause and a resumption that it slept through
\* (the default of `_await_human_review`), the reject of a cancellation that a
\* restart cut short.  One verdict is accepted for the review
\* (approve_review), as long as no restart comes after it, and no resumed run
\* that finds the state store without it.
THEOREM ReviewIsDecidedOnce == Spec => []ReviewInvariant
<1>1. TypeOK /\ IInv => ReviewInvariant
      BY DEF IInv, ReviewInvariant
<1> QED
    BY <1>1, Invariants, PTL
=============================================================================
