--------------------------- MODULE WebhooksProofs ---------------------------
(***************************************************************************)
(* Proofs about Webhooks, for any replicas, events, requests and bounds.   *)
(* The registration in force is in every copy only because no copy is ever *)
(* made of anything else: CopiesKnown says that what memory, the store and *)
(* a replica that has just read hold was registered, LooksFor that a       *)
(* delivery is not begun by two at once, FiresOK where each delivery       *)
(* stands in its attempts and its history.                                 *)
(***************************************************************************)
EXTENDS Webhooks, SequenceTheorems, TLAPS

(* Every copy of the subscription is one that was registered, with the     *)
(* events asked for, or without a list when none was asked for.            *)
Known(r, a) ==
  \/ r = NoRecord
  \/ /\ r.registration \in 1..Len(a)
     /\ Wanted(r.events) = Wanted(a[r.registration])

CopiesKnown ==
  /\ Known(store, asked)
  /\ \A r \in Replicas : Known(callbacks[r], asked) /\ Known(looking[r].read, asked)

(* What a replica looks for is still to be done when it goes on: the       *)
(* delivery it looks for has not begun.                                    *)
LooksFor(r) ==
  /\ looking[r] # Idle => Exists(looking[r].read) /\ looking[r].for # "nothing"
  /\ IF looking[r].for = "fire"
     THEN /\ looking[r].fire # 0
          /\ fires[looking[r].fire].stage = "pending"
          /\ fires[looking[r].fire].at = r
     ELSE looking[r].fire = 0

Failures(n) == [i \in 1..n |-> FALSE]

(* Where a delivery stands, in its attempts and in its history.            *)
Follows(fire, h) ==
  /\ fire.stage \in {"free", "pending", "skipped"} =>
       fire.registration = 0 /\ fire.attempt = 0 /\ h = <<>>
  /\ fire.stage = "sending" => fire.attempt \in 1..Attempts /\ h = Failures(fire.attempt - 1)
  /\ fire.stage = "waiting" => fire.attempt \in 1..(Attempts - 1) /\ h = Failures(fire.attempt)
  /\ fire.stage = "delivered" => h = <<>> \/ h = [i \in 1..fire.attempt |-> i = fire.attempt]
  /\ fire.stage = "exhausted" => h = <<>> \/ h = Failures(Attempts + 1)

Sent(fire, a) ==
  fire.registration # 0 =>
    /\ fire.registration \in 1..Len(a)
    /\ fire.event \in Wanted(a[fire.registration])

FiresOK == \A f \in 1..MaxFires : Follows(fires[f], history[f]) /\ Sent(fires[f], asked)

IInv == CopiesKnown /\ (\A r \in Replicas : LooksFor(r)) /\ FiresOK /\ CurrentRecord

----------------------------------------------------------------------------
LookFor == {"notify", "test", "unregister", "fire"}

Fire == [stage : {"free", "pending", "sending", "waiting"} \cup Settled,
         at : Replicas, event : Events, registration : 0..MaxRegistrations,
         attempt : 0..Attempts]

Looking == [for : {"nothing"} \cup LookFor, event : Events, fire : 0..MaxFires, read : Record]

Types ==
  /\ callbacks \in [Replicas -> Record] /\ store \in Record
  /\ looking \in [Replicas -> Looking] /\ fires \in [1..MaxFires -> Fire]
  /\ history \in [1..MaxFires -> Seq(BOOLEAN)]
  /\ asked \in Seq(SUBSET Events) /\ current \in 0..Len(asked)
  /\ up \in BOOLEAN /\ stale \in BOOLEAN /\ unsaved \in BOOLEAN
  /\ faults \in 0..MaxFaults

LEMMA TypesOK == (TypeOK <=> Types) /\ (TypeOK' <=> Types')
<1> USE DEF Types, TypeOK, Looking, LookFor, Fire
<1>1. TypeOK <=> Types
      OBVIOUS
<1>2. TypeOK' <=> Types'
      OBVIOUS
<1> QED
    BY <1>1, <1>2

LEMMA RecordFacts ==
  /\ NoRecord \in Record /\ NoRecord.registration = 0 /\ NoRecord.events = {}
  /\ Idle \in Looking /\ Idle.read = NoRecord /\ Idle.fire = 0 /\ Idle.for = "nothing"
  /\ NotFired \in Fire /\ NotFired.stage = "free" /\ NotFired.registration = 0
  /\ NotFired.attempt = 0
  BY WebhooksAssumption
  DEF NoRecord, Record, Idle, Looking, LookFor, NotFired, Fire, Events, Attempts

LEMMA NormalizedFacts ==
  ASSUME NEW r \in Record, NEW a
  PROVE  /\ Normalized(r) \in Record
         /\ Normalized(r).registration = r.registration
         /\ Exists(Normalized(r)) <=> Exists(r)
         /\ Known(r, a) => Known(Normalized(r), a)
         /\ Known(r, a) /\ Exists(r) =>
              /\ r.registration \in 1..Len(a)
              /\ Normalized(r).events = Wanted(a[r.registration])
<1>1. DefaultEvents # {} /\ DefaultEvents \subseteq Events
      BY WebhooksAssumption DEF Events
<1>2. r.events \subseteq Events
      BY DEF Record
<1>3. CASE r = NoRecord
      BY <1>3 DEF Normalized, Exists, Known
<1>4. CASE r # NoRecord
  <2>1. Normalized(r) = [r EXCEPT !.events = Wanted(r.events)]
        BY <1>4 DEF Normalized, Exists
  <2>2. /\ Normalized(r) \in Record /\ Normalized(r).registration = r.registration
        /\ Normalized(r).events = Wanted(r.events)
        BY <1>1, <1>2, <2>1 DEF Record, Wanted
  <2>3. Normalized(r).events # {} /\ Wanted(Wanted(r.events)) = Wanted(r.events)
        BY <1>1, <2>2 DEF Wanted
  <2> QED
      BY <1>4, <2>2, <2>3 DEF Exists, Known, NoRecord
<1> QED
    BY <1>3, <1>4

(* What becomes of a delivery.                                             *)
Noted(r, e, g) == [fires EXCEPT ![g].stage = "pending", ![g].at = r, ![g].event = e]
Skipped(g) == [fires EXCEPT ![g].stage = "skipped"]
Begun(r, e, c, g) ==
  [fires EXCEPT ![g].stage = "sending", ![g].at = r, ![g].event = e,
                ![g].registration = c.registration, ![g].attempt = 1]

LEMMA ChangedFires ==
  ASSUME TypeOK, NEW g \in 1..MaxFires, NEW r \in Replicas, NEW e \in Events, NEW c \in Record
  PROVE  /\ Noted(r, e, g) \in [1..MaxFires -> Fire]
         /\ Noted(r, e, g)[g].stage = "pending" /\ Noted(r, e, g)[g].at = r
         /\ Noted(r, e, g)[g].registration = fires[g].registration
         /\ Noted(r, e, g)[g].attempt = fires[g].attempt
         /\ Skipped(g) \in [1..MaxFires -> Fire]
         /\ Skipped(g)[g].stage = "skipped"
         /\ Skipped(g)[g].registration = fires[g].registration
         /\ Skipped(g)[g].attempt = fires[g].attempt
         /\ Begun(r, e, c, g) \in [1..MaxFires -> Fire]
         /\ Begun(r, e, c, g)[g].stage = "sending"
         /\ Begun(r, e, c, g)[g].registration = c.registration
         /\ Begun(r, e, c, g)[g].event = e
         /\ Begun(r, e, c, g)[g].attempt = 1
         /\ \A f \in (1..MaxFires) \ {g} :
              /\ Noted(r, e, g)[f] = fires[f] /\ Skipped(g)[f] = fires[f]
              /\ Begun(r, e, c, g)[f] = fires[f]
<1>1. fires \in [1..MaxFires -> Fire] /\ c.registration \in 0..MaxRegistrations
      BY TypesOK DEF Types, Record
<1> USE <1>1 DEF Fire, Settled, Attempts
<1>2. /\ Noted(r, e, g) \in [1..MaxFires -> Fire]
      /\ Noted(r, e, g)[g].stage = "pending" /\ Noted(r, e, g)[g].at = r
      /\ Noted(r, e, g)[g].registration = fires[g].registration
      /\ Noted(r, e, g)[g].attempt = fires[g].attempt
      BY DEF Noted
<1>3. /\ Skipped(g) \in [1..MaxFires -> Fire]
      /\ Skipped(g)[g].stage = "skipped"
      /\ Skipped(g)[g].registration = fires[g].registration
      /\ Skipped(g)[g].attempt = fires[g].attempt
      BY DEF Skipped
<1>4. /\ Begun(r, e, c, g) \in [1..MaxFires -> Fire]
      /\ Begun(r, e, c, g)[g].stage = "sending"
      /\ Begun(r, e, c, g)[g].registration = c.registration
      /\ Begun(r, e, c, g)[g].event = e
      /\ Begun(r, e, c, g)[g].attempt = 1
  <2>1. Begun(r, e, c, g)[g]
          = [stage |-> "sending", at |-> r, event |-> e,
             registration |-> c.registration, attempt |-> 1]
        BY DEF Begun
  <2>2. Begun(r, e, c, g)[g] \in Fire
        BY <2>1
  <2>3. Begun(r, e, c, g) \in [1..MaxFires -> Fire]
    <3>1. Begun(r, e, c, g) = [fires EXCEPT ![g] = Begun(r, e, c, g)[g]]
          BY DEF Begun
    <3> QED
        BY <2>2, <3>1
  <2> QED
      BY <2>1, <2>3
<1>5. \A f \in (1..MaxFires) \ {g} :
        /\ Noted(r, e, g)[f] = fires[f] /\ Skipped(g)[f] = fires[f]
        /\ Begun(r, e, c, g)[f] = fires[f]
      BY DEF Noted, Skipped, Begun
<1> QED
    BY <1>2, <1>3, <1>4, <1>5

(* A replica that goes on with the record c leaves the deliveries alone,   *)
(* notes a new one, or begins one or finds it unwanted.                    *)
Proceeds(r, f, c) ==
  /\ UNCHANGED <<asked, current, stale>>
  /\ \/ UNCHANGED <<store, fires, unsaved>>
     \/ \E g \in 1..MaxFires, e \in Events :
          /\ fires[g].stage = "free" \/ (g = f /\ fires[g].stage = "pending")
          /\ \/ /\ UNCHANGED <<store, unsaved>>
                /\ fires[g].stage = "free" /\ fires' = Noted(r, e, g)
             \/ UNCHANGED <<store, unsaved>> /\ fires' = Skipped(g)
             \/ /\ Exists(c) /\ e \in c.events
                /\ fires' = Begun(r, e, c, g)
                /\ store' = IF up THEN c ELSE store
                /\ unsaved' = (unsaved /\ ~(up /\ c.registration = current))

LEMMA ProceedCases ==
  ASSUME TypeOK, NEW r \in Replicas, NEW for \in LookFor, NEW event \in Events,
         NEW f \in 0..MaxFires, NEW c \in Record,
         for = "fire" => f # 0 /\ fires[f].stage = "pending",
         Proceed(r, for, event, f, c)
  PROVE  Proceeds(r, f, c)
<1>1. \A g \in 1..MaxFires : fires[g].event \in Events
      BY TypesOK DEF Types, Fire
<1>2. "webhook.test" \in Events
      BY DEF Events
<1>3. ASSUME NEW g \in 1..MaxFires, NEW e \in Events, Send(g, r, e, c), Exists(c),
             fires[g].stage = "free" \/ (g = f /\ fires[g].stage = "pending")
      PROVE  Proceeds(r, f, c)
      BY <1>3 DEF Send, Skip, Persist, Proceeds, Begun, Skipped, notes
<1>4. CASE Nothing
      BY <1>4 DEF Nothing, Proceeds, notes
<1>5. CASE Notify(r, event)
      BY <1>5 DEF Notify, Place, Free, Proceeds, Noted, notes
<1>6. CASE Exists(c) /\ Test(r, c)
      BY <1>2, <1>3, <1>6 DEF Test, Place, Free
<1>7. CASE for = "fire" /\ ~Exists(c) /\ Skip(f)
  <2>1. f \in 1..MaxFires
        BY <1>7
  <2> QED
      BY <1>2, <1>7, <2>1 DEF Skip, Skipped, Proceeds, notes
<1>8. CASE for = "fire" /\ Exists(c) /\ Send(f, r, fires[f].event, c)
      BY <1>1, <1>3, <1>8
<1> QED
    BY <1>4, <1>5, <1>6, <1>7, <1>8 DEF Proceed

----------------------------------------------------------------------------
(* The steps.                                                              *)

SendsStep ==
  \A f \in 1..MaxFires :
    /\ fires'[f].attempt > fires[f].attempt =>
         \A i \in 1..Len(history[f]) : ~history[f][i]
    /\ fires[f].registration = 0 /\ fires'[f].registration # 0 =>
         stale \/ fires'[f].registration = current

(* Nothing is sent when no delivery makes an attempt or gets a registration. *)
LEMMA QuietSends ==
  ASSUME TypeOK,
         \A f \in 1..MaxFires : /\ fires'[f].attempt = fires[f].attempt
                                /\ fires'[f].registration = fires[f].registration
  PROVE  SendsStep
<1>1. fires \in [1..MaxFires -> Fire]
      BY TypesOK DEF Types
<1>2. \A f \in 1..MaxFires : fires[f].attempt \in 0..3
      BY <1>1 DEF Fire, Attempts
<1>3. \A f \in 1..MaxFires : ~(fires'[f].attempt > fires[f].attempt)
      BY <1>2
<1> QED
    BY <1>3 DEF SendsStep

(* The record in the hands of a replica that goes on is a copy of the      *)
(* registration in force.                                                  *)
Usable(c) ==
  /\ Known(c, asked)
  /\ Exists(c) => /\ c.registration \in 1..Len(asked)
                  /\ c.events = Wanted(asked[c.registration])
  /\ ~stale /\ Exists(c) => c.registration = current

(* r is done with what it has read.                                        *)
IsDone(r) ==
  /\ looking' \in [Replicas -> Looking] /\ looking'[r] = Idle
  /\ \A q \in Replicas \ {r} : looking'[q] = looking[q]
  /\ UNCHANGED <<up, history, faults>>

LEMMA FiresGoOn ==
  ASSUME TypeOK, IInv, NEW r \in Replicas, NEW f \in 0..MaxFires, NEW c \in Record,
         Proceeds(r, f, c), Usable(c), UNCHANGED history
  PROVE  fires' \in [1..MaxFires -> Fire] /\ FiresOK' /\ SendsStep
<1>1. /\ fires \in [1..MaxFires -> Fire] /\ history' = history /\ asked' = asked
      /\ \A g \in 1..MaxFires : Follows(fires[g], history[g]) /\ Sent(fires[g], asked)
      BY TypesOK DEF Types, IInv, FiresOK, Proceeds
<1>2. CASE fires' = fires
      BY <1>1, <1>2 DEF FiresOK, SendsStep, Fire, Attempts
<1>3. ASSUME NEW g \in 1..MaxFires, NEW e \in Events,
             fires[g].stage \in {"free", "pending"},
             \/ fires' = Noted(r, e, g)
             \/ fires' = Skipped(g)
             \/ Exists(c) /\ e \in c.events /\ fires' = Begun(r, e, c, g)
      PROVE  fires' \in [1..MaxFires -> Fire] /\ FiresOK' /\ SendsStep
  <2>1. fires' \in [1..MaxFires -> Fire] /\ \A h \in (1..MaxFires) \ {g} : fires'[h] = fires[h]
        BY <1>3, ChangedFires
  <2>2. fires[g].registration = 0 /\ fires[g].attempt = 0 /\ history[g] = <<>>
        BY <1>1, <1>3 DEF Follows
  <2>3. Follows(fires'[g], history[g])
    <3>1. Failures(0) = <<>>
          BY DEF Failures
    <3> QED
        BY <1>3, <2>2, <3>1, ChangedFires DEF Follows, Attempts
  <2>4. Sent(fires'[g], asked)
        BY <1>1, <1>3, <2>2, ChangedFires DEF Sent, Usable
  <2>5. FiresOK'
        BY <1>1, <2>1, <2>3, <2>4 DEF FiresOK
  <2>6. SendsStep
    <3>1. ASSUME NEW h \in (1..MaxFires) \ {g}
          PROVE  /\ fires'[h].attempt = fires[h].attempt
                 /\ fires'[h].registration = fires[h].registration
                 /\ fires[h].attempt \in Int
          BY <1>1, <2>1 DEF Fire, Attempts
    <3>2. \A i \in 1..Len(history[g]) : ~history[g][i]
          BY <2>2
    <3>3. fires'[g].registration # 0 => stale \/ fires'[g].registration = current
          BY <1>3, <2>2, ChangedFires DEF Usable
    <3> QED
        BY <3>1, <3>2, <3>3 DEF SendsStep
  <2> QED
      BY <2>1, <2>5, <2>6
<1> QED
    BY <1>2, <1>3 DEF Proceeds

LEMMA LooksGoOn ==
  ASSUME TypeOK, IInv, NEW r \in Replicas, NEW f \in 0..MaxFires, NEW c \in Record,
         Proceeds(r, f, c), f # 0 => fires[f].at = r, IsDone(r)
  PROVE  \A q \in Replicas : LooksFor(q)'
<1> SUFFICES ASSUME NEW q \in Replicas PROVE LooksFor(q)'
    OBVIOUS
<1>1. LooksFor(q) /\ looking[q] \in Looking
      BY TypesOK DEF IInv, Types
<1>2. CASE q = r
      BY <1>2, RecordFacts DEF IsDone, LooksFor
<1>3. CASE q # r
  <2>1. looking'[q] = looking[q]
        BY <1>3 DEF IsDone
  <2>2. CASE looking[q].for # "fire"
        BY <1>1, <2>1, <2>2 DEF LooksFor
  <2>3. CASE looking[q].for = "fire"
    <3> DEFINE h == looking[q].fire
    <3>1. h \in 1..MaxFires /\ h # f /\ fires[h].stage = "pending" /\ fires[h].at = q
          BY <1>1, <1>3, <2>3 DEF LooksFor, Looking
    <3>2. fires'[h] = fires[h]
          BY <3>1, ChangedFires DEF Proceeds
    <3> QED
        BY <1>1, <2>1, <2>3, <3>1, <3>2 DEF LooksFor
  <2> QED
      BY <2>2, <2>3
<1> QED
    BY <1>2, <1>3

(* A replica goes on with a usable record.                                 *)
LEMMA GoesOn ==
  ASSUME TypeOK, IInv, NEW r \in Replicas, NEW f \in 0..MaxFires, NEW c \in Record,
         Proceeds(r, f, c), Usable(c), f # 0 => fires[f].at = r, IsDone(r),
         callbacks' = callbacks \/ callbacks' = [callbacks EXCEPT ![r] = c]
  PROVE  TypeOK' /\ IInv' /\ SendsStep
<1>1. Types /\ CopiesKnown /\ CurrentRecord
      BY TypesOK DEF IInv
<1>2. fires' \in [1..MaxFires -> Fire] /\ FiresOK' /\ SendsStep
      BY FiresGoOn DEF IsDone
<1>3. asked' = asked /\ current' = current /\ stale' = stale
      BY DEF Proceeds
<1>4. /\ store' = store \/ (Exists(c) /\ store' = c)
      /\ unsaved' \in BOOLEAN
      /\ ~unsaved' => ~unsaved \/ store'.registration = current
      BY <1>1 DEF Proceeds, Types
<1>5. /\ callbacks' \in [Replicas -> Record] /\ store' \in Record
      /\ \A q \in Replicas : callbacks'[q] = callbacks[q] \/ callbacks'[q] = c
      /\ \A q \in Replicas : looking'[q] = looking[q] \/ looking'[q].read = NoRecord
      BY <1>1, <1>4, RecordFacts DEF Types, IsDone
<1>6. TypeOK'
      BY <1>1, <1>2, <1>3, <1>4, <1>5, TypesOK DEF Types, IsDone
<1>7. CopiesKnown'
      BY <1>1, <1>3, <1>4, <1>5 DEF CopiesKnown, Usable, Known
<1>8. CurrentRecord'
  <2> SUFFICES ASSUME ~stale'
               PROVE  /\ \A q \in Replicas :
                           /\ callbacks'[q].registration \in {0, current'}
                           /\ Exists(looking'[q].read) => looking'[q].read.registration = current'
                      /\ store'.registration \in {0, current'}
                      /\ current' # 0 /\ ~unsaved' => store'.registration = current'
      BY DEF CurrentRecord
  <2>1. /\ \A q \in Replicas :
             /\ callbacks[q].registration \in {0, current}
             /\ Exists(looking[q].read) => looking[q].read.registration = current
        /\ store.registration \in {0, current}
        /\ current # 0 /\ ~unsaved => store.registration = current
        BY <1>1, <1>3 DEF CurrentRecord
  <2>2. c.registration \in {0, current} /\ (Exists(c) => c.registration = current)
        BY <1>3, RecordFacts DEF Usable, Exists
  <2> QED
      BY <1>3, <1>4, <1>5, <2>1, <2>2 DEF Exists
<1>9. \A q \in Replicas : LooksFor(q)'
      BY LooksGoOn
<1> QED
    BY <1>2, <1>6, <1>7, <1>8, <1>9 DEF IInv

(* A subscription that is removed leaves no copy, or the change is stale.  *)
LEMMA UnregisterKeeps ==
  ASSUME TypeOK, IInv, NEW r \in Replicas, Unregister(r), IsDone(r)
  PROVE  TypeOK' /\ IInv' /\ SendsStep
<1>1. Types /\ CopiesKnown /\ FiresOK
      BY TypesOK DEF IInv
<1>2. /\ callbacks' = [callbacks EXCEPT ![r] = NoRecord] /\ asked' = asked /\ current' = 0
      /\ fires' = fires /\ unsaved' = unsaved /\ history' = history
      /\ stale' = (stale \/ HeldElsewhere(r) \/ (~up /\ Exists(store)))
      /\ store' = IF up THEN NoRecord ELSE store
      BY DEF Unregister, Persist, IsDone
<1>3. /\ callbacks' \in [Replicas -> Record] /\ store' \in Record
      /\ callbacks'[r] = NoRecord /\ looking'[r].read = NoRecord
      /\ \A q \in Replicas \ {r} : callbacks'[q] = callbacks[q] /\ looking'[q] = looking[q]
      BY <1>1, <1>2, RecordFacts DEF Types, IsDone
<1>4. TypeOK'
  <2>1. stale' \in BOOLEAN /\ current' \in 0..Len(asked)
        BY <1>1, <1>2 DEF Types, HeldElsewhere, Exists
  <2> QED
      BY <1>1, <1>2, <1>3, <2>1, TypesOK DEF Types, IsDone
<1>5. CopiesKnown'
  <2>1. Known(NoRecord, asked)
        BY DEF Known
  <2>2. Known(store, asked)
        BY <1>1 DEF CopiesKnown
  <2>3. \A q \in Replicas : Known(callbacks[q], asked) /\ Known(looking[q].read, asked)
        BY <1>1 DEF CopiesKnown
  <2>4. \A q \in Replicas : Known(callbacks'[q], asked) /\ Known(looking'[q].read, asked)
        BY <1>3, <2>1, <2>3
  <2> QED
      BY <1>2, <2>1, <2>2, <2>4 DEF CopiesKnown
<1>6. CurrentRecord'
  <2> SUFFICES ASSUME ~stale'
               PROVE  /\ \A q \in Replicas :
                           /\ callbacks'[q].registration \in {0, current'}
                           /\ Exists(looking'[q].read) => looking'[q].read.registration = current'
                      /\ store'.registration \in {0, current'}
                      /\ current' # 0 /\ ~unsaved' => store'.registration = current'
      BY DEF CurrentRecord
  <2>1. \A q \in Replicas : ~Exists(callbacks'[q]) /\ ~Exists(looking'[q].read)
        BY <1>2, <1>3 DEF HeldElsewhere, Exists
  <2>2. store' = NoRecord
        BY <1>2 DEF Exists
  <2> QED
      BY <1>2, <2>1, <2>2, RecordFacts DEF Exists
<1>7. FiresOK'
      BY <1>1, <1>2 DEF FiresOK
<1>8. \A q \in Replicas : LooksFor(q)'
  <2>1. \A q \in Replicas : LooksFor(q)
        BY DEF IInv
  <2>2. ASSUME NEW q \in Replicas \ {r} PROVE LooksFor(q)'
        BY <1>2, <1>3, <2>1 DEF LooksFor
  <2>3. LooksFor(r)'
        BY RecordFacts DEF LooksFor, IsDone
  <2> QED
      BY <2>2, <2>3
<1>9. SendsStep
      BY <1>2, QuietSends
<1> QED
    BY <1>4, <1>5, <1>6, <1>7, <1>8, <1>9 DEF IInv

----------------------------------------------------------------------------
(* Looking for the subscription.                                           *)

LEMMA UsableCopies ==
  ASSUME TypeOK, IInv, NEW r \in Replicas
  PROVE  /\ Normalized(callbacks[r]) \in Record /\ Usable(Normalized(callbacks[r]))
         /\ Exists(Normalized(callbacks[r])) <=> Exists(callbacks[r])
         /\ Normalized(looking[r].read) \in Record
         /\ looking[r] # Idle => Usable(Normalized(looking[r].read))
<1>1. callbacks[r] \in Record /\ looking[r].read \in Record
      BY TypesOK DEF Types, Looking
<1>2. Known(callbacks[r], asked) /\ Known(looking[r].read, asked)
      BY DEF IInv, CopiesKnown
<1>3. ASSUME ~stale
      PROVE  /\ callbacks[r].registration \in {0, current}
             /\ Exists(looking[r].read) => looking[r].read.registration = current
      BY <1>3 DEF IInv, CurrentRecord
<1>4. Exists(callbacks[r]) => callbacks[r].registration # 0
  <2>1. ~(0 \in 1..Len(asked))
        BY TypesOK DEF Types
  <2> QED
      BY <1>2, <2>1 DEF Known, Exists
<1>5. \A c \in {callbacks[r], looking[r].read} :
        /\ Normalized(c) \in Record /\ Normalized(c).registration = c.registration
        /\ Exists(Normalized(c)) <=> Exists(c)
        /\ Known(Normalized(c), asked)
        /\ Exists(c) => /\ c.registration \in 1..Len(asked)
                        /\ Normalized(c).events = Wanted(asked[c.registration])
      BY <1>1, <1>2, NormalizedFacts
<1> QED
    BY <1>3, <1>4, <1>5 DEF Usable

LEMMA LookKeeps ==
  ASSUME TypeOK, IInv, NEW r \in Replicas, NEW for \in LookFor, NEW event \in Events,
         NEW f \in 0..MaxFires, Look(r, for, event, f),
         for = "fire" => f # 0 /\ fires[f].stage = "pending" /\ fires[f].at = r,
         for # "fire" => f = 0
  PROVE  TypeOK' /\ IInv' /\ SendsStep
<1>1. Types /\ CopiesKnown /\ FiresOK /\ CurrentRecord /\ \A q \in Replicas : LooksFor(q)
      BY TypesOK DEF IInv
<1>2. looking[r] = Idle /\ up' = up /\ history' = history /\ faults' = faults
      BY DEF Look
<1>3. CASE looking' = looking /\ for = "unregister" /\ Unregister(r)
  <2>1. IsDone(r)
        BY <1>1, <1>2, <1>3 DEF IsDone, Types
  <2> QED
      BY <1>3, <2>1, UnregisterKeeps
<1>4. CASE /\ looking' = looking /\ callbacks' = callbacks
           /\ Proceed(r, for, event, f, Normalized(callbacks[r]))
  <2>1. IsDone(r)
        BY <1>1, <1>2, <1>4 DEF IsDone, Types
  <2>2. Proceeds(r, f, Normalized(callbacks[r]))
        BY <1>4, ProceedCases, UsableCopies
  <2>3. f # 0 => fires[f].at = r
        OBVIOUS
  <2> QED
      BY <1>4, <2>1, <2>2, <2>3, GoesOn, UsableCopies
<1>5. CASE /\ callbacks' = callbacks /\ Exists(Read)
           /\ looking' = [looking EXCEPT ![r] =
                            [for |-> for, event |-> event, fire |-> f, read |-> Read]]
           /\ UNCHANGED <<store, fires, notes>>
  <2>1. Read = store
        BY <1>5 DEF Read, Exists
  <2>2. /\ looking' \in [Replicas -> Looking]
        /\ looking'[r].for = for /\ looking'[r].fire = f /\ looking'[r].read = store
        /\ \A q \in Replicas \ {r} : looking'[q] = looking[q]
    <3>1. [for |-> for, event |-> event, fire |-> f, read |-> store] \in Looking
          BY <1>1 DEF Looking, Types
    <3> QED
        BY <1>1, <1>5, <2>1, <3>1 DEF Types
  <2>3. /\ store' = store /\ fires' = fires /\ asked' = asked /\ current' = current
        /\ stale' = stale /\ unsaved' = unsaved
        BY <1>5 DEF notes
  <2>4. TypeOK'
        BY <1>1, <1>2, <1>5, <2>2, <2>3, TypesOK DEF Types
  <2>5. CopiesKnown'
    <3>1. \A q \in Replicas : looking'[q].read = looking[q].read \/ looking'[q].read = store
          BY <2>2
    <3> QED
        BY <1>1, <1>5, <2>3, <3>1 DEF CopiesKnown
  <2>6. CurrentRecord'
    <3>1. Exists(store) => store.registration # 0
      <4>1. ~(0 \in 1..Len(asked))
            BY <1>1 DEF Types
      <4> QED
          BY <1>1, <4>1 DEF CopiesKnown, Known, Exists
    <3>2. \A q \in Replicas : looking'[q].read = looking[q].read \/ looking'[q].read = store
          BY <2>2
    <3>3. ~stale /\ Exists(store) => store.registration = current
          BY <1>1, <3>1 DEF CurrentRecord
    <3> QED
        BY <1>1, <1>5, <2>3, <3>2, <3>3 DEF CurrentRecord, Exists
  <2>7. FiresOK'
        BY <1>1, <1>2, <2>3 DEF FiresOK
  <2>8. \A q \in Replicas : LooksFor(q)'
    <3>1. ASSUME NEW q \in Replicas \ {r} PROVE LooksFor(q)'
          BY <1>1, <2>2, <2>3 DEF LooksFor
    <3>2. LooksFor(r)'
          BY <1>5, <2>1, <2>2, <2>3 DEF LooksFor, LookFor, Exists
    <3> QED
        BY <3>1, <3>2
  <2>9. SendsStep
        BY <2>3, QuietSends
  <2> QED
      BY <2>4, <2>5, <2>6, <2>7, <2>8, <2>9 DEF IInv
<1> QED
    BY <1>3, <1>4, <1>5 DEF Look

LEMMA FoundKeeps ==
  ASSUME TypeOK, IInv, NEW r \in Replicas, Found(r)
  PROVE  TypeOK' /\ IInv' /\ SendsStep
<1>1. looking[r] # Idle /\ LooksFor(r) /\ looking[r] \in Looking
      BY TypesOK DEF Found, IInv, Types
<1>2. /\ looking[r].for \in LookFor /\ looking[r].event \in Events
      /\ looking[r].fire \in 0..MaxFires
      BY <1>1 DEF LooksFor, Looking
<1>3. IsDone(r)
  <2>1. looking \in [Replicas -> Looking]
        BY TypesOK DEF Types
  <2> QED
      BY <2>1, RecordFacts DEF IsDone, Found
<1>4. CASE looking[r].for = "unregister"
      BY <1>3, <1>4, UnregisterKeeps DEF Found
<1>5. CASE looking[r].for # "unregister"
  <2> DEFINE c == Normalized(looking[r].read)
  <2>1. /\ callbacks' = [callbacks EXCEPT ![r] = c]
        /\ Proceed(r, looking[r].for, looking[r].event, looking[r].fire, c)
        BY <1>5 DEF Found
  <2>2. c \in Record /\ Usable(c)
        BY <1>1, UsableCopies
  <2>3. /\ looking[r].for = "fire" =>
             looking[r].fire # 0 /\ fires[looking[r].fire].stage = "pending"
        /\ looking[r].fire # 0 => fires[looking[r].fire].at = r
        BY <1>1 DEF LooksFor
  <2>4. Proceeds(r, looking[r].fire, c)
        BY <1>2, <2>1, <2>2, <2>3, ProceedCases
  <2> QED
      BY <1>2, <1>3, <2>1, <2>2, <2>3, <2>4, GoesOn
<1> QED
    BY <1>4, <1>5

----------------------------------------------------------------------------
(* The other steps.                                                        *)

LEMMA LongerKnown ==
  ASSUME NEW a \in Seq(SUBSET Events), NEW e \in SUBSET Events
  PROVE  /\ Append(a, e) \in Seq(SUBSET Events) /\ Len(Append(a, e)) = Len(a) + 1
         /\ Append(a, e)[Len(a) + 1] = e
         /\ \A c : Known(c, a) => Known(c, Append(a, e))
         /\ \A fire : Sent(fire, a) => Sent(fire, Append(a, e))
<1>1. /\ Append(a, e) \in Seq(SUBSET Events) /\ Len(Append(a, e)) = Len(a) + 1
      /\ Append(a, e)[Len(a) + 1] = e
      /\ \A k \in 1..Len(a) : Append(a, e)[k] = a[k] /\ k \in 1..(Len(a) + 1)
      OBVIOUS
<1>2. \A c : Known(c, a) => Known(c, Append(a, e))
      BY <1>1 DEF Known
<1>3. \A fire : Sent(fire, a) => Sent(fire, Append(a, e))
      BY <1>1 DEF Sent
<1> QED
    BY <1>1, <1>2, <1>3

LEMMA RegisterKeeps ==
  ASSUME TypeOK, IInv, NEW r \in Replicas, NEW events \in Requests, Register(r, events)
  PROVE  TypeOK' /\ IInv' /\ SendsStep
<1> DEFINE n == Len(asked) + 1
           payload == [registration |-> n, events |-> Wanted(events)]
<1>1. Types /\ CopiesKnown /\ FiresOK /\ CurrentRecord /\ \A q \in Replicas : LooksFor(q)
      BY TypesOK DEF IInv
<1>2. /\ looking[r] = Idle /\ n <= MaxRegistrations
      /\ callbacks' = [callbacks EXCEPT ![r] = payload]
      /\ store' = IF up THEN payload ELSE store
      /\ asked' = Append(asked, events) /\ current' = n /\ unsaved' = ~up
      /\ stale' = (stale \/ HeldElsewhere(r) \/ (~up /\ Exists(store)))
      /\ up' = up /\ looking' = looking /\ history' = history /\ faults' = faults
      BY DEF Register, Persist
<1>3. events \in SUBSET Events /\ Wanted(events) \in SUBSET Events
      /\ Wanted(Wanted(events)) = Wanted(events)
      BY WebhooksAssumption DEF Wanted, Events
<1>4. /\ asked' \in Seq(SUBSET Events) /\ Len(asked') = n /\ asked'[n] = events
      /\ \A c : Known(c, asked) => Known(c, asked')
      /\ \A fire : Sent(fire, asked) => Sent(fire, asked')
      BY <1>1, <1>2, <1>3, LongerKnown DEF Types
<1>5. n \in Nat /\ n # 0 /\ n \in 1..Len(asked') /\ n \in 0..Len(asked')
  <2>1. Len(asked) \in Nat
        BY <1>1 DEF Types
  <2> QED
      BY <1>4, <2>1
<1>6. /\ payload \in Record /\ Known(payload, asked') /\ payload.registration = n
      /\ Exists(payload)
  <2>1. n \in 0..MaxRegistrations
        BY <1>2, <1>5, WebhooksAssumption
  <2> QED
      BY <1>3, <1>4, <1>5, <2>1 DEF Record, Known, Exists, NoRecord
<1>7. /\ callbacks' \in [Replicas -> Record] /\ store' \in Record
      /\ callbacks'[r] = payload /\ \A q \in Replicas \ {r} : callbacks'[q] = callbacks[q]
  <2> HIDE DEF payload
  <2> QED
      BY <1>1, <1>2, <1>6 DEF Types
<1>8. \/ fires' = fires
      \/ \E f \in 1..MaxFires :
           fires[f].stage = "free" /\ fires' = Noted(r, "task.created", f)
      BY DEF Register, Place, Free, Noted
<1>9. "task.created" \in Events
      BY WebhooksAssumption DEF Events
<1>10. fires' \in [1..MaxFires -> Fire]
       BY <1>1, <1>8, <1>9, RecordFacts, ChangedFires DEF Types
<1>11. /\ stale' \in BOOLEAN /\ unsaved' \in BOOLEAN
       BY <1>1, <1>2 DEF Types, HeldElsewhere, Exists
<1>12. TypeOK'
       BY <1>1, <1>2, <1>4, <1>5, <1>7, <1>10, <1>11, TypesOK DEF Types
<1>13. CopiesKnown'
  <2>1. \A q \in Replicas : Known(callbacks[q], asked') /\ Known(looking[q].read, asked')
        BY <1>1, <1>4 DEF CopiesKnown
  <2>2. Known(store', asked')
        BY <1>1, <1>2, <1>4, <1>6 DEF CopiesKnown
  <2>3. \A q \in Replicas : callbacks'[q] = payload \/ callbacks'[q] = callbacks[q]
        BY <1>7
  <2> HIDE DEF payload
  <2> QED
      BY <1>2, <1>6, <2>1, <2>2, <2>3 DEF CopiesKnown
<1>14. CurrentRecord'
  <2> SUFFICES ASSUME ~stale'
               PROVE  /\ \A q \in Replicas :
                           /\ callbacks'[q].registration \in {0, current'}
                           /\ Exists(looking'[q].read) => looking'[q].read.registration = current'
                      /\ store'.registration \in {0, current'}
                      /\ current' # 0 /\ ~unsaved' => store'.registration = current'
      BY DEF CurrentRecord
  <2>1. \A q \in Replicas \ {r} : callbacks'[q] = NoRecord /\ looking'[q].read = NoRecord
        BY <1>2, <1>7 DEF HeldElsewhere, Exists
  <2>2. looking'[r].read = NoRecord
        BY <1>2, RecordFacts
  <2>3. store' = payload \/ (~up /\ store' = NoRecord)
        BY <1>2 DEF Exists
  <2> HIDE DEF payload, n
  <2> QED
      BY <1>2, <1>6, <1>7, <2>1, <2>2, <2>3, RecordFacts DEF Exists
<1>15. /\ \A f \in 1..MaxFires : /\ fires'[f].attempt = fires[f].attempt
                                 /\ fires'[f].registration = fires[f].registration
       /\ FiresOK'
  <2>1. CASE fires' = fires
        BY <1>1, <1>2, <1>4, <2>1 DEF FiresOK
  <2>2. ASSUME NEW f \in 1..MaxFires, fires[f].stage = "free",
               fires' = Noted(r, "task.created", f)
        PROVE  /\ \A g \in 1..MaxFires : /\ fires'[g].attempt = fires[g].attempt
                                         /\ fires'[g].registration = fires[g].registration
               /\ FiresOK'
    <3>1. /\ fires'[f].stage = "pending" /\ fires'[f].registration = fires[f].registration
          /\ fires'[f].attempt = fires[f].attempt
          /\ \A g \in (1..MaxFires) \ {f} : fires'[g] = fires[g]
          BY <1>9, <2>2, RecordFacts, ChangedFires
    <3>2. fires[f].registration = 0 /\ fires[f].attempt = 0 /\ history[f] = <<>>
          BY <1>1, <2>2 DEF FiresOK, Follows
    <3>3. Follows(fires'[f], history'[f]) /\ Sent(fires'[f], asked')
          BY <1>2, <3>1, <3>2 DEF Follows, Sent
    <3>4. \A g \in (1..MaxFires) \ {f} :
            Follows(fires'[g], history'[g]) /\ Sent(fires'[g], asked')
          BY <1>1, <1>2, <1>4, <3>1 DEF FiresOK
    <3> QED
        BY <3>1, <3>3, <3>4 DEF FiresOK
  <2> QED
      BY <1>8, <2>1, <2>2
<1>16. \A q \in Replicas : LooksFor(q)'
  <2>1. ASSUME NEW g \in 1..MaxFires, fires[g].stage = "pending"
        PROVE  fires'[g] = fires[g]
        BY <1>8, <1>9, <2>1, RecordFacts, ChangedFires
  <2>2. ASSUME NEW q \in Replicas PROVE LooksFor(q)'
    <3>1. LooksFor(q) /\ looking[q] \in Looking
          BY <1>1 DEF Types
    <3> QED
        BY <1>2, <2>1, <3>1 DEF LooksFor, Looking
  <2> QED
      BY <2>2
<1> QED
    BY <1>12, <1>13, <1>14, <1>15, <1>16, QuietSends DEF IInv

(* The store is away, is back, or has dropped the record.                  *)
LEMMA StoreKeeps ==
  ASSUME TypeOK, IInv, Expires \/ StoreGoes \/ StoreReturns
  PROVE  TypeOK' /\ IInv' /\ SendsStep
<1>1. Types /\ CopiesKnown /\ FiresOK /\ CurrentRecord /\ \A q \in Replicas : LooksFor(q)
      BY TypesOK DEF IInv
<1>2. /\ callbacks' = callbacks /\ looking' = looking /\ fires' = fires /\ history' = history
      /\ asked' = asked /\ current' = current /\ stale' = stale
      /\ \/ store' = store /\ unsaved' = unsaved
         \/ store' = NoRecord /\ unsaved' = (current # 0)
      BY DEF Expires, StoreGoes, StoreReturns, subscription, notes
<1>3. up' \in BOOLEAN /\ faults' \in 0..MaxFaults
  <2>1. faults \in 0..MaxFaults /\ MaxFaults \in Nat /\ up \in BOOLEAN
        BY <1>1, WebhooksAssumption DEF Types
  <2>2. \/ up' = up /\ faults' = faults
        \/ up' = TRUE /\ faults' = faults
        \/ up' = FALSE /\ faults < MaxFaults /\ faults' = faults + 1
        BY DEF Expires, StoreGoes, StoreReturns
  <2>3. up' \in BOOLEAN
        BY <2>1, <2>2
  <2>4. faults' = faults \/ (faults < MaxFaults /\ faults' = faults + 1)
        BY <2>2
  <2> QED
      BY <2>1, <2>3, <2>4
<1>4. TypeOK'
      BY <1>1, <1>2, <1>3, RecordFacts, TypesOK DEF Types
<1>5. CopiesKnown'
      BY <1>1, <1>2 DEF CopiesKnown, Known
<1>6. CurrentRecord'
      BY <1>1, <1>2, RecordFacts DEF CurrentRecord
<1>7. FiresOK' /\ \A q \in Replicas : LooksFor(q)'
      BY <1>1, <1>2 DEF FiresOK, LooksFor
<1>8. SendsStep
      BY <1>2, QuietSends
<1> QED
    BY <1>4, <1>5, <1>6, <1>7, <1>8 DEF IInv

(* The history after an answer.                                            *)
LEMMA FailuresFacts ==
  ASSUME NEW n \in Nat
  PROVE  /\ Failures(n) \in Seq(BOOLEAN) /\ Len(Failures(n)) = n
         /\ \A i \in 1..n : Failures(n)[i] = FALSE
  BY DEF Failures

LEMMA JoinedHistory ==
  ASSUME NEW n \in Nat, NEW m \in Nat, NEW t \in Seq(BOOLEAN), Len(t) = m
  PROVE  /\ Failures(n) \o t \in Seq(BOOLEAN) /\ Len(Failures(n) \o t) = n + m
         /\ \A i \in 1..n : (Failures(n) \o t)[i] = FALSE
         /\ \A i \in (n + 1)..(n + m) : (Failures(n) \o t)[i] = t[i - n]
<1> DEFINE h == Failures(n)
<1>1. h \in Seq(BOOLEAN) /\ Len(h) = n /\ \A i \in 1..n : h[i] = FALSE
      BY FailuresFacts
<1> HIDE DEF h
<1>2. /\ h \o t \in Seq(BOOLEAN) /\ Len(h \o t) = n + m
      /\ \A i \in 1..(n + m) : (h \o t)[i] = IF i <= n THEN h[i] ELSE t[i - n]
  <2>1. /\ h \o t \in Seq(BOOLEAN) /\ Len(h \o t) = Len(h) + Len(t)
        /\ \A i \in 1..Len(h) + Len(t) : (h \o t)[i] = IF i <= Len(h) THEN h[i] ELSE t[i - Len(h)]
        BY <1>1, ConcatProperties, Zenon
  <2> QED
      BY <1>1, <2>1
<1>3. \A i \in 1..n : (h \o t)[i] = FALSE
  <2>1. ASSUME NEW i \in 1..n PROVE (h \o t)[i] = FALSE
    <3>1. i \in 1..(n + m) /\ i <= n
          OBVIOUS
    <3>2. (h \o t)[i] = h[i]
          BY <1>2, <3>1
    <3> QED
        BY <1>1, <3>2, Zenon
  <2> QED
      BY <2>1
<1>4. \A i \in (n + 1)..(n + m) : (h \o t)[i] = t[i - n]
  <2>1. ASSUME NEW i \in (n + 1)..(n + m) PROVE (h \o t)[i] = t[i - n]
    <3>1. i \in 1..(n + m) /\ ~(i <= n)
          OBVIOUS
    <3> QED
        BY <1>2, <3>1
  <2> QED
      BY <2>1
<1> QED
    BY <1>2, <1>3, <1>4 DEF h

LEMMA LongerBy ==
  ASSUME NEW n \in Nat, NEW m \in Nat, NEW t \in Seq(BOOLEAN), Len(t) = m,
         NEW g \in Seq(BOOLEAN), Len(g) = n + m,
         \A i \in 1..n : g[i] = FALSE,
         \A i \in (n + 1)..(n + m) : g[i] = t[i - n]
  PROVE  Failures(n) \o t = g
<1> DEFINE h == Failures(n) \o t
<1>1. /\ h \in Seq(BOOLEAN) /\ Len(h) = n + m
      /\ \A i \in 1..n : h[i] = FALSE
      /\ \A i \in (n + 1)..(n + m) : h[i] = t[i - n]
      BY JoinedHistory
<1> HIDE DEF h
<1>2. ASSUME NEW i \in 1..(n + m) PROVE h[i] = g[i]
  <2>1. i \in 1..n \/ i \in (n + 1)..(n + m)
        OBVIOUS
  <2> QED
      BY <1>1, <2>1, Zenon
<1>3. Len(h) = Len(g) /\ \A i \in 1..Len(h) : h[i] = g[i]
      BY <1>1, <1>2
<1>4. h = g
      BY <1>1, <1>3, SeqEqual, Zenon
<1> QED
    BY <1>4 DEF h

LEMMA LongerHistory ==
  ASSUME NEW n \in Nat
  PROVE  /\ Failures(n) \in Seq(BOOLEAN)
         /\ \A i \in 1..Len(Failures(n)) : ~Failures(n)[i]
         /\ Failures(n) \o <<FALSE>> = Failures(n + 1)
         /\ Failures(n) \o <<FALSE, FALSE>> = Failures(n + 2)
         /\ Failures(n) \o <<TRUE>> = [i \in 1..(n + 1) |-> i = n + 1]
<1>0. 1 \in Nat /\ 2 \in Nat /\ n + 1 \in Nat /\ n + 2 \in Nat
      OBVIOUS
<1>1. Failures(n) \in Seq(BOOLEAN) /\ \A i \in 1..Len(Failures(n)) : ~Failures(n)[i]
      BY FailuresFacts
<1>2. Failures(n) \o <<FALSE>> = Failures(n + 1)
  <2> DEFINE t == <<FALSE>>
             g == Failures(n + 1)
  <2>1. t \in Seq(BOOLEAN) /\ Len(t) = 1 /\ t[1] = FALSE
        OBVIOUS
  <2>2. g \in Seq(BOOLEAN) /\ Len(g) = n + 1 /\ \A i \in 1..(n + 1) : g[i] = FALSE
        BY <1>0, FailuresFacts, Zenon
  <2> HIDE DEF t, g
  <2>3. \A i \in 1..n : g[i] = FALSE
        BY <2>2
  <2>4. ASSUME NEW i \in (n + 1)..(n + 1) PROVE g[i] = t[i - n]
    <3>1. i - n = 1 /\ i \in 1..(n + 1) /\ i = n + 1
          OBVIOUS
    <3> QED
        BY <2>1, <2>2, <3>1, Zenon
  <2>5. Failures(n) \o t = g
        BY <1>0, <2>1, <2>2, <2>3, <2>4, LongerBy, Zenon
  <2> QED
      BY <2>5 DEF t, g
<1>3. Failures(n) \o <<FALSE, FALSE>> = Failures(n + 2)
  <2> DEFINE t == <<FALSE, FALSE>>
             g == Failures(n + 2)
  <2>1. t \in Seq(BOOLEAN) /\ Len(t) = 2 /\ t[1] = FALSE /\ t[2] = FALSE
        OBVIOUS
  <2>2. g \in Seq(BOOLEAN) /\ Len(g) = n + 2 /\ \A i \in 1..(n + 2) : g[i] = FALSE
        BY <1>0, FailuresFacts, Zenon
  <2> HIDE DEF t, g
  <2>3. \A i \in 1..n : g[i] = FALSE
        BY <2>2
  <2>4. ASSUME NEW i \in (n + 1)..(n + 2) PROVE g[i] = t[i - n]
    <3>1. (i - n = 1 \/ i - n = 2) /\ i \in 1..(n + 2)
          OBVIOUS
    <3> QED
        BY <2>1, <2>2, <3>1, Zenon
  <2>5. Failures(n) \o t = g
        BY <1>0, <2>1, <2>2, <2>3, <2>4, LongerBy, Zenon
  <2> QED
      BY <2>5 DEF t, g
<1>4. Failures(n) \o <<TRUE>> = [i \in 1..(n + 1) |-> i = n + 1]
  <2> DEFINE t == <<TRUE>>
             g == [i \in 1..(n + 1) |-> i = n + 1]
  <2>1. t \in Seq(BOOLEAN) /\ Len(t) = 1 /\ t[1] = TRUE
        OBVIOUS
  <2>2. g \in Seq(BOOLEAN) /\ Len(g) = n + 1 /\ \A i \in 1..(n + 1) : g[i] = (i = n + 1)
        OBVIOUS
  <2> HIDE DEF t, g
  <2>3. \A i \in 1..n : g[i] = FALSE
        BY <2>2
  <2>4. ASSUME NEW i \in (n + 1)..(n + 1) PROVE g[i] = t[i - n]
    <3>1. i - n = 1 /\ i \in 1..(n + 1) /\ i = n + 1
          OBVIOUS
    <3> QED
        BY <2>1, <2>2, <3>1, Zenon
  <2>5. Failures(n) \o t = g
        BY <1>0, <2>1, <2>2, <2>3, <2>4, LongerBy, Zenon
  <2> QED
      BY <2>5 DEF t, g
<1> QED
    BY <1>1, <1>2, <1>3, <1>4

LEMMA AnsweredKeeps ==
  ASSUME TypeOK, IInv, NEW f \in 1..MaxFires, NEW o \in Outcomes, Answered(f, o)
  PROVE  TypeOK' /\ IInv' /\ SendsStep
<1> DEFINE n == fires[f].attempt
           next == AfterAnswer(n, o)
<1>1. Types /\ CopiesKnown /\ FiresOK /\ CurrentRecord /\ \A q \in Replicas : LooksFor(q)
      BY TypesOK DEF IInv
<1>2. /\ fires[f].stage = "sending" /\ fires' = [fires EXCEPT ![f].stage = next]
      /\ history' = [history EXCEPT ![f] = history[f] \o Recorded(n, o)]
      /\ callbacks' = callbacks /\ store' = store /\ looking' = looking /\ up' = up
      /\ asked' = asked /\ current' = current /\ stale' = stale /\ unsaved' = unsaved
      /\ faults' = faults
      BY DEF Answered, subscription, notes
<1>3. n \in 1..Attempts /\ history[f] = Failures(n - 1)
      BY <1>1, <1>2 DEF FiresOK, Follows
<1>4. n \in 1..3 /\ n - 1 \in Nat /\ (n - 1) + 1 = n /\ (n - 1) + 2 = n + 1
      BY <1>3 DEF Attempts
<1>5. \/ /\ o = "accepted" /\ next = "delivered" /\ Recorded(n, o) = <<TRUE>>
      \/ /\ n < 3 /\ next = "waiting" /\ Recorded(n, o) = <<FALSE>>
      \/ /\ n = 3 /\ next = "exhausted" /\ Recorded(n, o) = <<FALSE, FALSE>>
  <2>1. o = "accepted" \/ o = "failed"
        BY DEF Outcomes
  <2>2. CASE o = "accepted"
        BY <2>2 DEF AfterAnswer, Recorded
  <2>3. CASE o = "failed" /\ n < 3
        BY <2>3 DEF AfterAnswer, Recorded, Attempts
  <2>4. CASE o = "failed" /\ n = 3
        BY <2>4 DEF AfterAnswer, Recorded, Attempts
  <2> HIDE DEF n, next
  <2>5. n < 3 \/ n = 3
        BY <1>4
  <2> QED
      BY <2>1, <2>2, <2>3, <2>4, <2>5
<1>6. /\ fires' \in [1..MaxFires -> Fire] /\ fires'[f].stage = next
      /\ fires'[f].attempt = n /\ fires'[f].registration = fires[f].registration
      /\ fires'[f].event = fires[f].event
      /\ \A g \in (1..MaxFires) \ {f} : fires'[g] = fires[g]
  <2>1. fires \in [1..MaxFires -> Fire] /\ next \in {"delivered", "waiting", "exhausted"}
        BY <1>1, <1>5 DEF Types
  <2> HIDE DEF next
  <2> QED
      BY <1>2, <2>1 DEF Fire, Settled
<1>7. history \in [1..MaxFires -> Seq(BOOLEAN)]
      BY <1>1 DEF Types
<1>8. /\ history' \in [1..MaxFires -> Seq(BOOLEAN)]
      /\ history'[f] = Failures(n - 1) \o Recorded(n, o)
      /\ \A g \in (1..MaxFires) \ {f} : history'[g] = history[g]
  <2>1. history[f] \o Recorded(n, o) \in Seq(BOOLEAN)
    <3>1. Recorded(n, o) \in Seq(BOOLEAN)
      <4> <<TRUE>> \in Seq(BOOLEAN) /\ <<FALSE>> \in Seq(BOOLEAN)
            /\ <<FALSE, FALSE>> \in Seq(BOOLEAN)
          OBVIOUS
      <4> HIDE DEF n, next
      <4> QED
          BY <1>5
    <3> HIDE DEF n
    <3> QED
        BY <1>7, <3>1
  <2> HIDE DEF n
  <2> QED
      BY <1>2, <1>3, <1>7, <2>1
<1>9. TypeOK'
      BY <1>1, <1>2, <1>6, <1>8, TypesOK DEF Types
<1>10. Follows(fires'[f], history'[f])
  <2>1. CASE next = "delivered" /\ Recorded(n, o) = <<TRUE>>
    <3>1. history'[f] = [i \in 1..n |-> i = n]
      <4>1. Failures(n - 1) \o <<TRUE>> = [i \in 1..((n - 1) + 1) |-> i = (n - 1) + 1]
            BY <1>4, LongerHistory
      <4> HIDE DEF n
      <4> QED
          BY <1>4, <1>8, <2>1, <4>1
    <3> QED
        BY <1>6, <2>1, <3>1 DEF Follows
  <2>2. CASE n < 3 /\ next = "waiting" /\ Recorded(n, o) = <<FALSE>>
    <3>1. history'[f] = Failures(n)
          BY <1>4, <1>8, <2>2, LongerHistory
    <3>2. n \in 1..(Attempts - 1)
          BY <1>4, <2>2 DEF Attempts
    <3> QED
        BY <1>6, <2>2, <3>1, <3>2 DEF Follows
  <2>3. CASE n = 3 /\ next = "exhausted" /\ Recorded(n, o) = <<FALSE, FALSE>>
    <3>1. history'[f] = Failures(n + 1)
          BY <1>4, <1>8, <2>3, LongerHistory
    <3>2. n + 1 = Attempts + 1
          BY <2>3 DEF Attempts
    <3> QED
        BY <1>6, <2>3, <3>1, <3>2 DEF Follows
  <2> QED
      BY <1>5, <2>1, <2>2, <2>3
<1>11. FiresOK'
  <2>1. \A g \in 1..MaxFires : Follows(fires[g], history[g]) /\ Sent(fires[g], asked)
        BY <1>1 DEF FiresOK
  <2>2. Sent(fires'[f], asked)
        BY <1>6, <2>1 DEF Sent
  <2> QED
      BY <1>2, <1>6, <1>8, <1>10, <2>1, <2>2 DEF FiresOK
<1>12. CopiesKnown' /\ CurrentRecord'
       BY <1>1, <1>2 DEF CopiesKnown, CurrentRecord
<1>13. \A q \in Replicas : LooksFor(q)'
  <2>1. ASSUME NEW q \in Replicas PROVE LooksFor(q)'
    <3>1. LooksFor(q) /\ looking[q] \in Looking
          BY <1>1 DEF Types
    <3> QED
        BY <1>2, <1>6, <3>1 DEF LooksFor, Looking
  <2> QED
      BY <2>1
<1>14. SendsStep
       BY <1>6, QuietSends
<1> QED
    BY <1>9, <1>11, <1>12, <1>13, <1>14 DEF IInv

LEMMA RetryKeeps ==
  ASSUME TypeOK, IInv, NEW f \in 1..MaxFires, Retry(f)
  PROVE  TypeOK' /\ IInv' /\ SendsStep
<1> DEFINE n == fires[f].attempt
<1>1. Types /\ CopiesKnown /\ FiresOK /\ CurrentRecord /\ \A q \in Replicas : LooksFor(q)
      BY TypesOK DEF IInv
<1>2. /\ fires[f].stage = "waiting"
      /\ fires' = [fires EXCEPT ![f].stage = "sending", ![f].attempt = n + 1]
      /\ callbacks' = callbacks /\ store' = store /\ looking' = looking /\ up' = up
      /\ asked' = asked /\ current' = current /\ stale' = stale /\ unsaved' = unsaved
      /\ history' = history /\ faults' = faults
      BY DEF Retry, subscription, notes
<1>3. /\ n \in 1..(Attempts - 1) /\ history[f] = Failures(n)
      BY <1>1, <1>2 DEF FiresOK, Follows
<1>4. n \in Nat /\ n + 1 \in 1..Attempts /\ (n + 1) - 1 = n
      BY <1>3 DEF Attempts
<1>5. /\ fires' \in [1..MaxFires -> Fire] /\ fires'[f].stage = "sending"
      /\ fires'[f].attempt = n + 1 /\ fires'[f].registration = fires[f].registration
      /\ fires'[f].event = fires[f].event
      /\ \A g \in (1..MaxFires) \ {f} : fires'[g] = fires[g]
  <2>1. fires \in [1..MaxFires -> Fire] /\ n + 1 \in 0..Attempts
        BY <1>1, <1>4 DEF Types, Attempts
  <2> HIDE DEF n
  <2> QED
      BY <1>2, <2>1 DEF Fire
<1>6. TypeOK'
      BY <1>1, <1>2, <1>5, TypesOK DEF Types
<1>7. FiresOK'
  <2>1. \A g \in 1..MaxFires : Follows(fires[g], history[g]) /\ Sent(fires[g], asked)
        BY <1>1 DEF FiresOK
  <2>2. Follows(fires'[f], history[f]) /\ Sent(fires'[f], asked)
        BY <1>3, <1>4, <1>5, <2>1 DEF Follows, Sent
  <2> QED
      BY <1>2, <1>5, <2>1, <2>2 DEF FiresOK
<1>8. CopiesKnown' /\ CurrentRecord'
      BY <1>1, <1>2 DEF CopiesKnown, CurrentRecord
<1>9. \A q \in Replicas : LooksFor(q)'
  <2>1. ASSUME NEW q \in Replicas PROVE LooksFor(q)'
    <3>1. LooksFor(q) /\ looking[q] \in Looking
          BY <1>1 DEF Types
    <3> QED
        BY <1>2, <1>5, <3>1 DEF LooksFor, Looking
  <2> QED
      BY <2>1
<1>10. SendsStep
  <2>1. \A i \in 1..Len(history[f]) : ~history[f][i]
        BY <1>3, <1>4, LongerHistory
  <2>2. \A g \in (1..MaxFires) \ {f} : ~(fires'[g].attempt > fires[g].attempt)
    <3>1. \A g \in 1..MaxFires : fires[g].attempt \in 0..3
          BY <1>1 DEF Types, Fire, Attempts
    <3> QED
        BY <1>5, <3>1
  <2> QED
      BY <1>5, <2>1, <2>2 DEF SendsStep
<1> QED
    BY <1>6, <1>7, <1>8, <1>9, <1>10 DEF IInv

(* A restart takes what the replica looked for with it.                    *)
LEMMA RestartKeeps ==
  ASSUME TypeOK, IInv, NEW r \in Replicas, Restart(r)
  PROVE  TypeOK' /\ IInv' /\ SendsStep
<1> DEFINE lost == {f \in 1..MaxFires :
                      fires[f].at = r /\ fires[f].stage \notin Settled \cup {"free"}}
<1>1. Types /\ CopiesKnown /\ FiresOK /\ CurrentRecord /\ \A q \in Replicas : LooksFor(q)
      BY TypesOK DEF IInv
<1>2. /\ faults < MaxFaults /\ faults' = faults + 1
      /\ callbacks' = [callbacks EXCEPT ![r] = NoRecord]
      /\ looking' = [looking EXCEPT ![r] = Idle]
      /\ fires' = [f \in 1..MaxFires |-> IF f \in lost THEN [fires[f] EXCEPT !.stage = "lost"]
                                         ELSE fires[f]]
      /\ history' = [f \in 1..MaxFires |-> IF fires[f].at = r THEN <<>> ELSE history[f]]
      /\ store' = store /\ up' = up /\ asked' = asked /\ current' = current
      /\ stale' = stale /\ unsaved' = unsaved
      BY DEF Restart, notes
<1>3. /\ callbacks \in [Replicas -> Record] /\ looking \in [Replicas -> Looking]
      /\ fires \in [1..MaxFires -> Fire] /\ history \in [1..MaxFires -> Seq(BOOLEAN)]
      /\ faults \in 0..MaxFaults /\ MaxFaults \in Nat
      BY <1>1, WebhooksAssumption DEF Types
<1>4. /\ callbacks' \in [Replicas -> Record] /\ callbacks'[r] = NoRecord
      /\ \A q \in Replicas \ {r} : callbacks'[q] = callbacks[q]
      /\ looking' \in [Replicas -> Looking] /\ looking'[r] = Idle
      /\ \A q \in Replicas \ {r} : looking'[q] = looking[q]
      BY <1>2, <1>3, RecordFacts
<1>5. ASSUME NEW f \in 1..MaxFires, f \in lost
      PROVE  /\ fires'[f] \in Fire /\ fires'[f].stage = "lost"
             /\ fires'[f].attempt = fires[f].attempt
             /\ fires'[f].registration = fires[f].registration
             /\ fires'[f].event = fires[f].event
  <2>1. fires'[f] = [fires[f] EXCEPT !.stage = "lost"] /\ fires[f] \in Fire
        BY <1>2, <1>3, <1>5
  <2> QED
      BY <2>1 DEF Fire, Settled
<1>6. \A f \in 1..MaxFires : f \notin lost => fires'[f] = fires[f]
      BY <1>2
<1>7. /\ fires' \in [1..MaxFires -> Fire]
      /\ history' \in [1..MaxFires -> Seq(BOOLEAN)]
      /\ \A f \in 1..MaxFires : history'[f] = IF fires[f].at = r THEN <<>> ELSE history[f]
  <2>1. \A f \in 1..MaxFires : fires'[f] \in Fire
        BY <1>3, <1>5, <1>6
  <2>2. <<>> \in Seq(BOOLEAN)
        OBVIOUS
  <2> HIDE DEF lost
  <2> QED
      BY <1>2, <1>3, <2>1, <2>2
<1>8. TypeOK'
  <2>1. faults' \in 0..MaxFaults
        BY <1>2, <1>3
  <2> HIDE DEF lost
  <2> QED
      BY <1>1, <1>2, <1>4, <1>7, <2>1, TypesOK DEF Types
<1>9. CopiesKnown'
  <2>1. Known(NoRecord, asked)
        BY DEF Known
  <2>2. \A q \in Replicas : /\ callbacks'[q] = NoRecord \/ callbacks'[q] = callbacks[q]
                            /\ looking'[q].read = NoRecord \/ looking'[q] = looking[q]
        BY <1>4, RecordFacts
  <2> QED
      BY <1>1, <1>2, <2>1, <2>2 DEF CopiesKnown
<1>10. CurrentRecord'
  <2>1. \A q \in Replicas : /\ callbacks'[q] = NoRecord \/ callbacks'[q] = callbacks[q]
                            /\ looking'[q].read = NoRecord \/ looking'[q] = looking[q]
        BY <1>4, RecordFacts
  <2> HIDE DEF lost
  <2> QED
      BY <1>1, <1>2, <2>1, RecordFacts DEF CurrentRecord, Exists
<1>11. FiresOK'
  <2>1. ASSUME NEW f \in 1..MaxFires
        PROVE  Follows(fires'[f], history'[f]) /\ Sent(fires'[f], asked')
    <3>1. Follows(fires[f], history[f]) /\ Sent(fires[f], asked)
          BY <1>1 DEF FiresOK
    <3>2. CASE f \in lost
          BY <1>2, <1>5, <3>1, <3>2 DEF Follows, Sent
    <3>3. CASE f \notin lost
      <4>1. fires'[f] = fires[f]
            BY <1>6, <3>3
      <4>2. fires[f].at = r => fires[f].stage \in Settled \cup {"free"}
            BY <3>3
      <4>3. Follows(fires[f], history'[f])
            BY <1>7, <3>1, <4>2 DEF Follows, Settled
      <4> QED
          BY <1>2, <3>1, <4>1, <4>3
    <3> QED
        BY <3>2, <3>3
  <2> QED
      BY <2>1 DEF FiresOK
<1>12. \A q \in Replicas : LooksFor(q)'
  <2>1. ASSUME NEW q \in Replicas \ {r} PROVE LooksFor(q)'
    <3>1. LooksFor(q) /\ looking[q] \in Looking /\ looking'[q] = looking[q]
          BY <1>1, <1>3, <1>4
    <3>2. CASE looking[q].for # "fire"
          BY <3>1, <3>2 DEF LooksFor
    <3>3. CASE looking[q].for = "fire"
      <4> DEFINE g == looking[q].fire
      <4>1. g \in 1..MaxFires /\ fires[g].at = q
            BY <3>1, <3>3 DEF LooksFor, Looking
      <4>2. fires'[g] = fires[g]
            BY <1>6, <4>1
      <4> QED
          BY <3>1, <3>3, <4>1, <4>2 DEF LooksFor
    <3> QED
        BY <3>2, <3>3
  <2>2. LooksFor(r)'
        BY <1>4, RecordFacts DEF LooksFor
  <2> QED
      BY <2>1, <2>2
<1>13. SendsStep
  <2>1. \A f \in 1..MaxFires : /\ fires'[f].attempt = fires[f].attempt
                               /\ fires'[f].registration = fires[f].registration
        BY <1>5, <1>6
  <2> QED
      BY <2>1, QuietSends
<1> QED
    BY <1>8, <1>9, <1>10, <1>11, <1>12, <1>13 DEF IInv

----------------------------------------------------------------------------
(* The invariant.                                                          *)

LEMMA InitOK == Init => TypeOK /\ IInv
<1> SUFFICES ASSUME Init PROVE TypeOK /\ IInv
    OBVIOUS
<1> DEFINE first == [registration |-> 1, events |-> {}]
<1>1. first \in Record /\ first # NoRecord /\ first.registration = 1 /\ first.events = {}
      BY WebhooksAssumption DEF Record, NoRecord
<1>2. /\ callbacks = [q \in Replicas |-> NoRecord] /\ up = TRUE
      /\ looking = [q \in Replicas |-> Idle] /\ fires = [f \in 1..MaxFires |-> NotFired]
      /\ history = [f \in 1..MaxFires |-> <<>>] /\ stale = FALSE /\ unsaved = FALSE
      /\ faults = 0
      BY DEF Init
<1>3. \/ store = NoRecord /\ asked = <<>> /\ current = 0
      \/ store = first /\ asked = <<{}>> /\ current = 1
  <2>1. store = NoRecord \/ store = first
        BY DEF Init
  <2>2. /\ asked = IF Exists(store) THEN <<{}>> ELSE <<>>
        /\ current = IF Exists(store) THEN 1 ELSE 0
        BY DEF Init
  <2> HIDE DEF first
  <2> QED
      BY <1>1, <2>1, <2>2 DEF Exists
<1>4. /\ asked \in Seq(SUBSET Events) /\ current \in 0..Len(asked)
      /\ store \in Record /\ Known(store, asked) /\ store.registration = current
  <2>1. CASE store = NoRecord /\ asked = <<>> /\ current = 0
    <3>1. Len(<<>>) = 0 /\ <<>> \in Seq(SUBSET Events)
          OBVIOUS
    <3> QED
        BY <2>1, <3>1, RecordFacts DEF Known
  <2>2. CASE store = first /\ asked = <<{}>> /\ current = 1
    <3>1. Len(<<{}>>) = 1 /\ <<{}>> \in Seq(SUBSET Events) /\ <<{}>>[1] = {}
          OBVIOUS
    <3>2. 1 \in 1..Len(asked) /\ 1 \in 0..Len(asked) /\ asked[1] = {}
          BY <2>2, <3>1
    <3> HIDE DEF first
    <3> QED
        BY <1>1, <2>2, <3>1, <3>2 DEF Known
  <2> QED
      BY <1>3, <2>1, <2>2
<1>5. TypeOK
  <2>1. <<>> \in Seq(BOOLEAN) /\ faults \in 0..MaxFaults
        BY <1>2, WebhooksAssumption
  <2> QED
      BY <1>2, <1>4, <2>1, RecordFacts, TypesOK DEF Types
<1>6. CopiesKnown
      BY <1>2, <1>4, RecordFacts DEF CopiesKnown, Known
<1>7. \A q \in Replicas : LooksFor(q)
      BY <1>2, RecordFacts DEF LooksFor
<1>8. FiresOK
      BY <1>2, RecordFacts DEF FiresOK, Follows, Sent
<1>9. CurrentRecord
      BY <1>2, <1>4, RecordFacts DEF CurrentRecord, Exists
<1> QED
    BY <1>5, <1>6, <1>7, <1>8, <1>9 DEF IInv

LEMMA StepOK ==
  ASSUME TypeOK, IInv, [Next]_vars
  PROVE  TypeOK' /\ IInv' /\ [SendsStep]_vars
<1>1. CASE Expires \/ StoreGoes \/ StoreReturns
      BY <1>1, StoreKeeps
<1>2. ASSUME NEW r \in Replicas, NEW events \in Requests, Register(r, events)
      PROVE  TypeOK' /\ IInv' /\ SendsStep
      BY <1>2, RegisterKeeps
<1>3. ASSUME NEW r \in Replicas, TaskEvent(r) \/ TestWebhook(r) \/ UnregisterWebhook(r)
      PROVE  TypeOK' /\ IInv' /\ SendsStep
  <2>1. PICK for \in LookFor \ {"fire"}, event \in Events : Look(r, for, event, 0)
        BY <1>3 DEF TaskEvent, TestWebhook, UnregisterWebhook, LookFor, Events
  <2>2. 0 \in 0..MaxFires
        BY WebhooksAssumption
  <2> QED
      BY <2>1, <2>2, LookKeeps
<1>4. ASSUME NEW r \in Replicas, Found(r) PROVE TypeOK' /\ IInv' /\ SendsStep
      BY <1>4, FoundKeeps
<1>5. ASSUME NEW r \in Replicas, Restart(r) PROVE TypeOK' /\ IInv' /\ SendsStep
      BY <1>5, RestartKeeps
<1>6. ASSUME NEW f \in 1..MaxFires, FireBegins(f) PROVE TypeOK' /\ IInv' /\ SendsStep
  <2>1. fires[f].at \in Replicas /\ fires[f].event \in Events
        BY TypesOK DEF Types, Fire
  <2>2. /\ fires[f].stage = "pending" /\ f # 0 /\ f \in 0..MaxFires
        /\ Look(fires[f].at, "fire", fires[f].event, f) /\ "fire" \in LookFor
        BY <1>6 DEF FireBegins, LookFor
  <2> QED
      BY <2>1, <2>2, LookKeeps
<1>7. ASSUME NEW f \in 1..MaxFires, Retry(f) PROVE TypeOK' /\ IInv' /\ SendsStep
      BY <1>7, RetryKeeps
<1>8. ASSUME NEW f \in 1..MaxFires, NEW o \in Outcomes, Answered(f, o)
      PROVE  TypeOK' /\ IInv' /\ SendsStep
      BY <1>8, AnsweredKeeps
<1>9. CASE UNCHANGED vars
  <2>1. /\ callbacks' = callbacks /\ store' = store /\ up' = up /\ looking' = looking
        /\ fires' = fires /\ history' = history /\ asked' = asked /\ current' = current
        /\ stale' = stale /\ unsaved' = unsaved /\ faults' = faults
        BY <1>9 DEF vars
  <2>2. TypeOK'
        BY <2>1, TypesOK DEF Types
  <2>3. IInv'
        BY <2>1 DEF IInv, CopiesKnown, LooksFor, FiresOK, CurrentRecord
  <2> QED
      BY <1>9, <2>2, <2>3
<1> QED
    BY <1>1, <1>2, <1>3, <1>4, <1>5, <1>6, <1>7, <1>8, <1>9 DEF Next, Delivery

LEMMA Invariants == Spec => [](TypeOK /\ IInv)
<1>1. Init => TypeOK /\ IInv
      BY InitOK
<1>2. TypeOK /\ IInv /\ [Next]_vars => (TypeOK /\ IInv)'
      BY StepOK
<1> QED
    BY <1>1, <1>2, PTL DEF Spec

\* Every copy of the subscription that a replica or the store holds is the
\* one in force as long as no change missed a copy; what is sent was asked for
\* (api/webhooks.py, WebhookManager.fire); the history a client sees agrees
\* with what was delivered.
THEOREM SubscriptionsHold == Spec => []WebhooksInvariant
<1>1. TypeOK /\ IInv => WebhooksInvariant
  <2> SUFFICES ASSUME TypeOK, IInv PROVE WebhooksInvariant
      OBVIOUS
  <2>1. FiresOK /\ CurrentRecord
        BY DEF IInv
  <2>2. SentAsSubscribed
        BY <2>1 DEF FiresOK, Sent, SentAsSubscribed, Wanted
  <2>3. HistoryTellsAttempts
        BY <2>1 DEF FiresOK, Follows, HistoryTellsAttempts, Failures
  <2> QED
      BY <2>1, <2>2, <2>3 DEF WebhooksInvariant
<1> QED
    BY <1>1, Invariants, PTL

\* An attempt goes out only while no earlier one was accepted, and a delivery
\* begins with the registration in force: nothing new after the subscription
\* was removed or replaced, unless the change missed a copy
\* (api/webhooks.py, WebhookManager.fire and unregister).
THEOREM SendsOnlyWhatIsWanted == Spec => SendsAreWanted
<1>1. TypeOK /\ IInv /\ [Next]_vars => [SendsStep]_vars
      BY StepOK
<1> QED
    BY <1>1, Invariants, PTL DEF Spec, SendsAreWanted, SendsStep
=============================================================================
