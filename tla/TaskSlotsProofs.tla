-------------------------- MODULE TaskSlotsProofs --------------------------
(***************************************************************************)
(* Proofs about TaskSlots, for every set of tasks, every set of priorities *)
(* and every limit: the type invariant and the queue invariants, the order *)
(* of hand-overs, and that the limiter implements SlotSemaphore.           *)
(***************************************************************************)
EXTENDS TaskSlots, FiniteSetTheorems, TLAPS

TasksIn(q) == {q[i].task : i \in DOMAIN q}
Distinct(q) == \A i, j \in DOMAIN q : q[i].task = q[j].task => i = j

----------------------------------------------------------------------------
(* The list operations keep the entries they should, and tasks distinct.   *)

LEMMA SeqOfEntries ==
  ASSUME NEW n \in Nat, NEW q \in [1..n -> Entry]
  PROVE  q \in Seq(Entry) /\ Len(q) = n /\ DOMAIN q = 1..n
  OBVIOUS

LEMMA EntryFacts ==
  ASSUME NEW q \in Seq(Entry)
  PROVE  /\ Len(q) \in Nat
         /\ DOMAIN q = 1..Len(q)
         /\ \A i \in 1..Len(q) : q[i] \in Entry
  OBVIOUS

\* Leaving entries out, in order, disturbs neither distinctness nor order.
LEMMA Thinning ==
  ASSUME NEW q \in Seq(Entry), NEW n \in Nat, NEW r \in [1..n -> Entry],
         NEW f \in [1..n -> 1..Len(q)],
         \A i, j \in 1..n : i < j => f[i] < f[j],
         \A i \in 1..n : r[i] = q[f[i]]
  PROVE  /\ Distinct(q) => Distinct(r)
         /\ Sorted(q) => Sorted(r)
  <1>1. DOMAIN r = 1..n /\ DOMAIN q = 1..Len(q)
    BY SeqOfEntries, EntryFacts
  <1>2. ASSUME Distinct(q), NEW i \in 1..n, NEW j \in 1..n, r[i].task = r[j].task
        PROVE  i = j
    <2>1. f[i] = f[j]
      BY <1>1, <1>2 DEF Distinct
    <2> QED BY <2>1
  <1>3. ASSUME Sorted(q), NEW i \in 1..n, NEW j \in 1..n, i < j
        PROVE  Precedes(r[i], r[j])
    <2>1. f[i] < f[j] /\ f[i] \in DOMAIN q /\ f[j] \in DOMAIN q
      BY <1>1, <1>3
    <2>2. Precedes(q[f[i]], q[f[j]])
      BY <1>3, <2>1 DEF Sorted
    <2> QED BY <2>2
  <1> QED BY <1>1, <1>2, <1>3 DEF Distinct, Sorted

LEMMA InsertFacts ==
  ASSUME NEW q \in Seq(Entry), NEW k \in 0..Len(q), NEW e \in Entry
  PROVE  /\ InsertAt(q, k, e) \in Seq(Entry)
         /\ Len(InsertAt(q, k, e)) = Len(q) + 1
         /\ TasksIn(InsertAt(q, k, e)) = TasksIn(q) \cup {e.task}
         /\ Distinct(q) /\ e.task \notin TasksIn(q)
              => Distinct(InsertAt(q, k, e))
  <1> DEFINE r == InsertAt(q, k, e)
  <1>q. DOMAIN q = 1..Len(q) /\ Len(q) \in Nat
    BY EntryFacts
  <1>1. r \in [1..(Len(q) + 1) -> Entry]
    BY DEF InsertAt
  <1>2. /\ r \in Seq(Entry) /\ Len(r) = Len(q) + 1 /\ DOMAIN r = 1..(Len(q) + 1)
    BY <1>1, SeqOfEntries
  <1>3. \A i \in 1..(Len(q) + 1) :
          r[i] = IF i <= k THEN q[i] ELSE IF i = k + 1 THEN e ELSE q[i - 1]
    BY DEF InsertAt
  <1> HIDE DEF r
  <1>4. TasksIn(r) = TasksIn(q) \cup {e.task}
    <2>1. ASSUME NEW i \in 1..(Len(q) + 1)
          PROVE  r[i].task \in TasksIn(q) \cup {e.task}
      <3>1. r[i] = e \/ \E j \in 1..Len(q) : r[i] = q[j]
        <4>1. CASE i <= k
          BY <1>q, <1>3, <4>1
        <4>2. CASE i = k + 1
          BY <1>3, <4>2
        <4>3. CASE i > k + 1
          <5>1. i - 1 \in 1..Len(q) /\ r[i] = q[i - 1]
            BY <1>q, <1>3, <4>3
          <5> QED BY <5>1
        <4> QED BY <1>q, <4>1, <4>2, <4>3
      <3> QED BY <1>q, <3>1 DEF TasksIn
    <2>2. ASSUME NEW j \in 1..Len(q) PROVE q[j].task \in TasksIn(r)
      <3>1. CASE j <= k
        <4>1. r[j] = q[j] /\ j \in DOMAIN r BY <3>1, <1>2, <1>3
        <4> QED BY <4>1 DEF TasksIn
      <3>2. CASE j > k
        <4>1. r[j + 1] = q[j] /\ j + 1 \in DOMAIN r BY <3>2, <1>2, <1>3
        <4> QED BY <4>1 DEF TasksIn
      <3> QED BY <3>1, <3>2
    <2>3. e.task \in TasksIn(r)
      <3>1. r[k + 1] = e /\ k + 1 \in DOMAIN r BY <1>2, <1>3
      <3> QED BY <3>1 DEF TasksIn
    <2>4. TasksIn(r) \subseteq TasksIn(q) \cup {e.task}
      BY <1>2, <2>1 DEF TasksIn
    <2>5. TasksIn(q) \cup {e.task} \subseteq TasksIn(r)
      BY <1>q, <2>2, <2>3 DEF TasksIn
    <2> QED BY <2>4, <2>5
  <1>5. ASSUME Distinct(q), e.task \notin TasksIn(q) PROVE Distinct(r)
    <2>1. \A j \in 1..Len(q) : q[j].task # e.task
      BY <1>q, <1>5 DEF TasksIn
    <2>2. \A i, j \in 1..Len(q) : q[i].task = q[j].task => i = j
      BY <1>q, <1>5 DEF Distinct
    <2>3. SUFFICES ASSUME NEW i \in 1..(Len(q) + 1), NEW j \in 1..(Len(q) + 1),
                          r[i].task = r[j].task
                   PROVE  i = j
      BY <1>2 DEF Distinct
    <2> QED BY <1>q, <1>3, <2>1, <2>2, <2>3
  <1> QED BY <1>2, <1>4, <1>5 DEF r

LEMMA DeleteFacts ==
  ASSUME NEW q \in Seq(Entry), NEW k \in 1..Len(q), Distinct(q)
  PROVE  /\ DeleteAt(q, k) \in Seq(Entry)
         /\ Len(DeleteAt(q, k)) = Len(q) - 1
         /\ TasksIn(DeleteAt(q, k)) = TasksIn(q) \ {q[k].task}
         /\ Distinct(DeleteAt(q, k))
         /\ Sorted(q) => Sorted(DeleteAt(q, k))
  <1> DEFINE r == DeleteAt(q, k)
             f == [i \in 1..(Len(q) - 1) |-> IF i < k THEN i ELSE i + 1]
  <1>q. DOMAIN q = 1..Len(q) /\ Len(q) \in Nat /\ Len(q) - 1 \in Nat
    BY EntryFacts
  <1>1. r \in [1..(Len(q) - 1) -> Entry]
    BY DEF DeleteAt
  <1>2. /\ r \in Seq(Entry) /\ Len(r) = Len(q) - 1 /\ DOMAIN r = 1..(Len(q) - 1)
    BY <1>q, <1>1, SeqOfEntries
  <1>3. /\ f \in [1..(Len(q) - 1) -> 1..Len(q)]
        /\ \A i, j \in 1..(Len(q) - 1) : i < j => f[i] < f[j]
        /\ \A i \in 1..(Len(q) - 1) : r[i] = q[f[i]] /\ f[i] # k
    BY <1>q DEF DeleteAt
  <1>4. \A j \in 1..Len(q) : j # k => \E i \in 1..(Len(q) - 1) : f[i] = j
    <2>1. ASSUME NEW j \in 1..Len(q), j < k
          PROVE  j \in 1..(Len(q) - 1) /\ f[j] = j
      BY <1>q, <2>1
    <2>2. ASSUME NEW j \in 1..Len(q), j > k
          PROVE  j - 1 \in 1..(Len(q) - 1) /\ f[j - 1] = j
      BY <1>q, <2>2
    <2> HIDE DEF f
    <2>3. ASSUME NEW j \in 1..Len(q), j # k
          PROVE  \E i \in 1..(Len(q) - 1) : f[i] = j
      <3>1. CASE j < k
        BY <2>1, <3>1
      <3>2. CASE j > k
        BY <2>2, <3>2
      <3> QED BY <2>3, <3>1, <3>2
    <2> QED BY <2>3
  <1> HIDE DEF r, f
  <1>5. TasksIn(r) = TasksIn(q) \ {q[k].task}
    <2>1. ASSUME NEW i \in 1..(Len(q) - 1)
          PROVE  r[i].task \in TasksIn(q) \ {q[k].task}
      BY <1>q, <1>3 DEF TasksIn, Distinct
    <2>2. ASSUME NEW j \in 1..Len(q), j # k PROVE q[j].task \in TasksIn(r)
      <3>1. PICK i \in 1..(Len(q) - 1) : f[i] = j
        BY <1>4, <2>2
      <3> QED BY <1>2, <1>3, <3>1 DEF TasksIn
    <2>3. TasksIn(r) \subseteq TasksIn(q) \ {q[k].task}
      BY <1>2, <2>1 DEF TasksIn
    <2>4. TasksIn(q) \ {q[k].task} \subseteq TasksIn(r)
      BY <1>q, <2>2 DEF TasksIn
    <2> QED BY <2>3, <2>4
  <1>6. Distinct(r) /\ (Sorted(q) => Sorted(r))
    <2> DEFINE n == Len(q) - 1
    <2>1. /\ n \in Nat /\ r \in [1..n -> Entry] /\ f \in [1..n -> 1..Len(q)]
          /\ \A i, j \in 1..n : i < j => f[i] < f[j]
          /\ \A i \in 1..n : r[i] = q[f[i]]
      BY <1>q, <1>1, <1>3
    <2> HIDE DEF n
    <2> QED BY <2>1, Thinning
  <1> QED BY <1>2, <1>5, <1>6 DEF r

\* Dropping the first m entries.
LEMMA DropFacts ==
  ASSUME NEW q \in Seq(Entry), NEW m \in 0..Len(q), Distinct(q)
  PROVE  LET r == SubSeq(q, m + 1, Len(q))
         IN  /\ r \in Seq(Entry)
             /\ Len(r) = Len(q) - m
             /\ TasksIn(r) = TasksIn(q) \ {q[i].task : i \in 1..m}
             /\ Distinct(r)
             /\ Sorted(q) => Sorted(r)
  <1> DEFINE r == SubSeq(q, m + 1, Len(q))
             f == [i \in 1..(Len(q) - m) |-> i + m]
  <1>q. DOMAIN q = 1..Len(q) /\ Len(q) \in Nat /\ Len(q) - m \in Nat
    BY EntryFacts
  <1>1. /\ r \in Seq(Entry) /\ Len(r) = Len(q) - m /\ DOMAIN r = 1..(Len(q) - m)
        /\ \A i \in 1..Len(r) : r[i] \in Entry
    <2>1. r \in Seq(Entry) /\ Len(r) = Len(q) - m
      OBVIOUS
    <2> HIDE DEF r
    <2> QED BY <2>1, EntryFacts
  <1>2. \A i \in 1..(Len(q) - m) : r[i] = q[i + m]
    OBVIOUS
  <1>3. /\ f \in [1..(Len(q) - m) -> 1..Len(q)]
        /\ \A i, j \in 1..(Len(q) - m) : i < j => f[i] < f[j]
        /\ \A i \in 1..(Len(q) - m) : r[i] = q[f[i]] /\ f[i] \notin 1..m
    BY <1>q, <1>2
  <1>4. r \in [1..(Len(q) - m) -> Entry]
    <2> HIDE DEF r
    <2>1. r = [i \in DOMAIN r |-> r[i]]
      BY <1>1
    <2> QED BY <1>1, <2>1
  <1>5. \A j \in 1..Len(q) : j \notin 1..m => \E i \in 1..(Len(q) - m) : f[i] = j
    <2>1. ASSUME NEW j \in 1..Len(q), j \notin 1..m
          PROVE  j - m \in 1..(Len(q) - m) /\ f[j - m] = j
      BY <1>q, <2>1
    <2> QED BY <2>1
  <1> HIDE DEF r, f
  <1>6. TasksIn(r) = TasksIn(q) \ {q[i].task : i \in 1..m}
    <2>1. ASSUME NEW i \in 1..(Len(q) - m)
          PROVE  r[i].task \in TasksIn(q) \ {q[j].task : j \in 1..m}
      <3>1. f[i] \in 1..Len(q) /\ f[i] \notin 1..m /\ r[i] = q[f[i]]
        BY <1>3
      <3>2. ASSUME NEW j \in 1..m PROVE q[j].task # q[f[i]].task
        BY <1>q, <3>1 DEF Distinct
      <3>3. q[f[i]].task \in TasksIn(q)
        BY <1>q, <3>1 DEF TasksIn
      <3> QED BY <3>1, <3>2, <3>3
    <2>2. ASSUME NEW j \in 1..Len(q), j \notin 1..m PROVE q[j].task \in TasksIn(r)
      <3>1. PICK i \in 1..(Len(q) - m) : f[i] = j
        BY <1>5, <2>2
      <3> QED BY <1>1, <1>3, <3>1 DEF TasksIn
    <2>3. TasksIn(r) \subseteq TasksIn(q) \ {q[i].task : i \in 1..m}
      BY <1>1, <2>1 DEF TasksIn
    <2>4. TasksIn(q) \ {q[i].task : i \in 1..m} \subseteq TasksIn(r)
      BY <1>q, <2>2 DEF TasksIn
    <2> QED BY <2>3, <2>4
  <1>7. Distinct(r) /\ (Sorted(q) => Sorted(r))
    <2> DEFINE n == Len(q) - m
    <2>1. /\ n \in Nat /\ r \in [1..n -> Entry] /\ f \in [1..n -> 1..Len(q)]
          /\ \A i, j \in 1..n : i < j => f[i] < f[j]
          /\ \A i \in 1..n : r[i] = q[f[i]]
      BY <1>q, <1>3, <1>4
    <2> HIDE DEF n
    <2> QED BY <2>1, Thinning
  <1> QED BY <1>1, <1>6, <1>7 DEF r

----------------------------------------------------------------------------
(* The inductive invariant, with the queue and the places of the           *)
(* coroutines related through the tasks that have an entry.  A coroutine   *)
(* that the whole-task timeout ends in the wait leaves its entry and, if   *)
(* it was aborted, its flag behind; without that timeout none is left.     *)

Left == IF TaskTimeout THEN {"exited"} ELSE {}
Enqueued == {"waiting"} \cup Left
Flagged == {"woken"} \cup Left

QueueMatches(q, places) ==
  /\ q \in Seq(Entry)
  /\ Distinct(q)
  /\ Sorted(q)
  /\ \A t \in Task : places[t] = "waiting" => t \in TasksIn(q)
  /\ \A t \in Task : t \in TasksIn(q) => places[t] \in Enqueued

Core ==
  /\ TypeOK
  /\ QueueMatches(priorityQueue, pc)
  /\ NoIdleSlot
  /\ \A t \in Task : queueAborted[t] => pc[t] \in Flagged
  /\ \A t \in Task : slotHeld[t] => pc[t] = "executing"
  /\ \A t \in Task : timed[t] => TaskTimeout

LEMMA CoreIsInvariant ==
  ASSUME ~TaskTimeout
  PROVE  Core <=> SlotsInvariant /\ \A t \in Task : ~timed[t]
  <1>1. ASSUME NEW t \in Task
        PROVE  EntriesOf(t) # {} <=> t \in TasksIn(priorityQueue)
    BY DEF EntriesOf, TasksIn
  <1>2. Distinct(priorityQueue) <=>
          \A i, j \in DOMAIN priorityQueue :
            priorityQueue[i].task = priorityQueue[j].task => i = j
    BY DEF Distinct
  <1>3. TypeOK => priorityQueue \in Seq(Entry)
    BY DEF TypeOK
  <1> QED BY <1>1, <1>2, <1>3
          DEF Core, SlotsInvariant, QueueMatches, WaitersAreQueued, Left, Enqueued, Flagged

\* Setting events turns waiters into woken ones and nothing else.
LEMMA SetEventsFacts ==
  ASSUME NEW places \in [Task -> Place], NEW S
  PROVE  /\ SetEvents(places, S) \in [Task -> Place]
         /\ \A t \in Task :
              SetEvents(places, S)[t] =
                IF t \in S /\ places[t] = "waiting" THEN "woken" ELSE places[t]
  BY DEF SetEvents, Place

LEMMA HeadFacts ==
  ASSUME NEW q \in Seq(Entry), q # <<>>, Distinct(q)
  PROVE  /\ Len(q) \in Nat \ {0}
         /\ Head(q) = q[1] /\ Head(q) \in Entry /\ Head(q).task \in TasksIn(q)
         /\ Tail(q) \in Seq(Entry)
         /\ TasksIn(Tail(q)) = TasksIn(q) \ {Head(q).task}
         /\ Distinct(Tail(q))
         /\ Sorted(q) => Sorted(Tail(q))
  <1>1. Len(q) \in Nat \ {0} /\ DOMAIN q = 1..Len(q) /\ Head(q) = q[1] /\ q[1] \in Entry
    OBVIOUS
  <1>2. Tail(q) = SubSeq(q, 2, Len(q))
    OBVIOUS
  <1>3. {q[i].task : i \in 1..1} = {q[1].task}
    OBVIOUS
  <1>4. q[1].task \in TasksIn(q)
    BY <1>1 DEF TasksIn
  <1> DEFINE r == SubSeq(q, 1 + 1, Len(q))
  <1>5. 1 \in 0..Len(q)
    BY <1>1
  <1>6. /\ r \in Seq(Entry)
        /\ TasksIn(r) = TasksIn(q) \ {q[i].task : i \in 1..1}
        /\ Distinct(r)
        /\ Sorted(q) => Sorted(r)
    BY <1>5, DropFacts
  <1>7. r = Tail(q)
    BY <1>2
  <1> HIDE DEF r
  <1> QED BY <1>1, <1>3, <1>4, <1>6, <1>7

\* What _release_slot keeps, whoever calls it.
LEMMA ReleaseFacts ==
  ASSUME NEW places \in [Task -> Place], NEW avail \in Nat,
         QueueMatches(priorityQueue, places),
         avail > 0 => priorityQueue = <<>>,
         ReleaseSlot(places, avail)
  PROVE  /\ pc' \in [Task -> Place]
         /\ availableSlots' \in Nat
         /\ availableSlots' > 0 => priorityQueue' = <<>>
         /\ QueueMatches(priorityQueue', pc')
         /\ \A t \in Task : places[t] # "waiting" => pc'[t] = places[t]
         /\ \A t \in Task : places[t] = "waiting" => pc'[t] \in {"waiting", "woken"}
  <1>1. CASE priorityQueue # <<>>
    <2> DEFINE u == Head(priorityQueue).task
    <2>1. /\ pc' = SetEvents(places, {u})
          /\ priorityQueue' = Tail(priorityQueue)
          /\ availableSlots' = avail
      BY <1>1 DEF ReleaseSlot
    <2>2. /\ pc' \in [Task -> Place]
          /\ \A t \in Task : pc'[t] = IF t = u /\ places[t] = "waiting"
                                      THEN "woken" ELSE places[t]
      BY <2>1, SetEventsFacts
    <2>3. /\ priorityQueue' \in Seq(Entry)
          /\ TasksIn(priorityQueue') = TasksIn(priorityQueue) \ {u}
          /\ Distinct(priorityQueue') /\ Sorted(priorityQueue')
      BY <1>1, <2>1, HeadFacts DEF QueueMatches
    <2>4. avail = 0
      BY <1>1
    <2>5. /\ \A t \in Task : pc'[t] = "waiting" => t \in TasksIn(priorityQueue')
          /\ \A t \in Task : t \in TasksIn(priorityQueue') => pc'[t] \in Enqueued
      BY <2>2, <2>3 DEF QueueMatches
    <2> HIDE DEF u
    <2>6. availableSlots' = 0
      BY <2>1, <2>4
    <2>7. QueueMatches(priorityQueue', pc')
      BY <2>3, <2>5 DEF QueueMatches
    <2>8. \A t \in Task :
            /\ places[t] # "waiting" => pc'[t] = places[t]
            /\ places[t] = "waiting" => pc'[t] \in {"waiting", "woken"}
      BY <2>2
    <2> QED BY <2>2, <2>6, <2>7, <2>8
  <1>2. CASE priorityQueue = <<>>
    BY <1>2 DEF ReleaseSlot, QueueMatches
  <1> QED BY <1>1, <1>2

\* Moving a coroutine that has no entry to a place where it does not wait.
LEMMA MoveFacts ==
  ASSUME pc \in [Task -> Place], QueueMatches(priorityQueue, pc),
         NEW t \in Task, pc[t] \notin {"waiting", "exited"}, NEW p \in Place, p # "waiting"
  PROVE  /\ [pc EXCEPT ![t] = p] \in [Task -> Place]
         /\ QueueMatches(priorityQueue, [pc EXCEPT ![t] = p])
         /\ [pc EXCEPT ![t] = p][t] = p
         /\ \A u \in Task : u # t => [pc EXCEPT ![t] = p][u] = pc[u]
  BY DEF QueueMatches, Left, Enqueued

\* What a coroutine that got past the wait keeps.
LEMMA AfterAcquireFacts ==
  ASSUME Core, NEW t \in Task, pc[t] \in {"created", "woken"},
         NEW held \in BOOLEAN, NEW avail \in Nat,
         avail > 0 => priorityQueue = <<>>,
         AfterAcquire(t, held, avail)
  PROVE  /\ pc' \in [Task -> Place]
         /\ availableSlots' \in Nat
         /\ availableSlots' > 0 => priorityQueue' = <<>>
         /\ QueueMatches(priorityQueue', pc')
         /\ status' \in [Task -> Status]
         /\ slotHeld' \in [Task -> BOOLEAN]
         /\ \A u \in Task : slotHeld'[u] => pc'[u] = "executing"
         /\ \A u \in Task : u # t /\ pc[u] \in {"woken", "exited"} => pc'[u] = pc[u]
  <1> DEFINE left == [pc EXCEPT ![t] = "exited"]
  <1>1. /\ pc \in [Task -> Place] /\ status \in [Task -> Status]
        /\ slotHeld \in [Task -> BOOLEAN] /\ priorityQueue \in Seq(Entry)
        /\ QueueMatches(priorityQueue, pc)
        /\ \A u \in Task : slotHeld[u] => pc[u] = "executing"
        /\ pc[t] \notin {"waiting", "exited"} /\ ~slotHeld[t]
    BY DEF Core, TypeOK
  <1>2. CASE status[t] \in Stopped
    <2>1. /\ left \in [Task -> Place] /\ QueueMatches(priorityQueue, left)
          /\ left[t] = "exited" /\ \A u \in Task : u # t => left[u] = pc[u]
      BY <1>1, MoveFacts DEF Place
    <2>2. UNCHANGED <<status, slotHeld>>
      BY <1>2 DEF AfterAcquire
    <2>3. CASE held
      <3>1. ReleaseSlot(left, avail)
        BY <1>2, <2>3 DEF AfterAcquire
      <3> HIDE DEF left
      <3>2. /\ pc' \in [Task -> Place] /\ availableSlots' \in Nat
            /\ availableSlots' > 0 => priorityQueue' = <<>>
            /\ QueueMatches(priorityQueue', pc')
            /\ \A u \in Task : left[u] # "waiting" => pc'[u] = left[u]
        BY <2>1, <3>1, ReleaseFacts
      <3> QED BY <1>1, <2>1, <2>2, <3>2
    <2>4. CASE ~held
      <3>1. pc' = left /\ availableSlots' = avail /\ UNCHANGED priorityQueue
        BY <1>2, <2>4 DEF AfterAcquire
      <3> HIDE DEF left
      <3> QED BY <1>1, <2>1, <2>2, <3>1
    <2> QED BY <2>3, <2>4
  <1>3. CASE status[t] \notin Stopped
    <2>1. /\ status' = [status EXCEPT ![t] = IF @ = "queued" THEN "running" ELSE @]
          /\ pc' = [pc EXCEPT ![t] = "executing"]
          /\ slotHeld' = [slotHeld EXCEPT ![t] = held]
          /\ availableSlots' = avail
          /\ UNCHANGED priorityQueue
      BY <1>3 DEF AfterAcquire
    <2>2. /\ pc' \in [Task -> Place] /\ QueueMatches(priorityQueue', pc')
          /\ pc'[t] = "executing" /\ \A u \in Task : u # t => pc'[u] = pc[u]
      BY <1>1, <2>1, MoveFacts DEF Place
    <2>3. status' \in [Task -> Status]
      BY <1>1, <2>1 DEF Status
    <2>4. /\ slotHeld' \in [Task -> BOOLEAN]
          /\ \A u \in Task : slotHeld'[u] => pc'[u] = "executing"
      BY <1>1, <2>1, <2>2
    <2> QED BY <2>1, <2>2, <2>3, <2>4
  <1> QED BY <1>2, <1>3

----------------------------------------------------------------------------
(* Every action keeps Core.                                                *)

LEMMA AcquireSlotKeepsCore ==
  ASSUME Core, NEW t \in Task, AcquireSlot(t)
  PROVE  Core'
  <1>1. /\ pc[t] = "created"
        /\ UNCHANGED <<maxConcurrent, queueAborted, priority, timed>>
    BY DEF AcquireSlot
  <1>2. CASE availableSlots > 0
    <2>1. /\ AfterAcquire(t, TRUE, availableSlots - 1)
          /\ UNCHANGED queueCounter
      <3>1. ~(availableSlots <= 0)
        BY <1>2 DEF Core, TypeOK
      <3> QED BY <3>1 DEF AcquireSlot
    <2>2. availableSlots - 1 \in Nat /\ priorityQueue = <<>>
      BY <1>2 DEF Core, TypeOK, NoIdleSlot
    <2>3. ~queueAborted[t]
      BY <1>1 DEF Core, Left, Flagged
    <2>4. /\ pc' \in [Task -> Place] /\ availableSlots' \in Nat
          /\ availableSlots' > 0 => priorityQueue' = <<>>
          /\ QueueMatches(priorityQueue', pc')
          /\ status' \in [Task -> Status] /\ slotHeld' \in [Task -> BOOLEAN]
          /\ \A u \in Task : slotHeld'[u] => pc'[u] = "executing"
          /\ \A u \in Task : u # t /\ pc[u] \in {"woken", "exited"} => pc'[u] = pc[u]
      BY <1>1, <2>1, <2>2, AfterAcquireFacts
    <2>5. \A u \in Task : queueAborted'[u] => pc'[u] \in Flagged
      BY <1>1, <2>3, <2>4 DEF Core, Left, Flagged
    <2> QED
      BY <1>1, <2>1, <2>4, <2>5 DEF Core, TypeOK, NoIdleSlot, QueueMatches
  <1>3. CASE availableSlots <= 0
    <2> DEFINE e == [task |-> t, prio |-> priority[t], seq |-> queueCounter + 1]
    <2>1. /\ queueCounter' = queueCounter + 1
          /\ priorityQueue' \in SortedInserts(priorityQueue, e)
          /\ pc' = [pc EXCEPT ![t] = "waiting"]
          /\ UNCHANGED <<availableSlots, status, slotHeld>>
      <3>1. ~(availableSlots > 0)
        BY <1>3 DEF Core, TypeOK
      <3> QED BY <3>1 DEF AcquireSlot
    <2>2. e \in Entry
      BY SlotsAssumption DEF Core, TypeOK, Entry
    <2>3. e.task = t
      OBVIOUS
    <2> HIDE DEF e
    <2>4. PICK k \in 0..Len(priorityQueue) :
            priorityQueue' = InsertAt(priorityQueue, k, e) /\ Sorted(priorityQueue')
      BY <2>1 DEF SortedInserts
    <2>5. t \notin TasksIn(priorityQueue)
      BY <1>1 DEF Core, QueueMatches, Left, Enqueued
    <2>6. /\ priorityQueue' \in Seq(Entry) /\ Distinct(priorityQueue')
          /\ TasksIn(priorityQueue') = TasksIn(priorityQueue) \cup {t}
      BY <2>2, <2>3, <2>4, <2>5, InsertFacts DEF Core, QueueMatches
    <2>7. /\ pc' \in [Task -> Place] /\ pc'[t] = "waiting"
          /\ \A u \in Task : u # t => pc'[u] = pc[u]
      BY <2>1 DEF Core, TypeOK, Place
    <2>8. QueueMatches(priorityQueue', pc')
      <3>1. QueueMatches(priorityQueue, pc)
        BY DEF Core
      <3>2. \A u \in Task : pc'[u] = "waiting" => u \in TasksIn(priorityQueue')
        BY <2>6, <2>7, <3>1 DEF QueueMatches
      <3>3. \A u \in Task : u \in TasksIn(priorityQueue') => pc'[u] \in Enqueued
        BY <2>6, <2>7, <3>1 DEF QueueMatches, Enqueued
      <3> QED BY <2>4, <2>6, <3>2, <3>3 DEF QueueMatches
    <2>9. ~(availableSlots' > 0)
      BY <1>3, <2>1 DEF Core, TypeOK
    <2>10. TypeOK'
      BY <1>1, <2>1, <2>6, <2>7 DEF Core, TypeOK
    <2>11. \A u \in Task : /\ queueAborted'[u] => pc'[u] \in Flagged
                           /\ slotHeld'[u] => pc'[u] = "executing"
                           /\ timed'[u] => TaskTimeout
      BY <1>1, <2>1, <2>7 DEF Core, Left, Flagged
    <2> QED BY <2>8, <2>9, <2>10, <2>11 DEF Core, NoIdleSlot
  <1> QED BY <1>2, <1>3 DEF Core, TypeOK

LEMMA WakeKeepsCore ==
  ASSUME Core, NEW t \in Task, Wake(t)
  PROVE  Core'
  <1>1. /\ pc[t] = "woken"
        /\ queueAborted' = [queueAborted EXCEPT ![t] = FALSE]
        /\ AfterAcquire(t, ~queueAborted[t], availableSlots)
        /\ UNCHANGED <<maxConcurrent, queueCounter, priority, timed>>
    BY DEF Wake
  <1>2. (~queueAborted[t]) \in BOOLEAN
    OBVIOUS
  <1>a. /\ availableSlots \in Nat
        /\ availableSlots > 0 => priorityQueue = <<>>
    BY DEF Core, TypeOK, NoIdleSlot
  <1>3. /\ pc' \in [Task -> Place] /\ availableSlots' \in Nat
        /\ availableSlots' > 0 => priorityQueue' = <<>>
        /\ QueueMatches(priorityQueue', pc')
        /\ status' \in [Task -> Status] /\ slotHeld' \in [Task -> BOOLEAN]
        /\ \A u \in Task : slotHeld'[u] => pc'[u] = "executing"
        /\ \A u \in Task : u # t /\ pc[u] \in {"woken", "exited"} => pc'[u] = pc[u]
    BY <1>1, <1>2, <1>a, AfterAcquireFacts
  <1>4. /\ queueAborted' \in [Task -> BOOLEAN]
        /\ \A u \in Task : queueAborted'[u] => pc'[u] \in Flagged
    <2>1. queueAborted \in [Task -> BOOLEAN]
      BY DEF Core, TypeOK
    <2>2. queueAborted' \in [Task -> BOOLEAN]
      BY <1>1, <2>1
    <2>3. ASSUME NEW u \in Task, queueAborted'[u] PROVE u # t /\ queueAborted[u]
      BY <1>1, <2>1, <2>3
    <2>4. \A u \in Task : queueAborted[u] => pc[u] \in Flagged
      BY DEF Core
    <2> QED BY <1>3, <2>2, <2>3, <2>4 DEF Left, Flagged
  <1> QED BY <1>1, <1>3, <1>4 DEF Core, TypeOK, NoIdleSlot, QueueMatches

LEMMA FinishKeepsCore ==
  ASSUME Core, NEW t \in Task, Finish(t)
  PROVE  Core'
  <1> DEFINE left == [pc EXCEPT ![t] = "exited"]
  <1>1. /\ pc[t] = "executing"
        /\ slotHeld' = [slotHeld EXCEPT ![t] = FALSE]
        /\ UNCHANGED <<maxConcurrent, queueCounter, queueAborted, priority, timed>>
    BY DEF Finish
  <1>2. status' \in [Task -> Status]
    BY DEF Finish, Core, TypeOK, Status
  <1>3. /\ left \in [Task -> Place] /\ QueueMatches(priorityQueue, left)
        /\ left[t] = "exited" /\ \A u \in Task : u # t => left[u] = pc[u]
    BY <1>1, MoveFacts DEF Place, Core, TypeOK
  <1>4. availableSlots \in Nat /\ (availableSlots > 0 => priorityQueue = <<>>)
    BY DEF Core, TypeOK, NoIdleSlot
  <1>5. /\ pc' \in [Task -> Place] /\ availableSlots' \in Nat
        /\ availableSlots' > 0 => priorityQueue' = <<>>
        /\ QueueMatches(priorityQueue', pc')
        /\ \A u \in Task : left[u] # "waiting" => pc'[u] = left[u]
    <2>1. CASE slotHeld[t]
      <3>1. ReleaseSlot(left, availableSlots)
        BY <2>1 DEF Finish
      <3> HIDE DEF left
      <3> QED BY <1>3, <1>4, <3>1, ReleaseFacts
    <2>2. CASE ~slotHeld[t]
      <3>1. pc' = left /\ UNCHANGED <<availableSlots, priorityQueue>>
        BY <2>2 DEF Finish
      <3> HIDE DEF left
      <3> QED BY <1>3, <1>4, <3>1
    <2> QED BY <2>1, <2>2
  <1> HIDE DEF left
  <1>6. \A u \in Task : /\ slotHeld'[u] => pc'[u] = "executing"
                        /\ queueAborted'[u] => pc'[u] \in Flagged
    BY <1>1, <1>3, <1>5 DEF Core, TypeOK, Left, Flagged
  <1>7. slotHeld' \in [Task -> BOOLEAN]
    BY <1>1 DEF Core, TypeOK
  <1> QED BY <1>1, <1>2, <1>5, <1>6, <1>7 DEF Core, TypeOK, NoIdleSlot, QueueMatches

\* Taking an entry out of the queue and waking its coroutine, if it still waits.
LEMMA AbortFacts ==
  ASSUME Core, NEW t \in Task, NEW i \in EntriesOf(t), AbortQueuedWaiter(t, i)
  PROVE  /\ pc' \in [Task -> Place]
         /\ \/ pc[t] = "waiting" /\ pc'[t] = "woken"
            \/ pc[t] \in Left /\ pc'[t] = pc[t]
         /\ \A u \in Task : u # t => pc'[u] = pc[u]
         /\ QueueMatches(priorityQueue', pc')
         /\ priorityQueue # <<>>
         /\ queueAborted' = [queueAborted EXCEPT ![t] = TRUE]
         /\ queueAborted' \in [Task -> BOOLEAN]
         /\ \A u \in Task : queueAborted'[u] => pc'[u] \in Flagged
         /\ \A u \in Task : slotHeld[u] => pc'[u] = "executing"
  <1>1. /\ priorityQueue' = DeleteAt(priorityQueue, i)
        /\ queueAborted' = [queueAborted EXCEPT ![t] = TRUE]
        /\ pc' = SetEvents(pc, {t})
    BY DEF AbortQueuedWaiter
  <1>2. /\ i \in 1..Len(priorityQueue) /\ priorityQueue[i].task = t
        /\ t \in TasksIn(priorityQueue) /\ priorityQueue # <<>>
    BY EntryFacts DEF EntriesOf, TasksIn, Core, QueueMatches
  <1>3. pc[t] \in Enqueued
    BY <1>2 DEF Core, QueueMatches
  <1>4. /\ pc' \in [Task -> Place]
        /\ \/ pc[t] = "waiting" /\ pc'[t] = "woken"
           \/ pc[t] \in Left /\ pc'[t] = pc[t]
        /\ \A u \in Task : u # t => pc'[u] = pc[u]
    <2>1. pc \in [Task -> Place]
      BY DEF Core, TypeOK
    <2> QED BY <1>1, <1>3, <2>1, SetEventsFacts DEF Enqueued
  <1>5. /\ priorityQueue' \in Seq(Entry) /\ Distinct(priorityQueue')
        /\ Sorted(priorityQueue')
        /\ TasksIn(priorityQueue') = TasksIn(priorityQueue) \ {t}
    BY <1>1, <1>2, DeleteFacts DEF Core, QueueMatches
  <1>6. QueueMatches(priorityQueue', pc')
    BY <1>4, <1>5 DEF Core, QueueMatches, Left
  <1>7. /\ queueAborted' \in [Task -> BOOLEAN]
        /\ \A u \in Task : queueAborted'[u] => pc'[u] \in Flagged
        /\ \A u \in Task : slotHeld[u] => pc'[u] = "executing"
    <2>1. /\ queueAborted \in [Task -> BOOLEAN]
          /\ \A u \in Task : queueAborted[u] => pc[u] \in Flagged
          /\ \A u \in Task : slotHeld[u] => pc[u] = "executing"
      BY DEF Core, TypeOK
    <2>2. /\ queueAborted' \in [Task -> BOOLEAN]
          /\ \A u \in Task : u # t => queueAborted'[u] = queueAborted[u]
      BY <1>1, <2>1
    <2>3. \A u \in Task : u # t => (queueAborted'[u] => pc'[u] \in Flagged)
      BY <1>4, <2>1, <2>2
    <2>4. pc'[t] \in Flagged
      BY <1>4 DEF Left, Flagged
    <2>5. ~slotHeld[t]
      BY <1>4, <2>1 DEF Left
    <2>6. \A u \in Task : slotHeld[u] => pc'[u] = "executing"
      BY <1>4, <2>1, <2>5
    <2> QED BY <2>2, <2>3, <2>4, <2>6
  <1> QED BY <1>1, <1>2, <1>3, <1>4, <1>6, <1>7

LEMMA CancelQueuedTaskKeepsCore ==
  ASSUME Core, NEW t \in Task, CancelQueuedTask(t)
  PROVE  Core'
  <1>1. PICK i \in EntriesOf(t) : AbortQueuedWaiter(t, i)
    BY DEF CancelQueuedTask
  <1>2. /\ status' = [status EXCEPT ![t] = "cancelled"]
        /\ UNCHANGED <<maxConcurrent, availableSlots, queueCounter, priority,
                       slotHeld, timed>>
    BY DEF CancelQueuedTask
  <1>3. status' \in [Task -> Status] /\ ~(availableSlots > 0)
    BY <1>1, <1>2, AbortFacts DEF Core, TypeOK, Status, NoIdleSlot
  <1> QED BY <1>1, <1>2, <1>3, AbortFacts DEF Core, TypeOK, NoIdleSlot, QueueMatches

LEMMA EndScheduleOfQueuedKeepsCore ==
  ASSUME Core, NEW t \in Task, EndScheduleOfQueued(t)
  PROVE  Core'
  <1>1. /\ status' = [status EXCEPT ![t] = "paused"]
        /\ UNCHANGED <<maxConcurrent, availableSlots, queueCounter, priority,
                       slotHeld, timed>>
    BY DEF EndScheduleOfQueued
  <1>2. status' \in [Task -> Status]
    BY <1>1 DEF Core, TypeOK, Status
  <1>3. CASE \E i \in EntriesOf(t) : AbortQueuedWaiter(t, i)
    <2>1. PICK i \in EntriesOf(t) : AbortQueuedWaiter(t, i)
      BY <1>3
    <2>2. ~(availableSlots > 0)
      BY <2>1, AbortFacts DEF Core, NoIdleSlot
    <2> QED BY <1>1, <1>2, <2>1, <2>2, AbortFacts
            DEF Core, TypeOK, NoIdleSlot, QueueMatches
  <1>4. CASE UNCHANGED <<priorityQueue, queueAborted, pc>>
    BY <1>1, <1>2, <1>4 DEF Core, TypeOK, NoIdleSlot, QueueMatches
  <1> QED BY <1>3, <1>4 DEF EndScheduleOfQueued

LEMMA SetTaskPriorityKeepsCore ==
  ASSUME Core, NEW t \in Task, NEW p \in Priority, SetTaskPriority(t, p)
  PROVE  Core'
  <1>1. UNCHANGED <<maxConcurrent, availableSlots, queueCounter, status,
                    queueAborted, priority, pc, slotHeld, timed>>
    BY DEF SetTaskPriority
  <1>2. PICK i \in EntriesOf(t) :
          priorityQueue' \in SortedInserts(DeleteAt(priorityQueue, i),
                                           [priorityQueue[i] EXCEPT !.prio = p])
    BY DEF SetTaskPriority
  <1> DEFINE q == DeleteAt(priorityQueue, i)
             e == [priorityQueue[i] EXCEPT !.prio = p]
  <1>3. /\ i \in 1..Len(priorityQueue) /\ priorityQueue[i].task = t
        /\ t \in TasksIn(priorityQueue) /\ priorityQueue[i] \in Entry
    BY EntryFacts DEF EntriesOf, TasksIn, Core, QueueMatches
  <1>4. e \in Entry /\ e.task = t
    BY <1>3, SlotsAssumption DEF Entry
  <1>5. /\ q \in Seq(Entry) /\ Distinct(q)
        /\ TasksIn(q) = TasksIn(priorityQueue) \ {t}
    BY <1>3, DeleteFacts DEF Core, QueueMatches
  <1> HIDE DEF q, e
  <1>6. PICK k \in 0..Len(q) :
          priorityQueue' = InsertAt(q, k, e) /\ Sorted(priorityQueue')
    BY <1>2 DEF SortedInserts, q, e
  <1>7. /\ priorityQueue' \in Seq(Entry) /\ Distinct(priorityQueue')
        /\ TasksIn(priorityQueue') = TasksIn(priorityQueue)
    <2>1. t \notin TasksIn(q)
      BY <1>5
    <2>2. /\ priorityQueue' \in Seq(Entry) /\ Distinct(priorityQueue')
          /\ TasksIn(priorityQueue') = TasksIn(q) \cup {t}
      BY <1>4, <1>5, <1>6, <2>1, InsertFacts
    <2> QED BY <1>3, <1>5, <2>2
  <1>8. priorityQueue # <<>>
    BY <1>3
  <1>9. ~(availableSlots > 0)
    BY <1>8 DEF Core, NoIdleSlot
  <1> QED BY <1>1, <1>6, <1>7, <1>9 DEF Core, TypeOK, NoIdleSlot, QueueMatches

\* An administrator's raise hands slots to the first `wakes' waiters.
LEMMA SetMaxConcurrentKeepsCore ==
  ASSUME Core, NEW n \in Int, SetMaxConcurrent(n)
  PROVE  Core'
  <1> DEFINE raise == IF Clamp(n) > maxConcurrent THEN Clamp(n) - maxConcurrent ELSE 0
             wakes == Least(raise, Len(priorityQueue))
             woken == {priorityQueue[i].task : i \in 1..wakes}
  <1>1. /\ maxConcurrent' = Clamp(n)
        /\ priorityQueue' = SubSeq(priorityQueue, wakes + 1, Len(priorityQueue))
        /\ pc' = SetEvents(pc, woken)
        /\ availableSlots' = availableSlots + (raise - wakes)
        /\ UNCHANGED <<queueCounter, status, queueAborted, priority, slotHeld, timed>>
    BY DEF SetMaxConcurrent
  <1>2. Clamp(n) \in 1..LimitCeiling
    BY SlotsAssumption DEF Clamp
  <1>3. raise \in Nat /\ wakes \in 0..Len(priorityQueue) /\ wakes <= raise
        /\ (wakes = raise \/ wakes = Len(priorityQueue))
    <2>1. Len(priorityQueue) \in Nat /\ maxConcurrent \in Int /\ Clamp(n) \in Int
      BY <1>2, EntryFacts, SlotsAssumption DEF Core, TypeOK
    <2> QED BY <2>1 DEF Least
  <1> HIDE DEF raise, wakes
  <1>4. /\ priorityQueue' \in Seq(Entry) /\ Distinct(priorityQueue')
        /\ Sorted(priorityQueue')
        /\ TasksIn(priorityQueue') = TasksIn(priorityQueue) \ woken
        /\ Len(priorityQueue') = Len(priorityQueue) - wakes
    BY <1>1, <1>3, DropFacts DEF Core, QueueMatches
  <1>5. woken \subseteq TasksIn(priorityQueue)
    BY <1>3, EntryFacts DEF TasksIn, Core, QueueMatches
  <1> HIDE DEF woken
  <1>6. /\ pc' \in [Task -> Place]
        /\ \A t \in Task :
             pc'[t] = IF t \in woken /\ pc[t] = "waiting" THEN "woken" ELSE pc[t]
    BY <1>1, SetEventsFacts DEF Core, TypeOK
  <1>7. QueueMatches(priorityQueue', pc')
    BY <1>4, <1>6 DEF Core, QueueMatches
  <1>8. availableSlots' \in Nat /\ (availableSlots' > 0 => priorityQueue' = <<>>)
    <2>1. availableSlots \in Nat /\ (availableSlots > 0 => priorityQueue = <<>>)
      BY DEF Core, TypeOK, NoIdleSlot
    <2>2. availableSlots' \in Nat
      BY <1>1, <1>3, <2>1
    <2>3. ASSUME availableSlots' > 0 PROVE Len(priorityQueue') = 0
      <3>1. CASE availableSlots > 0
        <4>1. Len(priorityQueue) = 0
          BY <2>1, <3>1
        <4>2. wakes = 0
          BY <1>3, <4>1
        <4> QED BY <1>4, <4>1, <4>2
      <3>2. CASE availableSlots = 0
        <4>1. wakes # raise
          BY <1>1, <1>3, <2>3, <3>2
        <4> QED BY <1>3, <1>4, <4>1
      <3> QED BY <2>1, <3>1, <3>2
    <2> QED BY <1>4, <2>2, <2>3
  <1>9. \A t \in Task : /\ queueAborted'[t] => pc'[t] \in Flagged
                        /\ slotHeld'[t] => pc'[t] = "executing"
    BY <1>1, <1>6 DEF Core, Flagged
  <1> QED BY <1>1, <1>2, <1>6, <1>7, <1>8, <1>9
          DEF Core, TypeOK, NoIdleSlot, QueueMatches

LEMMA LaunchKeepsCore ==
  ASSUME Core, NEW t \in Task, NEW s \in Status, NEW deadline \in BOOLEAN,
         Launch(t, s, deadline), deadline => TaskTimeout
  PROVE  Core'
  <1>1. /\ pc[t] = "idle" /\ pc' = [pc EXCEPT ![t] = "created"]
        /\ status' = [status EXCEPT ![t] = s]
        /\ timed' = [timed EXCEPT ![t] = deadline]
        /\ UNCHANGED <<maxConcurrent, availableSlots, priorityQueue, queueCounter,
                       queueAborted, priority, slotHeld>>
    BY DEF Launch, queueVars
  <1>2. /\ pc' \in [Task -> Place] /\ QueueMatches(priorityQueue, pc')
        /\ pc'[t] = "created" /\ \A u \in Task : u # t => pc'[u] = pc[u]
    BY <1>1, MoveFacts DEF Core, TypeOK, Place
  <1>3. timed' \in [Task -> BOOLEAN] /\ \A u \in Task : timed'[u] => TaskTimeout
    BY <1>1 DEF Core, TypeOK
  <1>4. \A u \in Task : /\ queueAborted'[u] => pc'[u] \in Flagged
                        /\ slotHeld'[u] => pc'[u] = "executing"
    BY <1>1, <1>2 DEF Core, Left, Flagged
  <1>5. status' \in [Task -> Status]
    BY <1>1 DEF Core, TypeOK
  <1> QED BY <1>1, <1>2, <1>3, <1>4, <1>5
          DEF Core, TypeOK, NoIdleSlot, QueueMatches

\* Whoever is timed out in the wait leaves its entry, or its flag, behind.
LEMMA TimeOutKeepsCore ==
  ASSUME Core, NEW t \in Task, TimeOut(t)
  PROVE  Core'
  <1> DEFINE left == [pc EXCEPT ![t] = "exited"]
  <1>1. /\ pc[t] \in {"waiting", "woken", "executing"}
        /\ slotHeld' = [slotHeld EXCEPT ![t] = FALSE]
        /\ UNCHANGED <<maxConcurrent, queueCounter, queueAborted, priority, timed>>
    BY DEF TimeOut
  <1>2. status' \in [Task -> Status]
    BY DEF TimeOut, Core, TypeOK, Status
  <1>3. "exited" \in Enqueued /\ "exited" \in Flagged
    BY DEF TimeOut, Core, Left, Enqueued, Flagged
  <1>4. /\ left \in [Task -> Place] /\ left[t] = "exited"
        /\ \A u \in Task : u # t => left[u] = pc[u]
    BY DEF Core, TypeOK, Place
  <1> HIDE DEF left
  <1>5. QueueMatches(priorityQueue, left)
    <2>1. QueueMatches(priorityQueue, pc)
      BY DEF Core
    <2>2. \A u \in Task : left[u] = "waiting" => u \in TasksIn(priorityQueue)
      BY <1>4, <2>1 DEF QueueMatches
    <2>3. \A u \in Task : u \in TasksIn(priorityQueue) => left[u] \in Enqueued
      BY <1>3, <1>4, <2>1 DEF QueueMatches
    <2> QED BY <2>1, <2>2, <2>3 DEF QueueMatches
  <1>6. availableSlots \in Nat /\ (availableSlots > 0 => priorityQueue = <<>>)
    BY DEF Core, TypeOK, NoIdleSlot
  <1>7. /\ pc' \in [Task -> Place] /\ availableSlots' \in Nat
        /\ availableSlots' > 0 => priorityQueue' = <<>>
        /\ QueueMatches(priorityQueue', pc')
        /\ \A u \in Task : left[u] # "waiting" => pc'[u] = left[u]
    <2>1. CASE slotHeld[t]
      <3>1. ReleaseSlot(left, availableSlots)
        BY <2>1 DEF TimeOut, left
      <3> QED BY <1>4, <1>5, <1>6, <3>1, ReleaseFacts
    <2>2. CASE ~slotHeld[t]
      <3>1. pc' = left /\ UNCHANGED <<availableSlots, priorityQueue>>
        BY <2>2 DEF TimeOut, left
      <3> QED BY <1>4, <1>5, <1>6, <3>1
    <2> QED BY <2>1, <2>2
  <1>8. /\ \A u \in Task : slotHeld'[u] => pc'[u] = "executing"
        /\ \A u \in Task : queueAborted'[u] => pc'[u] \in Flagged
    <2>1. \A u \in Task : slotHeld'[u] => pc'[u] = "executing"
      BY <1>1, <1>4, <1>7 DEF Core, TypeOK
    <2>2. ASSUME NEW u \in Task, queueAborted[u] PROVE pc'[u] \in Flagged
      <3>1. CASE u = t
        BY <1>3, <1>4, <1>7, <3>1
      <3>2. CASE u # t
        <4>1. pc[u] \in Flagged
          BY <2>2 DEF Core
        <4>2. left[u] = pc[u] /\ pc[u] # "waiting"
          BY <1>4, <3>2, <4>1 DEF Flagged, Left
        <4> QED BY <1>7, <4>1, <4>2
      <3> QED BY <3>1, <3>2
    <2> QED BY <1>1, <2>1, <2>2
  <1>9. slotHeld' \in [Task -> BOOLEAN]
    BY <1>1 DEF Core, TypeOK
  <1> QED BY <1>1, <1>2, <1>7, <1>8, <1>9 DEF Core, TypeOK, NoIdleSlot, QueueMatches

\* The calls that write nothing but a status, and the reload of a record.
LEMMA StatusCallsKeepCore ==
  ASSUME Core, NEW t \in Task, NEW s \in Status,
         status' = [status EXCEPT ![t] = s],
         \/ UNCHANGED queueAborted
         \/ queueAborted' = [queueAborted EXCEPT ![t] = FALSE],
         UNCHANGED <<maxConcurrent, availableSlots, queueVars, priority, pc,
                     slotHeld, timed>>
  PROVE  Core'
  <1>1. status' \in [Task -> Status]
    BY DEF Core, TypeOK
  <1>2. /\ queueAborted' \in [Task -> BOOLEAN]
        /\ \A u \in Task : queueAborted'[u] => queueAborted[u]
    BY DEF Core, TypeOK
  <1> QED BY <1>1, <1>2 DEF Core, TypeOK, NoIdleSlot, QueueMatches, queueVars

LEMMA CoreInit == Init => Core
  <1> SUFFICES ASSUME Init PROVE Core
    OBVIOUS
  <1>1. TypeOK
    BY SlotsAssumption DEF Init, TypeOK, Status, Place, Entry
  <1>2. QueueMatches(priorityQueue, pc)
    BY DEF Init, QueueMatches, Distinct, Sorted, TasksIn
  <1> QED BY <1>1, <1>2 DEF Init, Core, NoIdleSlot

LEMMA CoreStep ==
  ASSUME Core, [Next]_vars
  PROVE  Core'
  <1>1. ASSUME NEW t \in Task, Runner(t) PROVE Core'
    BY <1>1, AcquireSlotKeepsCore, WakeKeepsCore, FinishKeepsCore DEF Runner
  <1>2. ASSUME NEW t \in Task, TimeOut(t) PROVE Core'
    BY <1>2, TimeOutKeepsCore
  <1>3. ASSUME NEW t \in Task, Control(t) PROVE Core'
    <2>1. CASE StartTask(t) \/ LaunchScheduledTask(t)
      <3>1. TaskTimeout \in BOOLEAN /\ {"running", "queued"} \subseteq Status
        BY SlotsAssumption DEF Status
      <3>2. CASE Launch(t, "running", TaskTimeout)
        BY <3>1, <3>2, LaunchKeepsCore
      <3>3. CASE Launch(t, "queued", FALSE)
        BY <3>1, <3>3, LaunchKeepsCore
      <3> QED BY <2>1, <3>2, <3>3 DEF StartTask, LaunchScheduledTask
    <2>2. CASE CancelQueuedTask(t)
      BY <2>2, CancelQueuedTaskKeepsCore
    <2>3. CASE EndScheduleOfQueued(t)
      BY <2>3, EndScheduleOfQueuedKeepsCore
    <2>4. CASE CancelTask(t) \/ PauseTask(t) \/ ResumeTask(t) \/ OtherRunnerEnds(t)
      <3>1. PICK s \in Status : SetStatus(t, s)
        BY <2>4 DEF CancelTask, PauseTask, ResumeTask, OtherRunnerEnds, Status
      <3> QED BY <3>1, StatusCallsKeepCore DEF SetStatus
    <2>5. CASE OtherRunnerStarts(t)
      <3>1. "running" \in Status
        BY DEF Status
      <3> QED BY <2>5, <3>1, StatusCallsKeepCore DEF OtherRunnerStarts
    <2>6. CASE \E p \in Priority : SetTaskPriority(t, p)
      BY <2>6, SetTaskPriorityKeepsCore
    <2> QED BY <1>3, <2>1, <2>2, <2>3, <2>4, <2>5, <2>6 DEF Control
  <1>4. ASSUME NEW n \in 0..(LimitCeiling + 1), SetMaxConcurrent(n) PROVE Core'
    BY <1>4, SetMaxConcurrentKeepsCore
  <1>5. CASE UNCHANGED vars
    BY <1>5 DEF vars, Core, TypeOK, NoIdleSlot, QueueMatches
  <1> QED BY <1>1, <1>2, <1>3, <1>4, <1>5 DEF Next

----------------------------------------------------------------------------
(* The theorems on the queue.                                              *)

(* In a deployment without the whole-task timeout, the queue always        *)
(* matches the coroutines that wait, is sorted, and is empty while a slot  *)
(* is free, whatever other runners of the tasks do (_acquire_slot,         *)
(* _release_slot, _abort_queued_waiter, set_max_concurrent).               *)
THEOREM SlotsInvariantHolds ==
  ASSUME ~TaskTimeout
  PROVE  Spec => []SlotsInvariant
  <1>1. Core /\ [Next]_vars => Core'
    BY CoreStep
  <1>2. Core => SlotsInvariant
    BY CoreIsInvariant
  <1> QED BY <1>1, <1>2, CoreInit, PTL DEF Spec

(* Types, in particular: free slots are never negative, the limit stays    *)
(* within 1..LimitCeiling whatever an administrator asks for.              *)
THEOREM TypeCorrect == Spec => []TypeOK
  <1>1. Core /\ [Next]_vars => Core'
    BY CoreStep
  <1>2. Core => TypeOK
    BY DEF Core
  <1> QED BY <1>1, <1>2, CoreInit, PTL DEF Spec

(* A slot is never free while a coroutine waits for one, not even after    *)
(* the whole-task timeout has killed some of those that waited.            *)
THEOREM NoSlotIdles == Spec => []NoIdleSlot
  <1>1. Core /\ [Next]_vars => Core'
    BY CoreStep
  <1>2. Core => NoIdleSlot
    BY DEF Core
  <1> QED BY <1>1, <1>2, CoreInit, PTL DEF Spec

(* Whatever happens to other coroutines, one that waits has exactly one    *)
(* entry: it is never forgotten and never handed two slots.                *)
THEOREM WaitersKeepTheirEntry == Spec => []EveryWaiterQueued
  <1>1. Core /\ [Next]_vars => Core'
    BY CoreStep
  <1>2. Core => EveryWaiterQueued
    BY DEF Core, QueueMatches, Distinct, TasksIn, EveryWaiterQueued, EntriesOf
  <1> QED BY <1>1, <1>2, CoreInit, PTL DEF Spec

(* Exactly the suspended coroutines have an entry.                         *)
THEOREM WaitersMatchQueue ==
  ASSUME ~TaskTimeout
  PROVE  Spec => []WaitersAreQueued
  <1>1. SlotsInvariant => WaitersAreQueued
    BY DEF SlotsInvariant
  <1> QED BY <1>1, SlotsInvariantHolds, PTL

----------------------------------------------------------------------------
(* The order of hand-overs.                                                *)

InOrder ==
  \A i, j \in DOMAIN priorityQueue :
    LET served == priorityQueue[i].task
        passed == priorityQueue[j].task
    IN (/\ pc'[served] = "woken" /\ ~queueAborted'[served]
        /\ pc'[passed] = "waiting")
       => Precedes(priorityQueue[i], priorityQueue[j])

\* It is enough that those served are the first m of the queue.
LEMMA ServingThePrefix ==
  ASSUME Core, NEW m \in 0..Len(priorityQueue),
         \A t \in Task : (pc[t] # "woken" /\ pc'[t] = "woken" /\ ~queueAborted'[t])
                        => \E k \in 1..m : priorityQueue[k].task = t,
         \A k \in 1..m : pc'[priorityQueue[k].task] # "waiting"
  PROVE  InOrder
  <1>1. /\ DOMAIN priorityQueue = 1..Len(priorityQueue)
        /\ Len(priorityQueue) \in Nat
        /\ \A i \in 1..Len(priorityQueue) : priorityQueue[i].task \in Task
    BY EntryFacts DEF Core, QueueMatches, Entry
  <1>2. SUFFICES ASSUME NEW i \in 1..Len(priorityQueue),
                        NEW j \in 1..Len(priorityQueue),
                        pc'[priorityQueue[i].task] = "woken",
                        ~queueAborted'[priorityQueue[i].task],
                        pc'[priorityQueue[j].task] = "waiting"
                 PROVE  Precedes(priorityQueue[i], priorityQueue[j])
    BY <1>1 DEF InOrder
  <1>3. pc[priorityQueue[i].task] # "woken"
    BY <1>1 DEF Core, QueueMatches, TasksIn, Left, Enqueued
  <1>4. i \in 1..m
    <2>1. PICK k \in 1..m : priorityQueue[k].task = priorityQueue[i].task
      BY <1>1, <1>2, <1>3
    <2> QED BY <1>1, <2>1 DEF Core, QueueMatches, Distinct
  <1>5. j \notin 1..m
    BY <1>2
  <1>6. i < j
    BY <1>4, <1>5
  <1> QED BY <1>1, <1>6 DEF Core, QueueMatches, Sorted

\* A release serves at most the head.
LEMMA ReleaseInOrder ==
  ASSUME Core, NEW t \in Task, pc[t] # "waiting", NEW avail,
         ReleaseSlot([pc EXCEPT ![t] = "exited"], avail)
  PROVE  InOrder
  <1> DEFINE left == [pc EXCEPT ![t] = "exited"]
  <1>1. /\ left \in [Task -> Place]
        /\ \A u \in Task : left[u] = IF u = t THEN "exited" ELSE pc[u]
    BY DEF Core, TypeOK, Place
  <1>2. CASE priorityQueue # <<>>
    <2>1. pc' = SetEvents(left, {Head(priorityQueue).task})
      BY <1>2 DEF ReleaseSlot
    <2>2. \A u \in Task : pc'[u] = IF u \in {Head(priorityQueue).task} /\ left[u] = "waiting"
                                 THEN "woken" ELSE left[u]
      <3> HIDE DEF left
      <3> QED BY <1>1, <2>1, SetEventsFacts
    <2>3. /\ 1 \in 0..Len(priorityQueue) /\ Head(priorityQueue) = priorityQueue[1]
          /\ priorityQueue[1].task \in Task
      <3>1. /\ Len(priorityQueue) \in Nat \ {0} /\ Head(priorityQueue) = priorityQueue[1]
            /\ Head(priorityQueue) \in Entry
        BY <1>2, HeadFacts DEF Core, QueueMatches
      <3> QED BY <3>1 DEF Entry
    <2>4. \A u \in Task : (pc[u] # "woken" /\ pc'[u] = "woken")
                         => priorityQueue[1].task = u
      BY <1>1, <2>2, <2>3
    <2>5. pc'[priorityQueue[1].task] # "waiting"
      BY <1>1, <2>2, <2>3
    <2> QED BY <2>3, <2>4, <2>5, ServingThePrefix
  <1>3. CASE priorityQueue = <<>>
    BY <1>3 DEF InOrder
  <1> QED BY <1>2, <1>3

\* A step that wakes no waiter, except with an abort, serves nobody.
LEMMA ServingNobody ==
  ASSUME Core,
         \A t \in Task : pc[t] # "woken" /\ pc'[t] = "woken" => queueAborted'[t]
  PROVE  InOrder
  <1>1. 0 \in 0..Len(priorityQueue)
    BY EntryFacts DEF Core, QueueMatches
  <1> QED BY <1>1, ServingThePrefix

LEMMA AfterAcquireInOrder ==
  ASSUME Core, NEW t \in Task, pc[t] \in {"created", "woken"}, NEW held, NEW avail,
         AfterAcquire(t, held, avail)
  PROVE  InOrder
  <1>1. CASE ReleaseSlot([pc EXCEPT ![t] = "exited"], avail)
    BY <1>1, ReleaseInOrder
  <1>2. CASE \E p \in {"exited", "executing"} : pc' = [pc EXCEPT ![t] = p]
    BY <1>2, ServingNobody DEF Core, TypeOK
  <1> QED BY <1>1, <1>2 DEF AfterAcquire

LEMMA StepInOrder ==
  ASSUME Core, [Next]_vars
  PROVE  InOrder
  <1>1. ASSUME NEW t \in Task, AcquireSlot(t) PROVE InOrder
    <2>1. CASE AfterAcquire(t, TRUE, availableSlots - 1)
      BY <1>1, <2>1, AfterAcquireInOrder DEF AcquireSlot
    <2>2. CASE pc' = [pc EXCEPT ![t] = "waiting"]
      BY <1>1, <2>2, ServingNobody DEF Core, TypeOK
    <2> QED BY <1>1, <2>1, <2>2 DEF AcquireSlot
  <1>2. ASSUME NEW t \in Task, Wake(t) PROVE InOrder
    BY <1>2, AfterAcquireInOrder DEF Wake
  <1>3. ASSUME NEW t \in Task, Finish(t) PROVE InOrder
    <2>1. CASE ReleaseSlot([pc EXCEPT ![t] = "exited"], availableSlots)
      BY <1>3, <2>1, ReleaseInOrder DEF Finish
    <2>2. CASE pc' = [pc EXCEPT ![t] = "exited"]
      BY <1>3, <2>2, ServingNobody DEF Core, TypeOK
    <2> QED BY <1>3, <2>1, <2>2 DEF Finish
  <1>4. ASSUME NEW t \in Task, TimeOut(t) PROVE InOrder
    <2>1. CASE slotHeld[t]
      BY <1>4, <2>1, ReleaseInOrder DEF TimeOut, Core
    <2>2. CASE ~slotHeld[t]
      BY <1>4, <2>2, ServingNobody DEF TimeOut, Core, TypeOK
    <2> QED BY <2>1, <2>2
  <1>5. ASSUME NEW t \in Task, NEW i \in EntriesOf(t), AbortQueuedWaiter(t, i)
        PROVE  InOrder
    <2>1. \A u \in Task : u # t => pc'[u] = pc[u]
      BY <1>5, AbortFacts
    <2>2. queueAborted'[t]
      BY <1>5, AbortFacts DEF Core, TypeOK
    <2> QED BY <2>1, <2>2, ServingNobody
  <1>6. ASSUME NEW t \in Task, Control(t) PROVE InOrder
    <2>1. CASE UNCHANGED pc
      BY <2>1, ServingNobody
    <2>2. CASE pc' = [pc EXCEPT ![t] = "created"]
      BY <2>2, ServingNobody DEF Core, TypeOK
    <2>3. CASE \E i \in EntriesOf(t) : AbortQueuedWaiter(t, i)
      BY <1>5, <2>3
    <2>4. CASE StartTask(t) \/ LaunchScheduledTask(t)
      BY <2>2, <2>4 DEF StartTask, LaunchScheduledTask, Launch
    <2>5. CASE CancelQueuedTask(t) \/ EndScheduleOfQueued(t)
      BY <2>1, <2>3, <2>5 DEF CancelQueuedTask, EndScheduleOfQueued
    <2>6. CASE \/ CancelTask(t) \/ PauseTask(t) \/ ResumeTask(t)
               \/ OtherRunnerStarts(t) \/ OtherRunnerEnds(t)
               \/ \E p \in Priority : SetTaskPriority(t, p)
      BY <2>1, <2>6 DEF CancelTask, PauseTask, ResumeTask, OtherRunnerStarts,
                        OtherRunnerEnds, SetTaskPriority, SetStatus
    <2> QED BY <1>6, <2>4, <2>5, <2>6 DEF Control
  <1>7. ASSUME NEW n \in Int, SetMaxConcurrent(n) PROVE InOrder
    <2> DEFINE raise == IF Clamp(n) > maxConcurrent THEN Clamp(n) - maxConcurrent ELSE 0
               wakes == Least(raise, Len(priorityQueue))
               woken == {priorityQueue[i].task : i \in 1..wakes}
    <2>1. pc' = SetEvents(pc, woken)
      BY <1>7 DEF SetMaxConcurrent
    <2>2. wakes \in 0..Len(priorityQueue)
      <3>1. Len(priorityQueue) \in Nat /\ maxConcurrent \in Int /\ Clamp(n) \in Int
        BY EntryFacts, SlotsAssumption DEF Core, TypeOK, QueueMatches, Clamp
      <3> QED BY <3>1 DEF Least
    <2> HIDE DEF wakes
    <2>3. \A u \in Task :
            pc'[u] = IF u \in woken /\ pc[u] = "waiting" THEN "woken" ELSE pc[u]
      BY <2>1, SetEventsFacts DEF Core, TypeOK
    <2>4. \A u \in Task : (pc[u] # "woken" /\ pc'[u] = "woken")
                         => \E k \in 1..wakes : priorityQueue[k].task = u
      BY <2>3
    <2>5. \A k \in 1..wakes : pc'[priorityQueue[k].task] # "waiting"
      <3> SUFFICES ASSUME NEW k \in 1..wakes
                   PROVE  pc'[priorityQueue[k].task] # "waiting"
        OBVIOUS
      <3>1. priorityQueue[k].task \in Task /\ priorityQueue[k].task \in woken
        <4>1. k \in 1..Len(priorityQueue)
          BY <2>2, EntryFacts DEF Core, QueueMatches
        <4>2. priorityQueue[k] \in Entry
          BY <4>1, EntryFacts DEF Core, QueueMatches
        <4> QED BY <4>2 DEF Entry
      <3> QED BY <2>3, <3>1
    <2> QED BY <2>2, <2>4, <2>5, ServingThePrefix
  <1>8. CASE UNCHANGED vars
    BY <1>8, ServingNobody DEF vars
  <1> QED BY <1>1, <1>2, <1>3, <1>4, <1>6, <1>7, <1>8 DEF Next, Runner

(* Slots go to the waiter with the highest priority, the earliest among    *)
(* equals, after any sequence of arrivals, aborts, priority changes and    *)
(* resizes.                                                                *)
THEOREM HandOversInOrder == Spec => HandOverInOrder
  <1>1. Core /\ [Next]_vars => Core' /\ InOrder
    BY CoreStep, StepInOrder
  <1>2. InOrder <=>
          \A i, j \in DOMAIN priorityQueue :
            LET served == priorityQueue[i].task
                passed == priorityQueue[j].task
            IN (/\ pc'[served] = "woken" /\ ~queueAborted'[served]
                /\ pc'[passed] = "waiting")
               => Precedes(priorityQueue[i], priorityQueue[j])
    BY DEF InOrder
  <1> QED BY <1>1, <1>2, CoreInit, PTL DEF Spec, HandOverInOrder

----------------------------------------------------------------------------
(* The limiter implements the resizable semaphore SlotSemaphore and loses  *)
(* no slot.  Counting the holders.                                         *)

LEMMA SameCardinality ==
  ASSUME NEW S
  PROVE  Semaphore!Cardinality(S) = Cardinality(S)
  BY DEF Semaphore!Cardinality, Cardinality

LEMMA HoldersFinite ==
  /\ IsFiniteSet(Holders)
  /\ Cardinality(Holders) \in Nat
  <1>1. Holders \subseteq Task
    BY DEF Holders
  <1> QED BY <1>1, SlotsAssumption, FS_Subset, FS_CardinalityType

LEMMA OneMore ==
  ASSUME NEW S, IsFiniteSet(S), NEW x, x \notin S
  PROVE  /\ IsFiniteSet(S \cup {x})
         /\ Cardinality(S \cup {x}) = Cardinality(S) + 1
  BY FS_AddElement

LEMMA OneLess ==
  ASSUME NEW S, IsFiniteSet(S), NEW x \in S
  PROVE  /\ IsFiniteSet(S \ {x})
         /\ Cardinality(S \ {x}) = Cardinality(S) - 1
  BY FS_RemoveElement

\* When neither the free slots nor the holders change, the semaphore stutters.
LEMMA NothingHeldChanges ==
  ASSUME UNCHANGED <<maxConcurrent, availableSlots>>, Holders' = Holders
  PROVE  UNCHANGED Semaphore!semaphoreVars
  BY DEF Semaphore!semaphoreVars, SlotsInExistence

\* Without the whole-task timeout nobody who left has an entry or a flag.
LEMMA NobodyLeft ==
  ASSUME ~TaskTimeout, Core
  PROVE  /\ \A t \in Task : t \in TasksIn(priorityQueue) => pc[t] = "waiting"
         /\ \A t \in Task : queueAborted[t] => pc[t] = "woken"
         /\ Left = {}
  BY DEF Core, QueueMatches, Enqueued, Flagged, Left

(* A holder that leaves, seen from the semaphore: its slot goes to the     *)
(* first waiter or becomes free.                                           *)
LEMMA ReleaseImplements ==
  ASSUME ~TaskTimeout, Core, NEW t \in Task, pc[t] # "waiting", t \in Holders,
         ReleaseSlot([pc EXCEPT ![t] = "exited"], availableSlots),
         UNCHANGED maxConcurrent,
         \A u \in Task : u # t => /\ slotHeld'[u] = slotHeld[u]
                                  /\ queueAborted'[u] = queueAborted[u]
  PROVE  \/ Semaphore!Release(t)
         \/ \E u \in Task : Semaphore!HandOver(t, u)
  <1> DEFINE left == [pc EXCEPT ![t] = "exited"]
  <1>1. /\ left \in [Task -> Place] /\ left[t] = "exited"
        /\ \A u \in Task : u # t => left[u] = pc[u]
    BY DEF Core, TypeOK, Place
  <1>2. IsFiniteSet(Holders) /\ Cardinality(Holders) \in Nat /\ availableSlots \in Nat
    BY HoldersFinite DEF Core, TypeOK
  <1>3. /\ IsFiniteSet(Holders \ {t})
        /\ Cardinality(Holders \ {t}) = Cardinality(Holders) - 1
    BY <1>2, OneLess
  <1>4. CASE priorityQueue # <<>>
    <2> DEFINE h == Head(priorityQueue).task
    <2>1. pc' = SetEvents(left, {h}) /\ availableSlots' = availableSlots
      BY <1>4 DEF ReleaseSlot
    <2>2. h \in Task /\ pc[h] = "waiting"
      <3>1. Head(priorityQueue) \in Entry /\ h \in TasksIn(priorityQueue)
        BY <1>4, HeadFacts DEF Core, QueueMatches
      <3>2. h \in Task
        BY <3>1 DEF Entry
      <3> QED BY <3>1, <3>2, NobodyLeft
    <2> HIDE DEF left, h
    <2>3. \A u \in Task : pc'[u] = IF u = h /\ left[u] = "waiting"
                                   THEN "woken" ELSE left[u]
      BY <1>1, <2>1, SetEventsFacts
    <2>4. h # t /\ h \notin Holders /\ ~queueAborted[h]
      BY <2>2, NobodyLeft DEF Holders
    <2>5. Holders' = (Holders \ {t}) \cup {h}
      <3>1. pc'[t] = "exited"
        BY <1>1, <2>3
      <3>2. pc'[h] = "woken" /\ ~queueAborted'[h]
        BY <1>1, <2>2, <2>3, <2>4
      <3>3. ASSUME NEW u \in Task, u # t, u # h
            PROVE  /\ pc'[u] = pc[u]
                   /\ slotHeld'[u] = slotHeld[u]
                   /\ queueAborted'[u] = queueAborted[u]
        BY <1>1, <2>3, <3>3
      <3>4. ASSUME NEW u \in Task
            PROVE  u \in Holders' <=> u \in (Holders \ {t}) \cup {h}
        <4>1. CASE u = t
          BY <2>4, <3>1, <4>1 DEF Holders
        <4>2. CASE u = h
          BY <3>2, <4>2 DEF Holders
        <4>3. CASE u # t /\ u # h
          BY <3>3, <4>3 DEF Holders
        <4> QED BY <4>1, <4>2, <4>3
      <3>5. Holders' \subseteq Task /\ (Holders \ {t}) \cup {h} \subseteq Task
        BY <2>2 DEF Holders
      <3> QED BY <3>4, <3>5
    <2>6. Cardinality(Holders') = Cardinality(Holders)
      <3>1. h \notin Holders \ {t}
        BY <2>4
      <3>2. Cardinality((Holders \ {t}) \cup {h}) = Cardinality(Holders \ {t}) + 1
        BY <1>3, <3>1, OneMore
      <3> QED BY <1>2, <1>3, <2>5, <3>2
    <2>7. SlotsInExistence' = SlotsInExistence
      BY <2>1, <2>6 DEF SlotsInExistence
    <2>8. Semaphore!HandOver(t, h)
      BY <2>4, <2>5, <2>7 DEF Semaphore!HandOver
    <2> QED BY <2>2, <2>8
  <1>5. CASE priorityQueue = <<>>
    <2>1. pc' = left /\ availableSlots' = availableSlots + 1
      BY <1>5 DEF ReleaseSlot
    <2> HIDE DEF left
    <2>2. Holders' = Holders \ {t}
      BY <1>1, <2>1 DEF Holders
    <2>3. SlotsInExistence' = SlotsInExistence
      <3>1. Cardinality(Holders') = Cardinality(Holders) - 1
        BY <1>3, <2>2
      <3> QED BY <1>2, <2>1, <3>1 DEF SlotsInExistence
    <2> QED BY <2>2, <2>3 DEF Semaphore!Release
  <1> QED BY <1>4, <1>5

----------------------------------------------------------------------------
(* Every action of the limiter is an action of the semaphore, or none.     *)

SemaphoreStep == [Semaphore!Next]_(Semaphore!semaphoreVars)

LEMMA AcquireSlotImplements ==
  ASSUME ~TaskTimeout, Core, NEW t \in Task, AcquireSlot(t)
  PROVE  SemaphoreStep
  <1>1. /\ pc[t] = "created" /\ t \notin Holders
        /\ UNCHANGED <<maxConcurrent, queueAborted>>
    BY DEF AcquireSlot, Holders
  <1>2. pc \in [Task -> Place] /\ slotHeld \in [Task -> BOOLEAN]
        /\ availableSlots \in Nat /\ Cardinality(Holders) \in Nat
    BY HoldersFinite DEF Core, TypeOK
  <1>3. CASE availableSlots > 0
    <2>1. ~(availableSlots <= 0) /\ priorityQueue = <<>>
      BY <1>2, <1>3 DEF Core, NoIdleSlot
    <2>2. AfterAcquire(t, TRUE, availableSlots - 1)
      BY <2>1 DEF AcquireSlot
    <2>3. CASE status[t] \in Stopped
      <3>1. ReleaseSlot([pc EXCEPT ![t] = "exited"], availableSlots - 1)
            /\ UNCHANGED slotHeld
        BY <2>2, <2>3 DEF AfterAcquire
      <3>2. /\ pc' = [pc EXCEPT ![t] = "exited"]
            /\ availableSlots' = availableSlots
        BY <1>2, <2>1, <3>1 DEF ReleaseSlot
      <3>3. Holders' = Holders
        BY <1>1, <1>2, <3>1, <3>2 DEF Holders
      <3> QED BY <1>1, <3>2, <3>3, NothingHeldChanges DEF SemaphoreStep
    <2>4. CASE status[t] \notin Stopped
      <3>1. /\ pc' = [pc EXCEPT ![t] = "executing"]
            /\ slotHeld' = [slotHeld EXCEPT ![t] = TRUE]
            /\ availableSlots' = availableSlots - 1
        BY <2>2, <2>4 DEF AfterAcquire
      <3>2. Holders' = Holders \cup {t}
        <4>1. pc'[t] = "executing" /\ slotHeld'[t]
          BY <1>2, <3>1
        <4>2. \A u \in Task : u # t => /\ pc'[u] = pc[u]
                                       /\ slotHeld'[u] = slotHeld[u]
                                       /\ queueAborted'[u] = queueAborted[u]
          BY <1>1, <1>2, <3>1
        <4>3. \A u \in Task : u \in Holders' <=> u = t \/ u \in Holders
          BY <4>1, <4>2 DEF Holders
        <4>4. Holders' \subseteq Task /\ Holders \subseteq Task
          BY DEF Holders
        <4> QED BY <4>3, <4>4
      <3>3. Cardinality(Holders') = Cardinality(Holders) + 1
        BY <1>1, <3>2, HoldersFinite, OneMore
      <3>4. SlotsInExistence' = SlotsInExistence
        BY <1>2, <3>1, <3>3 DEF SlotsInExistence
      <3>5. Cardinality(Holders) < SlotsInExistence
        BY <1>2, <1>3 DEF SlotsInExistence
      <3>6. Semaphore!Acquire(t)
        <4> HIDE DEF SlotsInExistence, Holders
        <4> QED BY <1>1, <3>2, <3>4, <3>5, SameCardinality DEF Semaphore!Acquire
      <3> QED BY <3>6 DEF Semaphore!Next, SemaphoreStep
    <2> QED BY <2>3, <2>4
  <1>4. CASE availableSlots <= 0
    <2>1. ~(availableSlots > 0)
      BY <1>2, <1>4
    <2>2. /\ pc' = [pc EXCEPT ![t] = "waiting"]
          /\ UNCHANGED <<availableSlots, slotHeld>>
      BY <2>1 DEF AcquireSlot
    <2>3. Holders' = Holders
      BY <1>1, <1>2, <2>2 DEF Holders
    <2> QED BY <1>1, <2>2, <2>3, NothingHeldChanges DEF SemaphoreStep
  <1> QED BY <1>2, <1>3, <1>4

LEMMA ReleasingStep ==
  ASSUME NEW t \in Task,
         Semaphore!Release(t) \/ \E u \in Task : Semaphore!HandOver(t, u)
  PROVE  SemaphoreStep
  BY DEF SemaphoreStep, Semaphore!Next

LEMMA WakeImplements ==
  ASSUME ~TaskTimeout, Core, NEW t \in Task, Wake(t)
  PROVE  SemaphoreStep
  <1>1. /\ pc[t] = "woken"
        /\ queueAborted' = [queueAborted EXCEPT ![t] = FALSE]
        /\ AfterAcquire(t, ~queueAborted[t], availableSlots)
        /\ UNCHANGED maxConcurrent
    BY DEF Wake
  <1>2. /\ pc \in [Task -> Place] /\ slotHeld \in [Task -> BOOLEAN]
        /\ queueAborted \in [Task -> BOOLEAN]
        /\ ~slotHeld[t]
    BY <1>1 DEF Core, TypeOK
  <1>3. CASE status[t] \in Stopped /\ ~queueAborted[t]
    <2>1. ReleaseSlot([pc EXCEPT ![t] = "exited"], availableSlots)
          /\ UNCHANGED slotHeld
      BY <1>1, <1>3 DEF AfterAcquire
    <2>2. t \in Holders /\ pc[t] # "waiting"
      BY <1>1, <1>3 DEF Holders
    <2>3. \A u \in Task : u # t => /\ slotHeld'[u] = slotHeld[u]
                                   /\ queueAborted'[u] = queueAborted[u]
      BY <1>1, <1>2, <2>1
    <2> QED BY <1>1, <2>1, <2>2, <2>3, ReleaseImplements, ReleasingStep
  <1>4. CASE status[t] \in Stopped /\ queueAborted[t]
    <2>1. /\ pc' = [pc EXCEPT ![t] = "exited"]
          /\ UNCHANGED <<availableSlots, slotHeld>>
      BY <1>1, <1>4 DEF AfterAcquire
    <2>2. Holders' = Holders
      BY <1>1, <1>2, <1>4, <2>1 DEF Holders
    <2> QED BY <1>1, <2>1, <2>2, NothingHeldChanges DEF SemaphoreStep
  <1>5. CASE status[t] \notin Stopped
    <2>1. /\ pc' = [pc EXCEPT ![t] = "executing"]
          /\ slotHeld' = [slotHeld EXCEPT ![t] = ~queueAborted[t]]
          /\ UNCHANGED availableSlots
      BY <1>1, <1>5 DEF AfterAcquire
    <2>2. ASSUME NEW u \in Task PROVE u \in Holders' <=> u \in Holders
      <3>1. CASE u = t
        <4>1. pc'[t] = "executing"
          BY <1>2, <2>1
        <4>2. slotHeld'[t] <=> ~queueAborted[t]
          BY <1>2, <2>1
        <4> QED BY <1>1, <3>1, <4>1, <4>2 DEF Holders
      <3>2. CASE u # t
        <4>1. pc'[u] = pc[u] /\ slotHeld'[u] = slotHeld[u]
              /\ queueAborted'[u] = queueAborted[u]
          BY <1>1, <1>2, <2>1, <3>2
        <4> QED BY <4>1 DEF Holders
      <3> QED BY <3>1, <3>2
    <2>3. Holders' = Holders
      BY <2>2 DEF Holders
    <2> QED BY <1>1, <2>1, <2>3, NothingHeldChanges DEF SemaphoreStep
  <1> QED BY <1>3, <1>4, <1>5

LEMMA FinishImplements ==
  ASSUME ~TaskTimeout, Core, NEW t \in Task, Finish(t)
  PROVE  SemaphoreStep
  <1>1. /\ pc[t] = "executing"
        /\ slotHeld' = [slotHeld EXCEPT ![t] = FALSE]
        /\ UNCHANGED <<maxConcurrent, queueAborted>>
        /\ pc \in [Task -> Place] /\ slotHeld \in [Task -> BOOLEAN]
    BY DEF Finish, Core, TypeOK
  <1>2. CASE slotHeld[t]
    <2>1. ReleaseSlot([pc EXCEPT ![t] = "exited"], availableSlots)
      BY <1>2 DEF Finish
    <2>2. t \in Holders /\ pc[t] # "waiting"
      BY <1>1, <1>2 DEF Holders
    <2>3. \A u \in Task : u # t => /\ slotHeld'[u] = slotHeld[u]
                                   /\ queueAborted'[u] = queueAborted[u]
      BY <1>1
    <2> QED BY <1>1, <2>1, <2>2, <2>3, ReleaseImplements, ReleasingStep
  <1>3. CASE ~slotHeld[t]
    <2>1. pc' = [pc EXCEPT ![t] = "exited"] /\ UNCHANGED availableSlots
      BY <1>3 DEF Finish
    <2>2. Holders' = Holders
      BY <1>1, <1>3, <2>1 DEF Holders
    <2> QED BY <1>1, <2>1, <2>2, NothingHeldChanges DEF SemaphoreStep
  <1> QED BY <1>2, <1>3

\* A waiter woken by an abort holds nothing before and nothing after.
LEMMA AbortImplements ==
  ASSUME ~TaskTimeout, Core, NEW t \in Task, NEW i \in EntriesOf(t), AbortQueuedWaiter(t, i),
         UNCHANGED <<maxConcurrent, availableSlots, slotHeld>>
  PROVE  SemaphoreStep
  <1>1. /\ pc[t] = "waiting" /\ pc'[t] = "woken"
        /\ \A u \in Task : u # t => pc'[u] = pc[u]
        /\ queueAborted' = [queueAborted EXCEPT ![t] = TRUE]
        /\ queueAborted \in [Task -> BOOLEAN]
    <2>1. queueAborted \in [Task -> BOOLEAN]
      BY DEF Core, TypeOK
    <2> QED BY <2>1, AbortFacts, NobodyLeft
  <1>2. Holders' = Holders
    BY <1>1 DEF Holders
  <1> QED BY <1>2, NothingHeldChanges DEF SemaphoreStep

\* A raise creates slots; the first waiters get theirs at once.
LEMMA SetMaxConcurrentImplements ==
  ASSUME ~TaskTimeout, Core, NEW n \in Int, SetMaxConcurrent(n)
  PROVE  SemaphoreStep
  <1> DEFINE raise == IF Clamp(n) > maxConcurrent THEN Clamp(n) - maxConcurrent ELSE 0
             wakes == Least(raise, Len(priorityQueue))
             woken == {priorityQueue[i].task : i \in 1..wakes}
  <1>1. /\ maxConcurrent' = Clamp(n)
        /\ pc' = SetEvents(pc, woken)
        /\ availableSlots' = availableSlots + (raise - wakes)
        /\ UNCHANGED <<queueAborted, slotHeld>>
    BY DEF SetMaxConcurrent
  <1>2. Clamp(n) \in 1..LimitCeiling /\ maxConcurrent \in Nat
    BY SlotsAssumption DEF Clamp, Core, TypeOK
  <1>3. raise \in Nat /\ wakes \in 0..Len(priorityQueue) /\ wakes <= raise
    <2>1. Len(priorityQueue) \in Nat
      BY EntryFacts DEF Core, QueueMatches
    <2> QED BY <1>2, <2>1 DEF Least
  <1>4. Semaphore!Raise(Clamp(n)) = raise
    BY DEF Semaphore!Raise
  <1> HIDE DEF raise, wakes
  <1>5. ASSUME NEW i \in 1..wakes
        PROVE  /\ i \in DOMAIN priorityQueue
               /\ priorityQueue[i].task \in Task
               /\ pc[priorityQueue[i].task] = "waiting"
    <2>1. i \in DOMAIN priorityQueue /\ priorityQueue[i] \in Entry
      BY <1>3, EntryFacts DEF Core, QueueMatches
    <2>2. priorityQueue[i].task \in Task
      BY <2>1 DEF Entry
    <2>3. priorityQueue[i].task \in TasksIn(priorityQueue)
      BY <2>1 DEF TasksIn
    <2> QED BY <2>1, <2>2, <2>3, NobodyLeft
  <1>6. /\ woken \subseteq Task
        /\ \A t \in woken : pc[t] = "waiting" /\ t \notin Holders /\ ~queueAborted[t]
    BY <1>5, NobodyLeft DEF Holders
  <1>7. IsFiniteSet(woken) /\ Cardinality(woken) = wakes
    <2> DEFINE g == [i \in 1..wakes |-> priorityQueue[i].task]
    <2>1. g \in Bijection(1..wakes, woken)
      <3>1. g \in Surjection(1..wakes, woken)
        BY DEF Surjection
      <3>2. \A i, j \in 1..wakes : g[i] = g[j] => i = j
        BY <1>5 DEF Core, QueueMatches, Distinct
      <3>3. g \in Injection(1..wakes, woken)
        BY <3>1, <3>2 DEF Injection, IsInjective, Surjection
      <3> QED BY <3>1, <3>3 DEF Bijection
    <2>2. wakes \in Nat
      BY <1>3
    <2>3. ExistsBijection(1..wakes, woken)
      BY <2>1 DEF ExistsBijection
    <2> HIDE DEF woken
    <2> QED BY <2>2, <2>3, FS_CountingElements, FS_NatBijection
  <1> HIDE DEF woken
  <1>8. Holders' = Holders \cup woken
    <2>1. \A t \in Task : pc'[t] = IF t \in woken /\ pc[t] = "waiting"
                                  THEN "woken" ELSE pc[t]
      BY <1>1, SetEventsFacts DEF Core, TypeOK
    <2>2. \A t \in Task : t \in Holders' <=> t \in Holders \/ t \in woken
      BY <1>1, <1>6, <2>1 DEF Holders
    <2>3. Holders' \subseteq Task /\ Holders \subseteq Task
      BY DEF Holders
    <2> QED BY <1>6, <2>2, <2>3
  <1>9. Cardinality(Holders') = Cardinality(Holders) + wakes
    <2>1. Holders \cap woken = {}
      BY <1>6
    <2>2. Cardinality(Holders \cup woken) =
            Cardinality(Holders) + Cardinality(woken) - Cardinality(Holders \cap woken)
      BY <1>7, HoldersFinite, FS_Union
    <2>3. Cardinality(Holders \cap woken) = 0
      BY <2>1, FS_EmptySet
    <2>4. Cardinality(Holders) \in Nat /\ wakes \in Int
      BY <1>3, HoldersFinite
    <2>5. Cardinality(Holders \cup woken) = Cardinality(Holders) + wakes
      BY <1>7, <2>2, <2>3, <2>4
    <2> QED BY <1>8, <2>5
  <1>10. SlotsInExistence' = SlotsInExistence + raise
    <2>1. availableSlots \in Nat /\ Cardinality(Holders) \in Nat /\ wakes \in Nat
      BY <1>3, HoldersFinite DEF Core, TypeOK
    <2> QED BY <1>1, <1>3, <1>9, <2>1 DEF SlotsInExistence
  <1>11. Semaphore!SetLimit(Clamp(n))
    <2>1. woken \in SUBSET (Task \ Holders)
      BY <1>6
    <2>2. Cardinality(woken) <= Semaphore!Raise(Clamp(n))
      BY <1>3, <1>4, <1>7
    <2>3. SlotsInExistence' = SlotsInExistence + Semaphore!Raise(Clamp(n))
      BY <1>4, <1>10
    <2> QED BY <1>1, <1>8, <2>1, <2>2, <2>3, SameCardinality DEF Semaphore!SetLimit
  <1> QED BY <1>2, <1>11 DEF SemaphoreStep, Semaphore!Next

\* The reload of a record can only make a waiter believe it holds a slot.
LEMMA OtherRunnerStartsAdds ==
  ASSUME Core, NEW t \in Task, OtherRunnerStarts(t)
  PROVE  /\ UNCHANGED maxConcurrent
         /\ SlotsInExistence' >= SlotsInExistence
  <1>1. /\ queueAborted' = [queueAborted EXCEPT ![t] = FALSE]
        /\ UNCHANGED <<maxConcurrent, availableSlots, pc, slotHeld>>
        /\ queueAborted \in [Task -> BOOLEAN]
    BY DEF OtherRunnerStarts, Core, TypeOK
  <1>2. Holders \subseteq Holders'
    BY <1>1 DEF Holders
  <1>3. Holders' \subseteq Task
    BY DEF Holders
  <1>4. IsFiniteSet(Holders') /\ Cardinality(Holders') \in Nat
    BY <1>3, SlotsAssumption, FS_Subset, FS_CardinalityType
  <1>5. Cardinality(Holders) <= Cardinality(Holders')
    BY <1>2, <1>4, FS_Subset
  <1> QED BY <1>1, <1>4, <1>5, HoldersFinite DEF SlotsInExistence, Core, TypeOK

LEMMA StepImplements ==
  ASSUME ~TaskTimeout, Core, [Next]_vars
  PROVE  SemaphoreStep \/ \E t \in Task : OtherRunnerStarts(t)
  <1>1. ASSUME NEW t \in Task, Runner(t) PROVE SemaphoreStep
    BY <1>1, AcquireSlotImplements, WakeImplements, FinishImplements DEF Runner
  <1>2. ASSUME NEW t \in Task, TimeOut(t) PROVE SemaphoreStep
    BY <1>2 DEF TimeOut, Core
  <1>3. ASSUME UNCHANGED <<maxConcurrent, availableSlots, queueAborted, pc, slotHeld>>
        PROVE  SemaphoreStep
    <2>1. Holders' = Holders
      BY <1>3 DEF Holders
    <2> QED BY <1>3, <2>1, NothingHeldChanges DEF SemaphoreStep
  <1>4. ASSUME NEW t \in Task, Control(t), ~OtherRunnerStarts(t) PROVE SemaphoreStep
    <2>1. CASE StartTask(t) \/ LaunchScheduledTask(t)
      <3>1. /\ pc[t] = "idle" /\ pc' = [pc EXCEPT ![t] = "created"]
            /\ UNCHANGED <<maxConcurrent, availableSlots, queueAborted, slotHeld>>
            /\ pc \in [Task -> Place]
        BY <2>1 DEF StartTask, LaunchScheduledTask, Launch, Core, TypeOK
      <3>2. Holders' = Holders
        BY <3>1 DEF Holders
      <3> QED BY <3>1, <3>2, NothingHeldChanges DEF SemaphoreStep
    <2>2. CASE CancelQueuedTask(t)
      BY <2>2, AbortImplements DEF CancelQueuedTask
    <2>3. CASE EndScheduleOfQueued(t)
      BY <1>3, <2>3, AbortImplements DEF EndScheduleOfQueued
    <2>4. CASE CancelTask(t) \/ PauseTask(t) \/ ResumeTask(t) \/ OtherRunnerEnds(t)
      BY <1>3, <2>4 DEF CancelTask, PauseTask, ResumeTask, OtherRunnerEnds, SetStatus
    <2>5. CASE \E p \in Priority : SetTaskPriority(t, p)
      BY <1>3, <2>5 DEF SetTaskPriority
    <2> QED BY <1>4, <2>1, <2>2, <2>3, <2>4, <2>5 DEF Control
  <1>5. ASSUME NEW n \in Int, SetMaxConcurrent(n) PROVE SemaphoreStep
    BY <1>5, SetMaxConcurrentImplements
  <1>6. CASE UNCHANGED vars
    BY <1>3, <1>6 DEF vars
  <1> QED BY <1>1, <1>2, <1>4, <1>5, <1>6 DEF Next

LEMMA InitImplements == Init => Semaphore!Init
  <1> SUFFICES ASSUME Init PROVE Semaphore!Init
    OBVIOUS
  <1>1. Holders = {}
    BY DEF Init, Holders
  <1>2. Cardinality(Holders) = 0
    BY <1>1, FS_EmptySet
  <1>3. SlotsInExistence = InitialLimit
    BY <1>2, SlotsAssumption DEF Init, SlotsInExistence
  <1> QED BY <1>1, <1>3 DEF Init, Semaphore!Init

----------------------------------------------------------------------------
(* While a task runs only in its start_workflow coroutine and no           *)
(* whole-task timeout is set, every behaviour of the limiter is one of the *)
(* semaphore: aborts, late wake-ups, cancelled and paused waiters neither  *)
(* create nor destroy a slot, resizing creates as many as it raises.       *)
THEOREM LimiterIsASemaphore ==
  ASSUME ~TaskTimeout, ~OtherRunners
  PROVE  Spec => ImplementsSemaphore
  <1>1. Core /\ [Next]_vars => Core'
    BY CoreStep
  <1>2. Core /\ [Next]_vars => [Semaphore!Next]_(Semaphore!semaphoreVars)
    BY StepImplements DEF OtherRunnerStarts, SemaphoreStep
  <1> QED BY <1>1, <1>2, CoreInit, InitImplements, PTL
          DEF Spec, ImplementsSemaphore, Semaphore!Spec

(* Without the whole-task timeout no slot is ever lost, even when other    *)
(* runners reload the records of tasks that wait: there are always at      *)
(* least as many slots, free or held, as the configured limit.             *)
THEOREM NoSlotIsLost ==
  ASSUME ~TaskTimeout
  PROVE  Spec => []NoSlotLost
  <1>1. Core /\ [Next]_vars => Core'
    BY CoreStep
  <1>2. Init => NoSlotLost
    <2>1. Init => SlotsInExistence = InitialLimit /\ maxConcurrent = InitialLimit
      BY InitImplements DEF Semaphore!Init
    <2> QED BY <2>1, SlotsAssumption DEF NoSlotLost
  <1>3. ASSUME Core, NoSlotLost, [Next]_vars PROVE NoSlotLost'
    <2>1. /\ SlotsInExistence \in Nat /\ maxConcurrent \in Nat
          /\ SlotsInExistence' \in Nat
      <3>1. SlotsInExistence \in Nat /\ maxConcurrent \in Nat
        BY <1>3, HoldersFinite, SlotsAssumption DEF SlotsInExistence, Core, TypeOK
      <3>2. availableSlots' \in Nat
        BY <1>3, CoreStep DEF Core, TypeOK
      <3>3. Holders' \subseteq Task
        BY DEF Holders
      <3>4. Cardinality(Holders') \in Nat
        BY <3>3, SlotsAssumption, FS_Subset, FS_CardinalityType
      <3> QED BY <3>1, <3>2, <3>4 DEF SlotsInExistence
    <2>2. CASE \E t \in Task : OtherRunnerStarts(t)
      <3>1. UNCHANGED maxConcurrent /\ SlotsInExistence' >= SlotsInExistence
        BY <1>3, <2>2, OtherRunnerStartsAdds
      <3> QED BY <1>3, <2>1, <3>1 DEF NoSlotLost
    <2>3. CASE SemaphoreStep
      <3>1. CASE UNCHANGED <<maxConcurrent, SlotsInExistence>>
        BY <1>3, <3>1 DEF NoSlotLost
      <3>2. CASE \E n \in 1..LimitCeiling : Semaphore!SetLimit(n)
        <4>1. PICK n \in 1..LimitCeiling : Semaphore!SetLimit(n)
          BY <3>2
        <4>2. maxConcurrent' = n
              /\ SlotsInExistence' =
                   SlotsInExistence + (IF n > maxConcurrent THEN n - maxConcurrent ELSE 0)
          BY <4>1 DEF Semaphore!SetLimit, Semaphore!Raise
        <4> QED BY <1>3, <2>1, <4>2, SlotsAssumption DEF NoSlotLost
      <3> QED BY <2>3, <3>1, <3>2
              DEF SemaphoreStep, Semaphore!semaphoreVars, Semaphore!Next,
                  Semaphore!Acquire, Semaphore!Release, Semaphore!HandOver
    <2> QED BY <1>3, <2>2, <2>3, StepImplements
  <1> QED BY <1>1, <1>2, <1>3, CoreInit, PTL DEF Spec
============================================================================
