--------------------------- MODULE SlotSemaphore ---------------------------
(***************************************************************************)
(* What the concurrency limiter of WorkflowService promises: a resizable   *)
(* counting semaphore.  At most `capacity' tasks hold a slot; a slot that  *)
(* is given back is either free again or handed over to one waiter; the    *)
(* capacity changes only when the administrator raises the limit, by the   *)
(* amount of the raise.  Lowering the limit takes no slot away.            *)
(*                                                                         *)
(* Who waits, in which order and why a waiter gives up is left to          *)
(* TaskSlots, which implements this specification.                         *)
(***************************************************************************)
EXTENDS Naturals, FiniteSets

CONSTANTS Task,          \* the tasks that may ask for a slot
          InitialLimit,  \* MAX_CONCURRENT_TASKS at start-up
          LimitCeiling   \* the largest limit an administrator can set

VARIABLES limit,     \* the limit last configured
          capacity,  \* the number of slots that exist, free or held
          holders    \* the tasks that hold one

semaphoreVars == <<limit, capacity, holders>>

Init ==
  /\ limit = InitialLimit
  /\ capacity = InitialLimit
  /\ holders = {}

Acquire(t) ==
  /\ t \notin holders
  /\ Cardinality(holders) < capacity
  /\ holders' = holders \cup {t}
  /\ UNCHANGED <<limit, capacity>>

Release(t) ==
  /\ t \in holders
  /\ holders' = holders \ {t}
  /\ UNCHANGED <<limit, capacity>>

\* The slot of t goes to the waiter u without ever being free.
HandOver(t, u) ==
  /\ t \in holders
  /\ u \notin holders
  /\ holders' = (holders \ {t}) \cup {u}
  /\ UNCHANGED <<limit, capacity>>

Raise(n) == IF n > limit THEN n - limit ELSE 0

\* Raising the limit creates slots, some of which go to waiters at once.
SetLimit(n) ==
  /\ limit' = n
  /\ capacity' = capacity + Raise(n)
  /\ \E woken \in SUBSET (Task \ holders) :
       /\ Cardinality(woken) <= Raise(n)
       /\ holders' = holders \cup woken

Next ==
  \/ \E t \in Task : Acquire(t) \/ Release(t)
  \/ \E t, u \in Task : HandOver(t, u)
  \/ \E n \in 1..LimitCeiling : SetLimit(n)

Spec == Init /\ [][Next]_semaphoreVars
============================================================================
