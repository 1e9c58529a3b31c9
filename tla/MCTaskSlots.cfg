\* Three tasks of one priority, one slot at start, resizable to two: a queue of
\* length two forms, is aborted, and is drained by releases and by a raise.
CONSTANTS
  Task = {t1, t2, t3}
  Priority = {1}
  InitialLimit = 1
  LimitCeiling = 2
  SlotBound = 3
  TaskTimeout = FALSE
  OtherRunners = FALSE
SPECIFICATION MCFairSpec
INVARIANTS
  SlotsInvariant
  NoSlotLost
PROPERTIES
  ImplementsSemaphore
  EveryWaiterLeaves
