\* Three tasks of two priorities; the whole-task timeout may strike while they
\* wait, and clients resume and re-run tasks that wait.
CONSTANTS
  Task = {t1, t2, t3}
  Priority = {1, 2}
  InitialLimit = 1
  LimitCeiling = 2
  SlotBound = 2
  TaskTimeout = TRUE
  OtherRunners = TRUE
SYMMETRY TaskSymmetry
SPECIFICATION MCSpec
INVARIANTS
  EveryWaiterQueued
  NoIdleSlot
PROPERTY
  HandOverInOrder
