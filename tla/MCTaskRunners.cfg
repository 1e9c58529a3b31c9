\* The start coroutine and three others, created at any time.
CONSTANTS
  Runner = {r1, r2, r3, r4}
  First = r1
SYMMETRY RunnerSymmetry
SPECIFICATION Spec
INVARIANTS
  MarkMeansExecuting
  RunningHasRunner
  OneLoopUnlessHasty
CHECK_DEADLOCK FALSE
