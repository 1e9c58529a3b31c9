\* Manual mode, a step without executor at the end; a reviewer may also
\* accept, refuse or retry a result.
CONSTANTS
  NumSteps = 4
  Human = {2}
  SystemCheck = {4}
  Mode = "manual"
  Conditional = {}
  OnPass <- SupervisedRoute
  OnFail <- FallBack
  MaxRetries <- Retries
  MaxLoop = 7
  TokenBudget = FALSE
  Calls = {"pause"}
  RetryBound = 2
SPECIFICATION MCFairSpec
INVARIANT
  GivenUpAfterAttempt
PROPERTY
  RunEnds
CHECK_DEADLOCK FALSE
