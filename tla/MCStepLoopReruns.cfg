\* The short route in auto mode with a token budget; clients pause, cancel,
\* retry, resume from and re-run from any step.
CONSTANTS
  NumSteps = 3
  Human = {2}
  SystemCheck = {}
  Mode = "auto"
  Conditional = {}
  OnPass <- ShortRoute
  OnFail <- ShortFallBack
  MaxRetries <- ShortRetries
  MaxLoop = 6
  TokenBudget = TRUE
  Calls = {"pause", "cancel", "retry", "resume", "rerun"}
  RetryBound = 1
SPECIFICATION MCSpec
INVARIANTS
  CompletedStepNotRedone
  DoneMeansSucceeded
CHECK_DEADLOCK FALSE
