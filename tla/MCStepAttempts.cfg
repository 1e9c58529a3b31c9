\* Two attempts, two rounds with the model, two tries of a request, one tool
\* call; the provider is replaced once and another task uses it once.
SPECIFICATION FairSpec
CONSTANTS
  Nodes <- MCNodes
  MaxAttempts = 2
  MaxIterations = 2
  MaxTries = 2
  MaxToolCalls = 1
  MaxCalls = 2
  MaxReloads = 1
  MaxOthers = 1
INVARIANTS
  AttemptsInvariant
  SuccessIsEarned
  SpendingIsCounted
PROPERTY
  StepSettles
CHECK_DEADLOCK FALSE
