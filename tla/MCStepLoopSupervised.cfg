\* Supervised mode; clients pause, resume and cancel under the review.
CONSTANTS
  NumSteps = 4
  Human = {2}
  SystemCheck = {}
  Mode = "supervised"
  Conditional = {2}
  OnPass <- SupervisedRoute
  OnFail <- FallBack
  MaxRetries <- Retries
  MaxLoop = 10
  TokenBudget = FALSE
  Calls = {"pause", "cancel"}
  RetryBound = 2
SPECIFICATION MCSpec
INVARIANTS
  WaitingMeansWaiting
  DecisionsAnswerTheirReview
  CompletedReachedTheEnd
PROPERTIES
  StoppedStartsNoStep
CHECK_DEADLOCK FALSE
