CONSTANTS
  Replicas = {p, q}
  Owner = p
  Decisions = {"approve", "reject"}
  RedisBus = TRUE
  SharedStore = TRUE
  MaxRequests = 3
  MaxRestarts = 1
SPECIFICATION FairSpec
INVARIANT
  ReviewInvariant
PROPERTIES
  VerdictIsTaken
  CancelStops
CHECK_DEADLOCK FALSE
