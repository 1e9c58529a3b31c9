\* Rates of one and two requests in a window, a burst of one.
SPECIFICATION LimitsSpec
CONSTANTS
  Clients = {c1, c2}
  Endpoints = {"login"}
  NoEndpoint = "other"
  Rates = {1, 2}
  MaxRate = 2
  EndpointLimit <- MCEndpointLimit
  Window = 4
  EndpointWindow = 2
  Burst = 1
  Minute = 4
  CleanupEvery = 2
  MaxIdle = 2
  MaxTime = 4
  MaxRebuilds = 1
  MaxPassed = 4
SYMMETRY AnyClient
INVARIANTS
  LimitsInvariant
  SharesKept
PROPERTY
  RefusedOnlyWhenUsedUp
CHECK_DEADLOCK FALSE
