CONSTANTS
  Replicas = {p, q}
  DefaultEvents <- MCEvents
  Requests <- MCRequests
  MaxRegistrations = 2
  MaxFires = 1
  MaxFaults = 1
SPECIFICATION FairSpec
INVARIANT
  WebhooksInvariant
PROPERTIES
  SendsAreWanted
  FireSettles
CHECK_DEADLOCK FALSE
