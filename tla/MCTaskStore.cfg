CONSTANTS
  Tasks = {a}
  MaxRestarts = 1
  MaxFaults = 1
  CleanerThread = TRUE
SPECIFICATION FairSpec
INVARIANTS
  StoreInvariant
  UnattendedIsKnown
PROPERTIES
  ImplementsRegister
  CancelSticks
  SchedulesAreKept
CHECK_DEADLOCK FALSE
