\* Two sessions that live for two ticks, two passwords, two changes of
\* config.json, one restart or failure of redis.
SPECIFICATION Spec
CONSTANTS
  Tokens = {1, 2}
  Passwords = {x, y}
  Rates = {slow, quick}
  Lifetime = 2
  Backend = "redis"
  Environments <- MCEnvironments
  MaxTime = 2
  MaxWrites = 2
  MaxFaults = 1
SYMMETRY PasswordsAndRates
INVARIANTS
  SessionsInvariant
  EndedStaysEnded
  LiveIsAccepted
  PasswordsAreAcknowledged
CHECK_DEADLOCK FALSE
