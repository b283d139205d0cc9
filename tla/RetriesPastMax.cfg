SPECIFICATION MCSpec
CONSTANTS
  Draft <- OneRevision
  Consumer = {c1, c2}
  NoConsumer = none
  MaxAttempts = 3
  LeaseTime = 2
  MaxClock = 6
  MaxClaims = 4
  Precedes <- Less
  Message = {1}
  Leases = {1}
  SqlAttempts = 3
CHECK_DEADLOCK FALSE
INVARIANT DeadAfterMaxAttempts
