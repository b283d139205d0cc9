SPECIFICATION MCSpec
CONSTANTS
    Draft <- Revisions
    Consumer = {c1, c2}
    NoConsumer = none
    MaxAttempts = 2
    LeaseTime = 2
    MaxClock = 4
    MaxClaims = 4
    Precedes <- Less
    Message = {1, 2}
    Leases = {1, 2}
    SqlAttempts = 3
SYMMETRY Consumers
INVARIANTS
    OutboxInv
PROPERTIES
    SettledIsFinal
    ImplementsContract
    SqlDelivery
    SqlImplementsContract
CHECK_DEADLOCK FALSE
