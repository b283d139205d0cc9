SPECIFICATION MCSpec
CONSTANTS
    Tab = {t1}
    MaxSession = 3
    MaxFault = 2
    OutputLimit = 2
    Transmission = {r1, r2}
    Decision = {d1, d2, d3}
    Lifetime = 2
    Patience = 1
    LastMoment = 3
    Message = {1, 2, 3}
    Commitment = {a}
    Cap = 3
    MaxAttempts = 2
    Lease = 2
    LostAcks = {2}
    Key = {k1, k2}
    Value = {v1, v2}
    Token = {t1, t2, t3}
    NoRevision = none
    StateRows = 3
    MaxResets = 1
INVARIANTS
    NobodyRunsOn
    OneDecisionPerEgress
    QueueInv
PROPERTIES
    PageFinishes
    RequestAnswered
    OnlyItsHolderSettles
    MessagesSettle
CHECK_DEADLOCK FALSE
