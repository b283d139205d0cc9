SPECIFICATION MCSpec
CONSTANTS
    Services = {"s1", "s2"}
    Tuples <- MCTuples
    Intents = {i}
    Authorities <- MCAuthorities
    Times = {1, 2}
    Workloads = {"worker", "cron"}
    ServiceExpiry <- MCExpiries
    MemberExpiry = 3
    IssuedContexts = 2
    MaxChanges = 2
    MaxDepth = 2
    Token <- MCToken
    Credential <- MCCredential
    Grant <- MCGrant
    Service <- MCService
    Presented <- MCPresented
    ServerTime = {1, 3}
    Skew = 1
    MaxVouched = 2
    MaxEpoch = 2
    MaxRevision = 3
    Reader <- MCReader
    Anchor <- MCAnchor
    Event <- MCEvent
    Fixture <- MCFixture
    AnchorRow <- MCAnchorRow
    EventRow <- MCEventRow
    RequestRow <- MCRequestRow
    KeyRow <- MCKeyRow
    MaterialRow <- MCMaterialRow
    RetentionLimit = 2
    Context <- MCContext
    Command <- MCCommand
    MaxScopes = 2
    MaxPerScope = 2
    MaxCalls = 2
INVARIANTS
    IdentifiersUsedOnce
    IssuedWithinBound
    DecidedInOneGeneration
    NeverRevived
    RefusedForGood
    TablesInv
PROPERTIES
    ReadsInScope
    RequestsImplementLog
CHECK_DEADLOCK FALSE
