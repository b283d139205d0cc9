SPECIFICATION MCSpec
CONSTANTS
    Process = {p1, p2, p3}
    CarefulOperator = TRUE
    MaxTokens = 6
    Operator = {o1, o2}
    AcceptsRoutines = FALSE
    Prober = {o1, o2}
    Nonce = {n1}
    Contenders = 2
    MaxOrphans = 2
    MaxVisitors = 1
    Creator = {w1, w2, w3}
    Nobody = Nobody
    Finalizer = {w1, w2}
    MaxEdits = 2
    Recorder = {w1, w2}
    Auditor = {v1}
    Budget = 12
    Share = 3
    MaxItems = 2
    MaxVersion = 2
    Code = {1, 2, 3}
    Time = {0, 1}
SYMMETRY Alike
INVARIANTS
    MutualExclusion
    PackInv
    LiveMigrationInv
    CleanedStaysClean
    EvidenceIsTrue
    PassedIsReviewed
    MessagesMeanOneThing
    ReceiptsAreWhole
PROPERTIES
    RemovesOnlyItsOwn
CHECK_DEADLOCK FALSE
