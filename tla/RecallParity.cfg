SPECIFICATION Spec
CONSTANTS
    Fact = {1, 2}
    MaxRevision = 3
    Similarity <- Similarities
    MaxTopK = 1
    MaxReceipts = 2
INVARIANTS
    StoresInv
    SameFacts
PROPERTIES
    ImplementsLedger
CHECK_DEADLOCK FALSE
