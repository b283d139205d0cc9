CONSTANTS
    Session = {s1}
    Worker = {w1, w2}
    SessionCap = 1
    TitanCap = 6
    NovaCap = 2
SPECIFICATION Spec
SYMMETRY Workers
INVARIANTS
    TypeOK
    ProviderWithinReservation
    MemoryIsConsistent
PROPERTIES
    ReceiptsAreGrounded
    ImplementsLedger
