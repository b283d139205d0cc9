CONSTANTS
    Session = {s1, s2, s3}
    Worker = {w1, w2}
    SessionCap = 2
    TitanCap = 7
    NovaCap = 1
SPECIFICATION Spec
SYMMETRY WorkersAndSessions
INVARIANTS
    SpendingWithinCaps
