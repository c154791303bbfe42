SPECIFICATION Spec
CONSTANTS
    k1 = k1
    k2 = k2
    Keys <- MCKeys
    MaxRequests = 3
    MaxSessions = 3
SYMMETRY Symmetric
INVARIANTS
    Deterministic
    FileGrows
