SPECIFICATION FairSpec
CONSTANTS
    Procs = {p1, p2}
    Keys = {k1}
    Values = {v1, v2}
    Faults = TRUE
    MaxCalls = 2
INVARIANTS
    HitIsAnAnswer
    OnlyAnswersStored
    HooksAsEnded
PROPERTIES
    CallsEnd
