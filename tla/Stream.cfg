SPECIFICATION FairSpec
CONSTANTS
    ErrorStatus <- MCErrorStatus
    Hints <- MCHints
    RetryChoices <- MCRetries
    BackoffBase = 1
    MaxBackoff = 1
    Capped = TRUE
    ServerActs = TRUE
    MaxLines = 3
INVARIANTS
    DeliveredInOrder
    CacheWhole
    HookOrder
    OutcomeJustified
PROPERTIES
    LateCut
    StreamEnds
    ImplementsContract
