SPECIFICATION FairSpec
CONSTANTS
    ErrorStatus <- MCErrorStatus
    Hints <- MCHints
    RetryChoices <- MCRetryChoices
    BackoffBase = 1
    MaxBackoff = 3
    TimeoutSet = TRUE
INVARIANTS
    FallbackLast
    DelayHonoured
    OutcomeJustified
PROPERTIES
    CallEnds
    ImplementsContract
