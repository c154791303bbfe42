SPECIFICATION ChainSpec
CONSTANTS
    N = 3
    FallbackOn <- MCFallbackOn
    MaxChunks = 3
INVARIANTS
    SingleSource
    FailoverJustified
    Decided
