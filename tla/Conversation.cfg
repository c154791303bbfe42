\* Two replies, the second of which may answer the results of the first, and
\* a third request that carries both.  The conversation may end.
SPECIFICATION TalkSpec
CONSTANTS
    Providers <- MCProviders
    MaxReplies = 2
    MaxMessages = 7
    MaxPoints = 1
CHECK_DEADLOCK FALSE
INVARIANTS
    ResultsFollowCalls
    PartsReplayed
    PointsOnWire
