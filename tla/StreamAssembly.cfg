\* Enough events to open two calls, interleave their arguments and close the
\* answer.  The stream ends.
SPECIFICATION Spec
CONSTANTS
    MaxEvents <- MCMaxEvents
    MaxCalls = 2
CHECK_DEADLOCK FALSE
INVARIANTS
    NothingInvented
    StreamAgrees
    MetadataAgrees
