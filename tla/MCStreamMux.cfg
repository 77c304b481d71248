CONSTANTS
    DEFAULT_WINDOW = 2
    MAX_STREAM_CHUNK = 1
    INIT_CWND = 1
    CLOSE_GRACE_TICKS = 2
    Uses <- FourUses
SPECIFICATION Spec
INVARIANTS
    BuffersExact
    RoundTripProgresses
PROPERTIES
    NeverReborn
    ImplementsPipe
\* A stream both ends have reclaimed is at rest.
CHECK_DEADLOCK FALSE
