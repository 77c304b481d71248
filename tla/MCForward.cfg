CONSTANTS
    SEND_CAP = 2
    FLUSH_STALL_LIMIT = 4
    WINDOW = 1
    SocketRoom = 1
    MaxBytes <- OneUpThreeDown
    Sids = {s1, s2}
    Uses <- ThreeUses
    REMOTE_FORWARD_MAX_TICKS = 3
SPECIFICATION Spec
INVARIANTS
    BothWaysWhole
    DriverExact
PROPERTIES
    DataFlows
    OutputDrainsOrDies
\* A connection both ends have reclaimed is at rest.
CHECK_DEADLOCK FALSE
