CONSTANTS
    SEND_CAP = 2
    CLOSE_GRACE_TICKS = 2
    WINDOW = 1
    PipeRoom = 1
    Uses <- Commands
    Codes = {3}
SPECIFICATION FairSpec
INVARIANTS
    OutcomeExact
    StdinContiguous
PROPERTIES
    RunExecReturns
\* run_exec has returned.
CHECK_DEADLOCK FALSE
