CONSTANTS
    Bytes = {x, y}
    MaxTyped = 3
    MaxDatagram = 3
    PtyCapacity = 1
SPECIFICATION Spec
INVARIANTS
    ShellGetsWhatWasTyped
CHECK_DEADLOCK FALSE
