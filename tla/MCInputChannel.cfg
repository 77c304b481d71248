\* The PTY queue fills up, frames of one and two bytes overlap, and a suffix of three
\* bytes is larger than a datagram.
CONSTANTS
    Bytes = {x, y}
    MaxTyped = 3
    MaxDatagram = 2
    PtyCapacity = 2
SPECIFICATION FairSpec
INVARIANTS
    ExactStream
PROPERTIES
    ImplementsStream
    BufferDrains
\* Typing is bounded, so the system stops when all of it is acknowledged.
CHECK_DEADLOCK FALSE
