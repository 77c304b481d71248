CONSTANTS
    INIT_RTO = 2
    MIN_RTO = 1
    MAX_RTO = 4
    Cap = 3
    MaxNow = 10
    MaxWritten = 4
    DEFAULT_WINDOW = 6
    MAX_STREAM_CHUNK = 4
    INIT_CWND = 4
    CLOSE_GRACE_TICKS = 1
    Source <- EightBytes
    Wide = 15
    Narrow = 10
    WireFrames <- FrameSet
    MaxFrames = 3
    MaxPlaintext = 12
    Messages <- MessageSet
    Requests <- RequestSet
    SomeBytes <- ByteSet
    MaxBytes = 4
    Scripts <- ScriptSet
    Ipv6Length = 2
    MAX_NEGOTIATION_BYTES = 17
SPECIFICATION Spec
INVARIANTS
    ClockExact
    BytesExact
    WireExact
    SocksExact
PROPERTIES
    AgreesWithStream
\* The clock is bounded, everything has been read, the negotiation is over.
CHECK_DEADLOCK FALSE
