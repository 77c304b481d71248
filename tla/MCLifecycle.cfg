CONSTANTS
    c1 = c1
    c2 = c2
    alice = alice
    bob = bob
    Clients = {c1, c2}
    Keys = {alice, bob}
    KeyMaps <- OneKeyOrTwo
    WantsShell = {c1, c2}
    Authorized = {alice, bob}
    MAX_PENDING_HANDSHAKES = 1
    EXIT_RETRANSMIT_TICKS = 2
    IDLE_REAP_TICKS = 2
    OPEN_SHELL_MAX_TICKS = 1
    MaxHandshakers = 2
    MaxPtys = 2
SPECIFICATION FairSpec
INVARIANTS
    ShellsOwned
    HandshakeNotSpoilt
PROPERTIES
    GoneIsReclaimed
CHECK_DEADLOCK FALSE
