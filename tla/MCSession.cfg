CONSTANTS
    WINDOW = 2
    Addrs = {wifi, lte}
    ServerAddr = srv
    MaxNonce = 4
    MaxRoams = 2
SPECIFICATION Spec
INVARIANTS
    OpensOnlyGenuineOnce
    RoamingSettles
PROPERTIES
    FreshGetsThrough
