CONSTANTS
    Runs = {r1, r2}
    Hosts <- OneHost
    Labels <- FourLabels
    Conventional = 51820
    Ephemeral = {22}
    Invocations <- SixInvocations
    InitialHosts <- PinFiles
    InitialIds <- KeyFiles
    InitialInstalls <- Installs
    MaxRekeys = 1
    Arguments <- Arguments16
    MaxArgs = 3
    ConfigLines <- EightLines
    MaxLines = 4
    Aliases <- ThreeAliases
    GlobChars <- Chars
    MaxGlob = 4
    KEEPALIVE = 6
    STALE_KEEPALIVE = 2
    STALE_AFTER = 4
    STALE_POLL = 2
    SHOW_AFTER = 8
    Rtt = 1
    Keys = {"^", ".", "x"}
    MaxTyped = 3
    MaxRows = 2
    Texts = {"a", "b"}
SPECIFICATION Spec
INVARIANTS
    TrustedServer
    OneIdentity
    InvocationExact
    DetachExact
    BannerTruthful
    PaintExact
PROPERTIES
    PinsKept
    EveryoneEnds
CHECK_DEADLOCK FALSE
