SPECIFICATION MCSpec
CONSTANTS
    Buffers = {b1, b2}
    None = None
    MaxFrames = 5
    Engine = {"H264", "H265"}
    Library = {"H264", "AV1", "VP8"}
    Breakable = {"engine", "library"}
    MaxTurns = 2
    MaxRequests = 2
    MaxStarts = 1
    MaxPanics = 1
    MaxReshapes = 2
    Resends = 1
    Loops = {"shm", "undamaged", "dri3", "compositor", "host"}
    Slack = 1
    \* Four loops have two rates and come late by two, the host's one and by one.
    Rates = {4, 6}
    HostRates = {4}
    Late = 2
    HostLate = 1
    \* A build whose AV1 is software's, and a node of H.264 and H.265; its zero-copy
    \* sessions are H.265's.
    X11Codec = "AV1"
    X11Threshold = 3
    WaylandCodec = "H265"
    WaylandThreshold = 2
INVARIANTS
    Types
    BuffersConserved
    RecoveryEnds
    PaceHolds
    ChangeIsShown
PROPERTIES
    KeyArmed
    KeyServed
    NoWakeupLost
    ImplementsHandoff
\* A torn down capture stops, and the bounds end the rest.
CHECK_DEADLOCK FALSE
