SPECIFICATION MCSpec
CONSTANTS
    Clients = {c1, c2}
    QueueCap = 2
    MaxFrames = 5
    Callers = {python, exit}
    PacketCap = 1
    MaxRecordings = 2
    MaxOffered = 3
    MaxCaptures = 2
    MaxPublished = 2
    MaxHosts = 2
    Depth = 2
    MaxFaults = 3
    MaxStops = 1
    RingSlots = 2
    MaxPictures = 4
    Numbers = {1, 2, 3}
INVARIANTS
    Types
    BarrierQuiet
    LentUntilDemoted
    KeyIsOwed
    SkippedIsNotShown
    ReadersAreServed
PROPERTIES
    PythonInOrder
    AllEnds
    NoGap
    CameraResumes
\* Captures, recordings and frames are bounded, and so is every run of them.
CHECK_DEADLOCK FALSE
