SPECIFICATION MCSpec
CONSTANTS
    IdMod = 16
    AnchorCount = 1
    Lends = FALSE
    FrameNumRange = 4
    AnchorEvery = 2
    AnchorAloneEvery = 3
    SettleSlack = 1
    SettleRecent = 1
    PendingPeriods = 2
    HoldLag = 2
    HoldMax = 6
    RecentFrames = 5
    NoFrame = NoFrame
    Buffers = {3}
    Reports = {"Lost", "Held", "Sent"}
    FirstCount = 13
    MaxFrames = 6
    MaxEvents = 3
    Bands = {1, 2}
    SmallBands = 1
    Caret = {1}
    Threshold = 2
    Duration = 3
    Trigger = 1
    Burst = 1
    MaxMoves = 1
    MaxBothers = 1
INVARIANTS
    Types
    NoPredictionThroughLoss
    SlotsPredictPastLoss
    RecentAgrees
    WithinBuffers
    RepeatedReports
    ChangeLands
PROPERTIES
    PinnedStays
    PredictsFromKept
    SettlesClean
\* The bounds end every behaviour.
CHECK_DEADLOCK FALSE
