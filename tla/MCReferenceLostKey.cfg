SPECIFICATION Spec
CONSTANTS
    IdMod = 16
    AnchorCount = 1
    Lends = FALSE
    FrameNumRange = 4
    AnchorEvery = 2
    AnchorAloneEvery = 3
    SettleSlack = 1
    SettleRecent = 1
    PendingPeriods = 2
    HoldLag = 2
    HoldMax = 6
    RecentFrames = 5
    NoFrame = NoFrame
    Buffers = {3}
    Reports = {"Lost", "Held", "Sent"}
    FirstCount = 13
    MaxFrames = 7
    MaxEvents = 3
INVARIANT
    LostKeyIsRepeated
\* The bounds end every behaviour.
CHECK_DEADLOCK FALSE
