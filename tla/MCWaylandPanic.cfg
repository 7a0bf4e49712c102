SPECIFICATION Spec
CONSTANTS
    Engine = {"H264", "H265"}
    Library = {"H264", "VP8"}
    Requested = "H265"
    Threshold = 2
    Breakable = {}
    MaxTurns = 0
    MaxRequests = 1
    MaxStarts = 1
    MaxPanics = 1
INVARIANT LoopOutlivesPanic
