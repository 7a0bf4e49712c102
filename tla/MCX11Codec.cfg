SPECIFICATION Spec
CONSTANTS
    Engine = {"H264", "H265"}
    Library = {"H264", "VP8"}
    Requested = "AV1"
    Threshold = 3
    Resends = 1
    Breakable = {}
    MaxTurns = 0
    MaxRequests = 0
    MaxReshapes = 1
INVARIANT CodecIsEmitted
