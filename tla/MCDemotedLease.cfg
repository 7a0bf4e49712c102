\* A capture that is demoted over a frame in flight.
SPECIFICATION Spec
CONSTANTS
    MaxCaptures = 2
    MaxFrames = 2
    MaxHosts = 2
INVARIANT FramesAreLent
\* Captures and frames are bounded.
CHECK_DEADLOCK FALSE
