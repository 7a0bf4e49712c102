\* One capture restarted once is enough.
SPECIFICATION Spec
CONSTANTS
    MaxCaptures = 2
    MaxFrames = 2
    MaxHosts = 2
INVARIANT SocketStands
\* Captures and frames are bounded.
CHECK_DEADLOCK FALSE
