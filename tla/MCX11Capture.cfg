\* Three setters of the controls; and a server that may restart, an encoder that
\* may panic, surfaces that may be refused, and the root and the region changing
\* under the capture.
SPECIFICATION MCSpec
CONSTANTS
    Compositor = compositor
    Callers = {python1, python2}
    MaxUpdates = 2
    PoolSize = 3
    Sizes = {1, 2}
    Regions = {0, 2}
    GrabFailures = 1
    Attempts = 1
    Streak = 2
    Faults = {"Shm", "Panic", "Server"}
    MaxChanges = 2
INVARIANTS
    Types
    UpdatesSettle
    ReadsLive
    SurfacesConserved
    ShrinkIsFollowed
PROPERTY
    StreamsOrEnds
\* The bounds end every behaviour of the controls.
CHECK_DEADLOCK FALSE
