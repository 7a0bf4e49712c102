SPECIFICATION FairSpec
\* The last call ends every behaviour.
CHECK_DEADLOCK FALSE
CONSTANTS
    Callers = {t1, t2}
    MaxCaptures = 2
    MaxCalls = 3
    MaxTimeouts = 1
INVARIANTS TypeOK RunningIsHeld CursorIsPaired IdleIsQuiet
PROPERTY ComesToRest
