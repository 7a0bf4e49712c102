\* A full queue of two, and no other fault.
SPECIFICATION Spec
CONSTANTS
    Capacity = 2
    MaxFaults = 2
    MaxStops = 0
INVARIANT NoSmear
CHECK_DEADLOCK FALSE
