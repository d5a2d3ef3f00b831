SPECIFICATION Spec
CONSTANTS
    MaxTg = 2
    MaxDc = 2
    MaxRequest = 1
    MaxStimuli = 4
    Album = 2
    SuppressMax = 0
    Faults = {}
    MaxFaults = 0
CHECK_DEADLOCK FALSE
INVARIANT EditedInPlace
