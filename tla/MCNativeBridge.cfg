SPECIFICATION Spec
CONSTANTS
    MaxTg = 3
    MaxDc = 2
    MaxRequest = 2
    MaxStimuli = 4
    Album = 2
    SuppressMax = 0
    Faults = {"crash", "dropped", "telegram", "discord"}
    MaxFaults = 1
CHECK_DEADLOCK FALSE
INVARIANTS TypeOK IdleAgreement DeletionsRelayed
PROPERTIES LastSibling UserDeletionKept
