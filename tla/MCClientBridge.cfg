SPECIFICATION Spec
CONSTANTS
    MaxTg = 2
    MaxDc = 2
    MaxEvent = 3
    Album = 2
    SuppressMax = 0
    Faults = {"crash", "lost", "late", "refused", "stuck", "unroutable"}
    MaxFaults = 1
CHECK_DEADLOCK FALSE
INVARIANTS TypeOK OneCopy IdleAgreement
PROPERTIES LastSibling UserDeletionKept EditsInOrder
