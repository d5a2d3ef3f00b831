CONSTANTS
    MaxEvent = 1
    Acts = {}
    FilesOf <- MCOneFile
    Faults = {}
    MaxFaults = 0
SPECIFICATION Spec
INVARIANTS
    AttachmentsAvailable
CHECK_DEADLOCK FALSE
