CONSTANTS
    MaxEvent = 2
    Acts = {2}
    FilesOf <- MCTwoFiles
    Faults = {"crash", "flood", "poison", "lost", "disk"}
    MaxFaults = 2
SPECIFICATION LiveSpec
INVARIANTS
    TypeOK
    NoSilentLoss
    ReportSound
    AppliedOnce
    ReportsInOrder
CHECK_DEADLOCK FALSE
PROPERTIES WorkerDrains QueueDrains
