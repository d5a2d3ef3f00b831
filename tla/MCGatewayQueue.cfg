SPECIFICATION LiveSpec
CONSTANTS
    MaxEvent = 2
    f1 = f1
    h1 = h1
    h2 = h2
    File = {f1}
    NoFile = NoFile
    Handler = {h1, h2}
    NoHandler = NoHandler
    RequireAck = TRUE
    PollLimit = 1
    AckLimit = 1
    MaxFaults = 1
CHECK_DEADLOCK FALSE
INVARIANTS TypeOK QueuedCoherent
PROPERTIES ImplementsDelivery HeldUntilAsked NoLeftover QueueDrains FilesGo
