SPECIFICATION LiveSpec
CONSTANTS
    a = a
    b = b
    Id = {a, b}
    Entered = {a}
    Blank = Blank
    MaxVersion = 2
    MaxScans = 2
    Faults = {"crash", "headers", "rows", "update", "insert", "twice", "moved", "displaced"}
    MaxFaults = 1
CHECK_DEADLOCK FALSE
INVARIANTS TypeOK BufferKept OneRowPerKey UserColumnsKept
PROPERTIES RoutesKept WritesArrive
