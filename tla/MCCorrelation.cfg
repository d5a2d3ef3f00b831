CONSTANTS
    m1 = m1
    r1 = r1
    r2 = r2
    e1 = e1
    d1 = d1
    NoUnit = NoUnit
    Unit = {m1, r1, d1}
    KindOf <- MCKind
    DepOf <- MCDep
    WithFiles = {r1}
    MaxEvent = 4
    Album = 2
SPECIFICATION Spec
INVARIANTS
    TypeOK
    ParkedIffPending
    MapSound
    MappingKept
    TargetSound
    DeletedStaysUnmapped
PROPERTIES
    RelayedOnce
