CONSTANTS
    m1 = m1
    r1 = r1
    r2 = r2
    e1 = e1
    d1 = d1
    NoUnit = NoUnit
    Unit = {m1, r1, r2, e1}
    KindOf <- MCKind
    DepOf <- MCDep
    WithFiles = {r1}
    MaxEvent = 4
    Album = 1
SPECIFICATION LiveUpSpec
PROPERTIES
    ReplySettles
