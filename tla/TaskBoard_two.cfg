SPECIFICATION Spec
CONSTANTS
    g1 = g1
    g2 = g2
    m1 = m1
    m2 = m2
    t1 = t1
    t2 = t2
    t3 = t3
    n1 = n1
    Goals = {g1, g2}
    Milestones = {m1, m2}
    Tags = {x1}
    Tasks = {t1, t2, t3}
    NoId = NoId
    Standalone = Standalone
    Names = {n1, n2}
    Empty = Empty
    OldRows <- MCRows
    MaxEdits = 1
    MaxRequests = 2
    MaxInFlight = 2
INVARIANTS
    TypeOK
    InputFitsRows
    ShownIsStored
CHECK_DEADLOCK FALSE
