SPECIFICATION Spec
CONSTANTS
    OffsetBefore = 540
    OffsetAfter = 540
    Switch = 0
    b1 = b1
    b2 = b2
    e1 = e1
    t1 = t1
    Blocks = {b1, b2}
    Entries = {e1}
    Tasks = {t1}
    NoTask = NoTask
    Empty = Empty
    Typed = Typed
    NoId = NoId
    OldRows <- MCRows
    Days = {0}
    Clock = {1420}
    Durations = {30}
    Moments = {20, 1390}
    Pointers = {550, 1437}
    Estimate <- MCEstimate
    Pages = {"daily", "weekly"}
    MaxEdits = 2
    MaxRequests = 3
    MaxInFlight = 2
INVARIANTS
    NameIsTasks
CHECK_DEADLOCK FALSE
