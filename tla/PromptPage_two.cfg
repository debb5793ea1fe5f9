SPECIFICATION FairSpec
CONSTANTS
    c1 = c1
    c2 = c2
    be = be
    kind = kind
    brief = brief
    gap = gap
    t1 = t1
    t2 = t2
    Contexts = {c1, c2}
    First = c1
    NoContext = NoContext
    Blank = gap
    Texts <- MCTexts
    Params = {2}
    Better <- Improved
    Tools <- MCTools
    Category <- MCCategory
    SubGroups <- MCSubGroups
    OldRows <- MCRows
    MaxSteps = 5
    MaxEdits = 1
    MaxCommands = 2
    MaxMessages = 2
    MaxInFlight = 1
    MaxTroubles = 1
INVARIANTS
    TypeOK
    PageIsCurrent
    DiffShowsBoth
PROPERTIES
    SavedToItsContext
    VoteComes
CHECK_DEADLOCK FALSE
