SPECIFICATION FairSpec
CONSTANTS
    Users = {u1, u2}
    NoUser = NoUser
    Known = {}
    Zones = {"Asia/Tokyo", "UTC"}
    Default = "Asia/Tokyo"
    OldZones <- MCZones
    Stops <- MCStops
    Visits = {"settings"}
    MaxTokens = 2
    MaxTimers = 1
    MaxChoices = 1
    MaxCalls = 1
    MaxTroubles = 1
INVARIANTS
    TypeOK
    ShownIsTheirs
PROPERTIES
    SessionEndsForCause
    WaitingEnds
CHECK_DEADLOCK FALSE
