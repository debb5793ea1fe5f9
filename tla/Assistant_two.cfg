SPECIFICATION Spec
CONSTANTS
    Today = 6
    None = None
    MaxCalls = 3
    MaxTools = 2
    PastConv = {old}
    Proposals <- MCProposals
    Existing <- MCExisting
    Periods = {week, month}
    Week = week
    NoPeriod = NoPeriod
    MaxRetries = 3
    Blocks = {b1, b2}
    MaxAdvice = 2
    MaxSteps = 5
    MaxMoves = 4
    MaxFlight = 1
INVARIANTS
    TypeOK
    PanelIsOneConversation
    ChoiceIsSeen
    GeneratedIsTrue
CHECK_DEADLOCK FALSE
