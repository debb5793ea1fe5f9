CONSTANTS
  Providers = {"anthropic", "google"}
  Run = {r1, r2}
  Tool = {"read", "write"}
  ReadOnly = {"read"}
  Contexts = {{"read", "write"}}
  Selections = {{}, {"read"}, {"read", "write"}}
  WritesOf <- MCWritesOf
  MaxTurns = 3
  MaxCalls = 3
  MaxAbandoned = 0
SPECIFICATION FairSpec
INVARIANTS TypeOK HistoryPaired ProposalComplete EventsDelivered NudgeRules
PROPERTY ResponseEnds
\* the runs end
CHECK_DEADLOCK FALSE
