CONSTANTS
  Providers = {"anthropic"}
  Run = {r1, r2}
  Tool = {"read", "write"}
  ReadOnly = {"read"}
  Contexts = {{"read", "write"}}
  Selections = {{}, {"read"}, {"read", "write"}}
  WritesOf <- MCWritesOf
  MaxTurns = 2
  MaxCalls = 1
  MaxAbandoned = 1
SPECIFICATION Spec
INVARIANT HistoryPaired
\* the runs end
CHECK_DEADLOCK FALSE
