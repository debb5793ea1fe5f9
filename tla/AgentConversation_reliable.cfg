CONSTANTS
  Req = {r1, r2, r3, r4, r5}
  Action = {a1, a2}
  None = None
  Faults = {"lostreject", "lapse"}
  MaxFaults = 2
SPECIFICATION Spec
SYMMETRY Symmetry
INVARIANT WritesToldTruly
PROPERTY ImplementsApprovalFlow
\* the requests run out
CHECK_DEADLOCK FALSE
