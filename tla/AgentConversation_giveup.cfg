CONSTANTS
  Req = {r1, r2, r3, r4}
  Action = {a1, a2}
  None = None
  Faults = {"giveup"}
  MaxFaults = 1
SPECIFICATION Spec
SYMMETRY Symmetry
INVARIANT DiscardedWasNotRun
\* the requests run out
CHECK_DEADLOCK FALSE
