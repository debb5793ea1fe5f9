CONSTANTS
  Req = {r1, r2, r3, r4}
  Action = {a1, a2}
  None = None
  Faults = {}
  MaxFaults = 0
SPECIFICATION Spec
SYMMETRY Symmetry
INVARIANT SelectedAreDealtWith
\* the requests run out
CHECK_DEADLOCK FALSE
