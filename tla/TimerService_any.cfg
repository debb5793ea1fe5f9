CONSTANTS
  Req = {r1, r2, r3, r4}
  None = None
  MaxRenames = 1
SPECIFICATION Spec
INVARIANT TimeKept
PROPERTY OnlyStopEnds
\* the requests run out
CHECK_DEADLOCK FALSE
