CONSTANTS
  Req = {r1, r2, r3, r4}
  None = None
  MaxRenames = 0
SPECIFICATION Spec
INVARIANT StoppedIsRecorded
\* the requests run out
CHECK_DEADLOCK FALSE
