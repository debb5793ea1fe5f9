CONSTANTS
  Req = {r1, r2, r3}
  Action = {a1, a2}
  None = None
  Faults = {"giveup", "newchat", "latereject", "lostreject", "lapse", "restart"}
  MaxFaults = 2
SPECIFICATION FairSpec
INVARIANTS RanAsApproved DecidedStaysDecided
PROPERTY SpinnerStops
\* the requests run out
CHECK_DEADLOCK FALSE
