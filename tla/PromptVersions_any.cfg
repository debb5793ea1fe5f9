CONSTANTS
  Req = {r1, r2, r3}
  Value = {x, y}
  None = None
SPECIFICATION Spec
SYMMETRY Symmetry
INVARIANT ActiveIsSound
PROPERTY AuditTrail
\* the requests run out
CHECK_DEADLOCK FALSE
