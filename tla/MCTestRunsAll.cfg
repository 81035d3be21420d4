SPECIFICATION Spec
CONSTANTS
  Cases = {c1, c2}
  Requests = {q1, q2}
  Ops <- AllOps
  MaxRequests = 4
SYMMETRY RequestSymmetry
INVARIANTS
  AuditTellsStatus
  
CHECK_DEADLOCK FALSE
