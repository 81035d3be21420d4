SPECIFICATION FairSpec
CONSTANTS
  c1 = c1
  c2 = c2
  Cases = {c1, c2}
  Comments = {"none", "why"}
  Requests = {q1, q2}
  Ops <- AllOps
  MaxRequests = 3
INVARIANTS
  
  
  DeletedRunHasNoLiveResults
PROPERTY EveryRequestEnds
CHECK_DEADLOCK FALSE
