SPECIFICATION FairSpec
CONSTANTS
  w1 = w1
  w2 = w2
  Workers = {w1, w2}
  Emails = {1, 2, 3}
  BatchSize = 2
  MaxAttempts = 2
  Faults = {"halt", "refuse", "lost_reply"}
  Overlap = FALSE
  MaxStarts = 3
INVARIANTS
  
  CopiesBounded
PROPERTIES
  DeliverySpec
  EveryMailSettles
CHECK_DEADLOCK FALSE
