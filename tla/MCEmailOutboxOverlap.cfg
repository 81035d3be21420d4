SPECIFICATION OutboxSpec
CONSTANTS
  w1 = w1
  w2 = w2
  w3 = w3
  Workers = {w1, w2, w3}
  Emails = {1, 2}
  BatchSize = 1
  MaxAttempts = 2
  Faults = {"connect", "refuse", "db"}
  Overlap = TRUE
  MaxStarts = 3
SYMMETRY WorkerSymmetry
INVARIANTS
  ClaimsExclusive
  ClaimIsCurrent
  RetriesExhausted
CHECK_DEADLOCK FALSE
