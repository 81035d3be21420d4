SPECIFICATION Spec
CONSTANTS
  Requests = {q1, q2, q3}
  Atts = {a1, a2, b1, b2}
  Legacy = {a1, a2}
  Faults = {"put", "flush", "clean", "erase", "commit", "crash"}
INVARIANTS
  RowsHaveContent
  NoOrphans
CHECK_DEADLOCK FALSE
SYMMETRY Symmetry
