SPECIFICATION Spec
CONSTANTS
  p1 = p1
  p2 = p2
  s1 = s1
  s2 = s2
  s3 = s3
  s4 = s4
  c1 = c1
  r1 = r1
  Projects = {p1, p2}
  Suites = {s1, s2, s3, s4}
  Cases = {c1}
  Runs = {r1}
  NoSuite = NoSuite
  ProjectOf <- Split
  Requests = {q1}
  Ops <- AllOps
INVARIANTS
  NothingLiveBelowDeleted
  MovesKeepTheTree
CHECK_DEADLOCK FALSE
