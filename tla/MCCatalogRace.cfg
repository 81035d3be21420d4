SPECIFICATION Spec
CONSTANTS
  p1 = p1
  p2 = p2
  s1 = s1
  s2 = s2
  s3 = s3
  s4 = s4
  c1 = c1
  r1 = r1
  Projects = {p1}
  Suites = {s1, s2}
  Cases = {c1}
  Runs = {r1}
  NoSuite = NoSuite
  ProjectOf <- OneProject
  Requests = {q1, q2}
  Ops <- AllOps
SYMMETRY RequestSymmetry
PROPERTY OnlyRestoreRevives
CHECK_DEADLOCK FALSE
