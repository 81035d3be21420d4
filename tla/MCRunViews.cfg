SPECIFICATION Spec
CONSTANTS
  s1 = s1
  s2 = s2
  f = f
  c1 = c1
  c2 = c2
  Runs = {r1, r2}
  Cases = {c1, c2}
  Suites = {s1, s2, f}
  Parent <- ParentOf
  Home <- HomeOf
  Foreign = {f}
  Submits = {"passed", "no_run"}
  MaxWrites = 3
INVARIANTS
  ProgressAddsUp
  TreeShowsAll
  
SYMMETRY Symmetry
CHECK_DEADLOCK FALSE
