SPECIFICATION ReportsSpec
CONSTANTS
  p1 = p1
  p2 = p2
  s1 = s1
  s2 = s2
  c1 = c1
  c2 = c2
  c3 = c3
  r1 = r1
  r2 = r2
  r3 = r3
  Projects = {p1, p2}
  Suites = {s1, s2}
  Cases = {c1, c2, c3}
  Runs = {r1, r2, r3}
  ProjectOf <- ProjectIds
  SuiteOf <- SuiteIds
  Automated = {c1}
  Picked <- PickedOf
  SuiteRun <- SuiteRuns
  Created <- CreatedAt
  Tested <- Results0
  Now = 3
  Day = 2
  Asks <- Requests
  RecentLimit = 1
  PageSize = 2
  Submits = {"passed"}
  MaxWrites = 2
INVARIANTS
  ReportsTypeOK
  TotalsAgree
  SoundUnderRaces
  
  PagesPartition
CHECK_DEADLOCK FALSE
