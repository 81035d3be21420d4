SPECIFICATION FairSpec
CONSTANTS
  a = a
  b = b
  c = c
  Requests = {q1, q2}
  People = {a, b, c}
  Clash <- Clashes
  RoleOf <- RoleAt
  Ops <- Asked
  MaxOps = 3
  MaxTokens = 3
INVARIANTS
  InviteIffUser
  TokenNamesItsOwner
  SpentStaysSpent
  AnswerTellsRows
PROPERTIES
  RolesProtected
  EveryRequestEnds
CHECK_DEADLOCK FALSE
