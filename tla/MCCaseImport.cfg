SPECIFICATION FairSpec
CONSTANTS
  q1 = q1
  q2 = q2
  q3 = q3
  Requests = {q1, q2, q3}
  Rows <- Asked
  Imports = {q1, q2}
  Norm <- Normal
INVARIANTS
  CasesHaveTheirTags
  AnswerTellsRows
PROPERTIES
  EveryRequestEnds
CHECK_DEADLOCK FALSE
