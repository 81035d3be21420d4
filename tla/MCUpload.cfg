SPECIFICATION Spec
CONSTANTS
  u1 = u1
  u2 = u2
  u3 = u3
  c1 = c1
  c2 = c2
  c3 = c3
  Uploads = {u1, u2, u3}
  Script <- Scripts
  File <- Files
  Cases = {c1, c2, c3}
  Automation <- AutomationOf
  Title <- TitleOf
  Dotted <- DottedForm
  MaxAttempts = 3
  MaxDeletes = 1
INVARIANTS
  EntriesAccounted
  
  PostsOnce
PROPERTIES
  RerunChangesNothing
  DeliverySpec
CHECK_DEADLOCK FALSE
