SPECIFICATION FairSpec
CONSTANTS
  c1 = c1
  c2 = c2
  Client = {c1, c2}
  None = None
  Points <- MCPoints
  Requests = 1
  Flow = "LOOP_LEAK"
  MaxItr = 2
  Crashing = {c1}
  Prompt = FALSE
PROPERTIES
  RestartCompletes
CHECK_DEADLOCK FALSE
