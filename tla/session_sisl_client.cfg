SPECIFICATION FairSpec
CONSTANTS
  c1 = c1
  c2 = c2
  Client = {c1}
  None = None
  Points <- MCPoints
  Requests = 1
  Flow = "SiSL"
  MaxItr = 1
  Crashing = {}
  Prompt = TRUE
PROPERTIES
  EveryClientAnswered
CHECK_DEADLOCK FALSE
