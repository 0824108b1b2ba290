SPECIFICATION FairSpec
CONSTANTS
  c1 = c1
  c2 = c2
  Client = {c1, c2}
  None = None
  Points <- MCPoints
  Requests = 2
  Flow = "DO"
  MaxItr = 2
  Crashing = {}
  Prompt = TRUE
INVARIANTS
  ClientReadsInStep
  IterationsInStep
  NothingLeftOver
PROPERTIES
  AcceptedAnswered
CHECK_DEADLOCK FALSE
