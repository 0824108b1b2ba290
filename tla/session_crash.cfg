SPECIFICATION FairSpec
CONSTANTS
  c1 = c1
  c2 = c2
  Client = {c1, c2}
  None = None
  Points <- MCPoints
  Requests = 1
  Flow = "LOOP_LEAK"
  MaxItr = 3
  Crashing = {c1, c2}
  Prompt = FALSE
INVARIANTS
  TypeOK
  SameClient
  SameCircuit
  ServerReadsInStep
  IterationsInStep
  NoCircularWait
PROPERTIES
  IsOffload
  JointRequestUnbroken
  JointRequestEnds
  GoneClientReleased
CHECK_DEADLOCK FALSE
