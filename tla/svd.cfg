SPECIFICATION Spec
CONSTANTS
  NCols = 4
  MaxIts = 3
  Flows = {"LOOP_LEAK", "SiSL"}
  EndsEarly = TRUE
INVARIANTS
  TypeOK
  AlwaysSplits
  Decoupled
CHECK_DEADLOCK FALSE
