SPECIFICATION Spec
CONSTANTS
  NCols = 3
  MaxIts = 1
  EndsEarly = TRUE
PROPERTIES
  CancellationEnds
CHECK_DEADLOCK FALSE
