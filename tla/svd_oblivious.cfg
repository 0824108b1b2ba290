SPECIFICATION Spec
CONSTANTS
  NCols = 4
  MaxIts = 3
  EndsEarly = FALSE
INVARIANTS
  TypeOK
PROPERTIES
  IsSvd
CHECK_DEADLOCK FALSE
