SPECIFICATION Spec
CONSTANTS
  MaxItr = 4
  Norm <- MCNorm
  MinEr = 1
  Huge = 4
  LambdaInit = 1
  LambdaMax = 2
  Programs <- MCDescents
INVARIANTS
  TypeOK
  ReportIsRight
PROPERTIES
  IsDescent
CHECK_DEADLOCK FALSE
