SPECIFICATION Spec
CONSTANTS
  MaxItr = 4
  Norm <- MCNorm
  MinEr = 1
  Huge = 4
  LambdaInit = 1
  LambdaMax = 2
  Programs <- MCAbyDO
PROPERTIES
  ZeroStepIffNoError
CHECK_DEADLOCK FALSE
