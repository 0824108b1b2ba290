SPECIFICATION FairSpec
CONSTANTS
  I = 4
  Power2 <- MCPower2
  Pi = 25
  TwoPi = 50
INVARIANTS
  TypeOK
  ProductIsFloor
  QuotientTruncates
  SqrtIsRoot
PROPERTIES
  Terminates
CHECK_DEADLOCK FALSE
