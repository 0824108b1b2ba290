SPECIFICATION FairSpec
CONSTANTS
  NCols = 3
  MaxIts = 2
  MaxItr = 2
  Var <- MCVar
  Builds <- MCBuilds
INVARIANTS
  TypeOK
  LiveShares
  SharingFits
  ReadsOutputs
  LatestValues
  EveryExecCounted
PROPERTIES
  IsSvd
  Terminates
CHECK_DEADLOCK FALSE
