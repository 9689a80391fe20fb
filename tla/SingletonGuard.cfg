CONSTANTS
  Processes = {p1, p2, p3}
  NoFile = nofile
  Stale = stale
  Backlog = 1
SPECIFICATION FairSpec
INVARIANTS
  TypeOK
  SerialExclusion
PROPERTIES
  HolderSafeFromLater
  ConstructorReturns
CHECK_DEADLOCK FALSE
