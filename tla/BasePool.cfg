CONSTANTS
  capacity = 3
  Threads = {th1, th2, th3}
  NoThread = nothread
  NoMutex = nomutex
  Nested <- DtorUses
  MaxDepth = 3
  MaxFailures = 2
SPECIFICATION Spec
INVARIANTS
  TypeOK
  FreeListIntact
  OneUserPerNode
  CountMatchesObjects
  OnlySelfDeadlock
PROPERTY FailsOnlyWhenFull
SYMMETRY Symmetry
CHECK_DEADLOCK FALSE
