CONSTANTS
  capacity = 3
  Threads = {th1}
  NoThread = nothread
  NoMutex = nomutex
  Nested <- CtorBorrows
  MaxDepth = 2
  MaxFailures = 2
SPECIFICATION Spec
INVARIANT CountWithinCapacity
CHECK_DEADLOCK FALSE
