CONSTANTS
  Clients = {c1}
  Worker = worker
  NoThread = nothread
  Tasks = {t1}
  NoTask = notask
  TaskCalls = {}
SPECIFICATION Spec
INVARIANT PreActivateBeforeStart
