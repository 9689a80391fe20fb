CONSTANTS
  Clients = {c1, c2}
  Worker = worker
  NoThread = nothread
  Tasks = {t1, t2}
  NoTask = notask
  TaskCalls = {"post", "activate", "deactivate"}
SPECIFICATION FairSpec
INVARIANTS
  TypeOK
  NoMissedTask
  NeverPopEmpty
  WorkerIffRunning
  EveryTaskAccountedFor
PROPERTIES
  ExecutorSpec
  QueuedTaskRuns
  StopReturnsUnlessRaced
CHECK_DEADLOCK FALSE
