CONSTANTS
  Clients = {c1, c2}
  NoThread = nothread
  Pids = {p1, p2}
  Threads = {c1}
SPECIFICATION DaemonSpec
INVARIANTS
  TypeOK
  ChildrenAccountedFor
  OneLeftPerRace
  OneLateCall
PROPERTIES
  CallsReturn
  DeadChildIsReplaced
  LoopsEnd
CHECK_DEADLOCK FALSE
