CONSTANTS
  Processes = {p1, p2, p3}
  NoFile = nofile
  Stale = stale
  Backlog = 1
SPECIFICATION Spec
INVARIANT OneHolder
