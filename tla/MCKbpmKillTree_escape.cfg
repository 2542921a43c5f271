SPECIFICATION QuietSpec
CONSTANTS
  MaxPid = 3
  Roots = {1}
  PidLimit = 3
  Init1 = Init1
  Daemon = Daemon
INVARIANT AllChildrenStopped
CHECK_DEADLOCK FALSE
