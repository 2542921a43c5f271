SPECIFICATION FairSpec
CONSTANTS
  MaxPid = 5
  Roots = {1, 2}
  PidLimit = 4
  Init1 = Init1
  Daemon = Daemon
INVARIANTS
  TypeOK
  StoppedDies
  OneDirEach
PROPERTIES
  OnlyAppKilled
  StopEnds
CHECK_DEADLOCK FALSE
