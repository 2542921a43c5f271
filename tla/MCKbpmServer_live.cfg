SPECIFICATION FairSpec
CONSTANTS
  a = a
  b = b
  c = c
  Apps = {a, b, c}
  NoApp = NoApp
  ListSize = 2
  MaxPid = 2
CONSTRAINT NoRace
ACTION_CONSTRAINT LiveRequests
INVARIANT
  MutexHeld
PROPERTIES
  RequestIsServed
  FallenIsHandled
