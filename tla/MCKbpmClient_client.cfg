SPECIFICATION FairSpec
CONSTANTS
  a = a
  b = b
  Apps = {a, b}
  NoApp = NoApp
  MaxId = 1
  MaxFields = 2
  Uptimes = {0, 59, 60, 3599, 3600, 86399, 86400}
ACTION_CONSTRAINT Focus
INVARIANTS
  TypeOK
  ShownIdHolds
  StartedIsListed
  UptimeReads
PROPERTIES
  CommandEnds
  KeepsRegistry
