SPECIFICATION FairSpec
CONSTANTS
  c1 = c1
  c2 = c2
  Client = {c1, c2}
  Daemon = {d1, d2}
  Apps = {a}
  Backlog = 0
  Nobody = Nobody
  Gone = Gone
ACTION_CONSTRAINT Roles
INVARIANTS
  TypeOK
  Reachable
  FileIsList
PROPERTIES
  KeepsRegistry
  StartServes
