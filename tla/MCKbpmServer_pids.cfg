SPECIFICATION Spec
CONSTANTS
  a = a
  b = b
  c = c
  Apps = {a, b}
  NoApp = NoApp
  ListSize = 3
  MaxPid = 3
SYMMETRY Symmetry
CONSTRAINT NoRace
INVARIANTS
  Supervised
  OneChildPerApp
  NoLostChild
PROPERTY
  RelaunchOnlyDead
