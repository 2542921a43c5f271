SPECIFICATION Spec
CONSTANTS
  a = a
  b = b
  c = c
  Apps = {a, b}
  NoApp = NoApp
  ListSize = 3
  MaxPid = 2
SYMMETRY Symmetry
INVARIANTS
  TypeOK
  ListInv
  FileCoversList
  ChildInv
PROPERTIES
  OnlyMeantTouched
  OwnGroupSpared
  ImplementsApps
