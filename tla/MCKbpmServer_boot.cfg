SPECIFICATION Spec
CONSTANTS
  a = a
  b = b
  c = c
  Apps = {a, b}
  NoApp = NoApp
  ListSize = 2
  MaxPid = 2
PROPERTY MainKeepsOut
