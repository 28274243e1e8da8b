SPECIFICATION Spec
CONSTANTS
  Null = Null
  r1 = r1
  r2 = r2
  r3 = r3
  r4 = r4
  r5 = r5
  Node = {r1, r2, r3}
  Heights = {2, 3}
  Signals = FALSE
PROPERTIES
  OnlyQuitLeaves
