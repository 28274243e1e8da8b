SPECIFICATION FairSpec
CONSTANTS
  None = None
  Failed = Failed
  IndexTime = 300
  OpenFails = TRUE
  s1 = s1
  s2 = s2
  c1 = c1
  c2 = c2
  n1 = n1
  n2 = n2
  n3 = n3
  n4 = n4
  Instance = {s1, s2}
  Child = {c1, c2}
  Inode = {n1, n2, n3, n4}
INVARIANTS
  TypeOK
  IndexIsWhole
PROPERTIES
  NoneLeftBehind
  TakenOver
