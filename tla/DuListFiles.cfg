SPECIFICATION Spec
CONSTANTS
  None = None
  s1 = s1
  s2 = s2
  r1 = r1
  r2 = r2
  Instance = {s1, s2}
  Record = {r1, r2}
  MaxFile = 1
  Overlap = FALSE
  Handlers = 2
  ToChild = 1
SYMMETRY Alike
INVARIANTS
  TypeOK
  NothingLost
  NothingTwice
