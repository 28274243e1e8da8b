SPECIFICATION Spec
CONSTANTS
  None = None
  s1 = s1
  s2 = s2
  r1 = r1
  r2 = r2
  Instance = {s1, s2}
  Record = {r1, r2}
  MaxFile = 2
  Overlap = TRUE
  Handlers = 2
  ToChild = 0
SYMMETRY Alike
INVARIANTS
  EachIsSaved
