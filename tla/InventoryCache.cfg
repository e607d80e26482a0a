SPECIFICATION Spec
CONSTANTS
  r1 = r1
  r2 = r2
  r3 = r3
  Tokens = {r1, r2, r3}
  FsckOptions = {TRUE, FALSE}
  Uint = 16
  MaxOps = 5
  MaxCrashes = 2
SYMMETRY Symmetry
INVARIANTS
  CacheIsCoherent PagesAreComplete
