SPECIFICATION Spec
CONSTANTS
  f1 = f1
  f2 = f2
  s1 = s1
  Files = {f1, f2}
  Streams = {s1}
  MaxOps = 4
  MaxFaults = 1
  Timely = TRUE
  ReAdd = FALSE
SYMMETRY Symmetry
INVARIANTS
  RecordIsComplete
  CensoredFilesAreGone
PROPERTIES
  ImplementsHistory
