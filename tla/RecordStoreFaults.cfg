SPECIFICATION Spec
CONSTANTS
  f1 = f1
  f2 = f2
  s1 = s1
  Files = {f1, f2}
  Streams = {s1}
  MaxOps = 4
  MaxFaults = 1
  Timely = FALSE
  ReAdd = TRUE
SYMMETRY Symmetry
INVARIANTS
  TypeOK
  IndexContentPresent
  LeafHasBlob
  PlainTextWasExposed
  ResaveFindsBlobs
  RecordMetadataIsReadable
