SPECIFICATION Spec
CONSTANTS
  t1 = t1
  t2 = t2
  yes = yes
  no = no
  none = none
  r1 = r1
  Tickets = {t1, t2}
  Bits = {yes, no}
  NoBit = none
  Readers = {r1}
  BatchSize = 2
  MaxBallots = 2
  MaxTime = 1
  MaxFaults = 2
  Timely = TRUE
  Distinct = TRUE
SYMMETRY Symmetry
INVARIANTS
  CollidersAreSound ReceiptsCount CachedVotesCount
PROPERTIES
  ResultsAreFinal
