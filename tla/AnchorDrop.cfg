SPECIFICATION Spec
CONSTANTS
  t1 = t1
  t2 = t2
  g1 = g1
  g2 = g2
  Trees = {t1, t2}
  Jobs = {"cron"}
  Goroutines = {g1, g2}
  MaxUpdates = 1
  MaxFaults = 1
INVARIANTS
  AnchorsAreConfirmed AnchorIsFound
PROPERTIES
  LeavesGetAnchored RecordsGetFrozen
