SPECIFICATION Spec
CONSTANTS
  a = a
  s1 = s1
  s2 = s2
  w1 = w1
  w2 = w2
  Standard = {a}
  Subs = {s1, s2}
  Workers = {w1, w2}
  Tallies <- OneTally
  Options <- ApproveFirst
  Eligible = 2
  QuorumPercentage = 50
  PassPercentage = 60
  Duration = 2
  MaxBlock = 2
  MaxWrites = 6
  MaxFaults = 1
  Timely = TRUE
SYMMETRY Symmetry
CHECK_DEADLOCK FALSE
INVARIANTS
  InventoryIsCoherent StartedVotesAreActive StartedVotesAreReadable RunoffHasOneWinner
PROPERTIES
  OutcomesAreFinal
