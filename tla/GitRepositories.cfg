SPECIFICATION Spec
CONSTANTS
    Tokens = {t1, t2}
    MaxCommits = 4
    MaxAnchors = 2
    MaxFaults = 1
SYMMETRY Symmetry
CHECK_DEADLOCK FALSE
INVARIANTS
    AnchorsCoverHistory
    FailuresAreUnwound
PROPERTY
    VettedIsAppendOnly
