SPECIFICATION Spec
CONSTANTS
    Tokens = {1, 2}
    Addresses = {a1, a2}
    Requests = {r1}
    Needed = 2
    Radix = 3
    MaxVersion = 4
    MaxTxs = 1
    MaxRequests = 4
    MaxFaults = 2
SYMMETRY Symmetry
CHECK_DEADLOCK FALSE
INVARIANTS
    RowsFollowRecords
    ApprovedIsWatched
PROPERTY
    PaidIsFinal
