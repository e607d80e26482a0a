SPECIFICATION Spec
CONSTANTS
    Requests = {r1, r2}
    PollDuration = 1
    PageSize = 1
    MaxTime = 4
    MaxTxs = 1
    MaxRequests = 3
    MaxRestarts = 1
CHECK_DEADLOCK FALSE
INVARIANTS OnlyLastPaywallIsValid ProposalsCostACredit ValidPaywallIsPolled
PROPERTY PollingStops
