SPECIFICATION Spec
CONSTANTS
    Reqs = {r1, r2}
    MaxTime = 2
    MaxMinted = 3
    maxTwoFAFailures = 2
    maxBadAttempts = 2
    maxOutstandingTickets = 3
    maxTicketsPerUser = 2
    MaxFaults = 1
    Deployments <- All
INVARIANTS SpentStaysSpent LimitsHold
SYMMETRY Interchangeable
CHECK_DEADLOCK FALSE
