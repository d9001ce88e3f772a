SPECIFICATION FairSpec
CONSTANTS
    r1 = r1
    r2 = r2
    p1 = p1
    p2 = p2
    Requests = {r1, r2}
    Preparers = {p1, p2}
    NoRequest = NoRequest
    Free = Free
    Estimate = 1
    CallEstimate = 1
    MaxCallCost = 2
    HardLimit = 2
    MaxAttempts = 2
    MaxCalls = 1
    MaxGenerations = 1
    MaxErrors = 1
INVARIANTS LedgerMatchesReservation WithinLimit RunIsFunded IntentMatchesRun UsageIsCharged
PROPERTIES CancelledNeverRuns ContractSpec EveryReservationSettles
CHECK_DEADLOCK FALSE
