SPECIFICATION FairSpec
CONSTANTS
    s1 = s1
    Schedules = {s1}
    MaxRuns = 2
    MaxClaims = 2
    MaxTime = 2
    MaxFaults = 1
    MaxChanges = 2
    RetryLimit = 2
INVARIANTS DueIsNew RecordMatchesTurn NoOverlap
PROPERTIES FencedSettlement ContractSpec EveryRunSettles
CHECK_DEADLOCK FALSE
