SPECIFICATION Spec
CONSTANTS
    w1 = w1
    w2 = w2
    Workers = {w1}
    Calls <- Mixed
    MaxIterations = 2
    MaxModelAttempts = 2
    JobAttempts = 1
    RowAttempts = 1
    MaxRetries = 1
    MaxFaults = 1
INVARIANTS DoubtfulCallIsReviewed
PROPERTIES SettlesOrRecoverySpent
CHECK_DEADLOCK FALSE
