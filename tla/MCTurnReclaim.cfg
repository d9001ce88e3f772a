SPECIFICATION Spec
CONSTANTS
    w1 = w1
    w2 = w2
    Workers = {w1}
    Calls <- Held
    MaxIterations = 1
    MaxModelAttempts = 1
    JobAttempts = 3
    RowAttempts = 8
    MaxRetries = 0
    MaxFaults = 2
INVARIANTS ExpiredLeaseReclaimed
CHECK_DEADLOCK FALSE
