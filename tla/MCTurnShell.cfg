SPECIFICATION Spec
CONSTANTS
    w1 = w1
    w2 = w2
    Workers = {w1}
    Calls <- Writes
    MaxIterations = 1
    MaxModelAttempts = 1
    JobAttempts = 1
    RowAttempts = 1
    MaxRetries = 0
    MaxFaults = 1
PROPERTIES InterruptedIsReviewed
CHECK_DEADLOCK FALSE
