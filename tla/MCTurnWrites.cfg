SPECIFICATION Spec
CONSTANTS
    w1 = w1
    w2 = w2
    Workers = {w1, w2}
    Calls <- AllWrites
    MaxIterations = 1
    MaxModelAttempts = 1
    JobAttempts = 2
    RowAttempts = 1
    MaxRetries = 1
    MaxFaults = 1
SYMMETRY Interchangeable
INVARIANTS ToolStartedOnce ApprovedBeforeRun RunMatchesStep
PROPERTIES TerminalStays WakeIsNew
CHECK_DEADLOCK FALSE
