SPECIFICATION FairSpec
CONSTANTS
  w1 = w1
  w2 = w2
  p1 = p1
  Workers = {w1, w2}
  Outputs = {1, 2}
  Published = {1}
  Pid <- OneProcess
  MaxFaults = 1
  MaxAttempts = 2
  JobAttempts = 2
CHECK_DEADLOCK FALSE
INVARIANTS CompleteMeansPublished 
PROPERTIES EveryRunFinalized OperationFollowsBlob
