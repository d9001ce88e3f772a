CONSTANTS
  turn = turn
  snap = snap
  final = final
  file = file
  plain = plain
  NoOwner = NoOwner
  Rows = {turn, plain}
  Dispatchers = {d1, d2}
  StartReceipt = {turn}
  EndReceipt = {}
  Finalizers = {}
  Malformed = {}
  Upserted = {}
  Supersedes <- MCNoSupersedes
  MaxAttempts = 2
  MaxClaims = 1
  MaxCrashes = 1
  MaxUpserts = 0
SPECIFICATION Spec
INVARIANTS EpochFencesHolders AwaitedDeliveryWasSent DeadLetterIsLastResort
PROPERTIES ContractSpec EveryReceiptResolves
