CONSTANTS
  turn = turn
  snap = snap
  final = final
  file = file
  plain = plain
  NoOwner = NoOwner
  Rows = {snap, final, file}
  Dispatchers = {d1}
  StartReceipt = {snap, final}
  EndReceipt = {file}
  Finalizers = {final}
  Malformed = {snap}
  Upserted = {file}
  Supersedes <- MCSupersedes
  MaxAttempts = 1
  MaxClaims = 1
  MaxCrashes = 0
  MaxUpserts = 2
SPECIFICATION Spec
PROPERTIES ContractSpec ClosedStaysClosed
