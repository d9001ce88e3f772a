SPECIFICATION FairSpec
CONSTANTS
    f1 = f1  f2 = f2  w1 = w1  w2 = w2  c1 = c1
    d1 = d1
    Files = {f1, f2}
    Workers = {w1, w2}
    Calls = {c1}
    Digests = {d1}
    Content <- SameBytes
    Origins <- OneOfEach
    MaxDeliveries = 2
    MaxEvents = 1
PROPERTIES EveryBlobSettles
CHECK_DEADLOCK FALSE
