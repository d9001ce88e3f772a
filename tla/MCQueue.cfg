SPECIFICATION FairSpec
CONSTANTS
    i1 = i1
    i2 = i2
    Items = {i1, i2}
    NoItem = NoItem
    MaxQueue = 2
    MaxTurns = 2
    MaxWaits = 1
    MaxStops = 1
    MaxUpdates = 2
INVARIANTS DeliveredOnce
PROPERTIES InOrder InterruptionHoldsQueue HeadMovesOn DeadReservationReleased
CHECK_DEADLOCK FALSE
