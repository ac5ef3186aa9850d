CONSTANTS
    HalfRange = 16
    MaxDifference = 5
    a = a
    b = b
    Node <- Pair
    DataFirst <- OnlyA
    MaxRetransmit = 1
    Overtaking <- AllButHellos
    Patient <- Hellos
    Lossy <- DataTraffic
    MaxLoss = 2
    MaxAnnounce = 2
    MaxData <- TwoAndNone
SPECIFICATION Spec
INVARIANTS TypeOK NetworkMeansSynced NumbersAreFresh  
CHECK_DEADLOCK FALSE
