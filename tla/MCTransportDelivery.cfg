CONSTANTS
    HalfRange = 16
    MaxDifference = 5
    a = a
    b = b
    Node <- Pair
    DataFirst <- OnlyA
    MaxRetransmit = 2
    Overtaking <- AnyKind
    Patient <- AnyKind
    Lossy <- DataTraffic
    MaxLoss = 1
    MaxAnnounce = 1
    MaxData <- TwoAndOne
SPECIFICATION FairSpec
INVARIANT NothingLost
PROPERTIES EverythingDelivered ImplementsOrderedChannels
CHECK_DEADLOCK FALSE
