CONSTANTS
    HalfRange = 16
    MaxDifference = 5
    a = a
    b = b
    Node <- Pair
    DataFirst <- OnlyA
    MaxRetransmit = 2
    Overtaking <- AnyKind
    Patient <- AnyKind
    Lossy <- AllTraffic
    MaxLoss = 1
    MaxAnnounce = 2
    MaxData <- NoData
SPECIFICATION FairRestartSpec
PROPERTIES HandshakeCompletes NothingStaysUnacknowledged RestartRecovers
CHECK_DEADLOCK FALSE
