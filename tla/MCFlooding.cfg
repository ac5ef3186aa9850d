CONSTANTS
    a = a
    b = b
    c = c
    d = d
    Node <- Four
    Everyone = everyone
    Range <- Diamond
    Moments <- Clocks
    MaxPackets = 1
    MaxLoss = 1
    MaxCopies = 3
SPECIFICATION FairSpec
INVARIANTS TypeOK 
PROPERTIES FloodingEnds ImplementsOnceNetwork
CHECK_DEADLOCK FALSE
