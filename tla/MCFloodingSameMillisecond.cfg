CONSTANTS
    a = a
    b = b
    c = c
    d = d
    Node <- Four
    Everyone = everyone
    Range <- Diamond
    Moments <- OneMillisecond
    MaxPackets = 2
    MaxLoss = 0
    MaxCopies = 3
SPECIFICATION Spec
PROPERTY OnlyCopiesAreDropped
CHECK_DEADLOCK FALSE
