CONSTANTS
    HalfRange = 6
    MaxDifference = 2
    Window = 5
    MaxSent = 7
    MaxCopies = 2
    OwnPackets = {own}
SPECIFICATION Spec
INVARIANTS
    TypeOK
    BufferInStreamOrder
    NothingNextWaits
    AckedIsKept
    TreeSetPlaceIsUnique
PROPERTY ImplementsInOrderDelivery
