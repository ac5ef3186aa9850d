CONSTANTS
    DataPacket = {d1, d2}
    SyncPacket = {s}
    MaxRetransmit = 2
    Absent = absent
SPECIFICATION FairSpec
INVARIANTS TypeOK NumbersHaveNoGaps WaitingHasTimer
PROPERTY EveryWaitEnds
CHECK_DEADLOCK FALSE
