SPECIFICATION FairSpec
CONSTANTS
    Seqs = 12
    BAWinSize = 3
    First = 9
    MaxFrame = 13
    MaxSessions = 3
INVARIANTS TypeOK Sorted WindowFits InOrder NoneHeldBack NoLostTimer
PROPERTY Delivered
CHECK_DEADLOCK FALSE
