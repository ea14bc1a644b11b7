SPECIFICATION Spec
CONSTANTS
    Seqs = 12
    BAWinSize = 3
    First = 9
    MaxFrame = 13
    MaxSessions = 3
INVARIANT EmptyWhenDeleted
CHECK_DEADLOCK FALSE
