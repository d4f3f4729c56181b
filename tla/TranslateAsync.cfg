\* Three threads, a ring of two jobs, ordinals that wrap after the fourth.
CONSTANTS
    ActiveBudget = 3
    QueueCap = 2
    MaxOrdinal = 4
    MaxCues = 5
    MaxEpoch = 2
SPECIFICATION FairSpec
INVARIANTS RoomForEveryCompletion PoolAccounted NoThreadOutlivesPool
PROPERTIES StreamSpec EveryCueComesBack
