\* One thread and a ring of one job fill the pool with three segments, so that
\* the fourth one can be turned down.
CONSTANTS
    ActiveBudget = 1
    QueueCap = 1
    MaxOrdinal = 3
    MaxCues = 4
    MaxEpoch = 3
    MaxSegments = 4
    MaxSessions = 2
SPECIFICATION PipeFairSpec
INVARIANTS OnceAndInOrder BlamePrecedesItsCaption DrainLeavesNothing
PROPERTIES NoStaleCaption WorkerLeaves
