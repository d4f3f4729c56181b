\* Three sessions and two workers: a START can be retried, on the same worker and on a new one,
\* while the answer to an earlier one is still on its way.
SPECIFICATION Spec
CONSTANTS
    Settings = {"off", "de"}
    MaxSessions = 3
    MaxLaunches = 2
    MaxDuplicates = 1
    MaxCalls = 3
    MaxWorkerFrames = 1
INVARIANTS StaleFramesIgnored WorkerFollowsClient
