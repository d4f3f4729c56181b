\* One request through all three tiers; one worker.
SPECIFICATION CurlLiveSpec
CONSTANTS
    Threads = {t1}
    Budget = 4
    Grace = 0
    Horizon = 6
    Payload = 2
    PipeRoom = 1
    Buffer = 2
    LastTier = 3
    Bodies = {1, 2}
    Workers = {w1}
    Models = {m1}
    Transports = {"curl", "winhttp"}
    Inodes = {i1, i2}
    MaxStarts = 2
    MaxCrashes = 0
INVARIANT ReturnContract
PROPERTIES RequestEnds JoinReturns
CHECK_DEADLOCK FALSE
