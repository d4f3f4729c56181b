\* Three tiers and a grace period, so that a tier can run out of time after the network has failed
\* another.
SPECIFICATION CurlSpec
CONSTANTS
    Threads = {t1}
    Budget = 5
    Grace = 1
    Horizon = 9
    Payload = 1
    PipeRoom = 1
    Buffer = 2
    LastTier = 3
    Bodies = {1}
    Workers = {w1}
    Models = {m1}
    Transports = {"curl"}
    Inodes = {i1, i2}
    MaxStarts = 1
    MaxCrashes = 0
INVARIANT NetworkFailureIsTransport
CHECK_DEADLOCK FALSE
