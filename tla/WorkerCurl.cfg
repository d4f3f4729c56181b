\* Two threads that share the SIGPIPE disposition and each other's descriptors; two workers, of
\* which one may die and leave its curl behind.
SPECIFICATION CurlSpec
SYMMETRY Interchangeable
CONSTANTS
    Threads = {t1, t2}
    Budget = 2
    Grace = 0
    Horizon = 3
    Payload = 1
    PipeRoom = 1
    Buffer = 2
    LastTier = 1
    Bodies = {1}
    Workers = {w1, w2}
    Models = {m1}
    Transports = {"curl"}
    Inodes = {i1, i2}
    MaxStarts = 2
    MaxCrashes = 1
INVARIANTS RequestsApart PublishedStaysVerified
PROPERTY AbortedIsNotPublished
CHECK_DEADLOCK FALSE
