SPECIFICATION SenderSpec
CONSTANTS
    \* More transports die than the budget allows; the settings change in between.
    Settings = {"cpu", "gpu"}
    Languages = {"off", "de"}
    MaxRespawns = 1
    MaxDeaths = 2
    MaxChanges = 1
    \* Three units of audio, more than the queue holds.
    TeardownQueue = 2
    MaxAudio = 3
    MaxReports = 1
    \* A file; one seek back, which the position filter cannot catch, and a pause that ends.
    Modes = {TRUE}
    Places = {1, 2}
    QueueSize = 1
    MaxSeeks = 1
    MaxJumps = 0
    MaxToggles = 2
    MaxGaps = 0
    MaxWire = 1
    MaxShown = 1
INVARIANTS  OrderlyClose SourceCuesFresh
PROPERTIES WorkerReturns CloseEnds SeekReachesWorker
