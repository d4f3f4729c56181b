SPECIFICATION AudioSpec
CONSTANTS
    \* A ring of four samples: a block may fit, fill it or go round it.
    MaxSamples = 4
    Blocks = {1, 2, 6}
    Drains = {1, 9}
    Gaps <- GapValues
    MaxAppends = 3
    \* A file longer than a window, whose every second may be speech or silence.
    ChunkMin = 6
    ChunkMax = 11
    Pad = 2
    Gap = 4
    Trailing = 4
    Leading = 2
    ReadSize = 3
    LookLead = 13
    Detectors = {"silero", "energy"}
    LookMedia = 15
    \* Packets larger and smaller than a block, and a resampler that keeps a sample back.
    Samples = 9
    PacketSize = 4
    CodecDepth = 2
    Delay = 1
    OutCap = 3
    BlockSize = 3
    MaxSeeks = 2
    MaxPauses = 2
    \* Windows that overlap by most of their words; the ring grows and the history forgets.
    Speech = 5
    WindowWords = 4
    Tolerance = 1
    HistoryCap = 2
    QueueCap = 1
    Missed = 1
    MaxPushes = 3
    \* A jump too short for a seek, a pause that ends, and decoder seeks that fail.
    Media = 3
    Lead = 1
    SeekJump = 3
    Speeds = {1, 2}
    MaxMoves = 1
    MaxToggles = 2
    MaxFails = 2
    MaxFrames = 1
INVARIANTS NoDrift StampIsTrue DeliversTheFile CaptionedOnce FailuresContained NoHoleAhead
PROPERTY SpeechKept
CHECK_DEADLOCK FALSE
