\* Three slots overflow after the fourth frame.
SPECIFICATION InboxSpec
CONSTANTS
    Capacity = 3
    Types <- QueueTypes
    Durations = {2}
    MaxSequence = 5
    HeaderBytes = 2
    RecordMax = 3
    Buffer = 2
    Sizes <- PayloadSizes
    MaxFrames <- TwoFrames
INVARIANTS QueueExact NewestDirectiveSurvives FramesWhole
PROPERTIES ShutdownObeyed NobodyStuck
