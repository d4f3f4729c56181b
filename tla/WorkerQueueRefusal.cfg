\* The claim of the comment above the control eviction.
SPECIFICATION InboxSpec
CONSTANTS
    Capacity = 2
    Types <- QueueTypes
    Durations = {2}
    MaxSequence = 4
    HeaderBytes = 2
    RecordMax = 3
    Buffer = 2
    Sizes <- PayloadSizes
    MaxFrames <- TwoFrames
PROPERTIES OnlySoftControlsRefused
