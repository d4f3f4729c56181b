\* The claim of the comment in vw_translate_async_submit.
CONSTANTS
    ActiveBudget = 1
    QueueCap = 1
    MaxOrdinal = 3
    MaxCues = 4
    MaxEpoch = 3
    MaxSegments = 4
    MaxSessions = 1
SPECIFICATION PipeSpec
INVARIANTS RejectionKeepsOrder
