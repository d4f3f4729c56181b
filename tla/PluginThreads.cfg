SPECIFICATION ThreadsSpec
CONSTANTS
    \* A rate below, at and above the target, with and without a remainder.
    Target = 3
    Rates = {2, 3, 8, 9}
    ChunkCap = 2
    Second = 10
    MaxBlock = 4
    MaxFed = 14
    \* Four slots, of which three hold chunks: the indices go round twice.
    Capacity = 3
    MaxChunks = 9
    \* Live audio; a jump of the stamps and a seek of the player, on the handling of each other.
    Modes = {FALSE}
    Places = {1, 2}
    QueueSize = 1
    MaxSeeks = 1
    MaxJumps = 1
    MaxToggles = 1
    MaxGaps = 1
    MaxWire = 1
    MaxShown = 1
    \* Two video outputs; times on both sides of the floor and the default.
    MaxVouts = 2
    MaxChannels = 3
    MaxTime = 4
    Floors = {1, 2, 4}
    Default = 3
INVARIANTS NoDrift JumpSeparates ScreenContract
PROPERTY FifoSpec
