SPECIFICATION ProgressSpec
CONSTANTS
    Shards = {0, 1, 2}
    Scores <- TinyScores
    Allow <- TinyAllow
    SlotOffset <- TinyOffsets
    K = 1
    NegInf = 0
    Skipped = {2}
    Replicated = {0}
    Hedging = TRUE
    Deadline = TRUE
    ColumnsKnown = {TRUE, FALSE}
    KeepTies = TRUE
    Sharing = {1, 2}
    Debounce = FALSE
    WarmupChunks = 0
    FloorDelta = 0
    ChunkSize = 1
    RequestCap = 1
    ResponseCap = 1
INVARIANT AckedServed
PROPERTIES Implements SearchTerminates DeficitFilled
CHECK_DEADLOCK FALSE
