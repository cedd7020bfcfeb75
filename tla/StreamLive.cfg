SPECIFICATION FairSpec
CONSTANTS
    Shards = {0, 1, 2}
    Scores <- BlockScores
    SlotOffset <- BlockOffsets
    Allow <- BlockAllow
    K = 1
    NegInf <- Lowest
    Skipped = {2}
    InitialFloor <- Lowest
    ColumnsKnown = {TRUE}
    Fingerprints = {f}
    f = f
    Lanes = {}
    Signed = FALSE
    Failures = 1
    ChunkSize = 1
    RequestCap = 1
    ResponseCap = 1
PROPERTY StreamSettles
CHECK_DEADLOCK FALSE
