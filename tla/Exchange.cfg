SPECIFICATION ExchangeSpec
CONSTANTS
    Shards = {0, 1}
    Scores <- PairScores
    SlotOffset <- PairOffsets
    Allow <- PairAllow
    K = 2
    NegInf <- Lowest
    Skipped = {}
    InitialFloor <- Lowest
    ColumnsKnown = {TRUE, FALSE}
    Fingerprints = {f, g}
    f = f
    Lanes = {0, 1}
    Signed = TRUE
    Failures = 0
    ChunkSize = 1
    RequestCap = 1
    ResponseCap = 1
INVARIANTS CertificateCovers StreamExact RefusalHasCause
CHECK_DEADLOCK FALSE
