SPECIFICATION SplitLiveSpec
CONSTANTS
    Nodes <- TwoNodes
    Domain <- TwoDomains
    Configured <- OnFirst
    MaxHash = 1
    ReplicationFactor = 1
    SplitRows = 1
    MergeRows = 0
    CompactSegments = 9
    CompactPercent = 100
    Rows = {0, 1}
    Lapsing = {}
    Crashing = {}
    Dying = {}
    LostReplies = FALSE
    MaxActions = 2
    MaxTokens = 2
    MaxTopologies = 9
PROPERTIES SplitFinishes
CHECK_DEADLOCK FALSE
