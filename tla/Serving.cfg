SPECIFICATION Spec
CONSTANTS
  Nodes <- TwoNodes
  Domain <- Domains
  Configured <- TwoShards
  Unsteady = {2}
  MaxHash = 2
  ReplicationFactor = 1
  SplitRows = 1
  MergeRows = 2
  CompactSegments = 3
  CompactPercent = 50
  Facts <- RewriteFacts
  Used = {0}
  SameRange = FALSE
  MaxActions = 2
  MaxTokens = 2
  MaxGeneration = 2
  MaxTopologies = 3
  RelayMaps <- TwoMaps
  RelayChildren = {"a", "b"}
  RetainedTokens = 1
  MaxChanges = 1
  MaxLives = 2
  MaxAsks = 3
  RelayScripts <- EveryEnd
  RelayRows <- FiveRows
  RowCount = 4
  Depths = {1, 2}
  Selections <- Asked
  SealTailDocs = 2
  TailBound = 1
  MaxTailPasses = 2
  MaxRows = 2
  MaxDeletes = 1
  MaxFlushes = 1
  MaxCompactions = 1
  MaxCrashes = 1
  RoutedRows = 3
  BaseRows = 1
  MaxFreezes = 2
  MaxMishaps = 2
  ReplicaLogs <- TwoLogs
  LastHash = 1
  PlacedLeaves = {1, 2}
  MapShards = 3
INVARIANTS   CatchUpLosesNothing  LogIsHistory
PROPERTY CutoverKeepsRows
CHECK_DEADLOCK FALSE
