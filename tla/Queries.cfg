SPECIFICATION QueriesSpec
CONSTANTS
  Shards = {0, 1}
  Scores <- TiedScores
  Allow <- TiedAllow
  SlotOffset <- Offsets
  K = 2
  NegInf = 0
  Skipped = {}
  Replicated = {}
  Hedging = FALSE
  Deadline = TRUE
  ColumnsKnown = {TRUE}
  KeepTies = FALSE
  Sharing = {0, 1}
  Debounce = TRUE
  WarmupChunks = 0
  FloorDelta = 0
  ChunkSize = 1
  RequestCap = 1
  ResponseCap = 1
  QueryShards = {1, 2}
  ReplicatedShards = {1}
  CacheScopes = {"all"}
  CacheTerms = {"t", "u"}
  AskedTerms <- OneTerm
  MAX_SCOPES_PER_NODE = 1
  MAX_TERMS_PER_CHANNEL = 2
  MaxDisturbances = 2
  RankRows <- FourRankRows
  RankCount = 4
  FirstSlotOfTwo = 3
  RankDepths = {1, 2}
  LegDepths = {3}
  MinScores = {0, 2}
  w_v = 2
  w_b = 3
  PageRows <- ThreePageRows
  PageCount = 4
  SecondShard = 3
  PageSizes = {1, 2}
  Pools = {0, 2, 4}
  max_k = 4
  FilterRows <- ColumnRows
  FilterTrees <- SomeFilters
  PlacementTrees <- TwoTrees
  I64_MIN <- LeastInteger
  I64_MAX = 2
  level_bits = 2
  CODE_BITS = 4
  BooleanPlans <- SomePlans
  BooleanCorpora <- TwoCorpora
  BooleanDepths = {2}
  AggRows <- ValueRows
  AggCount = 4
  AggLayouts <- FiveLayouts
  AggRequests <- ThreeRequests
  NotANumber = 9
  SumLimit = 5
  OrderOffset = 4
  Readers = {1, 2}
  FreeReaders = {1}
  MaxShardWrites = 2
  WrittenSlots = {2}
  EpochLimit = 2
  AskedIds <- OneAsk
INVARIANTS FloorsAreLowerBounds ExactResult AnsweredAtOneVersion RankingsAreExact FiltersAreExact AggregatesAreWhole ReadsAreOneVersion
CHECK_DEADLOCK FALSE
