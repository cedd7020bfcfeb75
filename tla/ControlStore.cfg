SPECIFICATION StoresSpec
CONSTANTS
    p0 = p0
    p1 = p1
    p2 = p2
    r0 = r0
    r1 = r1
    Nodes = {n1, n2}
    Placements <- MCPlacements
    Blank = p0
    Routes <- MCRoutes
    NoRoutes = NoRoutes
    Desired <- MCDesired
    MapGeneration = 1
    MapRoutes = r0
    HistoryLimit = 2
    MaxTokens = 2
    MaxGeneration = 5
    MaxFaults = 3
    MaxPublishing = 2
    HashSpace = 8
    id_hash <- IdHashes
    key_hash <- KeyHashes
    code_of <- IdCodes
    column_of <- IdColumns
    ReshardInputs <- SomeLogs
    ReshardAsks <- SomeReshards
    TreeSources <- SomeSources
    TreeAsks <- SomeTreeAsks
    ImageInputs <- SomeImages
    AnalyzeBatch = 4
    LexicalDocs <- FourLexicalDocs
    LexicalTables <- SomeLexicalTables
    LexicalSlots = 3
    LexicalTerms = 3
    SpillCaps = {1, 3}
    BLOCK = 2
    LEVEL1_FACTOR = 2
    MAX_FRONTIER = 2
    CANDIDATE_BATCH = 2
    LexicalQueries <- LexicalQueriesDef
INVARIANTS LexicalStreamIsExact LexicalFileIsFaithful  MemoryIsDurable TokensNeverReused RetirementIsFinal GenerationsAgree PublishedSurvives
CHECK_DEADLOCK FALSE
