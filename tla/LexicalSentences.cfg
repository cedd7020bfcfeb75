SPECIFICATION LexicalSpec
CONSTANTS
    LexicalDocs <- FourLexicalDocs
    LexicalTables <- SentencesAlone
    LexicalSlots = 2
    LexicalTerms = 3
    SpillCaps = {3}
    BLOCK = 2
    LEVEL1_FACTOR = 2
    MAX_FRONTIER = 2
    CANDIDATE_BATCH = 2
    LexicalQueries <- LexicalQueriesDef
INVARIANT WriterIsAccepted
CHECK_DEADLOCK FALSE
