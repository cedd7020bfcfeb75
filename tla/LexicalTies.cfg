SPECIFICATION StreamedSpec
CONSTANTS
    BLOCK = 2
    LEVEL1_FACTOR = 2
    MAX_FRONTIER = 2
    CANDIDATE_BATCH = 2
    LexicalQueries <- LexicalQueriesDef
    LexicalDocs <- FourLexicalDocs
    LexicalTables <- SentencesAlone
    LexicalSlots = 2
    LexicalTerms = 3
    SpillCaps = {3}
INVARIANT WinnersAreCertified
CHECK_DEADLOCK FALSE
