SPECIFICATION FairSpec
CONSTANTS
    Dictionaries <- AllDictionaries
    Midashi <- AskedMidashi
    MaxRuns <- Runs
    OkuriAri <- OkuriAriMidashi
    UnitLength = 4
    IndexLength = 407
    AreaLength = 48
    HeaderAlignment = 16
    DictionaryEncoding = "utf8"
    Conversions <- Table
    Revised <- RevisedJisyo
    Alignment = 2
    MaxCompletions = 2
    RETURN_ZERO_THRESHOLD = 10
    BINARY_SEARCH_THRESHOLD = 30
    Lengths = {1, 4, 6}
    BlockCounts <- Counts
    NoFile = NoFile
    NoMidashi = NoMidashi
INVARIANTS
    OnlyLongEntriesFail
    BlocksTileTheBuffer
    WordsAreFound
    LoadedIsWritten
    CompletionsAreTheFirst
    HintIsClose
PROPERTIES
    OnlyOversizedOrRewrittenPanics
    EverySearchEnds
CHECK_DEADLOCK FALSE
