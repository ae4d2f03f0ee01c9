SPECIFICATION Spec
CONSTANTS
    Dictionaries <- AllDictionaries
    Midashi <- AskedMidashi
    MaxRuns <- Runs
    OkuriAri <- OkuriAriMidashi
    UnitLength = 4
    IndexLength = 407
    AreaLength = 48
    HeaderAlignment = 16
    DictionaryEncoding = "euc"
    Conversions <- Table
    Revised <- RevisedJisyo
    Alignment = 2
    MaxCompletions = 2
    RETURN_ZERO_THRESHOLD = 10
    BINARY_SEARCH_THRESHOLD = 30
    Lengths = {3}
    BlockCounts = {}
    NoFile = NoFile
    NoMidashi = NoMidashi
INVARIANTS
    CompletionsAreAll
CHECK_DEADLOCK FALSE
