SPECIFICATION Spec
CONSTANTS
    a = a
    d = d
    e = e
    f = f
    Words <- MCWords
    Blocks <- MCBlocks
    BlockOf <- MCBlockOf
    HeadOf <- MCHeadOf
    LineFeeds <- MCLineFeeds
    CandidateAt <- MCCandidateAt
    Converted <- MCConverted
    JapaneseAnswers <- NoGoogle
    SuggestAnswers <- NoGoogle
    Failed = Failed
    NotText = NotText
    Default <- MCDefault
    Valid <- MCValid
    Starts <- Plain
    RelativePaths <- Relative
    NoFile = NoFile
    Unreadable = Unreadable
    NoBlock = NoBlock
    NoEntry = NoEntry
    InitialLength = 3
    IoErrors = TRUE
INVARIANTS
    ExistingWordsAreFound
