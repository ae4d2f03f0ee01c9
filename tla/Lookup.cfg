SPECIFICATION Spec
CONSTANTS
    a = a
    d = d
    e = e
    f = f
    Words <- MCWords
    Blocks <- MCBlocks
    BlockOf <- MCBlockOf
    HeadOf <- MCHeadOf
    LineFeeds <- MCLineFeeds
    CandidateAt <- MCCandidateAt
    Converted <- MCConverted
    JapaneseAnswers <- MCJapaneseAnswers
    SuggestAnswers <- MCSuggestAnswers
    Failed = Failed
    NotText = NotText
    Default <- MCDefault
    Valid <- MCValid
    Starts <- MCStarts
    RelativePaths <- Relative
    NoFile = NoFile
    Unreadable = Unreadable
    NoBlock = NoBlock
    NoEntry = NoEntry
    InitialLength = 3
    IoErrors = TRUE
INVARIANTS
    ReturnsTheBlock
    LookupIsComplete
    DisabledGoogleIsNotAsked
    GoogleIsAskedOnlyIfNeeded
    CandidatesAreChoices
    NoServiceIsLost
    CandidatesAreBounded
    GivenIsUsed
    ContradictionsAreRefused
PROPERTIES
    DeliveredIsKept
