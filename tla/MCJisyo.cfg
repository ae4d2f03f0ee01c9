SPECIFICATION Spec
CONSTANTS
    Conversions <- Table
    CodingEuc <- EucHeader
    CodingUtf8 <- Utf8Header
    AmbiguousPart = 10
    NearZeroPart = 40
    MaxNearZero = 1000
    DetectLength = 80
    MinLineLength = 5
    MaxLineLength = 120
    MinCandidatesLength = 3
    ReadErrors = 1
    Arguments <- CommandLines
    NoFile = NoFile
    ForeignUtf8 <- Thai
INVARIANTS
    EntriesAreThoseOfTheLines
    DetectedAsWritten
    NothingIsMadeUp
    CachedCandidatesStayWhole
PROPERTIES
    LinesOnlyAdd
CHECK_DEADLOCK FALSE
