SPECIFICATION Spec
CONSTANTS
    ChunkTokens = 2
    WindowSize = 4
    MaxWindow = 30
    MaxTable = 3
    BreakRange = 3
    RrfK = 60
    Semantic = 7
    Lexical = 3
    MaxRank = 4
    Documents <- MCDocuments
    Contents <- MCContents
    Outlines <- MCOutlines
    ResultLists <- MCResultLists
    Registries <- MCRegistries
    Formats = {"docx", "txt", "md"}
    TopKs = {1, 3}
    SentenceLens = {3, 11, 13}
    MaxPars = 2
    TextLength = 7
    MaxLines = 5
    ListLength = 3
INVARIANT NoTextLost
INVARIANT ChunksBounded
INVARIANT StartsExactWhereCounted
INVARIANT WindowIsBest
INVARIANT LibraryCovers
INVARIANT BlocksStayWhole
INVARIANT SectionPaths
INVARIANT DominanceRespected
INVARIANT ResolvesShortest
\* Each input is worked on once.
CHECK_DEADLOCK FALSE
