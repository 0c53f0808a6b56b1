\* queues of one book, one break of any kind
SPECIFICATION MCFairSpec
CONSTANTS
    b1 = b1
    b2 = b2
    w1 = w1
    w2 = w2
    Manifest <- ManifestDef
    Workers = {w1, w2}
    Spoilt = {b2}
    Fetchers = {1, 2}
    BooksMax = 1
    VectorsMax = 1
    MaxBreaks = 1
    Senders = {1, 2}
    NoFile = NoFile
    MaxChunks = 2
    MaxCuts = 1
CHECK_DEADLOCK FALSE
INVARIANTS
    FleetHolds
    LoadedIsWhole
PROPERTIES
    BooksEnd
    DoneIsTaken
