CONSTANTS
    Titles = {"t"}
    Texts = {"old", "new"}
    Volumes = {0, 1}
    MaxId = 2
    MaxVersion = 2
    Importers = {"r1", "r2", "script"}
    Requests = {"r1", "r2"}
    Drafts = {"d"}
    Threads = {"h1", "h2"}
    Shelf <- TheShelf
    DraftBooks <- TheBooks
    Forms <- TheForms
    MaxHandlers = 2
    MaxPlans = 1
    MaxRequests = 2
    MaxSecond = 0
SPECIFICATION FairSpec
CHECK_DEADLOCK FALSE
INVARIANTS
    LibraryHolds
PROPERTIES
    PlanLockEnds
    TornBooksHeal
