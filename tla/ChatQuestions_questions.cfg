\* one account, two chats, two requests at once; three questions
CONSTANTS
    Users = {u1}
    Chats = {c1, c2}
    Slots = {s1, s2}
    Statuses = {"ok", "error"}
    Daily = 1
    PerMinute = 1
    Everyone = 2
    MaxMessages = 4
    MaxChats = 2
    NoChat = NoChat
    NoRow = NoRow
    MaxLog = 3
SPECIFICATION FairSpec
CHECK_DEADLOCK FALSE
INVARIANTS
    NobodyLockedOut
    QuotaHolds
    ChatsHold
PROPERTIES
    DeletedStaysDeleted
    AskersAreFreed
