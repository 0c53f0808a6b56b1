\* one user with two phones, two books, two notifications
CONSTANTS
    u1 = u1
    t2 = t2
    l1 = l1
    l2 = l2
    t1 = t1
    Users = {u1}
    Logins = {l1, l2}
    UserOf <- OneUser
    Tokens = {t1, t2}
    NoDevice = NoDevice
    NoRow = NoRow
    Batch = 2
    MaxAttempts = 2
    DailyCap = 1
    MaxRows = 2
    MaxBreaks = 1
    Books = {b1, b2}
    b1 = b1
    b2 = b2
    Library = {b1}
    MaxVersion = 2
    MaxClock = 4
SPECIFICATION MCFairSpec
CHECK_DEADLOCK FALSE
INVARIANTS
    OneLoginPerToken
    SendingHolds
    DigestsHold
PROPERTIES
    EveryRowEnds
