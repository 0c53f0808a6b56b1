\* two marks, batches of two, pages of one row
CONSTANTS
    n1 = n1
    c1 = c1
    c2 = c2
    m1 = m1
    m2 = m2
    a = a
    b = b
    p = p
    q = q
    Texts = {a, nodata}
    Blank = a
    NoData = nodata
    Positions = {p}
    NoPos = NoPos
    Devices = {1, 2}
    NoVersion = NoVersion
    Keys = {m1, m2}
    KindOf <- Marks
    EditKeys = {m1, m2}
    EditTexts = {a}
    EditTimes = {1}
    PageLimit = 1
    BatchMax = 2
    MaxTime = 1
    MaxSeq = 2
    Slack = 1
SPECIFICATION FairSpec
INVARIANTS
    NothingMissed
PROPERTIES
    ImplementsFeed
    EveryDeviceCatchesUp
    EditsAreDelivered
