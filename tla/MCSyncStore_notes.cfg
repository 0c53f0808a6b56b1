\* one note and room for two copies; clocks slow, right and fast
CONSTANTS
    n1 = n1
    c1 = c1
    c2 = c2
    m1 = m1
    m2 = m2
    a = a
    b = b
    p = p
    q = q
    Texts = {a, b, blank, nodata}
    Blank = blank
    NoData = nodata
    Positions = {p}
    NoPos = NoPos
    Devices = {1, 2}
    NoVersion = NoVersion
    Keys = {n1, c1, c2}
    KindOf <- OneNote
    EditKeys = {n1}
    EditTexts = {a, b}
    EditTimes = {0, 1, 2}
    PageLimit = 2
    BatchMax = 1
    MaxTime = 2
    MaxSeq = 2
    Slack = 0
SPECIFICATION Spec
SYMMETRY NoteSymmetry
INVARIANTS
    TypeOK
    NothingLostUnseen
PROPERTIES
    NeverGoesBack
