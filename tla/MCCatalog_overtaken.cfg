\* two writers at once
CONSTANTS
    Writers = {w1, w2}
    Clients = {c1}
    Books = {b1, b2}
    Texts = {t}
    Hidden = Hidden
    Gone = Gone
    Titles = {u}
    Movable = {}
    Seeded = {b1, b2}
    MaxXid = 3
    MaxSeq = 4
    PageLimit = 1
    MaxAge = 0
SPECIFICATION FeedSpec
INVARIANTS
    NothingMissed
