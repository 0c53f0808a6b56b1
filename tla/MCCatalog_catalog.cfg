\* one writer, one client of the feed or of a category: books edited, moved and deleted, the category renamed, half a year passes
CONSTANTS
    Writers = {w1}
    Clients = {c1}
    Books = {b1, b2}
    Texts = {t}
    Hidden = Hidden
    Gone = Gone
    Titles = {u, v}
    Movable = {b1}
    Seeded = {b1}
    MaxXid = 3
    MaxSeq = 4
    PageLimit = 1
    MaxAge = 1
SPECIFICATION MCFairSpec
INVARIANTS
    FeedMissesNothing
PROPERTIES
    FeedCatchesUp
    ContentsMoveVersion
    ShelvesCatchUp
