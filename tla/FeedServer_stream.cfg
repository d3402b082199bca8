CONSTANTS
    c1 = c1
    c2 = c2
    d1 = d1
    d2 = d2
    Corrupt = Corrupt
    Deleted = Deleted
    Clients = {c1}
    Docs = {d1, d2}
    TTLs = {1, 2}
    MaxWrites = 3
SPECIFICATION FairSpec
INVARIANTS
    TypeOK
    NoUpdateSkipped
PROPERTIES
    InOrder
    Delivered
