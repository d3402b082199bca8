CONSTANTS
    setup = setup
    a = a
    b = b
    c = c
    ka = ka
    kb = kb
    kc = kc
    None = None
    URLs = {setup, a, b, c}
    Setup = setup
    Keys = {ka, kb, kc}
    Key <- KeyOf
    Docs <- TwoDocs
    Answers <- AllAnswers
    MaxChanges = 3
SPECIFICATION FairSpec
INVARIANTS
    TypeOK
    OrderFitsEndpoints
    RecentFirst
PROPERTIES
    StopsOnlyWhenAllRefuse
    GetsDocument
\* A loop that has stopped waits for the end of the process.
CHECK_DEADLOCK FALSE
