CONSTANTS
    ua = ua
    ub = ub
    fa = fa
    fb = fb
    None = None
    Partial = Partial
    CachePartial = CachePartial
    Urls = {ua, ub}
    Feeds = {fa, fb}
    Plan <- SharedFeedPlan
    Encrypted = {1, 2}
    SSE = {ub}
    Faults = {"fetch", "terminal", "unsupported", "apply", "cache", "crash"}
    MaxFaults = 4
SPECIFICATION FairSpec
INVARIANTS
    TypeOK
    ClaimsHeld
    NeverOlder
PROPERTIES
    StreamRecovers
    KeepsSessions
\* A daemon at rest waits for a version nobody need publish; Run may have returned.
CHECK_DEADLOCK FALSE
