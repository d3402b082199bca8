CONSTANTS
    ua = ua
    ub = ub
    fa = fa
    fb = fb
    None = None
    Partial = Partial
    CachePartial = CachePartial
    Urls = {ua}
    Feeds = {fa}
    Plan <- OneFeedPlan
    Encrypted = {1}
    SSE = {}
    Faults = {"apply"}
    MaxFaults = 1
SPECIFICATION FairSpec
PROPERTY PollRecovers
\* A daemon at rest waits for a version nobody need publish; Run may have returned.
CHECK_DEADLOCK FALSE
