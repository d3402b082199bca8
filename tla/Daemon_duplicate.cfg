CONSTANTS
    ua = ua
    ub = ub
    fa = fa
    fb = fb
    None = None
    Partial = Partial
    CachePartial = CachePartial
    Urls = {ua, ub}
    Feeds = {fa}
    Plan <- DuplicatePlan
    Encrypted = {1}
    SSE = {ua, ub}
    Faults = {}
    MaxFaults = 0
SPECIFICATION Spec
INVARIANT KeepsRunning
\* A daemon at rest waits for a version nobody need publish; Run may have returned.
CHECK_DEADLOCK FALSE
