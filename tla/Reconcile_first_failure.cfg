CONSTANTS
    ua = ua
    ub = ub
    fa = fa
    fb = fb
    t1 = t1
    t2 = t2
    n1 = n1
    n2 = n2
    n3 = n3
    n4 = n4
    c1 = c1
    c2 = c2
    r1 = r1
    r2 = r2
    r3 = r3
    q1 = q1
    None = None
    Tunnels = {t1, t2}
    Configs = {c1, c2}
    Loops = {ua}
    Feeds = {fa}
    Names = {n1, n2, n3}
    Revisions = {r1, r2, r3}
    DocOf <- OneFeedDocs
    Encrypted = {r1, r2}
    KeepsProfile = FALSE
    Faults = {"apply"}
SPECIFICATION Spec
INVARIANTS
    CreatedTunnelsTracked
