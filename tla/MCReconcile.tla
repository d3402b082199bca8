----------------------------- MODULE MCReconcile -----------------------------
(***************************************************************************)
(* Small instances of Reconcile: documents that rename, force, drop and    *)
(* hand over tunnels, in one feed or in two.                               *)
(***************************************************************************)
EXTENDS Reconcile, TLC

CONSTANTS ua, ub, fa, fb, t1, t2, n1, n2, n3, n4, c1, c2, r1, r2, r3, q1

T(id, name, cfg, enabled, forced) ==
    [id |-> id, name |-> name, cfg |-> cfg, enabled |-> enabled, forced |-> forced]
D(id, tunnels) == [id |-> id, tunnels |-> tunnels]

\* Two feeds that reuse a tunnel id; r2 renames t1, forces it and drops t2.
TwoFeedDocs ==
    (r1 :> D(fa, <<T(t1, n1, c1, TRUE, FALSE), T(t2, n2, c1, TRUE, FALSE)>>)) @@
    (r2 :> D(fa, <<T(t1, n3, c2, FALSE, TRUE)>>)) @@
    (q1 :> D(fb, <<T(t1, n4, c1, TRUE, FALSE)>>))

\* Three revisions of one feed, every name of one tunnel: r2 renames t1, changes
\* its unforced default and forces t2; r3 drops t1.
OneFeedDocs ==
    (r1 :> D(fa, <<T(t1, n1, c1, TRUE, FALSE), T(t2, n2, c1, TRUE, FALSE)>>)) @@
    (r2 :> D(fa, <<T(t2, n2, c2, TRUE, TRUE), T(t1, n3, c2, FALSE, FALSE)>>)) @@
    (r3 :> D(fa, <<T(t2, n2, c1, FALSE, FALSE)>>))

\* A tunnel is deleted and recreated under a new id with the same name.
HandoverDocs ==
    (r1 :> D(fa, <<T(t1, n1, c1, TRUE, FALSE)>>)) @@
    (r2 :> D(fa, <<T(t2, n1, c2, TRUE, FALSE)>>))
=============================================================================
