------------------------------ MODULE MCOneShot ------------------------------
(***************************************************************************)
(* A small instance of OneShot.                                            *)
(***************************************************************************)
EXTENDS OneShot, MCReconcile

\* Two feeds that reuse a tunnel id; t2 of r1 is disabled, r2 renames t1, forces it off and
\* drops t2.
TwoFeedRunDocs ==
    (r1 :> D(fa, <<T(t1, n1, c1, TRUE, FALSE), T(t2, n2, c1, FALSE, FALSE)>>)) @@
    (r2 :> D(fa, <<T(t1, n4, c2, FALSE, TRUE)>>)) @@
    (q1 :> D(fb, <<T(t1, n3, c1, TRUE, FALSE)>>))

\* Both URLs, or the second one alone.
TwoLists == {<<ua, ub>>, <<ub>>}
=============================================================================
