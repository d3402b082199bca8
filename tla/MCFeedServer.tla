---------------------------- MODULE MCFeedServer ----------------------------
(***************************************************************************)
(* FeedServer with few documents and events.                               *)
(***************************************************************************)
EXTENDS FeedServer

CONSTANTS c1, c2, d1, d2
=============================================================================
