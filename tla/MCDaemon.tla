------------------------------ MODULE MCDaemon ------------------------------
(***************************************************************************)
(* Small instances of Daemon: two setup URLs and what they publish.        *)
(***************************************************************************)
EXTENDS Daemon, TLC

CONSTANTS ua, ub, fa, fb

\* A feed; and a URL that first publishes the same feed, then another one, in two
\* revisions.
SharedFeedPlan == (ua :> <<fa>>) @@ (ub :> <<fa, fb, fb>>)

\* Two setup URLs of the same feed.
DuplicatePlan == (ua :> <<fa>>) @@ (ub :> <<fa>>)

\* One feed in two revisions.
OneFeedPlan == ua :> <<fa, fa>>
=============================================================================
