--------------------------- MODULE SessionContract ---------------------------
(***************************************************************************)
(* What a session of the daemon (withStateSave with applyRemoteUpdate or   *)
(* with the cache reconciliation, internal/daemon/daemon.go) does to the   *)
(* state file and to the device, seen feed by feed.  The state file is     *)
(* changed in one step, for one setup URL and the feed of one document;    *)
(* the device is worked on at other times, one feed at a time; and a       *)
(* revision is recorded as reconciled only while the device holds it.      *)
(*                                                                         *)
(* Reconcile implements this with a session in many steps, Daemon with a   *)
(* session in one: the contract is what the one may take from the other.   *)
(***************************************************************************)
CONSTANTS
    Loops,       \* setup URLs
    Feeds,       \* feed ids
    Revisions,   \* revisions of documents
    Published,   \* <<u, f, r>>: setup URL u may bring revision r, of feed f
    Encrypted,   \* the revisions that are cached
    None,        \* no feed
    NoRevision   \* no revision

VARIABLES
    saved,       \* the state file: the feed of each URL; per feed, the revision
                 \* last reconciled and the cached one
    holds        \* per feed, the revisions the device holds in full

vars == <<saved, holds>>

Saved ==
    [urlMap: [Loops -> Feeds \cup {None}],
     lastRev: [Feeds -> Revisions \cup {NoRevision}],
     cache: [Feeds -> Revisions \cup {NoRevision}]]

-----------------------------------------------------------------------------
Init ==
    /\ saved = [urlMap |-> [u \in Loops |-> None],
                lastRev |-> [f \in Feeds |-> NoRevision],
                cache |-> [f \in Feeds |-> NoRevision]]
    /\ holds \in [Feeds -> SUBSET Revisions]

\* What the device holds changes for no feed but f.
Touched(f) ==
    /\ holds' \in [Feeds -> SUBSET Revisions]
    /\ \A g \in Feeds \ {f} : holds'[g] = holds[g]

\* The device is changed for the tunnels of one feed.
Work(f) == Touched(f) /\ UNCHANGED saved

\* A session for revision r of feed f, received from setup URL u, is saved.
Record(u, f, r) ==
    /\ Touched(f)
    /\ \E rec \in {saved.lastRev[f], r} :
         /\ saved' = [urlMap |-> [saved.urlMap EXCEPT ![u] = f],
                      lastRev |-> [saved.lastRev EXCEPT ![f] = rec],
                      cache |-> [saved.cache EXCEPT ![f] =
                                   IF r \in Encrypted THEN r ELSE NoRevision]]
         /\ rec # saved.lastRev[f] => rec \in holds'[f]

Next ==
    \/ \E f \in Feeds : Work(f)
    \/ \E p \in Published : Record(p[1], p[2], p[3])

Spec == Init /\ [][Next]_vars
=============================================================================
