------------------------------- MODULE Daemon -------------------------------
(***************************************************************************)
(* The daemon's feed loops: one per setup URL, each resolving its feed     *)
(* from the state file, bootstrapping, streaming, falling back to polling  *)
(* and reconciling from the cached document while its servers are out of   *)
(* reach; and Run, which ends the process when the first loop returns      *)
(* (internal/daemon/daemon.go).                                            *)
(*                                                                         *)
(* One call of applyRemoteUpdate or of the cache reconciliation is one     *)
(* step here: module Reconcile shows what happens inside it and that the   *)
(* mutex keeps the calls of different loops apart.  A pass over a feed's   *)
(* endpoints is one request that succeeds or fails.  A server that keeps a *)
(* stream open delivers its versions in order (module FeedServer).         *)
(*                                                                         *)
(* What goes wrong is drawn from Faults, MaxFaults times at most.  Time is *)
(* left out: a sleep ends at some time, and the throttle of the cache      *)
(* reconciliation may hold it back or not.                                 *)
(***************************************************************************)
EXTENDS Naturals, Sequences

CONSTANTS
    Urls,        \* the setup URLs
    Feeds,       \* feed ids
    Plan,        \* for each URL, the feed id of each revision it will publish
    Encrypted,   \* the revisions published encrypted
    SSE,         \* the setup URLs whose servers offer event streams
    Faults,      \* the faults explored, a subset of AllFaults
    MaxFaults,   \* bound: how many of them
    None,        \* no feed, no URL
    Partial,     \* the backend holds no complete revision of the feed ...
    CachePartial \* ... since a reconciliation from the cached document failed

\* fetch: a request or an open stream fails; terminal: it is refused for good;
\* unsupported: a stream request is answered without a stream; apply and cache:
\* ApplyFeed fails on an update or on the cached document; crash: a restart.
AllFaults == {"fetch", "terminal", "unsupported", "apply", "cache", "crash"}

ASSUME DaemonAssumption ==
    /\ Plan \in [Urls -> Seq(Feeds) \ {<<>>}]
    /\ Encrypted \subseteq Nat /\ SSE \subseteq Urls
    /\ Faults \subseteq AllFaults /\ MaxFaults \in Nat
    /\ None \notin Urls \cup Feeds /\ {Partial, CachePartial} \cap Nat = {}

VARIABLES
    pub,       \* the revision each URL publishes now
    file,      \* the state file
    device,    \* the revision of each feed the backend holds
    claimed,   \* which loop has claimed a feed
    loop,      \* where each loop is, and its local variables
    running,   \* FALSE once Run has returned
    faults     \* how many faults there have been

vars == <<pub, file, device, claimed, loop, running, faults>>

Revisions == Nat     \* 0 stands for none

File == [urlMap: [Urls -> Feeds \cup {None}], lastRev: [Feeds -> Revisions],
         cache: [Feeds -> Revisions]]

\* got: the revision in hand; back: where the loop goes after a failure.
PC == {"start", "boot", "boot update", "stream", "event", "open", "fallback",
       "poll", "poll update", "retry", "stopped"}
Loop == [pc: PC, feed: Feeds \cup {None}, lastRev: Revisions, got: Revisions,
         back: {"boot", "stream", "poll"}]
NewLoop == [pc |-> "start", feed |-> None, lastRev |-> 0, got |-> 0, back |-> "boot"]

-----------------------------------------------------------------------------
Init ==
    /\ pub = [u \in Urls |-> 1]
    /\ file = [urlMap |-> [u \in Urls |-> None], lastRev |-> [f \in Feeds |-> 0],
               cache |-> [f \in Feeds |-> 0]]
    /\ device = [f \in Feeds |-> 0]
    /\ claimed = [f \in Feeds |-> None]
    /\ loop = [u \in Urls |-> NewLoop]
    /\ running = TRUE
    /\ faults = 0

At(u, pc) == running /\ loop[u].pc = pc

Fault(kind) ==
    /\ kind \in Faults /\ faults < MaxFaults
    /\ faults' = faults + 1

\* The loop returns: Run gets its value from errCh, whatever it is, and returns.
Return == running' = FALSE /\ UNCHANGED <<pub, file, device, claimed, loop>>

Goto(u, pc) == loop' = [loop EXCEPT ![u].pc = pc]
Retry(u, back) == loop' = [loop EXCEPT ![u].pc = "retry", ![u].back = back]

\* Mutant: a feed that is already claimed is claimed again.
Reclaim(u, f) == claimed' = [claimed EXCEPT ![f] = u]

\* claimFeedID, when it returns true.
Claim(u, f) == claimed[f] = None /\ claimed' = [claimed EXCEPT ![f] = u]

-----------------------------------------------------------------------------
(* The calls that change the state file and the backend *)

FeedAt(u, r) == Plan[u][r]

\* Mutant: a document that came unencrypted leaves the old ciphertext.
RecordedKeepsCache(u, r) ==
    LET f == FeedAt(u, r)
    IN  [file EXCEPT !.urlMap[u] = f, !.cache[f] = IF r \in Encrypted THEN r ELSE @]

\* Mutant: the setup URL is mapped to itself.
RecordedUnmapped(u, r) ==
    [file EXCEPT !.urlMap[u] = u, !.cache[FeedAt(u, r)] = IF r \in Encrypted THEN r ELSE 0]

\* Mutant: the revision counts as reconciled before ApplyFeed has succeeded.
RecordedAsReconciled(u, r) ==
    LET f == FeedAt(u, r)
    IN  [file EXCEPT !.urlMap[u] = f, !.cache[f] = IF r \in Encrypted THEN r ELSE 0,
                     !.lastRev[f] = r]

\* What applyRemoteUpdate writes whether or not ApplyFeed succeeds.
Recorded(u, r) ==
    LET f == FeedAt(u, r)
    IN  [file EXCEPT !.urlMap[u] = f, !.cache[f] = IF r \in Encrypted THEN r ELSE 0]

\* applyRemoteUpdate returns nil: the revision was reconciled before, or is now.
UpdateOk(u) ==
    LET r == loop[u].got
        f == FeedAt(u, r)
    IN  /\ file' = [Recorded(u, r) EXCEPT !.lastRev[f] = r]
        /\ device' = IF file.lastRev[f] = r THEN device ELSE [device EXCEPT ![f] = r]

\* ApplyFeed fails: lastRev stays what it was.
UpdateFails(u) ==
    LET r == loop[u].got
        f == FeedAt(u, r)
    IN  /\ Fault("apply") /\ file.lastRev[f] # r
        /\ file' = Recorded(u, r)
        /\ device' = [device EXCEPT ![f] = Partial]

-----------------------------------------------------------------------------
(* runFeed *)

\* resolveFromStateCache, and the claim of the feed it finds.
Resolve(u) ==
    LET f == file.urlMap[u]
    IN  /\ At(u, "start") /\ UNCHANGED faults
        /\ \/ /\ f = None
              /\ Goto(u, "boot")
              /\ UNCHANGED <<pub, file, device, claimed, running>>
           \/ /\ f # None /\ Claim(u, f)
              /\ loop' = [loop EXCEPT ![u].feed = f,
                    ![u].pc = IF file.cache[f] # 0 THEN "stream" ELSE "boot"]
              /\ UNCHANGED <<pub, file, device, running>>
           \/ f # None /\ claimed[f] # None /\ Return

\* The bootstrap fetch: a document, and the claim of its feed unless the loop
\* has a feed already; a failed fetch; a refusal, which ends the loop.
Bootstrap(u) ==
    LET f == FeedAt(u, pub[u])
        new == loop[u].feed = None
    IN  /\ At(u, "boot")
        /\ \/ /\ IF new THEN Claim(u, f) ELSE UNCHANGED claimed
              /\ loop' = [loop EXCEPT ![u].pc = "boot update", ![u].got = pub[u],
                                      ![u].feed = IF new THEN f ELSE @]
              /\ UNCHANGED <<pub, file, device, running, faults>>
           \/ new /\ claimed[f] # None /\ Return /\ UNCHANGED faults
           \/ /\ Fault("fetch") /\ Retry(u, "boot")
              /\ UNCHANGED <<pub, file, device, claimed, running>>
           \/ Fault("terminal") /\ Return

BootUpdate(u) ==
    /\ At(u, "boot update")
    /\ \/ /\ UpdateOk(u)
          /\ loop' = [loop EXCEPT ![u].pc = "stream", ![u].lastRev = loop[u].got]
          /\ UNCHANGED <<pub, claimed, running, faults>>
       \/ /\ UpdateFails(u)
          /\ running' = FALSE
          /\ UNCHANGED <<pub, claimed, loop>>

\* A stream is opened, and its first event is the version published now.
OpenStream(u) ==
    /\ At(u, "stream") /\ UNCHANGED <<pub, file, device, claimed, running>>
    /\ \/ /\ u \in SSE /\ UNCHANGED faults
          /\ loop' = [loop EXCEPT ![u].pc = "event", ![u].got = pub[u]]
       \/ u \in SSE /\ Fault("unsupported") /\ Goto(u, "fallback")
       \/ u \notin SSE /\ UNCHANGED faults /\ Goto(u, "fallback")
       \/ Fault("fetch") /\ Retry(u, "stream")
       \/ Fault("terminal") /\ Goto(u, "stopped")

\* The stream's callback; an error it returns ends the stream.
Event(u) ==
    /\ At(u, "event") /\ UNCHANGED <<pub, claimed, running>>
    /\ \/ /\ UpdateOk(u) /\ UNCHANGED faults
          /\ loop' = [loop EXCEPT ![u].pc = "open", ![u].lastRev = loop[u].got]
       \/ /\ UpdateFails(u)
          /\ loop' = [loop EXCEPT ![u].pc = "retry", ![u].back = "stream",
                                  ![u].lastRev = loop[u].got]

\* The open stream: its next version, or its end.
Listen(u) ==
    /\ At(u, "open") /\ UNCHANGED <<pub, file, device, claimed, running>>
    /\ \/ /\ loop[u].got < pub[u] /\ UNCHANGED faults
          /\ loop' = [loop EXCEPT ![u].pc = "event", ![u].got = @ + 1]
       \/ Fault("fetch") /\ Retry(u, "stream")

\* After ErrStreamNotSupported one fetch, whose document is not used, decides:
\* back to streaming if it says supports_sse, else (also if it fails) polling.
Fallback(u) ==
    /\ At(u, "fallback") /\ UNCHANGED <<pub, file, device, claimed, running>>
    /\ \/ UNCHANGED faults /\ Goto(u, IF u \in SSE THEN "stream" ELSE "poll")
       \/ (Fault("fetch") \/ Fault("terminal")) /\ Goto(u, "poll")

-----------------------------------------------------------------------------
(* pollLoop *)

\* A conditional fetch with the last revision received: not modified, or a
\* document, whose revision is remembered before it is applied.
Poll(u) ==
    /\ At(u, "poll") /\ UNCHANGED <<pub, file, device, claimed, running>>
    /\ \/ /\ loop[u].lastRev # pub[u] /\ UNCHANGED faults
          /\ loop' = [loop EXCEPT ![u].pc = "poll update", ![u].got = pub[u],
                                  ![u].lastRev = pub[u]]
       \/ Fault("fetch") /\ Retry(u, "poll")
       \/ Fault("terminal") /\ Goto(u, "stopped")

\* The loop goes on to its next poll whatever applyRemoteUpdate returned.
PollUpdate(u) ==
    /\ At(u, "poll update") /\ Goto(u, "poll") /\ UNCHANGED <<pub, claimed, running>>
    /\ \/ UpdateOk(u) /\ UNCHANGED faults
       \/ UpdateFails(u)

-----------------------------------------------------------------------------
(* Failures *)

\* maybeReconcileFromCache, if it is not throttled and there is a cached
\* document, then the delay and another try.
RetryAfterCache(u) ==
    LET f == loop[u].feed
        cached == f # None /\ file.cache[f] # 0
    IN  /\ At(u, "retry") /\ Goto(u, loop[u].back)
        /\ UNCHANGED <<pub, file, claimed, running>>
        /\ \/ UNCHANGED <<device, faults>>
           \/ /\ cached /\ UNCHANGED faults
              /\ device' = [device EXCEPT ![f] = file.cache[f]]
           \/ /\ cached /\ Fault("cache")
              /\ device' = [device EXCEPT ![f] = CachePartial]

\* The process dies and is started again.
Crash ==
    /\ running /\ Fault("crash")
    /\ claimed' = [f \in Feeds |-> None]
    /\ loop' = [u \in Urls |-> NewLoop]
    /\ UNCHANGED <<pub, file, device, running>>

\* The operator publishes the next revision.
Publish(u) ==
    /\ pub[u] < Len(Plan[u])
    /\ pub' = [pub EXCEPT ![u] = @ + 1]
    /\ UNCHANGED <<file, device, claimed, loop, running, faults>>

LoopStep(u) ==
    \/ Resolve(u) \/ Bootstrap(u) \/ BootUpdate(u)
    \/ OpenStream(u) \/ Event(u) \/ Listen(u) \/ Fallback(u)
    \/ Poll(u) \/ PollUpdate(u) \/ RetryAfterCache(u)

Next == Crash \/ \E u \in Urls : LoopStep(u) \/ Publish(u)

Spec == Init /\ [][Next]_vars

\* Goroutines are scheduled, requests and applies end, sleeps are over.
FairSpec == Spec /\ \A u \in Urls : WF_vars(LoopStep(u))

-----------------------------------------------------------------------------
(* Properties *)

\* The variables have their types.
TypeOK ==
    /\ pub \in [Urls -> Nat]
    /\ file \in File
    /\ device \in [Feeds -> Revisions \cup {Partial, CachePartial}]
    /\ claimed \in [Feeds -> Urls \cup {None}]
    /\ loop \in [Urls -> Loop]
    /\ running \in BOOLEAN
    /\ faults \in 0..MaxFaults

\* Every loop holds the claim of the feed it has resolved, across restarts, so no
\* two setup URLs resolve to the same feed (claimFeedID; draft section 4.1).  A feed
\* whose id changes later is applied under its new id without a claim.
ClaimsHeld ==
    \A u \in Urls : loop[u].feed # None => claimed[loop[u].feed] = u

\* The cached document never brings back an older revision than the one last
\* reconciled (maybeReconcileFromCache).
NeverOlder ==
    \A f \in Feeds : device[f] \in Revisions => device[f] >= file.lastRev[f]

\* The feed a loop's URL publishes is in force in its newest revision.
InForce(u) == device[FeedAt(u, pub[u])] = pub[u]
Polling(u) ==
    \/ loop[u].pc \in {"poll", "poll update"}
    \/ loop[u].pc = "retry" /\ loop[u].back = "poll"

\* A reconciliation from the cached document failed halfway and its revision
\* counts as reconciled: the next update with that revision is skipped.
LeftPartial(u) ==
    LET f == FeedAt(u, pub[u])
    IN  device[f] = CachePartial /\ file.lastRev[f] = pub[u]

\* Once failures and publications stop, a loop that was not stopped and does not
\* poll gets the newest revision reconciled and keeps it so, whatever failed
\* before, failed applies and restarts included (runFeed's retries); but for a
\* failed reconciliation from the cache, which nothing repairs.
StreamRecovers ==
    \A u \in Urls :
      <>[](running /\ loop[u].pc # "stopped" /\ ~Polling(u)
             => InForce(u) \/ LeftPartial(u))

\* The same for a loop that polls (draft section 2.2).
PollRecovers ==
    \A u \in Urls : <>[](running /\ Polling(u) => InForce(u))

\* Without faults the daemon keeps running, also with duplicate setup URLs
\* (cmd/wg-feed-daemon/README.md).
KeepsRunning == running

Sessions == INSTANCE SessionContract WITH
    Loops <- Urls,
    Published <- UNION {{<<u, FeedAt(u, r), r>> : r \in DOMAIN Plan[u]} : u \in Urls},
    NoRevision <- 0,
    saved <- file,
    holds <- [f \in Feeds |-> {device[f]} \ {0, Partial, CachePartial}]

\* Whatever a loop does, it changes the state file and the device as a session of
\* Reconcile may: a revision counts as reconciled only if the device held it then.
KeepsSessions == Sessions!Spec
=============================================================================
