------------------------------- MODULE OneShot -------------------------------
(***************************************************************************)
(* The one-shot client: one run fetches and applies each setup URL of its  *)
(* list in turn on one State in memory, and saves it only if every URL     *)
(* succeeded (internal/client/client.go, RunOnce and applyOne;             *)
(* internal/client/state/state.go, SaveAtomic).                            *)
(*                                                                         *)
(* ApplyFeed and the backend are those of Reconcile.  The state file is    *)
(* the daemon's, too: its sessions come in between two runs, never during  *)
(* one, which the operator has to see to, for nothing in the code does.    *)
(* While a run is on, `lock` names the URL it works on, mem[lock] is its   *)
(* State and op[lock] its call of ApplyFeed.                               *)
(***************************************************************************)
EXTENDS Reconcile

CONSTANTS
    Lists,    \* the lists of setup URLs the client may be run with
    Torn      \* the contents of a file that is not written to its end

ASSUME ListsAssumption ==
    /\ Lists \subseteq Seq(Loops) \ {<<>>}
    /\ Torn # None

VARIABLES
    run,      \* where the run is
    tmp       \* the file next to the state file, or None

runVars == <<run, tmp>>

Run ==
    [pc: {"idle", "fetch", "apply", "truncate", "write", "rename"},
     list: Lists \cup {<<>>}, k: Nat, seen: SUBSET Revisions]
NoRun == [pc |-> "idle", list |-> <<>>, k |-> 0, seen |-> {}]

OnceInit == Init /\ run = NoRun /\ tmp = None

-----------------------------------------------------------------------------
(* One run *)

Start(list) ==
    /\ run.pc = "idle" /\ lock = None
    /\ file # Torn
    /\ run' = [pc |-> "fetch", list |-> list, k |-> 1, seen |-> {}]
    /\ lock' = list[1]
    /\ mem' = [mem EXCEPT ![list[1]] = file]
    /\ UNCHANGED <<file, device, op, tmp>>

\* The run goes on with the State st: to the next URL of the list, or to the save.
Continue(st) ==
    LET next == run.list[run.k + 1]
    IN  /\ op' = [op EXCEPT ![lock] = IdleOp]
        /\ IF run.k < Len(run.list)
           THEN /\ run' = [run EXCEPT !.pc = "fetch", !.k = @ + 1]
                /\ lock' = next
                /\ mem' = [[mem EXCEPT ![lock] = None] EXCEPT ![next] = st]
           ELSE /\ run' = [run EXCEPT !.pc = "truncate"]
                /\ mem' = [mem EXCEPT ![lock] = st]
                /\ UNCHANGED lock

\* The run is over, and what it has in memory is gone.
Quit ==
    /\ run' = NoRun
    /\ lock' = None
    /\ mem' = [u \in Loops |-> None]
    /\ op' = [u \in Loops |-> IdleOp]

\* Mutant: a run does not remember the feeds its URLs resolved to.
SeenFeedsNone == {}

\* The feeds this run has applied.
SeenFeeds == {DocOf[r].id : r \in run.seen}

\* The State once applyOne has fetched revision r.  With a cached document the fetch goes
\* to its endpoints, and the order stored for the feed of that document, whichever feed r
\* is of, is then that of r's endpoints.
AfterFetch(r) ==
    LET st == mem[lock]
        cached == st.urlMap[lock]
    IN  IF cached # None /\ st.feeds[cached].cache # None
        THEN Reordered(st, cached, r) ELSE st

\* applyOne's first URL to resolve to a feed: its document is recorded and applied.
Fetched(r) ==
    LET st == WithRevision(AfterFetch(r), lock, r)
    IN  /\ run.pc = "fetch"
        /\ DocOf[r].id \notin SeenFeeds
        /\ run' = [run EXCEPT !.pc = "apply", !.seen = @ \cup {r}]
        /\ mem' = [mem EXCEPT ![lock] = st]
        /\ op' = [op EXCEPT ![lock] =
              [pc |-> "apply", kind |-> "update", rev |-> r, i |-> 1, enabled |-> FALSE,
               work |-> st.feeds[DocOf[r].id].tunnels]]
        /\ UNCHANGED <<file, device, lock, tmp>>

\* A later URL that resolves to a feed of this run is ignored.
Ignored(r) ==
    /\ run.pc = "fetch"
    /\ DocOf[r].id \in SeenFeeds
    /\ Continue(AfterFetch(r))
    /\ UNCHANGED <<file, device, tmp>>

\* ApplyFeed, up to its end.
Applies ==
    /\ run.pc = "apply"
    /\ \/ RemoveRenamed(lock) \/ ApplyOk(lock) \/ EndReconcile(lock)
       \/ \E id \in Tunnels : RemoveMissing(lock, id)
    /\ UNCHANGED runVars

AppliedOne ==
    /\ run.pc = "apply" /\ op[lock].pc = "save"
    /\ Continue(mem[lock])
    /\ UNCHANGED <<file, device, tmp>>

\* Mutant: what was done so far is saved.
FailSaves ==
    /\ \/ run.pc = "fetch" /\ UNCHANGED device
       \/ /\ run.pc = "apply" /\ "apply" \in Faults
          /\ \E enabled \in BOOLEAN : Applying(lock, enabled)
          /\ \E e \in FailedApplyEffects(Current(lock).name, Current(lock).cfg) :
                device' = [device EXCEPT ![Current(lock).name] = e]
    /\ file' = mem[lock]
    /\ Quit
    /\ UNCHANGED tmp

\* The URL cannot be fetched, its cached ciphertext does not decrypt, or an Apply
\* fails: the run ends without a save.
Fails ==
    /\ \/ run.pc = "fetch" /\ UNCHANGED device
       \/ /\ run.pc = "apply" /\ "apply" \in Faults
          /\ \E enabled \in BOOLEAN : Applying(lock, enabled)
          /\ \E e \in FailedApplyEffects(Current(lock).name, Current(lock).cfg) :
                device' = [device EXCEPT ![Current(lock).name] = e]
    /\ Quit
    /\ UNCHANGED <<file, tmp>>

(* SaveAtomic *)

SaveStep(from, to) == run.pc = from /\ run' = [run EXCEPT !.pc = to]

\* Mutant: the state file itself is opened and written.
TruncateInPlace ==
    /\ SaveStep("truncate", "write")
    /\ file' = Torn
    /\ UNCHANGED <<device, lock, mem, op, tmp>>

Truncate ==
    /\ SaveStep("truncate", "write")
    /\ tmp' = Torn
    /\ UNCHANGED <<file, device, lock, mem, op>>

Write ==
    /\ SaveStep("write", "rename")
    /\ tmp' = mem[lock]
    /\ UNCHANGED <<file, device, lock, mem, op>>

Rename ==
    /\ run.pc = "rename"
    /\ file' = tmp
    /\ tmp' = None
    /\ Quit
    /\ UNCHANGED device

\* What a run that stops leaves of the temporary file: no one reads it, for the next save
\* truncates it, so that whatever it holds counts as Torn.
LeftBehind == IF tmp = None THEN None ELSE Torn

SaveFails ==
    /\ "save" \in Faults
    /\ run.pc \in {"truncate", "write", "rename"}
    /\ tmp' = LeftBehind
    /\ Quit
    /\ UNCHANGED <<file, device>>

(* The rest of the system *)

Killed ==
    /\ "crash" \in Faults
    /\ run.pc # "idle"
    /\ tmp' = LeftBehind
    /\ Quit
    /\ UNCHANGED <<file, device>>

\* The daemon, whose save is one step here; it goes by way of the same tmp.
BesideRuns ==
    /\ tmp' = IF file' = file THEN tmp ELSE None
    /\ UNCHANGED run

DaemonStep == run.pc = "idle" /\ Next /\ BesideRuns

RunStep ==
    \/ \E r \in Revisions : Fetched(r) \/ Ignored(r)
    \/ Applies \/ AppliedOne \/ Fails
    \/ Truncate \/ Write \/ Rename \/ SaveFails

DaemonSession == run.pc = "idle" /\ (\E u \in Loops : SessionStep(u)) /\ BesideRuns

OnceNext == (\E list \in Lists : Start(list)) \/ RunStep \/ Killed \/ DaemonStep

OnceSpec == OnceInit /\ [][OnceNext]_<<vars, runVars>>

\* Fetches and commands return, the process and the goroutine that holds the mutex
\* are scheduled.
FairOnceSpec ==
    /\ OnceSpec
    /\ WF_<<vars, runVars>>(RunStep)
    /\ WF_<<vars, runVars>>(DaemonSession)

-----------------------------------------------------------------------------
(* Properties *)

\* The run and its temporary file have their types, the state file is readable: a
\* run or a daemon that is killed while it saves leaves the old file or the new one.
RunTypeOK ==
    /\ TypeOK
    /\ run \in Run
    /\ tmp \in State \cup {Torn, None}

\* A run that gets as far as the save has put every document it was given in force:
\* no later feed of the list has undone an earlier one.
AllInForce ==
    NamesOwned /\ run.pc \in {"truncate", "write", "rename"} =>
      \A r \in run.seen : Converged(r, mem[lock].feeds[DocOf[r].id].tunnels, device)

\* Two entries of a feed that may differ in the stored order of its endpoints only.
SameButOrder(new, old) ==
    /\ new.lastRev = old.lastRev /\ new.cache = old.cache
    /\ new.mapped = old.mapped /\ new.tunnels = old.tunnels

\* The feeds whose cached document gives the run the endpoints of one of its URLs.
FetchedBy == {f \in Feeds : file.feeds[f].cache # None /\
                 \E u \in Range(run.list) : file.urlMap[u] = f}

\* A run changes the state file at its end or not at all: then each feed it was
\* given is recorded at the revision it was given, and the feed of every URL that is
\* not in its list is as the file had it before.  So is the entry of every other feed
\* but for its endpoint order: a feed with a cached document that had the feed of a URL
\* of the list before is left with the endpoints of the document fetched by it.
AllOrNothing ==
    [][run.pc # "idle" /\ file' # file =>
         /\ \A r \in run.seen : file'.feeds[DocOf[r].id].lastRev = r
         /\ \A f \in Feeds \ SeenFeeds :
              /\ SameButOrder(file'.feeds[f], file.feeds[f])
              /\ file'.feeds[f].order # file.feeds[f].order => f \in FetchedBy
         /\ \A u \in Loops \ Range(run.list) : file'.urlMap[u] = file.urlMap[u]]_<<vars, runVars>>

\* The stored enabled value of a tunnel changes in a run only if a document the run was
\* given forces it, and is forgotten only if such a document does not list the tunnel: a
\* run that stops between the removal of an old name and the Apply of the new one saves
\* nothing.
RunStickyEnabled ==
    [][run.pc # "idle" =>
         \A f \in Feeds, id \in Tunnels :
           LET before == file.feeds[f].tunnels[id]
               after == file'.feeds[f].tunnels[id]
           IN  before # None /\ after # before =>
                 \E r \in run.seen :
                   /\ DocOf[r].id = f
                   /\ after = None => id \notin IdsOf(DocOf[r])
                   /\ after # None /\ after.enabled # before.enabled =>
                        \E t \in Range(DocOf[r].tunnels) : t.id = id /\ t.forced]_<<vars, runVars>>

\* A run that is started comes to its end, and a session of the daemon gives the
\* mutex back, whatever fails on the way.
LockReleased == lock # None ~> lock = None
=============================================================================
