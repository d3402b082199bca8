------------------------------ MODULE Reconcile ------------------------------
(***************************************************************************)
(* Reconciliation in the long-running client: every update a feed loop     *)
(* receives runs, under the daemon's mutex, as one session                 *)
(*     load the state file, run ApplyFeed against the backend, save        *)
(* (internal/daemon/daemon.go, withStateSave, applyRemoteUpdate,           *)
(* maybeReconcileFromCache; internal/client/client.go, ApplyFeed).         *)
(*                                                                         *)
(* A loop is one setup URL.  The synchronisation layer is left open here:  *)
(* any loop may receive any revision at any time, so what holds in this    *)
(* module holds whatever order the servers answer in.  Backend calls are   *)
(* steps of their own; a crash of the daemon may fall between any two.     *)
(* Of a feed's stored endpoint order the model has the revision whose      *)
(* endpoints it lists (theorem ReconciledFacts: those and no other); the   *)
(* TTL, a field no property tells apart, is left out.                      *)
(***************************************************************************)
EXTENDS Naturals, Sequences, Functions

CONSTANTS
    Loops,          \* setup URLs, one feed loop each
    Feeds,          \* feed ids
    Tunnels,        \* tunnel ids, unique within one feed document
    Names,          \* backend names (interface or connection)
    Configs,        \* wg-quick texts
    Revisions,      \* revisions a server may publish
    DocOf,          \* the feed document of a revision
    Encrypted,      \* the revisions published encrypted (and so cached)
    KeepsProfile,   \* TRUE: a disabled tunnel keeps a profile (networkmanager)
    Faults,         \* the faults explored, a subset of AllFaults
    None            \* the absent value: no revision, feed, tunnel or profile

AllFaults == {"crash", "apply", "save", "remove"}

TunnelDef ==
    [id: Tunnels, name: Names, cfg: Configs, enabled: BOOLEAN, forced: BOOLEAN]
FeedDocument == [id: Feeds, tunnels: Seq(TunnelDef)]

\* What FeedDocument.Validate and the content-derived revision guarantee.
ASSUME DocAssumption ==
    /\ DocOf \in [Revisions -> FeedDocument]
    /\ \A r \in Revisions :
         LET ts == DocOf[r].tunnels
         IN  \A i, j \in 1..Len(ts) : ts[i].id = ts[j].id => i = j
    /\ Encrypted \subseteq Revisions

ASSUME NoneAssumption ==
    /\ None \notin Loops \cup Feeds \cup Revisions
    /\ \A n \in Names, b \in BOOLEAN : None # [name |-> n, enabled |-> b]
    /\ \A c \in Configs, b \in BOOLEAN : None # [cfg |-> c, up |-> b]

ASSUME FaultAssumption == Faults \subseteq AllFaults /\ KeepsProfile \in BOOLEAN

VARIABLES
    file,     \* the state file on disk
    device,   \* the backend: what each name is configured as
    lock,     \* the loop that holds the daemon's mutex, or None
    mem,      \* the State each loop has loaded, None outside a session
    op        \* where each loop is in its session

vars == <<file, device, lock, mem, op>>

-----------------------------------------------------------------------------
(* The persistent state *)

TunnelState == [name: Names, enabled: BOOLEAN]
TunnelMap == [Tunnels -> TunnelState \cup {None}]

\* `mapped` says that the Tunnels map of the entry is not nil.
FeedState ==
    [lastRev: Revisions \cup {None}, cache: Revisions \cup {None},
     order: Revisions \cup {None}, mapped: BOOLEAN, tunnels: TunnelMap]
State ==
    [urlMap: [Loops -> Feeds \cup {None}], feeds: [Feeds -> FeedState]]

NoTunnels == [t \in Tunnels |-> None]
EmptyState ==
    [urlMap |-> [u \in Loops |-> None],
     feeds |-> [f \in Feeds |->
        [lastRev |-> None, cache |-> None, order |-> None, mapped |-> FALSE,
         tunnels |-> NoTunnels]]]

(* The backend *)

Profile == [cfg: Configs, up: BOOLEAN]

\* A successful Apply: a disabled tunnel is torn down, or kept as a profile.
ApplyEffect(cfg, enabled) ==
    IF enabled \/ KeepsProfile THEN [cfg |-> cfg, up |-> enabled] ELSE None

\* A failed Apply: nothing happened, or it was interrupted half way (the old
\* tunnel is down, or the new profile is written but not brought up or down).
FailedApplyEffects(n, cfg) ==
    {device[n], None} \cup IF KeepsProfile THEN [cfg: {cfg}, up: BOOLEAN] ELSE {}

\* Remove reports success always; with fault "remove" it may have done nothing, or
\* have left a profile that is down.
RemoveEffects(n) ==
    {None} \cup
      IF "remove" \in Faults
      THEN {device[n]} \cup
             IF KeepsProfile /\ device[n] # None THEN [cfg: Configs, up: {FALSE}] ELSE {}
      ELSE {}

(* Sessions *)

PC == {"idle", "apply", "reapply", "save"}
Op == [pc: PC, kind: {"none", "update", "cache"}, rev: Revisions \cup {None},
       i: Nat, enabled: BOOLEAN, work: TunnelMap]
IdleOp == [pc |-> "idle", kind |-> "none", rev |-> None, i |-> 0,
           enabled |-> FALSE, work |-> NoTunnels]

-----------------------------------------------------------------------------
(* Reading the session of loop u *)

Doc(u) == DocOf[op[u].rev]
FeedOf(u) == Doc(u).id
Current(u) == Doc(u).tunnels[op[u].i]
HasCurrent(u) == op[u].i <= Len(Doc(u).tunnels)
IdsOf(doc) == {doc.tunnels[i].id : i \in 1..Len(doc.tunnels)}

\* Mutant: the feed's enabled is always taken over.
FeedEnabled(t, work) == t.enabled

\* Mutant: the stored value is kept even for a forced tunnel.
StoredEnabled(t, work) ==
    IF work[t.id] # None THEN work[t.id].enabled ELSE t.enabled

\* forced=false: the feed's enabled is only the default of a new tunnel.
EffectiveEnabled(t, work) ==
    IF work[t.id] # None /\ ~t.forced THEN work[t.id].enabled ELSE t.enabled

Renamed(t, work) == work[t.id] # None /\ work[t.id].name # t.name

-----------------------------------------------------------------------------
Init ==
    /\ file = EmptyState
    /\ device = [n \in Names |-> None]
    /\ lock = None
    /\ mem = [u \in Loops |-> None]
    /\ op = [u \in Loops |-> IdleOp]

\* Mutant: the entry is looked up under the feed the setup URL had before.
ReceivedStaleFeed(u, r) ==
    LET f == IF file.urlMap[u] # None THEN file.urlMap[u] ELSE DocOf[r].id
    IN  [urlMap |-> [file.urlMap EXCEPT ![u] = f],
         feeds |-> [file.feeds EXCEPT ![f] =
            [@ EXCEPT !.cache = IF r \in Encrypted THEN r ELSE None]]]

\* A State in which the setup URL is mapped to the feed of the revision, and the
\* cached ciphertext replaced or dropped.
WithRevision(st, u, r) ==
    LET f == DocOf[r].id
    IN  [urlMap |-> [st.urlMap EXCEPT ![u] = f],
         feeds |-> [st.feeds EXCEPT ![f] =
            [@ EXCEPT !.cache = IF r \in Encrypted THEN r ELSE None]]]

\* ReconcileEndpointOrder: the order stored for feed f lists the endpoints of r.
Reordered(st, f, r) ==
    [urlMap |-> st.urlMap, feeds |-> [st.feeds EXCEPT ![f] = [@ EXCEPT !.order = r]]]

\* The loaded State after the first writes of applyRemoteUpdate.
Received(u, r) == Reordered(WithRevision(file, u, r), DocOf[r].id, r)

\* Mutant: the session does not wait for the mutex.
BeginUnlocked(u, st, pc, kind, r) ==
    /\ op[u].pc = "idle"
    /\ lock' = u
    /\ mem' = [mem EXCEPT ![u] = st]
    /\ op' = [op EXCEPT ![u] =
          [pc |-> pc, kind |-> kind, rev |-> r, i |-> 1, enabled |-> FALSE,
           work |-> st.feeds[DocOf[r].id].tunnels]]
    /\ UNCHANGED <<file, device>>

\* Mutant: tunnels are looked up by tunnel id alone, whatever their feed.
BeginAnyFeed(u, st, pc, kind, r) ==
    LET found(id) == {g \in Feeds : st.feeds[g].tunnels[id] # None}
    IN  /\ lock = None
        /\ lock' = u
        /\ mem' = [mem EXCEPT ![u] = st]
        /\ op' = [op EXCEPT ![u] =
              [pc |-> pc, kind |-> kind, rev |-> r, i |-> 1, enabled |-> FALSE,
               work |-> [id \in Tunnels |->
                  IF found(id) = {} THEN None
                  ELSE st.feeds[CHOOSE g \in found(id) : TRUE].tunnels[id]]]]
        /\ UNCHANGED <<file, device>>

\* Under the mutex, with the State st in memory, the loop enters ApplyFeed for
\* revision r (or goes straight to the save).
Begin(u, st, pc, kind, r) ==
    /\ lock = None
    /\ lock' = u
    /\ mem' = [mem EXCEPT ![u] = st]
    /\ op' = [op EXCEPT ![u] =
          [pc |-> pc, kind |-> kind, rev |-> r, i |-> 1, enabled |-> FALSE,
           work |-> st.feeds[DocOf[r].id].tunnels]]
    /\ UNCHANGED <<file, device>>

\* applyRemoteUpdate up to its gate: an unchanged revision is not reconciled.
BeginUpdate(u, r) ==
    LET st == Received(u, r)
        gate == st.feeds[DocOf[r].id].lastRev = r
    IN  Begin(u, st, IF gate THEN "save" ELSE "apply", "update", r)

\* maybeReconcileFromCache past its early returns (without a cached document
\* it saves back the state it loaded): ApplyFeed of the cached document.
BeginCache(u, f) ==
    /\ file.feeds[f].cache # None
    /\ Begin(u, file, "apply", "cache", file.feeds[f].cache)

\* Mutant: the old record is dropped without removing the old name.
RemoveRenamedForgets(u) ==
    LET t == Current(u)
    IN  /\ op[u].pc = "apply" /\ HasCurrent(u)
        /\ Renamed(t, op[u].work)
        /\ op' = [op EXCEPT ![u].pc = "reapply",
                            ![u].enabled = EffectiveEnabled(t, op[u].work),
                            ![u].work[t.id] = None]
        /\ UNCHANGED <<file, device, lock, mem>>

\* The name hint of a managed tunnel changed: remove the old name and forget
\* the tunnel; the enabled value to apply was computed before.
RemoveRenamed(u) ==
    LET t == Current(u)
        old == op[u].work[t.id].name
    IN  /\ op[u].pc = "apply" /\ HasCurrent(u)
        /\ Renamed(t, op[u].work)
        /\ \E e \in RemoveEffects(old) : device' = [device EXCEPT ![old] = e]
        /\ op' = [op EXCEPT ![u].pc = "reapply",
                            ![u].enabled = EffectiveEnabled(t, op[u].work),
                            ![u].work[t.id] = None]
        /\ UNCHANGED <<file, lock, mem>>

\* The loop stands before b.Apply of its current tunnel, with this enabled value.
Applying(u, enabled) ==
    /\ op[u].pc \in {"apply", "reapply"}
    /\ HasCurrent(u)
    /\ \/ /\ op[u].pc = "reapply"
          /\ enabled = op[u].enabled
       \/ /\ op[u].pc = "apply"
          /\ ~Renamed(Current(u), op[u].work)
          /\ enabled = EffectiveEnabled(Current(u), op[u].work)

ApplyOk(u) ==
    LET t == Current(u)
    IN  \E enabled \in BOOLEAN :
          /\ Applying(u, enabled)
          /\ device' = [device EXCEPT ![t.name] = ApplyEffect(t.cfg, enabled)]
          /\ op' = [op EXCEPT
                ![u].pc = "apply", ![u].i = @ + 1,
                ![u].work[t.id] = [name |-> t.name, enabled |-> enabled]]
          /\ UNCHANGED <<file, lock, mem>>

\* A State with the entry of one feed replaced.
Stored(st, f, fs) ==
    [urlMap |-> st.urlMap, feeds |-> [st.feeds EXCEPT ![f] = fs]]

\* Mutant: the revision counts as reconciled though an Apply of it failed.
InterruptedAsReconciled(u) ==
    LET fs == mem[u].feeds[FeedOf(u)]
    IN  IF fs.mapped THEN [fs EXCEPT !.tunnels = op[u].work, !.lastRev = op[u].rev] ELSE fs

\* The entry a failed and a finished ApplyFeed leave in the loaded State.
InterruptedEntry(u) ==
    LET fs == mem[u].feeds[FeedOf(u)]
    IN  IF fs.mapped THEN [fs EXCEPT !.tunnels = op[u].work] ELSE fs

ReconciledEntry(u) ==
    LET fs == mem[u].feeds[FeedOf(u)]
    IN  [fs EXCEPT !.lastRev = IF op[u].kind = "update" THEN op[u].rev ELSE @,
                   !.mapped = TRUE, !.tunnels = op[u].work]

\* ApplyFeed returns the error.  prev.Tunnels aliases the loaded map unless that
\* map was nil: then what this call has recorded so far is dropped with it.
ApplyFail(u) ==
    LET t == Current(u)
    IN  /\ "apply" \in Faults
        /\ \E enabled \in BOOLEAN : Applying(u, enabled)
        /\ \E e \in FailedApplyEffects(t.name, t.cfg) :
              device' = [device EXCEPT ![t.name] = e]
        /\ mem' = [mem EXCEPT ![u] = Stored(@, FeedOf(u), InterruptedEntry(u))]
        /\ op' = [op EXCEPT ![u].pc = "save"]
        /\ UNCHANGED <<file, lock>>

\* Every tunnel of the document is applied: the removals follow.
Applied(u) == op[u].pc = "apply" /\ ~HasCurrent(u)

Missing(u) ==
    {id \in Tunnels : op[u].work[id] # None /\ id \notin IdsOf(Doc(u))}

\* Mutant: the removed tunnel is not deleted from the map being drained.
RemoveMissingKeeps(u, id) ==
    LET n == op[u].work[id].name
    IN  /\ Applied(u)
        /\ id \in Missing(u)
        /\ \E e \in RemoveEffects(n) : device' = [device EXCEPT ![n] = e]
        /\ UNCHANGED <<file, lock, mem, op>>

\* A tunnel seen before and absent from the document is removed and forgotten,
\* in the order of a Go map iteration.
RemoveMissing(u, id) ==
    LET n == op[u].work[id].name
    IN  /\ Applied(u)
        /\ id \in Missing(u)
        /\ \E e \in RemoveEffects(n) : device' = [device EXCEPT ![n] = e]
        /\ op' = [op EXCEPT ![u].work[id] = None]
        /\ UNCHANGED <<file, lock, mem>>

\* ApplyFeed stores its map and returns nil; only applyRemoteUpdate then
\* advances the last reconciled revision.
EndReconcile(u) ==
    /\ Applied(u)
    /\ Missing(u) = {}
    /\ mem' = [mem EXCEPT ![u] = Stored(@, FeedOf(u), ReconciledEntry(u))]
    /\ op' = [op EXCEPT ![u].pc = "save"]
    /\ UNCHANGED <<file, device, lock>>

\* Mutant: the State is released before it is written.
SaveReleased(u) ==
    /\ op[u].pc = "save"
    /\ lock' = None
    /\ mem' = [mem EXCEPT ![u] = None]
    /\ file' = mem'[u]
    /\ op' = [op EXCEPT ![u] = IdleOp]
    /\ UNCHANGED device

\* withStateSave saves whatever the callback returned, then unlocks.
SaveOk(u) ==
    /\ op[u].pc = "save"
    /\ file' = mem[u]
    /\ lock' = None
    /\ mem' = [mem EXCEPT ![u] = None]
    /\ op' = [op EXCEPT ![u] = IdleOp]
    /\ UNCHANGED device

\* SaveAtomic fails before its rename: the old file stays.
SaveFail(u) ==
    /\ "save" \in Faults
    /\ op[u].pc = "save"
    /\ lock' = None
    /\ mem' = [mem EXCEPT ![u] = None]
    /\ op' = [op EXCEPT ![u] = IdleOp]
    /\ UNCHANGED <<file, device>>

\* The daemon dies and is started again: memory is gone, disk and backend stay.
Crash ==
    /\ "crash" \in Faults
    /\ lock # None
    /\ lock' = None
    /\ mem' = [u \in Loops |-> None]
    /\ op' = [u \in Loops |-> IdleOp]
    /\ UNCHANGED <<file, device>>

\* The steps of a session once it holds the lock.
SessionStep(u) ==
    \/ RemoveRenamed(u) \/ ApplyOk(u) \/ ApplyFail(u)
    \/ \E id \in Tunnels : RemoveMissing(u, id)
    \/ EndReconcile(u) \/ SaveOk(u) \/ SaveFail(u)

Next ==
    \/ \E u \in Loops :
         \/ \E r \in Revisions : BeginUpdate(u, r)
         \/ \E f \in Feeds : BeginCache(u, f)
         \/ SessionStep(u)
    \/ Crash

Spec == Init /\ [][Next]_vars

-----------------------------------------------------------------------------
(* Properties *)

\* The state file, the backend, the mutex and the sessions have their types.
TypeOK ==
    /\ file \in State
    /\ device \in [Names -> Profile \cup {None}]
    /\ lock \in Loops \cup {None}
    /\ mem \in [Loops -> State \cup {None}]
    /\ op \in [Loops -> Op]

\* Every name belongs to one tunnel of one feed, in all revisions.  Nothing in
\* FeedDocument.Validate asks for it; operators who keep to it get the
\* properties below that assume it.
NamesOwned ==
    \A r, s \in Revisions :
      \A i \in DOMAIN DocOf[r].tunnels, j \in DOMAIN DocOf[s].tunnels :
        DocOf[r].tunnels[i].name = DocOf[s].tunnels[j].name =>
          /\ DocOf[r].id = DocOf[s].id
          /\ DocOf[r].tunnels[i].id = DocOf[s].tunnels[j].id

NamesOf(f) ==
    {n \in Names : \E r \in Revisions : \E i \in DOMAIN DocOf[r].tunnels :
        DocOf[r].id = f /\ DocOf[r].tunnels[i].name = n}

\* Sessions of different loops do not lose each other's updates: whatever the
\* interleaving, failures and crashes, a step that changes the stored entry of
\* a feed is taken while the mutex is held for that feed, and a step that
\* changes the mapping of a setup URL while its own loop holds it
\* (withStateSave: load, callback and save under d.mu).
OnlyOwnFeedSaved ==
    [][/\ \A f \in Feeds : file'.feeds[f] # file.feeds[f] =>
             lock # None /\ FeedOf(lock) = f
       /\ \A u \in Loops : file'.urlMap[u] # file.urlMap[u] => lock = u]_vars

\* A stored ciphertext and a stored revision belong to the feed they are stored
\* under, so a cached document never names another feed than its key (the
\* branch for that case in resolveFromStateCache is never taken).
CacheKeyedByFeed ==
    \A f \in Feeds : \A r \in {file.feeds[f].cache, file.feeds[f].lastRev} :
        r # None => DocOf[r].id = f

\* Where a session stops at an error, the tunnel it could not apply (ApplyFeed).
StoppedAt(u, t) == op[u].pc = "save" /\ HasCurrent(u) /\ t = Current(u)

\* forced=false is respected from one save to the next, and so across sessions, restarts,
\* renames and failures, but for one exception: the stored enabled value of a tunnel is
\* changed only by a document that forces it, and forgotten only with a tunnel the
\* document does not list, or with one it renames where the session stops at an error
\* between forgetting the old name and recording the new one (ApplyFeed).  After that
\* exception the next session takes the tunnel for new, with the document's value.
StickyEnabled ==
    [][\A f \in Feeds, id \in Tunnels :
         LET before == file.feeds[f].tunnels[id]
             after == file'.feeds[f].tunnels[id]
             listed == {t \in Range(Doc(lock).tunnels) : t.id = id}
         IN  before # None /\ after # before =>
               /\ lock # None
               /\ after # None /\ after.enabled # before.enabled => \E t \in listed : t.forced
               /\ after = None =>
                    \A t \in listed : t.name # before.name /\ StoppedAt(lock, t)]_vars

\* What a finished ApplyFeed promises for revision r: each tunnel of the document
\* is recorded under its name, the backend holds its configuration in the
\* recorded enabled state, and a forced tunnel has the feed's value.
Converged(r, tunnels, dev) ==
    \A t \in Range(DocOf[r].tunnels) :
        /\ tunnels[t.id] # None
        /\ tunnels[t.id].name = t.name
        /\ dev[t.name] = ApplyEffect(t.cfg, tunnels[t.id].enabled)
        /\ t.forced => tunnels[t.id].enabled = t.enabled

\* When ApplyFeed has worked through a document without an error (all applied,
\* nothing left to remove) the document is in force: no rename or removal of
\* this session has undone an earlier Apply of it.
ReconcileEstablishes ==
    NamesOwned =>
      \A u \in Loops : Applied(u) /\ Missing(u) = {} =>
          Converged(op[u].rev, op[u].work, device)

\* Without the assumption on names: the promise of the draft, sections 5.2, 5.5.
ReconcileEstablishesAlways ==
    \A u \in Loops : Applied(u) /\ Missing(u) = {} =>
        Converged(op[u].rev, op[u].work, device)

\* Feeds do not disturb each other's tunnels: the backend entry of a name
\* changes only in a session of the feed that owns the name.
Isolation ==
    [][NamesOwned =>
         \A n \in Names : device'[n] # device[n] =>
             lock # None /\ n \in NamesOf(FeedOf(lock))]_vars

\* The backend entries that no record of the state file accounts for.
Orphans ==
    {n \in Names : device[n] # None /\
        ~\E f \in Feeds, id \in Tunnels :
            LET ts == file.feeds[f].tunnels[id] IN ts # None /\ ts.name = n}

\* Between sessions every tunnel the client has created is tracked in the file.
CreatedTunnelsTracked == lock = None => Orphans = {}

\* The client forgets only what it has removed: a tunnel the state file tracks is
\* still tracked, under its feed, for as long as the backend holds it, through
\* renames, removals, failed applies, failed saves and crashes (ApplyFeed, which
\* calls Remove before it deletes a record).
TrackedUntilRemoved ==
    [][NamesOwned =>
         \A f \in Feeds, id \in Tunnels :
           LET before == file.feeds[f].tunnels[id]
           IN  before # None /\ device'[before.name] # None =>
                 /\ file'.feeds[f].tunnels[id] # None
                 /\ file'.feeds[f].tunnels[id].name = before.name]_vars

\* The revisions of feed f the device holds in full, under the names and with the
\* enabled values the state file has.
Holds(f) ==
    {r \in Revisions : DocOf[r].id = f /\ Converged(r, file.feeds[f].tunnels, device)}

Sessions == INSTANCE SessionContract WITH
    Published <- {<<u, DocOf[r].id, r>> : u \in Loops, r \in Revisions},
    NoRevision <- None,
    saved <- [urlMap |-> file.urlMap,
              lastRev |-> [f \in Feeds |-> file.feeds[f].lastRev],
              cache |-> [f \in Feeds |-> file.feeds[f].cache]],
    holds <- [f \in Feeds |-> Holds(f)]

\* A session in many steps is a session in one, also when other loops wait for it
\* and when it fails or is cut short: nothing of it shows in the state file before
\* its end, and a revision is recorded as reconciled only while the device holds it,
\* with the enabled values that are recorded with it.  For documents with NamesOwned.
KeepsSessions == Sessions!Spec
=============================================================================
