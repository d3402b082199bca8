--------------------------- MODULE OneShotProofs ---------------------------
(***************************************************************************)
(* Proofs about OneShot, for any lists of setup URLs, feeds, tunnels,      *)
(* revisions and faults.                                                   *)
(*                                                                         *)
(* Between two runs, and while a run is in ApplyFeed, the invariants of    *)
(* Reconcile hold (SessionInv) and its lemmas give their preservation.     *)
(* Between two URLs no call of ApplyFeed is on; what is known there of the *)
(* State in memory (RunState) is what the next call starts from.  A run    *)
(* works on each feed once, and that makes the two fit together: the entry *)
(* of a feed the run has not come to is still the stored one, and the      *)
(* entry of one it has applied is not written again.                       *)
(***************************************************************************)
EXTENDS OneShot, ReconcileDeviceProofs

onceVars == <<vars, runVars>>

\* What Reconcile keeps of its sessions, whatever State they have loaded.
SessionInv ==
    /\ TypeOK /\ SessionOK /\ KeyedStates /\ AllSticky /\ AllRemembering
    /\ NamesOwned => OwnedStates /\ InForceSoFar

\* A run stands at a URL of its list; no call of ApplyFeed is on outside "apply".
RunAt ==
    /\ run.list \in Lists /\ run.k \in 1..Len(run.list)
    /\ lock = run.list[run.k] /\ mem[lock] \in State
    /\ \A u \in Loops : u # lock \/ run.pc # "apply" => op[u].pc = "idle"
    /\ run.pc = "apply" => op[lock].kind = "update" /\ op[lock].rev \in run.seen
    /\ run.pc = "rename" => tmp = mem[lock]

\* The run is applying revision r now.
InWork(r) == run.pc = "apply" /\ op[lock].pc # "save" /\ r = op[lock].rev

\* The entry a State has for the feed of revision r.
EntryOf(st, r) == st.feeds[DocOf[r].id]

\* Where st has another enabled value than the file for a tunnel of r's feed, r forces it;
\* where it has lost the tunnel, r does not list it.
KeepsEnabled(st, r) ==
    \A id \in Tunnels :
      LET before == EntryOf(file, r).tunnels[id]
          after == EntryOf(st, r).tunnels[id]
      IN  before # None =>
            /\ after = None => id \notin IdsOf(DocOf[r])
            /\ after # None /\ after.enabled # before.enabled =>
                 \E t \in Range(DocOf[r].tunnels) : t.id = id /\ t.forced

\* Revision r is recorded in st, with the stored enabled values, and in force.
Done(st, r) ==
    /\ EntryOf(st, r).lastRev = r
    /\ KeepsEnabled(st, r)
    /\ NamesOwned => Converged(r, EntryOf(st, r).tunnels, device)

\* What a State may differ from the file in, for a run that was given these feeds.
AgreesBut(st, feeds) ==
    /\ \A f \in Feeds \ feeds :
         /\ SameButOrder(st.feeds[f], file.feeds[f])
         /\ st.feeds[f].order # file.feeds[f].order => f \in FetchedBy
    /\ \A u \in Loops :
         st.urlMap[u] # file.urlMap[u] => u \in Range(run.list) /\ st.urlMap[u] \in feeds

\* What is in memory is what is stored, but for the feeds of the run, each of which
\* it was given one revision of, and the endpoint order of those it fetched by.
RunState ==
    /\ AgreesBut(mem[lock], SeenFeeds)
    /\ \A r, s \in run.seen : DocOf[r].id = DocOf[s].id => r = s
    /\ \A r \in run.seen : ~InWork(r) => Done(mem[lock], r)

\* A State as Reconcile leaves it.
StateOK(st) == Keyed(st) /\ (NamesOwned => OwnedState(st))

OnceInv ==
    /\ RunTypeOK
    /\ run.pc \in {"idle", "apply"} => SessionInv
    /\ run.pc # "idle" => RunAt /\ RunState /\ StateOK(file) /\ StateOK(mem[lock])

-----------------------------------------------------------------------------
(* Reconcile's invariants between and inside its sessions *)

LEMMA SessionInit == Init => SessionInv
<1> SUFFICES ASSUME Init PROVE SessionInv
  OBVIOUS
<1>1. TypeOK /\ SessionOK /\ lock = None
  BY TypeInit DEF Init
<1>2. OwnedState(file)
  BY DEF Init, EmptyState, NoTunnels, OwnedState, OwnedMap
<1>3. KeyedStates
  BY NoneAssumption DEF Init, EmptyState, KeyedStates, Keyed
<1> QED
  BY <1>1, <1>2, <1>3, NoneAssumption DEF SessionInv, OwnedStates, InForceSoFar, AllSticky,
     AllRemembering

LEMMA SessionNext ==
    ASSUME SessionInv, [Next]_vars
    PROVE  SessionInv'
<1>1. TypeOK' /\ SessionOK' /\ KeyedStates' /\ AllSticky' /\ AllRemembering'
  BY TypeNext, KeyedNext, StickyNext, RememberingNext DEF SessionInv
<1>2. (NamesOwned => OwnedStates /\ InForceSoFar)'
  BY DeviceNext DEF SessionInv, NamesOwned
<1> QED
  BY <1>1, <1>2 DEF SessionInv

\* A State with a rewritten endpoint order, or one that has received a revision, is as
\* good as it was.
LEMMA ReorderedOK ==
    ASSUME NEW st \in State, NEW f \in Feeds, NEW r \in Revisions, StateOK(st)
    PROVE  StateOK(Reordered(st, f, r))
<1>1. PICK new : new = Reordered(st, f, r)
  OBVIOUS
<1>2. \A g \in Feeds : /\ new.feeds[g].tunnels = st.feeds[g].tunnels
                      /\ new.feeds[g].lastRev = st.feeds[g].lastRev
                      /\ new.feeds[g].cache = st.feeds[g].cache
  BY <1>1, ReorderedKeeps
<1>3. Keyed(st) => Keyed(new)
  BY <1>2 DEF Keyed
<1>4. OwnedState(st) => OwnedState(new)
  BY <1>2 DEF OwnedState
<1> QED
  BY <1>1, <1>3, <1>4 DEF StateOK

LEMMA WithRevisionOK ==
    ASSUME NEW st \in State, NEW u \in Loops, NEW r \in Revisions, StateOK(st)
    PROVE  StateOK(WithRevision(st, u, r))
<1>1. PICK new : new = WithRevision(st, u, r)
  OBVIOUS
<1>2. /\ \A g \in Feeds : g # DocOf[r].id => new.feeds[g] = st.feeds[g]
      /\ \A g \in Feeds : /\ new.feeds[g].tunnels = st.feeds[g].tunnels
                          /\ new.feeds[g].lastRev = st.feeds[g].lastRev
      /\ new.feeds[DocOf[r].id].cache \in {r, None}
  BY <1>1, WithRevisionKeeps
<1>3. Keyed(st) => Keyed(new)
  BY <1>2, DocType DEF Keyed
<1>4. OwnedState(st) => OwnedState(new)
  BY <1>2 DEF OwnedState
<1> QED
  BY <1>1, <1>3, <1>4 DEF StateOK

-----------------------------------------------------------------------------
(* The steps of a run *)

\* Where a run stands is a URL of its list.
LEMMA RunLoop ==
    ASSUME RunAt
    PROVE  lock \in Loops /\ lock \in Range(run.list) /\ run.list \in Seq(Loops)
BY ListsAssumption DEF RunAt, Range

LEMMA IdleOpType == IdleOp \in Op /\ IdleOp.pc = "idle"
BY DEF IdleOp, Op, PC, NoTunnels, TunnelMap

\* The run is over: at its end, or because something failed or it was killed.
LEMMA QuitInv ==
    ASSUME OnceInv, Quit, file' \in State, StateOK(file)',
           device' \in [Names -> Profile \cup {None}],
           tmp' \in State \cup {Torn, None}
    PROVE  OnceInv'
<1>1. TypeOK'
  BY IdleOpType DEF TypeOK, Quit
<1>2. run' = NoRun /\ lock' = None /\ \A u \in Loops : op'[u].pc = "idle"
  BY IdleOpType DEF Quit
<1>3. NoRun \in Run /\ NoRun.pc = "idle"
  BY DEF NoRun, Run
<1>4. SessionInv'
  <2>1. TypeOK' /\ (lock = None)' /\ (\A u \in Loops : op[u].pc = "idle")' /\ StateOK(file)'
    BY <1>1, <1>2
  <2> QED
    BY <2>1, NoneAssumption DEF SessionInv, SessionOK, KeyedStates, AllSticky,
       AllRemembering, OwnedStates, InForceSoFar, StateOK
<1> QED
  BY <1>1, <1>2, <1>3, <1>4 DEF OnceInv, RunTypeOK

LEMMA StartInv ==
    ASSUME OnceInv, NEW list \in Lists, Start(list)
    PROVE  OnceInv'
<1>1. list \in Seq(Loops) /\ list # <<>>
  BY ListsAssumption
<1>2. 1 \in 1..Len(list) /\ list[1] \in Loops
  BY <1>1
<1>3. PICK u \in Loops : u = list[1]
  BY <1>2
<1>4. /\ run.pc = "idle" /\ lock = None /\ SessionInv
      /\ run' = [pc |-> "fetch", list |-> list, k |-> 1, seen |-> {}]
      /\ lock' = u /\ mem' = [mem EXCEPT ![u] = file]
      /\ file' = file /\ device' = device /\ op' = op /\ tmp' = tmp
  BY <1>3 DEF Start, OnceInv
<1>5. TypeOK /\ (\A v \in Loops : op[v].pc = "idle") /\ StateOK(file)
  BY <1>4, NoneAssumption DEF SessionInv, SessionOK, KeyedStates, OwnedStates, StateOK
<1>6. TypeOK' /\ mem'[u] = file /\ file \in State
  BY <1>4, <1>5 DEF TypeOK
<1>7. RunTypeOK'
  BY <1>4, <1>6 DEF OnceInv, RunTypeOK, Run
<1>8. RunAt'
  BY <1>2, <1>3, <1>4, <1>5, <1>6 DEF RunAt
<1>9. RunState'
  BY <1>4, <1>6 DEF RunState, SeenFeeds, AgreesBut, SameButOrder
<1>10. StateOK(file)' /\ StateOK(mem[lock])'
  BY <1>4, <1>5, <1>6 DEF StateOK, Keyed, OwnedState, OwnedMap
<1> QED
  BY <1>4, <1>7, <1>8, <1>9, <1>10 DEF OnceInv

\* A feed that is done stays done while its revision and its tunnels, the file and the
\* device under the names of its document stay as they are.
LEMMA DoneStays ==
    ASSUME NEW r, Done(mem[lock], r), file' = file,
           EntryOf(mem[lock], r)'.lastRev = EntryOf(mem[lock], r).lastRev,
           EntryOf(mem[lock], r)'.tunnels = EntryOf(mem[lock], r).tunnels,
           NamesOwned => \A t \in Range(DocOf[r].tunnels) : device'[t.name] = device[t.name]
    PROVE  Done(mem[lock], r)'
<1>1. EntryOf(file, r)' = EntryOf(file, r)
  BY DEF EntryOf
<1>2. KeepsEnabled(mem[lock], r)'
  BY <1>1 DEF Done, KeepsEnabled
<1>3. (NamesOwned => Converged(r, EntryOf(mem[lock], r).tunnels, device))'
  BY DEF Done, Converged, NamesOwned
<1> QED
  BY <1>2, <1>3 DEF Done

\* A fetch writes at most the endpoint order of the feed it fetched by.
LEMMA AfterFetchKeeps ==
    ASSUME OnceInv, run.pc = "fetch", NEW r \in Revisions
    PROVE  /\ AfterFetch(r) \in State /\ StateOK(AfterFetch(r))
           /\ AgreesBut(AfterFetch(r), SeenFeeds)
           /\ \A g \in Feeds :
                /\ AfterFetch(r).feeds[g].tunnels = mem[lock].feeds[g].tunnels
                /\ AfterFetch(r).feeds[g].lastRev = mem[lock].feeds[g].lastRev
<1>1. /\ RunAt /\ RunState /\ StateOK(mem[lock]) /\ mem[lock] \in State
      /\ lock \in Loops /\ lock \in Range(run.list)
  BY RunLoop DEF OnceInv, RunAt
<1>2. PICK st \in State : st = mem[lock]
  BY <1>1
<1>3. PICK f : f = st.urlMap[lock]
  OBVIOUS
<1>4. CASE ~(f # None /\ st.feeds[f].cache # None)
  <2>1. AfterFetch(r) = st
    BY <1>2, <1>3, <1>4 DEF AfterFetch
  <2> QED
    BY <1>1, <1>2, <2>1 DEF RunState
<1>5. CASE f # None /\ st.feeds[f].cache # None
  <2>1. f \in Feeds
    BY <1>1, <1>2, <1>3, <1>5 DEF State
  <2>2. PICK new : new = Reordered(st, f, r)
    OBVIOUS
  <2>3. AfterFetch(r) = new
    BY <1>2, <1>3, <1>5, <2>2 DEF AfterFetch
  <2>4. /\ new \in State /\ new.urlMap = st.urlMap
        /\ \A g \in Feeds : g # f => new.feeds[g] = st.feeds[g]
        /\ \A g \in Feeds : /\ new.feeds[g].tunnels = st.feeds[g].tunnels
                            /\ new.feeds[g].lastRev = st.feeds[g].lastRev
                            /\ new.feeds[g].cache = st.feeds[g].cache
                            /\ new.feeds[g].mapped = st.feeds[g].mapped
    BY <2>1, <2>2, ReorderedKeeps
  <2>5. StateOK(new)
    BY <1>1, <1>2, <2>1, <2>2, ReorderedOK
  <2>6. AgreesBut(st, SeenFeeds)
    BY <1>1, <1>2 DEF RunState
  <2>7. ASSUME f \notin SeenFeeds PROVE f \in FetchedBy
    <3>1. file.feeds[f].cache # None
      BY <1>5, <2>1, <2>6, <2>7 DEF AgreesBut, SameButOrder
    <3>2. file.urlMap[lock] = f
      BY <1>1, <1>3, <2>6, <2>7 DEF AgreesBut
    <3> QED
      BY <1>1, <2>1, <3>1, <3>2 DEF FetchedBy
  <2>8. AgreesBut(new, SeenFeeds)
    BY <2>4, <2>6, <2>7 DEF AgreesBut, SameButOrder
  <2> QED
    BY <1>2, <2>3, <2>4, <2>5, <2>8
<1> QED
  BY <1>4, <1>5

\* The run goes on with a State that has the feeds of the run as they are in memory, and
\* no call of ApplyFeed is on.
LEMMA ContinueInv ==
    ASSUME OnceInv, NEW st \in State, Continue(st), UNCHANGED <<file, device, tmp>>,
           run.pc = "fetch" \/ (run.pc = "apply" /\ op[lock].pc = "save"),
           StateOK(st), AgreesBut(st, SeenFeeds),
           \A g \in Feeds : /\ st.feeds[g].tunnels = mem[lock].feeds[g].tunnels
                           /\ st.feeds[g].lastRev = mem[lock].feeds[g].lastRev
    PROVE  OnceInv'
<1> DEFINE next == run.list[run.k + 1]
<1>1. /\ TypeOK /\ RunAt /\ RunState /\ StateOK(file) /\ StateOK(mem[lock])
      /\ run \in Run
  BY DEF OnceInv, RunTypeOK
<1>2. /\ lock \in Loops /\ run.list \in Seq(Loops) /\ mem[lock] \in State
      /\ run.k \in 1..Len(run.list)
  BY <1>1, RunLoop DEF RunAt
<1>3. op' = [op EXCEPT ![lock] = IdleOp]
  BY DEF Continue
<1>4. \A u \in Loops : op'[u].pc = "idle"
  BY <1>1, <1>2, <1>3, IdleOpType DEF RunAt, TypeOK
<1>5. /\ run'.pc \in {"fetch", "truncate"} /\ run'.list = run.list
      /\ run'.seen = run.seen /\ run' \in Run
      /\ run'.k \in 1..Len(run.list) /\ lock' = run.list[run'.k]
      /\ lock' \in Loops /\ mem' \in [Loops -> State \cup {None}]
      /\ mem'[lock'] = st
  <2>1. CASE run.k < Len(run.list)
    <3>1. next \in Loops /\ run.k + 1 \in 1..Len(run.list)
      BY <1>2, <2>1
    <3>2. /\ run' = [run EXCEPT !.pc = "fetch", !.k = run.k + 1] /\ lock' = next
          /\ mem' = [[mem EXCEPT ![lock] = None] EXCEPT ![next] = st]
      BY <2>1 DEF Continue
    <3>3. mem' \in [Loops -> State \cup {None}] /\ mem'[next] = st
      BY <1>1, <1>2, <3>1, <3>2 DEF TypeOK
    <3>4. run'.k = run.k + 1 /\ run' \in Run
      <4>1. run.k \in Nat /\ run.k + 1 \in Nat
        BY <1>1 DEF Run
      <4> QED
        BY <1>1, <3>2, <4>1 DEF Run
    <3>5. run'.pc = "fetch" /\ run'.list = run.list /\ run'.seen = run.seen
      BY <1>1, <3>2 DEF Run
    <3> QED
      BY <3>1, <3>2, <3>3, <3>4, <3>5
  <2>2. CASE ~(run.k < Len(run.list))
    <3>1. /\ run' = [run EXCEPT !.pc = "truncate"] /\ lock' = lock
          /\ mem' = [mem EXCEPT ![lock] = st]
      BY <2>2 DEF Continue
    <3> QED
      BY <1>1, <1>2, <3>1 DEF Run, RunAt, TypeOK
  <2> QED
    BY <2>1, <2>2
<1>6. TypeOK' /\ RunTypeOK'
  BY <1>1, <1>2, <1>3, <1>5, IdleOpType DEF OnceInv, RunTypeOK, TypeOK
<1>7. RunAt'
  BY <1>1, <1>2, <1>4, <1>5 DEF RunAt
<1>8. RunState'
  <2>1. SeenFeeds' = SeenFeeds
    BY <1>5 DEF SeenFeeds
  <2>2. ASSUME NEW r \in run.seen PROVE Done(mem[lock], r)'
    <3>1. Done(mem[lock], r)
      BY <1>1, <2>2 DEF RunState, InWork
    <3>2. DocOf[r].id \in Feeds
      BY <1>1, <2>2, DocType DEF Run
    <3> QED
      BY <1>5, <3>1, <3>2, DoneStays DEF EntryOf
  <2>3. AgreesBut(mem[lock], SeenFeeds)'
    BY <1>5, <2>1 DEF AgreesBut, FetchedBy
  <2> QED
    BY <1>1, <1>5, <2>1, <2>2, <2>3 DEF RunState, InWork
<1>9. StateOK(file)' /\ StateOK(mem[lock])'
  BY <1>1, <1>5 DEF StateOK, Keyed, OwnedState, OwnedMap, NamesOwned
<1> QED
  BY <1>5, <1>6, <1>7, <1>8, <1>9 DEF OnceInv

\* ApplyFeed starts from the stored records, for no URL of this run had the feed.
LEMMA FetchedInv ==
    ASSUME OnceInv, NEW r \in Revisions, Fetched(r)
    PROVE  OnceInv'
<1>1. PICK got, st : got = AfterFetch(r) /\ st = WithRevision(got, lock, r)
  OBVIOUS
<1>2. PICK f \in Feeds : f = DocOf[r].id
  BY DocType
<1>3. PICK u \in Loops : u = lock
  BY RunLoop DEF OnceInv, Fetched
<1>4. PICK o : o = [pc |-> "apply", kind |-> "update", rev |-> r, i |-> 1, enabled |-> FALSE,
                    work |-> st.feeds[f].tunnels]
  OBVIOUS
<1>5. /\ run.pc = "fetch" /\ f \notin SeenFeeds
      /\ run' = [run EXCEPT !.pc = "apply", !.seen = @ \cup {r}]
      /\ mem' = [mem EXCEPT ![u] = st] /\ op' = [op EXCEPT ![u] = o]
      /\ file' = file /\ device' = device /\ lock' = u /\ tmp' = tmp
  BY <1>1, <1>2, <1>3, <1>4 DEF Fetched
<1>6. /\ TypeOK /\ RunAt /\ RunState /\ StateOK(file) /\ StateOK(mem[u])
      /\ run \in Run /\ mem[u] \in State /\ file \in State
  BY <1>3, <1>5 DEF OnceInv, RunTypeOK, RunAt, TypeOK
<1>7. /\ st \in State /\ StateOK(st)
      /\ \A g \in Feeds : g # f => st.feeds[g] = got.feeds[g]
      /\ \A v \in Loops : v # u => st.urlMap[v] = got.urlMap[v]
      /\ st.urlMap[u] = f
      /\ st.feeds[f].tunnels = file.feeds[f].tunnels
      /\ got \in State /\ AgreesBut(got, SeenFeeds)
      /\ \A g \in Feeds : /\ got.feeds[g].tunnels = mem[u].feeds[g].tunnels
                          /\ got.feeds[g].lastRev = mem[u].feeds[g].lastRev
  <2>1. /\ got \in State /\ StateOK(got) /\ AgreesBut(got, SeenFeeds)
        /\ \A g \in Feeds : /\ got.feeds[g].tunnels = mem[u].feeds[g].tunnels
                            /\ got.feeds[g].lastRev = mem[u].feeds[g].lastRev
    BY <1>1, <1>3, <1>5, AfterFetchKeeps
  <2>2. got.feeds[f].tunnels = file.feeds[f].tunnels
    BY <1>5, <2>1 DEF AgreesBut, SameButOrder
  <2>3. st \in State /\ StateOK(st)
    BY <1>1, <1>3, <2>1, WithRevisionType, WithRevisionOK
  <2>4. /\ \A g \in Feeds : g # f => st.feeds[g] = got.feeds[g]
        /\ \A v \in Loops : v # u => st.urlMap[v] = got.urlMap[v]
        /\ st.urlMap[u] = f
        /\ st.feeds[f].tunnels = got.feeds[f].tunnels
    BY <1>1, <1>2, <1>3, <2>1, WithRevisionKeeps
  <2> QED
    BY <2>1, <2>2, <2>3, <2>4
<1>8. o \in Op /\ o.pc = "apply" /\ o.rev = r /\ o.i = 1 /\ o.kind = "update"
      /\ o.work = file.feeds[f].tunnels
  <2>1. st.feeds[f].tunnels \in TunnelMap
    BY <1>7 DEF State, FeedState
  <2> QED
    BY <1>4, <1>7, <2>1 DEF Op, PC
<1>9. /\ op'[u] = o /\ mem'[u] = st
      /\ \A v \in Loops : v # u => op'[v] = op[v] /\ op[v].pc = "idle"
  BY <1>3, <1>5, <1>6 DEF TypeOK, RunAt
<1>10. TypeOK' /\ SessionOK'
  <2>1. TypeOK'
    BY <1>5, <1>6, <1>7, <1>8 DEF TypeOK
  <2> QED
    BY <1>5, <1>7, <1>8, <1>9, <2>1 DEF SessionOK
<1>11. FeedOf(u)' = f
  BY <1>2, <1>8, <1>9 DEF FeedOf, Doc
<1>12. Sticky(u)' /\ Remembering(u)' /\ Progress(u)'
  <2>1. Sticky(u)'
    BY <1>5, <1>7, <1>8, <1>9, <1>11 DEF Sticky, KeptMap, Kept
  <2>2. Progress(u)'
    BY <1>8, <1>9 DEF Progress
  <2>3. Remembering(u)'
    BY <1>5, <1>7, <1>8, <1>9, <1>11 DEF Remembering, Forgets
  <2> QED
    BY <2>1, <2>2, <2>3
<1>13. SessionInv'
  <2>1. KeyedStates'
    <3>1. Keyed(file)'
      BY <1>5, <1>6 DEF StateOK, Keyed
    <3>2. Keyed(st)
      BY <1>7 DEF StateOK
    <3>3. Keyed(mem[u])'
      BY <1>9, <3>2 DEF Keyed
    <3> QED
      BY <1>5, <3>1, <3>3 DEF KeyedStates
  <2>2. NamesOwned => OwnedStates'
    BY <1>5, <1>6, <1>7, <1>8, <1>9, <1>11 DEF OwnedStates, StateOK, OwnedState, OwnedMap
  <2> QED
    BY <1>5, <1>10, <1>12, <2>1, <2>2
       DEF SessionInv, AllSticky, AllRemembering, InForceSoFar, NamesOwned
<1>14. /\ run'.pc = "apply" /\ run'.list = run.list /\ run'.k = run.k
       /\ run'.seen = run.seen \cup {r} /\ run' \in Run
  BY <1>5, <1>6 DEF Run
<1>15. RunTypeOK'
  BY <1>5, <1>10, <1>14 DEF OnceInv, RunTypeOK
<1>16. RunAt'
  BY <1>3, <1>5, <1>6, <1>7, <1>8, <1>9, <1>14 DEF RunAt
<1>17. RunState'
  <2>1. SeenFeeds' = SeenFeeds \cup {f}
    BY <1>2, <1>14 DEF SeenFeeds
  <2>2. \A s \in run.seen : DocOf[s].id # f /\ DocOf[s].id \in Feeds
    BY <1>5, <1>6, DocType DEF SeenFeeds, Run
  <2>3. ASSUME NEW s \in run.seen PROVE Done(mem[lock], s)'
    <3>1. Done(mem[lock], s)
      BY <1>5, <1>6, <2>3 DEF RunState, InWork
    <3>2. /\ EntryOf(mem[lock], s)'.lastRev = EntryOf(mem[lock], s).lastRev
          /\ EntryOf(mem[lock], s)'.tunnels = EntryOf(mem[lock], s).tunnels
      BY <1>3, <1>5, <1>7, <1>9, <2>2, <2>3 DEF EntryOf
    <3> QED
      BY <1>5, <3>1, <3>2, DoneStays
  <2>4. InWork(r)'
    BY <1>5, <1>8, <1>9, <1>14 DEF InWork
  <2>5. u \in Range(run.list)
    BY <1>3, <1>6, RunLoop
  <2>6. AgreesBut(mem[lock], SeenFeeds)'
    <3>1. /\ \A g \in Feeds \ (SeenFeeds \cup {f}) :
               /\ SameButOrder(st.feeds[g], file.feeds[g])
               /\ st.feeds[g].order # file.feeds[g].order => g \in FetchedBy
          /\ \A v \in Loops : st.urlMap[v] # file.urlMap[v] =>
               v \in Range(run.list) /\ st.urlMap[v] \in SeenFeeds \cup {f}
      BY <1>7, <2>5 DEF AgreesBut
    <3> QED
      BY <1>5, <1>9, <1>14, <2>1, <3>1 DEF AgreesBut, SameButOrder, FetchedBy
  <2> QED
    BY <1>2, <1>3, <1>5, <1>6, <1>9, <1>14, <2>1, <2>2, <2>3, <2>4, <2>6 DEF RunState
<1>18. StateOK(file)' /\ StateOK(mem[lock])'
  <2>1. StateOK(file)'
    BY <1>5, <1>6 DEF StateOK, Keyed, OwnedState, OwnedMap, NamesOwned
  <2>2. mem'[lock'] = st
    BY <1>5, <1>9
  <2>3. StateOK(mem[lock])'
    BY <1>7, <2>2 DEF StateOK, Keyed, OwnedState, OwnedMap, NamesOwned
  <2> QED
    BY <2>1, <2>3
<1> QED
  BY <1>13, <1>14, <1>15, <1>16, <1>17, <1>18 DEF OnceInv

\* While it works on one revision the run leaves the other feeds' entries, and the device
\* under their names, as they are.
LEMMA OthersStay ==
    ASSUME OnceInv, run.pc = "apply", Inner(lock),
           NEW s \in run.seen, s # op[lock].rev
    PROVE  /\ EntryOf(mem[lock], s)' = EntryOf(mem[lock], s)
           /\ NamesOwned => \A t \in Range(DocOf[s].tunnels) : device'[t.name] = device[t.name]
<1>1. PICK u \in Loops : u = lock
  BY RunLoop DEF OnceInv
<1>2. /\ TypeOK /\ SessionOK /\ RunAt /\ RunState /\ op[u].rev \in run.seen
      /\ s \in Revisions /\ mem[u] \in State
  BY <1>1 DEF OnceInv, SessionInv, RunTypeOK, RunAt, Run
<1>3. PICK f \in Feeds : f = FeedOf(u)
  BY <1>1, <1>2, DocType DEF SessionOK, FeedOf, Doc
<1>4. DocOf[s].id # f /\ DocOf[s].id \in Feeds
  BY <1>1, <1>2, <1>3, DocType DEF RunState, FeedOf, Doc
<1>5. lock' = u
  BY <1>1, <1>2, InnerStep DEF Inner
<1>6. EntryOf(mem[lock], s)' = EntryOf(mem[lock], s)
  <2>1. \/ mem'[u] = mem[u]
        \/ \E fs : mem'[u] = Stored(mem[u], f, fs)
    BY <1>1, <1>2, <1>3, InnerStep DEF Inner
  <2>2. ASSUME NEW fs
        PROVE  Stored(mem[u], f, fs).feeds[DocOf[s].id] = mem[u].feeds[DocOf[s].id]
    BY <1>2, <1>4 DEF Stored, State
  <2> QED
    BY <1>1, <1>5, <2>1, <2>2 DEF EntryOf
<1>7. ASSUME NamesOwned, NEW t \in Range(DocOf[s].tunnels)
      PROVE  device'[t.name] = device[t.name]
  <2>1. Touches(u) \/ device' = device
    BY <1>1, <1>2, <1>7, InnerDevice DEF OnceInv, SessionInv, InForceSoFar
  <2>2. PICK i \in DOMAIN DocOf[s].tunnels : t = DocOf[s].tunnels[i]
    BY <1>7 DEF Range
  <2>3. Owns(DocOf[s].id, t.id, t.name) /\ t.name \in Names
    <3>1. Owns(DocOf[s].id, t.id, t.name)
      BY <1>2, <2>2 DEF Owns
    <3>2. DocOf[s].tunnels \in Seq(TunnelDef)
      BY <1>2, DocType
    <3>3. t \in TunnelDef
      BY <2>2, <3>2
    <3> QED
      BY <3>1, <3>3 DEF TunnelDef
  <2>4. CASE Touches(u)
    <3>1. PICK id \in Tunnels, n \in Names :
            Owns(f, id, n) /\ \A m \in Names : m # n => device'[m] = device[m]
      BY <1>3, <2>4 DEF Touches
    <3>2. t.name # n
      BY <1>4, <1>7, <2>3, <3>1, NameOwner
    <3> QED
      BY <2>3, <3>1, <3>2
  <2> QED
    BY <2>1, <2>4
<1> QED
  BY <1>6, <1>7

\* ApplyFeed has come to its end: its revision is recorded, and in force.
LEMMA EndDone ==
    ASSUME OnceInv, run.pc = "apply", EndReconcile(lock)
    PROVE  \A r : r = op[lock].rev => Done(mem[lock], r)'
<1>1. PICK u \in Loops : u = lock
  BY RunLoop DEF OnceInv
<1>2. /\ TypeOK /\ SessionOK /\ RunAt /\ Sticky(u) /\ Remembering(u) /\ Applied(u)
      /\ mem[u] \in State /\ op[u].kind = "update" /\ op[u].rev \in Revisions
  BY <1>1 DEF OnceInv, SessionInv, RunAt, AllSticky, AllRemembering, EndReconcile,
     SessionOK
<1>3. PICK r \in Revisions : r = op[u].rev
  BY <1>2
<1>4. PICK f \in Feeds : f = FeedOf(u) /\ f = DocOf[r].id
  BY <1>3, DocType DEF FeedOf, Doc
<1>5. /\ lock' = u /\ file' = file /\ device' = device /\ op'[u].rev = r
      /\ mem'[u] = Stored(mem[u], f, ReconciledEntry(u))
  BY <1>1, <1>2, <1>3, <1>4 DEF EndReconcile, Applied, TypeOK, Op
<1>6. mem'[u].feeds[f].lastRev = r /\ mem'[u].feeds[f].tunnels = op[u].work
  BY <1>2, <1>3, <1>4, <1>5 DEF Stored, ReconciledEntry, State
<1>7. KeepsEnabled(mem[lock], r)'
  <2>1. ASSUME NEW id \in Tunnels, file.feeds[f].tunnels[id] # None, op[u].work[id] # None,
               op[u].work[id].enabled # file.feeds[f].tunnels[id].enabled
        PROVE  \E t \in Range(DocOf[r].tunnels) : t.id = id /\ t.forced
    <3>1. Kept(u, id, op[u].work[id].enabled)
      BY <1>2, <2>1 DEF Sticky, KeptMap
    <3>2. PICK j \in 1..Len(DocOf[r].tunnels) :
            DocOf[r].tunnels[j].id = id /\ DocOf[r].tunnels[j].forced
      BY <1>3, <1>4, <2>1, <3>1 DEF Kept, Doc
    <3>3. DocOf[r].tunnels \in Seq(TunnelDef)
      BY DocType
    <3> QED
      BY <3>2, <3>3 DEF Range
  <2>2. ASSUME NEW id \in Tunnels, file.feeds[f].tunnels[id] # None, op[u].work[id] = None
        PROVE  id \notin IdsOf(DocOf[r])
    BY <1>2, <1>3, <1>4, <2>2 DEF Remembering, Forgets, NotListed, IdsOf, Doc, Applied
  <2>3. /\ EntryOf(file, r)' = file.feeds[f]
        /\ EntryOf(mem[lock], r)'.tunnels = op[u].work
    BY <1>4, <1>5, <1>6 DEF EntryOf
  <2> QED
    BY <2>1, <2>2, <2>3 DEF KeepsEnabled
<1>8. NamesOwned => Converged(r, op[u].work, device)
  BY <1>2, <1>3, Finished DEF OnceInv, SessionInv
<1>9. Done(mem[lock], r)'
  BY <1>4, <1>5, <1>6, <1>7, <1>8 DEF Done, EntryOf, NamesOwned, Converged
<1> QED
  BY <1>1, <1>3, <1>9

LEMMA AppliesInv ==
    ASSUME OnceInv, Applies
    PROVE  OnceInv'
<1>1. PICK u \in Loops : u = lock
  BY RunLoop DEF OnceInv, Applies
<1>2. /\ SessionInv /\ TypeOK /\ SessionOK /\ RunAt /\ RunState
      /\ run.pc = "apply" /\ run' = run /\ tmp' = tmp
  BY DEF OnceInv, Applies, SessionInv, runVars
<1>3. Inner(u) /\ Next
  BY <1>1 DEF Applies, Inner, Next, SessionStep
<1>4. /\ lock' = u /\ file' = file /\ op'[u].rev = op[u].rev
      /\ op'[u].kind = op[u].kind
      /\ FeedOf(u) \in Feeds /\ mem[u] \in State
  BY <1>1, <1>2, <1>3, InnerStep, InnerKind, DocTunnels DEF Inner, RunAt, SessionOK
<1>5. SessionInv' /\ TypeOK' /\ SessionOK'
  BY <1>2, <1>3, SessionNext DEF SessionInv
<1>6. RunTypeOK'
  BY <1>2, <1>5 DEF OnceInv, RunTypeOK
<1>7. RunAt'
  <2>1. mem'[u] \in State /\ \A v \in Loops : v # u => op'[v].pc = "idle"
    BY <1>4, <1>5 DEF SessionOK
  <2> QED
    BY <1>1, <1>2, <1>4, <2>1 DEF RunAt
<1>8. RunState'
  <2>1. SeenFeeds' = SeenFeeds /\ FeedOf(u) \in SeenFeeds
    BY <1>1, <1>2 DEF SeenFeeds, RunAt, FeedOf, Doc
  <2>2. /\ \A f \in Feeds : f # FeedOf(u) => mem'[u].feeds[f] = mem[u].feeds[f]
        /\ \A v \in Loops : mem'[u].urlMap[v] = mem[u].urlMap[v]
    <3>1. ASSUME NEW fs
          PROVE  /\ \A f \in Feeds : f # FeedOf(u) =>
                       Stored(mem[u], FeedOf(u), fs).feeds[f] = mem[u].feeds[f]
                 /\ Stored(mem[u], FeedOf(u), fs).urlMap = mem[u].urlMap
      BY <1>4 DEF Stored, State
    <3> QED
      BY <1>2, <1>3, <3>1, InnerStep DEF Inner
  <2>3. ASSUME NEW r \in run.seen, ~InWork(r)' PROVE Done(mem[lock], r)'
    <3>1. CASE r = op[u].rev
      <4>1. EndReconcile(u)
        <5>1. op'[u].pc = "save"
          BY <1>2, <1>4, <2>3, <3>1 DEF InWork
        <5>2. op \in [Loops -> Op]
          BY <1>2 DEF TypeOK
        <5>3. RemoveRenamed(u) => op'[u].pc = "reapply"
          BY <5>2 DEF RemoveRenamed, Op
        <5>4. ApplyOk(u) => op'[u].pc = "apply"
          BY <5>2 DEF ApplyOk, Op
        <5>5. ASSUME NEW id \in Tunnels, RemoveMissing(u, id) PROVE op'[u].pc = "apply"
          BY <5>2, <5>5 DEF RemoveMissing, Applied, Op
        <5> QED
          BY <1>1, <5>1, <5>3, <5>4, <5>5 DEF Applies
      <4> QED
        BY <1>1, <1>2, <3>1, <4>1, EndDone
    <3>2. CASE r # op[u].rev
      <4>1. Done(mem[lock], r)
        BY <1>1, <1>2, <2>3, <3>2 DEF RunState, InWork
      <4> QED
        BY <1>1, <1>2, <1>3, <1>4, <2>3, <3>2, <4>1, OthersStay, DoneStays
    <3> QED
      BY <3>1, <3>2
  <2>4. AgreesBut(mem[lock], SeenFeeds)'
    BY <1>1, <1>2, <1>4, <2>1, <2>2 DEF RunState, AgreesBut, SameButOrder, FetchedBy
  <2> QED
    BY <1>2, <2>3, <2>4 DEF RunState
<1>9. StateOK(file)' /\ StateOK(mem[lock])'
  BY <1>4, <1>5 DEF SessionInv, KeyedStates, OwnedStates, StateOK, NamesOwned, Keyed,
     OwnedState, OwnedMap
<1> QED
  BY <1>2, <1>5, <1>6, <1>7, <1>8, <1>9 DEF OnceInv

\* A run that ends without a save leaves the file it has read.
LEMMA FailsInv ==
    ASSUME OnceInv, Fails
    PROVE  OnceInv'
<1>1. Quit /\ file' = file /\ tmp' = tmp /\ run.pc \in {"fetch", "apply"}
  BY DEF Fails
<1>2. device' \in [Names -> Profile \cup {None}]
  <2>1. CASE device' = device
    BY <2>1 DEF OnceInv, RunTypeOK, TypeOK
  <2>2. CASE run.pc = "apply" /\ device' # device
    <3>1. TypeOK /\ SessionOK /\ lock \in Loops
      BY <2>2, RunLoop DEF OnceInv, SessionInv
    <3>2. PICK enabled \in BOOLEAN : Applying(lock, enabled)
      BY <2>2 DEF Fails
    <3>3. PICK e \in FailedApplyEffects(Current(lock).name, Current(lock).cfg) :
            device' = [device EXCEPT ![Current(lock).name] = e]
      BY <2>2 DEF Fails
    <3>4. Current(lock).name \in Names /\ Current(lock).cfg \in Configs
      BY <3>1, <3>2, ApplyingType DEF TunnelDef
    <3>5. e \in Profile \cup {None}
      BY <3>1, <3>3, <3>4, EffectTypes
    <3> QED
      BY <3>1, <3>3, <3>4, <3>5, DeviceType
  <2> QED
    BY <2>1, <2>2 DEF Fails
<1>3. StateOK(file)'
  BY <1>1 DEF OnceInv, StateOK, Keyed, OwnedState, OwnedMap, NamesOwned
<1> QED
  BY <1>1, <1>2, <1>3, QuitInv DEF OnceInv, RunTypeOK, TypeOK

\* SaveAtomic up to its rename touches the temporary file only.
LEMMA WriteInv ==
    ASSUME OnceInv, Truncate \/ Write
    PROVE  OnceInv'
<1>1. /\ run.pc \in {"truncate", "write"} /\ run'.pc \in {"write", "rename"}
      /\ run' = [run EXCEPT !.pc = run'.pc]
      /\ UNCHANGED <<file, device, lock, mem, op>>
      /\ tmp' = Torn \/ tmp' = mem[lock]
      /\ run'.pc = "rename" => tmp' = mem[lock]
  BY DEF Truncate, Write, SaveStep, OnceInv, RunTypeOK, Run
<1>2. /\ TypeOK /\ RunAt /\ RunState /\ StateOK(file) /\ StateOK(mem[lock]) /\ run \in Run
  BY <1>1 DEF OnceInv, RunTypeOK
<1>3. /\ run' \in Run /\ run'.list = run.list /\ run'.k = run.k /\ run'.seen = run.seen
  BY <1>1, <1>2 DEF Run
<1>4. TypeOK' /\ RunTypeOK'
  BY <1>1, <1>2, <1>3 DEF RunTypeOK, TypeOK, RunAt
<1>5. RunAt'
  BY <1>1, <1>2, <1>3 DEF RunAt
<1>6. RunState'
  <2>1. SeenFeeds' = SeenFeeds
    BY <1>3 DEF SeenFeeds
  <2>2. ASSUME NEW r \in run.seen PROVE Done(mem[lock], r)'
    <3>1. Done(mem[lock], r)
      BY <1>1, <1>2, <2>2 DEF RunState, InWork
    <3> QED
      BY <1>1, <3>1, DoneStays DEF EntryOf
  <2>3. AgreesBut(mem[lock], SeenFeeds)'
    BY <1>1, <1>2, <1>3, <2>1 DEF RunState, AgreesBut, SameButOrder, FetchedBy
  <2> QED
    BY <1>1, <1>2, <1>3, <2>2, <2>3 DEF RunState
<1>7. StateOK(file)' /\ StateOK(mem[lock])'
  BY <1>1, <1>2 DEF StateOK, Keyed, OwnedState, OwnedMap, NamesOwned
<1> QED
  BY <1>1, <1>4, <1>5, <1>6, <1>7 DEF OnceInv

\* What the rename puts in place is the State the run has in memory.
LEMMA RenameInv ==
    ASSUME OnceInv, Rename
    PROVE  OnceInv'
<1>1. Quit /\ file' = mem[lock] /\ mem[lock] \in State /\ device' = device /\ tmp' = None
      /\ StateOK(mem[lock])
  BY DEF Rename, OnceInv, RunAt
<1>2. StateOK(file)'
  BY <1>1 DEF StateOK, Keyed, OwnedState, OwnedMap, NamesOwned
<1> QED
  BY <1>1, <1>2, QuitInv DEF OnceInv, RunTypeOK, TypeOK

\* The daemon is at work, or no one.
LEMMA BesideInv ==
    ASSUME OnceInv, DaemonStep \/ UNCHANGED onceVars
    PROVE  OnceInv'
<1>1. CASE DaemonStep
  <2>1. run.pc = "idle" /\ SessionInv /\ run' = run /\ tmp' \in {tmp, None}
    BY <1>1 DEF DaemonStep, BesideRuns, OnceInv
  <2>2. SessionInv'
    BY <1>1, <2>1, SessionNext DEF DaemonStep
  <2> QED
    BY <2>1, <2>2 DEF OnceInv, RunTypeOK, SessionInv
<1>2. CASE UNCHANGED onceVars
  <2>1. /\ UNCHANGED vars /\ run' = run /\ tmp' = tmp
        /\ file' = file /\ device' = device /\ lock' = lock /\ mem' = mem /\ op' = op
    BY <1>2 DEF onceVars, vars, runVars
  <2>2. run.pc \in {"idle", "apply"} => SessionInv'
    BY <2>1, SessionNext DEF OnceInv
  <2>3. RunTypeOK'
    BY <2>1 DEF OnceInv, RunTypeOK, TypeOK
  <2>4. run.pc # "idle" => RunAt' /\ StateOK(file)' /\ StateOK(mem[lock])'
    BY <2>1 DEF OnceInv, RunAt, StateOK, Keyed, OwnedState, OwnedMap, NamesOwned
  <2>5. run.pc # "idle" => RunState'
    <3>1. ASSUME NEW r, Done(mem[lock], r) PROVE Done(mem[lock], r)'
      BY <2>1, <3>1, DoneStays DEF EntryOf
    <3> QED
      BY <2>1, <3>1 DEF OnceInv, RunState, InWork, SeenFeeds, AgreesBut, SameButOrder, FetchedBy
  <2> QED
    BY <2>1, <2>2, <2>3, <2>4, <2>5 DEF OnceInv
<1> QED
  BY <1>1, <1>2

LEMMA OnceInvNext ==
    ASSUME OnceInv, [OnceNext]_onceVars
    PROVE  OnceInv'
<1>1. ASSUME NEW r \in Revisions, Ignored(r) PROVE OnceInv'
  <2>1. /\ run.pc = "fetch" /\ Continue(AfterFetch(r))
        /\ UNCHANGED <<file, device, tmp>>
    BY <1>1 DEF Ignored
  <2> QED
    BY <2>1, AfterFetchKeeps, ContinueInv
<1>2. CASE AppliedOne
  BY <1>2, ContinueInv DEF AppliedOne, OnceInv, RunAt, RunState
<1>3. CASE SaveFails \/ Killed
  <2>1. /\ Quit /\ file' = file /\ device' = device /\ run.pc # "idle"
        /\ tmp' \in State \cup {Torn, None}
    BY <1>3 DEF SaveFails, Killed, LeftBehind
  <2>2. StateOK(file)'
    BY <2>1 DEF OnceInv, StateOK, Keyed, OwnedState, OwnedMap, NamesOwned
  <2> QED
    BY <2>1, <2>2, QuitInv DEF OnceInv, RunTypeOK, TypeOK
<1> QED
  BY <1>1, <1>2, <1>3, StartInv, FetchedInv, AppliesInv, FailsInv, WriteInv, RenameInv,
     BesideInv DEF OnceNext, RunStep

LEMMA OnceInvAlways == OnceSpec => []OnceInv
<1>1. OnceInit => OnceInv
  BY SessionInit DEF OnceInit, OnceInv, RunTypeOK, SessionInv, NoRun, Run
<1>2. OnceInv /\ [OnceNext]_onceVars => OnceInv'
  BY OnceInvNext
<1> QED
  BY <1>1, <1>2, PTL DEF OnceSpec, onceVars

-----------------------------------------------------------------------------
(* What a run promises *)

\* The run, its call of ApplyFeed and its temporary file have their types, and the state
\* file is a complete one whatever the run and the daemon were killed at (RunOnce,
\* SaveAtomic).
THEOREM RunTypeCorrect == OnceSpec => []RunTypeOK
<1>1. OnceInv => RunTypeOK
  BY DEF OnceInv
<1> QED
  BY <1>1, OnceInvAlways, PTL

\* When a run comes to its save, every document it was given is in force: no later feed
\* of the list has undone an earlier one, as long as documents share no names (RunOnce).
THEOREM AllOfRunInForce == OnceSpec => []AllInForce
<1>1. OnceInv => AllInForce
  BY DEF OnceInv, RunState, InWork, Done, EntryOf, AllInForce
<1> QED
  BY <1>1, OnceInvAlways, PTL

\* Only its rename makes a run change the state file, to the State it has in memory.
LEMMA RunFileStep ==
    ASSUME OnceInv, [OnceNext]_onceVars, run.pc # "idle", file' # file
    PROVE  /\ file' = mem[lock] /\ RunState /\ run \in Run
           /\ \A r \in run.seen : Done(mem[lock], r)
<1>1. ~Applies
  BY RunLoop, InnerStep DEF Applies, OnceInv, SessionInv
<1>2. Rename
  BY <1>1 DEF OnceNext, RunStep, Start, Fetched, Ignored, AppliedOne, Fails, Truncate, Write,
     SaveFails, Killed, DaemonStep, onceVars, vars
<1> QED
  BY <1>2 DEF OnceInv, RunTypeOK, RunAt, RunState, InWork, Rename

\* A run changes the state file at its end or not at all, and then for all of its URLs:
\* their feeds are at the revisions it was given, no other URL's feed is touched, and of no
\* other feed more than the endpoint order, where the run fetched by its cached document
\* (RunOnce, which saves only after every URL succeeded; applyOne).
THEOREM RunAllOrNothing == OnceSpec => AllOrNothing
<1> DEFINE Step == run.pc # "idle" /\ file' # file =>
             /\ \A r \in run.seen : file'.feeds[DocOf[r].id].lastRev = r
             /\ \A f \in Feeds \ SeenFeeds :
                  /\ SameButOrder(file'.feeds[f], file.feeds[f])
                  /\ file'.feeds[f].order # file.feeds[f].order => f \in FetchedBy
             /\ \A u \in Loops \ Range(run.list) : file'.urlMap[u] = file.urlMap[u]
<1>1. OnceInv /\ [OnceNext]_onceVars => [Step]_onceVars
  BY RunFileStep DEF RunState, Done, EntryOf, AgreesBut
<1> QED
  BY <1>1, OnceInvAlways, PTL DEF OnceSpec, AllOrNothing, onceVars

\* A run changes the stored enabled value of a tunnel only if a document it was given
\* forces it, and forgets the tunnel only if such a document does not list it (ApplyFeed
\* under RunOnce).
THEOREM RunEnabledSticks == OnceSpec => RunStickyEnabled
<1> DEFINE Step == run.pc # "idle" =>
             \A f \in Feeds, id \in Tunnels :
               LET before == file.feeds[f].tunnels[id]
                   after == file'.feeds[f].tunnels[id]
               IN  before # None /\ after # before =>
                     \E r \in run.seen :
                       /\ DocOf[r].id = f
                       /\ after = None => id \notin IdsOf(DocOf[r])
                       /\ after # None /\ after.enabled # before.enabled =>
                            \E t \in Range(DocOf[r].tunnels) : t.id = id /\ t.forced
<1>1. OnceInv /\ [OnceNext]_onceVars => [Step]_onceVars
  <2> SUFFICES ASSUME OnceInv, [OnceNext]_onceVars, run.pc # "idle",
                      NEW f \in Feeds, NEW id \in Tunnels,
                      file.feeds[f].tunnels[id] # None,
                      file'.feeds[f].tunnels[id] # file.feeds[f].tunnels[id]
               PROVE  \E r \in run.seen :
                        /\ DocOf[r].id = f
                        /\ file'.feeds[f].tunnels[id] = None => id \notin IdsOf(DocOf[r])
                        /\ file'.feeds[f].tunnels[id] # None
                           /\ file'.feeds[f].tunnels[id].enabled
                                # file.feeds[f].tunnels[id].enabled =>
                             \E t \in Range(DocOf[r].tunnels) : t.id = id /\ t.forced
    OBVIOUS
  <2>1. file' = mem[lock] /\ RunState /\ \A r \in run.seen : Done(mem[lock], r)
    BY RunFileStep
  <2>2. PICK r \in run.seen : DocOf[r].id = f
    BY <2>1 DEF RunState, SeenFeeds, AgreesBut, SameButOrder
  <2> QED
    BY <2>1, <2>2 DEF Done, KeepsEnabled, EntryOf
<1> QED
  BY <1>1, OnceInvAlways, PTL DEF OnceSpec, RunStickyEnabled, onceVars
=============================================================================
