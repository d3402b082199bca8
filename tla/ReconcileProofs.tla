--------------------------- MODULE ReconcileProofs ---------------------------
(***************************************************************************)
(* Proofs about Reconcile, for any number of loops, feeds, tunnels and     *)
(* revisions and any set of faults.                                        *)
(*                                                                         *)
(* The argument is the one of a critical section: a loop outside "idle" is *)
(* the one that holds the mutex (SessionOK), and the State it has loaded   *)
(* differs from the file in the entry of its own feed only (MemAgrees).    *)
(* Saving that State therefore changes nothing else.  What a session       *)
(* records keeps a stored enabled value unless it is forced (Sticky), and  *)
(* what it has forgotten is not listed, or is the tunnel whose rename it   *)
(* is in the middle of (Remembering).                                      *)
(***************************************************************************)
EXTENDS Reconcile, TLAPS

\* A loop in a session holds the mutex; the holder has a loaded State, a
\* revision and a position in its document.
SessionOK ==
    /\ \A u \in Loops : op[u].pc # "idle" => lock = u
    /\ \A u \in Loops : lock = u =>
         /\ op[u].pc # "idle"
         /\ op[u].rev \in Revisions
         /\ op[u].i \in Nat \ {0}
         /\ mem[u] \in State

\* The loaded State differs from the file only where the session may write.
MemAgrees ==
    \A u \in Loops : lock = u =>
      /\ \A f \in Feeds : f # FeedOf(u) => mem[u].feeds[f] = file.feeds[f]
      /\ \A v \in Loops : v # u => mem[u].urlMap[v] = file.urlMap[v]

\* CacheKeyedByFeed, for a State.
Keyed(st) ==
    \A f \in Feeds : \A r \in {st.feeds[f].cache, st.feeds[f].lastRev} :
        r # None => DocOf[r].id = f

KeyedStates == Keyed(file) /\ \A u \in Loops : lock = u => Keyed(mem[u])

-----------------------------------------------------------------------------
(* The documents and the session read by a step *)

LEMMA DocType ==
    ASSUME NEW r \in Revisions
    PROVE  /\ DocOf[r] \in FeedDocument
           /\ DocOf[r].id \in Feeds
           /\ DocOf[r].tunnels \in Seq(TunnelDef)
BY DocAssumption DEF FeedDocument

\* The tunnel before which a session stands is a tunnel of its document.
LEMMA CurrentType ==
    ASSUME TypeOK, SessionOK, NEW u \in Loops, op[u].pc # "idle", HasCurrent(u)
    PROVE  /\ Current(u) \in TunnelDef
           /\ op[u].i \in 1..Len(Doc(u).tunnels)
<1>1. op[u].rev \in Revisions /\ op[u].i \in Nat \ {0}
  BY DEF SessionOK
<1>2. Doc(u).tunnels \in Seq(TunnelDef)
  BY <1>1, DocType DEF Doc
<1>3. op[u].i \in 1..Len(Doc(u).tunnels)
  BY <1>1, <1>2 DEF HasCurrent
<1> QED
  BY <1>2, <1>3 DEF Current

LEMMA EffectiveEnabledType ==
    ASSUME NEW t \in TunnelDef, NEW work \in TunnelMap
    PROVE  EffectiveEnabled(t, work) \in BOOLEAN
<1>1. t.id \in Tunnels /\ t.enabled \in BOOLEAN
  BY DEF TunnelDef
<1>2. work[t.id] # None => work[t.id] \in TunnelState
  BY <1>1 DEF TunnelMap
<1> QED
  BY <1>1, <1>2 DEF EffectiveEnabled, TunnelState

\* What Apply is called with.
LEMMA ApplyingType ==
    ASSUME TypeOK, SessionOK, NEW u \in Loops, NEW enabled, Applying(u, enabled)
    PROVE  /\ Current(u) \in TunnelDef
           /\ op[u].pc # "idle"
           /\ op[u] \in Op
BY CurrentType DEF Applying, TypeOK

-----------------------------------------------------------------------------
(* Type correctness *)

LEMMA TypeInit == Init => TypeOK /\ SessionOK
<1> SUFFICES ASSUME Init PROVE TypeOK /\ SessionOK
  OBVIOUS
<1>1. NoTunnels \in TunnelMap
  BY DEF NoTunnels, TunnelMap
<1>2. file \in State
  BY <1>1 DEF Init, EmptyState, State, FeedState
<1>3. IdleOp \in Op
  BY <1>1 DEF IdleOp, Op, PC
<1>4. TypeOK
  BY <1>2, <1>3 DEF Init, TypeOK
<1>5. SessionOK
  BY NoneAssumption DEF Init, SessionOK, IdleOp
<1> QED
  BY <1>4, <1>5

\* The first writes for a received revision leave a State.
LEMMA WithRevisionType ==
    ASSUME NEW st \in State, NEW u \in Loops, NEW r \in Revisions
    PROVE  WithRevision(st, u, r) \in State
<1> DEFINE f == DocOf[r].id
           fs == [st.feeds[f] EXCEPT !.cache = IF r \in Encrypted THEN r ELSE None]
<1>1. f \in Feeds
  BY DocType
<1>2. st.urlMap \in [Loops -> Feeds \cup {None}] /\ st.feeds \in [Feeds -> FeedState]
  BY DEF State
<1>3. fs \in FeedState
  BY <1>1, <1>2 DEF FeedState
<1>4. [st.urlMap EXCEPT ![u] = f] \in [Loops -> Feeds \cup {None}]
  BY <1>1, <1>2
<1>5. [st.feeds EXCEPT ![f] = fs] \in [Feeds -> FeedState]
  BY <1>1, <1>2, <1>3
<1> QED
  BY <1>4, <1>5 DEF WithRevision, State

\* Apart from its types, mapping a setup URL writes the mapping and the cached ciphertext.
LEMMA WithRevisionExactly ==
    ASSUME NEW st \in State, NEW u \in Loops, NEW r \in Revisions
    PROVE  LET f == DocOf[r].id
               c == IF r \in Encrypted THEN r ELSE None
           IN  WithRevision(st, u, r) =
                 [urlMap |-> [st.urlMap EXCEPT ![u] = f],
                  feeds |-> [st.feeds EXCEPT ![f] = [st.feeds[f] EXCEPT !.cache = c]]]
BY DocType DEF WithRevision, State

LEMMA WithRevisionKeeps ==
    ASSUME NEW st \in State, NEW u \in Loops, NEW r \in Revisions
    PROVE  /\ \A g \in Feeds : g # DocOf[r].id => WithRevision(st, u, r).feeds[g] = st.feeds[g]
           /\ \A v \in Loops : v # u => WithRevision(st, u, r).urlMap[v] = st.urlMap[v]
           /\ WithRevision(st, u, r).urlMap[u] = DocOf[r].id
           /\ \A g \in Feeds : /\ WithRevision(st, u, r).feeds[g].tunnels = st.feeds[g].tunnels
                               /\ WithRevision(st, u, r).feeds[g].lastRev = st.feeds[g].lastRev
           /\ WithRevision(st, u, r).feeds[DocOf[r].id].cache \in {r, None}
<1>1. PICK f \in Feeds : f = DocOf[r].id
  BY DocType
<1>2. /\ st.urlMap \in [Loops -> Feeds \cup {None}]
      /\ st.feeds \in [Feeds -> FeedState] /\ st.feeds[f] \in FeedState
  BY <1>1 DEF State
<1>3. PICK c \in {r, None} : c = IF r \in Encrypted THEN r ELSE None
  OBVIOUS
<1>4. PICK fs : fs = [st.feeds[f] EXCEPT !.cache = c]
  OBVIOUS
<1>5. /\ fs.tunnels = st.feeds[f].tunnels /\ fs.lastRev = st.feeds[f].lastRev
      /\ fs.cache = c
  BY <1>2, <1>4 DEF FeedState
<1>6. PICK new : /\ new = WithRevision(st, u, r)
                 /\ new.urlMap = [st.urlMap EXCEPT ![u] = f]
                 /\ new.feeds = [st.feeds EXCEPT ![f] = fs]
  BY <1>1, <1>3, <1>4, WithRevisionExactly
<1>7. /\ \A g \in Feeds : g # f => new.feeds[g] = st.feeds[g]
      /\ new.feeds[f] = fs
      /\ \A v \in Loops : v # u => new.urlMap[v] = st.urlMap[v]
      /\ new.urlMap[u] = f
  BY <1>2, <1>6
<1> QED
  BY <1>1, <1>3, <1>5, <1>6, <1>7

\* Rewriting the endpoint order of a feed writes nothing else.
LEMMA ReorderedKeeps ==
    ASSUME NEW st \in State, NEW f \in Feeds, NEW r \in Revisions
    PROVE  /\ Reordered(st, f, r) \in State
           /\ Reordered(st, f, r).urlMap = st.urlMap
           /\ \A g \in Feeds : g # f => Reordered(st, f, r).feeds[g] = st.feeds[g]
           /\ \A g \in Feeds : /\ Reordered(st, f, r).feeds[g].tunnels = st.feeds[g].tunnels
                               /\ Reordered(st, f, r).feeds[g].lastRev = st.feeds[g].lastRev
                               /\ Reordered(st, f, r).feeds[g].cache = st.feeds[g].cache
                               /\ Reordered(st, f, r).feeds[g].mapped = st.feeds[g].mapped
<1>1. /\ st.urlMap \in [Loops -> Feeds \cup {None}]
      /\ st.feeds \in [Feeds -> FeedState] /\ st.feeds[f] \in FeedState
  BY DEF State
<1>2. PICK fs : fs = [st.feeds[f] EXCEPT !.order = r]
  OBVIOUS
<1>3. /\ fs \in FeedState
      /\ fs.tunnels = st.feeds[f].tunnels /\ fs.lastRev = st.feeds[f].lastRev
      /\ fs.cache = st.feeds[f].cache /\ fs.mapped = st.feeds[f].mapped
  BY <1>1, <1>2 DEF FeedState
<1>4. Reordered(st, f, r) = [urlMap |-> st.urlMap, feeds |-> [st.feeds EXCEPT ![f] = fs]]
  BY <1>2 DEF Reordered
<1>5. Reordered(st, f, r).feeds \in [Feeds -> FeedState]
  BY <1>1, <1>3, <1>4
<1> QED
  BY <1>1, <1>2, <1>3, <1>4, <1>5 DEF State

\* The State a session that received revision r starts with.
LEMMA ReceivedKeeps ==
    ASSUME TypeOK, NEW u \in Loops, NEW r \in Revisions
    PROVE  /\ Received(u, r) \in State
           /\ \A g \in Feeds : g # DocOf[r].id => Received(u, r).feeds[g] = file.feeds[g]
           /\ \A v \in Loops : v # u => Received(u, r).urlMap[v] = file.urlMap[v]
           /\ \A g \in Feeds : /\ Received(u, r).feeds[g].tunnels = file.feeds[g].tunnels
                               /\ Received(u, r).feeds[g].lastRev = file.feeds[g].lastRev
           /\ Received(u, r).feeds[DocOf[r].id].cache \in {r, None}
<1>1. PICK f \in Feeds : f = DocOf[r].id
  BY DocType
<1>2. PICK st \in State : st = WithRevision(file, u, r)
  BY WithRevisionType DEF TypeOK
<1>3. /\ \A g \in Feeds : g # f => st.feeds[g] = file.feeds[g]
      /\ \A v \in Loops : v # u => st.urlMap[v] = file.urlMap[v]
      /\ \A g \in Feeds : /\ st.feeds[g].tunnels = file.feeds[g].tunnels
                          /\ st.feeds[g].lastRev = file.feeds[g].lastRev
      /\ st.feeds[f].cache \in {r, None}
  BY <1>1, <1>2, WithRevisionKeeps DEF TypeOK
<1>4. PICK new : new = Reordered(st, f, r)
  OBVIOUS
<1>5. /\ new \in State /\ new.urlMap = st.urlMap
      /\ \A g \in Feeds : g # f => new.feeds[g] = st.feeds[g]
      /\ \A g \in Feeds : /\ new.feeds[g].tunnels = st.feeds[g].tunnels
                          /\ new.feeds[g].lastRev = st.feeds[g].lastRev
                          /\ new.feeds[g].cache = st.feeds[g].cache
  BY <1>4, ReorderedKeeps
<1>6. Received(u, r) = new
  BY <1>1, <1>2, <1>4 DEF Received
<1>7. new.feeds[f].cache \in {r, None}
  BY <1>3, <1>5
<1>8. \A g \in Feeds : g # f => new.feeds[g] = file.feeds[g]
  BY <1>3, <1>5
<1>9. \A g \in Feeds : /\ new.feeds[g].tunnels = file.feeds[g].tunnels
                       /\ new.feeds[g].lastRev = file.feeds[g].lastRev
  BY <1>3, <1>5
<1>10. \A v \in Loops : v # u => new.urlMap[v] = file.urlMap[v]
  BY <1>3, <1>5
<1>11. new \in State
  BY <1>5
<1> QED
  BY <1>1, <1>6, <1>7, <1>8, <1>9, <1>10, <1>11

\* The mapping and the cached ciphertext that session starts with.
LEMMA ReceivedExactly ==
    ASSUME TypeOK, NEW u \in Loops, NEW r \in Revisions
    PROVE  /\ Received(u, r).urlMap = [file.urlMap EXCEPT ![u] = DocOf[r].id]
           /\ Received(u, r).feeds[DocOf[r].id].cache = IF r \in Encrypted THEN r ELSE None
<1>1. PICK f \in Feeds : f = DocOf[r].id
  BY DocType
<1>2. PICK st \in State : st = WithRevision(file, u, r)
  BY WithRevisionType DEF TypeOK
<1>3. PICK c : c = IF r \in Encrypted THEN r ELSE None
  OBVIOUS
<1>4. st.urlMap = [file.urlMap EXCEPT ![u] = f] /\ st.feeds[f].cache = c
  <2>1. /\ file \in State /\ file.feeds \in [Feeds -> FeedState]
        /\ file.feeds[f] \in FeedState
    BY DEF TypeOK, State
  <2>2. PICK fs : fs = [file.feeds[f] EXCEPT !.cache = c]
    OBVIOUS
  <2>3. fs.cache = c
    BY <2>1, <2>2 DEF FeedState
  <2>4. st = [urlMap |-> [file.urlMap EXCEPT ![u] = f],
              feeds |-> [file.feeds EXCEPT ![f] = fs]]
    BY <1>1, <1>2, <1>3, <2>1, <2>2, WithRevisionExactly
  <2> QED
    BY <2>1, <2>3, <2>4
<1>5. Received(u, r) = Reordered(st, f, r)
  BY <1>1, <1>2 DEF Received
<1>6. Received(u, r).urlMap = st.urlMap /\ Received(u, r).feeds[f].cache = st.feeds[f].cache
  BY <1>5, ReorderedKeeps
<1> QED
  BY <1>1, <1>3, <1>4, <1>6

\* A session starts at the first tunnel with the State it has just loaded.
LEMMA BeginType ==
    ASSUME TypeOK, SessionOK, NEW u \in Loops, NEW st \in State,
           NEW pc \in {"apply", "save"}, NEW kind \in {"update", "cache"},
           NEW r \in Revisions, Begin(u, st, pc, kind, r)
    PROVE  TypeOK' /\ SessionOK'
<1> DEFINE o == [pc |-> pc, kind |-> kind, rev |-> r, i |-> 1, enabled |-> FALSE,
                 work |-> st.feeds[DocOf[r].id].tunnels]
<1>1. st.feeds[DocOf[r].id].tunnels \in TunnelMap
  BY DocType DEF State, FeedState
<1>2. o \in Op
  BY <1>1 DEF Op, PC
<1>3. o.pc # "idle" /\ o.rev = r /\ o.i = 1
  OBVIOUS
<1>4. /\ lock' = u
      /\ mem' = [mem EXCEPT ![u] = st]
      /\ op' = [op EXCEPT ![u] = o]
      /\ file' = file /\ device' = device /\ lock = None
  BY DEF Begin
<1> HIDE DEF o
<1>5. TypeOK'
  BY <1>2, <1>4 DEF TypeOK
<1>6. /\ op'[u] = o /\ mem'[u] = st
      /\ \A v \in Loops : v # u => op'[v] = op[v]
  BY <1>4 DEF TypeOK
<1>7. SessionOK'
  BY <1>3, <1>4, <1>6, NoneAssumption DEF SessionOK
<1> QED
  BY <1>5, <1>7

\* A step inside a session that keeps the mutex and writes a State and an op of
\* the right types.
LEMMA SessionType ==
    ASSUME TypeOK, SessionOK, NEW u \in Loops, op[u].pc # "idle",
           NEW st \in State, NEW o \in Op,
           o.pc # "idle", o.rev = op[u].rev, o.i \in Nat \ {0},
           device' \in [Names -> Profile \cup {None}],
           op' = [op EXCEPT ![u] = o], mem' = [mem EXCEPT ![u] = st],
           file' = file, lock' = lock
    PROVE  TypeOK' /\ SessionOK'
<1>1. TypeOK'
  BY DEF TypeOK
<1>2. /\ op'[u] = o /\ mem'[u] = st
      /\ \A v \in Loops : v # u => op'[v] = op[v] /\ mem'[v] = mem[v]
  BY DEF TypeOK
<1>3. SessionOK'
  BY <1>2 DEF SessionOK
<1> QED
  BY <1>1, <1>3

\* What a backend call leaves under a name.
LEMMA DeviceType ==
    ASSUME TypeOK, NEW n \in Names, NEW e \in Profile \cup {None}
    PROVE  [device EXCEPT ![n] = e] \in [Names -> Profile \cup {None}]
BY DEF TypeOK

LEMMA EffectTypes ==
    ASSUME TypeOK, NEW n \in Names, NEW cfg \in Configs, NEW enabled \in BOOLEAN
    PROVE  /\ ApplyEffect(cfg, enabled) \in Profile \cup {None}
           /\ FailedApplyEffects(n, cfg) \subseteq Profile \cup {None}
           /\ RemoveEffects(n) \subseteq Profile \cup {None}
BY DEF TypeOK, ApplyEffect, FailedApplyEffects, RemoveEffects, Profile

LEMMA RenamedType ==
    ASSUME TypeOK, SessionOK, NEW u \in Loops, RemoveRenamed(u)
    PROVE  TypeOK' /\ SessionOK'
<1> DEFINE t == Current(u)
           o == [op[u] EXCEPT !.pc = "reapply",
                              !.enabled = EffectiveEnabled(t, op[u].work),
                              !.work = [op[u].work EXCEPT ![t.id] = None]]
<1>1. op[u].pc = "apply" /\ HasCurrent(u) /\ Renamed(t, op[u].work)
  BY DEF RemoveRenamed
<1>2. t \in TunnelDef /\ op[u] \in Op /\ op[u].work \in TunnelMap
  BY <1>1, CurrentType DEF TypeOK, Op
<1>3. t.id \in Tunnels /\ op[u].work[t.id] \in TunnelState
  BY <1>1, <1>2 DEF TunnelDef, TunnelMap, Renamed
<1>4. op[u].work[t.id].name \in Names
  BY <1>3 DEF TunnelState
<1>5. PICK e \in RemoveEffects(op[u].work[t.id].name) :
          device' = [device EXCEPT ![op[u].work[t.id].name] = e]
  BY DEF RemoveRenamed
<1>6. e \in Profile \cup {None}
  BY <1>4, <1>5 DEF RemoveEffects, TypeOK, Profile
<1>7. device' \in [Names -> Profile \cup {None}]
  BY <1>4, <1>5, <1>6, DeviceType
<1>8. [op[u].work EXCEPT ![t.id] = None] \in TunnelMap
  BY <1>2 DEF TunnelMap
<1>9. EffectiveEnabled(t, op[u].work) \in BOOLEAN
  BY <1>2, EffectiveEnabledType
<1>10. o \in Op
  BY <1>2, <1>8, <1>9 DEF Op, PC
<1>11. o.pc # "idle" /\ o.rev = op[u].rev /\ o.i = op[u].i
  BY <1>2 DEF Op
<1>12. op' = [op EXCEPT ![u] = o]
  BY <1>2 DEF RemoveRenamed, TypeOK, Op
<1>13. mem[u] \in State /\ op[u].i \in Nat \ {0}
  BY <1>1 DEF SessionOK
<1>14. mem' = [mem EXCEPT ![u] = mem[u]] /\ file' = file /\ lock' = lock
  BY DEF RemoveRenamed, TypeOK
<1> HIDE DEF o
<1> QED
  BY <1>1, <1>7, <1>10, <1>11, <1>12, <1>13, <1>14, SessionType

LEMMA ApplyOkType ==
    ASSUME TypeOK, SessionOK, NEW u \in Loops, ApplyOk(u)
    PROVE  TypeOK' /\ SessionOK'
<1> DEFINE t == Current(u)
<1>1. PICK enabled \in BOOLEAN :
        /\ Applying(u, enabled)
        /\ device' = [device EXCEPT ![t.name] = ApplyEffect(t.cfg, enabled)]
        /\ op' = [op EXCEPT
              ![u].pc = "apply", ![u].i = @ + 1,
              ![u].work[t.id] = [name |-> t.name, enabled |-> enabled]]
        /\ UNCHANGED <<file, lock, mem>>
  BY DEF ApplyOk
<1> DEFINE work == [op[u].work EXCEPT ![t.id] = [name |-> t.name, enabled |-> enabled]]
           o == [op[u] EXCEPT !.pc = "apply", !.i = op[u].i + 1, !.work = work]
<1>2. /\ t \in TunnelDef /\ op[u].pc # "idle"
      /\ op[u] \in Op /\ op[u].work \in TunnelMap
  BY <1>1, CurrentType DEF Applying, TypeOK, Op
<1>3. t.id \in Tunnels /\ t.name \in Names /\ t.cfg \in Configs
  BY <1>2 DEF TunnelDef
<1>4. device' \in [Names -> Profile \cup {None}]
  BY <1>1, <1>3, EffectTypes, DeviceType
<1>5. work \in TunnelMap
  BY <1>2, <1>3 DEF TunnelMap, TunnelState
<1>6. op[u].i \in Nat \ {0} /\ op[u].i + 1 \in Nat \ {0} /\ mem[u] \in State
  BY <1>2 DEF SessionOK
<1> HIDE DEF work
<1>7. o \in Op
  BY <1>2, <1>5, <1>6 DEF Op, PC
<1>8. o.pc # "idle" /\ o.rev = op[u].rev /\ o.i \in Nat \ {0}
  BY <1>2, <1>6 DEF Op
<1>9. op' = [op EXCEPT ![u] = o]
  BY <1>1, <1>2 DEF TypeOK, Op, work
<1>10. mem' = [mem EXCEPT ![u] = mem[u]] /\ file' = file /\ lock' = lock
  BY <1>1 DEF TypeOK
<1> HIDE DEF o
<1> QED
  BY <1>2, <1>4, <1>6, <1>7, <1>8, <1>9, <1>10, SessionType

\* Replacing one entry of a State gives a State.
LEMMA StoredType ==
    ASSUME NEW st \in State, NEW f \in Feeds, NEW fs \in FeedState
    PROVE  Stored(st, f, fs) \in State
BY DEF Stored, State

LEMMA EntryTypes ==
    ASSUME TypeOK, SessionOK, NEW u \in Loops, op[u].pc # "idle"
    PROVE  /\ FeedOf(u) \in Feeds
           /\ InterruptedEntry(u) \in FeedState
           /\ ReconciledEntry(u) \in FeedState
<1>1. FeedOf(u) \in Feeds /\ op[u].rev \in Revisions
  BY DocType DEF SessionOK, FeedOf, Doc
<1>2. mem[u].feeds[FeedOf(u)] \in FeedState
  BY <1>1 DEF SessionOK, State
<1>3. op[u].work \in TunnelMap
  BY DEF TypeOK, Op
<1> QED
  BY <1>1, <1>2, <1>3 DEF InterruptedEntry, ReconciledEntry, FeedState

LEMMA ApplyFailType ==
    ASSUME TypeOK, SessionOK, NEW u \in Loops, ApplyFail(u)
    PROVE  TypeOK' /\ SessionOK'
<1> DEFINE t == Current(u)
           st == Stored(mem[u], FeedOf(u), InterruptedEntry(u))
           o == [op[u] EXCEPT !.pc = "save"]
<1>1. PICK enabled \in BOOLEAN : Applying(u, enabled)
  BY DEF ApplyFail
<1>2. t \in TunnelDef /\ op[u].pc # "idle" /\ op[u] \in Op
  BY <1>1, CurrentType DEF Applying, TypeOK
<1>3. t.name \in Names /\ t.cfg \in Configs
  BY <1>2 DEF TunnelDef
<1>4. PICK e \in FailedApplyEffects(t.name, t.cfg) :
          device' = [device EXCEPT ![t.name] = e]
  BY DEF ApplyFail
<1>5. device' \in [Names -> Profile \cup {None}]
  <2>1. e \in Profile \cup {None}
    BY <1>3, <1>4, EffectTypes
  <2> QED
    BY <1>3, <1>4, <2>1, DeviceType
<1>6. op[u].i \in Nat \ {0} /\ mem[u] \in State
  BY <1>2 DEF SessionOK
<1>7. st \in State
  BY <1>2, <1>6, EntryTypes, StoredType
<1>8. o \in Op /\ o.pc # "idle" /\ o.rev = op[u].rev /\ o.i = op[u].i
  BY <1>2 DEF Op, PC
<1>9. /\ op' = [op EXCEPT ![u] = o] /\ mem' = [mem EXCEPT ![u] = st]
      /\ file' = file /\ lock' = lock
  BY <1>2 DEF ApplyFail, TypeOK, Op
<1> HIDE DEF o, st
<1> QED
  BY <1>2, <1>5, <1>6, <1>7, <1>8, <1>9, SessionType

LEMMA MissingType ==
    ASSUME TypeOK, SessionOK, NEW u \in Loops, NEW id \in Tunnels,
           RemoveMissing(u, id)
    PROVE  TypeOK' /\ SessionOK'
<1> DEFINE n == op[u].work[id].name
           o == [op[u] EXCEPT !.work = [op[u].work EXCEPT ![id] = None]]
<1>1. op[u].pc = "apply" /\ op[u].work[id] # None
  BY DEF RemoveMissing, Applied, Missing
<1>2. op[u] \in Op /\ op[u].work \in TunnelMap
  BY DEF TypeOK, Op
<1>3. n \in Names
  BY <1>1, <1>2 DEF TunnelMap, TunnelState
<1>4. PICK e \in RemoveEffects(n) : device' = [device EXCEPT ![n] = e]
  BY DEF RemoveMissing
<1>5. e \in Profile \cup {None}
  BY <1>3, <1>4 DEF RemoveEffects, TypeOK, Profile
<1>6. device' \in [Names -> Profile \cup {None}]
  BY <1>3, <1>4, <1>5, DeviceType
<1>7. [op[u].work EXCEPT ![id] = None] \in TunnelMap
  BY <1>2 DEF TunnelMap
<1>8. o \in Op /\ o.pc # "idle" /\ o.rev = op[u].rev /\ o.i = op[u].i
  BY <1>1, <1>2, <1>7 DEF Op
<1>9. op[u].i \in Nat \ {0} /\ mem[u] \in State
  BY <1>1 DEF SessionOK
<1>10. /\ op' = [op EXCEPT ![u] = o] /\ mem' = [mem EXCEPT ![u] = mem[u]]
       /\ file' = file /\ lock' = lock
  BY <1>2 DEF RemoveMissing, TypeOK, Op
<1> HIDE DEF o, n
<1> QED
  BY <1>1, <1>6, <1>8, <1>9, <1>10, SessionType

LEMMA EndType ==
    ASSUME TypeOK, SessionOK, NEW u \in Loops, EndReconcile(u)
    PROVE  TypeOK' /\ SessionOK'
<1> DEFINE st == Stored(mem[u], FeedOf(u), ReconciledEntry(u))
           o == [op[u] EXCEPT !.pc = "save"]
<1>1. op[u].pc = "apply" /\ op[u] \in Op
  BY DEF EndReconcile, Applied, TypeOK
<1>2. op[u].i \in Nat \ {0} /\ mem[u] \in State
  BY <1>1 DEF SessionOK
<1>3. st \in State
  BY <1>1, <1>2, EntryTypes, StoredType
<1>4. o \in Op /\ o.pc # "idle" /\ o.rev = op[u].rev /\ o.i = op[u].i
  BY <1>1 DEF Op, PC
<1>5. /\ op' = [op EXCEPT ![u] = o] /\ mem' = [mem EXCEPT ![u] = st]
      /\ file' = file /\ lock' = lock
      /\ device' \in [Names -> Profile \cup {None}]
  BY <1>1 DEF EndReconcile, TypeOK, Op
<1> HIDE DEF o, st
<1> QED
  BY <1>1, <1>2, <1>3, <1>4, <1>5, SessionType

\* The end of a session, with or without a new file.
LEMMA UnlockType ==
    ASSUME TypeOK, SessionOK, NEW u \in Loops,
           SaveOk(u) \/ SaveFail(u)
    PROVE  TypeOK' /\ SessionOK'
<1>1. op[u].pc = "save" /\ lock = u /\ mem[u] \in State
  BY DEF SaveOk, SaveFail, SessionOK
<1>2. file' \in State
  BY <1>1 DEF SaveOk, SaveFail, TypeOK
<1>3. IdleOp \in Op
  BY DEF IdleOp, Op, PC, NoTunnels, TunnelMap
<1>4. /\ lock' = None /\ device' = device
      /\ mem' = [mem EXCEPT ![u] = None] /\ op' = [op EXCEPT ![u] = IdleOp]
  BY DEF SaveOk, SaveFail
<1>5. TypeOK'
  BY <1>2, <1>3, <1>4 DEF TypeOK
<1>6. \A v \in Loops : op'[v].pc = "idle"
  <2> SUFFICES ASSUME NEW v \in Loops PROVE op'[v].pc = "idle"
    OBVIOUS
  <2>1. CASE v = u
    BY <1>4, <2>1 DEF TypeOK, IdleOp
  <2>2. CASE v # u
    <3>1. op'[v] = op[v]
      BY <1>4, <2>2 DEF TypeOK
    <3> QED
      BY <1>1, <2>2, <3>1 DEF SessionOK
  <2> QED
    BY <2>1, <2>2
<1>7. SessionOK'
  BY <1>4, <1>6, NoneAssumption DEF SessionOK
<1> QED
  BY <1>5, <1>7

LEMMA CrashType ==
    ASSUME TypeOK, SessionOK, Crash
    PROVE  TypeOK' /\ SessionOK'
<1>1. IdleOp \in Op /\ IdleOp.pc = "idle"
  BY DEF IdleOp, Op, PC, NoTunnels, TunnelMap
<1>2. TypeOK'
  BY <1>1 DEF Crash, TypeOK
<1>3. SessionOK'
  BY <1>1, NoneAssumption DEF Crash, SessionOK
<1> QED
  BY <1>2, <1>3

LEMMA TypeNext ==
    ASSUME TypeOK, SessionOK, [Next]_vars
    PROVE  TypeOK' /\ SessionOK'
<1>1. ASSUME NEW u \in Loops, NEW r \in Revisions, BeginUpdate(u, r)
      PROVE  TypeOK' /\ SessionOK'
  <2>1. PICK pc \in {"apply", "save"} : Begin(u, Received(u, r), pc, "update", r)
    BY <1>1 DEF BeginUpdate
  <2> QED
    BY <2>1, DocType, ReceivedKeeps, BeginType
<1>2. ASSUME NEW u \in Loops, NEW f \in Feeds, BeginCache(u, f)
      PROVE  TypeOK' /\ SessionOK'
  <2>1. file \in State /\ file.feeds[f].cache \in Revisions
    BY <1>2 DEF BeginCache, TypeOK, State, FeedState
  <2>2. Begin(u, file, "apply", "cache", file.feeds[f].cache)
    BY <1>2 DEF BeginCache
  <2> QED
    BY <2>1, <2>2, BeginType
<1>3. ASSUME NEW u \in Loops, SessionStep(u)
      PROVE  TypeOK' /\ SessionOK'
  BY <1>3, RenamedType, ApplyOkType, ApplyFailType, MissingType, EndType,
     UnlockType DEF SessionStep
<1>4. CASE Crash
  BY <1>4, CrashType
<1>5. CASE UNCHANGED vars
  BY <1>5 DEF vars, TypeOK, SessionOK
<1> QED
  BY <1>1, <1>2, <1>3, <1>4, <1>5 DEF Next

\* The state file, the backend, the mutex and the sessions always have their
\* types (State and FeedState of internal/client/state; daemon.withStateSave).
THEOREM TypeCorrect == Spec => []TypeOK
<1>1. Init => TypeOK /\ SessionOK
  BY TypeInit
<1>2. (TypeOK /\ SessionOK) /\ [Next]_vars => (TypeOK /\ SessionOK)'
  BY TypeNext
<1>3. Spec => [](TypeOK /\ SessionOK)
  BY <1>1, <1>2, PTL DEF Spec
<1> QED
  BY <1>3, PTL

-----------------------------------------------------------------------------
(* Sessions write only their own entry *)

\* The steps between the start and the end of a session: the holder writes no
\* file and, in memory, only the entry of its own feed.
LEMMA InnerStep ==
    ASSUME TypeOK, SessionOK, NEW u \in Loops,
           \/ RemoveRenamed(u) \/ ApplyOk(u) \/ ApplyFail(u)
           \/ \E id \in Tunnels : RemoveMissing(u, id)
           \/ EndReconcile(u)
    PROVE  /\ op[u].pc # "idle" /\ op'[u].rev = op[u].rev
           /\ lock' = lock /\ file' = file
           /\ \/ mem'[u] = mem[u]
              \/ mem'[u] = Stored(mem[u], FeedOf(u), InterruptedEntry(u))
              \/ mem'[u] = Stored(mem[u], FeedOf(u), ReconciledEntry(u))
<1>1. op \in [Loops -> Op] /\ mem \in [Loops -> State \cup {None}]
  BY DEF TypeOK
<1>2. CASE RemoveRenamed(u)
  <2>1. /\ op[u].pc = "apply" /\ UNCHANGED <<file, lock, mem>>
        /\ op' = [op EXCEPT ![u].pc = "reapply",
                   ![u].enabled = EffectiveEnabled(Current(u), op[u].work),
                   ![u].work[Current(u).id] = None]
    BY <1>2 DEF RemoveRenamed
  <2>2. op'[u].rev = op[u].rev
    BY <1>1, <2>1 DEF Op
  <2> QED
    BY <2>1, <2>2
<1>3. CASE ApplyOk(u)
  <2>1. PICK enabled \in BOOLEAN :
          /\ Applying(u, enabled)
          /\ op' = [op EXCEPT
                ![u].pc = "apply", ![u].i = @ + 1,
                ![u].work[Current(u).id] = [name |-> Current(u).name, enabled |-> enabled]]
          /\ UNCHANGED <<file, lock, mem>>
    BY <1>3 DEF ApplyOk
  <2>2. op[u].pc # "idle" /\ op'[u].rev = op[u].rev
    BY <1>1, <2>1 DEF Applying, Op
  <2> QED
    BY <2>1, <2>2
<1>4. CASE ApplyFail(u)
  BY <1>1, <1>4 DEF ApplyFail, Applying, Op
<1>5. CASE \E id \in Tunnels : RemoveMissing(u, id)
  BY <1>1, <1>5 DEF RemoveMissing, Applied, Op
<1>6. CASE EndReconcile(u)
  BY <1>1, <1>6 DEF EndReconcile, Applied, Op
<1> QED
  BY <1>2, <1>3, <1>4, <1>5, <1>6

\* How a session starts: with the file, but for what Received writes.
LEMMA BeginStep ==
    ASSUME TypeOK, NEW u \in Loops,
           \/ \E r \in Revisions : BeginUpdate(u, r)
           \/ \E f \in Feeds : BeginCache(u, f)
    PROVE  /\ lock' = u /\ file' = file
           /\ \/ op'[u].rev \in Revisions /\ mem'[u] = Received(u, op'[u].rev)
              \/ mem'[u] = file
<1>1. op \in [Loops -> Op] /\ mem \in [Loops -> State \cup {None}]
  BY DEF TypeOK
<1>2. ASSUME NEW r \in Revisions, BeginUpdate(u, r)
      PROVE  /\ lock' = u /\ file' = file
             /\ op'[u].rev = r /\ mem'[u] = Received(u, r)
  <2>1. PICK pc : Begin(u, Received(u, r), pc, "update", r)
    BY <1>2 DEF BeginUpdate
  <2> QED
    BY <1>1, <2>1 DEF Begin
<1>3. ASSUME NEW f \in Feeds, BeginCache(u, f)
      PROVE  lock' = u /\ file' = file /\ mem'[u] = file
  BY <1>1, <1>3 DEF BeginCache, Begin
<1> QED
  BY <1>2, <1>3

LEMMA EndStep ==
    ASSUME SessionOK, NEW u \in Loops, SaveOk(u) \/ SaveFail(u)
    PROVE  /\ lock = u /\ lock' = None
           /\ file' = mem[u] \/ file' = file
BY DEF SessionOK, SaveOk, SaveFail

LEMMA MemNext ==
    ASSUME TypeOK, SessionOK, MemAgrees, [Next]_vars
    PROVE  MemAgrees'
<1>1. ASSUME NEW u \in Loops,
             \/ \E r \in Revisions : BeginUpdate(u, r)
             \/ \E f \in Feeds : BeginCache(u, f)
      PROVE  MemAgrees'
  <2>1. /\ \A f \in Feeds : f # DocOf[op'[u].rev].id => mem'[u].feeds[f] = file.feeds[f]
        /\ \A v \in Loops : v # u => mem'[u].urlMap[v] = file.urlMap[v]
    <3>1. CASE mem'[u] = file
      BY <3>1
    <3>2. CASE op'[u].rev \in Revisions /\ mem'[u] = Received(u, op'[u].rev)
      BY <3>2, ReceivedKeeps
    <3> QED
      BY <1>1, <3>1, <3>2, BeginStep
  <2> QED
    BY <1>1, <2>1, BeginStep DEF MemAgrees, FeedOf, Doc
<1>2. ASSUME NEW u \in Loops,
             \/ RemoveRenamed(u) \/ ApplyOk(u) \/ ApplyFail(u)
             \/ \E id \in Tunnels : RemoveMissing(u, id)
             \/ EndReconcile(u)
      PROVE  MemAgrees'
  <2>1. lock = u /\ lock' = u /\ FeedOf(u)' = FeedOf(u) /\ mem[u] \in State
    BY <1>2, InnerStep DEF SessionOK, FeedOf, Doc
  <2>2. /\ \A f \in Feeds : f # FeedOf(u) => mem'[u].feeds[f] = mem[u].feeds[f]
        /\ \A v \in Loops : mem'[u].urlMap[v] = mem[u].urlMap[v]
    <3>1. CASE mem'[u] = mem[u]
      BY <3>1
    <3>2. ASSUME NEW fs, mem'[u] = Stored(mem[u], FeedOf(u), fs)
          PROVE  /\ \A f \in Feeds : f # FeedOf(u) => mem'[u].feeds[f] = mem[u].feeds[f]
                 /\ \A v \in Loops : mem'[u].urlMap[v] = mem[u].urlMap[v]
      BY <2>1, <3>2 DEF Stored, State
    <3> QED
      BY <1>2, <3>1, <3>2, InnerStep
  <2>3. file' = file
    BY <1>2, InnerStep
  <2> QED
    BY <2>1, <2>2, <2>3 DEF MemAgrees
<1>3. ASSUME NEW u \in Loops, SaveOk(u) \/ SaveFail(u)
      PROVE  MemAgrees'
  BY <1>3, EndStep, NoneAssumption DEF MemAgrees
<1>4. CASE Crash
  BY <1>4, NoneAssumption DEF Crash, MemAgrees
<1>5. CASE UNCHANGED vars
  BY <1>5 DEF vars, MemAgrees, FeedOf, Doc
<1> QED
  BY <1>1, <1>2, <1>3, <1>4, <1>5 DEF Next, SessionStep

\* Only a save changes the file, and it writes what the holder has in memory.
LEMMA FileStep ==
    ASSUME TypeOK, SessionOK, [Next]_vars, file' # file
    PROVE  \E u \in Loops : lock = u /\ file' = mem[u]
<1>1. ASSUME NEW u \in Loops, SessionStep(u)
      PROVE  \E v \in Loops : lock = v /\ file' = mem[v]
  BY <1>1, InnerStep, EndStep DEF SessionStep
<1> QED
  BY <1>1, BeginStep DEF Next, Crash, vars

\* Sessions of different loops never lose each other's updates: a step that
\* changes a feed's stored entry, or a setup URL's mapping, is the save of the
\* loop that holds the mutex for it (daemon.withStateSave).
THEOREM OwnFeedOnly == Spec => OnlyOwnFeedSaved
<1> DEFINE Inv == TypeOK /\ SessionOK /\ MemAgrees
           Step == /\ \A f \in Feeds : file'.feeds[f] # file.feeds[f] =>
                         lock # None /\ FeedOf(lock) = f
                   /\ \A u \in Loops : file'.urlMap[u] # file.urlMap[u] => lock = u
<1>1. Init => Inv
  BY TypeInit, NoneAssumption DEF Init, MemAgrees
<1>2. Inv /\ [Next]_vars => Inv'
  BY TypeNext, MemNext
<1>3. Inv /\ [Next]_vars => [Step]_vars
  <2> SUFFICES ASSUME Inv, [Next]_vars, file' # file PROVE Step
    OBVIOUS
  <2>1. PICK u \in Loops : lock = u /\ file' = mem[u]
    BY FileStep
  <2> QED
    BY <2>1, NoneAssumption DEF MemAgrees
<1> QED
  BY <1>1, <1>2, <1>3, PTL DEF Spec, OnlyOwnFeedSaved

-----------------------------------------------------------------------------
(* Ciphertexts and revisions are stored under their own feed *)

LEMMA KeyedNext ==
    ASSUME TypeOK, SessionOK, KeyedStates, [Next]_vars
    PROVE  KeyedStates'
<1>1. ASSUME NEW u \in Loops,
             \/ \E r \in Revisions : BeginUpdate(u, r)
             \/ \E f \in Feeds : BeginCache(u, f)
      PROVE  KeyedStates'
  <2>1. Keyed(mem'[u])
    <3>1. CASE mem'[u] = file
      BY <3>1 DEF KeyedStates
    <3>2. CASE op'[u].rev \in Revisions /\ mem'[u] = Received(u, op'[u].rev)
      <4>1. PICK r \in Revisions : mem'[u] = Received(u, r)
        BY <3>2
      <4>2. PICK f \in Feeds : f = DocOf[r].id
        BY DocType
      <4>3. /\ mem'[u].feeds[f].cache \in {r, None}
            /\ mem'[u].feeds[f].lastRev = file.feeds[f].lastRev
            /\ \A g \in Feeds : g # f => mem'[u].feeds[g] = file.feeds[g]
        BY <4>1, <4>2, ReceivedKeeps
      <4> QED
        BY <4>2, <4>3 DEF KeyedStates, Keyed
    <3> QED
      BY <1>1, <3>1, <3>2, BeginStep
  <2> QED
    BY <1>1, <2>1, BeginStep DEF KeyedStates, Keyed
<1>2. ASSUME NEW u \in Loops,
             \/ RemoveRenamed(u) \/ ApplyOk(u) \/ ApplyFail(u)
             \/ \E id \in Tunnels : RemoveMissing(u, id)
             \/ EndReconcile(u)
      PROVE  KeyedStates'
  <2>1. /\ lock = u /\ lock' = u /\ file' = file
        /\ op[u].pc # "idle" /\ mem[u] \in State /\ Keyed(mem[u]) /\ Keyed(file)
    BY <1>2, InnerStep DEF SessionOK, KeyedStates
  <2>2. FeedOf(u) \in Feeds /\ mem[u].feeds[FeedOf(u)] \in FeedState
    BY <2>1, EntryTypes DEF State
  <2>3. Keyed(Stored(mem[u], FeedOf(u), InterruptedEntry(u)))
    BY <2>1, <2>2 DEF Stored, InterruptedEntry, Keyed, State, FeedState
  <2>4. Keyed(Stored(mem[u], FeedOf(u), ReconciledEntry(u)))
    BY <2>1, <2>2 DEF Stored, ReconciledEntry, Keyed, State, FeedState, FeedOf, Doc
  <2>5. Keyed(mem'[u])
    BY <1>2, <2>1, <2>3, <2>4, InnerStep
  <2> QED
    BY <2>1, <2>5 DEF KeyedStates, Keyed
<1>3. ASSUME NEW u \in Loops, SaveOk(u) \/ SaveFail(u)
      PROVE  KeyedStates'
  BY <1>3, EndStep, NoneAssumption DEF KeyedStates, Keyed
<1>4. CASE Crash
  BY <1>4, NoneAssumption DEF Crash, KeyedStates, Keyed
<1>5. CASE UNCHANGED vars
  BY <1>5 DEF vars, KeyedStates, Keyed
<1> QED
  BY <1>1, <1>2, <1>3, <1>4, <1>5 DEF Next, SessionStep

\* A cached document is never that of another feed than the one it is stored
\* under, whatever the crashes and failures (applyRemoteUpdate; the mismatch
\* branch of resolveFromStateCache is dead).
THEOREM CacheKeyed == Spec => []CacheKeyedByFeed
<1> DEFINE Inv == TypeOK /\ SessionOK /\ KeyedStates
<1>1. Init => Inv
  BY TypeInit, NoneAssumption DEF Init, EmptyState, KeyedStates, Keyed
<1>2. Inv /\ [Next]_vars => Inv'
  BY TypeNext, KeyedNext
<1>3. Inv => CacheKeyedByFeed
  BY DEF KeyedStates, Keyed, CacheKeyedByFeed
<1> QED
  BY <1>1, <1>2, <1>3, PTL DEF Spec

-----------------------------------------------------------------------------
(* The stored enabled value *)

\* The stored record of tunnel id lets the session of u record the value enabled.
Kept(u, id, enabled) ==
    LET before == file.feeds[FeedOf(u)].tunnels[id]
    IN  \/ before = None \/ before.enabled = enabled
        \/ \E j \in 1..Len(Doc(u).tunnels) :
              Doc(u).tunnels[j].id = id /\ Doc(u).tunnels[j].forced

KeptMap(u, map) == \A id \in Tunnels : map[id] # None => Kept(u, id, map[id].enabled)

\* What a session has recorded keeps the stored values; the records of the tunnels it
\* has not come to are the stored ones.
Sticky(u) ==
    /\ KeptMap(u, op[u].work)
    /\ KeptMap(u, mem[u].feeds[FeedOf(u)].tunnels)
    /\ \A j \in 1..Len(Doc(u).tunnels) :
         LET id == Doc(u).tunnels[j].id
         IN  (op[u].pc = "apply" /\ op[u].i <= j) \/ (op[u].pc = "reapply" /\ op[u].i < j) =>
               op[u].work[id] = file.feeds[FeedOf(u)].tunnels[id]
    /\ op[u].pc = "reapply" => HasCurrent(u) /\ Kept(u, Current(u).id, op[u].enabled)

AllSticky == \A u \in Loops : lock = u => Sticky(u)

\* Each id is listed once, so an entry written for the current tunnel is not that of
\* one behind it.
LEMMA LaterTunnel ==
    ASSUME TypeOK, SessionOK, NEW u \in Loops, op[u].pc # "idle", HasCurrent(u),
           NEW j \in 1..Len(Doc(u).tunnels), op[u].i < j
    PROVE  Doc(u).tunnels[j].id \in Tunnels /\ Doc(u).tunnels[j].id # Current(u).id
<1>1. op[u].rev \in Revisions /\ op[u].i \in 1..Len(Doc(u).tunnels)
  BY CurrentType DEF SessionOK
<1>2. Doc(u).tunnels \in Seq(TunnelDef) /\ Doc(u).tunnels[j] \in TunnelDef
  BY <1>1, DocType DEF Doc
<1> QED
  BY <1>1, <1>2, DocAssumption DEF Doc, Current, TunnelDef

\* A session has not written the entry of the tunnel it comes to.
LEMMA CurrentUnwritten ==
    ASSUME TypeOK, SessionOK, NEW u \in Loops, Sticky(u), op[u].pc = "apply", HasCurrent(u)
    PROVE  op[u].work[Current(u).id] = file.feeds[FeedOf(u)].tunnels[Current(u).id]
<1>. DEFINE n == Len(Doc(u).tunnels)
            work(k) == op[u].work[Doc(u).tunnels[k].id]
            stored(k) == file.feeds[FeedOf(u)].tunnels[Doc(u).tunnels[k].id]
<1>1. op[u].i \in 1..n
  BY CurrentType
<1>2. \A k \in 1..n : op[u].i <= k => work(k) = stored(k)
  BY DEF Sticky
<1>. HIDE DEF n, work, stored
<1>3. op[u].i <= op[u].i
  BY <1>1
<1>4. work(op[u].i) = stored(op[u].i)
  BY <1>1, <1>2, <1>3, Zenon
<1> QED
  BY <1>4 DEF work, stored, Current

\* The value ApplyFeed computes for the current tunnel.
LEMMA EffectiveKept ==
    ASSUME TypeOK, SessionOK, NEW u \in Loops, Sticky(u), op[u].pc = "apply", HasCurrent(u)
    PROVE  Kept(u, Current(u).id, EffectiveEnabled(Current(u), op[u].work))
<1>1. op[u].i \in 1..Len(Doc(u).tunnels)
  BY CurrentType
<1>2. op[u].work[Current(u).id] = file.feeds[FeedOf(u)].tunnels[Current(u).id]
  BY CurrentUnwritten
<1>3. CASE Current(u).forced
  BY <1>1, <1>3 DEF Kept, Current
<1>4. CASE ~Current(u).forced
  BY <1>2, <1>4 DEF Kept, EffectiveEnabled
<1> QED
  BY <1>3, <1>4

\* Kept is about the stored record and the document: a session changes neither.
LEMMA KeptSame ==
    ASSUME NEW u \in Loops, file' = file, op'[u].rev = op[u].rev
    PROVE  /\ \A id, enabled : Kept(u, id, enabled) => Kept(u, id, enabled)'
           /\ \A map : KeptMap(u, map) => KeptMap(u, map)'
BY DEF Kept, KeptMap, FeedOf, Doc

LEMMA RenamedSticky ==
    ASSUME TypeOK, SessionOK, NEW u \in Loops, Sticky(u), RemoveRenamed(u)
    PROVE  Sticky(u)'
<1>1. /\ op[u].pc = "apply" /\ HasCurrent(u) /\ file' = file /\ mem' = mem
      /\ op[u] \in Op /\ op[u].work \in TunnelMap
  BY DEF RemoveRenamed, TypeOK, Op
<1>2. Current(u) \in TunnelDef /\ op[u].i \in 1..Len(Doc(u).tunnels)
  BY <1>1, CurrentType
<1>3. PICK id \in Tunnels : id = Current(u).id
  BY <1>2 DEF TunnelDef
<1>4. PICK work : work = [op[u].work EXCEPT ![id] = None]
  OBVIOUS
<1>5. PICK enabled : enabled = EffectiveEnabled(Current(u), op[u].work)
  OBVIOUS
<1>6. /\ op'[u].pc = "reapply" /\ op'[u].i = op[u].i /\ op'[u].rev = op[u].rev
      /\ op'[u].work = work /\ op'[u].enabled = enabled
  BY <1>3, <1>4, <1>5 DEF RemoveRenamed, TypeOK, Op
<1>7. /\ Doc(u)' = Doc(u) /\ FeedOf(u)' = FeedOf(u)
      /\ Current(u)' = Current(u) /\ HasCurrent(u)'
  BY <1>1, <1>6 DEF Doc, FeedOf, Current, HasCurrent
<1>8. KeptMap(u, work) /\ Kept(u, id, enabled)
  BY <1>1, <1>3, <1>4, <1>5, EffectiveKept DEF Sticky, KeptMap, TunnelMap
<1>9. ASSUME NEW j \in 1..Len(Doc(u).tunnels), op[u].i < j
      PROVE  work[Doc(u).tunnels[j].id] =
               file.feeds[FeedOf(u)].tunnels[Doc(u).tunnels[j].id]
  <2>1. op[u].work[Doc(u).tunnels[j].id] =
          file.feeds[FeedOf(u)].tunnels[Doc(u).tunnels[j].id]
    BY <1>1, <1>2, <1>9 DEF Sticky
  <2>2. Doc(u).tunnels[j].id \in Tunnels /\ Doc(u).tunnels[j].id # id
    BY <1>1, <1>3, <1>9, LaterTunnel
  <2> QED
    BY <1>1, <1>4, <2>1, <2>2 DEF TunnelMap
<1>10. /\ KeptMap(u, work)' /\ Kept(u, id, enabled)'
       /\ KeptMap(u, mem[u].feeds[FeedOf(u)].tunnels)'
  BY <1>1, <1>6, <1>7, <1>8, KeptSame DEF Sticky
<1> QED
  BY <1>1, <1>3, <1>6, <1>7, <1>9, <1>10 DEF Sticky, KeptMap

LEMMA ApplyOkSticky ==
    ASSUME TypeOK, SessionOK, NEW u \in Loops, Sticky(u), ApplyOk(u)
    PROVE  Sticky(u)'
<1>1. PICK value \in BOOLEAN :
        /\ Applying(u, value)
        /\ op' = [op EXCEPT
              ![u].pc = "apply", ![u].i = @ + 1,
              ![u].work[Current(u).id] = [name |-> Current(u).name, enabled |-> value]]
        /\ UNCHANGED <<file, lock, mem>>
  BY DEF ApplyOk
<1>2. /\ op[u].pc \in {"apply", "reapply"} /\ HasCurrent(u)
      /\ op[u] \in Op /\ op[u].work \in TunnelMap
  BY <1>1 DEF Applying, TypeOK, Op
<1>3. Current(u) \in TunnelDef /\ op[u].i \in 1..Len(Doc(u).tunnels)
  BY <1>2, CurrentType
<1>4. PICK id \in Tunnels : id = Current(u).id
  BY <1>3 DEF TunnelDef
<1>5. PICK entry : entry = [name |-> Current(u).name, enabled |-> value]
  OBVIOUS
<1>6. PICK work : work = [op[u].work EXCEPT ![id] = entry]
  OBVIOUS
<1>7. /\ op'[u].pc = "apply" /\ op'[u].i = op[u].i + 1 /\ op'[u].rev = op[u].rev
      /\ op'[u].work = work
  BY <1>1, <1>4, <1>5, <1>6 DEF TypeOK, Op
<1>8. Doc(u)' = Doc(u) /\ FeedOf(u)' = FeedOf(u)
  BY <1>7 DEF Doc, FeedOf
<1>9. Kept(u, id, value)
  BY <1>1, <1>2, <1>4, EffectiveKept DEF Applying, Sticky
<1>10. KeptMap(u, work)
  BY <1>2, <1>5, <1>6, <1>9 DEF Sticky, KeptMap, TunnelMap
<1>11. ASSUME NEW j \in 1..Len(Doc(u).tunnels), op[u].i + 1 <= j
       PROVE  work[Doc(u).tunnels[j].id] =
                file.feeds[FeedOf(u)].tunnels[Doc(u).tunnels[j].id]
  <2>1. op[u].i < j
    BY <1>3, <1>11
  <2>2. op[u].work[Doc(u).tunnels[j].id] =
          file.feeds[FeedOf(u)].tunnels[Doc(u).tunnels[j].id]
    BY <1>2, <1>3, <2>1 DEF Sticky
  <2>3. Doc(u).tunnels[j].id \in Tunnels /\ Doc(u).tunnels[j].id # id
    BY <1>2, <1>4, <2>1, LaterTunnel
  <2> QED
    BY <1>2, <1>6, <2>2, <2>3 DEF TunnelMap
<1>12. KeptMap(u, work)' /\ KeptMap(u, mem[u].feeds[FeedOf(u)].tunnels)'
  BY <1>1, <1>7, <1>8, <1>10, KeptSame DEF Sticky
<1> QED
  BY <1>1, <1>7, <1>8, <1>11, <1>12 DEF Sticky

LEMMA MissingSticky ==
    ASSUME TypeOK, SessionOK, NEW u \in Loops, Sticky(u),
           NEW id \in Tunnels, RemoveMissing(u, id)
    PROVE  Sticky(u)'
<1>1. /\ op[u].pc = "apply" /\ ~HasCurrent(u) /\ file' = file /\ mem' = mem
      /\ op[u] \in Op /\ op[u].work \in TunnelMap /\ op[u].rev \in Revisions
  BY DEF RemoveMissing, Applied, TypeOK, SessionOK, Op
<1>2. PICK work : work = [op[u].work EXCEPT ![id] = None]
  OBVIOUS
<1>3. /\ op'[u].pc = "apply" /\ op'[u].i = op[u].i /\ op'[u].rev = op[u].rev
      /\ op'[u].work = work
  BY <1>1, <1>2 DEF RemoveMissing, TypeOK, Op
<1>4. Doc(u)' = Doc(u) /\ FeedOf(u)' = FeedOf(u)
  BY <1>3 DEF Doc, FeedOf
<1>5. KeptMap(u, work)
  BY <1>1, <1>2 DEF Sticky, KeptMap, TunnelMap
<1>6. KeptMap(u, work)' /\ KeptMap(u, mem[u].feeds[FeedOf(u)].tunnels)'
  BY <1>1, <1>3, <1>4, <1>5, KeptSame DEF Sticky
<1>7. \A j \in 1..Len(Doc(u).tunnels) : ~(op[u].i <= j)
  <2>1. Doc(u).tunnels \in Seq(TunnelDef) /\ op[u].i \in Nat
    BY <1>1, DocType DEF Doc, Op
  <2> QED
    BY <1>1, <2>1 DEF HasCurrent
<1> QED
  BY <1>1, <1>3, <1>4, <1>6, <1>7 DEF Sticky

\* ApplyFeed ends: the entry of the feed gets what was recorded, or stays.
LEMMA EndSticky ==
    ASSUME TypeOK, SessionOK, NEW u \in Loops, Sticky(u), ApplyFail(u) \/ EndReconcile(u)
    PROVE  Sticky(u)'
<1>1. /\ op[u].pc # "idle" /\ op'[u].pc = "save" /\ op'[u].rev = op[u].rev
      /\ op'[u].work = op[u].work /\ file' = file
  BY DEF ApplyFail, EndReconcile, Applied, Applying, TypeOK, Op
<1>2. PICK f \in Feeds : f = FeedOf(u)
  BY <1>1, DocType DEF SessionOK, FeedOf, Doc
<1>3. mem[u] \in State /\ mem[u].feeds[f] \in FeedState
  BY <1>1, <1>2 DEF SessionOK, State
<1>4. Doc(u)' = Doc(u) /\ FeedOf(u)' = f
  BY <1>1, <1>2 DEF Doc, FeedOf
<1>5. \/ mem'[u] = Stored(mem[u], f, InterruptedEntry(u))
      \/ mem'[u] = Stored(mem[u], f, ReconciledEntry(u))
  BY <1>2 DEF ApplyFail, EndReconcile, TypeOK
<1>6. mem'[u].feeds[f].tunnels \in {op[u].work, mem[u].feeds[f].tunnels}
  <2>1. InterruptedEntry(u).tunnels \in {op[u].work, mem[u].feeds[f].tunnels}
    BY <1>2, <1>3 DEF InterruptedEntry, FeedState
  <2>2. ReconciledEntry(u).tunnels = op[u].work
    BY <1>2, <1>3 DEF ReconciledEntry, FeedState
  <2> QED
    BY <1>2, <1>3, <1>5, <2>1, <2>2 DEF Stored, State
<1>7. KeptMap(u, op[u].work) /\ KeptMap(u, mem[u].feeds[f].tunnels)
  BY <1>2 DEF Sticky
<1>8. KeptMap(u, op[u].work)' /\ KeptMap(u, mem[u].feeds[FeedOf(u)].tunnels)'
  <2>1. ASSUME NEW map, KeptMap(u, map) PROVE KeptMap(u, map)'
    BY <1>1, <2>1, KeptSame
  <2>2. PICK map : map = mem'[u].feeds[f].tunnels
    OBVIOUS
  <2>3. PICK work : work = op[u].work
    OBVIOUS
  <2>4. KeptMap(u, map)' /\ KeptMap(u, work)'
    BY <1>6, <1>7, <2>1, <2>2, <2>3
  <2> QED
    BY <1>1, <1>4, <2>2, <2>3, <2>4
<1> QED
  BY <1>1, <1>4, <1>8 DEF Sticky

\* A session starts from the stored records.
LEMMA BeginSticky ==
    ASSUME TypeOK, SessionOK, NEW u \in Loops,
           \/ \E r \in Revisions : BeginUpdate(u, r)
           \/ \E f \in Feeds : BeginCache(u, f)
    PROVE  Sticky(u)'
<1>1. ASSUME NEW st, NEW pc \in {"apply", "save"}, NEW kind, NEW r \in Revisions,
             Begin(u, st, pc, kind, r),
             st.feeds[DocOf[r].id].tunnels = file.feeds[DocOf[r].id].tunnels
      PROVE  Sticky(u)'
  <2>1. /\ mem'[u] = st /\ op'[u].pc = pc /\ op'[u].rev = r /\ file' = file
        /\ op'[u].work = file.feeds[DocOf[r].id].tunnels
    BY <1>1 DEF Begin, TypeOK
  <2>2. FeedOf(u)' = DocOf[r].id
    BY <2>1 DEF FeedOf, Doc
  <2> QED
    BY <1>1, <2>1, <2>2 DEF Sticky, KeptMap, Kept
<1>2. ASSUME NEW r \in Revisions, BeginUpdate(u, r)
      PROVE  Sticky(u)'
  <2>1. PICK pc \in {"apply", "save"} : Begin(u, Received(u, r), pc, "update", r)
    BY <1>2 DEF BeginUpdate
  <2>2. Received(u, r).feeds[DocOf[r].id].tunnels = file.feeds[DocOf[r].id].tunnels
    BY DocType, ReceivedKeeps
  <2> QED
    BY <1>1, <2>1, <2>2
<1>3. ASSUME NEW f \in Feeds, BeginCache(u, f)
      PROVE  Sticky(u)'
  <2>1. PICK r \in Revisions : Begin(u, file, "apply", "cache", r)
    BY <1>3 DEF BeginCache, TypeOK, State, FeedState
  <2> QED
    BY <1>1, <2>1
<1> QED
  BY <1>2, <1>3

LEMMA StickyNext ==
    ASSUME TypeOK, SessionOK, AllSticky, [Next]_vars
    PROVE  AllSticky'
<1>1. ASSUME NEW u \in Loops,
             \/ \E r \in Revisions : BeginUpdate(u, r)
             \/ \E f \in Feeds : BeginCache(u, f)
      PROVE  AllSticky'
  BY <1>1, BeginSticky, BeginStep DEF AllSticky
<1>2. ASSUME NEW u \in Loops,
             \/ RemoveRenamed(u) \/ ApplyOk(u) \/ ApplyFail(u)
             \/ \E id \in Tunnels : RemoveMissing(u, id)
             \/ EndReconcile(u)
      PROVE  AllSticky'
  <2>1. lock = u /\ lock' = u
    BY <1>2, InnerStep DEF SessionOK
  <2> QED
    BY <1>2, <2>1, RenamedSticky, ApplyOkSticky, MissingSticky, EndSticky DEF AllSticky
<1>3. ASSUME NEW u \in Loops, SaveOk(u) \/ SaveFail(u)
      PROVE  AllSticky'
  BY <1>3, EndStep, NoneAssumption DEF AllSticky
<1>4. CASE Crash
  BY <1>4, NoneAssumption DEF Crash, AllSticky
<1>5. CASE UNCHANGED vars
  <2>1. file' = file /\ op' = op /\ mem' = mem /\ lock' = lock
    BY <1>5 DEF vars
  <2>2. ASSUME NEW u \in Loops, Sticky(u) PROVE Sticky(u)'
    <3>1. /\ Doc(u)' = Doc(u) /\ FeedOf(u)' = FeedOf(u)
          /\ Current(u)' = Current(u) /\ HasCurrent(u)' = HasCurrent(u)
      BY <2>1 DEF Doc, FeedOf, Current, HasCurrent
    <3>2. KeptMap(u, op[u].work)' /\ KeptMap(u, mem[u].feeds[FeedOf(u)].tunnels)'
      BY <2>1, <2>2, <3>1, KeptSame DEF Sticky
    <3>3. Kept(u, Current(u).id, op[u].enabled) => Kept(u, Current(u).id, op[u].enabled)'
      BY <2>1, <3>1, KeptSame
    <3> QED
      BY <2>1, <2>2, <3>1, <3>2, <3>3 DEF Sticky
  <2> QED
    BY <2>1, <2>2 DEF AllSticky
<1> QED
  BY <1>1, <1>2, <1>3, <1>4, <1>5 DEF Next, SessionStep

-----------------------------------------------------------------------------
(* What a session forgets *)

\* The tunnels with a stored record and none in the map.
Forgets(u, map) ==
    {id \in Tunnels : file.feeds[FeedOf(u)].tunnels[id] # None /\ map[id] = None}

NotListed(u, id) == \A j \in 1..Len(Doc(u).tunnels) : Doc(u).tunnels[j].id # id

\* Where the document lists the tunnel it renames it, and the session stands there.
RenamedHere(u, id) ==
    \A j \in 1..Len(Doc(u).tunnels) :
        Doc(u).tunnels[j].id = id =>
          /\ j = op[u].i
          /\ Doc(u).tunnels[j].name # file.feeds[FeedOf(u)].tunnels[id].name

\* Before an Apply nothing is forgotten but what the document does not list; between the
\* removal of an old name and the Apply of the new one, that tunnel too.
Remembering(u) ==
    /\ op[u].pc # "save" =>
         mem[u].feeds[FeedOf(u)].tunnels = file.feeds[FeedOf(u)].tunnels
    /\ op[u].pc = "apply" => \A id \in Forgets(u, op[u].work) : NotListed(u, id)
    /\ op[u].pc = "reapply" => \A id \in Forgets(u, op[u].work) : RenamedHere(u, id)
    /\ op[u].pc = "save" =>
         \A id \in Forgets(u, mem[u].feeds[FeedOf(u)].tunnels) : RenamedHere(u, id)

AllRemembering == \A u \in Loops : lock = u => Remembering(u)

\* A session changes neither the stored records nor its document.
LEMMA ForgetsSame ==
    ASSUME NEW u \in Loops, file' = file, op'[u].rev = op[u].rev
    PROVE  /\ \A map : Forgets(u, map)' = Forgets(u, map)
           /\ \A id : NotListed(u, id)' = NotListed(u, id)
           /\ op'[u].i = op[u].i => \A id : RenamedHere(u, id)' = RenamedHere(u, id)
BY DEF Forgets, NotListed, RenamedHere, FeedOf, Doc

LEMMA NotListedRenamed ==
    ASSUME NEW u \in Loops, NEW id, NotListed(u, id)
    PROVE  RenamedHere(u, id)
BY DEF NotListed, RenamedHere

LEMMA RenamedRemembering ==
    ASSUME TypeOK, SessionOK, NEW u \in Loops, Sticky(u), Remembering(u), RemoveRenamed(u)
    PROVE  Remembering(u)'
<1>1. /\ op[u].pc = "apply" /\ HasCurrent(u) /\ file' = file /\ mem' = mem
      /\ op[u] \in Op /\ op[u].work \in TunnelMap /\ Renamed(Current(u), op[u].work)
  BY DEF RemoveRenamed, TypeOK, Op
<1>2. /\ Current(u) \in TunnelDef /\ op[u].i \in 1..Len(Doc(u).tunnels)
      /\ op[u].rev \in Revisions
  BY <1>1, CurrentType DEF SessionOK
<1>3. PICK id \in Tunnels : id = Current(u).id
  BY <1>2 DEF TunnelDef
<1>4. PICK work : work = [op[u].work EXCEPT ![id] = None]
  OBVIOUS
<1>5. /\ op'[u].pc = "reapply" /\ op'[u].i = op[u].i /\ op'[u].rev = op[u].rev
      /\ op'[u].work = work
  BY <1>3, <1>4 DEF RemoveRenamed, TypeOK, Op
<1>6. FeedOf(u)' = FeedOf(u)
  BY <1>5 DEF FeedOf, Doc
<1>7. RenamedHere(u, id)
  <2>1. Current(u).name # file.feeds[FeedOf(u)].tunnels[id].name
    BY <1>1, <1>3, CurrentUnwritten DEF Renamed
  <2>2. \A j \in 1..Len(Doc(u).tunnels) : Doc(u).tunnels[j].id = id => j = op[u].i
    BY <1>2, <1>3, DocAssumption DEF Doc, Current
  <2>3. \A j \in 1..Len(Doc(u).tunnels) :
          j = op[u].i => Doc(u).tunnels[j].name = Current(u).name
    BY DEF Current
  <2> QED
    BY <2>1, <2>2, <2>3 DEF RenamedHere
<1>8. ASSUME NEW k \in Forgets(u, work), k # id PROVE RenamedHere(u, k)
  <2>1. k \in Forgets(u, op[u].work)
    BY <1>1, <1>4, <1>8 DEF Forgets, TunnelMap
  <2> QED
    BY <1>1, <2>1, NotListedRenamed DEF Remembering
<1>9. \A k \in Forgets(u, work)' : RenamedHere(u, k)'
  BY <1>1, <1>5, <1>7, <1>8, ForgetsSame
<1>10. mem'[u].feeds[FeedOf(u)'].tunnels = file'.feeds[FeedOf(u)'].tunnels
  BY <1>1, <1>6 DEF Remembering
<1> QED
  BY <1>5, <1>9, <1>10 DEF Remembering, Forgets

LEMMA ApplyOkRemembering ==
    ASSUME TypeOK, SessionOK, NEW u \in Loops, Remembering(u), ApplyOk(u)
    PROVE  Remembering(u)'
<1>1. PICK value \in BOOLEAN :
        /\ Applying(u, value)
        /\ op' = [op EXCEPT
              ![u].pc = "apply", ![u].i = @ + 1,
              ![u].work[Current(u).id] = [name |-> Current(u).name, enabled |-> value]]
        /\ UNCHANGED <<file, lock, mem>>
  BY DEF ApplyOk
<1>2. /\ op[u].pc \in {"apply", "reapply"} /\ HasCurrent(u)
      /\ op[u] \in Op /\ op[u].work \in TunnelMap
  BY <1>1 DEF Applying, TypeOK, Op
<1>3. Current(u) \in TunnelDef
  BY <1>2, CurrentType
<1>4. PICK id \in Tunnels : id = Current(u).id
  BY <1>3 DEF TunnelDef
<1>5. PICK entry : entry = [name |-> Current(u).name, enabled |-> value]
  OBVIOUS
<1>6. PICK work : work = [op[u].work EXCEPT ![id] = entry]
  OBVIOUS
<1>7. /\ op'[u].pc = "apply" /\ op'[u].rev = op[u].rev /\ op'[u].work = work
  BY <1>1, <1>4, <1>5, <1>6 DEF TypeOK, Op
<1>8. FeedOf(u)' = FeedOf(u)
  BY <1>7 DEF FeedOf, Doc
<1>9. entry # None
  BY <1>3, <1>5, NoneAssumption DEF TunnelDef
<1>10. ASSUME NEW k \in Forgets(u, work) PROVE NotListed(u, k)
  <2>1. k # id /\ k \in Forgets(u, op[u].work)
    BY <1>2, <1>6, <1>9 DEF Forgets, TunnelMap
  <2>2. CASE op[u].pc = "apply"
    BY <2>1, <2>2 DEF Remembering
  <2>3. CASE op[u].pc = "reapply"
    BY <1>4, <2>1, <2>3 DEF Remembering, RenamedHere, NotListed, Current
  <2> QED
    BY <1>2, <2>2, <2>3
<1>11. \A k \in Forgets(u, work)' : NotListed(u, k)'
  BY <1>1, <1>7, <1>10, ForgetsSame
<1>12. mem'[u].feeds[FeedOf(u)'].tunnels = file'.feeds[FeedOf(u)'].tunnels
  BY <1>1, <1>2, <1>8 DEF Remembering
<1> QED
  BY <1>7, <1>11, <1>12 DEF Remembering, Forgets

LEMMA MissingRemembering ==
    ASSUME TypeOK, SessionOK, NEW u \in Loops, Remembering(u),
           NEW id \in Tunnels, RemoveMissing(u, id)
    PROVE  Remembering(u)'
<1>1. /\ op[u].pc = "apply" /\ file' = file /\ mem' = mem
      /\ op[u] \in Op /\ op[u].work \in TunnelMap
  BY DEF RemoveMissing, Applied, TypeOK, Op
<1>2. PICK work : work = [op[u].work EXCEPT ![id] = None]
  OBVIOUS
<1>3. op'[u].pc = "apply" /\ op'[u].rev = op[u].rev /\ op'[u].work = work
  BY <1>1, <1>2 DEF RemoveMissing, TypeOK, Op
<1>4. FeedOf(u)' = FeedOf(u)
  BY <1>3 DEF FeedOf, Doc
<1>5. NotListed(u, id)
  BY DEF RemoveMissing, Missing, IdsOf, NotListed
<1>6. ASSUME NEW k \in Forgets(u, work), k # id PROVE NotListed(u, k)
  BY <1>1, <1>2, <1>6 DEF Forgets, TunnelMap, Remembering
<1>7. \A k \in Forgets(u, work)' : NotListed(u, k)'
  BY <1>1, <1>3, <1>5, <1>6, ForgetsSame
<1>8. mem'[u].feeds[FeedOf(u)'].tunnels = file'.feeds[FeedOf(u)'].tunnels
  BY <1>1, <1>4 DEF Remembering
<1> QED
  BY <1>3, <1>7, <1>8 DEF Remembering, Forgets

\* ApplyFeed ends, where it stands.
LEMMA EndRemembering ==
    ASSUME TypeOK, SessionOK, NEW u \in Loops, Remembering(u),
           ApplyFail(u) \/ EndReconcile(u)
    PROVE  Remembering(u)'
<1>1. /\ op[u].pc \in {"apply", "reapply"} /\ op'[u].pc = "save"
      /\ op'[u].rev = op[u].rev /\ op'[u].i = op[u].i /\ file' = file
  BY DEF ApplyFail, EndReconcile, Applied, Applying, TypeOK, Op
<1>2. PICK f \in Feeds : f = FeedOf(u)
  BY <1>1, DocType DEF SessionOK, FeedOf, Doc
<1>3. mem[u] \in State /\ mem[u].feeds[f] \in FeedState
  BY <1>1, <1>2 DEF SessionOK, State
<1>4. FeedOf(u)' = f
  BY <1>1, <1>2 DEF Doc, FeedOf
<1>5. \/ mem'[u] = Stored(mem[u], f, InterruptedEntry(u))
      \/ mem'[u] = Stored(mem[u], f, ReconciledEntry(u))
  BY <1>2 DEF ApplyFail, EndReconcile, TypeOK
<1>6. mem'[u].feeds[f].tunnels \in {op[u].work, file.feeds[f].tunnels}
  <2>1. InterruptedEntry(u).tunnels \in {op[u].work, mem[u].feeds[f].tunnels}
    BY <1>2, <1>3 DEF InterruptedEntry, FeedState
  <2>2. ReconciledEntry(u).tunnels = op[u].work
    BY <1>2, <1>3 DEF ReconciledEntry, FeedState
  <2>3. mem[u].feeds[f].tunnels = file.feeds[f].tunnels
    BY <1>1, <1>2 DEF Remembering
  <2> QED
    BY <1>2, <1>3, <1>5, <2>1, <2>2, <2>3 DEF Stored, State
<1>7. \A id \in Forgets(u, op[u].work) : RenamedHere(u, id)
  BY <1>1, NotListedRenamed DEF Remembering
<1>8. Forgets(u, file.feeds[f].tunnels) = {}
  BY <1>2 DEF Forgets
<1>9. \A id \in Forgets(u, mem'[u].feeds[f].tunnels) : RenamedHere(u, id)
  BY <1>6, <1>7, <1>8
<1>10. PICK map : map = mem'[u].feeds[f].tunnels
  OBVIOUS
<1>11. \A id \in Forgets(u, map)' : RenamedHere(u, id)'
  BY <1>1, <1>9, <1>10, ForgetsSame
<1> QED
  BY <1>1, <1>4, <1>10, <1>11 DEF Remembering, Forgets

\* A session starts with everything that is stored.
LEMMA BeginRemembering ==
    ASSUME TypeOK, SessionOK, NEW u \in Loops,
           \/ \E r \in Revisions : BeginUpdate(u, r)
           \/ \E f \in Feeds : BeginCache(u, f)
    PROVE  Remembering(u)'
<1>1. ASSUME NEW st, NEW pc \in {"apply", "save"}, NEW kind, NEW r \in Revisions,
             Begin(u, st, pc, kind, r),
             st.feeds[DocOf[r].id].tunnels = file.feeds[DocOf[r].id].tunnels
      PROVE  Remembering(u)'
  <2>1. /\ mem'[u] = st /\ op'[u].pc = pc /\ op'[u].rev = r /\ file' = file
        /\ op'[u].work = file.feeds[DocOf[r].id].tunnels
    BY <1>1 DEF Begin, TypeOK
  <2>2. FeedOf(u)' = DocOf[r].id
    BY <2>1 DEF FeedOf, Doc
  <2> QED
    BY <1>1, <2>1, <2>2 DEF Remembering, Forgets
<1>2. ASSUME NEW r \in Revisions, BeginUpdate(u, r)
      PROVE  Remembering(u)'
  <2>1. PICK pc \in {"apply", "save"} : Begin(u, Received(u, r), pc, "update", r)
    BY <1>2 DEF BeginUpdate
  <2>2. Received(u, r).feeds[DocOf[r].id].tunnels = file.feeds[DocOf[r].id].tunnels
    BY DocType, ReceivedKeeps
  <2> QED
    BY <1>1, <2>1, <2>2
<1>3. ASSUME NEW f \in Feeds, BeginCache(u, f)
      PROVE  Remembering(u)'
  <2>1. PICK r \in Revisions : Begin(u, file, "apply", "cache", r)
    BY <1>3 DEF BeginCache, TypeOK, State, FeedState
  <2> QED
    BY <1>1, <2>1
<1> QED
  BY <1>2, <1>3

LEMMA RememberingNext ==
    ASSUME TypeOK, SessionOK, AllSticky, AllRemembering, [Next]_vars
    PROVE  AllRemembering'
<1>1. ASSUME NEW u \in Loops,
             \/ \E r \in Revisions : BeginUpdate(u, r)
             \/ \E f \in Feeds : BeginCache(u, f)
      PROVE  AllRemembering'
  BY <1>1, BeginRemembering, BeginStep DEF AllRemembering
<1>2. ASSUME NEW u \in Loops,
             \/ RemoveRenamed(u) \/ ApplyOk(u) \/ ApplyFail(u)
             \/ \E id \in Tunnels : RemoveMissing(u, id)
             \/ EndReconcile(u)
      PROVE  AllRemembering'
  <2>1. lock = u /\ lock' = u /\ Sticky(u) /\ Remembering(u)
    BY <1>2, InnerStep DEF SessionOK, AllSticky, AllRemembering
  <2> QED
    BY <1>2, <2>1, RenamedRemembering, ApplyOkRemembering, MissingRemembering,
       EndRemembering DEF AllRemembering
<1>3. ASSUME NEW u \in Loops, SaveOk(u) \/ SaveFail(u)
      PROVE  AllRemembering'
  BY <1>3, EndStep, NoneAssumption DEF AllRemembering
<1>4. CASE Crash
  BY <1>4, NoneAssumption DEF Crash, AllRemembering
<1>5. CASE UNCHANGED vars
  <2>1. file' = file /\ op' = op /\ mem' = mem /\ lock' = lock
    BY <1>5 DEF vars
  <2>2. ASSUME NEW u \in Loops, Remembering(u) PROVE Remembering(u)'
    <3>1. FeedOf(u)' = FeedOf(u)
      BY <2>1 DEF FeedOf, Doc
    <3>2. PICK f, work, map :
            f = FeedOf(u) /\ work = op[u].work /\ map = mem[u].feeds[f].tunnels
      OBVIOUS
    <3>3. /\ op[u].pc = "apply" => \A id \in Forgets(u, work)' : NotListed(u, id)'
          /\ op[u].pc = "reapply" => \A id \in Forgets(u, work)' : RenamedHere(u, id)'
          /\ op[u].pc = "save" => \A id \in Forgets(u, map)' : RenamedHere(u, id)'
      BY <2>1, <2>2, <3>2, ForgetsSame DEF Remembering
    <3> QED
      BY <2>1, <2>2, <3>1, <3>2, <3>3 DEF Remembering, Forgets
  <2> QED
    BY <2>1, <2>2 DEF AllRemembering
<1> QED
  BY <1>1, <1>2, <1>3, <1>4, <1>5 DEF Next, SessionStep

\* The stored enabled value of a tunnel changes only by a document that forces it.  It is
\* forgotten only with a tunnel the document does not list, or by a session that stopped at
\* an error between the removal of the tunnel's old name and the record of its new one
\* (the effective enabled value, the rename branch and the record of ApplyFeed).
THEOREM EnabledSticks == Spec => StickyEnabled
<1> DEFINE Inv == TypeOK /\ SessionOK /\ MemAgrees /\ AllSticky /\ AllRemembering
           Listed(id) == {t \in Range(Doc(lock).tunnels) : t.id = id}
           Step == \A f \in Feeds, id \in Tunnels :
                     LET before == file.feeds[f].tunnels[id]
                         after == file'.feeds[f].tunnels[id]
                         listed == {t \in Range(Doc(lock).tunnels) : t.id = id}
                     IN  before # None /\ after # before =>
                           /\ lock # None
                           /\ after # None /\ after.enabled # before.enabled =>
                                \E t \in listed : t.forced
                           /\ after = None =>
                                \A t \in listed :
                                  t.name # before.name /\ StoppedAt(lock, t)
<1>1. Init => Inv
  BY TypeInit, NoneAssumption DEF Init, MemAgrees, AllSticky, AllRemembering
<1>2. Inv /\ [Next]_vars => Inv'
  BY TypeNext, MemNext, StickyNext, RememberingNext
<1>3. Inv /\ [Next]_vars => [Step]_vars
  <2> SUFFICES ASSUME Inv, [Next]_vars, file' # file PROVE Step
    OBVIOUS
  <2>1. PICK u \in Loops : lock = u /\ file' = mem[u]
    BY FileStep
  <2>2. lock # None /\ Doc(u).tunnels \in Seq(TunnelDef)
    BY <2>1, DocType, NoneAssumption DEF SessionOK, Doc
  <2>3. ASSUME NEW f \in Feeds, NEW id \in Tunnels,
               file.feeds[f].tunnels[id] # None,
               mem[u].feeds[f].tunnels[id] # file.feeds[f].tunnels[id]
        PROVE  f = FeedOf(u)
    BY <2>1, <2>3 DEF MemAgrees
  <2>4. ASSUME NEW f \in Feeds, NEW id \in Tunnels, f = FeedOf(u),
               file.feeds[f].tunnels[id] # None, mem[u].feeds[f].tunnels[id] # None,
               mem[u].feeds[f].tunnels[id].enabled # file.feeds[f].tunnels[id].enabled
        PROVE  \E t \in Listed(id) : t.forced
    <3>1. Kept(u, id, mem[u].feeds[f].tunnels[id].enabled)
      BY <2>1, <2>4 DEF AllSticky, Sticky, KeptMap
    <3>2. PICK j \in 1..Len(Doc(u).tunnels) :
            Doc(u).tunnels[j].id = id /\ Doc(u).tunnels[j].forced
      BY <2>4, <3>1 DEF Kept
    <3> QED
      BY <2>1, <2>2, <3>2 DEF Range
  <2>5. ASSUME NEW f \in Feeds, NEW id \in Tunnels, f = FeedOf(u),
               file.feeds[f].tunnels[id] # None, mem[u].feeds[f].tunnels[id] = None,
               NEW t \in Listed(id)
        PROVE  t.name # file.feeds[f].tunnels[id].name /\ StoppedAt(lock, t)
    <3>1. op[u].pc = "save" /\ RenamedHere(u, id)
      BY <2>1, <2>5 DEF AllRemembering, Remembering, Forgets
    <3>2. PICK j \in 1..Len(Doc(u).tunnels) : t = Doc(u).tunnels[j] /\ t.id = id
      BY <2>1, <2>2, <2>5 DEF Range
    <3>3. j = op[u].i /\ t.name # file.feeds[f].tunnels[id].name
      BY <2>5, <3>1, <3>2 DEF RenamedHere
    <3>4. t = Current(u) /\ op[u].i <= Len(Doc(u).tunnels)
      BY <2>2, <3>2, <3>3 DEF Current
    <3> QED
      BY <2>1, <3>1, <3>3, <3>4 DEF StoppedAt, HasCurrent
  <2>6. ASSUME NEW f \in Feeds, NEW id \in Tunnels,
               file.feeds[f].tunnels[id] # None,
               mem[u].feeds[f].tunnels[id] # file.feeds[f].tunnels[id]
        PROVE  /\ mem[u].feeds[f].tunnels[id] # None
                  /\ mem[u].feeds[f].tunnels[id].enabled # file.feeds[f].tunnels[id].enabled =>
                    \E t \in Listed(id) : t.forced
               /\ mem[u].feeds[f].tunnels[id] = None =>
                    \A t \in Listed(id) :
                      t.name # file.feeds[f].tunnels[id].name /\ StoppedAt(lock, t)
    BY <2>3, <2>4, <2>5, <2>6
  <2> QED
    BY <2>1, <2>2, <2>6
<1> QED
  BY <1>1, <1>2, <1>3, PTL DEF Spec, StickyEnabled
=============================================================================
