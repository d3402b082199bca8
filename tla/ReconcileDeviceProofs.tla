------------------------ MODULE ReconcileDeviceProofs ------------------------
(***************************************************************************)
(* Proofs about Reconcile and the device, for documents in which every     *)
(* name belongs to one tunnel of one feed (NamesOwned): a finished         *)
(* ApplyFeed has put its document in force, feeds do not disturb each      *)
(* other, nothing is forgotten while the backend holds it, and a session   *)
(* keeps the contract of sessions.                                         *)
(*                                                                         *)
(* Every record carries a name that some document gives to its tunnel      *)
(* (OwnedStates).  A backend call of a session is for such a name, of the  *)
(* current tunnel or of one the document does not list, so the tunnels     *)
(* already applied stay as they are (Progress), and what the file tracks   *)
(* stays in the map being worked on until the backend is rid of it         *)
(* (Tracked).                                                              *)
(***************************************************************************)
EXTENDS ReconcileProofs

\* Some document of feed f gives tunnel id the name n.
Owns(f, id, n) ==
    \E r \in Revisions : \E i \in DOMAIN DocOf[r].tunnels :
        /\ DocOf[r].id = f
        /\ DocOf[r].tunnels[i].id = id /\ DocOf[r].tunnels[i].name = n

OwnedMap(f, map) == \A id \in Tunnels : map[id] # None => Owns(f, id, map[id].name)
OwnedState(st) == \A f \in Feeds : OwnedMap(f, st.feeds[f].tunnels)

\* Every record has a name of its tunnel, on disk and in memory.
OwnedStates ==
    /\ OwnedState(file)
    /\ \A u \in Loops : lock = u =>
         OwnedState(mem[u]) /\ OwnedMap(FeedOf(u), op[u].work)

\* A tunnel is recorded and applied as a document asks.
AppliedTo(t, map, dev) ==
    /\ map[t.id] # None
    /\ map[t.id].name = t.name
    /\ dev[t.name] = ApplyEffect(t.cfg, map[t.id].enabled)
    /\ t.forced => map[t.id].enabled = t.enabled

\* The tunnels before the current one are applied; a tunnel that is applied anew
\* after a rename gets the value its document forces.
Progress(u) ==
    /\ op[u].pc \in {"apply", "reapply"} =>
         \A j \in 1..Len(Doc(u).tunnels) :
            j < op[u].i => AppliedTo(Doc(u).tunnels[j], op[u].work, device)
    /\ op[u].pc = "reapply" =>
         HasCurrent(u) /\ (Current(u).forced => op[u].enabled = Current(u).enabled)

InForceSoFar == \A u \in Loops : lock = u => Progress(u)

\* A step of u's session changes the device under one name of its feed at most.
Touches(u) ==
    \E id \in Tunnels, n \in Names :
        /\ Owns(FeedOf(u), id, n)
        /\ \A m \in Names : m # n => device'[m] = device[m]

-----------------------------------------------------------------------------
(* Names and documents *)

LEMMA NameOwner ==
    ASSUME NamesOwned, NEW f, NEW g, NEW id, NEW jd, NEW n, Owns(f, id, n), Owns(g, jd, n)
    PROVE  f = g /\ id = jd
BY DEF NamesOwned, Owns

\* The tunnels of the document a session works on.
LEMMA DocTunnels ==
    ASSUME TypeOK, SessionOK, NEW u \in Loops, op[u].pc # "idle"
    PROVE  /\ Doc(u).tunnels \in Seq(TunnelDef)
           /\ FeedOf(u) \in Feeds
           /\ \A j \in 1..Len(Doc(u).tunnels) :
                /\ Doc(u).tunnels[j] \in TunnelDef
                /\ Owns(FeedOf(u), Doc(u).tunnels[j].id, Doc(u).tunnels[j].name)
           /\ \A j, k \in 1..Len(Doc(u).tunnels) :
                Doc(u).tunnels[j].id = Doc(u).tunnels[k].id => j = k
<1>1. op[u].rev \in Revisions
  BY DEF SessionOK
<1>2. Doc(u).tunnels \in Seq(TunnelDef) /\ FeedOf(u) \in Feeds
  BY <1>1, DocType DEF Doc, FeedOf
<1>3. DOMAIN Doc(u).tunnels = 1..Len(Doc(u).tunnels)
  BY <1>2
<1>4. ASSUME NEW j \in 1..Len(Doc(u).tunnels)
      PROVE  /\ Doc(u).tunnels[j] \in TunnelDef
             /\ Owns(FeedOf(u), Doc(u).tunnels[j].id, Doc(u).tunnels[j].name)
  BY <1>1, <1>2, <1>3 DEF Owns, Doc, FeedOf
<1> QED
  BY <1>1, <1>2, <1>4, DocAssumption DEF Doc

\* A backend call for another tunnel's name leaves an applied tunnel applied.
LEMMA StaysApplied ==
    ASSUME NamesOwned, TypeOK, SessionOK, NEW u \in Loops, op[u].pc # "idle",
           NEW j \in 1..Len(Doc(u).tunnels), NEW id \in Tunnels, NEW n,
           Doc(u).tunnels[j].id # id, Owns(FeedOf(u), id, n),
           AppliedTo(Doc(u).tunnels[j], op[u].work, device),
           NEW e, device' = [device EXCEPT ![n] = e],
           NEW x, NEW work, work = [op[u].work EXCEPT ![id] = x]
    PROVE  AppliedTo(Doc(u).tunnels[j], work, device')
<1> DEFINE t == Doc(u).tunnels[j]
<1>1. t \in TunnelDef /\ Owns(FeedOf(u), t.id, t.name)
  BY DocTunnels
<1>2. t.name # n /\ t.id \in Tunnels /\ t.name \in Names
  BY <1>1, NameOwner DEF TunnelDef
<1>3. device'[t.name] = device[t.name] /\ work[t.id] = op[u].work[t.id]
  BY <1>2 DEF TypeOK, Op, TunnelMap
<1> QED
  BY <1>3 DEF AppliedTo

-----------------------------------------------------------------------------
(* One lemma per step of a session *)

LEMMA WorkOwned ==
    ASSUME NEW f, NEW map \in TunnelMap, OwnedMap(f, map), NEW id \in Tunnels,
           NEW x, x # None => Owns(f, id, x.name)
    PROVE  OwnedMap(f, [map EXCEPT ![id] = x])
BY DEF OwnedMap, TunnelMap

LEMMA RenamedDevice ==
    ASSUME NamesOwned, TypeOK, SessionOK, OwnedStates, NEW u \in Loops, Progress(u),
           RemoveRenamed(u)
    PROVE  Progress(u)' /\ OwnedMap(FeedOf(u), op'[u].work) /\ Touches(u)
<1>1. /\ op[u].pc = "apply" /\ HasCurrent(u) /\ Renamed(Current(u), op[u].work)
      /\ lock = u
  BY DEF RemoveRenamed, SessionOK
<1>2. /\ op[u] \in Op /\ op[u].work \in TunnelMap
      /\ Current(u) \in TunnelDef /\ op[u].i \in 1..Len(Doc(u).tunnels)
  BY <1>1, CurrentType DEF TypeOK, Op
<1>3. PICK id \in Tunnels : id = Current(u).id
  BY <1>2 DEF TunnelDef
<1>4. op[u].work[id] \in TunnelState /\ op[u].work[id] # None
  BY <1>1, <1>2, <1>3 DEF Renamed, TunnelMap
<1>5. PICK n \in Names : n = op[u].work[id].name
  BY <1>4 DEF TunnelState
<1>6. Owns(FeedOf(u), id, n)
  BY <1>1, <1>4, <1>5 DEF OwnedStates, OwnedMap
<1>7. PICK e : device' = [device EXCEPT ![n] = e]
  BY <1>3, <1>5 DEF RemoveRenamed
<1>8. PICK work : work = [op[u].work EXCEPT ![id] = None]
  OBVIOUS
<1>9. /\ op'[u].pc = "reapply" /\ op'[u].work = work
      /\ op'[u].rev = op[u].rev /\ op'[u].i = op[u].i
      /\ op'[u].enabled = EffectiveEnabled(Current(u), op[u].work)
  BY <1>2, <1>3, <1>8 DEF RemoveRenamed, TypeOK, Op
<1>10. Doc(u)' = Doc(u) /\ Current(u)' = Current(u) /\ HasCurrent(u)'
  BY <1>1, <1>9 DEF Doc, Current, HasCurrent
<1>11. ASSUME NEW j \in 1..Len(Doc(u).tunnels), j < op[u].i
       PROVE  AppliedTo(Doc(u).tunnels[j], work, device')
  <2>1. AppliedTo(Doc(u).tunnels[j], op[u].work, device)
    BY <1>1, <1>11 DEF Progress
  <2>2. Doc(u).tunnels[j].id # id
    BY <1>1, <1>2, <1>3, <1>11, DocTunnels DEF Current
  <2> QED
    BY <1>1, <1>6, <1>7, <1>8, <2>1, <2>2, StaysApplied
<1>12. Current(u).forced => op'[u].enabled = Current(u).enabled
  BY <1>9 DEF EffectiveEnabled
<1>13. Progress(u)'
  BY <1>9, <1>10, <1>11, <1>12 DEF Progress
<1>14. OwnedMap(FeedOf(u), work)
  BY <1>1, <1>2, <1>8, WorkOwned DEF OwnedStates
<1>15. Touches(u)
  BY <1>6, <1>7 DEF Touches, TypeOK
<1> QED
  BY <1>9, <1>13, <1>14, <1>15

LEMMA ApplyOkDevice ==
    ASSUME NamesOwned, TypeOK, SessionOK, OwnedStates, NEW u \in Loops, Progress(u),
           ApplyOk(u)
    PROVE  Progress(u)' /\ OwnedMap(FeedOf(u), op'[u].work) /\ Touches(u)
<1>1. PICK enabled \in BOOLEAN :
        /\ Applying(u, enabled)
        /\ device' = [device EXCEPT ![Current(u).name] = ApplyEffect(Current(u).cfg, enabled)]
        /\ op' = [op EXCEPT
              ![u].pc = "apply", ![u].i = @ + 1,
              ![u].work[Current(u).id] = [name |-> Current(u).name, enabled |-> enabled]]
  BY DEF ApplyOk
<1>2. op[u].pc \in {"apply", "reapply"} /\ HasCurrent(u) /\ lock = u
  BY <1>1 DEF Applying, SessionOK
<1>3. /\ op[u] \in Op /\ op[u].work \in TunnelMap /\ op[u].i \in Nat
      /\ Current(u) \in TunnelDef /\ op[u].i \in 1..Len(Doc(u).tunnels)
  BY <1>2, CurrentType DEF TypeOK, Op
<1>4. PICK t \in TunnelDef : t = Current(u) /\ t = Doc(u).tunnels[op[u].i]
  BY <1>3 DEF Current
<1>5. t.id \in Tunnels /\ t.name \in Names /\ Owns(FeedOf(u), t.id, t.name)
  BY <1>2, <1>3, <1>4, DocTunnels DEF TunnelDef
<1>6. PICK work : work = [op[u].work EXCEPT ![t.id] = [name |-> t.name, enabled |-> enabled]]
  OBVIOUS
<1>7. /\ op'[u].pc = "apply" /\ op'[u].work = work
      /\ op'[u].rev = op[u].rev /\ op'[u].i = op[u].i + 1
  BY <1>1, <1>3, <1>4, <1>6 DEF TypeOK, Op
<1>8. device' = [device EXCEPT ![t.name] = ApplyEffect(t.cfg, enabled)]
  BY <1>1, <1>4
<1>9. t.forced => enabled = t.enabled
  <2>1. CASE op[u].pc = "reapply"
    BY <1>1, <1>4, <2>1 DEF Applying, Progress
  <2>2. CASE op[u].pc = "apply"
    BY <1>1, <1>4, <2>2 DEF Applying, EffectiveEnabled
  <2> QED
    BY <1>2, <2>1, <2>2
<1>10. AppliedTo(t, work, device')
  <2>1. work[t.id] = [name |-> t.name, enabled |-> enabled]
    BY <1>3, <1>5, <1>6 DEF TunnelMap
  <2>2. work[t.id] # None /\ work[t.id].name = t.name /\ work[t.id].enabled = enabled
    BY <1>5, <2>1, NoneAssumption
  <2>3. device'[t.name] = ApplyEffect(t.cfg, enabled)
    BY <1>5, <1>8 DEF TypeOK
  <2> QED
    BY <1>9, <2>2, <2>3 DEF AppliedTo
<1>11. Doc(u)' = Doc(u)
  BY <1>7 DEF Doc
<1>12. ASSUME NEW j \in 1..Len(Doc(u).tunnels), j < op[u].i + 1
       PROVE  AppliedTo(Doc(u).tunnels[j], work, device')
  <2>1. CASE j = op[u].i
    BY <1>4, <1>10, <2>1
  <2>2. CASE j < op[u].i
    <3>1. AppliedTo(Doc(u).tunnels[j], op[u].work, device)
      BY <1>2, <2>2 DEF Progress
    <3>2. Doc(u).tunnels[j].id # t.id
      BY <1>2, <1>3, <1>4, <2>2, DocTunnels
    <3> QED
      BY <1>2, <1>5, <1>6, <1>8, <3>1, <3>2, StaysApplied
  <2> QED
    BY <1>3, <1>12, <2>1, <2>2
<1>13. Progress(u)'
  BY <1>7, <1>11, <1>12 DEF Progress
<1>14. OwnedMap(FeedOf(u), work)
  BY <1>2, <1>3, <1>5, <1>6, WorkOwned DEF OwnedStates
<1>15. Touches(u)
  BY <1>5, <1>8 DEF Touches, TypeOK
<1> QED
  BY <1>7, <1>13, <1>14, <1>15

LEMMA ApplyFailDevice ==
    ASSUME NamesOwned, TypeOK, SessionOK, OwnedStates, NEW u \in Loops, ApplyFail(u)
    PROVE  Progress(u)' /\ OwnedMap(FeedOf(u), op'[u].work) /\ Touches(u)
<1>1. op[u].pc \in {"apply", "reapply"} /\ HasCurrent(u) /\ lock = u
  BY DEF ApplyFail, Applying, SessionOK
<1>2. op[u] \in Op /\ Current(u) \in TunnelDef /\ op[u].i \in 1..Len(Doc(u).tunnels)
  BY <1>1, CurrentType DEF TypeOK
<1>3. PICK t \in TunnelDef : t = Current(u) /\ t = Doc(u).tunnels[op[u].i]
  BY <1>2 DEF Current
<1>4. t.id \in Tunnels /\ t.name \in Names /\ Owns(FeedOf(u), t.id, t.name)
  BY <1>1, <1>2, <1>3, DocTunnels DEF TunnelDef
<1>5. PICK e : device' = [device EXCEPT ![t.name] = e]
  BY <1>3 DEF ApplyFail
<1>6. op'[u].pc = "save" /\ op'[u].work = op[u].work
  BY <1>2 DEF ApplyFail, TypeOK, Op
<1>7. Touches(u)
  BY <1>4, <1>5 DEF Touches, TypeOK
<1> QED
  BY <1>1, <1>6, <1>7 DEF Progress, OwnedStates

LEMMA MissingDevice ==
    ASSUME NamesOwned, TypeOK, SessionOK, OwnedStates, NEW u \in Loops, Progress(u),
           NEW id \in Tunnels, RemoveMissing(u, id)
    PROVE  Progress(u)' /\ OwnedMap(FeedOf(u), op'[u].work) /\ Touches(u)
<1>1. /\ op[u].pc = "apply" /\ lock = u
      /\ op[u].work[id] # None /\ id \notin IdsOf(Doc(u))
  BY DEF RemoveMissing, Applied, Missing, SessionOK
<1>2. op[u] \in Op /\ op[u].work \in TunnelMap /\ op[u].work[id] \in TunnelState
  BY <1>1 DEF TypeOK, Op, TunnelMap
<1>3. PICK n \in Names : n = op[u].work[id].name
  BY <1>2 DEF TunnelState
<1>4. Owns(FeedOf(u), id, n)
  BY <1>1, <1>3 DEF OwnedStates, OwnedMap
<1>5. PICK e : device' = [device EXCEPT ![n] = e]
  BY <1>3 DEF RemoveMissing
<1>6. PICK work : work = [op[u].work EXCEPT ![id] = None]
  OBVIOUS
<1>7. /\ op'[u].pc = "apply" /\ op'[u].work = work
      /\ op'[u].rev = op[u].rev /\ op'[u].i = op[u].i
  BY <1>1, <1>2, <1>6 DEF RemoveMissing, TypeOK, Op
<1>8. Doc(u)' = Doc(u)
  BY <1>7 DEF Doc
<1>9. ASSUME NEW j \in 1..Len(Doc(u).tunnels), j < op[u].i
      PROVE  AppliedTo(Doc(u).tunnels[j], work, device')
  <2>1. AppliedTo(Doc(u).tunnels[j], op[u].work, device)
    BY <1>1, <1>9 DEF Progress
  <2>2. Doc(u).tunnels[j].id # id
    BY <1>1 DEF IdsOf
  <2> QED
    BY <1>1, <1>4, <1>5, <1>6, <2>1, <2>2, StaysApplied
<1>10. Progress(u)'
  BY <1>7, <1>8, <1>9 DEF Progress
<1>11. OwnedMap(FeedOf(u), work)
  BY <1>1, <1>2, <1>6, WorkOwned DEF OwnedStates
<1>12. Touches(u)
  BY <1>4, <1>5 DEF Touches, TypeOK
<1> QED
  BY <1>7, <1>10, <1>11, <1>12

\* A step of a session between its start and its end.
Inner(u) ==
    \/ RemoveRenamed(u) \/ ApplyOk(u) \/ ApplyFail(u)
    \/ \E id \in Tunnels : RemoveMissing(u, id)
    \/ EndReconcile(u)

LEMMA InnerKind ==
    ASSUME TypeOK, NEW u \in Loops, Inner(u)
    PROVE  op'[u].kind = op[u].kind
<1>1. op \in [Loops -> Op]
  BY DEF TypeOK
<1>2. CASE RemoveRenamed(u)
  BY <1>1, <1>2 DEF RemoveRenamed, Op
<1>3. CASE ApplyOk(u)
  <2>1. PICK enabled \in BOOLEAN :
          op' = [op EXCEPT
            ![u].pc = "apply", ![u].i = @ + 1,
            ![u].work[Current(u).id] = [name |-> Current(u).name, enabled |-> enabled]]
    BY <1>3 DEF ApplyOk
  <2> QED
    BY <1>1, <2>1 DEF Op
<1>4. CASE ApplyFail(u) \/ EndReconcile(u)
  BY <1>1, <1>4 DEF ApplyFail, EndReconcile, Op
<1>5. CASE \E id \in Tunnels : RemoveMissing(u, id)
  BY <1>1, <1>5 DEF RemoveMissing, Op
<1> QED
  BY <1>2, <1>3, <1>4, <1>5 DEF Inner

LEMMA InnerDevice ==
    ASSUME NamesOwned, TypeOK, SessionOK, OwnedStates, NEW u \in Loops, Progress(u),
           Inner(u)
    PROVE  /\ Progress(u)' /\ OwnedMap(FeedOf(u), op'[u].work)
           /\ Touches(u) \/ device' = device
<1>1. CASE EndReconcile(u)
  <2>1. op[u].pc = "apply" /\ lock = u /\ op[u] \in Op
    BY <1>1 DEF EndReconcile, Applied, SessionOK, TypeOK
  <2>2. op'[u].pc = "save" /\ op'[u].work = op[u].work /\ device' = device
    BY <1>1, <2>1 DEF EndReconcile, TypeOK, Op
  <2> QED
    BY <2>1, <2>2 DEF Progress, OwnedStates
<1> QED
  BY <1>1, RenamedDevice, ApplyOkDevice, ApplyFailDevice, MissingDevice DEF Inner

LEMMA InnerOwned ==
    ASSUME TypeOK, SessionOK, OwnedStates, NEW u \in Loops, Inner(u)
    PROVE  OwnedState(mem'[u])
<1>1. op[u].pc # "idle" /\ lock = u /\ mem[u] \in State /\ FeedOf(u) \in Feeds
  BY InnerStep, DocTunnels DEF Inner, SessionOK
<1>2. OwnedState(mem[u]) /\ OwnedMap(FeedOf(u), op[u].work)
  BY <1>1 DEF OwnedStates
<1>3. mem[u].feeds[FeedOf(u)] \in FeedState
  BY <1>1 DEF State
<1>4. OwnedMap(FeedOf(u), InterruptedEntry(u).tunnels)
  BY <1>1, <1>2, <1>3 DEF InterruptedEntry, FeedState, OwnedState
<1>5. OwnedMap(FeedOf(u), ReconciledEntry(u).tunnels)
  BY <1>2 DEF ReconciledEntry
<1>6. ASSUME NEW fs, OwnedMap(FeedOf(u), fs.tunnels)
      PROVE  OwnedState(Stored(mem[u], FeedOf(u), fs))
  BY <1>1, <1>2, <1>6 DEF Stored, OwnedState, State
<1> QED
  BY <1>2, <1>4, <1>5, <1>6, InnerStep DEF Inner

\* A session starts with no tunnel of its document applied.
LEMMA BeginDevice ==
    ASSUME TypeOK, SessionOK, KeyedStates, OwnedStates, NEW u \in Loops,
           \/ \E r \in Revisions : BeginUpdate(u, r)
           \/ \E f \in Feeds : BeginCache(u, f)
    PROVE  /\ Progress(u)' /\ OwnedState(mem'[u])
           /\ OwnedMap(FeedOf(u)', op'[u].work)
           /\ lock' = u /\ file' = file /\ device' = device
<1>1. OwnedState(file)
  BY DEF OwnedStates
<1>2. ASSUME NEW st, NEW pc \in {"apply", "save"}, NEW kind, NEW r \in Revisions,
             Begin(u, st, pc, kind, r), OwnedState(st)
      PROVE  /\ Progress(u)' /\ OwnedState(mem'[u])
             /\ OwnedMap(FeedOf(u)', op'[u].work)
             /\ lock' = u /\ file' = file /\ device' = device
  <2>1. /\ mem'[u] = st /\ op'[u].pc = pc /\ op'[u].rev = r /\ op'[u].i = 1
        /\ op'[u].work = st.feeds[DocOf[r].id].tunnels
    BY <1>2 DEF Begin, TypeOK
  <2>2. DocOf[r].id \in Feeds
    BY DocType
  <2>3. Progress(u)'
    BY <2>1 DEF Progress
  <2>4. FeedOf(u)' = DocOf[r].id
    BY <2>1 DEF FeedOf, Doc
  <2> QED
    BY <1>2, <2>1, <2>2, <2>3, <2>4 DEF Begin, OwnedState
<1>3. ASSUME NEW r \in Revisions, BeginUpdate(u, r)
      PROVE  /\ OwnedState(Received(u, r))
             /\ \E pc \in {"apply", "save"} : Begin(u, Received(u, r), pc, "update", r)
  <2>1. DocOf[r].id \in Feeds
    BY DocType
  <2>2. OwnedState(Received(u, r))
    BY <1>1, <2>1, ReceivedKeeps DEF OwnedState
  <2> QED
    BY <1>3, <2>2 DEF BeginUpdate
<1>4. ASSUME NEW f \in Feeds, BeginCache(u, f)
      PROVE  \E r \in Revisions : Begin(u, file, "apply", "cache", r)
  BY <1>4 DEF BeginCache, TypeOK, State, FeedState
<1> QED
  BY <1>1, <1>2, <1>3, <1>4

LEMMA DeviceNext ==
    ASSUME NamesOwned, TypeOK, SessionOK, KeyedStates, OwnedStates, InForceSoFar, [Next]_vars
    PROVE  OwnedStates' /\ InForceSoFar'
<1>1. ASSUME NEW u \in Loops,
             \/ \E r \in Revisions : BeginUpdate(u, r)
             \/ \E f \in Feeds : BeginCache(u, f)
      PROVE  OwnedStates' /\ InForceSoFar'
  BY <1>1, BeginDevice DEF OwnedStates, OwnedState, InForceSoFar
<1>2. ASSUME NEW u \in Loops, Inner(u)
      PROVE  OwnedStates' /\ InForceSoFar'
  <2>1. /\ lock = u /\ lock' = u /\ file' = file /\ FeedOf(u)' = FeedOf(u)
    BY <1>2, InnerStep DEF Inner, SessionOK, FeedOf, Doc
  <2>2. Progress(u)' /\ OwnedMap(FeedOf(u), op'[u].work)
    BY <1>2, <2>1, InnerDevice DEF InForceSoFar
  <2>3. OwnedState(mem'[u]) /\ OwnedState(file')
    BY <1>2, <2>1, InnerOwned DEF OwnedStates
  <2> QED
    BY <2>1, <2>2, <2>3 DEF OwnedStates, OwnedState, InForceSoFar
<1>3. ASSUME NEW u \in Loops, SaveOk(u) \/ SaveFail(u)
      PROVE  OwnedStates' /\ InForceSoFar'
  BY <1>3, EndStep, NoneAssumption DEF OwnedStates, OwnedState, InForceSoFar
<1>4. CASE Crash
  BY <1>4, NoneAssumption DEF Crash, OwnedStates, OwnedState, InForceSoFar
<1>5. CASE UNCHANGED vars
  BY <1>5 DEF vars, OwnedStates, OwnedState, OwnedMap, InForceSoFar, Progress, FeedOf, Doc,
     Current, HasCurrent, AppliedTo
<1> QED
  BY <1>1, <1>2, <1>3, <1>4, <1>5 DEF Next, SessionStep, Inner

\* The inductive invariant of this module.
DeviceInv ==
    /\ TypeOK /\ SessionOK /\ KeyedStates /\ MemAgrees
    /\ NamesOwned => OwnedStates /\ InForceSoFar

LEMMA DeviceInvAlways == Spec => []DeviceInv
<1>1. Init => DeviceInv
  <2> SUFFICES ASSUME Init PROVE DeviceInv
    OBVIOUS
  <2>1. TypeOK /\ SessionOK /\ lock = None
    BY TypeInit DEF Init
  <2>2. OwnedState(file)
    BY DEF Init, EmptyState, NoTunnels, OwnedState, OwnedMap
  <2>3. KeyedStates
    BY NoneAssumption DEF Init, EmptyState, KeyedStates, Keyed
  <2> QED
    BY <2>1, <2>2, <2>3, NoneAssumption DEF DeviceInv, OwnedStates, InForceSoFar, MemAgrees
<1>2. DeviceInv /\ [Next]_vars => DeviceInv'
  BY TypeNext, KeyedNext, MemNext, DeviceNext DEF DeviceInv
<1> QED
  BY <1>1, <1>2, PTL DEF Spec

LEMMA Finished ==
    ASSUME TypeOK, SessionOK, InForceSoFar, NEW u \in Loops, Applied(u)
    PROVE  Converged(op[u].rev, op[u].work, device)
<1>1. op[u].pc = "apply" /\ ~HasCurrent(u) /\ lock = u /\ op[u].i \in Nat
  BY DEF Applied, SessionOK
<1>2. Doc(u).tunnels \in Seq(TunnelDef)
  BY <1>1, DocTunnels
<1>3. \A j \in 1..Len(Doc(u).tunnels) : AppliedTo(Doc(u).tunnels[j], op[u].work, device)
  BY <1>1, <1>2 DEF InForceSoFar, Progress, HasCurrent
<1>4. \A t \in Range(Doc(u).tunnels) : AppliedTo(t, op[u].work, device)
  BY <1>2, <1>3 DEF Range
<1> QED
  BY <1>4 DEF Converged, AppliedTo, Doc

\* A finished ApplyFeed has put its document in force: no rename or removal of a
\* session undoes an earlier Apply of it, whatever was recorded before and whatever
\* failed, as long as documents share no names (ApplyFeed).
THEOREM Establishes == Spec => []ReconcileEstablishes
<1>1. DeviceInv => ReconcileEstablishes
  BY Finished DEF DeviceInv, ReconcileEstablishes
<1> QED
  BY <1>1, DeviceInvAlways, PTL

-----------------------------------------------------------------------------
(* Feeds do not disturb each other *)

\* What any step does to the device.
LEMMA DeviceStep ==
    ASSUME DeviceInv, NamesOwned, [Next]_vars
    PROVE  device' = device \/ \E u \in Loops : lock = u /\ op[u].pc # "idle" /\ Touches(u)
<1>1. ASSUME NEW u \in Loops, Inner(u)
      PROVE  device' = device \/ (lock = u /\ op[u].pc # "idle" /\ Touches(u))
  <2>1. lock = u /\ op[u].pc # "idle"
    BY <1>1, InnerStep DEF Inner, SessionOK, DeviceInv
  <2> QED
    BY <1>1, <2>1, InnerDevice DEF DeviceInv, InForceSoFar
<1> QED
  BY <1>1 DEF Next, SessionStep, Inner, BeginUpdate, BeginCache, Begin, SaveOk, SaveFail,
     Crash, vars

\* The backend entry of a name changes only in a session of the feed that owns the
\* name, as long as documents share no names (ApplyFeed on the feed's own map).
THEOREM FeedsIsolated == Spec => Isolation
<1>1. ASSUME DeviceInv, NamesOwned, [Next]_vars, NEW n \in Names, device'[n] # device[n]
      PROVE  lock # None /\ n \in NamesOf(FeedOf(lock))
  <2>1. PICK u \in Loops : lock = u /\ op[u].pc # "idle" /\ Touches(u)
    BY <1>1, DeviceStep
  <2>2. PICK id \in Tunnels : Owns(FeedOf(u), id, n)
    BY <1>1, <2>1 DEF Touches
  <2> QED
    BY <2>1, <2>2, NoneAssumption DEF NamesOf, Owns
<1>2. DeviceInv /\ [Next]_vars =>
        [NamesOwned =>
           \A n \in Names : device'[n] # device[n] =>
             lock # None /\ n \in NamesOf(FeedOf(lock))]_vars
  BY <1>1
<1> QED
  BY <1>2, DeviceInvAlways, PTL DEF Isolation, Spec

-----------------------------------------------------------------------------
(* The contract of sessions *)

\* How the State of a session differs from the file: in what it received, and in a
\* revision that counts as reconciled only at the end, and only if it is in force.
Loaded(u) ==
    LET f == FeedOf(u)
        r == op[u].rev
        new == mem[u].feeds[f]
        old == file.feeds[f]
    IN  /\ op[u].kind \in {"update", "cache"}
        /\ op[u].kind = "update" =>
             /\ mem[u].urlMap = [file.urlMap EXCEPT ![u] = f]
             /\ new.cache = IF r \in Encrypted THEN r ELSE None
        /\ op[u].kind = "cache" =>
             /\ mem[u].urlMap = file.urlMap
             /\ new.cache = old.cache /\ new.lastRev = old.lastRev
        /\ new.lastRev # old.lastRev =>
             op[u].pc = "save" /\ new.lastRev = r /\ Converged(r, new.tunnels, device)

AllLoaded == \A u \in Loops : lock = u => Loaded(u)

LEMMA BeginLoaded ==
    ASSUME TypeOK, SessionOK, KeyedStates, NEW u \in Loops,
           \/ \E r \in Revisions : BeginUpdate(u, r)
           \/ \E f \in Feeds : BeginCache(u, f)
    PROVE  Loaded(u)'
<1>1. ASSUME NEW r \in Revisions, BeginUpdate(u, r)
      PROVE  Loaded(u)'
  <2>1. PICK pc : Begin(u, Received(u, r), pc, "update", r)
    BY <1>1 DEF BeginUpdate
  <2>2. /\ mem'[u] = Received(u, r) /\ file' = file
        /\ op'[u].kind = "update" /\ op'[u].rev = r
    BY <2>1 DEF Begin, TypeOK
  <2>3. FeedOf(u)' = DocOf[r].id /\ DocOf[r].id \in Feeds
    BY <2>2, DocType DEF FeedOf, Doc
  <2> QED
    BY <2>2, <2>3, ReceivedKeeps, ReceivedExactly DEF Loaded
<1>2. ASSUME NEW f \in Feeds, BeginCache(u, f)
      PROVE  Loaded(u)'
  <2>1. mem'[u] = file /\ file' = file /\ op'[u].kind = "cache"
    BY <1>2 DEF BeginCache, Begin, TypeOK
  <2> QED
    BY <2>1 DEF Loaded
<1> QED
  BY <1>1, <1>2

LEMMA InnerLoaded ==
    ASSUME DeviceInv, NamesOwned, NEW u \in Loops, Loaded(u), Inner(u)
    PROVE  Loaded(u)'
<1>1. /\ op[u].pc \notin {"idle", "save"} /\ lock = u
      /\ op[u] \in Op /\ mem[u] \in State
  BY DEF DeviceInv, TypeOK, SessionOK, Inner, RemoveRenamed, ApplyOk, ApplyFail, Applying,
     RemoveMissing, EndReconcile, Applied
<1>2. PICK f \in Feeds : f = FeedOf(u) /\ mem[u].feeds[f] \in FeedState
  BY <1>1, DocTunnels DEF DeviceInv, State
<1>3. /\ file' = file /\ op'[u].rev = op[u].rev /\ FeedOf(u)' = f
      /\ mem[u].feeds[f].lastRev = file.feeds[f].lastRev
  BY <1>1, <1>2, InnerStep DEF Inner, DeviceInv, FeedOf, Doc, Loaded
<1>4. op'[u].kind = op[u].kind
  BY InnerKind DEF DeviceInv
<1>5. CASE ~EndReconcile(u)
  <2>1. \/ mem'[u] = mem[u]
        \/ mem'[u] = Stored(mem[u], f, InterruptedEntry(u))
    BY <1>1, <1>2, <1>5 DEF Inner, RemoveRenamed, ApplyOk, ApplyFail, RemoveMissing, DeviceInv, TypeOK
  <2>2. /\ mem'[u].urlMap = mem[u].urlMap
        /\ mem'[u].feeds[f].cache = mem[u].feeds[f].cache
        /\ mem'[u].feeds[f].lastRev = mem[u].feeds[f].lastRev
    BY <1>1, <1>2, <2>1 DEF Stored, InterruptedEntry, State, FeedState
  <2> QED
    BY <1>2, <1>3, <1>4, <2>2 DEF Loaded
<1>6. CASE EndReconcile(u)
  <2>1. /\ mem'[u] = Stored(mem[u], f, ReconciledEntry(u))
        /\ op'[u].pc = "save" /\ device' = device /\ Applied(u)
    BY <1>1, <1>2, <1>6 DEF EndReconcile, DeviceInv, TypeOK, Op
  <2>2. /\ mem'[u].urlMap = mem[u].urlMap
        /\ mem'[u].feeds[f] = ReconciledEntry(u)
    BY <1>1, <1>2, <2>1 DEF Stored, State
  <2>3. /\ mem'[u].feeds[f].cache = mem[u].feeds[f].cache
        /\ mem'[u].feeds[f].tunnels = op[u].work
        /\ mem'[u].feeds[f].lastRev =
              IF op[u].kind = "update" THEN op[u].rev ELSE mem[u].feeds[f].lastRev
    BY <1>2, <2>2 DEF ReconciledEntry
  <2>4. Converged(op[u].rev, op[u].work, device)
    BY <2>1, Finished DEF DeviceInv
  <2> QED
    BY <1>2, <1>3, <1>4, <2>1, <2>2, <2>3, <2>4 DEF Loaded, Converged
<1> QED
  BY <1>5, <1>6

LEMMA LoadedNext ==
    ASSUME DeviceInv, NamesOwned, AllLoaded, [Next]_vars
    PROVE  AllLoaded'
<1>1. ASSUME NEW u \in Loops,
             \/ \E r \in Revisions : BeginUpdate(u, r)
             \/ \E f \in Feeds : BeginCache(u, f)
      PROVE  AllLoaded'
  BY <1>1, BeginLoaded, BeginStep DEF AllLoaded, DeviceInv
<1>2. ASSUME NEW u \in Loops, Inner(u)
      PROVE  AllLoaded'
  <2>1. lock = u /\ lock' = u
    BY <1>2, InnerStep DEF Inner, DeviceInv, SessionOK
  <2> QED
    BY <1>2, <2>1, InnerLoaded DEF AllLoaded
<1>3. ASSUME NEW u \in Loops, SaveOk(u) \/ SaveFail(u)
      PROVE  AllLoaded'
  BY <1>3, EndStep, NoneAssumption DEF AllLoaded, DeviceInv
<1>4. CASE Crash
  BY <1>4, NoneAssumption DEF Crash, AllLoaded
<1>5. CASE UNCHANGED vars
  BY <1>5 DEF vars, AllLoaded, Loaded, FeedOf, Doc, Converged
<1> QED
  BY <1>1, <1>2, <1>3, <1>4, <1>5 DEF Next, SessionStep, Inner

\* What the device holds of the other feeds stays, as long as the step leaves their
\* records alone and touches the device under a name of feed f at most.
LEMMA HoldsTouched ==
    ASSUME NamesOwned, NEW f \in Feeds,
           \A g \in Feeds : g # f => file'.feeds[g] = file.feeds[g],
           \/ device' = device
           \/ \E id \in Tunnels, n \in Names :
                Owns(f, id, n) /\ \A m \in Names : m # n => device'[m] = device[m]
    PROVE  Sessions!Touched(f)
<1>1. ASSUME NEW g \in Feeds, g # f, NEW r \in Revisions, DocOf[r].id = g,
             NEW t \in Range(DocOf[r].tunnels)
      PROVE  device'[t.name] = device[t.name]
  <2>1. PICK i \in DOMAIN DocOf[r].tunnels : t = DocOf[r].tunnels[i]
    BY DEF Range
  <2>2. Owns(g, t.id, t.name)
    BY <1>1, <2>1 DEF Owns
  <2>3. t.name \in Names
    <3>1. DocOf[r].tunnels \in Seq(TunnelDef)
      BY DocType
    <3>2. t \in TunnelDef
      BY <2>1, <3>1
    <3> QED
      BY <3>2 DEF TunnelDef
  <2> QED
    BY <1>1, <2>2, <2>3, NameOwner
<1>2. ASSUME NEW g \in Feeds, g # f PROVE Holds(g)' = Holds(g)
  <2>1. file'.feeds[g].tunnels = file.feeds[g].tunnels
    BY <1>2
  <2>2. ASSUME NEW r \in Revisions, DocOf[r].id = g
        PROVE  Converged(r, file'.feeds[g].tunnels, device')
                 <=> Converged(r, file.feeds[g].tunnels, device)
    BY <1>1, <1>2, <2>1, <2>2 DEF Converged
  <2> QED
    BY <2>2 DEF Holds
<1>3. [g \in Feeds |-> Holds(g)]' \in [Feeds -> SUBSET Revisions]
  BY DEF Holds
<1> QED
  BY <1>2, <1>3 DEF Sessions!Touched

LEMMA SaveRecords ==
    ASSUME DeviceInv, NamesOwned, AllLoaded, NEW u \in Loops, SaveOk(u)
    PROVE  Sessions!Next
<1>1. /\ op[u].pc = "save" /\ lock = u /\ device' = device /\ file' = mem[u]
      /\ mem[u] \in State /\ file \in State
  BY DEF SaveOk, DeviceInv, SessionOK, TypeOK
<1>2. PICK r \in Revisions : r = op[u].rev
  BY <1>1 DEF DeviceInv, SessionOK
<1>3. PICK f \in Feeds : f = FeedOf(u) /\ f = DocOf[r].id
  BY <1>2, DocType DEF FeedOf, Doc
<1>4. Loaded(u)
  BY <1>1 DEF AllLoaded
<1>5. \A g \in Feeds : g # f => file'.feeds[g] = file.feeds[g]
  BY <1>1, <1>3 DEF DeviceInv, MemAgrees
<1>6. Sessions!Touched(f)
  BY <1>1, <1>5, HoldsTouched
<1>7. CASE op[u].kind = "cache"
  <2>1. \A g \in Feeds : /\ file'.feeds[g].lastRev = file.feeds[g].lastRev
                         /\ file'.feeds[g].cache = file.feeds[g].cache
    BY <1>1, <1>3, <1>4, <1>5, <1>7 DEF Loaded
  <2>2. file'.urlMap = file.urlMap
    BY <1>1, <1>4, <1>7 DEF Loaded
  <2>3. Sessions!Work(f)
    BY <1>6, <2>1, <2>2 DEF Sessions!Work
  <2> QED
    BY <2>3 DEF Sessions!Next
<1>8. CASE op[u].kind = "update"
  <2>1. PICK rec \in {file.feeds[f].lastRev, r} : rec = file'.feeds[f].lastRev
    BY <1>1, <1>2, <1>3, <1>4 DEF Loaded
  <2>2. /\ file'.urlMap = [file.urlMap EXCEPT ![u] = f]
        /\ file'.feeds[f].cache = IF r \in Encrypted THEN r ELSE None
    BY <1>1, <1>2, <1>3, <1>4, <1>8 DEF Loaded
  <2>3. [g \in Feeds |-> file'.feeds[g].lastRev] =
          [[g \in Feeds |-> file.feeds[g].lastRev] EXCEPT ![f] = rec]
    BY <1>5, <2>1
  <2>4. [g \in Feeds |-> file'.feeds[g].cache] =
          [[g \in Feeds |-> file.feeds[g].cache] EXCEPT ![f] = IF r \in Encrypted THEN r ELSE None]
    BY <1>5, <2>2
  <2>6. rec # file.feeds[f].lastRev => rec \in Holds(f)'
    <3>1. ASSUME rec # file.feeds[f].lastRev
          PROVE  rec = r /\ Converged(r, file'.feeds[f].tunnels, device')
      BY <1>1, <1>2, <1>3, <1>4, <2>1, <3>1 DEF Loaded
    <3> QED
      BY <1>3, <3>1 DEF Holds
  <2>7. Sessions!Record(u, f, r)
    BY <1>6, <2>2, <2>3, <2>4, <2>6 DEF Sessions!Record
  <2>8. <<u, f, r>> \in {<<v, DocOf[q].id, q>> : v \in Loops, q \in Revisions}
    BY <1>3
  <2>9. \E p \in {<<v, DocOf[q].id, q>> : v \in Loops, q \in Revisions} :
          Sessions!Record(p[1], p[2], p[3])
    <3> DEFINE P == {<<v, DocOf[q].id, q>> : v \in Loops, q \in Revisions}
    <3> <<u, f, r>> \in P
      BY <2>8
    <3> HIDE DEF P
    <3>1. Sessions!Record(<<u, f, r>>[1], <<u, f, r>>[2], <<u, f, r>>[3])
      BY <2>7
    <3>2. \E p \in P : Sessions!Record(p[1], p[2], p[3])
      BY <3>1
    <3> QED
      BY <3>2 DEF P
  <2> QED
    BY <2>9 DEF Sessions!Next
<1> QED
  BY <1>4, <1>7, <1>8 DEF Loaded

\* Reconcile, with a session in many steps between which other loops act and the
\* process may die, implements the contract by which Daemon takes a session as one
\* step: nothing shows before the save, and what is recorded as reconciled is in force.
THEOREM SessionsKept == ASSUME NamesOwned PROVE Spec => KeepsSessions
<1>1. Init => Sessions!Init
  <2> SUFFICES ASSUME Init PROVE Sessions!Init
    OBVIOUS
  <2>1. [f \in Feeds |-> Holds(f)] \in [Feeds -> SUBSET Revisions]
    BY DEF Holds
  <2>2. /\ file.urlMap = [u \in Loops |-> None]
        /\ \A f \in Feeds : file.feeds[f].lastRev = None /\ file.feeds[f].cache = None
    BY DEF Init, EmptyState
  <2> QED
    BY <2>1, <2>2 DEF Sessions!Init
<1>2. Init => AllLoaded
  BY NoneAssumption DEF Init, AllLoaded
<1>3. DeviceInv /\ AllLoaded /\ [Next]_vars => AllLoaded'
  BY LoadedNext
<1>4. ASSUME DeviceInv, AllLoaded, [Next]_vars
      PROVE  [Sessions!Next]_(Sessions!vars)
  <2>1. CASE file' = file /\ device' = device
    BY <2>1 DEF Sessions!vars, Holds, Converged
  <2>2. ASSUME NEW u \in Loops, SaveOk(u) PROVE Sessions!Next
    BY <1>4, <2>2, SaveRecords
  <2>3. ASSUME NEW u \in Loops, Inner(u)
        PROVE  [Sessions!Next]_(Sessions!vars)
    <3>1. file' = file /\ lock = u /\ op[u].pc # "idle"
      BY <1>4, <2>3, InnerStep DEF Inner, DeviceInv, SessionOK
    <3>2. PICK f \in Feeds : f = FeedOf(u)
      BY <1>4, <3>1, DocTunnels DEF DeviceInv
    <3>3. Touches(u) \/ device' = device
      BY <1>4, <2>3, <3>1, InnerDevice DEF DeviceInv, InForceSoFar
    <3>4. Sessions!Touched(f)
      BY <3>1, <3>2, <3>3, HoldsTouched DEF Touches
    <3> QED
      BY <3>1, <3>4 DEF Sessions!Next, Sessions!Work
  <2> QED
    BY <1>4, <2>1, <2>2, <2>3 DEF Next, SessionStep, Inner, BeginUpdate, BeginCache, Begin,
       SaveFail, Crash, vars
<1> QED
  BY <1>1, <1>2, <1>3, <1>4, DeviceInvAlways, PTL DEF Spec, KeepsSessions, Sessions!Spec

-----------------------------------------------------------------------------
(* Nothing is forgotten while the backend holds it *)

\* The record the file has of tunnel id, of the feed of u's session.
Before(u, id) == file.feeds[FeedOf(u)].tunnels[id]

\* What the file tracks is in map under its name, or the backend has it no more.
TrackedMap(u, map) ==
    \A id \in Tunnels :
      LET before == Before(u, id)
      IN  before # None =>
            \/ map[id] # None /\ map[id].name = before.name
            \/ device[before.name] = None

\* A session forgets what it has removed only, and writes its own map at its end; a
\* tunnel that is applied anew after a rename has another name than before.
Tracked(u) ==
    /\ TrackedMap(u, op[u].work)
    /\ TrackedMap(u, mem[u].feeds[FeedOf(u)].tunnels)
    /\ op[u].pc # "save" =>
         mem[u].feeds[FeedOf(u)].tunnels = file.feeds[FeedOf(u)].tunnels
    /\ op[u].pc = "reapply" =>
         /\ op[u].work[Current(u).id] = None
         /\ Before(u, Current(u).id) # None => Before(u, Current(u).id).name # Current(u).name

AllTracked == \A u \in Loops : lock = u => Tracked(u)

TrackInv == DeviceInv /\ AllSticky /\ (NamesOwned => AllTracked)

\* The name of the current tunnel is not the recorded name of another one.
LEMMA OtherName ==
    ASSUME DeviceInv, NamesOwned, NEW u \in Loops, op[u].pc # "idle", HasCurrent(u),
           NEW id \in Tunnels, id # Current(u).id, Before(u, id) # None
    PROVE  Before(u, id).name # Current(u).name
<1>1. Owns(FeedOf(u), Current(u).id, Current(u).name)
  BY CurrentType, DocTunnels DEF DeviceInv, Current
<1>2. Owns(FeedOf(u), id, Before(u, id).name)
  BY DocTunnels DEF DeviceInv, OwnedStates, OwnedState, OwnedMap, Before
<1> QED
  BY <1>1, <1>2, NameOwner

\* A record has a name of the backend.
LEMMA BeforeType ==
    ASSUME TypeOK, SessionOK, NEW u \in Loops, op[u].pc # "idle", NEW id \in Tunnels,
           Before(u, id) # None
    PROVE  Before(u, id).name \in Names
<1>1. FeedOf(u) \in Feeds
  BY DocTunnels
<1>2. Before(u, id) \in TunnelState
  BY <1>1 DEF TypeOK, State, FeedState, TunnelMap, Before
<1> QED
  BY <1>2 DEF TunnelState

\* A session has not written the entry of the tunnel it comes to.
LEMMA CurrentStored ==
    ASSUME TypeOK, SessionOK, NEW u \in Loops, Sticky(u), op[u].pc = "apply", HasCurrent(u)
    PROVE  op[u].work[Current(u).id] = Before(u, Current(u).id)
BY CurrentUnwritten DEF Before

LEMMA RenamedTracked ==
    ASSUME TrackInv, NamesOwned, "remove" \notin Faults, NEW u \in Loops, Sticky(u),
           Tracked(u), RemoveRenamed(u)
    PROVE  Tracked(u)'
<1>1. /\ op[u].pc = "apply" /\ HasCurrent(u) /\ file' = file /\ mem' = mem
      /\ op[u] \in Op /\ op[u].work \in TunnelMap /\ Renamed(Current(u), op[u].work)
  BY DEF RemoveRenamed, TrackInv, DeviceInv, TypeOK, Op
<1>2. Current(u) \in TunnelDef /\ op[u].i \in 1..Len(Doc(u).tunnels)
  BY <1>1, CurrentType DEF TrackInv, DeviceInv
<1>3. PICK id \in Tunnels : id = Current(u).id
  BY <1>2 DEF TunnelDef
<1>4. op[u].work[id] = Before(u, id) /\ Before(u, id) # None
  BY <1>1, <1>3, CurrentStored DEF Renamed, TrackInv, DeviceInv
<1>5. PICK n \in Names : n = Before(u, id).name
  BY <1>1, <1>4, BeforeType DEF TrackInv, DeviceInv
<1>6. device' = [device EXCEPT ![n] = None]
  BY <1>3, <1>4, <1>5 DEF RemoveRenamed, RemoveEffects
<1>7. PICK work : work = [op[u].work EXCEPT ![id] = None]
  OBVIOUS
<1>8. op'[u].pc = "reapply" /\ op'[u].i = op[u].i /\ op'[u].rev = op[u].rev
      /\ op'[u].work = work
  BY <1>3, <1>7 DEF RemoveRenamed, TrackInv, DeviceInv, TypeOK, Op
<1>9. Doc(u)' = Doc(u) /\ FeedOf(u)' = FeedOf(u) /\ Current(u)' = Current(u)
  BY <1>8 DEF Doc, FeedOf, Current
<1>10. \A m \in Names : device[m] = None => device'[m] = None
  BY <1>5, <1>6 DEF TrackInv, DeviceInv, TypeOK
<1>11. TrackedMap(u, work)'
  <2>1. device'[n] = None
    BY <1>5, <1>6 DEF TrackInv, DeviceInv, TypeOK
  <2>2. \A jd \in Tunnels : Before(u, jd) # None => Before(u, jd).name \in Names
    BY <1>1, BeforeType DEF TrackInv, DeviceInv
  <2> QED
    BY <1>1, <1>5, <1>7, <1>9, <1>10, <2>1, <2>2 DEF Tracked, TrackedMap, Before, TunnelMap
<1>12. TrackedMap(u, mem[u].feeds[FeedOf(u)].tunnels)'
  <2>1. \A jd \in Tunnels : Before(u, jd) # None => Before(u, jd).name \in Names
    BY <1>1, BeforeType DEF TrackInv, DeviceInv
  <2> QED
    BY <1>1, <1>9, <1>10, <2>1 DEF Tracked, TrackedMap, Before
<1>13. Current(u).name # n /\ work[id] = None
  BY <1>1, <1>3, <1>4, <1>5, <1>7 DEF Renamed, TunnelMap
<1> QED
  BY <1>1, <1>3, <1>5, <1>8, <1>9, <1>11, <1>12, <1>13 DEF Tracked, Before, TrackedMap

\* A backend call for the current tunnel, under its name in the document, disturbs no
\* tunnel that is tracked under another name.
LEMMA CallTracked ==
    ASSUME TrackInv, NamesOwned, NEW u \in Loops, op[u].pc # "idle", HasCurrent(u),
           NEW e, device' = [device EXCEPT ![Current(u).name] = e],
           NEW id \in Tunnels, Before(u, id) # None, device[Before(u, id).name] = None,
           id # Current(u).id \/ Before(u, id).name # Current(u).name
    PROVE  device'[Before(u, id).name] = None
<1>1. Before(u, id).name # Current(u).name
  BY OtherName DEF TrackInv
<1>2. Before(u, id).name \in Names
  BY BeforeType DEF TrackInv, DeviceInv
<1> QED
  BY <1>1, <1>2 DEF TrackInv, DeviceInv, TypeOK

\* What was recorded of the current tunnel, if its record has its name of today, is
\* still recorded when Apply is called.
LEMMA CurrentTracked ==
    ASSUME TrackInv, NEW u \in Loops, Sticky(u), Tracked(u), NEW enabled,
           Applying(u, enabled), Before(u, Current(u).id) # None
    PROVE  IF op[u].pc = "apply"
           THEN op[u].work[Current(u).id] # None /\ Before(u, Current(u).id).name = Current(u).name
           ELSE Before(u, Current(u).id).name # Current(u).name
<1>1. CASE op[u].pc = "apply"
  <2>1. op[u].work[Current(u).id] = Before(u, Current(u).id)
    BY <1>1, CurrentStored DEF Applying, TrackInv, DeviceInv
  <2> QED
    BY <1>1, <2>1 DEF Applying, Renamed
<1>2. CASE op[u].pc = "reapply"
  BY <1>2 DEF Tracked
<1> QED
  BY <1>1, <1>2 DEF Applying

LEMMA ApplyOkTracked ==
    ASSUME TrackInv, NamesOwned, NEW u \in Loops, Sticky(u), Tracked(u), ApplyOk(u)
    PROVE  Tracked(u)'
<1>1. PICK value \in BOOLEAN :
        /\ Applying(u, value)
        /\ device' = [device EXCEPT ![Current(u).name] = ApplyEffect(Current(u).cfg, value)]
        /\ op' = [op EXCEPT
              ![u].pc = "apply", ![u].i = @ + 1,
              ![u].work[Current(u).id] = [name |-> Current(u).name, enabled |-> value]]
        /\ UNCHANGED <<file, lock, mem>>
  BY DEF ApplyOk
<1>2. /\ op[u].pc \in {"apply", "reapply"} /\ HasCurrent(u)
      /\ op[u] \in Op /\ op[u].work \in TunnelMap
  BY <1>1 DEF Applying, TrackInv, DeviceInv, TypeOK, Op
<1>3. Current(u) \in TunnelDef
  BY <1>2, CurrentType DEF TrackInv, DeviceInv
<1>4. PICK cur \in Tunnels : cur = Current(u).id
  BY <1>3 DEF TunnelDef
<1>5. PICK entry : entry = [name |-> Current(u).name, enabled |-> value]
  OBVIOUS
<1>6. PICK work : work = [op[u].work EXCEPT ![cur] = entry]
  OBVIOUS
<1>7. op'[u].pc = "apply" /\ op'[u].rev = op[u].rev /\ op'[u].work = work
  BY <1>1, <1>4, <1>5, <1>6 DEF TrackInv, DeviceInv, TypeOK, Op
<1>8. FeedOf(u)' = FeedOf(u)
  BY <1>7 DEF FeedOf, Doc
<1>9. entry # None /\ entry.name = Current(u).name
  BY <1>1, <1>3, <1>5, NoneAssumption DEF TunnelDef
<1>10. ASSUME NEW id \in Tunnels, Before(u, id) # None
       PROVE  \/ work[id] # None /\ work[id].name = Before(u, id).name
              \/ device'[Before(u, id).name] = None
  <2>1. \/ op[u].work[id] # None /\ op[u].work[id].name = Before(u, id).name
        \/ device[Before(u, id).name] = None
    BY <1>10 DEF Tracked, TrackedMap
  <2>2. CASE id # cur
    BY <1>1, <1>2, <1>4, <1>6, <1>10, <2>1, <2>2, CallTracked DEF TunnelMap
  <2>3. CASE id = cur /\ Before(u, id).name = Current(u).name
    BY <1>2, <1>6, <1>9, <2>3 DEF TunnelMap
  <2>4. CASE id = cur /\ Before(u, id).name # Current(u).name
    <3>1. op[u].pc = "reapply"
      BY <1>1, <1>2, <1>4, <1>10, <2>4, CurrentTracked
    <3>2. device[Before(u, id).name] = None
      BY <1>4, <2>1, <2>4, <3>1 DEF Tracked
    <3> QED
      BY <1>1, <1>2, <1>10, <2>4, <3>2, CallTracked
  <2> QED
    BY <2>2, <2>3, <2>4
<1> QED
  BY <1>1, <1>2, <1>7, <1>8, <1>10 DEF Tracked, TrackedMap, Before

LEMMA ApplyFailTracked ==
    ASSUME TrackInv, NamesOwned, NEW u \in Loops, Sticky(u), Tracked(u), ApplyFail(u)
    PROVE  Tracked(u)'
<1>1. PICK value : Applying(u, value)
  BY DEF ApplyFail
<1>2. PICK e : device' = [device EXCEPT ![Current(u).name] = e]
  BY DEF ApplyFail
<1>3. /\ op[u].pc \in {"apply", "reapply"} /\ HasCurrent(u) /\ file' = file
      /\ op'[u].pc = "save" /\ op'[u].rev = op[u].rev /\ op'[u].work = op[u].work
  BY <1>1 DEF Applying, ApplyFail, TrackInv, DeviceInv, TypeOK, Op
<1>4. PICK f \in Feeds : f = FeedOf(u)
  BY <1>3, DocTunnels DEF TrackInv, DeviceInv
<1>5. mem[u] \in State /\ mem[u].feeds[f] \in FeedState
  BY <1>3, <1>4 DEF TrackInv, DeviceInv, SessionOK, State
<1>6. FeedOf(u)' = f
  BY <1>3, <1>4 DEF FeedOf, Doc
<1>7. mem'[u] = Stored(mem[u], f, InterruptedEntry(u))
  BY <1>4 DEF ApplyFail, TrackInv, DeviceInv, TypeOK
<1>8. mem'[u].feeds[f].tunnels \in {op[u].work, file.feeds[f].tunnels}
  BY <1>3, <1>4, <1>5, <1>7 DEF Stored, InterruptedEntry, State, FeedState, Tracked
<1>9. ASSUME NEW id \in Tunnels, Before(u, id) # None
      PROVE  \/ op[u].work[id] # None /\ op[u].work[id].name = Before(u, id).name
             \/ device'[Before(u, id).name] = None
  <2>1. \/ op[u].work[id] # None /\ op[u].work[id].name = Before(u, id).name
        \/ device[Before(u, id).name] = None
    BY <1>9 DEF Tracked, TrackedMap
  <2>2. CASE id # Current(u).id \/ Before(u, id).name # Current(u).name
    BY <1>2, <1>3, <1>9, <2>1, <2>2, CallTracked
  <2>3. CASE id = Current(u).id /\ Before(u, id).name = Current(u).name
    <3>1. op[u].pc = "apply" /\ op[u].work[id] = Before(u, id)
      BY <1>1, <1>3, <1>9, <2>3, CurrentTracked, CurrentStored DEF TrackInv, DeviceInv
    <3> QED
      BY <1>9, <3>1
  <2> QED
    BY <2>2, <2>3
<1> QED
  BY <1>3, <1>4, <1>6, <1>8, <1>9 DEF Tracked, TrackedMap, Before

LEMMA MissingTracked ==
    ASSUME TrackInv, "remove" \notin Faults, NEW u \in Loops, Tracked(u),
           NEW gone \in Tunnels, RemoveMissing(u, gone)
    PROVE  Tracked(u)'
<1>1. /\ op[u].pc = "apply" /\ op[u].work[gone] # None /\ file' = file /\ mem' = mem
      /\ op[u] \in Op /\ op[u].work \in TunnelMap /\ op[u].work[gone] \in TunnelState
  BY DEF RemoveMissing, Applied, Missing, TrackInv, DeviceInv, TypeOK, Op, TunnelMap
<1>2. PICK n \in Names : n = op[u].work[gone].name
  BY <1>1 DEF TunnelState
<1>3. device' = [device EXCEPT ![n] = None]
  BY <1>2 DEF RemoveMissing, RemoveEffects
<1>4. \A m \in Names : device[m] = None => device'[m] = None
  BY <1>2, <1>3 DEF TrackInv, DeviceInv, TypeOK
<1>5. device'[n] = None
  BY <1>2, <1>3 DEF TrackInv, DeviceInv, TypeOK
<1>6. PICK work : work = [op[u].work EXCEPT ![gone] = None]
  OBVIOUS
<1>7. op'[u].pc = "apply" /\ op'[u].rev = op[u].rev /\ op'[u].work = work
  BY <1>1, <1>6 DEF RemoveMissing, TrackInv, DeviceInv, TypeOK, Op
<1>8. FeedOf(u)' = FeedOf(u)
  BY <1>7 DEF FeedOf, Doc
<1>9. ASSUME NEW id \in Tunnels, Before(u, id) # None
      PROVE  \/ work[id] # None /\ work[id].name = Before(u, id).name
             \/ device'[Before(u, id).name] = None
  <2>1. \/ op[u].work[id] # None /\ op[u].work[id].name = Before(u, id).name
        \/ device[Before(u, id).name] = None
    BY <1>9 DEF Tracked, TrackedMap
  <2>2. Before(u, id).name \in Names
    BY <1>1, <1>9, BeforeType DEF TrackInv, DeviceInv
  <2> QED
    BY <1>1, <1>2, <1>4, <1>5, <1>6, <2>1, <2>2 DEF TunnelMap
<1>10. \A id \in Tunnels : Before(u, id) # None => Before(u, id).name \in Names
  BY <1>1, BeforeType DEF TrackInv, DeviceInv
<1> QED
  BY <1>1, <1>4, <1>7, <1>8, <1>9, <1>10 DEF Tracked, TrackedMap, Before

LEMMA EndTracked ==
    ASSUME TrackInv, NEW u \in Loops, Tracked(u), EndReconcile(u)
    PROVE  Tracked(u)'
<1>1. /\ op[u].pc = "apply" /\ file' = file /\ device' = device
      /\ op'[u].pc = "save" /\ op'[u].rev = op[u].rev /\ op'[u].work = op[u].work
  BY DEF EndReconcile, Applied, TrackInv, DeviceInv, TypeOK, Op
<1>2. PICK f \in Feeds : f = FeedOf(u)
  BY <1>1, DocTunnels DEF TrackInv, DeviceInv
<1>3. mem'[u].feeds[f].tunnels = op[u].work
  BY <1>1, <1>2 DEF EndReconcile, Stored, ReconciledEntry, TrackInv, DeviceInv, TypeOK,
     SessionOK, State
<1>4. FeedOf(u)' = f
  BY <1>1, <1>2 DEF FeedOf, Doc
<1> QED
  BY <1>1, <1>2, <1>3, <1>4 DEF Tracked, TrackedMap, Before

\* A session starts with what is stored.
LEMMA BeginTracked ==
    ASSUME TypeOK, SessionOK, NEW u \in Loops,
           \/ \E r \in Revisions : BeginUpdate(u, r)
           \/ \E f \in Feeds : BeginCache(u, f)
    PROVE  Tracked(u)'
<1>1. ASSUME NEW st, NEW pc \in {"apply", "save"}, NEW kind, NEW r \in Revisions,
             Begin(u, st, pc, kind, r),
             st.feeds[DocOf[r].id].tunnels = file.feeds[DocOf[r].id].tunnels
      PROVE  Tracked(u)'
  <2>1. /\ mem'[u] = st /\ op'[u].pc = pc /\ op'[u].rev = r /\ file' = file
        /\ op'[u].work = file.feeds[DocOf[r].id].tunnels
    BY <1>1 DEF Begin, TypeOK
  <2>2. FeedOf(u)' = DocOf[r].id
    BY <2>1 DEF FeedOf, Doc
  <2> QED
    BY <1>1, <2>1, <2>2 DEF Tracked, TrackedMap, Before
<1>2. ASSUME NEW r \in Revisions, BeginUpdate(u, r)
      PROVE  Tracked(u)'
  <2>1. PICK pc \in {"apply", "save"} : Begin(u, Received(u, r), pc, "update", r)
    BY <1>2 DEF BeginUpdate
  <2>2. Received(u, r).feeds[DocOf[r].id].tunnels = file.feeds[DocOf[r].id].tunnels
    BY DocType, ReceivedKeeps
  <2> QED
    BY <1>1, <2>1, <2>2
<1>3. ASSUME NEW f \in Feeds, BeginCache(u, f)
      PROVE  Tracked(u)'
  <2>1. PICK r \in Revisions : Begin(u, file, "apply", "cache", r)
    BY <1>3 DEF BeginCache, TypeOK, State, FeedState
  <2> QED
    BY <1>1, <2>1
<1> QED
  BY <1>2, <1>3

LEMMA TrackedNext ==
    ASSUME TrackInv, NamesOwned, "remove" \notin Faults, [Next]_vars
    PROVE  AllTracked'
<1>1. ASSUME NEW u \in Loops,
             \/ \E r \in Revisions : BeginUpdate(u, r)
             \/ \E f \in Feeds : BeginCache(u, f)
      PROVE  AllTracked'
  BY <1>1, BeginTracked, BeginStep DEF AllTracked, TrackInv, DeviceInv
<1>2. ASSUME NEW u \in Loops, Inner(u)
      PROVE  AllTracked'
  <2>1. lock = u /\ lock' = u
    BY <1>2, InnerStep DEF Inner, TrackInv, DeviceInv, SessionOK
  <2>2. Sticky(u) /\ Tracked(u)
    BY <2>1 DEF TrackInv, AllSticky, AllTracked
  <2>3. Tracked(u)'
    BY <1>2, <2>2, RenamedTracked, ApplyOkTracked, ApplyFailTracked, MissingTracked,
       EndTracked DEF Inner
  <2> QED
    BY <2>1, <2>3 DEF AllTracked
<1>3. ASSUME NEW u \in Loops, SaveOk(u) \/ SaveFail(u)
      PROVE  AllTracked'
  BY <1>3, EndStep, NoneAssumption DEF AllTracked, TrackInv, DeviceInv
<1>4. CASE Crash
  BY <1>4, NoneAssumption DEF Crash, AllTracked
<1>5. CASE UNCHANGED vars
  <2>1. file' = file /\ device' = device /\ op' = op /\ mem' = mem /\ lock' = lock
    BY <1>5 DEF vars
  <2>2. ASSUME NEW u \in Loops, Tracked(u) PROVE Tracked(u)'
    <3>1. FeedOf(u)' = FeedOf(u) /\ Current(u)' = Current(u)
      BY <2>1 DEF Doc, FeedOf, Current
    <3>2. TrackedMap(u, op[u].work)' /\ TrackedMap(u, mem[u].feeds[FeedOf(u)].tunnels)'
      BY <2>1, <2>2, <3>1 DEF Tracked, TrackedMap, Before
    <3> QED
      BY <2>1, <2>2, <3>1, <3>2 DEF Tracked, Before
  <2> QED
    BY <2>1, <2>2 DEF AllTracked, TrackInv
<1> QED
  BY <1>1, <1>2, <1>3, <1>4, <1>5 DEF Next, SessionStep, Inner

\* No record of a tunnel is lost while the backend holds the tunnel, through renames,
\* removals, failed applies and saves and crashes, as long as documents share no names
\* and Remove removes (ApplyFeed, which calls Remove before it deletes a record).
THEOREM NothingForgotten ==
    ASSUME "remove" \notin Faults
    PROVE  Spec => TrackedUntilRemoved
<1> DEFINE Step == NamesOwned =>
             \A f \in Feeds, id \in Tunnels :
               LET before == file.feeds[f].tunnels[id]
               IN  before # None /\ device'[before.name] # None =>
                     /\ file'.feeds[f].tunnels[id] # None
                     /\ file'.feeds[f].tunnels[id].name = before.name
<1>1. Init => AllSticky /\ AllTracked
  BY NoneAssumption DEF Init, AllSticky, AllTracked
<1>2. DeviceInv /\ AllSticky /\ [Next]_vars => AllSticky'
  BY StickyNext DEF DeviceInv
<1>3. TrackInv /\ [Next]_vars => (NamesOwned => AllTracked)'
  BY TrackedNext DEF TrackInv, NamesOwned
<1>4. TrackInv /\ [Next]_vars => [Step]_vars
  <2> SUFFICES ASSUME TrackInv, [Next]_vars, NamesOwned,
                      NEW f \in Feeds, NEW id \in Tunnels,
                      file.feeds[f].tunnels[id] # None,
                      device'[file.feeds[f].tunnels[id].name] # None
               PROVE  /\ file'.feeds[f].tunnels[id] # None
                      /\ file'.feeds[f].tunnels[id].name = file.feeds[f].tunnels[id].name
    OBVIOUS
  <2>1. CASE file' = file
    BY <2>1
  <2>2. ASSUME NEW u \in Loops, SaveOk(u)
        PROVE  /\ file'.feeds[f].tunnels[id] # None
               /\ file'.feeds[f].tunnels[id].name = file.feeds[f].tunnels[id].name
    <3>1. lock = u /\ file' = mem[u] /\ device' = device
      BY <2>2 DEF SaveOk, TrackInv, DeviceInv, SessionOK
    <3>2. CASE f = FeedOf(u)
      BY <3>1, <3>2 DEF TrackInv, AllTracked, Tracked, TrackedMap, Before
    <3>3. CASE f # FeedOf(u)
      BY <3>1, <3>3 DEF TrackInv, DeviceInv, MemAgrees
    <3> QED
      BY <3>2, <3>3
  <2>3. file' = file \/ \E u \in Loops : SaveOk(u)
    BY BeginStep, InnerStep DEF TrackInv, DeviceInv, Next, SessionStep, SaveFail, Crash, vars
  <2> QED
    BY <2>1, <2>2, <2>3
<1> QED
  BY <1>1, <1>2, <1>3, <1>4, DeviceInvAlways, PTL DEF Spec, TrackInv, TrackedUntilRemoved
=============================================================================
