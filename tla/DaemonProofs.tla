---------------------------- MODULE DaemonProofs ----------------------------
(***************************************************************************)
(* Proofs about Daemon, for any setup URLs, feeds, plans of publication    *)
(* and faults: its types, that every loop holds the claim of its feed, the *)
(* refinement of SessionContract, and that no update takes a feed back.    *)
(*                                                                         *)
(* A loop gets a feed only together with the claim of it, a claim is made  *)
(* only where there is none and only a restart gives it up; so ClaimsHeld  *)
(* is inductive over the types.  The types need that the revision a loop   *)
(* has in hand is one its URL has published (InHand).  Of each feed no     *)
(* loop has a revision in hand that is older than the one last reconciled  *)
(* (OrderInv), if a feed two URLs publish has one revision (OneOrder).     *)
(***************************************************************************)
EXTENDS Daemon, TLAPS

Holding == {"boot update", "event", "open", "poll update"}

\* What is published is in the plan, and what a loop has in hand was published.
InHand ==
    \A u \in Urls :
      /\ pub[u] \in 1..Len(Plan[u])
      /\ loop[u].pc \in Holding => loop[u].got \in 1..Len(Plan[u])

IInv == TypeOK /\ InHand

-----------------------------------------------------------------------------
(* Type correctness *)

LEMMA PlanType ==
    ASSUME NEW u \in Urls
    PROVE  Len(Plan[u]) \in Nat \ {0} /\ \A r \in 1..Len(Plan[u]) : FeedAt(u, r) \in Feeds
<1>1. Plan[u] \in Seq(Feeds) /\ Plan[u] # <<>>
  BY DaemonAssumption
<1> QED
  BY <1>1 DEF FeedAt

LEMMA TypeInit == Init => IInv
<1> SUFFICES ASSUME Init PROVE IInv
  OBVIOUS
<1>1. NewLoop \in Loop
  BY DEF NewLoop, Loop, PC, Revisions
<1>2. TypeOK
  BY <1>1, DaemonAssumption DEF Init, TypeOK, File, Revisions
<1>3. \A u \in Urls : pub[u] = 1 /\ loop[u].pc \notin Holding
  BY DEF Init, Holding, NewLoop
<1>4. ASSUME NEW u \in Urls PROVE 1 \in 1..Len(Plan[u])
  <2>1. Len(Plan[u]) \in Nat \ {0}
    BY PlanType
  <2> QED
    BY <2>1
<1>5. InHand
  BY <1>3, <1>4 DEF InHand
<1> QED
  BY <1>2, <1>5 DEF IInv

\* What a step of one loop has to keep of InHand and of the loops' type.
LoopKept(u) ==
    /\ loop' = [loop EXCEPT ![u] = loop'[u]]
    /\ loop'[u] \in Loop
    /\ loop'[u].pc \in Holding => loop'[u].got \in 1..Len(Plan[u])

LEMMA OneLoop ==
    ASSUME IInv, NEW u \in Urls, LoopKept(u), pub' = pub
    PROVE  loop' \in [Urls -> Loop] /\ InHand'
BY DEF IInv, TypeOK, InHand, LoopKept

LEMMA RecordedType ==
    ASSUME IInv, NEW u \in Urls, NEW r \in 1..Len(Plan[u])
    PROVE  Recorded(u, r) \in File
<1>1. FeedAt(u, r) \in Feeds /\ r \in Revisions
  BY PlanType DEF Revisions
<1> QED
  BY <1>1 DEF IInv, TypeOK, File, Recorded, Revisions

LEMMA UpdateType ==
    ASSUME IInv, NEW u \in Urls, loop[u].pc \in Holding, UpdateOk(u) \/ UpdateFails(u)
    PROVE  file' \in File /\ device' \in [Feeds -> Revisions \cup {Partial, CachePartial}]
<1> DEFINE r == loop[u].got
           f == FeedAt(u, r)
<1>1. r \in 1..Len(Plan[u]) /\ f \in Feeds /\ r \in Revisions
  BY PlanType DEF IInv, InHand, Revisions
<1>2. Recorded(u, r) \in File
  BY <1>1, RecordedType
<1>3. [Recorded(u, r) EXCEPT !.lastRev[f] = r] \in File
  BY <1>1, <1>2 DEF File
<1> QED
  BY <1>1, <1>2, <1>3 DEF IInv, TypeOK, UpdateOk, UpdateFails

LEMMA FaultType ==
    ASSUME IInv, NEW kind, Fault(kind)
    PROVE  faults' \in 0..MaxFaults
BY DaemonAssumption DEF IInv, TypeOK, Fault

\* The loop's record after each kind of assignment.
LEMMA GotoKept ==
    ASSUME IInv, NEW u \in Urls, NEW pc \in PC \ Holding, Goto(u, pc)
    PROVE  LoopKept(u) /\ loop'[u].feed = loop[u].feed
<1>1. loop \in [Urls -> Loop]
  BY DEF IInv, TypeOK
<1>2. loop'[u] = [loop[u] EXCEPT !.pc = pc] /\ loop' = [loop EXCEPT ![u] = loop'[u]]
  BY <1>1 DEF Goto
<1> QED
  BY <1>1, <1>2 DEF LoopKept, Loop

LEMMA RetryKept ==
    ASSUME IInv, NEW u \in Urls, NEW back \in {"boot", "stream", "poll"}, Retry(u, back)
    PROVE  LoopKept(u) /\ loop'[u].feed = loop[u].feed
<1>1. loop \in [Urls -> Loop]
  BY DEF IInv, TypeOK
<1>2. /\ loop'[u] = [loop[u] EXCEPT !.pc = "retry", !.back = back]
      /\ loop' = [loop EXCEPT ![u] = loop'[u]]
  BY <1>1 DEF Retry
<1>3. loop[u] \in Loop
  BY <1>1
<1>4. loop'[u].feed = loop[u].feed /\ loop'[u] \in Loop /\ loop'[u].pc = "retry"
  BY <1>2, <1>3 DEF Loop, PC
<1> QED
  BY <1>2, <1>4 DEF LoopKept, Holding

LEMMA SameKept ==
    ASSUME IInv, NEW u \in Urls, loop' = loop
    PROVE  LoopKept(u)
BY DEF IInv, TypeOK, InHand, LoopKept

LEMMA LoopTypes ==
    ASSUME IInv, NEW u \in Urls, LoopStep(u)
    PROVE  LoopKept(u)
<1>0. /\ loop \in [Urls -> Loop] /\ loop[u] \in Loop
      /\ pub[u] \in Nat /\ pub[u] \in 1..Len(Plan[u]) /\ Len(Plan[u]) \in Nat
      /\ \A v \in Urls : loop[v].pc \in Holding => loop[v].got \in 1..Len(Plan[v])
  BY PlanType DEF IInv, TypeOK, InHand
<1>1. CASE Resolve(u)
  <2> DEFINE f == file.urlMap[u]
  <2>1. CASE f # None /\ Claim(u, f) /\
             loop' = [loop EXCEPT ![u].feed = f,
                        ![u].pc = IF file.cache[f] # 0 THEN "stream" ELSE "boot"]
    <3>1. f \in Feeds
      BY <2>1 DEF IInv, TypeOK, File
    <3> QED
      BY <1>0, <2>1, <3>1 DEF LoopKept, Loop, PC, Holding
  <2>2. CASE Goto(u, "boot")
    BY <2>2, GotoKept DEF PC, Holding
  <2>3. CASE loop' = loop
    BY <2>3, SameKept
  <2> QED
    BY <1>1, <2>1, <2>2, <2>3 DEF Resolve, Return
<1>2. CASE Bootstrap(u)
  <2> DEFINE f == FeedAt(u, pub[u])
  <2>1. CASE loop' = [loop EXCEPT ![u].pc = "boot update", ![u].got = pub[u],
                        ![u].feed = IF loop[u].feed = None THEN f ELSE @]
    <3>1. f \in Feeds
      BY <1>0, PlanType
    <3>2. /\ loop'[u] = [loop[u] EXCEPT !.pc = "boot update", !.got = pub[u],
                                        !.feed = IF loop[u].feed = None THEN f ELSE @]
          /\ loop' = [loop EXCEPT ![u] = loop'[u]]
      BY <1>0, <2>1
    <3> QED
      BY <1>0, <3>1, <3>2 DEF LoopKept, Loop, PC, Holding, Revisions
  <2>2. CASE Retry(u, "boot")
    BY <2>2, RetryKept
  <2>3. CASE loop' = loop
    BY <2>3, SameKept
  <2> QED
    BY <1>2, <2>1, <2>2, <2>3 DEF Bootstrap, Return
<1>3. CASE BootUpdate(u)
  <2>1. CASE loop' = [loop EXCEPT ![u].pc = "stream", ![u].lastRev = loop[u].got]
    BY <1>0, <2>1 DEF LoopKept, Loop, PC, Holding
  <2>2. CASE loop' = loop
    BY <2>2, SameKept
  <2> QED
    BY <1>3, <2>1, <2>2 DEF BootUpdate
<1>4. CASE OpenStream(u)
  <2>1. CASE loop' = [loop EXCEPT ![u].pc = "event", ![u].got = pub[u]]
    BY <1>0, <2>1 DEF LoopKept, Loop, PC, Holding, Revisions
  <2>2. CASE Goto(u, "fallback") \/ Goto(u, "stopped")
    BY <2>2, GotoKept DEF PC, Holding
  <2>3. CASE Retry(u, "stream")
    BY <2>3, RetryKept
  <2> QED
    BY <1>4, <2>1, <2>2, <2>3 DEF OpenStream
<1>5. CASE Event(u)
  <2>1. loop[u].got \in 1..Len(Plan[u])
    BY <1>0, <1>5 DEF Event, At, Holding
  <2>2. CASE loop' = [loop EXCEPT ![u].pc = "open", ![u].lastRev = loop[u].got]
    BY <1>0, <2>1, <2>2 DEF LoopKept, Loop, PC, Holding, Revisions
  <2>3. CASE loop' = [loop EXCEPT ![u].pc = "retry", ![u].back = "stream",
                                  ![u].lastRev = loop[u].got]
    BY <1>0, <2>1, <2>3 DEF LoopKept, Loop, PC, Holding, Revisions
  <2> QED
    BY <1>5, <2>2, <2>3 DEF Event
<1>6. CASE Listen(u)
  <2>1. CASE loop[u].got < pub[u] /\
             loop' = [loop EXCEPT ![u].pc = "event", ![u].got = @ + 1]
    <3>1. loop[u].got \in Nat
      BY <1>0 DEF Loop, Revisions
    <3>2. loop[u].got + 1 \in 1..Len(Plan[u])
      BY <1>0, <2>1, <3>1
    <3>3. /\ loop'[u] = [loop[u] EXCEPT !.pc = "event", !.got = loop[u].got + 1]
          /\ loop' = [loop EXCEPT ![u] = loop'[u]]
      BY <1>0, <2>1
    <3>4. loop[u].got + 1 \in Nat
      BY <3>1
    <3> QED
      BY <1>0, <3>2, <3>3, <3>4 DEF LoopKept, Loop, PC, Revisions
  <2>2. CASE Retry(u, "stream")
    BY <2>2, RetryKept
  <2> QED
    BY <1>6, <2>1, <2>2 DEF Listen
<1>7. CASE Fallback(u)
  BY <1>7, GotoKept DEF Fallback, PC, Holding
<1>8. CASE Poll(u)
  <2>1. CASE loop' = [loop EXCEPT ![u].pc = "poll update", ![u].got = pub[u],
                                  ![u].lastRev = pub[u]]
    BY <1>0, <2>1 DEF LoopKept, Loop, PC, Holding, Revisions
  <2>2. CASE Retry(u, "poll")
    BY <2>2, RetryKept
  <2>3. CASE Goto(u, "stopped")
    BY <2>3, GotoKept DEF PC, Holding
  <2> QED
    BY <1>8, <2>1, <2>2, <2>3 DEF Poll
<1>9. CASE PollUpdate(u)
  BY <1>9, GotoKept DEF PollUpdate, PC, Holding
<1>10. CASE RetryAfterCache(u)
  <2>1. loop[u].back \in PC \ Holding
    BY <1>0 DEF Loop, PC, Holding
  <2> QED
    BY <1>10, <2>1, GotoKept DEF RetryAfterCache
<1> QED
  BY <1>1, <1>2, <1>3, <1>4, <1>5, <1>6, <1>7, <1>8, <1>9, <1>10 DEF LoopStep

\* The other variables after a step of a loop.
LEMMA RestTypes ==
    ASSUME IInv, NEW u \in Urls, LoopStep(u)
    PROVE  /\ file' \in File /\ device' \in [Feeds -> Revisions \cup {Partial, CachePartial}]
           /\ claimed' \in [Feeds -> Urls \cup {None}]
           /\ running' \in BOOLEAN /\ faults' \in 0..MaxFaults
<1>0. /\ file \in File /\ device \in [Feeds -> Revisions \cup {Partial, CachePartial}]
      /\ claimed \in [Feeds -> Urls \cup {None}]
      /\ running \in BOOLEAN /\ faults \in 0..MaxFaults
  BY DEF IInv, TypeOK
<1>1. faults' = faults \/ \E kind \in AllFaults : Fault(kind)
  BY <1>0 DEF LoopStep, Resolve, Bootstrap, BootUpdate, OpenStream, Event, Listen,
     Fallback, Poll, PollUpdate, RetryAfterCache, UpdateFails, AllFaults
<1>2. faults' \in 0..MaxFaults
  BY <1>0, <1>1, FaultType
<1>3. running' \in BOOLEAN
  BY <1>0 DEF LoopStep, Resolve, Bootstrap, BootUpdate, OpenStream, Event, Listen,
     Fallback, Poll, PollUpdate, RetryAfterCache, Return
<1>4. claimed' = claimed \/ \E f \in Feeds : Claim(u, f)
  <2>1. file.urlMap[u] \in Feeds \cup {None} /\ FeedAt(u, pub[u]) \in Feeds
    BY <1>0, PlanType DEF File, IInv, InHand
  <2> QED
    BY <2>1 DEF LoopStep, Resolve, Bootstrap, BootUpdate, OpenStream, Event, Listen,
       Fallback, Poll, PollUpdate, RetryAfterCache, Return
<1>5. claimed' \in [Feeds -> Urls \cup {None}]
  BY <1>0, <1>4 DEF Claim
<1>6. file' \in File /\ device' \in [Feeds -> Revisions \cup {Partial, CachePartial}]
  <2>1. CASE file' = file /\ device' = device
    BY <1>0, <2>1
  <2>2. CASE loop[u].pc \in Holding /\ (UpdateOk(u) \/ UpdateFails(u))
    BY <2>2, UpdateType
  <2>3. CASE RetryAfterCache(u)
    <3>1. file.cache \in [Feeds -> Revisions]
      BY <1>0 DEF File
    <3>2. loop[u].feed \in Feeds \cup {None}
      BY DEF IInv, TypeOK, Loop
    <3> QED
      BY <1>0, <2>3, <3>1, <3>2 DEF RetryAfterCache
  <2> QED
    BY <2>1, <2>2, <2>3 DEF LoopStep, Resolve, Bootstrap, BootUpdate, OpenStream,
       Event, Listen, Fallback, Poll, PollUpdate, Return, At, Holding
<1> QED
  BY <1>2, <1>3, <1>5, <1>6

LEMMA StepType ==
    ASSUME IInv, [Next]_vars
    PROVE  IInv'
<1>0. /\ \A u \in Urls : loop[u] \in Loop /\ pub[u] \in Nat /\ Len(Plan[u]) \in Nat
      /\ MaxFaults \in Nat
  BY PlanType, DaemonAssumption DEF IInv, TypeOK
<1>1. CASE UNCHANGED vars
  BY <1>1 DEF IInv, TypeOK, InHand, vars
<1>2. CASE Crash
  <2>1. NewLoop \in Loop /\ NewLoop.pc \notin Holding
    BY DEF NewLoop, Loop, PC, Revisions, Holding
  <2> QED
    BY <1>2, <2>1, FaultType DEF Crash, IInv, TypeOK, InHand
<1>3. ASSUME NEW u \in Urls, Publish(u)
      PROVE  IInv'
  <2>1. pub' \in [Urls -> Nat] /\ \A v \in Urls : pub'[v] \in 1..Len(Plan[v])
    BY <1>0, <1>3 DEF Publish, IInv, TypeOK, InHand
  <2> QED
    BY <1>3, <2>1 DEF Publish, IInv, TypeOK, InHand
<1>4. ASSUME NEW u \in Urls, LoopStep(u)
      PROVE  IInv'
  <2>1. LoopKept(u)
    BY <1>4, LoopTypes
  <2>2. pub' = pub
    BY <1>4 DEF LoopStep, Resolve, Bootstrap, BootUpdate, OpenStream, Event, Listen,
                Fallback, Poll, PollUpdate, RetryAfterCache, Return
  <2>3. loop' \in [Urls -> Loop] /\ InHand'
    BY <2>1, <2>2, OneLoop
  <2>4. /\ file' \in File /\ device' \in [Feeds -> Revisions \cup {Partial, CachePartial}]
        /\ claimed' \in [Feeds -> Urls \cup {None}]
        /\ running' \in BOOLEAN /\ faults' \in 0..MaxFaults
    BY <1>4, RestTypes
  <2> QED
    BY <2>2, <2>3, <2>4 DEF IInv, TypeOK
<1> QED
  BY <1>1, <1>2, <1>3, <1>4 DEF Next

\* Every state has the types Daemon declares, and a loop never handles a revision
\* its URL has not published (internal/daemon/daemon.go, runFeed).
THEOREM TypeCorrect == Spec => []TypeOK
<1>1. IInv => TypeOK
  BY DEF IInv
<1> QED
  BY TypeInit, StepType, <1>1, PTL DEF Spec

-----------------------------------------------------------------------------
(* Claims *)

\* A step after which every claim held before is still held, and every feed a loop
\* has is one it had before or claims now.
LEMMA ClaimsStep ==
    ASSUME IInv, ClaimsHeld, [Next]_vars
    PROVE  ClaimsHeld'
<1>0. /\ loop \in [Urls -> Loop] /\ claimed \in [Feeds -> Urls \cup {None}]
      /\ None \notin Urls /\ None \notin Feeds
      /\ \A u \in Urls : /\ loop[u].feed \in Feeds \cup {None}
                         /\ FeedAt(u, pub[u]) \in Feeds
                         /\ file.urlMap[u] \in Feeds \cup {None}
  BY DaemonAssumption, PlanType DEF IInv, TypeOK, InHand, Loop, File
<1>1. CASE Crash
  BY <1>1 DEF Crash, ClaimsHeld, NewLoop
<1>2. ASSUME NEW u \in Urls, NEW f \in Feeds, Claim(u, f),
             \A v \in Urls : loop'[v].feed = IF v = u THEN f ELSE loop[v].feed
      PROVE  ClaimsHeld'
  <2>1. claimed[f] = None /\ claimed' = [claimed EXCEPT ![f] = u]
    BY <1>2 DEF Claim
  <2>2. ASSUME NEW v \in Urls, loop'[v].feed # None
        PROVE  claimed'[loop'[v].feed] = v
    <3>1. CASE v = u
      BY <1>0, <1>2, <2>1, <3>1
    <3>2. CASE v # u
      <4>1. claimed[loop[v].feed] = v /\ loop'[v].feed = loop[v].feed /\ loop[v].feed # None
        BY <1>2, <2>2, <3>2 DEF ClaimsHeld
      <4> QED
        BY <1>0, <2>1, <4>1
    <3> QED
      BY <3>1, <3>2
  <2> QED
    BY <2>2 DEF ClaimsHeld
<1>3. ASSUME claimed' = claimed, \A v \in Urls : loop'[v].feed = loop[v].feed
      PROVE  ClaimsHeld'
  BY <1>3 DEF ClaimsHeld
<1>4. ASSUME NEW u \in Urls, Resolve(u)
      PROVE  ClaimsHeld'
  <2> DEFINE f == file.urlMap[u]
  <2>1. CASE f # None /\ Claim(u, f) /\
             loop' = [loop EXCEPT ![u].feed = f,
                        ![u].pc = IF file.cache[f] # 0 THEN "stream" ELSE "boot"]
    <3>1. \A v \in Urls : loop'[v].feed = IF v = u THEN f ELSE loop[v].feed
      BY <1>0, <2>1 DEF Loop
    <3>2. f \in Feeds
      BY <1>0, <2>1
    <3> QED
      BY <1>2, <2>1, <3>1, <3>2
  <2>2. CASE (Goto(u, "boot") \/ loop' = loop) /\ claimed' = claimed
    <3>1. \A v \in Urls : loop'[v].feed = loop[v].feed
      BY <1>0, <2>2 DEF Goto, Loop
    <3> QED
      BY <1>3, <2>2, <3>1
  <2> QED
    BY <1>4, <2>1, <2>2 DEF Resolve, Return
<1>5. ASSUME NEW u \in Urls, Bootstrap(u)
      PROVE  ClaimsHeld'
  <2> DEFINE f == FeedAt(u, pub[u])
  <2>1. CASE /\ loop[u].feed = None /\ Claim(u, f)
             /\ loop' = [loop EXCEPT ![u].pc = "boot update", ![u].got = pub[u],
                           ![u].feed = IF loop[u].feed = None THEN f ELSE @]
    <3>0. loop'[u] = [loop[u] EXCEPT !.pc = "boot update", !.got = pub[u],
                                     !.feed = IF loop[u].feed = None THEN f ELSE @]
      BY <1>0, <2>1
    <3>5. loop[u] \in Loop /\ loop[u].feed = None
      BY <1>0, <2>1
    <3>3. loop'[u].feed = f
      BY <3>0, <3>5 DEF Loop
    <3>4. LoopKept(u)
      BY <1>5, LoopTypes DEF LoopStep
    <3>1. \A v \in Urls : loop'[v].feed = IF v = u THEN f ELSE loop[v].feed
      BY <1>0, <3>3, <3>4 DEF LoopKept
    <3>2. f \in Feeds
      BY <1>0
    <3> QED
      BY <1>2, <2>1, <3>1, <3>2
  <2>2. CASE /\ loop[u].feed # None /\ claimed' = claimed
             /\ loop' = [loop EXCEPT ![u].pc = "boot update", ![u].got = pub[u],
                           ![u].feed = IF loop[u].feed = None THEN f ELSE @]
    <3>1. loop'[u] = [loop[u] EXCEPT !.pc = "boot update", !.got = pub[u],
                                     !.feed = IF loop[u].feed = None THEN f ELSE @]
      BY <1>0, <2>2
    <3>2. loop[u] \in Loop /\ loop[u].feed # None
      BY <1>0, <2>2
    <3>3. loop'[u].feed = loop[u].feed
      BY <3>1, <3>2 DEF Loop
    <3>4. LoopKept(u)
      BY <1>5, LoopTypes DEF LoopStep
    <3>5. \A v \in Urls : loop'[v].feed = loop[v].feed
      BY <1>0, <3>3, <3>4 DEF LoopKept
    <3> QED
      BY <1>3, <2>2, <3>5
  <2>3. CASE (Retry(u, "boot") \/ loop' = loop) /\ claimed' = claimed
    <3>1. loop'[u].feed = loop[u].feed
      BY <2>3, RetryKept
    <3>2. LoopKept(u)
      BY <1>5, LoopTypes DEF LoopStep
    <3>3. \A v \in Urls : loop'[v].feed = loop[v].feed
      BY <1>0, <3>1, <3>2 DEF LoopKept
    <3> QED
      BY <1>3, <2>3, <3>3
  <2> QED
    BY <1>5, <2>1, <2>2, <2>3 DEF Bootstrap, Return
<1>6. ASSUME NEW u \in Urls,
             \/ BootUpdate(u) \/ OpenStream(u) \/ Event(u) \/ Listen(u) \/ Fallback(u)
             \/ Poll(u) \/ PollUpdate(u) \/ RetryAfterCache(u)
      PROVE  ClaimsHeld'
  <2>1. claimed' = claimed
    BY <1>6 DEF BootUpdate, OpenStream, Event, Listen, Fallback, Poll, PollUpdate,
                RetryAfterCache
  <2>2. loop'[u].feed = loop[u].feed
    <3>0. LoopKept(u) /\ loop[u] \in Loop
      BY <1>0, <1>6, LoopTypes DEF LoopStep
    <3>1. CASE BootUpdate(u)
      BY <1>0, <3>0, <3>1 DEF BootUpdate, Loop
    <3>2. CASE OpenStream(u)
      BY <1>0, <3>0, <3>2 DEF OpenStream, Goto, Retry, Loop
    <3>3. CASE Event(u)
      BY <1>0, <3>0, <3>3 DEF Event, Loop
    <3>4. CASE Listen(u)
      BY <1>0, <3>0, <3>4 DEF Listen, Retry, Loop
    <3>5. CASE Fallback(u) \/ PollUpdate(u) \/ RetryAfterCache(u)
      <4>1. PICK pc \in PC \ Holding : Goto(u, pc)
        BY <3>0, <3>5 DEF Fallback, PollUpdate, RetryAfterCache, PC, Holding, Loop
      <4> QED
        BY <4>1, GotoKept
    <3>6. CASE Poll(u)
      <4>1. CASE loop' = [loop EXCEPT ![u].pc = "poll update", ![u].got = pub[u],
                                      ![u].lastRev = pub[u]]
        <5>1. loop'[u] = [loop[u] EXCEPT !.pc = "poll update", !.got = pub[u],
                                         !.lastRev = pub[u]]
          BY <1>0, <4>1
        <5> QED
          BY <3>0, <5>1 DEF Loop
      <4>2. CASE Retry(u, "poll")
        BY <4>2, RetryKept
      <4>3. CASE Goto(u, "stopped")
        BY <4>3, GotoKept DEF PC, Holding
      <4> QED
        BY <3>6, <4>1, <4>2, <4>3 DEF Poll
    <3> QED
      BY <1>6, <3>1, <3>2, <3>3, <3>4, <3>5, <3>6
  <2>3. LoopKept(u)
    BY <1>6, LoopTypes DEF LoopStep
  <2>4. \A v \in Urls : loop'[v].feed = loop[v].feed
    BY <1>0, <2>2, <2>3 DEF LoopKept
  <2> QED
    BY <1>3, <2>1, <2>4
<1>7. ASSUME NEW u \in Urls, Publish(u)
      PROVE  ClaimsHeld'
  BY <1>3, <1>7 DEF Publish
<1>8. CASE UNCHANGED vars
  BY <1>3, <1>8 DEF vars
<1> QED
  BY <1>1, <1>4, <1>5, <1>6, <1>7, <1>8 DEF Next, LoopStep

\* No two loops ever resolve their URLs to the same feed, whatever fails, crashes or
\* is published (claimFeedID; draft section 4.1).
THEOREM ClaimsHeldAlways == Spec => []ClaimsHeld
<1>1. Init => ClaimsHeld
  BY DEF Init, ClaimsHeld, NewLoop
<1> QED
  BY TypeInit, StepType, <1>1, ClaimsStep, PTL DEF Spec

-----------------------------------------------------------------------------
(* The order of revisions *)

\* A feed that two URLs publish has one revision; otherwise nothing says which of
\* their revisions is the older one.
OneOrder ==
    \A u, v \in Urls : \A r \in 1..Len(Plan[u]), s \in 1..Len(Plan[v]) :
        u # v /\ FeedAt(u, r) = FeedAt(v, s) => r = s

\* The URL v has published the revision f was last reconciled at, and what its loop
\* has in hand is no older.
ReconciledFrom(v, f) ==
    LET r == file.lastRev[f]
    IN  /\ r \in 1..Len(Plan[v]) /\ FeedAt(v, r) = f
        /\ r <= pub[v]
        /\ loop[v].pc \in Holding => r <= loop[v].got

\* A loop has nothing in hand that is not published yet; neither the cached document
\* nor what the backend holds is older than the revision last reconciled.
OrderInv ==
    /\ \A u \in Urls : loop[u].pc \in Holding => loop[u].got <= pub[u]
    /\ \A f \in Feeds : file.lastRev[f] # 0 => \E v \in Urls : ReconciledFrom(v, f)
    /\ \A f \in Feeds : file.cache[f] # 0 => file.cache[f] >= file.lastRev[f]
    /\ NeverOlder

\* What an update brings is no older than what was reconciled before it.
LEMMA UpdateNewer ==
    ASSUME OneOrder, IInv, OrderInv, NEW u \in Urls, loop[u].pc \in Holding
    PROVE  file.lastRev[FeedAt(u, loop[u].got)] <= loop[u].got
<1> DEFINE r == loop[u].got
           f == FeedAt(u, r)
<1>1. r \in 1..Len(Plan[u]) /\ Len(Plan[u]) \in Nat /\ f \in Feeds
  BY PlanType DEF IInv, InHand
<1>2. CASE file.lastRev[f] = 0
  BY <1>1, <1>2
<1>3. CASE file.lastRev[f] # 0
  <2>1. PICK v \in Urls : ReconciledFrom(v, f)
    BY <1>1, <1>3 DEF OrderInv
  <2>2. CASE v = u
    BY <2>1, <2>2 DEF ReconciledFrom
  <2>3. CASE v # u
    <3>1. file.lastRev[f] = r
      BY <1>1, <2>1, <2>3 DEF OneOrder, ReconciledFrom
    <3> QED
      BY <1>1, <3>1
  <2> QED
    BY <2>2, <2>3
<1> QED
  BY <1>2, <1>3

LEMMA NothingInHand ==
    ASSUME IInv, NEW u \in Urls,
           \/ \E pc \in PC \ Holding : Goto(u, pc)
           \/ \E back : Retry(u, back)
    PROVE  loop'[u].pc \notin Holding
<1>1. loop \in [Urls -> Loop] /\ loop[u] \in Loop
  BY DEF IInv, TypeOK
<1>2. ASSUME NEW pc \in PC \ Holding, Goto(u, pc)
      PROVE  loop'[u].pc \notin Holding
  <2>1. loop'[u] = [loop[u] EXCEPT !.pc = pc]
    BY <1>1, <1>2 DEF Goto
  <2> QED
    BY <1>1, <1>2, <2>1 DEF Loop
<1>3. ASSUME NEW back, Retry(u, back)
      PROVE  loop'[u].pc \notin Holding
  <2>1. loop'[u] = [loop[u] EXCEPT !.pc = "retry", !.back = back]
    BY <1>1, <1>3 DEF Retry
  <2> QED
    BY <1>1, <2>1 DEF Loop, Holding
<1> QED
  BY <1>2, <1>3

\* What a loop takes in hand is the version published now or the one after the last.
LEMMA InHandNext ==
    ASSUME IInv, NEW u \in Urls, LoopStep(u), loop'[u].pc \in Holding
    PROVE  \/ loop'[u].got = pub[u]
           \/ /\ loop[u].pc \in Holding
              /\ \/ loop'[u].got = loop[u].got
                 \/ loop'[u].got = loop[u].got + 1 /\ loop[u].got < pub[u]
<1>0. /\ loop \in [Urls -> Loop] /\ loop[u] \in Loop
      /\ loop[u].back \in PC \ Holding /\ loop[u].got \in Nat
  BY DEF IInv, TypeOK, Loop, PC, Holding, Revisions
<1> DEFINE Goal == \/ loop'[u].got = pub[u]
                   \/ /\ loop[u].pc \in Holding
                      /\ \/ loop'[u].got = loop[u].got
                         \/ loop'[u].got = loop[u].got + 1 /\ loop[u].got < pub[u]
<1>1. CASE loop' = loop
  BY <1>1
<1>2. CASE Resolve(u)
  <2>1. CASE loop' = [loop EXCEPT ![u].feed = file.urlMap[u],
                        ![u].pc = IF file.cache[file.urlMap[u]] # 0 THEN "stream" ELSE "boot"]
    BY <1>0, <2>1 DEF Loop, Holding
  <2> QED
    BY <1>1, <1>2, <2>1, NothingInHand DEF Resolve, Return, PC, Holding
<1>3. CASE Bootstrap(u)
  <2>1. CASE loop' = [loop EXCEPT ![u].pc = "boot update", ![u].got = pub[u],
                        ![u].feed = IF loop[u].feed = None THEN FeedAt(u, pub[u]) ELSE @]
    <3>1. loop'[u] = [loop[u] EXCEPT !.pc = "boot update", !.got = pub[u],
                        !.feed = IF loop[u].feed = None THEN FeedAt(u, pub[u]) ELSE @]
      BY <1>0, <2>1
    <3> QED
      BY <1>0, <3>1 DEF Loop
  <2> QED
    BY <1>1, <1>3, <2>1, NothingInHand DEF Bootstrap, Return
<1>4. CASE BootUpdate(u)
  <2>1. CASE loop' = [loop EXCEPT ![u].pc = "stream", ![u].lastRev = loop[u].got]
    BY <1>0, <2>1 DEF Loop, Holding
  <2> QED
    BY <1>1, <1>4, <2>1 DEF BootUpdate
<1>5. CASE OpenStream(u)
  <2>1. CASE loop' = [loop EXCEPT ![u].pc = "event", ![u].got = pub[u]]
    BY <1>0, <2>1 DEF Loop
  <2> QED
    BY <1>5, <2>1, NothingInHand DEF OpenStream, PC, Holding
<1>6. CASE Event(u)
  <2>1. loop[u].pc \in Holding
    BY <1>6 DEF Event, At, Holding
  <2>2. loop'[u].got = loop[u].got
    BY <1>0, <1>6 DEF Event, Loop
  <2> QED
    BY <2>1, <2>2
<1>7. CASE Listen(u)
  <2>1. loop[u].pc \in Holding
    BY <1>7 DEF Listen, At, Holding
  <2>2. CASE loop[u].got < pub[u] /\
             loop' = [loop EXCEPT ![u].pc = "event", ![u].got = @ + 1]
    <3>1. loop'[u] = [loop[u] EXCEPT !.pc = "event", !.got = loop[u].got + 1]
      BY <1>0, <2>2
    <3>2. loop'[u].got = loop[u].got + 1
      BY <1>0, <3>1 DEF Loop
    <3> QED
      BY <2>1, <2>2, <3>2
  <2> QED
    BY <1>7, <2>2, NothingInHand DEF Listen
<1>8. CASE Fallback(u) \/ PollUpdate(u) \/ RetryAfterCache(u)
  <2>1. \E pc \in PC \ Holding : Goto(u, pc)
    BY <1>0, <1>8 DEF Fallback, PollUpdate, RetryAfterCache, PC, Holding
  <2> QED
    BY <2>1, NothingInHand
<1>9. CASE Poll(u)
  <2>1. CASE loop' = [loop EXCEPT ![u].pc = "poll update", ![u].got = pub[u],
                                  ![u].lastRev = pub[u]]
    <3>1. loop'[u] = [loop[u] EXCEPT !.pc = "poll update", !.got = pub[u],
                                     !.lastRev = pub[u]]
      BY <1>0, <2>1
    <3> QED
      BY <1>0, <3>1 DEF Loop
  <2> QED
    BY <1>9, <2>1, NothingInHand DEF Poll, PC, Holding
<1> QED
  BY <1>2, <1>3, <1>4, <1>5, <1>6, <1>7, <1>8, <1>9 DEF LoopStep

\* A loop's step brings it no older revision.
LEMMA InHandNewer ==
    ASSUME IInv, OrderInv, NEW u \in Urls, LoopStep(u), loop'[u].pc \in Holding
    PROVE  /\ loop'[u].got <= pub[u]
           /\ \A r \in Nat :
                r <= pub[u] /\ (loop[u].pc \in Holding => r <= loop[u].got)
                  => r <= loop'[u].got
<1>1. pub[u] \in Nat /\ loop[u].got \in Nat
  BY DEF IInv, TypeOK, Loop, Revisions
<1>2. loop[u].pc \in Holding => loop[u].got <= pub[u]
  BY DEF OrderInv
<1> QED
  BY <1>1, <1>2, InHandNext

\* A feed that is not reconciled in a step is as it was.
LEMMA ReconciledKept ==
    ASSUME IInv, OrderInv, NEW u \in Urls, LoopStep(u), pub' = pub,
           NEW f \in Feeds, file'.lastRev[f] = file.lastRev[f], file'.lastRev[f] # 0
    PROVE  \E v \in Urls : ReconciledFrom(v, f)'
<1>1. PICK v \in Urls : ReconciledFrom(v, f)
  BY DEF OrderInv
<1>2. file.lastRev[f] \in Nat
  BY DEF IInv, TypeOK, File, Revisions
<1>3. CASE v = u
  BY <1>1, <1>2, <1>3, InHandNewer DEF ReconciledFrom, FeedAt
<1>4. CASE v # u
  <2>1. loop'[v] = loop[v]
    BY <1>4, LoopTypes DEF LoopKept, IInv, TypeOK
  <2> QED
    BY <1>1, <2>1 DEF ReconciledFrom, FeedAt
<1> QED
  BY <1>3, <1>4

LEMMA OrderUpdate ==
    ASSUME OneOrder, IInv, OrderInv, NEW u \in Urls, LoopStep(u), pub' = pub,
           loop[u].pc \in Holding, loop'[u].pc \in Holding => loop'[u].got = loop[u].got,
           UpdateOk(u) \/ UpdateFails(u)
    PROVE  OrderInv'
<1> DEFINE r == loop[u].got
           f == FeedAt(u, r)
<1>0. /\ r \in 1..Len(Plan[u]) /\ Len(Plan[u]) \in Nat /\ f \in Feeds /\ r \in Nat \ {0}
      /\ file \in File /\ device \in [Feeds -> Revisions \cup {Partial, CachePartial}]
      /\ \A g \in Feeds : file.lastRev[g] \in Nat /\ file.cache[g] \in Nat
  BY PlanType DEF IInv, TypeOK, InHand, File, Revisions
<1>1. file.lastRev[f] <= r
  BY UpdateNewer
<1>2. r <= pub[u]
  BY DEF OrderInv
<1>3. /\ \A g \in Feeds \ {f} : /\ file'.lastRev[g] = file.lastRev[g]
                                /\ file'.cache[g] = file.cache[g]
                                /\ device'[g] = device[g]
      /\ file'.cache[f] \in {0, r}
      /\ \/ /\ file'.lastRev[f] = r
            /\ (file.lastRev[f] = r /\ device'[f] = device[f]) \/ device'[f] = r
         \/ file'.lastRev[f] = file.lastRev[f] /\ device'[f] = Partial
  <2> DEFINE rec == Recorded(u, r)
  <2>1. /\ rec.lastRev = file.lastRev /\ rec.lastRev \in [Feeds -> Nat] /\ rec \in File
        /\ rec.cache = [file.cache EXCEPT ![f] = IF r \in Encrypted THEN r ELSE 0]
    BY <1>0, RecordedType DEF Recorded, File, Revisions
  <2>2. \A g \in Feeds : rec.cache[g] = IF g = f THEN IF r \in Encrypted THEN r ELSE 0
                                                 ELSE file.cache[g]
    BY <1>0, <2>1 DEF File
  <2> HIDE DEF rec
  <2>3. CASE UpdateOk(u)
    <3>1. file' = [rec EXCEPT !.lastRev[f] = r]
      BY <2>3 DEF UpdateOk, rec
    <3>2. file'.cache = rec.cache /\ file'.lastRev = [rec.lastRev EXCEPT ![f] = r]
      BY <2>1, <3>1 DEF File
    <3>3. \A g \in Feeds : file'.lastRev[g] = IF g = f THEN r ELSE file.lastRev[g]
      BY <2>1, <3>2
    <3>4. IF file.lastRev[f] = r THEN device' = device ELSE device' = [device EXCEPT ![f] = r]
      BY <2>3 DEF UpdateOk
    <3> QED
      BY <1>0, <2>2, <3>2, <3>3, <3>4
  <2>4. CASE UpdateFails(u)
    <3>1. file' = rec /\ device' = [device EXCEPT ![f] = Partial]
      BY <2>4 DEF UpdateFails, rec
    <3> QED
      BY <1>0, <2>1, <2>2, <3>1
  <2> QED
    BY <2>3, <2>4
<1>4. Partial \notin Revisions
  BY DaemonAssumption DEF Revisions
<1>5. \A v \in Urls : loop'[v].pc \in Holding => loop'[v].got <= pub'[v]
  <2> SUFFICES ASSUME NEW v \in Urls, loop'[v].pc \in Holding PROVE loop'[v].got <= pub[v]
    OBVIOUS
  <2>1. CASE v = u
    BY <2>1, InHandNewer
  <2>2. CASE v # u
    BY <2>2, LoopTypes DEF LoopKept, IInv, TypeOK, OrderInv
  <2> QED
    BY <2>1, <2>2
<1>6. ASSUME NEW g \in Feeds, file'.lastRev[g] # 0
      PROVE  \E v \in Urls : ReconciledFrom(v, g)'
  <2>1. CASE file'.lastRev[g] = file.lastRev[g]
    BY <1>6, <2>1, ReconciledKept
  <2>2. CASE file'.lastRev[g] # file.lastRev[g]
    <3>1. g = f /\ file'.lastRev[g] = r
      BY <1>3, <2>2
    <3>2. ReconciledFrom(u, g)'
      BY <1>0, <1>2, <3>1 DEF ReconciledFrom, FeedAt
    <3> QED
      BY <3>2
  <2> QED
    BY <2>1, <2>2
<1>7. ASSUME NEW g \in Feeds
      PROVE  /\ file'.cache[g] # 0 => file'.cache[g] >= file'.lastRev[g]
             /\ device'[g] \in Revisions => device'[g] >= file'.lastRev[g]
  <2>1. CASE g = f
    <3>1. device[f] \in Revisions => device[f] >= file.lastRev[f]
      BY <1>0 DEF OrderInv, NeverOlder
    <3> QED
      BY <1>0, <1>1, <1>3, <1>4, <2>1, <3>1
  <2>2. CASE g # f
    BY <1>3, <2>2 DEF OrderInv, NeverOlder
  <2> QED
    BY <2>1, <2>2
<1> QED
  BY <1>5, <1>6, <1>7 DEF OrderInv, NeverOlder

\* A step of a loop that leaves the state file alone, and of the device sets at most
\* the feed whose cached document is reconciled.
LEMMA OrderQuiet ==
    ASSUME IInv, OrderInv, NEW u \in Urls, LoopStep(u), pub' = pub, file' = file,
           \A g \in Feeds : \/ device'[g] \in {device[g], CachePartial}
                            \/ file.cache[g] # 0 /\ device'[g] = file.cache[g]
    PROVE  OrderInv'
<1>1. \A v \in Urls : loop'[v].pc \in Holding => loop'[v].got <= pub'[v]
  <2> SUFFICES ASSUME NEW v \in Urls, loop'[v].pc \in Holding PROVE loop'[v].got <= pub[v]
    OBVIOUS
  <2>1. CASE v = u
    BY <2>1, InHandNewer
  <2>2. CASE v # u
    BY <2>2, LoopTypes DEF LoopKept, IInv, TypeOK, OrderInv
  <2> QED
    BY <2>1, <2>2
<1>2. \A g \in Feeds : file'.lastRev[g] # 0 => \E v \in Urls : ReconciledFrom(v, g)'
  BY ReconciledKept
<1>3. CachePartial \notin Revisions
  BY DaemonAssumption DEF Revisions
<1>4. NeverOlder'
  BY <1>3 DEF OrderInv, NeverOlder
<1> QED
  BY <1>1, <1>2, <1>4 DEF OrderInv

LEMMA OrderStep ==
    ASSUME OneOrder, IInv, OrderInv, [Next]_vars
    PROVE  OrderInv'
<1>1. CASE UNCHANGED vars
  BY <1>1 DEF OrderInv, NeverOlder, ReconciledFrom, FeedAt, vars
<1>2. CASE Crash
  <2>1. file' = file /\ device' = device /\ pub' = pub
    BY <1>2 DEF Crash
  <2>2. \A v \in Urls : loop'[v].pc \notin Holding
    BY <1>2 DEF Crash, NewLoop, Holding
  <2>3. \A g \in Feeds, v \in Urls : ReconciledFrom(v, g) => ReconciledFrom(v, g)'
    BY <2>1, <2>2 DEF ReconciledFrom, FeedAt
  <2> QED
    BY <2>1, <2>2, <2>3 DEF OrderInv, NeverOlder
<1>3. ASSUME NEW u \in Urls, Publish(u)
      PROVE  OrderInv'
  <2>1. file' = file /\ device' = device /\ loop' = loop
    BY <1>3 DEF Publish
  <2>2. \A v \in Urls : pub[v] \in Nat /\ pub'[v] \in Nat /\ pub[v] <= pub'[v]
    BY <1>3 DEF Publish, IInv, TypeOK
  <2>3. \A v \in Urls : loop[v].got \in Nat
    BY DEF IInv, TypeOK, Loop, Revisions
  <2>4. \A g \in Feeds, v \in Urls : ReconciledFrom(v, g) => ReconciledFrom(v, g)'
    <3> SUFFICES ASSUME NEW g \in Feeds, NEW v \in Urls, ReconciledFrom(v, g)
                 PROVE  ReconciledFrom(v, g)'
      OBVIOUS
    <3>1. file.lastRev[g] \in Nat
      BY DEF IInv, TypeOK, File, Revisions
    <3> QED
      BY <2>1, <2>2, <3>1 DEF ReconciledFrom, FeedAt
  <2>5. \A v \in Urls : loop[v].pc \in Holding => loop[v].got <= pub'[v]
    BY <2>2, <2>3 DEF OrderInv
  <2> QED
    BY <2>1, <2>4, <2>5 DEF OrderInv, NeverOlder
<1>4. ASSUME NEW u \in Urls, LoopStep(u)
      PROVE  OrderInv'
  <2>0. /\ pub' = pub /\ loop \in [Urls -> Loop] /\ loop[u] \in Loop
        /\ device \in [Feeds -> Revisions \cup {Partial, CachePartial}]
    BY <1>4 DEF LoopStep, Resolve, Bootstrap, BootUpdate, OpenStream, Event, Listen,
                Fallback, Poll, PollUpdate, RetryAfterCache, Return, IInv, TypeOK
  <2>1. ASSUME UpdateOk(u) \/ UpdateFails(u), BootUpdate(u) \/ Event(u) \/ PollUpdate(u)
        PROVE  OrderInv'
    <3>1. loop[u].pc \in Holding
      BY <2>1 DEF BootUpdate, Event, PollUpdate, At, Holding
    <3>2. loop'[u].got = loop[u].got
      <4>1. CASE BootUpdate(u)
        BY <2>0, <4>1 DEF BootUpdate, Loop
      <4>2. CASE Event(u)
        BY <2>0, <4>2 DEF Event, Loop
      <4>3. CASE PollUpdate(u)
        BY <2>0, <4>3 DEF PollUpdate, Goto, Loop
      <4> QED
        BY <2>1, <4>1, <4>2, <4>3
    <3> QED
      BY <1>4, <2>0, <2>1, <3>1, <3>2, OrderUpdate
  <2>2. CASE file' = file /\ device' = device
    BY <1>4, <2>0, <2>2, OrderQuiet
  <2>3. CASE RetryAfterCache(u)
    <3>1. file' = file
      BY <2>3 DEF RetryAfterCache
    <3>2. \A g \in Feeds : \/ device'[g] \in {device[g], CachePartial}
                           \/ file.cache[g] # 0 /\ device'[g] = file.cache[g]
      BY <2>0, <2>3 DEF RetryAfterCache
    <3> QED
      BY <1>4, <2>0, <3>1, <3>2, OrderQuiet
  <2> QED
    BY <1>4, <2>1, <2>2, <2>3 DEF LoopStep, Resolve, Bootstrap, BootUpdate, OpenStream,
       Event, Listen, Fallback, Poll, PollUpdate, Return
<1> QED
  BY <1>1, <1>2, <1>3, <1>4 DEF Next

\* What the backend holds is never older than the revision the state file says was
\* reconciled, whatever fails and restarts, if no feed comes in different revisions
\* from two URLs (maybeReconcileFromCache applies what was received last).
THEOREM NeverOlderHolds ==
    ASSUME OneOrder
    PROVE  Spec => []NeverOlder
<1>1. Init => OrderInv
  <2> SUFFICES ASSUME Init PROVE OrderInv
    OBVIOUS
  <2>1. /\ \A f \in Feeds : file.lastRev[f] = 0 /\ file.cache[f] = 0 /\ device[f] = 0
        /\ \A u \in Urls : loop[u].pc = "start"
    BY DEF Init, NewLoop
  <2>2. \A u \in Urls : loop[u].pc \notin Holding
    BY <2>1 DEF Holding
  <2>3. NeverOlder
    BY <2>1 DEF NeverOlder
  <2> QED
    BY <2>1, <2>2, <2>3 DEF OrderInv
<1>2. OrderInv => NeverOlder
  BY DEF OrderInv
<1>3. IInv /\ OrderInv /\ [Next]_vars => (IInv /\ OrderInv)'
  BY StepType, OrderStep
<1> QED
  BY TypeInit, <1>1, <1>2, <1>3, PTL DEF Spec

-----------------------------------------------------------------------------
(* The contract of sessions *)

\* The contract's view of the device.
Held(f) == {device[f]} \ {0, Partial, CachePartial}

LEMMA HeldType ==
    ASSUME TypeOK'
    PROVE  [f \in Feeds |-> Held(f)]' \in [Feeds -> SUBSET Revisions]
BY DEF TypeOK, Held, Revisions

\* A step that changes the device at one feed changes the view at that feed only.
LEMMA HeldTouched ==
    ASSUME IInv, IInv', NEW f \in Feeds, NEW d, device' = [device EXCEPT ![f] = d]
    PROVE  Sessions!Touched(f)
<1>1. ASSUME NEW g \in Feeds \ {f} PROVE Held(g)' = Held(g)
  BY <1>1 DEF IInv, TypeOK, Held
<1> QED
  BY <1>1, HeldType DEF IInv, Sessions!Touched, Held

LEMMA HeldSame ==
    ASSUME IInv, IInv', NEW f \in Feeds, device' = device
    PROVE  Sessions!Touched(f)
BY HeldType DEF IInv, Sessions!Touched, Held

\* An update, finished or failed, is a session saved.
LEMMA UpdateRecords ==
    ASSUME IInv, IInv', NEW u \in Urls, NEW r \in DOMAIN Plan[u], NEW f \in Feeds,
           r = loop[u].got, r \in Nat \ {0}, f = FeedAt(u, r),
           UpdateOk(u) \/ UpdateFails(u)
    PROVE  Sessions!Next
<1> DEFINE saved(rec) == [urlMap |-> [file.urlMap EXCEPT ![u] = f],
                          lastRev |-> [file.lastRev EXCEPT ![f] = rec],
                          cache |-> [file.cache EXCEPT ![f] =
                                       IF r \in Encrypted THEN r ELSE 0]]
<1>1. file \in File /\ device \in [Feeds -> Revisions \cup {Partial, CachePartial}]
  BY DEF IInv, TypeOK
<1>2. \/ /\ device' = device \/ device' = [device EXCEPT ![f] = r]
         /\ file' = [Recorded(u, r) EXCEPT !.lastRev[f] = r]
         /\ file.lastRev[f] # r => device' = [device EXCEPT ![f] = r]
      \/ /\ device' = [device EXCEPT ![f] = Partial]
         /\ file' = Recorded(u, r)
  BY DEF UpdateOk, UpdateFails
<1>3. Recorded(u, r) = saved(file.lastRev[f])
  <2>1. Recorded(u, r) =
          [file EXCEPT !.urlMap = [file.urlMap EXCEPT ![u] = f],
                       !.cache = [file.cache EXCEPT ![f] =
                                    IF r \in Encrypted THEN r ELSE 0]]
    BY DEF Recorded
  <2>2. file = [urlMap |-> file.urlMap, lastRev |-> file.lastRev, cache |-> file.cache]
    BY <1>1 DEF File
  <2>3. file.lastRev = [file.lastRev EXCEPT ![f] = file.lastRev[f]]
    BY <1>1 DEF File
  <2> QED
    BY <2>1, <2>2, <2>3
<1>4. [Recorded(u, r) EXCEPT !.lastRev[f] = r] = saved(r)
  BY <1>1, <1>3 DEF File
<1>5. Sessions!Touched(f)
  <2>1. CASE device' = device
    BY <2>1, HeldSame
  <2>2. CASE device' = [device EXCEPT ![f] = r]
    BY <2>2, HeldTouched
  <2>3. CASE device' = [device EXCEPT ![f] = Partial]
    BY <2>3, HeldTouched
  <2> QED
    BY <1>2, <2>1, <2>2, <2>3
<1>6. file.lastRev[f] # r /\ device' = [device EXCEPT ![f] = r] => r \in Held(f)'
  BY <1>1, DaemonAssumption DEF Held
<1>7. \E rec \in {file.lastRev[f], r} :
         file' = saved(rec) /\ (rec # file.lastRev[f] => rec \in Held(f)')
  BY <1>2, <1>3, <1>4, <1>6
<1>8. Sessions!Record(u, f, r)
  BY <1>5, <1>7 DEF Sessions!Record, Held
<1>9. <<u, f, r>> \in UNION {{<<v, FeedAt(v, q), q>> : q \in DOMAIN Plan[v]} : v \in Urls}
  OBVIOUS
<1> QED
  BY <1>8, <1>9 DEF Sessions!Next

\* The loops change the state file and the device only as the contract of a session
\* allows, whatever is published, fails or restarts; Reconcile keeps the same
\* contract with a session in many steps.
THEOREM SessionsKept == Spec => KeepsSessions
<1>1. Init => Sessions!Init
  BY DEF Init, Sessions!Init, Revisions
<1>2. ASSUME IInv, IInv', [Next]_vars
      PROVE  [Sessions!Next]_(Sessions!vars)
  <2>1. CASE file' = file /\ device' = device
    BY <2>1 DEF Sessions!vars
  <2>2. ASSUME NEW u \in Urls, loop[u].pc \in Holding, UpdateOk(u) \/ UpdateFails(u)
        PROVE  Sessions!Next
    <3>1. DOMAIN Plan[u] = 1..Len(Plan[u]) /\ Len(Plan[u]) \in Nat
      BY PlanType, DaemonAssumption
    <3>2. PICK r \in DOMAIN Plan[u] : r = loop[u].got
      BY <1>2, <2>2, <3>1 DEF IInv, InHand
    <3>3. PICK f \in Feeds : f = FeedAt(u, r)
      BY <3>1, PlanType
    <3> QED
      BY <1>2, <2>2, <3>1, <3>2, <3>3, UpdateRecords
  <2>3. ASSUME NEW u \in Urls, RetryAfterCache(u)
        PROVE  [Sessions!Next]_(Sessions!vars)
    <3>1. CASE device' = device
      BY <2>1, <2>3, <3>1 DEF RetryAfterCache
    <3>2. CASE device' # device
      <4>1. PICK f \in Feeds : f = loop[u].feed
        BY <1>2, <2>3, <3>2 DEF RetryAfterCache, IInv, TypeOK, Loop
      <4>2. Sessions!Touched(f)
        BY <1>2, <2>3, <3>2, <4>1, HeldTouched DEF RetryAfterCache
      <4> QED
        BY <2>3, <4>1, <4>2 DEF RetryAfterCache, Sessions!Next, Sessions!Work
    <3> QED
      BY <3>1, <3>2
  <2> QED
    BY <1>2, <2>1, <2>2, <2>3 DEF Next, LoopStep, Resolve, Bootstrap, BootUpdate,
       OpenStream, Event, Listen, Fallback, Poll, PollUpdate, Return, At, Holding,
       Crash, Publish, vars
<1> QED
  BY TypeInit, StepType, <1>1, <1>2, PTL DEF Spec, KeepsSessions, Sessions!Spec
=============================================================================
