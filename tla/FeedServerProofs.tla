-------------------------- MODULE FeedServerProofs --------------------------
(***************************************************************************)
(* Proofs about FeedServer, for any clients, documents and number of       *)
(* writes: its types, that it implements FeedView, and that no stream      *)
(* passes over a version.                                                  *)
(*                                                                         *)
(* The version a client reads next comes from its stream or from the       *)
(* store.  The store only grows, so what has to be shown is that nothing   *)
(* on a stream is older than what the client has (Monotone): the pipe is   *)
(* in order, starts at the client's version or later, and the watch is     *)
(* past all of it.  Nothing is passed over because every valid version the *)
(* watch has reported and the client does not have is in flight (Covers).  *)
(***************************************************************************)
EXTENDS FeedServer, TLAPS

\* The versions in flight lie between what the client has and what is stored, in
\* order; a watch that is on reports later ones only.
MonotoneAt(c) ==
    /\ seen[c] <= Len(log)
    /\ \A i \in DOMAIN pipe[c] : seen[c] <= pipe[c][i] /\ pipe[c][i] <= Len(log)
    /\ \A i, j \in DOMAIN pipe[c] : i < j => pipe[c][i] <= pipe[c][j]
    /\ conn[c].pc = "none" => pipe[c] = <<>>
    /\ conn[c].pc = "streaming" =>
         /\ seen[c] <= conn[c].next
         /\ \A i \in DOMAIN pipe[c] : pipe[c][i] <= conn[c].next

Monotone == \A c \in Clients : MonotoneAt(c)

Written == Seq(Entry \cup {Corrupt, Deleted})

-----------------------------------------------------------------------------
(* Type correctness *)

LEMMA TypeInit == Init => TypeOK
BY DEF Init, TypeOK, NoConn, Conn, Reply

LEMMA WriteType ==
    ASSUME TypeOK, NEW e \in Entry \cup {Corrupt, Deleted}, Write(e)
    PROVE  TypeOK'
BY DEF TypeOK, Write

LEMMA StepType ==
    ASSUME TypeOK, [Next]_vars
    PROVE  TypeOK'
<1>1. CASE UNCHANGED vars
  BY <1>1 DEF TypeOK, vars
<1>2. ASSUME NEW doc \in Docs, NEW ttl \in TTLs, Upload(doc, ttl)
      PROVE  TypeOK'
  <2>1. [doc |-> doc, ttl |-> ttl] \in Entry
    BY DEF Entry
  <2> QED
    BY <1>2, <2>1, WriteType DEF Upload
<1>3. CASE WriteOther
  BY <1>3, WriteType DEF WriteOther
<1>4. ASSUME NEW c \in Clients, NEW r \in Request, Refuse(c, r) \/ Fail(c, r)
      PROVE  TypeOK'
  BY <1>4 DEF TypeOK, Refuse, Fail, Reply
<1>5. ASSUME NEW c \in Clients, NEW r \in Request, AnswerJSON(c, r)
      PROVE  TypeOK'
  <2> DEFINE matches == /\ r.conditional /\ seen[c] # 0
                        /\ Revision(log[seen[c]]) = Revision(Stored)
  <2>1. Version \in Nat
    BY DEF TypeOK, Version
  <2>2. seen' \in [Clients -> Nat]
    BY <1>5, <2>1 DEF TypeOK, AnswerJSON
  <2>3. reply' \in [Clients -> Reply]
    BY <1>5 DEF TypeOK, AnswerJSON, Reply
  <2> QED
    BY <1>5, <2>2, <2>3 DEF TypeOK, AnswerJSON
<1>6. ASSUME NEW c \in Clients, NEW r \in Request, Open(c, r)
      PROVE  TypeOK'
  <2>1. <<Version>> \in Seq(Nat)
    BY DEF TypeOK, Version
  <2>2. pipe' \in [Clients -> Seq(Nat)]
    BY <1>6, <2>1 DEF TypeOK, Open
  <2>3. [conn[c] EXCEPT !.pc = "opened"] \in Conn
    BY DEF TypeOK, Conn
  <2>4. conn' \in [Clients -> Conn]
    BY <1>6, <2>3 DEF TypeOK, Open
  <2> QED
    BY <1>6, <2>2, <2>4 DEF TypeOK, Open
<1>7. ASSUME NEW c \in Clients, StartWatch(c)
      PROVE  TypeOK'
  BY <1>7 DEF TypeOK, StartWatch, Conn
<1>8. ASSUME NEW c \in Clients, Deliver(c)
      PROVE  TypeOK'
  <2>1. conn[c] \in Conn /\ conn[c].next \in Nat
    BY DEF TypeOK, Conn
  <2>2. Append(pipe[c], conn[c].next) \in Seq(Nat)
    BY <2>1 DEF TypeOK
  <2>3. [conn[c] EXCEPT !.next = @ + 1] \in Conn
    BY <2>1 DEF Conn
  <2> QED
    BY <1>8, <2>2, <2>3 DEF TypeOK, Deliver
<1>9. ASSUME NEW c \in Clients, Receive(c)
      PROVE  TypeOK'
  <2>1. pipe[c] \in Seq(Nat) /\ pipe[c] # <<>>
    BY <1>9 DEF TypeOK, Receive
  <2>2. Head(pipe[c]) \in Nat /\ Tail(pipe[c]) \in Seq(Nat)
    BY <2>1
  <2> QED
    BY <1>9, <2>2 DEF TypeOK, Receive
<1>10. ASSUME NEW c \in Clients, Drop(c)
      PROVE  TypeOK'
  BY <1>10 DEF TypeOK, Drop, NoConn, Conn
<1> QED
  BY <1>1, <1>2, <1>3, <1>4, <1>6, <1>7, <1>8, <1>9, <1>10, <1>5 DEF Next

\* The store, the handler goroutines, the streams and the clients keep their types
\* (handler.go, store.go, upload.go).
THEOREM TypeCorrect == Spec => []TypeOK
<1>1. Init => TypeOK
  BY TypeInit
<1>2. TypeOK /\ [Next]_vars => TypeOK'
  BY StepType
<1> QED
  BY <1>1, <1>2, PTL DEF Spec

-----------------------------------------------------------------------------
(* The order of versions *)

LEMMA MonotoneInit == Init => Monotone
BY DEF Init, Monotone, MonotoneAt, NoConn

LEMMA MonotoneWrite ==
    ASSUME TypeOK, Monotone, NEW e \in Entry \cup {Corrupt, Deleted}, Write(e)
    PROVE  Monotone'
<1>1. log \in Written /\ Len(log) \in Nat /\ Len(log') = Len(log) + 1
  BY DEF TypeOK, Write, Written
<1>2. \A c \in Clients : seen[c] \in Nat /\ \A i \in DOMAIN pipe[c] : pipe[c][i] \in Nat
  BY DEF TypeOK
<1> QED
  BY <1>1, <1>2 DEF Monotone, MonotoneAt, Write

\* A step that is about one client need only be looked at for that client.
LEMMA MonotoneElsewhere ==
    ASSUME Monotone, NEW c \in Clients, log' = log, MonotoneAt(c)',
           \A d \in Clients : d # c =>
               conn'[d] = conn[d] /\ pipe'[d] = pipe[d] /\ seen'[d] = seen[d]
    PROVE  Monotone'
BY DEF Monotone, MonotoneAt

LEMMA MonotoneStep ==
    ASSUME TypeOK, Monotone, [Next]_vars
    PROVE  Monotone'
<1>0. Len(log) \in Nat /\ log \in Written
  BY DEF TypeOK, Written
<1>1. CASE UNCHANGED vars
  BY <1>1 DEF Monotone, MonotoneAt, vars
<1>2. ASSUME NEW doc \in Docs, NEW ttl \in TTLs, Upload(doc, ttl)
      PROVE  Monotone'
  <2>1. [doc |-> doc, ttl |-> ttl] \in Entry
    BY DEF Entry
  <2> QED
    BY <1>2, <2>1, MonotoneWrite DEF Upload
<1>3. CASE WriteOther
  BY <1>3, MonotoneWrite DEF WriteOther
<1>4. ASSUME NEW c \in Clients, NEW r \in Request, Refuse(c, r) \/ Fail(c, r)
      PROVE  Monotone'
  BY <1>4 DEF Monotone, MonotoneAt, Refuse, Fail
<1>5. ASSUME NEW c \in Clients, NEW r \in Request, AnswerJSON(c, r)
      PROVE  Monotone'
  <2>1. conn' = conn /\ pipe' = pipe /\ log' = log /\ conn[c].pc = "none"
    BY <1>5 DEF AnswerJSON
  <2>2. seen'[c] \in {seen[c], Len(log)} /\ \A d \in Clients : d # c => seen'[d] = seen[d]
    BY <1>5 DEF AnswerJSON, TypeOK, Version
  <2>3. MonotoneAt(c)'
    BY <1>0, <2>1, <2>2 DEF Monotone, MonotoneAt
  <2> QED
    BY <2>1, <2>2, <2>3, MonotoneElsewhere
<1>6. ASSUME NEW c \in Clients, NEW r \in Request, Open(c, r)
      PROVE  Monotone'
  <2>1. log' = log /\ seen' = seen /\ pipe'[c] = <<Len(log)>>
    BY <1>6 DEF Open, TypeOK, Version
  <2>2. conn'[c].pc = "opened"
    BY <1>6 DEF Open, TypeOK, Conn
  <2>3. \A d \in Clients : d # c => conn'[d] = conn[d] /\ pipe'[d] = pipe[d]
    BY <1>6 DEF Open, TypeOK
  <2>4. MonotoneAt(c)'
    BY <1>0, <2>1, <2>2 DEF Monotone, MonotoneAt
  <2> QED
    BY <2>1, <2>3, <2>4, MonotoneElsewhere
<1>7. ASSUME NEW c \in Clients, StartWatch(c)
      PROVE  Monotone'
  <2>1. log' = log /\ seen' = seen /\ pipe' = pipe
    BY <1>7 DEF StartWatch
  <2>2. conn'[c].pc = "streaming" /\ conn'[c].next = Len(log) + 1
    BY <1>7 DEF StartWatch, TypeOK
  <2>3. \A d \in Clients : d # c => conn'[d] = conn[d]
    BY <1>7 DEF StartWatch, TypeOK
  <2>4. seen[c] \in Nat /\ \A i \in DOMAIN pipe[c] : pipe[c][i] \in Nat
    BY DEF TypeOK
  <2>5. MonotoneAt(c)'
    BY <1>0, <2>1, <2>2, <2>4 DEF Monotone, MonotoneAt
  <2> QED
    BY <2>1, <2>3, <2>5, MonotoneElsewhere
<1>8. ASSUME NEW c \in Clients, Deliver(c)
      PROVE  Monotone'
  <2>1. log' = log /\ seen' = seen /\ conn[c].pc = "streaming" /\ conn[c].next <= Len(log)
    BY <1>8 DEF Deliver
  <2>2. conn'[c].pc = "streaming" /\ conn'[c].next = conn[c].next + 1 /\ conn[c].next \in Nat
    BY <1>8 DEF Deliver, TypeOK, Conn
  <2>3. \A d \in Clients : d # c => conn'[d] = conn[d] /\ pipe'[d] = pipe[d]
    BY <1>8 DEF Deliver, TypeOK
  <2>4. pipe'[c] \in {pipe[c], Append(pipe[c], conn[c].next)}
    BY <1>8 DEF Deliver, TypeOK
  <2>5. pipe[c] \in Seq(Nat) /\ seen[c] \in Nat
    BY DEF TypeOK
  <2>6. CASE pipe'[c] = pipe[c]
    <3>1. \A i \in DOMAIN pipe[c] : pipe[c][i] \in Nat
      BY <2>5
    <3>2. MonotoneAt(c)'
      BY <1>0, <2>1, <2>2, <2>5, <2>6, <3>1 DEF Monotone, MonotoneAt
    <3> QED
      BY <2>1, <2>3, <3>2, MonotoneElsewhere
  <2>7. CASE pipe'[c] = Append(pipe[c], conn[c].next)
    <3>1. DOMAIN pipe'[c] = 1..(Len(pipe[c]) + 1) /\ DOMAIN pipe[c] = 1..Len(pipe[c])
      BY <2>2, <2>5, <2>7
    <3>2. \A i \in DOMAIN pipe'[c] :
            \/ i \in DOMAIN pipe[c] /\ pipe'[c][i] = pipe[c][i] /\ pipe[c][i] \in Nat
            \/ i = Len(pipe[c]) + 1 /\ pipe'[c][i] = conn[c].next
      BY <2>2, <2>5, <2>7, <3>1
    <3>3. \A i \in DOMAIN pipe[c] : pipe[c][i] <= conn[c].next /\ seen[c] <= pipe[c][i]
      BY <2>1 DEF Monotone, MonotoneAt
    <3>4. seen[c] <= conn[c].next /\ seen[c] <= Len(log)
      BY <2>1 DEF Monotone, MonotoneAt
    <3>5. \A i \in DOMAIN pipe'[c] :
            seen[c] <= pipe'[c][i] /\ pipe'[c][i] <= Len(log) /\ pipe'[c][i] <= conn'[c].next
      BY <1>0, <2>1, <2>2, <2>5, <3>2, <3>3, <3>4
    <3>6. \A i, j \in DOMAIN pipe'[c] : i < j => pipe'[c][i] <= pipe'[c][j]
      <4> SUFFICES ASSUME NEW i \in DOMAIN pipe'[c], NEW j \in DOMAIN pipe'[c], i < j
                   PROVE  pipe'[c][i] <= pipe'[c][j]
        OBVIOUS
      <4>1. i \in DOMAIN pipe[c]
        BY <2>5, <3>1
      <4>2. CASE j \in DOMAIN pipe[c]
        <5>1. \A k \in 1..Len(pipe[c]) : pipe'[c][k] = pipe[c][k]
          BY <2>2, <2>5, <2>7
        <5>2. pipe[c][i] <= pipe[c][j]
          BY <4>1, <4>2 DEF Monotone, MonotoneAt
        <5> QED
          BY <3>1, <4>1, <4>2, <5>1, <5>2
      <4>3. CASE j = Len(pipe[c]) + 1
        <5>1. pipe'[c][i] = pipe[c][i] /\ pipe'[c][j] = conn[c].next
          BY <2>2, <2>5, <2>7, <3>1, <4>1, <4>3
        <5> QED
          BY <3>3, <4>1, <5>1
      <4> QED
        BY <3>2, <4>2, <4>3
    <3>7. MonotoneAt(c)'
      BY <1>0, <2>1, <2>2, <2>5, <3>4, <3>5, <3>6 DEF MonotoneAt
    <3> QED
      BY <2>1, <2>3, <3>7, MonotoneElsewhere
  <2> QED
    BY <2>4, <2>6, <2>7
<1>9. ASSUME NEW c \in Clients, Receive(c)
      PROVE  Monotone'
  <2>1. log' = log /\ conn' = conn /\ pipe[c] # <<>> /\ pipe[c] \in Seq(Nat)
    BY <1>9 DEF Receive, TypeOK
  <2>2. seen'[c] = pipe[c][1] /\ pipe'[c] = Tail(pipe[c])
    BY <1>9 DEF Receive, TypeOK
  <2>3. \A d \in Clients : d # c => pipe'[d] = pipe[d] /\ seen'[d] = seen[d]
    BY <1>9 DEF Receive, TypeOK
  <2>4. 1 \in DOMAIN pipe[c] /\ \A i \in DOMAIN pipe'[c] :
           i + 1 \in DOMAIN pipe[c] /\ pipe'[c][i] = pipe[c][i + 1] /\ i \in Nat \ {0}
    BY <2>1, <2>2
  <2>5. \A i, j \in DOMAIN pipe[c] :
          i < j => pipe[c][i] <= pipe[c][j]
    BY DEF Monotone, MonotoneAt
  <2>6. \A i \in DOMAIN pipe[c] : pipe[c][1] <= pipe[c][i] /\ pipe[c][i] <= Len(log)
    <3> SUFFICES ASSUME NEW i \in DOMAIN pipe[c]
                 PROVE  pipe[c][1] <= pipe[c][i] /\ pipe[c][i] <= Len(log)
      OBVIOUS
    <3>1. i = 1 \/ 1 < i
      BY <2>1
    <3> QED
      BY <2>1, <2>4, <2>5, <3>1 DEF Monotone, MonotoneAt
  <2>7. \A i \in DOMAIN pipe'[c] : seen'[c] <= pipe'[c][i] /\ pipe'[c][i] <= Len(log)
    BY <2>2, <2>4, <2>6
  <2>8. \A i, j \in DOMAIN pipe'[c] : i < j => pipe'[c][i] <= pipe'[c][j]
    <3> SUFFICES ASSUME NEW i \in DOMAIN pipe'[c], NEW j \in DOMAIN pipe'[c], i < j
                 PROVE  pipe'[c][i] <= pipe'[c][j]
      OBVIOUS
    <3>1. i + 1 \in DOMAIN pipe[c] /\ j + 1 \in DOMAIN pipe[c] /\ i + 1 < j + 1
      BY <2>4
    <3> QED
      BY <2>4, <2>5, <3>1
  <2>9. conn[c].pc = "none" => pipe'[c] = <<>>
    BY <2>1 DEF Monotone, MonotoneAt
  <2>10. conn[c].pc = "streaming" =>
           seen'[c] <= conn[c].next /\ \A i \in DOMAIN pipe'[c] : pipe'[c][i] <= conn[c].next
    BY <2>2, <2>4 DEF Monotone, MonotoneAt
  <2>11. MonotoneAt(c)'
    BY <2>1, <2>2, <2>4, <2>6, <2>7, <2>8, <2>9, <2>10 DEF MonotoneAt
  <2> QED
    BY <2>1, <2>3, <2>11, MonotoneElsewhere
<1>10. ASSUME NEW c \in Clients, Drop(c)
      PROVE  Monotone'
  <2>1. log' = log /\ seen' = seen /\ conn'[c] = NoConn /\ pipe'[c] = <<>>
    BY <1>10 DEF Drop, TypeOK
  <2>2. \A d \in Clients : d # c => conn'[d] = conn[d] /\ pipe'[d] = pipe[d]
    BY <1>10 DEF Drop, TypeOK
  <2>3. MonotoneAt(c)'
    BY <2>1 DEF Monotone, MonotoneAt, NoConn
  <2> QED
    BY <2>1, <2>2, <2>3, MonotoneElsewhere
<1> QED
  BY <1>1, <1>2, <1>3, <1>4, <1>5, <1>6, <1>7, <1>8, <1>9, <1>10 DEF Next

-----------------------------------------------------------------------------
(* Refinement *)

LEMMA ViewInit == Init => View!Init
BY DEF Init, View!Init

\* A write is a write of the view; a client that takes a version from an answer or
\* off its stream sees it; every other step leaves the view alone.
LEMMA ViewStep ==
    ASSUME TypeOK, Monotone, [Next]_vars
    PROVE  [View!Next]_<<Len(log), seen>>
<1>0. Len(log) \in Nat /\ log \in Written
  BY DEF TypeOK, Written
<1>1. CASE UNCHANGED vars
  BY <1>1 DEF vars
<1>2. ASSUME NEW e, Write(e)
      PROVE  View!Write
  BY <1>0, <1>2 DEF Write, View!Write, Written
<1>3. ASSUME NEW c \in Clients, log' = log, NEW v \in Nat,
             seen' = [seen EXCEPT ![c] = v], seen[c] <= v, v <= Len(log)
      PROVE  View!See(c) \/ UNCHANGED <<Len(log), seen>>
  <2>1. seen[c] \in Nat /\ seen \in [Clients -> Nat]
    BY DEF TypeOK
  <2>2. CASE v = seen[c]
    BY <1>3, <2>1, <2>2
  <2>3. CASE v # seen[c]
    <3>1. v \in (seen[c] + 1)..Len(log)
      BY <1>0, <1>3, <2>1, <2>3
    <3> QED
      BY <1>3, <3>1 DEF View!See
  <2> QED
    BY <2>2, <2>3
<1>4. ASSUME NEW c \in Clients, NEW r \in Request, AnswerJSON(c, r)
      PROVE  View!See(c) \/ UNCHANGED <<Len(log), seen>>
  <2>1. log' = log /\ \/ seen' = seen
                      \/ seen' = [seen EXCEPT ![c] = Len(log)]
    BY <1>4 DEF AnswerJSON, Version
  <2> QED
    BY <1>0, <1>3, <2>1 DEF Monotone, MonotoneAt
<1>5. ASSUME NEW c \in Clients, Receive(c)
      PROVE  View!See(c) \/ UNCHANGED <<Len(log), seen>>
  <2>1. pipe[c] \in Seq(Nat) /\ pipe[c] # <<>>
    BY <1>5 DEF Receive, TypeOK
  <2>2. 1 \in DOMAIN pipe[c] /\ Head(pipe[c]) = pipe[c][1] /\ pipe[c][1] \in Nat
    BY <2>1
  <2>3. seen[c] <= pipe[c][1] /\ pipe[c][1] <= Len(log)
    BY <2>2 DEF Monotone, MonotoneAt
  <2> QED
    BY <1>3, <1>5, <2>2, <2>3 DEF Receive
<1>6. ASSUME NEW c \in Clients, NEW r \in Request, Refuse(c, r) \/ Fail(c, r) \/ Open(c, r)
      PROVE  UNCHANGED <<Len(log), seen>>
  BY <1>6 DEF Refuse, Fail, Open
<1>7. ASSUME NEW c \in Clients, StartWatch(c) \/ Deliver(c) \/ Drop(c)
      PROVE  UNCHANGED <<Len(log), seen>>
  BY <1>7 DEF StartWatch, Deliver, Drop
<1> QED
  BY <1>1, <1>2, <1>4, <1>5, <1>6, <1>7 DEF Next, Upload, WriteOther, View!Next

\* The server implements FeedView: whatever a client mixes of polling, streaming and
\* reconnecting, and whatever breaks, it never sees an older version after a newer
\* one (handler.go: serveSSE reads the key before it opens the watch).
THEOREM InOrderHolds == Spec => InOrder
<1>1. Init => TypeOK /\ Monotone /\ View!Init
  BY TypeInit, MonotoneInit, ViewInit
<1>2. TypeOK /\ Monotone /\ [Next]_vars => TypeOK' /\ Monotone'
  BY StepType, MonotoneStep
<1>3. TypeOK /\ Monotone /\ [Next]_vars => [View!Next]_<<Len(log), seen>>
  BY ViewStep
<1> QED
  BY <1>1, <1>2, <1>3, PTL DEF Spec, InOrder, View!Spec

-----------------------------------------------------------------------------
(* No valid version is passed over *)

ValidVersions == {v \in 1..Len(log) : IsValid(v)}

\* A stream with the versions p in flight, whose watch has reported those from start to
\* next - 1 and whose client has version had, passes over none of the valid ones.
Covers(p, start, next, had, valid) ==
    /\ \A v \in valid : start <= v /\ v < next /\ had < v => v \in Range(p)
    /\ \A i \in DOMAIN p : p[i] < next
    /\ \A i \in DOMAIN p : p[i] >= start =>
         p[i] \in valid /\ had < p[i] /\ \A h \in 1..(i - 1) : p[h] < p[i]

SkipsNone(c) ==
    conn[c].pc = "streaming" =>
      /\ conn[c].start <= conn[c].next /\ conn[c].next <= Len(log) + 1
      /\ seen[c] < conn[c].next
      /\ Covers(pipe[c], conn[c].start, conn[c].next, seen[c], ValidVersions)

SkipInv == \A c \in Clients : SkipsNone(c)

\* The types of what one stream holds.
LEMMA StreamTypes ==
    ASSUME TypeOK, NEW c \in Clients
    PROVE  /\ Len(log) \in Nat /\ seen[c] \in Nat /\ pipe[c] \in Seq(Nat)
           /\ conn[c].start \in Nat /\ conn[c].next \in Nat
           /\ ValidVersions \subseteq Nat
<1>1. conn[c] \in Conn /\ pipe[c] \in Seq(Nat)
  BY DEF TypeOK
<1>2. Len(log) \in Nat
  BY DEF TypeOK
<1> QED
  BY <1>1, <1>2 DEF TypeOK, Conn, ValidVersions

\* The watch reports a version that does not validate.
LEMMA CoversPassed ==
    ASSUME NEW p \in Seq(Nat), NEW start \in Nat, NEW next \in Nat, NEW had \in Nat,
           NEW valid \in SUBSET Nat, next \notin valid, Covers(p, start, next, had, valid)
    PROVE  Covers(p, start, next + 1, had, valid)
<1>1. \A v \in valid : v < next + 1 => v < next
  OBVIOUS
<1>2. \A i \in DOMAIN p : p[i] \in Nat
  OBVIOUS
<1> QED
  BY <1>1, <1>2 DEF Covers

\* The watch reports a valid version, and it is sent.
LEMMA CoversSent ==
    ASSUME NEW p \in Seq(Nat), NEW start \in Nat, NEW next \in Nat, NEW had \in Nat,
           NEW valid \in SUBSET Nat, next \in valid, had < next,
           Covers(p, start, next, had, valid)
    PROVE  Covers(Append(p, next), start, next + 1, had, valid)
<1> DEFINE n == Len(p)
           q == Append(p, next)
<1>1. /\ n \in Nat /\ DOMAIN p = 1..n /\ DOMAIN q = 1..(n + 1)
      /\ \A i \in 1..n : q[i] = p[i] /\ p[i] \in Nat
      /\ q[n + 1] = next
  OBVIOUS
<1> HIDE DEF n, q
<1>2. ASSUME NEW v \in valid, start <= v, v < next + 1, had < v
      PROVE  v \in Range(q)
  <2>1. CASE v = next
    <3>1. n + 1 \in DOMAIN q
      BY <1>1
    <3> QED
      BY <1>1, <2>1, <3>1 DEF Range
  <2>2. CASE v < next
    <3>1. PICK i \in 1..n : p[i] = v
      BY <1>1, <1>2, <2>2 DEF Covers, Range
    <3>2. i \in DOMAIN q /\ q[i] = v
      BY <1>1, <3>1
    <3> QED
      BY <3>2 DEF Range
  <2> QED
    BY <1>2, <2>1, <2>2
<1>3. ASSUME NEW i \in 1..n
      PROVE  /\ q[i] < next + 1
             /\ q[i] >= start =>
                  q[i] \in valid /\ had < q[i] /\ \A h \in 1..(i - 1) : q[h] < q[i]
  <2>1. i \in DOMAIN p /\ q[i] = p[i] /\ \A h \in 1..(i - 1) : q[h] = p[h]
    BY <1>1
  <2>2. /\ p[i] < next
        /\ p[i] >= start =>
             p[i] \in valid /\ had < p[i] /\ \A h \in 1..(i - 1) : p[h] < p[i]
    BY <2>1 DEF Covers
  <2>3. q[i] < next + 1
    BY <1>1, <2>1, <2>2
  <2> QED
    BY <2>1, <2>2, <2>3
<1>4. \A h \in 1..n : q[h] < next
  BY <1>1 DEF Covers
<1>5. ASSUME NEW i \in DOMAIN q
      PROVE  /\ q[i] < next + 1
             /\ q[i] >= start =>
                  q[i] \in valid /\ had < q[i] /\ \A h \in 1..(i - 1) : q[h] < q[i]
  <2>1. CASE i \in 1..n
    BY <1>3, <2>1
  <2>2. CASE i = n + 1
    BY <1>1, <1>4, <2>2
  <2> QED
    BY <1>1, <2>1, <2>2
<1>6. Covers(q, start, next + 1, had, valid)
  BY <1>2, <1>5 DEF Covers
<1> QED
  BY <1>6 DEF q

\* The client reads the first version in flight.
LEMMA CoversRead ==
    ASSUME NEW p \in Seq(Nat), NEW start \in Nat, NEW next \in Nat, NEW had \in Nat,
           NEW valid \in SUBSET Nat, p # <<>>, had <= p[1], Covers(p, start, next, had, valid)
    PROVE  Covers(Tail(p), start, next, p[1], valid) /\ p[1] < next
<1> DEFINE n == Len(p)
           q == Tail(p)
<1>1. /\ n \in Nat \ {0} /\ DOMAIN p = 1..n /\ DOMAIN q = 1..(n - 1)
      /\ \A i \in 1..(n - 1) : i + 1 \in 1..n /\ q[i] = p[i + 1]
      /\ \A i \in 1..n : p[i] \in Nat
  OBVIOUS
<1> HIDE DEF n, q
<1>2. ASSUME NEW v \in valid, start <= v, v < next, p[1] < v
      PROVE  v \in Range(q)
  <2>1. had < v
    BY <1>1, <1>2
  <2>2. PICK i \in 1..n : p[i] = v
    BY <1>1, <1>2, <2>1 DEF Covers, Range
  <2>3. i # 1
    BY <1>1, <1>2, <2>2
  <2>4. i - 1 \in 1..(n - 1) /\ (i - 1) + 1 = i
    BY <1>1, <2>3
  <2>5. q[i - 1] = v
    BY <1>1, <2>2, <2>4
  <2> QED
    BY <1>1, <2>4, <2>5 DEF Range
<1>3. ASSUME NEW i \in 1..(n - 1), q[i] >= start
      PROVE  q[i] \in valid /\ p[1] < q[i] /\ \A h \in 1..(i - 1) : q[h] < q[i]
  <2>1. i + 1 \in 1..n /\ q[i] = p[i + 1]
    BY <1>1
  <2>2. p[i + 1] \in valid /\ \A h \in 1..((i + 1) - 1) : p[h] < p[i + 1]
    BY <1>1, <1>3, <2>1 DEF Covers
  <2>3. \A h \in 1..(i - 1) : h + 1 \in 1..((i + 1) - 1) /\ q[h] = p[h + 1]
    BY <1>1
  <2>4. 1 \in 1..((i + 1) - 1)
    OBVIOUS
  <2> QED
    BY <2>1, <2>2, <2>3, <2>4
<1>4. p[1] < next /\ \A i \in 1..(n - 1) : q[i] < next
  <2>1. \A i \in 1..n : p[i] < next
    BY <1>1 DEF Covers
  <2>2. 1 \in 1..n
    <3>1. n > 0
      BY <1>1
    <3> QED
      BY <1>1, <3>1
  <2>3. ASSUME NEW i \in 1..(n - 1)
        PROVE  q[i] < next
    BY <1>1, <2>1
  <2> QED
    BY <2>1, <2>2, <2>3
<1>5. Covers(q, start, next, p[1], valid)
  BY <1>1, <1>2, <1>3, <1>4 DEF Covers
<1> QED
  BY <1>4, <1>5 DEF q

-----------------------------------------------------------------------------
(* The steps of the server *)

LEMMA SkipWrite ==
    ASSUME TypeOK, SkipInv, NEW e \in Entry \cup {Corrupt, Deleted}, Write(e)
    PROVE  SkipInv'
<1> SUFFICES ASSUME NEW c \in Clients, conn[c].pc = "streaming" PROVE SkipsNone(c)'
  BY DEF SkipInv, SkipsNone, Write
<1>1. conn' = conn /\ pipe' = pipe /\ seen' = seen
  BY DEF Write
<1>2. /\ Len(log) \in Nat /\ Len(log') = Len(log) + 1
      /\ \A v \in 1..Len(log) : log'[v] = log[v]
  <2>1. log \in Written /\ log' = Append(log, e)
    BY DEF TypeOK, Write, Written
  <2> QED
    BY <2>1 DEF Written
<1>3. \A v \in Nat : v <= Len(log) => (v \in ValidVersions' <=> v \in ValidVersions)
  BY <1>2 DEF ValidVersions, IsValid
<1>4. SkipsNone(c)
  BY DEF SkipInv
<1>5. conn[c].next <= Len(log) + 1 /\ conn[c].next \in Nat /\ pipe[c] \in Seq(Nat)
  BY <1>4, StreamTypes DEF SkipsNone
<1>6. \A i \in DOMAIN pipe[c] : pipe[c][i] \in Nat
  BY <1>5
<1>7. ValidVersions' \subseteq Nat
  BY <1>2 DEF ValidVersions
<1>8. Covers(pipe[c], conn[c].start, conn[c].next, seen[c], ValidVersions')
  BY <1>2, <1>3, <1>4, <1>5, <1>6, <1>7 DEF SkipsNone, Covers
<1> QED
  BY <1>1, <1>2, <1>4, <1>5, <1>8 DEF SkipsNone

\* A step about one client that leaves the log alone need only be looked at there.
LEMMA SkipElsewhere ==
    ASSUME SkipInv, NEW c \in Clients, log' = log, SkipsNone(c)',
           \A d \in Clients : d # c =>
               conn'[d] = conn[d] /\ pipe'[d] = pipe[d] /\ seen'[d] = seen[d]
    PROVE  SkipInv'
<1>1. ValidVersions' = ValidVersions
  BY DEF ValidVersions, IsValid
<1> QED
  BY <1>1 DEF SkipInv, SkipsNone

LEMMA SkipStart ==
    ASSUME TypeOK, Monotone, SkipInv, NEW c \in Clients, StartWatch(c)
    PROVE  SkipInv'
<1>1. /\ log' = log /\ seen' = seen /\ pipe' = pipe
      /\ conn'[c].start = Len(log) + 1 /\ conn'[c].next = Len(log) + 1
      /\ \A d \in Clients : d # c => conn'[d] = conn[d]
  BY DEF StartWatch, TypeOK
<1>2. /\ Len(log) \in Nat /\ seen[c] \in Nat
      /\ \A i \in DOMAIN pipe[c] : pipe[c][i] \in Nat
  BY StreamTypes
<1>3. seen[c] < Len(log) + 1 /\ \A i \in DOMAIN pipe[c] : pipe[c][i] < Len(log) + 1
  BY <1>2 DEF Monotone, MonotoneAt
<1>4. Covers(pipe[c], Len(log) + 1, Len(log) + 1, seen[c], ValidVersions)
  BY <1>2, <1>3 DEF Covers, ValidVersions
<1>5. ValidVersions' = ValidVersions
  BY <1>1 DEF ValidVersions, IsValid
<1>6. SkipsNone(c)'
  BY <1>1, <1>2, <1>3, <1>4, <1>5 DEF SkipsNone
<1> QED
  BY <1>1, <1>6, SkipElsewhere

LEMMA SkipDeliver ==
    ASSUME TypeOK, SkipInv, NEW c \in Clients, Deliver(c)
    PROVE  SkipInv'
<1>1. /\ conn[c].pc = "streaming" /\ conn[c].next <= Len(log)
      /\ log' = log /\ seen' = seen
      /\ conn'[c].start = conn[c].start /\ conn'[c].next = conn[c].next + 1
      /\ \A d \in Clients : d # c => conn'[d] = conn[d] /\ pipe'[d] = pipe[d]
  BY DEF Deliver, TypeOK, Conn
<1>2. SkipsNone(c)
  BY DEF SkipInv
<1>3. ValidVersions' = ValidVersions
  BY <1>1 DEF ValidVersions, IsValid
<1>4. IF conn[c].next \in ValidVersions
      THEN pipe'[c] = Append(pipe[c], conn[c].next) ELSE pipe'[c] = pipe[c]
  BY DEF Deliver, TypeOK, ValidVersions, IsValid
<1>5. Covers(pipe[c], conn[c].start, conn[c].next, seen[c], ValidVersions)
  BY <1>1, <1>2 DEF SkipsNone
<1>6. Covers(pipe'[c], conn[c].start, conn[c].next + 1, seen[c], ValidVersions)
  <2>1. CASE conn[c].next \in ValidVersions
    BY <1>1, <1>2, <1>4, <1>5, <2>1, StreamTypes, CoversSent DEF SkipsNone
  <2>2. CASE conn[c].next \notin ValidVersions
    BY <1>4, <1>5, <2>2, StreamTypes, CoversPassed
  <2> QED
    BY <2>1, <2>2
<1>7. SkipsNone(c)'
  <2>1. /\ conn[c].start <= conn[c].next + 1 /\ conn[c].next + 1 <= Len(log) + 1
        /\ seen[c] < conn[c].next + 1
    BY <1>1, <1>2, StreamTypes DEF SkipsNone
  <2> QED
    BY <1>1, <1>3, <1>6, <2>1 DEF SkipsNone
<1> QED
  BY <1>1, <1>7, SkipElsewhere

LEMMA SkipReceive ==
    ASSUME TypeOK, Monotone, SkipInv, NEW c \in Clients, Receive(c)
    PROVE  SkipInv'
<1>1. /\ log' = log /\ conn' = conn /\ pipe[c] # <<>>
      /\ seen'[c] = pipe[c][1] /\ pipe'[c] = Tail(pipe[c])
      /\ \A d \in Clients : d # c => pipe'[d] = pipe[d] /\ seen'[d] = seen[d]
  BY DEF Receive, TypeOK
<1>2. ValidVersions' = ValidVersions
  BY <1>1 DEF ValidVersions, IsValid
<1>3. seen[c] <= pipe[c][1]
  <2>1. 1 \in DOMAIN pipe[c]
    BY <1>1, StreamTypes
  <2> QED
    BY <2>1 DEF Monotone, MonotoneAt
<1>4. ASSUME conn[c].pc = "streaming"
      PROVE  /\ Covers(Tail(pipe[c]), conn[c].start, conn[c].next, pipe[c][1], ValidVersions)
             /\ pipe[c][1] < conn[c].next
  <2>1. Covers(pipe[c], conn[c].start, conn[c].next, seen[c], ValidVersions)
    BY <1>4 DEF SkipInv, SkipsNone
  <2> QED
    BY <1>1, <1>3, <2>1, StreamTypes, CoversRead
<1>5. SkipsNone(c)'
  BY <1>1, <1>2, <1>4 DEF SkipInv, SkipsNone
<1> QED
  BY <1>1, <1>5, SkipElsewhere

\* A step that leaves a client without a stream that is on.
LEMMA SkipOff ==
    ASSUME TypeOK, SkipInv, NEW c \in Clients,
           \/ \E r \in Request : Refuse(c, r) \/ Fail(c, r) \/ AnswerJSON(c, r) \/ Open(c, r)
           \/ Drop(c)
    PROVE  SkipInv'
<1> DEFINE Off == /\ log' = log /\ conn'[c].pc # "streaming"
                  /\ \A d \in Clients : d # c =>
                       conn'[d] = conn[d] /\ pipe'[d] = pipe[d] /\ seen'[d] = seen[d]
<1>1. Off
  <2>1. ASSUME NEW r \in Request, Refuse(c, r) \/ Fail(c, r)
        PROVE  Off
    BY <2>1 DEF Refuse, Fail
  <2>2. ASSUME NEW r \in Request, AnswerJSON(c, r)
        PROVE  Off
    <3>1. conn' = conn /\ pipe' = pipe /\ log' = log /\ conn[c].pc = "none"
      BY <2>2 DEF AnswerJSON
    <3>2. \A d \in Clients : d # c => seen'[d] = seen[d]
      BY <2>2 DEF AnswerJSON, TypeOK
    <3> QED
      BY <3>1, <3>2
  <2>3. ASSUME NEW r \in Request, Open(c, r)
        PROVE  Off
    <3>1. log' = log /\ seen' = seen /\ conn'[c].pc = "opened"
      BY <2>3 DEF Open, TypeOK, Conn
    <3>2. \A d \in Clients : d # c => conn'[d] = conn[d] /\ pipe'[d] = pipe[d]
      BY <2>3 DEF Open, TypeOK
    <3> QED
      BY <3>1, <3>2
  <2>4. CASE Drop(c)
    BY <2>4 DEF Drop, NoConn, TypeOK
  <2> QED
    BY <2>1, <2>2, <2>3, <2>4
<1>2. SkipsNone(c)'
  BY <1>1 DEF SkipsNone
<1> QED
  BY <1>1, <1>2, SkipElsewhere

LEMMA SkipStep ==
    ASSUME TypeOK, Monotone, SkipInv, [Next]_vars
    PROVE  SkipInv'
<1>1. CASE UNCHANGED vars
  <2>1. ValidVersions' = ValidVersions
    BY <1>1 DEF ValidVersions, IsValid, vars
  <2> QED
    BY <1>1, <2>1 DEF SkipInv, SkipsNone, vars
<1>2. ASSUME NEW doc \in Docs, NEW ttl \in TTLs, Upload(doc, ttl)
      PROVE  SkipInv'
  <2>1. [doc |-> doc, ttl |-> ttl] \in Entry
    BY DEF Entry
  <2> QED
    BY <1>2, <2>1, SkipWrite DEF Upload
<1>3. CASE WriteOther
  BY <1>3, SkipWrite DEF WriteOther
<1> QED
  BY <1>1, <1>2, <1>3, SkipStart, SkipDeliver, SkipReceive, SkipOff DEF Next

\* No stream passes over a valid version its watch covers, sends it twice or out of
\* order, whatever entries do not validate in between (serveSSE's loop over wr.Events).
THEOREM NothingSkipped == Spec => []NoUpdateSkipped
<1>1. Init => TypeOK /\ Monotone /\ SkipInv
  BY TypeInit, MonotoneInit DEF Init, SkipInv, SkipsNone, NoConn
<1>2. TypeOK /\ Monotone /\ SkipInv /\ [Next]_vars => (TypeOK /\ Monotone /\ SkipInv)'
  BY StepType, MonotoneStep, SkipStep
<1>3. TypeOK /\ SkipInv => NoUpdateSkipped
  <2> SUFFICES ASSUME TypeOK, SkipInv, NEW c \in Clients, conn[c].pc = "streaming"
               PROVE  /\ \A v \in conn[c].start..(conn[c].next - 1) :
                           IsValid(v) /\ v > seen[c] => v \in Range(pipe[c])
                      /\ \A i \in DOMAIN pipe[c] : pipe[c][i] >= conn[c].start =>
                           /\ IsValid(pipe[c][i]) /\ seen[c] < pipe[c][i]
                           /\ pipe[c][i] < conn[c].next
                           /\ \A h \in 1..(i - 1) : pipe[c][h] < pipe[c][i]
    BY DEF NoUpdateSkipped
  <2>1. Covers(pipe[c], conn[c].start, conn[c].next, seen[c], ValidVersions)
    BY DEF SkipInv, SkipsNone
  <2>2. \A v : IsValid(v) => v \in ValidVersions
    BY DEF IsValid, ValidVersions
  <2>3. \A v \in ValidVersions : IsValid(v)
    BY DEF ValidVersions
  <2>4. ASSUME NEW v \in conn[c].start..(conn[c].next - 1)
        PROVE  conn[c].start <= v /\ v < conn[c].next
    BY StreamTypes
  <2> QED
    BY <2>1, <2>2, <2>3, <2>4, StreamTypes DEF Covers
<1> QED
  BY <1>1, <1>2, <1>3, PTL DEF Spec
=============================================================================
