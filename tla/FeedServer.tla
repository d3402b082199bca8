----------------------------- MODULE FeedServer -----------------------------
(***************************************************************************)
(* The server of one feed: the etcd key it is stored under, the upload     *)
(* tool that writes it and the HTTP handler that answers JSON and SSE      *)
(* requests from it (internal/server/httpapi/handler.go,                   *)
(* internal/upload/upload.go, internal/etcd/store.go).                     *)
(*                                                                         *)
(* A version of the feed is its position in the sequence of etcd events of *)
(* the key.  An event stream is the handler goroutine (its Get, its watch, *)
(* its loop) and the bytes in flight to the client; either end may give up *)
(* at any time.  Requests for other paths are refused before any state is  *)
(* read and are left out, as are stores without Watch and writers without  *)
(* Flush, which this server does not have.                                 *)
(***************************************************************************)
EXTENDS Naturals, Sequences, SequencesExt

CONSTANTS
    Clients,     \* HTTP clients of this feed
    Docs,        \* feed documents or ciphertexts
    TTLs,        \* ttl_seconds values
    Corrupt,     \* a stored value that fails decodeAndValidateEntry
    Deleted,     \* a deletion of the key
    MaxWrites    \* bound: etcd events of the key explored

Entry == [doc: Docs, ttl: TTLs]

ASSUME ServerAssumption ==
    /\ MaxWrites \in Nat
    /\ Corrupt \notin Entry /\ Deleted \notin Entry

VARIABLES
    log,      \* the etcd events of the key, in order
    conn,     \* the handler goroutine of each client's stream
    pipe,     \* the versions written to the stream and not read yet
    seen,     \* the version each client has, 0 before the first
    reply     \* the last JSON answer each client got

vars == <<log, conn, pipe, seen, reply>>

\* start: the first event the watch reports; next: the next one to report.
Conn == [pc: {"none", "opened", "streaming"}, start: Nat, next: Nat]
NoConn == [pc |-> "none", start |-> 0, next |-> 0]
Reply == {"none", "json", "not modified", "retriable", "terminal"}

Method == {"GET", "HEAD", "other"}
Media == {"json", "sse", "other"}
Request == [method: Method, accept: SUBSET Media, conditional: BOOLEAN]

-----------------------------------------------------------------------------
(* The stored feed *)

Version == Len(log)
IsValid(v) == v \in 1..Len(log) /\ log[v] \in Entry

\* An absent key reads like a deleted one.
Stored == IF log = <<>> THEN Deleted ELSE log[Len(log)]

\* ComputeRevision hashes the document or the ciphertext, nothing else.
Revision(e) == e.doc

(* Routing *)

\* SSE wins over JSON when both are accepted; no Accept at all is neither.
ResponseMode(accept) ==
    IF "sse" \in accept THEN "sse" ELSE IF "json" \in accept THEN "json" ELSE "other"

Streams(r) == ResponseMode(r.accept) = "sse" /\ r.method = "GET"
AsksJSON(r) == ResponseMode(r.accept) = "json" /\ r.method \in {"GET", "HEAD"}

-----------------------------------------------------------------------------
Init ==
    /\ log = <<>>
    /\ conn = [c \in Clients |-> NoConn]
    /\ pipe = [c \in Clients |-> <<>>]
    /\ seen = [c \in Clients |-> 0]
    /\ reply = [c \in Clients |-> "none"]

Write(e) ==
    /\ Len(log) < MaxWrites
    /\ log' = Append(log, e)
    /\ UNCHANGED <<conn, pipe, seen, reply>>

\* wg-feed-upload: build the entry and Put it.
Upload(doc, ttl) == Write([doc |-> doc, ttl |-> ttl])

\* Other writers of the etcd key: an entry that does not validate, a deletion.
WriteOther == \E e \in {Corrupt, Deleted} : Write(e)

\* 405 and 406: refused whatever is stored.
Refuse(c, r) ==
    /\ conn[c].pc = "none"
    /\ ~Streams(r) /\ ~AsksJSON(r)
    /\ reply' = [reply EXCEPT ![c] = "terminal"]
    /\ UNCHANGED <<log, conn, pipe, seen>>

\* The Get fails or times out (500), the key is absent (404), or the entry does
\* not validate (500): the same for JSON and SSE requests.
Fail(c, r) ==
    /\ conn[c].pc = "none"
    /\ Streams(r) \/ AsksJSON(r)
    /\ \/ reply' = [reply EXCEPT ![c] = "retriable"]
       \/ Stored = Deleted /\ reply' = [reply EXCEPT ![c] = "terminal"]
    /\ UNCHANGED <<log, conn, pipe, seen>>

\* 304 for the client's own revision, else 200 with the entry; HEAD has no body.
AnswerJSON(c, r) ==
    LET matches == /\ r.conditional /\ seen[c] # 0
                   /\ Revision(log[seen[c]]) = Revision(Stored)
    IN  /\ conn[c].pc = "none"
        /\ AsksJSON(r) /\ IsValid(Version)
        /\ reply' = [reply EXCEPT ![c] = IF matches THEN "not modified" ELSE "json"]
        /\ seen' = IF matches \/ r.method = "HEAD" THEN seen
                   ELSE [seen EXCEPT ![c] = Version]
        /\ UNCHANGED <<log, conn, pipe>>

\* Mutant: what is stored is put on the stream also when it does not validate.
OpenUnvalidated(c, r) ==
    /\ conn[c].pc = "none" /\ Streams(r)
    /\ conn' = [conn EXCEPT ![c].pc = "opened"]
    /\ pipe' = [pipe EXCEPT ![c] = <<IF IsValid(Version) THEN Version ELSE Stored>>]
    /\ UNCHANGED <<log, seen, reply>>

\* serveSSE up to its first event: Get, validate, write the entry.
Open(c, r) ==
    /\ conn[c].pc = "none"
    /\ Streams(r) /\ IsValid(Version)
    /\ conn' = [conn EXCEPT ![c].pc = "opened"]
    /\ pipe' = [pipe EXCEPT ![c] = <<Version>>]
    /\ UNCHANGED <<log, seen, reply>>

\* Mutant: the watch replays the key's events from the first one.
StartWatchFromFirst(c) ==
    /\ conn[c].pc = "opened"
    /\ conn' = [conn EXCEPT ![c] = [pc |-> "streaming", start |-> 1, next |-> 1]]
    /\ UNCHANGED <<log, pipe, seen, reply>>

\* Watch without a revision: etcd reports the events after the one the key has
\* when the watch is created.
StartWatch(c) ==
    /\ conn[c].pc = "opened"
    /\ conn' = [conn EXCEPT ![c] =
          [pc |-> "streaming", start |-> Len(log) + 1, next |-> Len(log) + 1]]
    /\ UNCHANGED <<log, pipe, seen, reply>>

\* Mutant: an entry that does not validate ends the batch it came in.
DeliverDropsBatch(c) ==
    /\ conn[c].pc = "streaming" /\ conn[c].next <= Len(log)
    /\ IF IsValid(conn[c].next)
       THEN /\ pipe' = [pipe EXCEPT ![c] = Append(@, conn[c].next)]
            /\ conn' = [conn EXCEPT ![c].next = @ + 1]
       ELSE /\ conn' = [conn EXCEPT ![c].next = Len(log) + 1]
            /\ UNCHANGED pipe
    /\ UNCHANGED <<log, seen, reply>>

\* Mutant: an entry that does not validate is tried again.
DeliverRetries(c) ==
    /\ conn[c].pc = "streaming" /\ conn[c].next <= Len(log)
    /\ IsValid(conn[c].next)
    /\ pipe' = [pipe EXCEPT ![c] = Append(@, conn[c].next)]
    /\ conn' = [conn EXCEPT ![c].next = @ + 1]
    /\ UNCHANGED <<log, seen, reply>>

\* One event of the watch: a valid put is written to the stream, a deletion or
\* an entry that does not validate is passed over.
Deliver(c) ==
    /\ conn[c].pc = "streaming" /\ conn[c].next <= Len(log)
    /\ pipe' = IF IsValid(conn[c].next)
               THEN [pipe EXCEPT ![c] = Append(@, conn[c].next)] ELSE pipe
    /\ conn' = [conn EXCEPT ![c].next = @ + 1]
    /\ UNCHANGED <<log, seen, reply>>

\* The client reads one event off its stream.
Receive(c) ==
    /\ pipe[c] # <<>>
    /\ seen' = [seen EXCEPT ![c] = Head(pipe[c])]
    /\ pipe' = [pipe EXCEPT ![c] = Tail(@)]
    /\ UNCHANGED <<log, conn, reply>>

\* The client goes away, a write or the watch fails, the server restarts; what
\* was in flight is lost.
Drop(c) ==
    /\ conn[c].pc # "none"
    /\ conn' = [conn EXCEPT ![c] = NoConn]
    /\ pipe' = [pipe EXCEPT ![c] = <<>>]
    /\ UNCHANGED <<log, seen, reply>>

Next ==
    \/ \E doc \in Docs, ttl \in TTLs : Upload(doc, ttl)
    \/ WriteOther
    \/ \E c \in Clients :
         \/ \E r \in Request : Refuse(c, r) \/ Fail(c, r) \/ AnswerJSON(c, r) \/ Open(c, r)
         \/ StartWatch(c) \/ Deliver(c) \/ Receive(c) \/ Drop(c)

Spec == Init /\ [][Next]_vars

\* An open stream is served: its goroutine and etcd's watch run, bytes arrive.
FairSpec ==
    Spec /\ \A c \in Clients :
              WF_vars(StartWatch(c)) /\ WF_vars(Deliver(c)) /\ WF_vars(Receive(c))

-----------------------------------------------------------------------------
(* Properties *)

\* The log, the goroutines, the pipes and the clients have their types.
TypeOK ==
    /\ log \in Seq(Entry \cup {Corrupt, Deleted})
    /\ conn \in [Clients -> Conn]
    /\ pipe \in [Clients -> Seq(Nat)]
    /\ seen \in [Clients -> Nat]
    /\ reply \in [Clients -> Reply]

\* Once its watch is on, a stream passes over no valid version: what the watch has
\* reported and the client has not read is in flight, once and in order, behind at
\* most the first event; and nothing else is (serveSSE's loop over wr.Events).
NoUpdateSkipped ==
    \A c \in Clients : conn[c].pc = "streaming" =>
      /\ \A v \in conn[c].start..(conn[c].next - 1) :
           IsValid(v) /\ v > seen[c] => v \in Range(pipe[c])
      /\ \A i \in DOMAIN pipe[c] : pipe[c][i] >= conn[c].start =>
           /\ IsValid(pipe[c][i]) /\ seen[c] < pipe[c][i] /\ pipe[c][i] < conn[c].next
           /\ \A h \in 1..(i - 1) : pipe[c][h] < pipe[c][i]

\* A client never sees an older version after a newer one, whatever it mixes of
\* polling, streaming and reconnecting (Get before Watch, one event at a time).
View == INSTANCE FeedView WITH latest <- Len(log)
InOrder == View!Spec

\* A valid version the watch covers reaches the client, unless the stream ends.
Delivered ==
    \A c \in Clients, v \in 1..MaxWrites :
        conn[c].pc = "streaming" /\ IsValid(v) /\ v >= conn[c].start
          ~> seen[c] >= v \/ conn[c].pc # "streaming"

\* The draft's promise (section 3.2): a stream that has nothing left to deliver
\* has delivered the version the store holds.
StreamCurrent ==
    \A c \in Clients :
        /\ conn[c].pc = "streaming" /\ conn[c].next > Len(log) /\ pipe[c] = <<>>
        /\ IsValid(Version)
        => Revision(log[seen[c]]) = Revision(Stored)
=============================================================================
