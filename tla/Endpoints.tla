----------------------------- MODULE Endpoints -----------------------------
(***************************************************************************)
(* One feed and the endpoints[] its document lists: the preference order   *)
(* kept in the state file as salted hashes, the passes of the daemon over  *)
(* the endpoints (bootstrap, stream, the fetch after a refused stream,     *)
(* poll) and what ends them (internal/client/feed/endpoints.go,            *)
(* internal/client/state/bootstrap_url_map.go; the loops of                *)
(* internal/daemon/daemon.go that call them).                              *)
(*                                                                         *)
(* The salted hash of a URL ignores its fragment, so the setup URL has the *)
(* key of the endpoint it differs from by the age key only.  What an       *)
(* endpoint answers is a property of its key: the fragment is not sent.    *)
(* Answers are those of module Responses, and carry the document that is   *)
(* published when they are given.  Documents are reduced to their          *)
(* endpoints; reconciling them is module Reconcile, the claims and failed  *)
(* updates are module Daemon.                                              *)
(***************************************************************************)
EXTENDS Responses, Sequences, FiniteSets, SequencesExt

CONSTANTS
    URLs,        \* the setup URL and the endpoints
    Setup,       \* the setup URL
    Keys,        \* salted hashes
    Key,         \* the hash of a URL
    Docs,        \* the endpoints[] of the documents that may be published
    Answers,     \* what endpoints may answer
    MaxChanges,  \* bound: publications, changes of answers, restarts explored
    None         \* no URL

\* The responses to a request for JSON and to one for a stream; the body of a stream
\* is that of its next event.
Answer == [fetch: Response, stream: Response]

ASSUME EndpointsAssumption ==
    /\ Setup \in URLs /\ None \notin URLs
    /\ Key \in [URLs -> Keys]
    /\ Docs \subseteq Seq(URLs) \ {<<>>}
    /\ Answers \subseteq Answer /\ MaxChanges \in Nat

\* No endpoint sends a 304 that was not asked for.
ASSUME AnswersAssumption == \A a \in Answers : Fetch(a.fetch) # "not modified"

VARIABLES
    doc,        \* the endpoints of the document published now
    answer,     \* what each endpoint answers now
    order,      \* EndpointOrder of the feed in the state file
    cache,      \* the endpoints of the cached ciphertext, <<>> without one
    endpoints,  \* the loop's endpoints
    known,      \* the endpoints of the document received last, <<>> at first
    mode,       \* what the loop does
    pass,       \* its pass over the endpoints
    last,       \* the URL that delivered the last document
    refused,    \* the URLs whose answer in this pass was final
    changes     \* publications, changes of answers and restarts so far

vars == <<doc, answer, order, cache, endpoints, known, mode, pass, last, refused, changes>>
published == <<doc, answer>>
learned == <<order, cache, endpoints, known, last>>

\* open: the stream of endpoint i is open.
Pass == [kind: {"none", "boot", "stream", "fallback", "poll"}, list: Seq(URLs),
         i: Nat, open: BOOLEAN, terminals: Nat]
NoPass == [kind |-> "none", list |-> <<>>, i |-> 0, open |-> FALSE, terminals |-> 0]

-----------------------------------------------------------------------------
(* The stored order *)

\* What the lists below are lists of.
Items == URLs \cup Keys

\* The elements of s at the indices I, in their order.
Picked[s \in Seq(Items)] ==
    [I \in SUBSET Nat |->
        LET rank(i) == Cardinality({j \in I : j <= i})
        IN  [k \in 1..Cardinality(I) |-> s[CHOOSE i \in I : rank(i) = k]]]

\* The elements that are in S.
Only[s \in Seq(Items)] ==
    [S \in SUBSET Items |-> Picked[s][{i \in DOMAIN s : s[i] \in S}]]

\* The sequence without its repetitions (normalizeEndpoints; the sets `seen` and `used`).
Unique[s \in Seq(Items)] == Picked[s][{i \in DOMAIN s : \A j \in 1..(i - 1) : s[j] # s[i]}]

KeySeq(es) == [i \in DOMAIN es |-> Key[es[i]]]
KeysOf(es) == ToSet(KeySeq(es))

\* orderEndpointsByHashes: the preferred endpoints first, then the others.
Ordered(preferred, es) ==
    LET FirstWith(k) == es[CHOOSE i \in DOMAIN es :
                             Key[es[i]] = k /\ \A j \in 1..(i - 1) : Key[es[j]] # k]
        found == Only[preferred][KeysOf(es)]
        front == Unique[[i \in DOMAIN found |-> FirstWith(found[i])]]
    IN  front \o Only[es][URLs \ ToSet(front)]

\* Mutant: the URL itself is kept for the endpoint that is promoted.
ReconciledURL(existing, es, promoted) ==
    Unique[<<promoted>> \o Only[existing][KeysOf(es)] \o KeySeq(es)]

\* Mutant: keys the document no longer lists are kept.
ReconciledKeepsOld(existing, es, promoted) ==
    Unique[Only[<<Key[promoted]>>][KeysOf(es)] \o existing \o KeySeq(es)]

\* Mutant: nothing is promoted once there is an order.
ReconciledNoPromotion(existing, es, promoted) ==
    Unique[Only[existing][KeysOf(es)] \o KeySeq(es)]

\* reconcileEndpointOrderHashes: the promoted endpoint if the document lists it,
\* the keys known before that it lists, the rest of its keys.
Reconciled(existing, es, promoted) ==
    Unique[Only[<<Key[promoted]>>][KeysOf(es)] \o Only[existing][KeysOf(es)] \o KeySeq(es)]

-----------------------------------------------------------------------------
Init ==
    /\ doc \in Docs
    /\ answer \in [Keys -> Answers]
    /\ order = <<>> /\ cache = <<>> /\ endpoints = <<>> /\ known = <<>>
    /\ mode = "stream" /\ pass = NoPass
    /\ last = None /\ refused = {}
    /\ changes = 0

Tried == pass.list[pass.i]
Trying(kinds) == pass.kind \in kinds /\ ~pass.open /\ pass.i \in 1..Len(pass.list)

\* What the endpoint in turn answers, and what the client makes of it.
Reply == IF pass.kind = "stream" THEN answer[Key[Tried]].stream ELSE answer[Key[Tried]].fetch
Gets(kinds, outcome) ==
    Trying(kinds) /\ outcome = IF pass.kind = "stream" THEN Open(Reply) ELSE Fetch(Reply)

\* The stream of the endpoint in turn opens, or is open, and brings an event.
Brings(outcome) ==
    /\ pass.kind = "stream" /\ (pass.open \/ Trying({"stream"}))
    /\ Open(Reply) = "stream" /\ Received(Reply) = outcome

Begin(kind, es) ==
    /\ pass' = [NoPass EXCEPT !.kind = kind, !.list = Unique[es], !.i = 1]
    /\ refused' = {}

\* The published document arrives: applyRemoteUpdate's promotion of the endpoint and
\* the cached ciphertext, and the loop's endpoints.
Update ==
    /\ endpoints' = doc /\ known' = doc /\ last' = Tried
    /\ order' = Reconciled(order, doc, Tried)
    /\ cache' = IF Reply.body.encrypted THEN doc ELSE <<>>

(* Passes *)

BeginBoot ==
    /\ mode = "stream" /\ pass = NoPass /\ endpoints = <<>>
    /\ Begin("boot", <<Setup>>)
    /\ UNCHANGED <<published, learned, mode, changes>>

BeginStream ==
    /\ mode = "stream" /\ pass = NoPass /\ endpoints # <<>>
    /\ Begin("stream", endpoints)
    /\ UNCHANGED <<published, learned, mode, changes>>

\* Only a poll reads the stored order.
BeginPoll ==
    /\ mode = "poll" /\ pass = NoPass
    /\ endpoints' = Ordered(order, endpoints)
    /\ Begin("poll", endpoints')
    /\ UNCHANGED <<published, order, cache, known, last, mode, changes>>

\* A fetch that succeeds ends its pass.
Fetched ==
    /\ Gets({"boot", "poll"}, "document")
    /\ Update
    /\ pass' = NoPass
    /\ UNCHANGED <<published, mode, refused, changes>>

\* 304: the loop has this revision already.
NotModified ==
    /\ Gets({"poll"}, "document") /\ known = doc
    /\ pass' = NoPass
    /\ UNCHANGED <<published, learned, mode, refused, changes>>

\* A stream opens with the published document, and later brings the next one.
Streamed ==
    /\ Brings("document") /\ (pass.open => known # doc)
    /\ Update
    /\ pass' = [pass EXCEPT !.open = TRUE]
    /\ UNCHANGED <<published, mode, refused, changes>>

\* An event that does not decode, validate or decrypt, but is not final: the callback
\* logs it and returns nil, and the stream stays open.
EventIgnored ==
    /\ Brings("retriable") /\ ~pass.open
    /\ pass' = [pass EXCEPT !.open = TRUE]
    /\ UNCHANGED <<published, learned, mode, refused, changes>>

\* ErrStreamNotSupported: the pass ends at once, a fetch follows.
NotStreamed ==
    /\ Gets({"stream"}, "not a stream")
    /\ Begin("fallback", endpoints)
    /\ UNCHANGED <<published, learned, mode, changes>>

\* That fetch only looks at supports_sse.
FallbackFetched ==
    /\ Gets({"fallback"}, "document")
    /\ mode' = IF Reply.body.sse THEN "stream" ELSE "poll"
    /\ pass' = NoPass
    /\ UNCHANGED <<published, learned, refused, changes>>

\* What the draft calls final (sections 3.4.1 and 3.5): a wg-feed error that is not
\* retriable, a document the client has no key for or that is none.
Final(r) ==
    \/ /\ r.status \notin {"none", "200"} /\ r.json /\ ErrorValid(r.body)
       /\ ~r.body.retriable
    \/ /\ r.status = "200" /\ r.json /\ r.body.encrypted
       /\ r.body.ciphertext \in {"locked", "opens on a bad document"}

\* An endpoint fails in one of two ways, and the pass goes on to the next one.
Fails(terminal) ==
    /\ pass' = [pass EXCEPT !.i = @ + 1, !.open = FALSE,
                            !.terminals = IF terminal THEN @ + 1 ELSE @]
    /\ refused' = IF Final(Reply) THEN refused \cup {Tried} ELSE refused
    /\ UNCHANGED <<published, learned, mode, changes>>

\* Mutant: a terminal answer ends the pass.
AnswersBadlyAborts ==
    \E outcome \in {"retriable", "terminal"} :
      /\ Gets({"boot", "stream", "fallback", "poll"}, outcome)
      /\ pass' = [pass EXCEPT !.i = IF outcome = "terminal" THEN Len(pass.list) + 1 ELSE @ + 1]
      /\ UNCHANGED <<published, learned, mode, refused, changes>>

AnswersBadly ==
    \E outcome \in {"retriable", "terminal"} :
      /\ Gets({"boot", "stream", "fallback", "poll"}, outcome)
      /\ Fails(outcome = "terminal")

\* The document a stream brings does not decrypt: its callback ends it.
StreamRefused == Brings("terminal") /\ Fails(TRUE)

\* An open stream breaks, or the update it brought fails.
StreamEnds == pass.open /\ Fails(FALSE)

\* Every endpoint failed: the loop stops if all refused for good, a fallback goes
\* on to poll, and otherwise there is another pass after a delay.
GiveUp ==
    /\ pass.kind # "none" /\ pass.i > Len(pass.list)
    /\ mode' = CASE pass.kind = "fallback" -> "poll"
                 [] pass.kind # "fallback" /\ pass.terminals = Len(pass.list) -> "stopped"
                 [] OTHER -> mode
    /\ pass' = NoPass
    /\ UNCHANGED <<published, learned, refused, changes>>

Change == changes < MaxChanges /\ changes' = changes + 1

\* A restart: the endpoints come from the cached ciphertext, in the stored order.
Crash ==
    /\ Change
    /\ endpoints' = Ordered(order, cache)
    /\ known' = <<>> /\ mode' = "stream" /\ pass' = NoPass /\ refused' = {}
    /\ UNCHANGED <<published, order, cache, last>>

(* The operator and the servers *)

Publish ==
    /\ Change
    /\ doc' \in Docs \ {doc}
    /\ UNCHANGED <<answer, learned, mode, pass, refused>>

Turn(k) ==
    /\ Change
    /\ \E a \in Answers \ {answer[k]} : answer' = [answer EXCEPT ![k] = a]
    /\ UNCHANGED <<doc, learned, mode, pass, refused>>

LoopStep ==
    \/ BeginBoot \/ BeginStream \/ BeginPoll
    \/ Fetched \/ NotModified \/ Streamed \/ EventIgnored \/ NotStreamed
    \/ FallbackFetched \/ AnswersBadly \/ StreamRefused \/ GiveUp

Next ==
    \/ LoopStep \/ StreamEnds \/ Crash
    \/ Publish \/ \E k \in Keys : Turn(k)

Spec == Init /\ [][Next]_vars

\* The end of the stream of an endpoint that does not serve it any more.
Breaks == pass.open /\ Open(Reply) # "stream" /\ StreamEnds

\* The loop is scheduled and its delays end; a broken connection is noticed.
FairSpec == Spec /\ WF_vars(LoopStep) /\ WF_vars(Breaks)

-----------------------------------------------------------------------------
(* Properties *)

\* The variables have their types.
TypeOK ==
    /\ doc \in Docs /\ cache \in Docs \cup {<<>>} /\ known \in Docs \cup {<<>>}
    /\ answer \in [Keys -> Answers]
    /\ order \in Seq(Keys) /\ endpoints \in Seq(URLs)
    /\ mode \in {"stream", "poll", "stopped"} /\ pass \in Pass
    /\ last \in URLs \cup {None} /\ refused \subseteq URLs
    /\ changes \in 0..MaxChanges

\* Whatever documents came and went, from whichever URL, and across restarts, the
\* stored order has the key of every endpoint in use once and no other key, so
\* ordering neither loses an endpoint nor brings back one that was withdrawn.
OrderFitsEndpoints ==
    endpoints # <<>> =>
      /\ ToSet(order) = KeysOf(endpoints)
      /\ Len(order) = Len(Unique[order])

\* A poll starts with the URL that delivered the last document, if the document
\* still lists it (draft section 4.4), also after a restart.
RecentFirst ==
    pass.kind = "poll" /\ Key[last] \in KeysOf(pass.list) =>
        Key[pass.list[1]] = Key[last]

\* A loop stops only after a pass in which every URL of its list was asked and gave an
\* answer the draft calls final (sections 3.4.1, 3.5 and 4.4), never because of what
\* an intermediary answers (terminalCount, AsWGFeedError, tryDecodeErrorResponse).
StopsOnlyWhenAllRefuse ==
    [][mode' = "stopped" /\ mode # "stopped" => refused = ToSet(pass.list)]_vars

\* An open stream brings events the client can make nothing of.
Held == pass.open /\ Open(Reply) = "stream" /\ Received(Reply) = "retriable"

\* Once the operator and the servers change nothing any more, a loop that does not
\* stop has the published document and keeps it, if an endpoint it knows of serves
\* it (draft section 4.4).  One endpoint can keep it from the others: one whose stream
\* stays open over events that do not decrypt (daemon.go:144-145 returns nil for them).
GetsDocument ==
    LET Works(a) == Fetch(a.fetch) = "document" /\ Open(a.stream) = "stream"
                      /\ Received(a.stream) = "document"
    IN  <>[](mode # "stopped" /\ ~Held
               /\ (\E e \in ToSet(endpoints) : Works(answer[Key[e]]))
               => known = doc)
=============================================================================
