--------------------------- MODULE ResponsesProofs ---------------------------
(***************************************************************************)
(* The two ends of the wire agree: the validation of what is stored, the   *)
(* envelopes the server writes and the way the client takes them.          *)
(***************************************************************************)
EXTENDS Responses, TLAPS

\* What the server sends when it serves an entry, to a fetch or as an event.
Served(media, entry) ==
    [status |-> "200", media |-> media, json |-> TRUE, body |-> Success(entry)]

\* An entry that is valid makes an envelope that is valid and carries the same
\* payload (entryToSuccessResponseJSON validates again, and never refuses).
LEMMA EnvelopeValid ==
    ASSUME NEW e \in Object, EntryValid(e)
    PROVE  /\ SuccessValid(Success(e))
           /\ Success(e).encrypted = e.encrypted
           /\ e.encrypted => Success(e).ciphertext = e.ciphertext
  BY DEF Object, EntryValid, SuccessValid, PayloadValid, DataValid, Success, Zero

\* What the upload tool stores, the server takes for a valid entry: no upload takes a
\* feed away from the clients it has (ParseInput, BuildStoreBodyJSON;
\* decodeAndValidateEntry).
THEOREM UploadsValid ==
    ASSUME NEW input \in Input, NEW ttl \in Int, Uploadable(input, ttl)
    PROVE  Built(input, ttl) \in Object /\ EntryValid(Built(input, ttl))
  BY DEF Input, Uploadable, Built, Zero, Object, Ciphertext, EntryValid, PayloadValid, DataValid

\* Whatever entry is stored, if the server accepts it the client accepts the response:
\* a document in clear arrives, a ciphertext is judged by the key alone, a stream is
\* taken as one and JSON as an endpoint without streams; and an error of the server is
\* final to the client exactly if the server calls it not retriable
\* (decodeAndValidateEntry, writeError; fetchSuccessResponse, StreamSSE).
THEOREM ServerUnderstood ==
    /\ \A e \in Object : EntryValid(e) =>
         /\ Fetch(Served("json", e)) = Opened(e)
         /\ Open(Served("sse", e)) = "stream" /\ Received(Served("sse", e)) = Opened(e)
         /\ Open(Served("json", e)) = "not a stream"
         /\ ~e.encrypted => Opened(e) = "document"
    /\ \A retriable \in BOOLEAN :
         LET outcome == IF retriable THEN "retriable" ELSE "terminal"
         IN  Fetch(Error(retriable)) = outcome /\ Open(Error(retriable)) = outcome
<1>1. ASSUME NEW e \in Object, EntryValid(e)
      PROVE  /\ Fetch(Served("json", e)) = Opened(e)
             /\ Open(Served("sse", e)) = "stream" /\ Received(Served("sse", e)) = Opened(e)
             /\ Open(Served("json", e)) = "not a stream"
             /\ ~e.encrypted => Opened(e) = "document"
  <2>1. SuccessValid(Success(e))
    BY <1>1, EnvelopeValid
  <2>2. Opened(Success(e)) = Opened(e)
    BY <1>1, EnvelopeValid DEF Opened
  <2>3. \A media \in {"json", "sse"} : Received(Served(media, e)) = Opened(e)
    BY <2>1, <2>2 DEF Served, Received
  <2>4. \A media \in {"json", "sse"} :
           Served(media, e).status = "200" /\ Served(media, e).media = media
    BY DEF Served
  <2>5. ~e.encrypted => Opened(e) = "document"
    BY DEF Opened
  <2> QED
    BY <2>3, <2>4, <2>5 DEF Fetch, Open
<1>2. ASSUME NEW retriable \in BOOLEAN
      PROVE  LET outcome == IF retriable THEN "retriable" ELSE "terminal"
             IN  Fetch(Error(retriable)) = outcome /\ Open(Error(retriable)) = outcome
  <2>1. Refusal(Error(retriable)) = IF retriable THEN "retriable" ELSE "terminal"
    BY DEF Refusal, Error, ErrorValid, Zero
  <2>2. Error(retriable).status = "other"
    BY DEF Error
  <2> QED
    BY <2>1, <2>2 DEF Fetch, Open
<1> QED
  BY <1>1, <1>2

\* A response is final to a fetch exactly if it is a valid wg-feed error that says so,
\* or a valid response whose ciphertext the key does not open or opens on something
\* that is no document: nothing an intermediary answers in its own name, no status by
\* itself, no lost connection and no ciphertext that is broken off is, and nothing the
\* draft calls final is asked for again (draft sections 3.4 and 3.5).
THEOREM FinalOnlyIfSaid ==
    ASSUME NEW r \in Response
    PROVE  Fetch(r) = "terminal" <=>
             \/ /\ r.status = "other" /\ r.media = "json" /\ r.json
                /\ ErrorValid(r.body) /\ ~r.body.retriable
             \/ /\ r.status = "200" /\ r.json /\ SuccessValid(r.body) /\ r.body.encrypted
                /\ r.body.ciphertext \in {"locked", "opens on a bad document"}
  BY DEF Response, Fetch, Received, Refusal, Opened
=============================================================================
