------------------------------ MODULE Responses ------------------------------
(***************************************************************************)
(* One HTTP response, from the entry that is uploaded to what the client   *)
(* takes it for: the JSON envelopes and their validation, and whether an   *)
(* answer brings a document, may be asked for again, or is final           *)
(* (internal/model, internal/upload, internal/server/httpapi/handler.go,   *)
(* internal/client/feed).                                                  *)
(*                                                                         *)
(* Both sides decode JSON with encoding/json, which drops unknown fields   *)
(* and gives absent ones their zero value, so one record stands for every  *)
(* object: a text is TRUE if it is there and not blank (a version, if it   *)
(* is wg-feed-00).  A body beyond the 4096 bytes an error may have is      *)
(* NotJSON.                                                                *)
(***************************************************************************)
EXTENDS Integers

\* What the age key of the setup URL makes of encrypted_data: it opens on a valid
\* document or on something else, does not open, or breaks off after it has opened.
Ciphertext == {"none", "opens", "opens on a bad document", "locked", "cut"}

Object ==
    [version: BOOLEAN, success: BOOLEAN, message: BOOLEAN, retriable: BOOLEAN,
     revision: BOOLEAN, ttl: Int, sse: BOOLEAN, encrypted: BOOLEAN,
     ciphertext: Ciphertext, data: {"none", "valid", "invalid"}]

\* status "none": no response at all.
Response ==
    [status: {"none", "200", "304", "other"}, media: {"json", "sse", "other"},
     json: BOOLEAN, body: Object]

\* An object none of whose fields is set.
Zero ==
    [version |-> FALSE, success |-> FALSE, message |-> FALSE, retriable |-> FALSE,
     revision |-> FALSE, ttl |-> 0, sse |-> FALSE, encrypted |-> FALSE,
     ciphertext |-> "none", data |-> "none"]

(* Validation *)

\* FeedDocument.Validate: rules about single texts, and the two others rely on, that
\* tunnel ids are unique (Reconcile) and an endpoint is listed (Endpoints).
DataValid(o) == o.data = "valid"

\* Either a ciphertext or a valid document.
PayloadValid(o) ==
    IF o.encrypted THEN o.ciphertext # "none" /\ o.data = "none"
                   ELSE o.ciphertext = "none" /\ DataValid(o)

\* FeedEntry: what is stored.
EntryValid(o) == o.revision /\ o.ttl >= 0 /\ PayloadValid(o)

SuccessValid(o) == o.version /\ o.success /\ o.revision /\ o.ttl >= 0 /\ PayloadValid(o)

ErrorValid(o) == o.version /\ ~o.success /\ o.message

(* The upload tool *)

\* Its input: a ciphertext it cannot look into, or a document.
Input ==
    [armored: {TRUE}, ciphertext: Ciphertext \ {"none"}]
      \cup [armored: {FALSE}, data: {"valid", "invalid"}]

\* ParseInput, ValidateTTLSeconds
Uploadable(input, ttl) == ttl >= 0 /\ (input.armored \/ input.data = "valid")

\* BuildStoreBodyJSON
Built(input, ttl) ==
    [Zero EXCEPT !.revision = TRUE, !.ttl = ttl, !.encrypted = input.armored,
                 !.ciphertext = IF input.armored THEN input.ciphertext ELSE "none",
                 !.data = IF input.armored THEN "none" ELSE input.data]

(* The server *)

\* entryToSuccessResponseJSON: the fields of a FeedEntry in an envelope.
Success(entry) ==
    [Zero EXCEPT !.version = TRUE, !.success = TRUE, !.revision = entry.revision,
                 !.ttl = entry.ttl, !.sse = TRUE, !.encrypted = entry.encrypted,
                 !.ciphertext = IF entry.encrypted THEN entry.ciphertext ELSE "none",
                 !.data = IF entry.encrypted THEN "none" ELSE entry.data]

\* writeError
Error(retriable) ==
    [status |-> "other", media |-> "json", json |-> TRUE,
     body |-> [Zero EXCEPT !.version = TRUE, !.message = TRUE, !.retriable = retriable]]

(* The client *)

\* DecryptFeedDocumentForSetupURL: no key and a ciphertext or a plaintext that is
\* no good are final; a ciphertext that breaks off is an error like any other.
Opened(o) ==
    CASE ~o.encrypted \/ o.ciphertext = "opens" -> "document"
      [] o.encrypted /\ o.ciphertext \in {"opens on a bad document", "locked"} -> "terminal"
      [] OTHER -> "retriable"

\* A 200 or an event: decode, validate, decrypt.
Received(r) == IF r.json /\ SuccessValid(r.body) THEN Opened(r.body) ELSE "retriable"

\* Mutant: an error in JSON is taken as it comes.
RefusalUnchecked(r) ==
    IF r.media = "json" /\ r.json /\ ~r.body.retriable THEN "terminal" ELSE "retriable"

\* Any other status is final only if a wg-feed error envelope says so.
Refusal(r) ==
    IF r.media = "json" /\ r.json /\ ErrorValid(r.body) /\ ~r.body.retriable
    THEN "terminal" ELSE "retriable"

\* fetchSuccessResponse, FetchWithDecryptURL
Fetch(r) ==
    CASE r.status = "304" -> "not modified"
      [] r.status = "200" -> Received(r)
      [] r.status = "other" -> Refusal(r)
      [] r.status = "none" -> "retriable"

\* StreamSSE, up to its first event: anything but a 200 is taken as a refusal, and
\* a 200 of another type as an endpoint without streams.
Open(r) ==
    CASE r.status = "200" -> IF r.media = "sse" THEN "stream" ELSE "not a stream"
      [] r.status = "none" -> "retriable"
      [] OTHER -> Refusal(r)
=============================================================================
