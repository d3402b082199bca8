---------------------------- MODULE MCEndpoints ----------------------------
(***************************************************************************)
(* Endpoints with a setup URL that differs from endpoint a by its          *)
(* fragment, and the answers of servers and of what may stand before them. *)
(***************************************************************************)
EXTENDS Endpoints, TLC

CONSTANTS setup, a, b, c, ka, kb, kc

KeyOf == (setup :> ka) @@ (a :> ka) @@ (b :> kb) @@ (c :> kc)

TwoKeys == (setup :> ka) @@ (a :> ka) @@ (b :> kb)

\* The second document drops a and lists b twice, which Validate lets pass.
TwoDocs == {<<a, b>>, <<b, c, b>>}
\* The second document is the first without b.
FewerDocs == {<<a, b>>, <<a>>}

Plain == [Zero EXCEPT !.revision = TRUE, !.data = "valid"]
Encrypted(state) == [Zero EXCEPT !.revision = TRUE, !.encrypted = TRUE, !.ciphertext = state]

OK(media, body) == [status |-> "200", media |-> media, json |-> TRUE, body |-> body]

\* The server with an encrypted feed: its stream begins with the document.
Works == [fetch |-> OK("json", Success(Encrypted("opens"))),
          stream |-> OK("sse", Success(Encrypted("opens")))]
\* A server of plain documents that has no streams, and says so.
NoStreams == LET r == OK("json", [Success(Plain) EXCEPT !.sse = FALSE])
             IN  [fetch |-> r, stream |-> r]
\* The server behind an intermediary that does not let streams through.
Buffered == [fetch |-> Works.fetch, stream |-> Works.fetch]
\* An intermediary's own error, in JSON.
BadGateway == LET r == [status |-> "other", media |-> "json", json |-> TRUE, body |-> Zero]
              IN  [fetch |-> r, stream |-> r]
\* The server without the feed.
Gone == [fetch |-> Error(FALSE), stream |-> Error(FALSE)]
\* The feed is encrypted for another key.
Locked == [fetch |-> OK("json", Success(Encrypted("locked"))),
           stream |-> OK("sse", Success(Encrypted("locked")))]
\* The published ciphertext breaks off, as an upload can leave it.
Cut == [fetch |-> OK("json", Success(Encrypted("cut"))),
        stream |-> OK("sse", Success(Encrypted("cut")))]

AllAnswers == {Works, NoStreams, BadGateway, Gone, Locked, Cut}
BufferedAnswers == {Works, Buffered}
=============================================================================
