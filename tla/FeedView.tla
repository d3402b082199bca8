------------------------------ MODULE FeedView ------------------------------
(***************************************************************************)
(* What the server promises a client about one feed: the versions stored   *)
(* under the feed's key are numbered in the order they are written, and a  *)
(* client, however it asks (polling, streaming, reconnecting), sees some   *)
(* of them in that order and never an older one after a newer one.         *)
(***************************************************************************)
EXTENDS Naturals

CONSTANT Clients

VARIABLES
    latest,   \* the number of versions written so far
    seen      \* the version each client has, 0 before the first

Init ==
    /\ latest = 0
    /\ seen = [c \in Clients |-> 0]

Write ==
    /\ latest' = latest + 1
    /\ UNCHANGED seen

See(c) ==
    /\ \E v \in (seen[c] + 1)..latest : seen' = [seen EXCEPT ![c] = v]
    /\ UNCHANGED latest

Next == Write \/ \E c \in Clients : See(c)

Spec == Init /\ [][Next]_<<latest, seen>>
=============================================================================
