---------------------------- MODULE MCUDConnect ----------------------------
(* Small instances of UDConnect for TLC: a client c and a server s. *)
EXTENDS UDConnect

Two == {"c", "s"}
Client == {"c"}

\* VCs: one connection that may be requested again; two connections, one after
\* or during the other; one connection.
OneTwo == [p \in Two |-> IF p = "c" THEN 1 ELSE 2]
TwoTwo == [p \in Two |-> 2]
OneOne == [p \in Two |-> 1]

\* DATA packets: none, or one from the client on each of its channels.
Silent == [p \in Two |-> 0]
ClientSpeaks == [p \in Two |-> IF p = "c" THEN 1 ELSE 0]
=============================================================================
