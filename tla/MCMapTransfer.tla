---------------------------- MODULE MCMapTransfer ----------------------------
(* A small instance of MapTransfer for TLC. *)
EXTENDS MapTransfer

\* One key has values of two lengths, the others of one.
TwoForOne == [k \in Keys |-> IF k = 1 THEN {1, 3} ELSE {2}]

\* The owner of the map, and a client that sends a string and an empty one.
MapThenStrings == [c \in Clients |-> IF c = Owner THEN <<1>> ELSE <<2, 0>>]
=============================================================================
