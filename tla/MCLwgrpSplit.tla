---------------------------- MODULE MCLwgrpSplit ----------------------------
(* A small instance of LwgrpSplit for TLC. *)
EXTENDS LwgrpSplit

\* Five members whose keys turn their order around, with a tie between two and
\* a choice for the last.
TurnedKeys == [r \in 0..4 |-> IF r = 4 THEN {0, 3} ELSE {3 - r + (r \div 3)}]
=============================================================================
