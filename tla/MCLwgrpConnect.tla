--------------------------- MODULE MCLwgrpConnect ---------------------------
(* Small instances of LwgrpConnect for TLC. *)
EXTENDS LwgrpConnect

\* A group of five (three rounds, none of them full), and then the two groups it
\* is split into, in another order of ranks.
FiveAndSplit == << <<"a", "b", "c", "d", "e">>, <<"e", "a", "c">>, <<"d", "b">> >>

\* Two groups of the same processes in another order.
Reordered == << <<"a", "b", "c", "d">>, <<"a", "d", "c", "b">> >>

\* Both are groups as lwgrp_split makes them, which is what the proofs assume.
ASSUME GroupsOfSplit == SplitOrder
=============================================================================
