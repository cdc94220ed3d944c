--------------------------- MODULE MCLwgrpCollect ---------------------------
(* A small instance of LwgrpCollect for TLC. *)
EXTENDS LwgrpCollect

\* The least room each form needs: one message per direction, or none.
LeastRoom == [eager |-> 1, blocking |-> 0]
=============================================================================
