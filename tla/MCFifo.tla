------------------------------- MODULE MCFifo -------------------------------
(* A small instance of Fifo for TLC: two processes that connect to each other, *)
(* one of which opens its pipe twice.                                          *)
EXTENDS Fifo

Two == {"a", "b"}
BTwice == [p \in Two |-> IF p = "b" THEN 2 ELSE 1]
=============================================================================
