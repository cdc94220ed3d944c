---------------------------- MODULE MCUDThreads ----------------------------
(* A small instance of UDThreads for TLC. *)
EXTENDS UDThreads
=============================================================================
