-------------------------- MODULE MCVirtualChannel --------------------------
(* Small instances of VirtualChannel for TLC. *)
EXTENDS VirtualChannel

\* The connector streams past the wrap of the sequence numbers.
WrapWrites == [e \in Ends |-> IF e = "conn" THEN 6 ELSE 0]

\* The connector writes one packet more than the send window holds.
LiveWrites == [e \in Ends |-> IF e = "conn" THEN 2 ELSE 0]
=============================================================================
