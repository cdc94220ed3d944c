---------------------------- MODULE MCUDBuffers ----------------------------
(* Small instances of UDBuffers for TLC. *)
EXTENDS UDBuffers, TLC

\* What happens after a packet for a closing VC is not followed further.
NothingLate == late = {}

VCSymmetry == Permutations(VCs)
=============================================================================
