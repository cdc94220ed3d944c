--------------------------- MODULE ReliableChannel ---------------------------
(***************************************************************************)
(* What a spawn_net channel promises to the two programs it joins: each    *)
(* end reads exactly what the other end wrote, once, in the order written. *)
(* The packets an end writes are numbered 1, 2, 3, ...                     *)
(***************************************************************************)
EXTENDS Integers, Sequences

CONSTANTS
    Ends,       \* the two ends of the channel
    Peer(_)     \* the other end

VARIABLES
    written,    \* written[e]: how many packets end e has written
    delivered   \* delivered[e]: the packets end e has read, in order

cvars == <<written, delivered>>

ChanInit ==
    /\ written = [e \in Ends |-> 0]
    /\ delivered = [e \in Ends |-> <<>>]

ChanWrite(e) ==
    /\ written' = [written EXCEPT ![e] = @ + 1]
    /\ UNCHANGED delivered

ChanRead(e) ==
    /\ Len(delivered[e]) < written[Peer(e)]
    /\ delivered' = [delivered EXCEPT ![e] = Append(@, Len(@) + 1)]
    /\ UNCHANGED written

ChanNext == \E e \in Ends : ChanWrite(e) \/ ChanRead(e)

ChanSpec == ChanInit /\ [][ChanNext]_cvars
=============================================================================
