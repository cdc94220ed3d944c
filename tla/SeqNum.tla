------------------------------- MODULE SeqNum -------------------------------
(***************************************************************************)
(* The arithmetic of the 16-bit sequence numbers of the InfiniBand UD      *)
(* transport.  The model numbers packets 0, 1, 2, ... without wrapping;    *)
(* Wrap(n) is what the uint16_t fields of the VC and of the packet header *)
(* hold.  Every comparison the code makes is made here on Wrap values.    *)
(***************************************************************************)
EXTENDS Integers, Sequences

CONSTANTS
    SeqMod,     \* number of sequence numbers, MAX_SEQ_NUM + 1 (65536)
    RecvWin     \* rdma_default_ud_recvwin_size (2501)

ASSUME SeqNumAssumption ==
    /\ SeqMod \in Nat
    /\ RecvWin \in Nat \ {0}
    /\ RecvWin + 2 < SeqMod

\* The uint16_t that holds the number n; -1 is the initial UINT16_MAX of
\* seqnum_next_toack.
Wrap(n) == (n + SeqMod) % SeqMod

\* val lies within [start, end], an interval that may wrap.
InclBetween(val, start, end) ==
    \/ start > end /\ (val >= start \/ val <= end)
    \/ end > start /\ (val >= start /\ val <= end)
    \/ end = start /\ end = val

\* Upper bound of the receive window that starts at start.  The code takes
\* MAX_SEQ_NUM off a bound that overflows, and not MAX_SEQ_NUM + 1: a window
\* that wraps is one number longer than one that does not.
RecvWinEnd(start) ==
    IF start + RecvWin > SeqMod - 1
    THEN start + RecvWin - (SeqMod - 1)
    ELSE start + RecvWin

InRecvWin(seq, start) == InclBetween(seq, start, RecvWinEnd(start))

-----------------------------------------------------------------------------
(* The out-of-order receive queue: a list of packets kept in the order of  *)
(* their sequence numbers, counted from the start of the window.           *)

\* The search loops of recv_window_add step over an item with number cur when
\* they look for the place of number v, in a list whose head has number head.
StepsOver(cur, v, head, start) ==
    IF v > start
    THEN head >= start /\ cur < v /\ cur > start
    ELSE IF head > start
         THEN cur >= start \/ cur < v
         ELSE cur < v

\* The search stops at position p of q (Len(q) + 1: it ran off the end).
SearchStopsAt(q, v, start, p) ==
    LET Over(i) == StepsOver(Wrap(q[i].seq), v, Wrap(q[1].seq), start)
    IN  /\ \A i \in 1..(p - 1) : Over(i)
        /\ p <= Len(q) => ~Over(p)

InsertBefore(q, p, item) ==
    [i \in 1..(Len(q) + 1) |->
        IF i < p THEN q[i] ELSE IF i = p THEN item ELSE q[i - 1]]

\* recv_window_add: the queue after packet item was offered to it when the
\* search stopped at p; a packet with a number already queued is dropped.
RecvWindowAdd(q, item, p) ==
    IF p <= Len(q) /\ Wrap(q[p].seq) = Wrap(item.seq)
    THEN q
    ELSE InsertBefore(q, p, item)
=============================================================================
