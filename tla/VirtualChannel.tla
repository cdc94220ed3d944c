--------------------------- MODULE VirtualChannel ---------------------------
(***************************************************************************)
(* One virtual channel of the InfiniBand UD transport (spawn_net_ib.c),    *)
(* from the moment its acceptor has sent ACCEPT: the sliding windows,      *)
(* cumulative acknowledgements and retransmissions that turn unreliable    *)
(* datagrams into a reliable stream.                                       *)
(*                                                                         *)
(* vc[e] is the vc_t of end e.  The two ends differ: "conn" called         *)
(* spawn_net_connect and still waits for ACCEPT, so it does not know the   *)
(* id its packets must carry; "acpt" called spawn_net_accept and is the    *)
(* only one on the connected list that the timeout thread walks to send    *)
(* acknowledgements.  Each action is one critical section of comm_lock.    *)
(*                                                                         *)
(* The fabric is the set wire[e] of packets on their way to e: they are    *)
(* delivered in any order, any number of times, or lost.  Send work        *)
(* queue elements and completions only delay a packet and are left to the  *)
(* fabric.                                                                 *)
(***************************************************************************)
EXTENDS SeqNum, FiniteSets

CONSTANTS
    SendWin,        \* rdma_default_ud_sendwin_size (400)
    MaxAckPending,  \* rdma_ud_max_ack_pending (100)
    MaxRetry,       \* rdma_ud_max_retry_count (1000)
    Patient,        \* TRUE: the retries of a packet are never used up
    MaxToss,        \* bound: packets an end may give up on
    MaxWire,        \* bound: packets under way to an end; more are dropped
    MaxWrites       \* bound: MaxWrites[e], packets end e writes

Ends == {"conn", "acpt"}
Peer(e) == IF e = "conn" THEN "acpt" ELSE "conn"

ASSUME VCAssumption ==
    /\ SendWin \in Nat \ {0}
    /\ MaxAckPending \in Nat
    /\ MaxRetry \in Nat
    /\ Patient \in BOOLEAN
    /\ MaxToss \in Nat
    /\ MaxWire \in Nat
    /\ SendWin + MaxToss + 1 < SeqMod
    /\ MaxWrites \in [Ends -> Nat]

VARIABLES
    vc,         \* vc[e]: the vc_t of end e
    wire,       \* wire[e]: packets the fabric may deliver to end e
    tossed,     \* tossed[e]: numbers of the packets e gave up on (history)
    written,    \* written[e]: packets end e has written (history)
    delivered   \* delivered[e]: packets end e has read, in order (history)

vars == <<vc, wire, tossed, written, delivered>>

\* A packet on the wire.  data is the payload, named by its place in the
\* stream its sender wrote; control packets have payload 0.
Packet(item, ack) ==
    [type |-> item.type, seq |-> item.seq, data |-> item.data, ack |-> ack]

\* A packet of the send window, with its retry_count.
Item(type, seq, data) ==
    [type |-> type, seq |-> seq, data |-> data, retry |-> 0]

\* vc_init, then the CONNECT or ACCEPT packet posted with number 0.  The
\* acceptor has also counted the CONNECT packet as received.
InitialVC(e) ==
    [tosend     |-> 1,
     torecv     |-> IF e = "acpt" THEN 1 ELSE 0,
     toack      |-> -1,
     ackNeed    |-> FALSE,
     ackPending |-> 0,
     sendwin    |-> << Item(IF e = "acpt" THEN "ACCEPT" ELSE "CONNECT", 0, 0) >>,
     extwin     |-> << >>,
     recvwin    |-> << >>,
     apprecv    |-> << >>,
     nread      |-> IF e = "acpt" THEN 1 ELSE 0,  \* packets taken from apprecv
     acked      |-> -1]                           \* highest ack seen (history)

Init ==
    /\ vc = [e \in Ends |-> InitialVC(e)]
    /\ wire = [e \in Ends |->
                  IF e = "conn" THEN {Packet(InitialVC("acpt").sendwin[1], -1)}
                                ELSE {}]
    /\ tossed = [e \in Ends |-> << >>]
    /\ written = [e \in Ends |-> 0]
    /\ delivered = [e \in Ends |-> << >>]

\* recv_accept_message has stored the id the peer expects in vc->writeid (the
\* acceptor took it from the CONNECT packet).
HasWriteId(v) == v.nread > 0

\* Hand the packets out of end e to the fabric.  cq_poll of the peer drops a
\* packet whose srcid is not an id it gave out, and ud_process_connreq drops
\* CONNECT while the accepted VC is on the connected list.
SendAll(e, out) ==
    LET sent == {p \in out : HasWriteId(vc[e]) /\ p.type # "CONNECT"}
    IN  wire' = [wire EXCEPT ![Peer(e)] =
                    IF Cardinality(@ \cup sent) <= MaxWire THEN @ \cup sent ELSE @]

-----------------------------------------------------------------------------
(* Sending.                                                                *)

\* Faulty variant: a new packet overtakes the ones that wait.
MayPost_Overtakes(v) == Len(v.sendwin) <= SendWin

\* ud_post_send hands a new packet to the UD context at once.
MayPost(v) == Len(v.sendwin) <= SendWin /\ v.extwin = << >>

\* ud_post_send for the n payloads of the sequence ds: numbers, piggy-backed
\* acknowledgement, and a place in the send window for each.
NewItems(v, ds) == [i \in 1..Len(ds) |-> Item("DATA", v.tosend + i - 1, ds[i])]

PostSend(v, ds) ==
    IF ds = << >> THEN v
    ELSE [v EXCEPT !.tosend     = @ + Len(ds),
                   !.ackNeed    = FALSE,
                   !.ackPending = 0,
                   !.sendwin    = @ \o NewItems(v, ds)]

PostedPackets(v, ds) ==
    {Packet(NewItems(v, ds)[i], v.toack) : i \in 1..Len(ds)}

\* Faulty variant: the last place of the send window is not used.
FlushCount_OffByOne(v) ==
    IF Len(v.sendwin) + 1 >= SendWin THEN 0
    ELSE IF Len(v.extwin) <= SendWin - 1 - Len(v.sendwin)
         THEN Len(v.extwin)
         ELSE SendWin - 1 - Len(v.sendwin)

\* ud_flush_ext_window: how many packets move from the extended window.
FlushCount(v) ==
    IF Len(v.sendwin) >= SendWin THEN 0
    ELSE IF Len(v.extwin) <= SendWin - Len(v.sendwin)
         THEN Len(v.extwin)
         ELSE SendWin - Len(v.sendwin)

FlushSeq(v) == SubSeq(v.extwin, 1, FlushCount(v))

FlushExtWindow(v) ==
    [PostSend(v, FlushSeq(v)) EXCEPT
        !.extwin = SubSeq(@, FlushCount(v) + 1, Len(@))]

\* Faulty variant: the acknowledged packet itself is not covered.
AckCovers_Exclusive(v, ack, i) ==
    InclBetween(Wrap(ack), Wrap(v.sendwin[i].seq + 1), Wrap(v.tosend))

\* ud_process_ack removes the first n packets of the send window.
AckCovers(v, ack, i) ==
    InclBetween(Wrap(ack), Wrap(v.sendwin[i].seq), Wrap(v.tosend))

IsAckedCount(v, ack, n) ==
    /\ \A i \in 1..n : AckCovers(v, ack, i)
    /\ n < Len(v.sendwin) => ~AckCovers(v, ack, n + 1)

RemoveAcked(v, ack, n) ==
    [v EXCEPT !.sendwin = SubSeq(@, n + 1, Len(@)),
              !.acked   = IF ack > @ THEN ack ELSE @]

\* Faulty variant: the next number expected is acknowledged.
AckPacket_NextExpected(v) == [type |-> "ACK", seq |-> -1, data |-> 0, ack |-> v.torecv]

\* ud_send_ack.
AckPacket(v) == [type |-> "ACK", seq |-> -1, data |-> 0, ack |-> v.toack]
SendAck(v) == [v EXCEPT !.ackNeed = FALSE, !.ackPending = 0]

-----------------------------------------------------------------------------
(* Receiving.                                                              *)

\* The first half of mv2_ud_place_recvwin: packet p, whose number is in the
\* window, goes to the application queue or to place pos of the out-of-order
\* queue.
Place(v, p, pos) ==
    IF Wrap(p.seq) = Wrap(v.torecv)
    THEN [v EXCEPT !.apprecv = Append(@, p),
                   !.toack   = v.torecv,
                   !.torecv  = @ + 1,
                   !.ackNeed = TRUE]
    ELSE [v EXCEPT !.recvwin = RecvWindowAdd(@, p, pos),
                   !.ackNeed = TRUE]

\* Faulty variant: the whole out-of-order queue is taken.
IsDrainCount_TakesAll(v, k) == k = Len(v.recvwin)

\* The second half: the first k packets of the out-of-order queue have become
\* in order and join the application queue.
IsDrainCount(v, k) ==
    LET InOrder(i) == Wrap(v.recvwin[i].seq) = Wrap(v.torecv + i - 1)
    IN  /\ \A i \in 1..k : InOrder(i)
        /\ k < Len(v.recvwin) => ~InOrder(k + 1)

Drain(v, k) ==
    [v EXCEPT !.apprecv = @ \o SubSeq(v.recvwin, 1, k),
              !.recvwin = SubSeq(@, k + 1, Len(@)),
              !.toack   = IF k = 0 THEN @ ELSE v.torecv + k - 1,
              !.torecv  = @ + k]

\* Where a packet that is in the window leads.
PlacedAndDrained(v, p) ==
    UNION {
        {Drain(Place(v, p, pos), k) :
            k \in {n \in 0..Len(Place(v, p, pos).recvwin) :
                      IsDrainCount(Place(v, p, pos), n)}} :
        pos \in {n \in 1..(Len(v.recvwin) + 1) :
                    SearchStopsAt(v.recvwin, Wrap(p.seq), Wrap(v.torecv), n)}}

\* Faulty variant: the number of a repeated packet is acknowledged.
PlaceRecvwin_AcksRepeated(v, p) ==
    IF InRecvWin(Wrap(p.seq), Wrap(v.torecv))
    THEN PlacedAndDrained(v, p)
    ELSE {[v EXCEPT !.ackNeed = TRUE, !.toack = p.seq]}

\* mv2_ud_place_recvwin: the VC after packet p arrived at v (the searches have
\* one outcome, so this set has one element).
PlaceRecvwin(v, p) ==
    IF InRecvWin(Wrap(p.seq), Wrap(v.torecv))
    THEN PlacedAndDrained(v, p)
    ELSE {[v EXCEPT !.ackNeed = TRUE]}

\* The fabric has dropped every packet so old that its 16-bit numbers could be
\* mistaken for current ones (external: the life time of a datagram).
Fresh(e, p) ==
    /\ vc[e].tosend - p.ack < SeqMod
    /\ p.type # "ACK" => vc[e].torecv - p.seq < SeqMod - RecvWin - 1

\* ud_process_recv of an ACK packet.
RecvAck(e, p) ==
    /\ p.type = "ACK"
    /\ \E n \in 0..Len(vc[e].sendwin) :
          /\ IsAckedCount(vc[e], p.ack, n)
          /\ LET v == RemoveAcked(vc[e], p.ack, n)
             IN  /\ vc' = [vc EXCEPT ![e] = FlushExtWindow(v)]
                 /\ SendAll(e, PostedPackets(v, FlushSeq(v)))

\* ud_process_recv of the ACCEPT packet: no acknowledgement is counted.
RecvAccept(e, p) ==
    /\ p.type = "ACCEPT"
    /\ \E n \in 0..Len(vc[e].sendwin) :
          /\ IsAckedCount(vc[e], p.ack, n)
          /\ LET v == RemoveAcked(vc[e], p.ack, n)
             IN  /\ \E w \in PlaceRecvwin(FlushExtWindow(v), p) :
                       vc' = [vc EXCEPT ![e] = w]
                 /\ SendAll(e, PostedPackets(v, FlushSeq(v)))

\* ud_process_recv of a DATA packet.  The explicit acknowledgement goes out
\* before the packet is placed, so it does not cover the packet.
CountPending(v) == [v EXCEPT !.ackPending = @ + 1]
AckDue(v) == v.ackPending + 1 > MaxAckPending

RecvData(e, p) ==
    /\ p.type = "DATA"
    /\ \E n \in 0..Len(vc[e].sendwin) :
          /\ IsAckedCount(vc[e], p.ack, n)
          /\ LET v == RemoveAcked(vc[e], p.ack, n)
                 f == FlushExtWindow(v)
                 u == IF AckDue(f) THEN SendAck(f) ELSE CountPending(f)
             IN  /\ \E w \in PlaceRecvwin(u, p) : vc' = [vc EXCEPT ![e] = w]
                 /\ SendAll(e, PostedPackets(v, FlushSeq(v))
                               \cup {a \in {AckPacket(f)} : AckDue(f)})

\* cq_poll hands one packet to ud_process_recv.
ProcessRecv(e) ==
    /\ \E p \in wire[e] :
          /\ Fresh(e, p)
          /\ RecvAck(e, p) \/ RecvAccept(e, p) \/ RecvData(e, p)
    /\ UNCHANGED <<tossed, written, delivered>>

-----------------------------------------------------------------------------
(* The application and the timeout thread.                                 *)

\* spawn_net_write_ib hands one packet to ud_post_send.
Write(e) ==
    /\ HasWriteId(vc[e])
    /\ written[e] < MaxWrites[e]
    /\ written' = [written EXCEPT ![e] = @ + 1]
    /\ IF MayPost(vc[e])
       THEN /\ vc' = [vc EXCEPT ![e] = PostSend(@, << written[e] + 1 >>)]
            /\ SendAll(e, PostedPackets(vc[e], << written[e] + 1 >>))
       ELSE /\ vc' = [vc EXCEPT ![e].extwin = Append(@, written[e] + 1)]
            /\ UNCHANGED wire
    /\ UNCHANGED <<tossed, delivered>>

\* Faulty variant: the packet that is read stays in the queue.
Read_KeepsPacket(e) ==
    /\ vc[e].apprecv # << >>
    /\ vc' = [vc EXCEPT ![e].nread = 1]
    /\ delivered' = IF HasWriteId(vc[e]) /\ Len(delivered[e]) < 3
                    THEN [delivered EXCEPT ![e] = Append(@, vc[e].apprecv[1].data)]
                    ELSE delivered
    /\ UNCHANGED <<wire, tossed, written>>

\* recv_accept_message takes ACCEPT from the queue, spawn_net_read_ib the
\* packets behind it.
Read(e) ==
    /\ vc[e].apprecv # << >>
    /\ vc' = [vc EXCEPT ![e].apprecv = Tail(@), ![e].nread = @ + 1]
    /\ delivered' = IF HasWriteId(vc[e])
                    THEN [delivered EXCEPT ![e] = Append(@, vc[e].apprecv[1].data)]
                    ELSE delivered
    /\ UNCHANGED <<wire, tossed, written>>

\* ud_check_acks.  Only the acceptor's VC is on the connected list.
CheckAcks(e) ==
    /\ e = "acpt"
    /\ vc[e].ackNeed
    /\ vc' = [vc EXCEPT ![e] = SendAck(@)]
    /\ SendAll(e, {AckPacket(vc[e])})
    /\ UNCHANGED <<tossed, written, delivered>>

\* ud_resend of the i-th packet of the send window, whose timer has expired
\* (ud_check_resend); the timers are left open.
RetryLeft(item) == Patient \/ item.retry < MaxRetry

Resend(e, i) ==
    /\ RetryLeft(vc[e].sendwin[i])
    /\ vc' = [vc EXCEPT ![e].sendwin[i].retry = IF Patient THEN @ ELSE @ + 1,
                        ![e].ackNeed = FALSE]
    /\ SendAll(e, {Packet(vc[e].sendwin[i], vc[e].toack)})
    /\ UNCHANGED <<tossed, written, delivered>>

\* ud_toss_packet when the retries are used up.  Packets that wait in the
\* extended window stay there.
RemoveAt(q, i) == [j \in 1..(Len(q) - 1) |-> IF j < i THEN q[j] ELSE q[j + 1]]

Toss(e, i) ==
    /\ ~RetryLeft(vc[e].sendwin[i])
    /\ Len(tossed[e]) < MaxToss
    /\ vc' = [vc EXCEPT ![e].sendwin = RemoveAt(@, i)]
    /\ tossed' = [tossed EXCEPT ![e] = Append(@, vc[e].sendwin[i].seq)]
    /\ UNCHANGED <<wire, written, delivered>>

CheckResend(e) == \E i \in 1..Len(vc[e].sendwin) : Resend(e, i) \/ Toss(e, i)

\* The fabric loses a packet.
Lose(e) ==
    /\ \E p \in wire[e] : wire' = [wire EXCEPT ![e] = @ \ {p}]
    /\ UNCHANGED <<vc, tossed, written, delivered>>

Next ==
    \E e \in Ends :
        \/ ProcessRecv(e)
        \/ Write(e)
        \/ Read(e)
        \/ CheckAcks(e)
        \/ CheckResend(e)
        \/ Lose(e)

Spec == Init /\ [][Next]_vars

\* Fairness.  The timeout thread resends every packet whose timer has expired
\* and sends every acknowledgement that is due; the application takes what is
\* in its queue; and a packet that is offered to the fabric again and again
\* gets through, as does an acknowledgement that is repeated.
ResendOf(e, s) == \E i \in 1..Len(vc[e].sendwin) : vc[e].sendwin[i].seq = s /\ Resend(e, i)

Receive(e, Wanted(_)) ==
    /\ \E p \in wire[e] :
          /\ Wanted(p) /\ Fresh(e, p)
          /\ RecvAck(e, p) \/ RecvAccept(e, p) \/ RecvData(e, p)
    /\ UNCHANGED <<tossed, written, delivered>>

ReceiveSeq(e, s) == LET Wanted(p) == p.type # "ACK" /\ p.seq = s IN Receive(e, Wanted)
ReceiveAckOf(e, s) == LET Wanted(p) == p.ack >= s IN Receive(e, Wanted)

Fairness ==
    \A e \in Ends :
        /\ WF_vars(Read(e)) /\ WF_vars(CheckAcks(e))
        /\ \A s \in 0..MaxWrites[e] :
              /\ WF_vars(ResendOf(e, s))
              /\ SF_vars(ReceiveSeq(Peer(e), s))
              /\ SF_vars(ReceiveAckOf(e, s))

FairSpec == Spec /\ Fairness

-----------------------------------------------------------------------------
(* Properties.                                                             *)

PacketTypes == {"CONNECT", "ACCEPT", "DATA", "ACK"}
Packets == [type : PacketTypes, seq : Int, data : Nat, ack : Int]
Items == [type : PacketTypes, seq : Nat, data : Nat, retry : Nat]
VCs == [tosend : Nat, torecv : Nat, toack : Int, ackNeed : BOOLEAN,
        ackPending : Nat, sendwin : Seq(Items), extwin : Seq(Nat),
        recvwin : Seq(Packets), apprecv : Seq(Packets), nread : Nat,
        acked : Int]

\* Type invariant: every field of the two vc_t structures, the fabric and the
\* histories hold values of their kind.
TypeOK ==
    /\ vc \in [Ends -> VCs]
    /\ wire \in [Ends -> SUBSET Packets]
    /\ tossed \in [Ends -> Seq(Nat)]
    /\ written \in [Ends -> Nat]
    /\ delivered \in [Ends -> Seq(Nat)]

\* What spawn_net_read_ib returns is the stream the peer wrote: the i-th packet
\* read is the i-th packet written, however the fabric loses, repeats or
\* reorders the datagrams and wherever the 16-bit numbers wrap.
InOrderExactlyOnce ==
    \A e \in Ends :
        /\ Len(delivered[e]) <= written[Peer(e)]
        /\ \A i \in 1..Len(delivered[e]) : delivered[e][i] = i

\* ud_process_ack never releases a packet the peer has not taken in order: a
\* number that has left the send window was received, or was given up by
\* ud_toss_packet.
NoFalseAck ==
    \A e \in Ends : \A s \in 0..(vc[e].tosend - 1) :
        \/ \E i \in 1..Len(vc[e].sendwin) : vc[e].sendwin[i].seq = s
        \/ s < vc[Peer(e)].torecv
        \/ \E i \in 1..Len(tossed[e]) : tossed[e][i] = s

\* The out-of-order queue of mv2_ud_place_recvwin holds each number once, in
\* order, and only numbers the in-order stream has not reached: none is left
\* behind to be mistaken for a packet of the next turn of the numbers.
RecvWindowOrdered ==
    \A e \in Ends : LET q == vc[e].recvwin IN
        /\ \A i \in 1..Len(q) : vc[e].torecv < q[i].seq
        /\ \A i, j \in 1..Len(q) : i < j => q[i].seq < q[j].seq

\* ud_post_send leaves at most one packet more than the send window in flight.
SendWindowBound == \A e \in Ends : Len(vc[e].sendwin) <= SendWin + 1

\* A packet waits in the extended window only while an acknowledgement that
\* will flush it is still due, unless ud_toss_packet has removed packets.
NoStalledSends ==
    \A e \in Ends :
        vc[e].extwin # << >> /\ tossed[e] = << >> => Len(vc[e].sendwin) >= SendWin

\* The acknowledgement a VC puts on its packets never goes back, so a packet
\* that was acknowledged stays acknowledged.
AckNeverRetracts ==
    [][\A e \in Ends : vc'[e].toack >= vc[e].toack /\ vc'[e].acked >= vc[e].acked]_vars

\* Every packet written is read in the end, although any datagram may be lost:
\* the retransmission timers and the acknowledgements never wait for each other.
EventuallyDelivered ==
    \A e \in Ends : \A n \in 1..MaxWrites[e] :
        written[e] >= n ~> Len(delivered[Peer(e)]) >= n

\* Retransmission comes to an end: once the connector has written, both send
\* windows drain, although acknowledgements may be lost and the one for CONNECT
\* only comes with the one for the first data packet.
EventuallyAllAcked ==
    (\A e \in Ends : written[e] = MaxWrites[e])
        ~> \A e \in Ends : vc[e].sendwin = << >> /\ vc[e].extwin = << >>

\* Everything ends well: what was written is read, and no end goes on
\* retransmitting (ud_check_resend) what has arrived.
StreamCompletes == EventuallyDelivered /\ EventuallyAllAcked

Channel == INSTANCE ReliableChannel WITH written <- written, delivered <- delivered

\* The two programs see a ReliableChannel: every step of the transport is a
\* write, a read of the next packet in order, or invisible to them.
ImplementsChannel == Channel!ChanSpec

-----------------------------------------------------------------------------
(* What comments in the code claim and the code does not keep.             *)

\* rdma_default_ud_sendwin_size is "Max number of outstanding buffers (waiting
\* for ACK)", says the comment on it.
SendWindowLimit == \A e \in Ends : Len(vc[e].sendwin) <= SendWin

-----------------------------------------------------------------------------
(* The inductive invariant behind the safety properties.                   *)

\* The numbers of a queue increase: that of its j-th packet is at least j - i
\* above that of its i-th.
Increasing(q) ==
    \A i, j \in 1..Len(q) : i < j => q[i].seq + (j - i) <= q[j].seq

\* Every packet of a queue has its number between lo and hi, and carries the
\* payload that has this place in the stream.
Within(q, lo, hi) ==
    \A i \in 1..Len(q) :
        lo <= q[i].seq /\ q[i].seq <= hi /\ q[i].data = q[i].seq

\* The packets of a queue are numbered n, n + 1, n + 2, ...
Contiguous(q, n) ==
    \A i \in 1..Len(q) : q[i].seq = n + i - 1 /\ q[i].data = q[i].seq

\* The send window of v holds distinct numbers in increasing order between the
\* highest acknowledgement and the next number.  Posted packets that are not
\* acknowledged are in the window or were tossed (t counts those).
SendOK(v, t) ==
    /\ -1 <= v.acked /\ v.acked < v.tosend
    /\ Len(v.sendwin) <= SendWin + 1
    /\ t <= MaxToss
    /\ v.tosend - 1 - v.acked <= Len(v.sendwin) + t
    /\ \A i \in 1..Len(v.sendwin) :
          /\ v.acked < v.sendwin[i].seq
          /\ v.sendwin[i].seq < v.tosend
          /\ v.sendwin[i].data = v.sendwin[i].seq
          /\ v.sendwin[i].type # "ACK"
    /\ Increasing(v.sendwin)

\* The packets that wait continue the numbering of the stream.
ExtOK(v, w) ==
    /\ w = v.tosend - 1 + Len(v.extwin)
    /\ \A i \in 1..Len(v.extwin) : v.extwin[i] = v.tosend + i - 1

\* Every queued packet carries its place in the stream; the application queue
\* is contiguous and ends where the receive window starts.
RecvOK(v) ==
    /\ v.torecv = v.nread + Len(v.apprecv)
    /\ -1 <= v.toack /\ v.toack < v.torecv
    /\ Contiguous(v.apprecv, v.nread)
    /\ Within(v.recvwin, v.torecv + 1, v.torecv + RecvWin + 1)
    /\ Increasing(v.recvwin)

\* What is posted and not acknowledged is in the send window or was tossed.
CoverOK(v, ts) ==
    \A s \in (v.acked + 1)..(v.tosend - 1) :
        \/ \E i \in 1..Len(v.sendwin) : v.sendwin[i].seq = s
        \/ \E i \in 1..Len(ts) : ts[i] = s

\* v sends to u: u has not received more than v has sent, and v has no
\* acknowledgement for what u has not received.
LinkOK(v, u) ==
    /\ v.acked < u.torecv
    /\ u.torecv <= v.tosend
    /\ Within(u.recvwin, 0, v.tosend - 1)

\* A packet on its way from v.
PacketOK(p, v) ==
    /\ -1 <= p.ack /\ p.ack < v.torecv
    /\ p.type # "ACK" => 0 <= p.seq /\ p.seq < v.tosend /\ p.data = p.seq

\* delivered[e] is 1, 2, 3, ..., up to what e has taken from its queue.
StreamOK(v, d) ==
    /\ Len(d) = IF v.nread = 0 THEN 0 ELSE v.nread - 1
    /\ \A i \in 1..Len(d) : d[i] = i

\* Inductive invariant of the virtual channel.
IInv ==
    /\ TypeOK
    /\ \A e \in Ends :
          /\ SendOK(vc[e], Len(tossed[e]))
          /\ CoverOK(vc[e], tossed[e])
          /\ ExtOK(vc[e], written[e])
          /\ RecvOK(vc[e])
          /\ LinkOK(vc[e], vc[Peer(e)])
          /\ \A p \in wire[Peer(e)] : PacketOK(p, vc[e])
          /\ StreamOK(vc[e], delivered[e])
=============================================================================
