----------------------------- MODULE UDBuffers -----------------------------
(***************************************************************************)
(* The buffers and credits of one process on the InfiniBand transport      *)
(* (spawn_net_ib.c).  Every packet lives in a vbuf.  A vbuf is on the free *)
(* list, posted to the hardware, or linked in one or more of: the extended *)
(* send queue of the UD context, the unacknowledged queue, the send, the   *)
(* extended and the receive windows of a VC.  The code keeps the links by  *)
(* hand; nothing counts references.                                        *)
(*                                                                         *)
(* Sequence numbers are the subject of VirtualChannel: here an ack covers  *)
(* some prefix of the send window, and a packet is either new or repeated. *)
(* comm_lock makes every call, and every cq_poll, one critical section; a  *)
(* cq_poll is several steps of the model, and with sendcnt # 0 nothing     *)
(* else runs before its end.  A lost packet is one that never arrives.     *)
(*                                                                         *)
(* A vbuf has a name while something other than a posted receive refers to *)
(* it.  Posted receives are counted; a packet that arrives takes a name.   *)
(***************************************************************************)
EXTENDS Integers, Sequences, FiniteSets, SequencesExt

CONSTANTS
    Vbufs,      \* names of vbufs (bounds how many are in use at a time)
    VCs,        \* virtual channels
    None,       \* a vbuf that belongs to no VC
    Window,     \* rdma_default_ud_sendwin_size
    MaxSends,   \* send_wqes_avail of an idle queue pair
    MaxRecvs,   \* rdma_default_max_ud_recv_wqe
    Preserve,   \* credit_preserve: receives are reposted below it
    MaxStrays   \* bound on the packets that are discarded unseen

ASSUME BuffersAssumption ==
    /\ IsFiniteSet(Vbufs) /\ None \notin VCs
    /\ {Window, MaxSends, Preserve} \subseteq Nat \ {0}
    /\ MaxRecvs \in Nat /\ MaxRecvs >= Preserve /\ MaxStrays \in Nat

VARIABLES
    mem,        \* the lists, flags and counters (Init)
    sendcnt,    \* send completions of this cq_poll
    strays,     \* history: packets discarded before they are counted
    late        \* history: VCs that got a packet after they started closing

vars == <<mem, sendcnt, strays, late>>

OpenVC == [state |-> "open", localClosed |-> FALSE, remoteClosed |-> FALSE,
           outstanding |-> 0, sendwin |-> << >>, extwin |-> << >>, recvwin |-> {}]

\* g_ud_vc_info holds NULL for a VC that was deleted.
DeletedVC == [OpenVC EXCEPT !.state = "deleted"]

FirstOf(q, n) == IF n < Len(q) THEN SubSeq(q, 1, n) ELSE q
AfterFirst(q, n) == SubSeq(q, n + 1, Len(q))

\* What is left of q, in its order, when the members of bufs are unlinked: the
\* k-th of the elements kept.
Without(q, bufs) ==
    LET kept == {i \in DOMAIN q : q[i] \notin bufs}
    IN  [k \in 1..Cardinality(kept) |->
            q[CHOOSE i \in kept : Cardinality({j \in kept : j <= i}) = k]]

-----------------------------------------------------------------------------
(* vbufs.                                                                  *)

\* vbuf_get: with the list empty the code registers another region, so free
\* stands for the free list and for the memory not yet registered.  Which vbuf
\* is taken makes no difference.
HasFree(n) == Cardinality(mem.free) >= n
Got(s) == CHOOSE b \in s.free : TRUE
Get(s, vc) == [s EXCEPT !.free = @ \ {Got(s)}, !.vc_of[Got(s)] = vc]

\* Faulty variant: the vbuf is freed although the hardware still reads it.
ReleaseAtOnce(s, bufs) ==
    [s EXCEPT !.free = @ \cup bufs,
              !.vc_of = [b \in Vbufs |-> IF b \in bufs THEN None ELSE @[b]]]

\* vbuf_release: a vbuf whose send is in progress waits for its completion.
\* twice records vbufs that were on the free list already.
Release(s, bufs) ==
    LET now == bufs \ s.inprogress
    IN  [s EXCEPT !.pending = @ \cup (bufs \cap s.inprogress),
                  !.free = @ \cup now,
                  !.twice = @ \cup (now \cap s.free),
                  !.vc_of = [b \in Vbufs |-> IF b \in now THEN None ELSE @[b]]]

-----------------------------------------------------------------------------
(* Sending.                                                                *)

\* ibv_post_send of bufs, one after the other, and the counters around it.
Post(s, bufs) ==
    LET of(v) == {b \in ToSet(bufs) : s.vc_of[b] = v}
        vc == [v \in VCs |-> [s.vc[v] EXCEPT !.outstanding = @ + Cardinality(of(v))]]
    IN  [s EXCEPT !.sends = @ \cup ToSet(bufs), !.avail = @ - Len(bufs), !.vc = vc]

\* ibv_ud_post_sr of bufs, one after the other: once one of them has to wait on
\* the extended send queue, so do the others.
Submit(s, bufs) ==
    LET now == IF s.ext_send_queue = << >> THEN FirstOf(bufs, s.avail) ELSE << >>
    IN  [Post(s, now) EXCEPT !.ext_send_queue = @ \o AfterFirst(bufs, Len(now))]

\* The second part of ud_post_send, for bufs one after the other: they are in the
\* send window and unacknowledged until an ack covers them.
SendNow(s, vc, bufs) ==
    Submit([s EXCEPT !.inprogress = @ \cup ToSet(bufs),
                     !.unack = @ \cup ToSet(bufs),
                     !.vc[vc].sendwin = @ \o bufs], bufs)

\* ud_post_send.
PostSend(s, vc, b) ==
    LET w == s.vc[vc]
    IN  IF Len(w.sendwin) > Window \/ (w.extwin # << >> /\ Head(w.extwin) # b)
        THEN [s EXCEPT !.vc[vc].extwin = Append(@, b)]
        ELSE SendNow(s, vc, << b >>)

\* ud_flush_ext_window: the window takes packets until it holds Window.  Each is
\* the head of the extended window, so ud_post_send does not put it back there.
FlushExtWindow(s, vc) ==
    LET first == FirstOf(s.vc[vc].extwin, Window - Len(s.vc[vc].sendwin))
    IN  IF Len(s.vc[vc].sendwin) < Window
        THEN SendNow([s EXCEPT !.vc[vc].extwin = AfterFirst(@, Len(first))], vc, first)
        ELSE s

\* Takes vbufs out of the send window and off the unacknowledged queue.
Unlink(s, vc, bufs) ==
    [s EXCEPT !.vc[vc].sendwin = Without(@, bufs),
              !.unack = @ \ bufs]

\* ud_process_ack: the ack covers the first n packets of the window.
ProcessAck(s, vc, n) ==
    LET acked == ToSet(SubSeq(s.vc[vc].sendwin, 1, n))
    IN  FlushExtWindow(Release(Unlink(s, vc, acked), acked), vc)

\* Faulty variant: the send is not charged to the VC.
SendAckUncharged(s, vc) ==
    LET t == Submit(Get(s, vc), << Got(s) >>)
    IN  [t EXCEPT !.vc[vc].outstanding = s.vc[vc].outstanding]

\* ud_send_ack: the packet is not marked as in progress, so its completion
\* will not release it.
SendAck(s, vc) == Submit(Get(s, vc), << Got(s) >>)

-----------------------------------------------------------------------------
(* Closing a VC.                                                           *)

\* vc_purge_queues.  Packets still on the extended send queue leave it and the
\* send window, but stay on the unacknowledged queue and are not released: cut
\* records them.  The heads of the extended and receive windows stay set.
PurgeQueues(s, vc) ==
    LET queued == {b \in ToSet(s.ext_send_queue) : s.vc_of[b] = vc}
        sent == ToSet(s.vc[vc].sendwin) \ queued
        s1 == [s EXCEPT
                 !.ext_send_queue = Without(@, queued),
                 !.vc[vc].sendwin = Without(@, queued),
                 !.cut = @ \cup queued]
        s2 == Release(Unlink(s1, vc, sent), sent)
        s3 == Release(s2, ToSet(s.vc[vc].extwin))
    IN  Release(s3, s.vc[vc].recvwin)

\* vc_delete.
Delete(s, vc) == [s EXCEPT !.vc[vc] = DeletedVC]

\* Faulty variant: the VC is deleted while the hardware uses its address handle.
VCFreeAtOnce(s, vc) ==
    IF s.vc[vc].localClosed /\ s.vc[vc].remoteClosed
    THEN Delete(PurgeQueues(s, vc), vc)
    ELSE s

\* vc_free.
VCFree(s, vc) ==
    LET t == PurgeQueues([s EXCEPT !.vc[vc].state = "closing"], vc)
    IN  IF s.vc[vc].localClosed /\ s.vc[vc].remoteClosed
        THEN IF t.vc[vc].outstanding = 0 THEN Delete(t, vc) ELSE t
        ELSE s

-----------------------------------------------------------------------------
(* Receiving.                                                              *)

\* Faulty variant: receives are reposted only when none is left.
CountRecvLate(s) ==
    LET t == [s EXCEPT !.recvs = @ - 1]
    IN  IF t.recvs < 0 THEN [t EXCEPT !.posted = @ + MaxRecvs - t.recvs, !.recvs = MaxRecvs]
        ELSE t

\* The end of the receive case of cq_poll: one receive less, and below the
\* low-water mark ud_post_recv_buffers posts the missing ones.
CountRecv(s) ==
    LET t == [s EXCEPT !.recvs = @ - 1]
    IN  IF t.recvs < Preserve
        THEN [t EXCEPT !.posted = @ + (MaxRecvs - t.recvs), !.recvs = MaxRecvs]
        ELSE t

\* A packet has arrived in the vbuf Got(s).
Arrived(s, vc) == [Get(s, vc) EXCEPT !.posted = @ - 1]

-----------------------------------------------------------------------------
(* Calls of the application and of the progress threads.                   *)

\* ud_ctx_create: the queue pair starts with all of its receives posted.  twice
\* and cut are history.
Init ==
    /\ mem = [free |-> Vbufs, posted |-> MaxRecvs, recvs |-> MaxRecvs,
              sends |-> {}, avail |-> MaxSends,
              ext_send_queue |-> << >>, unack |-> {},
              inprogress |-> {}, pending |-> {},
              vc_of |-> [b \in Vbufs |-> None],
              vc |-> [vc \in VCs |-> OpenVC],
              twice |-> {}, cut |-> {}]
    /\ sendcnt = 0
    /\ strays = 0 /\ late = {}

polling == sendcnt # 0

InUse(vc) == ~polling /\ mem.vc[vc].state = "open" /\ ~mem.vc[vc].localClosed

\* spawn_net_write_ib: packet_send of one packet.  remote_closed is tested before
\* the lock is taken, so it may be set when the packet is sent.
Send(vc) ==
    /\ InUse(vc) /\ HasFree(1)
    /\ mem' = PostSend(Get(mem, vc), vc, Got(mem))
    /\ UNCHANGED <<sendcnt, strays, late>>

\* spawn_net_disconnect_ib.
Disconnect(vc) ==
    /\ InUse(vc) /\ HasFree(1)
    /\ LET t == PostSend(Get(mem, vc), vc, Got(mem))
       IN  mem' = VCFree([t EXCEPT !.vc[vc].localClosed = TRUE], vc)
    /\ UNCHANGED <<sendcnt, strays, late>>

\* spawn_net_read_ib: the next packet is copied out and its vbuf released.
Read(vc) ==
    /\ InUse(vc)
    /\ \E b \in mem.vc[vc].recvwin :
          mem' = Release([mem EXCEPT !.vc[vc].recvwin = @ \ {b}], {b})
    /\ UNCHANGED <<sendcnt, strays, late>>

\* ud_check_acks: a VC on the connected list owes an ack.
CheckAcks(vc) ==
    /\ ~polling /\ mem.vc[vc].state = "open" /\ HasFree(1)
    /\ mem' = SendAck(mem, vc)
    /\ UNCHANGED <<sendcnt, strays, late>>

\* ud_resend of a packet whose timer expired.
Resend(b) ==
    /\ ~polling /\ b \in mem.unack \ mem.inprogress
    /\ LET t == [mem EXCEPT !.inprogress = @ \cup {b}]
       IN  mem' = IF mem.avail > 0 THEN Post(t, << b >>)
                  ELSE [t EXCEPT !.ext_send_queue = Append(@, b)]
    /\ UNCHANGED <<sendcnt, strays, late>>

\* ud_toss_packet: the retries of the packet are exhausted.
Toss(b) ==
    /\ ~polling /\ b \in mem.unack \ mem.inprogress
    /\ mem' = Release(Unlink(mem, mem.vc_of[b], {b}), {b})
    /\ UNCHANGED <<sendcnt, strays, late>>

-----------------------------------------------------------------------------
(* cq_poll.                                                                *)

\* A send completion.  The VC goes with the last one if it is closing.  An ACK
\* is never released: it is lost, and its name is free for another vbuf.
PollSend(b) ==
    /\ b \in mem.sends
    /\ LET vc == mem.vc_of[b]
           s1 == [mem EXCEPT !.sends = @ \ {b}, !.vc[vc].outstanding = @ - 1]
           s2 == IF s1.vc[vc].state = "closing" /\ s1.vc[vc].outstanding = 0
                 THEN Delete(s1, vc) ELSE s1
           s3 == [s2 EXCEPT !.inprogress = @ \ {b}, !.pending = @ \ {b}]
           is_ack == b \notin mem.inprogress
       IN  mem' = IF is_ack \/ b \in mem.pending THEN Release(s3, {b}) ELSE s3
    /\ sendcnt' = sendcnt + 1
    /\ UNCHANGED <<strays, late>>

\* A packet of the peer for a VC that is not deleted.
Packet(vc) ==
    /\ mem.posted > 0 /\ mem.vc[vc].state # "deleted" /\ HasFree(1)
    /\ late' = IF mem.vc[vc].state = "closing" THEN late \cup {vc} ELSE late
    /\ UNCHANGED <<sendcnt, strays>>

\* ud_process_recv of data (or of an ACCEPT, which is queued like data): an ack
\* may be due, then the packet is queued, or released if it is a repetition.
RecvData(vc) ==
    /\ Packet(vc)
    /\ \E n \in 0..Len(mem.vc[vc].sendwin), due \in {HasFree(2), FALSE}, new \in BOOLEAN :
          LET b == Got(mem)
              s1 == ProcessAck(Arrived(mem, vc), vc, n)
              s2 == IF due THEN SendAck(s1, vc) ELSE s1
          IN  mem' = CountRecv(IF new THEN [s2 EXCEPT !.vc[vc].recvwin = @ \cup {b}]
                               ELSE Release(s2, {b}))

\* ud_process_recv of an ACK.
RecvAck(vc) ==
    /\ Packet(vc)
    /\ \E n \in 0..Len(mem.vc[vc].sendwin) :
          mem' = CountRecv(Release(ProcessAck(Arrived(mem, vc), vc, n), {Got(mem)}))

\* ud_process_recv of a DISCONNECT.
RecvDisconnect(vc) ==
    /\ Packet(vc)
    /\ \E n \in 0..Len(mem.vc[vc].sendwin) :
          LET t == Release(ProcessAck(Arrived(mem, vc), vc, n), {Got(mem)})
          IN  mem' = CountRecv(VCFree([t EXCEPT !.vc[vc].remoteClosed = TRUE], vc))

\* ud_process_connreq: the vbuf of the request is released at once, or later by
\* accept (the list of requests is modelled in UDConnect).
RecvConnect ==
    /\ mem.posted > 0
    /\ mem' = CountRecv([mem EXCEPT !.posted = @ - 1])
    /\ UNCHANGED <<sendcnt, strays, late>>

\* A packet for an unknown or deleted VC, or from the wrong sender, is released:
\* the break leaves the switch before the receive is counted.
RecvStray ==
    /\ mem.posted > 0 /\ strays < MaxStrays
    /\ mem' = [mem EXCEPT !.posted = @ - 1]
    /\ strays' = strays + 1
    /\ UNCHANGED <<sendcnt, late>>

\* Faulty variant: the credits come back, but nothing is sent with them.
UpdateSendCreditsIdle(s, n) == [s EXCEPT !.avail = @ + n]

\* ud_update_send_credits.
UpdateSendCredits(s, n) ==
    LET t == [s EXCEPT !.avail = @ + n]
        first == FirstOf(s.ext_send_queue, t.avail)
    IN  Post([t EXCEPT !.ext_send_queue = AfterFirst(@, Len(first))], first)

\* The end of cq_poll.
EndPoll ==
    /\ polling
    /\ mem' = UpdateSendCredits(mem, sendcnt)
    /\ sendcnt' = 0
    /\ UNCHANGED <<strays, late>>

Next ==
    \/ \E vc \in VCs :
          \/ Send(vc) \/ Disconnect(vc) \/ Read(vc) \/ CheckAcks(vc)
          \/ RecvData(vc) \/ RecvAck(vc) \/ RecvDisconnect(vc)
    \/ \E b \in Vbufs : Resend(b) \/ Toss(b) \/ PollSend(b)
    \/ RecvConnect \/ RecvStray \/ EndPoll

Spec == Init /\ [][Next]_vars

-----------------------------------------------------------------------------
(* Properties.                                                             *)

States == {"open", "closing", "deleted"}

\* Type invariant: credits, counts of outstanding sends and of posted receives
\* stay within the queue sizes.
TypeOK ==
    /\ mem.free \subseteq Vbufs /\ mem.sends \subseteq Vbufs /\ mem.unack \subseteq Vbufs
    /\ mem.avail \in 0..MaxSends /\ sendcnt \in 0..MaxSends
    /\ mem.posted \in 0..MaxRecvs /\ mem.recvs \in 0..MaxRecvs
    /\ mem.vc_of \in [Vbufs -> VCs \cup {None}]
    /\ \A vc \in VCs : /\ mem.vc[vc].state \in States
                       /\ mem.vc[vc].state # "deleted" => mem.vc[vc].outstanding \in 0..MaxSends
                       /\ Len(mem.vc[vc].sendwin) <= Window + 1
    /\ strays \in 0..MaxStrays /\ late \subseteq VCs

IsOpen(vc) == mem.vc[vc].state = "open"

\* The vbufs that some list refers to.  The lists of a closing VC are stale.
Linked ==
    mem.sends \cup ToSet(mem.ext_send_queue) \cup mem.unack \cup
    UNION {ToSet(mem.vc[vc].sendwin) \cup ToSet(mem.vc[vc].extwin) \cup mem.vc[vc].recvwin :
           vc \in {v \in VCs : IsOpen(v)}}

\* A vbuf on the free list is there once, and nothing else refers to it: not the
\* hardware, no queue, no window.  An ack, a disconnect and a completion may
\* come in any order around a retransmission.
FreeIsFree == mem.twice = {} /\ mem.free \cap Linked = {}

\* The only vbufs the process loses, besides those of ACKs, are the ones
\* vc_purge_queues takes off the extended send queue.
AllAccountedFor == Vbufs = mem.free \cup Linked \cup mem.cut

\* Every vbuf is in exactly one use, whatever order vbuf_release,
\* vc_purge_queues and cq_poll come in: none is both free and in use, and none
\* is in no use at all.  The state has its type.  Assumes, as the next three
\* do, that no packet arrives for a VC that is closing (README).
VbufsAreConserved == late = {} => TypeOK /\ FreeIsFree /\ AllAccountedFor

\* Pointers to VCs are followed only while the VC exists: by a send completion,
\* by ud_update_send_credits, and by ud_resend, whose packets are exactly those
\* in the windows of open VCs.
PointersAreLive ==
    late = {} =>
        /\ \A b \in mem.sends \cup ToSet(mem.ext_send_queue) :
              mem.vc_of[b] # None /\ mem.vc[mem.vc_of[b]].state # "deleted"
        /\ \A b \in mem.unack \ mem.inprogress :
              mem.vc_of[b] # None /\ IsOpen(mem.vc_of[b])
        /\ \A vc \in VCs : IsOpen(vc) =>
              ToSet(mem.vc[vc].sendwin) = {b \in mem.unack : mem.vc_of[b] = vc}

\* No credit is lost or invented (ud_post_sr, ud_resend, cq_poll and
\* ud_update_send_credits each move them), and a VC counts its own sends.
CreditsAddUp ==
    late = {} =>
        /\ mem.avail + Cardinality(mem.sends) + sendcnt = MaxSends
        /\ \A vc \in VCs : mem.vc[vc].state # "deleted" =>
              mem.vc[vc].outstanding = Cardinality({b \in mem.sends : mem.vc_of[b] = vc})

\* A packet stays on the extended send queue only while a completion is still
\* to come that will send it: nothing else looks at that queue.
NothingStranded ==
    late = {} =>
        (~polling /\ mem.ext_send_queue # << >> => mem.avail = 0 /\ mem.sends # {})

\* num_recvs_posted exceeds the receives posted by the packets discarded unseen,
\* so the process hears its peers as long as these are fewer than
\* credit_preserve.  (With as many it is deaf: internal.h calls the counter
\* "number of receive elements currently posted".)
HearsThePeers ==
    /\ mem.recvs = mem.posted + strays
    /\ mem.posted >= Preserve - strays

-----------------------------------------------------------------------------
(* The inductive invariant behind these properties.  It is stated for a record *)
(* s in the middle of a call as well: hand are vbufs taken from the free list  *)
(* and not linked yet, sub vbufs being submitted, which count as if they were  *)
(* on the extended send queue.                                                 *)

VCType == [state : States, localClosed : BOOLEAN, remoteClosed : BOOLEAN,
           outstanding : Int, sendwin : Seq(Vbufs), extwin : Seq(Vbufs),
           recvwin : SUBSET Vbufs]

MemType(s) ==
    s \in [free : SUBSET Vbufs, posted : Int, recvs : Int,
           sends : SUBSET Vbufs, avail : Nat,
           ext_send_queue : Seq(Vbufs), unack : SUBSET Vbufs,
           inprogress : SUBSET Vbufs, pending : SUBSET Vbufs,
           vc_of : [Vbufs -> VCs \cup {None}], vc : [VCs -> VCType],
           twice : SUBSET Vbufs, cut : SUBSET Vbufs]

\* With the hardware, or on the way there.
Out(s, sub) == s.sends \cup ToSet(s.ext_send_queue) \cup sub

\* The free list holds the vbufs that belong to no VC, each of them once.
FreeOK(s) ==
    /\ s.twice = {}
    /\ \A b \in Vbufs : b \in s.free <=> s.vc_of[b] = None

\* A vbuf is in one place on the way to the hardware.
OutOK(s, sub) ==
    /\ IsInjective(s.ext_send_queue) /\ sub \subseteq Vbufs
    /\ \A b \in Vbufs : /\ b \in s.sends => b \notin ToSet(s.ext_send_queue)
                        /\ b \in sub => b \notin s.sends \cup ToSet(s.ext_send_queue)
                        /\ b \in s.cut => b \notin Out(s, sub)

\* A packet is marked as in progress from its submission to its completion, and
\* marked to be released there if its ack came first.  ACKs are never marked.
FlagsOK(s, sub) ==
    \A b \in Vbufs :
        /\ b \in s.inprogress => b \in Out(s, sub) \cup s.cut
        /\ b \in s.inprogress => (b \in s.pending <=> b \notin s.unack)
        /\ b \in s.pending => b \in s.inprogress
        /\ b \in s.unack /\ b \in Out(s, sub) => b \in s.inprogress

\* The VC of a vbuf that something refers to.
OwnerOK(s, sub) ==
    \A b \in Vbufs :
        LET state(S) == \E v \in VCs : s.vc_of[b] = v /\ s.vc[v].state \in S
        IN  /\ b \in s.sends => state({"open", "closing"})
            /\ b \in ToSet(s.ext_send_queue) \cup sub => state({"open"})
            /\ b \in s.cut => state({"closing", "deleted"})
            /\ b \in s.unack => state({"open"}) \/ b \in s.cut \cap s.inprogress

\* The windows of an open VC.
WindowsOK(s, sub) ==
    \A v \in VCs :
        /\ Len(s.vc[v].sendwin) <= Window + 1
        /\ s.vc[v].state = "open" =>
              /\ IsInjective(s.vc[v].sendwin) /\ IsInjective(s.vc[v].extwin)
              /\ \A b \in Vbufs :
                    /\ b \in ToSet(s.vc[v].sendwin) <=> b \in s.unack /\ s.vc_of[b] = v
                    /\ b \in ToSet(s.vc[v].extwin) \cup s.vc[v].recvwin =>
                          s.vc_of[b] = v /\ b \notin Out(s, sub) \cup s.unack
                    /\ ~(b \in ToSet(s.vc[v].extwin) /\ b \in s.vc[v].recvwin)

Waiting(s, b) ==
    \E v \in VCs : s.vc[v].state = "open"
                  /\ b \in ToSet(s.vc[v].extwin) \cup s.vc[v].recvwin

\* What is not free is somewhere, and what is in hand is nowhere else.
PlaceOK(s, hand, sub) ==
    /\ hand \subseteq Vbufs
    /\ \A b \in Vbufs :
          LET linked == b \in Out(s, sub) \cup s.unack \cup s.cut \/ Waiting(s, b)
          IN  /\ linked \/ b \in hand \cup s.free
              /\ ~(linked /\ b \in hand) /\ ~(b \in hand /\ b \in s.free)

CreditOK(s, n) ==
    /\ s.avail + Cardinality(s.sends) + n = MaxSends
    /\ \A v \in VCs : s.vc[v].state # "deleted" =>
          s.vc[v].outstanding = Cardinality({b \in s.sends : s.vc_of[b] = v})

MemOK(s, n, hand, sub) ==
    /\ MemType(s) /\ FreeOK(s) /\ OutOK(s, sub) /\ FlagsOK(s, sub) /\ OwnerOK(s, sub)
    /\ WindowsOK(s, sub) /\ PlaceOK(s, hand, sub) /\ CreditOK(s, n)

\* Packets wait for the hardware only when it takes no more.
Drained(s) == s.ext_send_queue # << >> => s.avail = 0

BuffersInv ==
    late = {} => /\ sendcnt \in Nat /\ MemOK(mem, sendcnt, {}, {}) /\ Drained(mem)

\* The receive path alone touches the two counters of receives, so that this
\* holds after late packets as well.
Counted(s) == {"posted", "recvs"} \subseteq DOMAIN s

RecvsInv ==
    /\ Counted(mem) /\ mem.posted \in Nat /\ strays \in 0..MaxStrays
    /\ mem.recvs \in Preserve..MaxRecvs /\ mem.recvs = mem.posted + strays
=============================================================================
