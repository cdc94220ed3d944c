----------------------------- MODULE UDConnect -----------------------------
(***************************************************************************)
(* The life of virtual channels in the InfiniBand UD transport             *)
(* (spawn_net_ib.c): connect, accept and disconnect over a fabric that     *)
(* delays, reorders and loses datagrams, and the rules that decide when a  *)
(* vc_t is deleted.                                                        *)
(*                                                                         *)
(* A process keeps a table of VCs whose ids are never given out twice, the *)
(* list of connection requests that wait for accept, and the list of VCs   *)
(* it has accepted (connected_list), which is what recognises a repeated   *)
(* request.  Every action is one critical section of comm_lock, except the *)
(* last statement of spawn_net_accept_ib, which runs without the lock.     *)
(*                                                                         *)
(* Windows and reordering inside a stream are the subject of               *)
(* VirtualChannel; here a sequenced packet is taken when it is the next    *)
(* one expected.  Each process has one endpoint and one application        *)
(* thread.                                                                 *)
(***************************************************************************)
EXTENDS Integers, Sequences, FiniteSets

CONSTANTS
    Procs,          \* processes, each with one UD queue pair (lid, qpn)
    MaxVC,          \* bound: MaxVC[p], VCs process p may create
    Connectors,     \* processes whose application calls connect
    MaxData,        \* bound: MaxData[p], DATA packets p writes on a VC
    MaxDiscRetry,   \* resends of DISCONNECT before it is tossed (5)
    MaxRetry,       \* rdma_ud_max_retry_count (1000) for other packets
    MaxWire,        \* bound: packets under way to a process; more are lost
    Patient         \* TRUE: the retries of other packets are never used up

NoId == -1          \* UINT64_MAX, the id of no VC
NULL == [state |-> "NULL"]
Ids(p) == 0..(MaxVC[p] - 1)

ASSUME ConnectAssumption ==
    /\ MaxVC \in [Procs -> Nat]
    /\ Connectors \subseteq Procs
    /\ MaxData \in [Procs -> Nat]
    /\ {MaxDiscRetry, MaxRetry, MaxWire} \subseteq Nat
    /\ Patient \in BOOLEAN

VARIABLES
    vcs,            \* vcs[p][i]: g_ud_vc_info, NULL when not in use
    nextId,         \* nextId[p]: g_ud_vc_info_id
    sends,          \* sends[p][i]: numbers of the packets of VC i that are
                    \* posted and not completed (sends_outstanding is the
                    \* length), in the order in which they complete
    connectList,    \* connectList[p]: requests that wait for accept
    connected,      \* connected[p]: connected_list, what p has accepted
    countConn,      \* countConn[p]: g_count_conn
    app,            \* app[p]: where the application thread is
    held,           \* held[p]: ids behind the channels the application holds
    wire,           \* wire[p]: packets under way to p
    accepts         \* accepts[p]: requests p has accepted, each with the VC
                    \* made for it (history)

net == <<vcs, sends, wire>>
vars == <<vcs, nextId, sends, connectList, connected, countConn, app, held,
          wire, accepts>>

Live(p, i) == vcs[p][i] # NULL

Init ==
    /\ vcs = [p \in Procs |-> [i \in Ids(p) |-> NULL]]
    /\ nextId = [p \in Procs |-> 0]
    /\ sends = [p \in Procs |-> [i \in Ids(p) |-> << >>]]
    /\ connectList = [p \in Procs |-> << >>]
    /\ connected = [p \in Procs |-> {}]
    /\ countConn = [p \in Procs |-> 0]
    /\ app = [p \in Procs |-> [at |-> "idle"]]
    /\ held = [p \in Procs |-> {}]
    /\ wire = [p \in Procs |-> {}]
    /\ accepts = [p \in Procs |-> {}]

-----------------------------------------------------------------------------
(* VCs and packets.                                                        *)

\* vc_alloc, vc_init and vc_set_addr: a VC that points to process q.
NewVC(q) ==
    [state |-> "CONNECTING", peer |-> q, writeid |-> NoId,
     localClosed |-> FALSE, remoteClosed |-> FALSE,
     tosend |-> 0, torecv |-> 0, toack |-> -1, ackNeed |-> FALSE,
     sendwin |-> {}, apprecv |-> << >>]

\* Faulty variant: CONNECT and ACCEPT name the id written to, not the own one.
Packet_NamesWriteId(p, i, v, item) ==
    [type |-> item.type, src |-> p, srcid |-> v.writeid, id |-> v.writeid,
     seq |-> item.seq, ack |-> v.toack]

\* The packet that stands for item of the send window of VC i of p, with the
\* acknowledgement of VC v.  id is the payload of CONNECT and ACCEPT.
Packet(p, i, v, item) ==
    [type |-> item.type, src |-> p, srcid |-> v.writeid, id |-> i,
     seq |-> item.seq, ack |-> v.toack]

\* packet_send: ud_post_send gives the packet the next number, the latest
\* acknowledgement and a place in the send window.
Item(v, type) == [type |-> type, seq |-> v.tosend, retry |-> 0]
PostSend(v, type) ==
    [v EXCEPT !.tosend = @ + 1, !.ackNeed = FALSE,
              !.sendwin = @ \cup {Item(v, type)}]

\* A posted packet travels to the peer, unless the fabric drops it, and
\* completes later.
Carry(pkts, new) == IF Cardinality(pkts \cup new) <= MaxWire THEN pkts \cup new ELSE pkts

Post(p, i, pk, q) ==
    /\ wire' = [wire EXCEPT ![q] = Carry(@, {pk})]
    /\ sends' = [sends EXCEPT ![p][i] = Append(@, pk.seq)]

\* Faulty variants: one closed side is enough; the VC is deleted under its
\* outstanding sends.
Closed_EitherSide(v) == v.localClosed \/ v.remoteClosed
Deleted_AtOnce(v, outstanding) == TRUE

\* vc_free: both sides have disconnected; vc_purge_queues empties the queues,
\* vc_purge_connected forgets the request, and the VC is deleted unless sends
\* still use its address handle.
Closed(v) == v.localClosed /\ v.remoteClosed
PurgeConnected(p, i) == {c \in connected[p] : c.vc # i}
Deleted(v, outstanding) == outstanding = 0

VCFree(v, outstanding) ==
    IF ~Closed(v) THEN v
    ELSE IF Deleted(v, outstanding) THEN NULL
         ELSE [v EXCEPT !.state = "CLOSING", !.sendwin = {}, !.apprecv = << >>]

ConnectedAfter(p, i, v) == IF Closed(v) THEN PurgeConnected(p, i) ELSE connected[p]

-----------------------------------------------------------------------------
(* The application.                                                        *)

\* spawn_net_connect_ib, up to the wait for the ACCEPT packet.
Connect(p, q) ==
    /\ p # q /\ p \in Connectors
    /\ app[p].at = "idle"
    /\ nextId[p] \in Ids(p)
    /\ LET i == nextId[p]
           v == NewVC(q)
       IN  /\ vcs' = [vcs EXCEPT ![p][i] = PostSend(v, "CONNECT")]
           /\ Post(p, i, Packet(p, i, v, Item(v, "CONNECT")), q)
           /\ app' = [app EXCEPT ![p] = [at |-> "connecting", id |-> i]]
    /\ nextId' = [nextId EXCEPT ![p] = @ + 1]
    /\ UNCHANGED <<connectList, connected, countConn, held, accepts>>

\* The rest of spawn_net_connect_ib once packet_wait has found a packet:
\* recv_accept_message stores the write id.
FinishConnect(p) ==
    /\ app[p].at = "connecting"
    /\ vcs[p][app[p].id].apprecv # << >>
    /\ LET i == app[p].id
       IN  /\ vcs' = [vcs EXCEPT ![p][i].writeid = Head(vcs[p][i].apprecv),
                                 ![p][i].apprecv = Tail(@),
                                 ![p][i].state = "CONNECTED"]
           /\ held' = [held EXCEPT ![p] = @ \cup {i}]
    /\ countConn' = [countConn EXCEPT ![p] = @ + 1]
    /\ app' = [app EXCEPT ![p] = [at |-> "idle"]]
    /\ UNCHANGED <<nextId, sends, connectList, connected, wire, accepts>>

\* spawn_net_accept_ib up to comm_unlock: recv_connect_message takes the first
\* request, the VC joins the connected list and ACCEPT goes out.
Accept(p) ==
    /\ app[p].at = "idle"
    /\ connectList[p] # << >>
    /\ nextId[p] \in Ids(p)
    /\ LET i   == nextId[p]
           req == Head(connectList[p])
           v   == [NewVC(req.proc) EXCEPT !.writeid = req.id, !.torecv = 1]
           own == [proc |-> req.proc, id |-> req.id, vc |-> i]
       IN  /\ vcs' = [vcs EXCEPT ![p][i] =
                         [PostSend(v, "ACCEPT") EXCEPT !.state = "CONNECTED"]]
           /\ Post(p, i, Packet(p, i, v, Item(v, "ACCEPT")), req.proc)
           /\ connected' = [connected EXCEPT ![p] = @ \cup {own}]
           /\ accepts' = [accepts EXCEPT ![p] = @ \cup {own}]
           /\ app' = [app EXCEPT ![p] = [at |-> "accepted", id |-> i]]
    /\ connectList' = [connectList EXCEPT ![p] = Tail(@)]
    /\ nextId' = [nextId EXCEPT ![p] = @ + 1]
    /\ UNCHANGED <<countConn, held>>

\* The last statement of spawn_net_accept_ib, g_count_conn++, reads and writes
\* the counter without the lock.
AcceptLoad(p) ==
    /\ app[p].at = "accepted"
    /\ app' = [app EXCEPT ![p] = [at |-> "counting", id |-> app[p].id,
                                  load |-> countConn[p]]]
    /\ UNCHANGED <<net, nextId, connectList, connected, countConn, held, accepts>>

AcceptStore(p) ==
    /\ app[p].at = "counting"
    /\ countConn' = [countConn EXCEPT ![p] = app[p].load + 1]
    /\ held' = [held EXCEPT ![p] = @ \cup {app[p].id}]
    /\ app' = [app EXCEPT ![p] = [at |-> "idle"]]
    /\ UNCHANGED <<net, nextId, connectList, connected, accepts>>

\* spawn_net_write_ib of one packet; it fails once the peer has disconnected.
Write(p, i) ==
    /\ app[p].at = "idle" /\ i \in held[p]
    /\ ~vcs[p][i].remoteClosed
    /\ vcs[p][i].tosend <= MaxData[p]
    /\ LET v == vcs[p][i]
       IN  /\ vcs' = [vcs EXCEPT ![p][i] = PostSend(v, "DATA")]
           /\ Post(p, i, Packet(p, i, v, Item(v, "DATA")), v.peer)
    /\ UNCHANGED <<nextId, connectList, connected, countConn, app, held, accepts>>

\* spawn_net_disconnect_ib.
Disconnect(p, i) ==
    /\ app[p].at = "idle" /\ i \in held[p]
    /\ LET v == vcs[p][i]
           w == [PostSend(v, "DISCONNECT") EXCEPT !.localClosed = TRUE]
       IN  /\ Post(p, i, Packet(p, i, v, Item(v, "DISCONNECT")), v.peer)
           /\ vcs' = [vcs EXCEPT ![p][i] = VCFree(w, Len(sends[p][i]) + 1)]
           /\ connected' = [connected EXCEPT ![p] = ConnectedAfter(p, i, w)]
    /\ countConn' = [countConn EXCEPT ![p] = @ - 1]
    /\ held' = [held EXCEPT ![p] = @ \ {i}]
    /\ UNCHANGED <<nextId, connectList, app, accepts>>

-----------------------------------------------------------------------------
(* The progress threads.                                                   *)

SameRequest(r, pk) == r.proc = pk.src /\ r.id = pk.id

\* Faulty variant: requests that have been accepted are not looked up.
IsRepeated_OnlyPending(p, pk) ==
    \E k \in 1..Len(connectList[p]) : SameRequest(connectList[p][k], pk)

\* ud_process_connreq drops a request that is pending or already accepted.
IsRepeated(p, pk) ==
    \/ \E k \in 1..Len(connectList[p]) : SameRequest(connectList[p][k], pk)
    \/ \E c \in connected[p] : SameRequest(c, pk)

RecvConnect(p, pk) ==
    /\ pk.type = "CONNECT"
    /\ connectList' = IF IsRepeated(p, pk) THEN connectList
                      ELSE [connectList EXCEPT ![p] =
                               Append(@, [proc |-> pk.src, id |-> pk.id])]
    /\ UNCHANGED <<vcs, connected, countConn>>

\* ud_process_ack: what the packet acknowledges leaves the send window.
ProcessAck(v, ack) == [v EXCEPT !.sendwin = {m \in @ : m.seq > ack}]

\* Faulty variant: any VC with the sender of the packet is taken.
IsFor_AnyOfSender(p, i, pk) == Live(p, i) /\ vcs[p][i].peer = pk.src

\* cq_poll finds the VC of a packet by its srcid and checks who sent it.
IsFor(p, i, pk) == Live(p, i) /\ pk.srcid = i /\ vcs[p][i].peer = pk.src

\* cq_poll releases a packet that is not for a live VC.
RecvStray(p, pk) ==
    /\ pk.type # "CONNECT"
    /\ \A i \in Ids(p) : ~IsFor(p, i, pk)
    /\ UNCHANGED <<vcs, connectList, connected, countConn>>

\* ud_process_recv of a DISCONNECT packet: it is handled when it arrives, ahead
\* of packets with smaller numbers, and every copy of it counts.
RecvDisconnect(p, i, pk) ==
    /\ pk.type = "DISCONNECT"
    /\ LET v == [ProcessAck(vcs[p][i], pk.ack) EXCEPT !.remoteClosed = TRUE]
       IN  /\ vcs' = [vcs EXCEPT ![p][i] = VCFree(v, Len(sends[p][i]))]
           /\ connected' = [connected EXCEPT ![p] = ConnectedAfter(p, i, v)]
    /\ countConn' = [countConn EXCEPT ![p] = @ - 1]
    /\ UNCHANGED connectList

\* ud_process_recv and mv2_ud_place_recvwin of ACCEPT, DATA and ACK packets.
\* ACCEPT carries the id to write to; the payload of DATA is left out.
Placed(v, pk) ==
    IF pk.type = "ACK" THEN v
    ELSE IF pk.seq # v.torecv THEN [v EXCEPT !.ackNeed = TRUE]
    ELSE [v EXCEPT !.torecv = @ + 1, !.toack = pk.seq, !.ackNeed = TRUE,
                   !.apprecv = IF pk.type = "ACCEPT" THEN Append(@, pk.id) ELSE @]

RecvOther(p, i, pk) ==
    /\ pk.type \in {"ACCEPT", "DATA", "ACK"}
    /\ vcs' = [vcs EXCEPT ![p][i] = Placed(ProcessAck(@, pk.ack), pk)]
    /\ UNCHANGED <<connectList, connected, countConn>>

\* cq_poll of a receive completion.
ProcessRecv(p) ==
    /\ \E pk \in wire[p] :
          /\ wire' = [wire EXCEPT ![p] = @ \ {pk}]
          /\ \/ RecvConnect(p, pk)
             \/ RecvStray(p, pk)
             \/ \E i \in Ids(p) :
                   /\ pk.type # "CONNECT" /\ IsFor(p, i, pk)
                   /\ RecvDisconnect(p, i, pk) \/ RecvOther(p, i, pk)
    /\ UNCHANGED <<nextId, sends, app, held, accepts>>

\* cq_poll of a send completion: the last one of a closing VC deletes it.
SendComplete(p, i) ==
    /\ sends[p][i] # << >>
    /\ sends' = [sends EXCEPT ![p][i] = Tail(@)]
    /\ vcs' = IF vcs[p][i].state = "CLOSING" /\ Len(sends[p][i]) = 1
              THEN [vcs EXCEPT ![p][i] = NULL] ELSE vcs
    /\ UNCHANGED <<nextId, connectList, connected, countConn, app, held, wire,
                   accepts>>

\* ud_check_acks walks the connected list; ud_send_ack for each VC that owes an
\* acknowledgement.
CheckAcks(p) ==
    LET due == {i \in Ids(p) : /\ \E c \in connected[p] : c.vc = i
                               /\ vcs[p][i].ackNeed}
        Ack(i) == Packet(p, i, vcs[p][i], [type |-> "ACK", seq |-> -1])
    IN  /\ due # {}
        /\ vcs' = [vcs EXCEPT ![p] =
                      [i \in Ids(p) |-> IF i \in due THEN [@[i] EXCEPT !.ackNeed = FALSE]
                                        ELSE @[i]]]
        /\ wire' = [q \in Procs |->
                       Carry(wire[q], {Ack(i) : i \in {j \in due : vcs[p][j].peer = q}})]
        /\ sends' = [sends EXCEPT ![p] =
                        [i \in Ids(p) |-> IF i \in due THEN Append(@[i], -1) ELSE @[i]]]
        /\ UNCHANGED <<nextId, connectList, connected, countConn, app, held, accepts>>

\* Faulty variant: every packet is tossed as early as DISCONNECT.
RetryLeft_Short(m) == m.retry < MaxDiscRetry

\* ud_resend of a packet whose timer has expired (the timers are left open); it
\* returns while the last send of the packet is in progress.
Endless(m) == Patient /\ m.type # "DISCONNECT"
RetryLeft(m) ==
    Endless(m) \/ m.retry < (IF m.type = "DISCONNECT" THEN MaxDiscRetry ELSE MaxRetry)
Counted(m) == IF Endless(m) THEN m ELSE [m EXCEPT !.retry = @ + 1]
InProgress(p, i, m) == \E k \in 1..Len(sends[p][i]) : sends[p][i][k] = m.seq

Resend(p, i, m) ==
    /\ ~InProgress(p, i, m)
    /\ RetryLeft(m)
    /\ vcs' = [vcs EXCEPT ![p][i].sendwin = (@ \ {m}) \cup {Counted(m)},
                          ![p][i].ackNeed = FALSE]
    /\ Post(p, i, Packet(p, i, vcs[p][i], m), vcs[p][i].peer)
    /\ UNCHANGED <<nextId, connectList, connected, countConn, app, held, accepts>>

\* ud_toss_packet when the retries are used up.
Toss(p, i, m) ==
    /\ ~InProgress(p, i, m)
    /\ ~RetryLeft(m)
    /\ vcs' = [vcs EXCEPT ![p][i].sendwin = @ \ {m}]
    /\ UNCHANGED <<nextId, sends, connectList, connected, countConn, app, held,
                   wire, accepts>>

CheckResend(p, i) ==
    /\ Live(p, i)
    /\ \E m \in vcs[p][i].sendwin : Resend(p, i, m) \/ Toss(p, i, m)

\* The fabric loses a packet.
Lose(p) ==
    /\ \E pk \in wire[p] : wire' = [wire EXCEPT ![p] = @ \ {pk}]
    /\ UNCHANGED <<vcs, nextId, sends, connectList, connected, countConn, app,
                   held, accepts>>

Next ==
    \E p \in Procs :
        \/ \E q \in Procs : Connect(p, q)
        \/ FinishConnect(p)
        \/ Accept(p)
        \/ AcceptLoad(p)
        \/ AcceptStore(p)
        \/ \E i \in Ids(p) :
              Write(p, i) \/ Disconnect(p, i) \/ SendComplete(p, i) \/ CheckResend(p, i)
        \/ ProcessRecv(p)
        \/ CheckAcks(p)
        \/ Lose(p)

Spec == Init /\ [][Next]_vars

\* Fairness.  The server keeps calling accept, threads take their next steps,
\* posted sends complete, the timeout thread resends what is not acknowledged,
\* and a packet that is sent again and again arrives.
ReceiveType(p, type) ==
    /\ \E pk \in wire[p] :
          /\ pk.type = type
          /\ wire' = [wire EXCEPT ![p] = @ \ {pk}]
          /\ \/ RecvConnect(p, pk)
             \/ RecvStray(p, pk)
             \/ \E i \in Ids(p) :
                   /\ pk.type # "CONNECT" /\ IsFor(p, i, pk)
                   /\ RecvDisconnect(p, i, pk) \/ RecvOther(p, i, pk)
    /\ UNCHANGED <<nextId, sends, app, held, accepts>>

ResendType(p, i, type) ==
    Live(p, i) /\ \E m \in vcs[p][i].sendwin : m.type = type /\ Resend(p, i, m)

Fairness ==
    \A p \in Procs :
        /\ WF_vars(FinishConnect(p)) /\ WF_vars(Accept(p))
        /\ WF_vars(AcceptLoad(p)) /\ WF_vars(AcceptStore(p))
        /\ \A i \in Ids(p) :
              /\ WF_vars(SendComplete(p, i))
              /\ \A type \in {"CONNECT", "ACCEPT"} : WF_vars(ResendType(p, i, type))
        /\ \A type \in {"CONNECT", "ACCEPT"} : SF_vars(ReceiveType(p, type))

FairSpec == Spec /\ Fairness

-----------------------------------------------------------------------------
(* Properties.                                                             *)

PacketTypes == {"CONNECT", "ACCEPT", "DISCONNECT", "DATA", "ACK"}
Numbers == {-1} \cup UNION {0..(MaxData[p] + 1) : p \in Procs}
AllIds == UNION {Ids(p) : p \in Procs}
Packets == [type : PacketTypes, src : Procs, srcid : AllIds \cup {NoId},
            id : AllIds, seq : Numbers, ack : Numbers]
Items == [type : PacketTypes, seq : Numbers, retry : Nat]
VCs == [state : {"CONNECTING", "CONNECTED", "CLOSING"}, peer : Procs,
        writeid : AllIds \cup {NoId}, localClosed : BOOLEAN,
        remoteClosed : BOOLEAN, tosend : Nat, torecv : Nat, toack : Numbers,
        ackNeed : BOOLEAN, sendwin : SUBSET Items, apprecv : Seq(AllIds)]

\* Type invariant: VC tables, request lists, fabric and counters hold values of
\* their kind.
TypeOK ==
    /\ \A p \in Procs :
          /\ nextId[p] \in 0..MaxVC[p]
          /\ \A i \in Ids(p) : Live(p, i) => vcs[p][i] \in VCs
          /\ \A i \in Ids(p) : sends[p][i] \in Seq(Numbers)
          /\ connectList[p] \in Seq([proc : Procs, id : AllIds])
          /\ connected[p] \subseteq [proc : Procs, id : AllIds, vc : Ids(p)]
          /\ countConn[p] \in Int
          /\ app[p].at \in {"idle", "connecting", "accepted", "counting"}
          /\ held[p] \subseteq Ids(p)
          /\ wire[p] \subseteq Packets
          /\ accepts[p] \subseteq [proc : Procs, id : AllIds, vc : Ids(p)]

\* The application never holds a channel whose VC is closing or deleted, nor
\* waits on one in connect: the vc pointers of spawn_net_connect, read, write,
\* wait and disconnect are valid however the DISCONNECT packets of the two ends
\* cross.
HeldChannelsAreLive ==
    \A p \in Procs :
        /\ \A i \in held[p] :
              Live(p, i) /\ vcs[p][i].state = "CONNECTED" /\ ~vcs[p][i].localClosed
        /\ app[p].at = "connecting" => vcs[p][app[p].id].state = "CONNECTING"

\* cq_poll never looks at the VC of a completed send after vc_delete.
SendsHaveTheirVC ==
    \A p \in Procs : \A i \in Ids(p) : sends[p][i] # << >> => Live(p, i)

\* ud_check_acks never follows the pointer of a deleted VC.
ConnectedListIsLive ==
    \A p \in Procs : \A c \in connected[p] : Live(p, c.vc)

\* Whatever the progress threads find in a list or in a completion leads to a VC
\* that vc_delete has not taken away: the state has its type, and neither kind
\* of reference outlives its VC.
ReferencesAreLive == TypeOK /\ SendsHaveTheirVC /\ ConnectedListIsLive

\* A repeated CONNECT packet never becomes a second request while the first one
\* waits for accept or its VC exists (ud_process_connreq).
OneEntryPerRequest ==
    \A p \in Procs :
        /\ \A j, k \in 1..Len(connectList[p]) :
              connectList[p][j] = connectList[p][k] => j = k
        /\ \A c, d \in connected[p] : SameRequest(c, [src |-> d.proc, id |-> d.id]) => c = d
        /\ \A j \in 1..Len(connectList[p]) : \A c \in connected[p] :
              ~SameRequest(c, [src |-> connectList[p][j].proc, id |-> connectList[p][j].id])

\* While neither end has disconnected, the ids exchanged in CONNECT and ACCEPT
\* agree: the VC that p writes to belongs to p's peer, was made for p, and
\* writes back to p's VC (or still waits for the ACCEPT packet).
ChannelsArePaired ==
    \A p \in Procs : \A i \in held[p] :
        LET v == vcs[p][i]
            w == vcs[v.peer][v.writeid]
        IN  /\ v.writeid \in Ids(v.peer)
            /\ (Live(v.peer, v.writeid) /\ ~w.localClosed) =>
                  w.peer = p /\ w.writeid \in {i, NoId}

\* A channel whose writes fail because remote_closed is set was closed by the VC
\* at its other end, and not by a packet of another channel of that process.
RemoteClosedIsTrue ==
    \A p \in Procs : \A i \in held[p] :
        LET v == vcs[p][i]
        IN  v.remoteClosed =>
               (Live(v.peer, v.writeid) => vcs[v.peer][v.writeid].localClosed)

\* spawn_net_connect_ib returns: whatever packets are lost, its request reaches
\* the server's list once, is accepted, and the answer gets back.
ConnectReturns ==
    \A p \in Procs : (app[p].at = "connecting") ~> (app[p].at = "idle")

-----------------------------------------------------------------------------
(* What comments in the code claim and the code does not keep.             *)

\* spawn_net_accept_ib: "we need to ignore any duplicates", so that a connect is
\* accepted once.
AcceptedOnce ==
    \A p \in Procs : \A a, b \in accepts[p] :
        a.proc = b.proc /\ a.id = b.id => a = b

\* ud_process_recv: a VC is freed "once all of our outgoing packets are acked and
\* the local side also calls disconnect".
Gone(p, i) == vcs[p][i].state \in {"NULL", "CLOSING"}
FreedWhenAcked ==
    [][\A p \in Procs : \A i \in Ids(p) :
          (~Gone(p, i) /\ Gone(p, i)') => vcs[p][i].sendwin = {}]_vars

\* g_count_conn is the "number of active VC connections (local + remote)", so it
\* is never below zero.
ConnCountIsACount == \A p \in Procs : countConn[p] >= 0

-----------------------------------------------------------------------------
(* The inductive invariants behind the safety properties.                  *)

\* The tables have an entry for every process and id.
Shape ==
    /\ DOMAIN vcs = Procs /\ DOMAIN sends = Procs
    /\ \A p \in Procs : DOMAIN vcs[p] = Ids(p) /\ DOMAIN sends[p] = Ids(p)
    /\ DOMAIN nextId = Procs /\ DOMAIN connectList = Procs /\ DOMAIN connected = Procs
    /\ DOMAIN countConn = Procs /\ DOMAIN app = Procs /\ DOMAIN held = Procs
    /\ DOMAIN wire = Procs /\ DOMAIN accepts = Procs

\* What is true of a VC by itself: a closing VC is closed at both ends, and only a
\* VC that was closed locally has posted DISCONNECT or used its last number.
FieldsOK(p, v) ==
    /\ v \in VCs
    /\ v.state = "CONNECTING" => ~v.localClosed
    /\ v.state # "CONNECTING" => v.writeid # NoId
    /\ v.state = "CLOSING" => Closed(v)
    /\ v.tosend <= MaxData[p] + (IF v.localClosed THEN 2 ELSE 1)
    /\ \A m \in v.sendwin : m.type = "DISCONNECT" => v.localClosed

\* The application is inside connect or accept with VC i.
Uses(p, i) == app[p].at # "idle" /\ app[p].id = i

\* Who refers to VC i of p, and what may be relied upon.
VCOK(p, i) ==
    /\ sends[p][i] \in Seq(Numbers)
    /\ sends[p][i] # << >> => Live(p, i)
    /\ Live(p, i) => i < nextId[p] /\ FieldsOK(p, vcs[p][i])
    /\ \A c \in connected[p] : c.vc = i => Live(p, i) /\ vcs[p][i].state = "CONNECTED"
    /\ i \in held[p] =>
          Live(p, i) /\ vcs[p][i].state = "CONNECTED" /\ ~vcs[p][i].localClosed
    /\ Uses(p, i) =>
          /\ Live(p, i) /\ ~vcs[p][i].localClosed
          /\ vcs[p][i].state = IF app[p].at = "connecting" THEN "CONNECTING" ELSE "CONNECTED"

Accepted(p) == [proc : Procs, id : AllIds, vc : Ids(p)]

ProcTyped(p) ==
    /\ nextId[p] \in 0..MaxVC[p] /\ countConn[p] \in Int
    /\ connectList[p] \in Seq([proc : Procs, id : AllIds])
    /\ connected[p] \subseteq Accepted(p) /\ accepts[p] \subseteq Accepted(p)
    /\ held[p] \subseteq Ids(p) /\ wire[p] \subseteq Packets
    /\ app[p].at \in {"idle", "connecting", "accepted", "counting"}
    /\ app[p].at # "idle" => app[p].id \in Ids(p)
    /\ app[p].at = "counting" => app[p].load \in Int

\* First part: a VC exists as long as something refers to it.
TablesOK == Shape /\ \A p \in Procs : ProcTyped(p) /\ \A i \in Ids(p) : VCOK(p, i)

\* VC j of q was made for the request of VC i of p; the two belong together; VC i
\* was made by accept; VC i is closed at its own end, if it exists.
Entry(p, i, q, j) == [proc |-> p, id |-> i, vc |-> j] \in accepts[q]
Link(p, i, q, j) == Entry(p, i, q, j) \/ Entry(q, j, p, i)
Acceptor(p, i) == \E a \in accepts[p] : a.vc = i
Shut(p, i) == Live(p, i) => vcs[p][i].localClosed

\* <<p, i>> is a request that p has made to q.
IsRequest(p, i, q) ==
    /\ i \in Ids(p) /\ i < nextId[p] /\ ~Acceptor(p, i)
    /\ Live(p, i) => vcs[p][i].peer = q

\* Second part.  What has been accepted was requested; it stays on the connected
\* list until the requestor has closed.
AcceptsOK(q) ==
    /\ connected[q] \subseteq accepts[q]
    /\ \A a \in accepts[q] :
          /\ a.vc < nextId[q] /\ IsRequest(a.proc, a.id, q)
          /\ Live(q, a.vc) => /\ vcs[q][a.vc].peer = a.proc /\ vcs[q][a.vc].writeid = a.id
                              /\ vcs[q][a.vc].state # "CONNECTING"
          /\ \A b \in accepts[q] : a.vc = b.vc => a = b
          /\ a \in connected[q] \/ Shut(a.proc, a.id)

\* The ids a VC has been told belong to VCs that were made for it, and whoever
\* told it that its peer has closed was right.
NamesOK(p, i) ==
    LET v == vcs[p][i]
    IN  /\ \A k \in 1..Len(v.apprecv) : Entry(p, i, v.peer, v.apprecv[k])
        /\ v.writeid = NoId \/ Acceptor(p, i) \/ Entry(p, i, v.peer, v.writeid)
        /\ v.remoteClosed =>
              \E j \in Ids(v.peer) : Link(p, i, v.peer, j) /\ Shut(v.peer, j)
        /\ \A m \in v.sendwin : /\ m.type = "CONNECT" => ~Acceptor(p, i)
                                /\ m.type = "ACCEPT" => Acceptor(p, i)

\* A packet on its way to p is what its sender has, or had, reason to send.
PacketOK(p, pk) ==
    /\ pk.type = "CONNECT" => IsRequest(pk.src, pk.id, p)
    /\ pk.type = "ACCEPT" => Entry(p, pk.srcid, pk.src, pk.id)
    /\ pk.type = "DISCONNECT" =>
          pk.id \in Ids(pk.src) /\ Link(p, pk.srcid, pk.src, pk.id) /\ Shut(pk.src, pk.id)

PairsOK ==
    \A p \in Procs :
        /\ AcceptsOK(p)
        /\ \A k \in 1..Len(connectList[p]) :
              IsRequest(connectList[p][k].proc, connectList[p][k].id, p)
        /\ \A i \in Ids(p) : Live(p, i) => NamesOK(p, i)
        /\ \A pk \in wire[p] : PacketOK(p, pk)

=============================================================================
