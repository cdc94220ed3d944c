-------------------------- MODULE UDConnect_proofs --------------------------
(***************************************************************************)
(* Proofs about UDConnect: a VC lives as long as anything refers to it, a  *)
(* request is held once, and the two ends of a channel belong together,    *)
(* for any number of processes, VCs and packets.                           *)
(*                                                                         *)
(* The first part (TablesOK) follows each VC by itself; the second         *)
(* (OneEntryPerRequest) the lists of requests; the third (PairsOK) uses    *)
(* both to relate the VCs of different processes.  Most actions change one *)
(* VC of one process: the lemmas OtherVC and OtherProc say that the rest   *)
(* stays as it was.                                                        *)
(***************************************************************************)
EXTENDS UDConnect, SequenceTheorems, TLAPS

-----------------------------------------------------------------------------
(* Operators.                                                              *)

\* The parts of a sequence that is not empty.
LEMMA HeadTail ==
    ASSUME NEW S, NEW s \in Seq(S), s # << >>
    PROVE  /\ Head(s) \in S /\ Head(s) = s[1] /\ Tail(s) \in Seq(S)
           /\ Len(s) \in Nat \ {0} /\ Len(Tail(s)) = Len(s) - 1
           /\ \A k \in 1..Len(Tail(s)) : Tail(s)[k] = s[k + 1] /\ k + 1 \in 1..Len(s)
OBVIOUS

\* A record of VCs is not the null pointer.
LEMMA NotNull == \A v \in VCs : v # NULL
BY DEF VCs, NULL

\* The numbers of packets.
LEMMA NumbersProps ==
    /\ -1 \in Numbers /\ Numbers \subseteq Int
    /\ \A p \in Procs : \A n \in Int : 0 <= n /\ n <= MaxData[p] + 1 => n \in Numbers
    /\ \A p \in Procs : MaxData[p] \in Nat
<1>1. \A p \in Procs : MaxData[p] \in Nat
  BY ConnectAssumption
<1>2. \A p \in Procs : \A n \in Int : 0 <= n /\ n <= MaxData[p] + 1 => n \in 0..(MaxData[p] + 1)
  BY <1>1
<1>3. \A p \in Procs : 0..(MaxData[p] + 1) \subseteq Numbers
  BY DEF Numbers
<1>4. -1 \in Numbers /\ Numbers \subseteq Int
  BY DEF Numbers
<1>5. QED
  BY <1>1, <1>2, <1>3, <1>4

\* The ids of a process.
LEMMA IdsProps ==
    ASSUME NEW p \in Procs
    PROVE  Ids(p) \subseteq AllIds /\ Ids(p) \subseteq Nat /\ MaxVC[p] \in Nat
           /\ NoId \notin AllIds
<1>1. \A q \in Procs : MaxVC[q] \in Nat /\ Ids(q) \subseteq Nat
  BY ConnectAssumption DEF Ids
<1>2. Ids(p) \subseteq AllIds
  BY DEF AllIds
<1>3. NoId \notin AllIds
  BY <1>1 DEF AllIds, NoId
<1>4. QED
  BY <1>1, <1>2, <1>3

\* What the fabric carries was there or is new.
LEMMA CarryProps ==
    ASSUME NEW pkts, NEW new
    PROVE  Carry(pkts, new) \subseteq pkts \cup new
BY DEF Carry

\* The VC that connect starts with.
LEMMA ConnectVCProps ==
    ASSUME NEW q \in Procs
    PROVE  /\ NewVC(q) \in VCs /\ NewVC(q).state = "CONNECTING" /\ NewVC(q).peer = q
           /\ NewVC(q).writeid = NoId
           /\ ~NewVC(q).localClosed /\ ~NewVC(q).remoteClosed /\ NewVC(q).tosend = 0
           /\ NewVC(q).sendwin = {} /\ NewVC(q).apprecv = << >>
<1>1. -1 \in Numbers /\ << >> \in Seq(AllIds)
  BY NumbersProps
<1>2. QED
  BY <1>1 DEF NewVC, VCs

\* packet_send: the next number is used up and the send window grows.
LEMMA PostSendProps ==
    ASSUME NEW v \in VCs, NEW type \in PacketTypes, v.tosend \in Numbers
    PROVE  LET w == PostSend(v, type)
           IN  /\ w \in VCs /\ w.state = v.state /\ w.peer = v.peer /\ w.writeid = v.writeid
               /\ w.localClosed = v.localClosed /\ w.remoteClosed = v.remoteClosed
               /\ w.tosend = v.tosend + 1 /\ w.apprecv = v.apprecv
               /\ w.sendwin = v.sendwin \cup {Item(v, type)}
               /\ Item(v, type) \in Items /\ Item(v, type).type = type
               /\ Item(v, type).seq = v.tosend
<1>1. Item(v, type) \in Items /\ Item(v, type).type = type /\ Item(v, type).seq = v.tosend
  BY DEF Item, Items
<1>2. v.tosend + 1 \in Nat /\ v.sendwin \cup {Item(v, type)} \in SUBSET Items
  BY <1>1 DEF VCs
<1>3. QED
  BY <1>1, <1>2 DEF PostSend, VCs

\* A packet is of its kind.
LEMMA PacketProps ==
    ASSUME NEW p \in Procs, NEW i \in Ids(p), NEW v \in VCs, NEW item,
           item.type \in PacketTypes, item.seq \in Numbers
    PROVE  LET pk == Packet(p, i, v, item)
           IN  /\ pk \in Packets /\ pk.type = item.type /\ pk.src = p
               /\ pk.srcid = v.writeid /\ pk.id = i /\ pk.seq = item.seq
<1>1. i \in AllIds
  BY IdsProps
<1>2. QED
  BY <1>1 DEF Packet, Packets, VCs

\* vc_free keeps a VC that is not closed at both ends, deletes it when no send is
\* outstanding, and otherwise leaves it closing with its queues empty.
LEMMA VCFreeProps ==
    ASSUME NEW v \in VCs, NEW n
    PROVE  LET w == VCFree(v, n)
           IN  /\ ~Closed(v) => w = v
               /\ Closed(v) /\ n = 0 => w = NULL
               /\ Closed(v) /\ n # 0 =>
                     /\ w \in VCs /\ w.state = "CLOSING" /\ w.peer = v.peer
                     /\ w.writeid = v.writeid /\ w.localClosed /\ w.remoteClosed
                     /\ w.tosend = v.tosend /\ w.sendwin = {} /\ w.apprecv = << >>
<1>1. << >> \in Seq(AllIds) /\ {} \in SUBSET Items
  OBVIOUS
<1>2. QED
  BY <1>1 DEF VCFree, Closed, Deleted, VCs

\* ud_process_ack only takes packets out of the send window.
LEMMA ProcessAckProps ==
    ASSUME NEW v \in VCs, NEW ack
    PROVE  LET w == ProcessAck(v, ack)
           IN  /\ w \in VCs /\ w.state = v.state /\ w.peer = v.peer /\ w.writeid = v.writeid
               /\ w.localClosed = v.localClosed /\ w.remoteClosed = v.remoteClosed
               /\ w.tosend = v.tosend /\ w.apprecv = v.apprecv
               /\ w.sendwin \subseteq v.sendwin
<1>1. {m \in v.sendwin : m.seq > ack} \in SUBSET Items
  BY DEF VCs
<1>2. QED
  BY <1>1 DEF ProcessAck, VCs

\* Placing a packet in the receive window touches only the receiving side.
LEMMA PlacedProps ==
    ASSUME NEW v \in VCs, NEW pk \in Packets
    PROVE  LET w == Placed(v, pk)
           IN  /\ w \in VCs /\ w.state = v.state /\ w.peer = v.peer /\ w.writeid = v.writeid
               /\ w.localClosed = v.localClosed /\ w.remoteClosed = v.remoteClosed
               /\ w.tosend = v.tosend /\ w.sendwin = v.sendwin
               /\ \/ w.apprecv = v.apprecv
                  \/ pk.type = "ACCEPT" /\ w.apprecv = Append(v.apprecv, pk.id)
<1>1. pk.seq \in Numbers /\ pk.id \in AllIds
  BY DEF Packets
<1>2. Append(v.apprecv, pk.id) \in Seq(AllIds) /\ v.torecv + 1 \in Nat
  BY <1>1 DEF VCs
<1>3. QED
  BY <1>1, <1>2 DEF Placed, VCs

\* A change of one entry of a table of VCs.
LEMMA TableUpdate ==
    ASSUME NEW f, DOMAIN f = Procs, \A q \in Procs : DOMAIN f[q] = Ids(q),
           NEW p \in Procs, NEW i \in Ids(p), NEW e
    PROVE  LET g == [f EXCEPT ![p][i] = e]
           IN  /\ DOMAIN g = Procs /\ \A q \in Procs : DOMAIN g[q] = Ids(q)
               /\ g[p][i] = e
               /\ \A j \in Ids(p) : j # i => g[p][j] = f[p][j]
               /\ \A q \in Procs : q # p => g[q] = f[q]
OBVIOUS

-----------------------------------------------------------------------------
(* First part: the tables.                                                 *)

\* A step that leaves alone what process q keeps.
SameProc(q) ==
    /\ vcs'[q] = vcs[q] /\ sends'[q] = sends[q] /\ nextId'[q] = nextId[q]
    /\ connectList'[q] = connectList[q] /\ connected'[q] = connected[q]
    /\ countConn'[q] = countConn[q] /\ app'[q] = app[q] /\ held'[q] = held[q]
    /\ accepts'[q] = accepts[q]

\* A step that leaves VC j of p alone and adds no reference to it.
SameVC(p, j) ==
    /\ vcs'[p][j] = vcs[p][j] /\ sends'[p][j] = sends[p][j]
    /\ \A c \in connected'[p] : c.vc = j => c \in connected[p]
    /\ j \in held'[p] => j \in held[p]
    /\ Uses(p, j)' => app'[p] = app[p]

LEMMA OtherVC ==
    ASSUME NEW p \in Procs, NEW j \in Ids(p), VCOK(p, j), SameVC(p, j),
           nextId[p] \in Int, nextId'[p] \in Int, nextId[p] <= nextId'[p]
    PROVE  VCOK(p, j)'
<1>1. j \in Int
  BY IdsProps
<1>2. Live(p, j)' <=> Live(p, j)
  BY DEF SameVC, Live
<1>3. Live(p, j) => j < nextId'[p] /\ FieldsOK(p, vcs[p][j])
  BY <1>1 DEF VCOK
<1>4. Uses(p, j)' => Uses(p, j) /\ app'[p] = app[p]
  BY DEF SameVC, Uses
<1>5. QED
  BY <1>2, <1>3, <1>4 DEF VCOK, SameVC

LEMMA OtherProc ==
    ASSUME NEW q \in Procs, ProcTyped(q), \A i \in Ids(q) : VCOK(q, i), SameProc(q),
           wire'[q] \subseteq Packets
    PROVE  ProcTyped(q)' /\ \A i \in Ids(q) : VCOK(q, i)'
<1>1. ProcTyped(q)'
  BY DEF ProcTyped, SameProc
<1>2. ASSUME NEW i \in Ids(q)
      PROVE  VCOK(q, i)'
  <2>1. VCOK(q, i)
    OBVIOUS
  <2>2. QED
    BY <2>1 DEF VCOK, SameProc, Live, Uses
<1>3. QED
  BY <1>1, <1>2

\* A step of process p preserves the first part if it is right about p.
LEMMA ProcStep ==
    ASSUME TablesOK, NEW p \in Procs, Shape',
           \A q \in Procs : q # p => SameProc(q),
           \A q \in Procs : wire'[q] \subseteq Packets,
           nextId[p] <= nextId'[p],
           ProcTyped(p)',
           \A j \in Ids(p) : SameVC(p, j) \/ VCOK(p, j)'
    PROVE  TablesOK'
<1>1. ASSUME NEW q \in Procs, q # p
      PROVE  ProcTyped(q)' /\ \A i \in Ids(q) : VCOK(q, i)'
  BY <1>1, OtherProc DEF TablesOK
<1>2. nextId[p] \in Int /\ nextId'[p] \in Int
  <2>1. nextId[p] \in 0..MaxVC[p] /\ nextId'[p] \in 0..MaxVC[p] /\ MaxVC[p] \in Nat
    BY IdsProps DEF TablesOK, ProcTyped
  <2>2. QED
    BY <2>1
<1>3. ASSUME NEW j \in Ids(p)
      PROVE  VCOK(p, j)'
  <2>1. VCOK(p, j)
    BY DEF TablesOK
  <2>2. CASE SameVC(p, j)
    BY <1>2, <2>1, <2>2, OtherVC
  <2>3. QED
    BY <2>2
<1>4. QED
  BY <1>1, <1>3 DEF TablesOK

\* What the first part says of process p.
LEMMA ProcFacts ==
    ASSUME TablesOK, NEW p \in Procs
    PROVE  /\ Shape /\ ProcTyped(p)
           /\ nextId[p] \in Nat /\ MaxVC[p] \in Nat /\ countConn[p] \in Int
           /\ \A i \in Ids(p) :
                 /\ VCOK(p, i) /\ i \in Nat
                 /\ Live(p, i) => vcs[p][i] \in VCs /\ FieldsOK(p, vcs[p][i]) /\ i < nextId[p]
                 /\ i \in held[p] => /\ Live(p, i) /\ vcs[p][i].state = "CONNECTED"
                                     /\ ~vcs[p][i].localClosed
<1>1. Shape /\ ProcTyped(p) /\ \A i \in Ids(p) : VCOK(p, i)
  BY DEF TablesOK
<1>2. MaxVC[p] \in Nat /\ Ids(p) \subseteq Nat
  BY IdsProps
<1>3. nextId[p] \in 0..MaxVC[p] /\ countConn[p] \in Int
  BY <1>1 DEF ProcTyped
<1>4. nextId[p] \in Nat
  BY <1>2, <1>3
<1>5. ASSUME NEW i \in Ids(p)
      PROVE  /\ VCOK(p, i) /\ i \in Nat
             /\ Live(p, i) => vcs[p][i] \in VCs /\ FieldsOK(p, vcs[p][i]) /\ i < nextId[p]
             /\ i \in held[p] => /\ Live(p, i) /\ vcs[p][i].state = "CONNECTED"
                                 /\ ~vcs[p][i].localClosed
  BY <1>1, <1>2 DEF VCOK, FieldsOK
<1>6. QED
  BY <1>1, <1>2, <1>3, <1>4, <1>5

\* Posting a packet of VC i of p to q.
LEMMA PostProps ==
    ASSUME TablesOK, NEW p \in Procs, NEW i \in Ids(p), NEW q \in Procs,
           NEW pk \in Packets, Post(p, i, pk, q)
    PROVE  /\ DOMAIN sends' = Procs /\ \A r \in Procs : DOMAIN sends'[r] = Ids(r)
           /\ sends'[p][i] = Append(sends[p][i], pk.seq)
           /\ sends'[p][i] \in Seq(Numbers) /\ sends'[p][i] # << >>
           /\ \A j \in Ids(p) : j # i => sends'[p][j] = sends[p][j]
           /\ \A r \in Procs : r # p => sends'[r] = sends[r]
           /\ DOMAIN wire' = Procs
           /\ \A r \in Procs : wire'[r] \subseteq Packets
           /\ \A r \in Procs : r # q => wire'[r] = wire[r]
           /\ wire'[q] \subseteq wire[q] \cup {pk}
<1>1. Shape /\ VCOK(p, i) /\ pk.seq \in Numbers /\ \A r \in Procs : wire[r] \subseteq Packets
  BY DEF TablesOK, ProcTyped, Packets
<1>2. sends' = [sends EXCEPT ![p][i] = Append(sends[p][i], pk.seq)]
  BY DEF Post
<1>3. /\ DOMAIN sends' = Procs /\ \A r \in Procs : DOMAIN sends'[r] = Ids(r)
      /\ sends'[p][i] = Append(sends[p][i], pk.seq)
      /\ \A j \in Ids(p) : j # i => sends'[p][j] = sends[p][j]
      /\ \A r \in Procs : r # p => sends'[r] = sends[r]
  BY <1>1, <1>2, TableUpdate DEF Shape
<1>4. sends'[p][i] \in Seq(Numbers) /\ sends'[p][i] # << >>
  <2>1. sends[p][i] \in Seq(Numbers)
    BY <1>1 DEF VCOK
  <2>2. QED
    BY <1>1, <1>3, <2>1
<1>5. wire' = [wire EXCEPT ![q] = Carry(wire[q], {pk})] /\ DOMAIN wire = Procs
  BY <1>1 DEF Post, Shape
<1>6. wire'[q] \subseteq wire[q] \cup {pk}
  BY <1>5, CarryProps
<1>7. \A r \in Procs : r # q => wire'[r] = wire[r]
  BY <1>5
<1>8. ASSUME NEW r \in Procs PROVE wire'[r] \subseteq Packets
  BY <1>1, <1>6, <1>7
<1>9. QED
  BY <1>3, <1>4, <1>5, <1>6, <1>7, <1>8

\* VC i of p is the only one that changes.
OnlyVC(p, i) ==
    /\ \A j \in Ids(p) : j # i => vcs'[p][j] = vcs[p][j]
    /\ \A r \in Procs : r # p => vcs'[r] = vcs[r]

\* Only pk, sent to q, is new in the fabric.
NewPacket(q, pk) ==
    /\ \A r \in Procs : r # q => wire'[r] = wire[r]
    /\ wire'[q] \subseteq wire[q] \cup {pk}

\* w is what became of v: it has the same peer, and is not opened again.
Evolves(v, w) ==
    /\ w.peer = v.peer /\ w.writeid = v.writeid
    /\ w.state = "CONNECTING" => v.state = "CONNECTING"
    /\ v.localClosed => w.localClosed

\* p makes VC i for a request to q.
Requests(p, i, q) ==
    /\ i = nextId[p] /\ nextId' = [nextId EXCEPT ![p] = i + 1]
    /\ OnlyVC(p, i) /\ vcs'[p][i].peer = q /\ vcs'[p][i].writeid = NoId
    /\ ~vcs'[p][i].remoteClosed /\ vcs'[p][i].apprecv = << >>
    /\ \A m \in vcs'[p][i].sendwin : m.type = "CONNECT"
    /\ \E pk \in Packets : /\ NewPacket(q, pk) /\ pk.type = "CONNECT"
                           /\ pk.src = p /\ pk.id = i

\* spawn_net_connect_ib.
LEMMA ConnectTables ==
    ASSUME TablesOK, NEW p \in Procs, NEW q \in Procs, Connect(p, q)
    PROVE  /\ TablesOK'
           /\ \E i \in Ids(p) : Requests(p, i, q)
<1>a. PICK i \in Ids(p) : i = nextId[p]
  BY DEF Connect
<1> DEFINE v == NewVC(q)
           w == PostSend(v, "CONNECT")
           pk == Packet(p, i, v, Item(v, "CONNECT"))
<1>0. Shape /\ ProcTyped(p) /\ i \in Nat /\ MaxVC[p] \in Nat
  BY ProcFacts
<1>1. /\ vcs' = [vcs EXCEPT ![p][i] = w] /\ Post(p, i, pk, q)
      /\ app' = [app EXCEPT ![p] = [at |-> "connecting", id |-> i]] /\ app[p].at = "idle"
      /\ nextId' = [nextId EXCEPT ![p] = i + 1]
      /\ UNCHANGED <<connectList, connected, countConn, held, accepts>>
  BY <1>a DEF Connect
<1>2. /\ v \in VCs /\ v.state = "CONNECTING" /\ v.tosend = 0 /\ ~v.localClosed /\ v.sendwin = {}
      /\ v.writeid = NoId /\ v.peer = q /\ ~v.remoteClosed /\ v.apprecv = << >>
  BY ConnectVCProps
<1>3. MaxData[p] \in Nat /\ v.tosend \in Numbers /\ "CONNECT" \in PacketTypes
  BY <1>2, NumbersProps DEF PacketTypes
<1>4. /\ w \in VCs /\ w.state = "CONNECTING" /\ w.tosend = 1 /\ ~w.localClosed
      /\ w.sendwin = {Item(v, "CONNECT")} /\ Item(v, "CONNECT").type = "CONNECT"
      /\ Item(v, "CONNECT").seq = 0
      /\ w.peer = q /\ w.writeid = NoId /\ ~w.remoteClosed /\ w.apprecv = << >>
  BY <1>2, <1>3, PostSendProps
<1>5. pk \in Packets /\ pk.type = "CONNECT" /\ pk.src = p /\ pk.id = i
  BY <1>0, <1>2, <1>3, <1>4, PacketProps
<1> HIDE DEF v, w, pk
<1>6. FieldsOK(p, w)
  BY <1>3, <1>4 DEF FieldsOK, Closed
<1>7. /\ DOMAIN vcs' = Procs /\ \A r \in Procs : DOMAIN vcs'[r] = Ids(r)
      /\ vcs'[p][i] = w /\ \A j \in Ids(p) : j # i => vcs'[p][j] = vcs[p][j]
      /\ \A r \in Procs : r # p => vcs'[r] = vcs[r]
  BY <1>0, <1>1, TableUpdate DEF Shape
<1>8. /\ DOMAIN sends' = Procs /\ \A r \in Procs : DOMAIN sends'[r] = Ids(r)
      /\ sends'[p][i] \in Seq(Numbers) /\ sends'[p][i] # << >>
      /\ \A j \in Ids(p) : j # i => sends'[p][j] = sends[p][j]
      /\ \A r \in Procs : r # p => sends'[r] = sends[r]
      /\ DOMAIN wire' = Procs /\ \A r \in Procs : wire'[r] \subseteq Packets
      /\ \A r \in Procs : r # q => wire'[r] = wire[r]
      /\ wire'[q] \subseteq wire[q] \cup {pk}
  BY <1>0, <1>1, <1>5, PostProps
<1>9. Shape'
  BY <1>0, <1>1, <1>7, <1>8 DEF Shape
<1>10. ASSUME NEW r \in Procs, r # p PROVE SameProc(r)
  BY <1>0, <1>1, <1>7, <1>8, <1>10 DEF SameProc, Shape
<1>11. nextId'[p] = i + 1 /\ app'[p] = [at |-> "connecting", id |-> i]
  BY <1>0, <1>1 DEF Shape
<1>12. ProcTyped(p)'
  <2>1. nextId'[p] \in 0..MaxVC[p]
    BY <1>0, <1>11 DEF Ids
  <2>2. QED
    BY <1>0, <1>1, <1>8, <1>11, <2>1 DEF ProcTyped
<1>13. VCOK(p, i)
  BY <1>0 DEF TablesOK
<1>14. ~Live(p, i)
  BY <1>0, <1>a, <1>13 DEF VCOK
<1>15. VCOK(p, i)'
  <2>1. i < nextId'[p] /\ Live(p, i)' /\ w # NULL
    BY <1>0, <1>4, <1>7, <1>11, NotNull DEF Live
  <2>2. \A c \in connected'[p] : c.vc # i
    BY <1>1, <1>13, <1>14 DEF VCOK
  <2>3. i \notin held'[p]
    BY <1>1, <1>13, <1>14 DEF VCOK
  <2>4. app'[p].at = "connecting"
    BY <1>11
  <2>5. QED
    BY <1>4, <1>6, <1>7, <1>8, <2>1, <2>2, <2>3, <2>4 DEF VCOK
<1>16. ASSUME NEW j \in Ids(p), j # i PROVE SameVC(p, j)
  BY <1>1, <1>7, <1>8, <1>11, <1>16 DEF SameVC, Uses
<1>17. nextId[p] <= nextId'[p]
  BY <1>0, <1>a, <1>11
<1>18. TablesOK'
  BY <1>8, <1>9, <1>10, <1>12, <1>15, <1>16, <1>17, ProcStep
<1>19. OnlyVC(p, i) /\ NewPacket(q, pk)
  BY <1>7, <1>8 DEF OnlyVC, NewPacket
<1>20. Requests(p, i, q)
  BY <1>a, <1>1, <1>4, <1>5, <1>7, <1>19 DEF Requests
<1>21. QED
  BY <1>18, <1>20

\* connect takes the id to write to for VC i of p from the first ACCEPT packet.
Finishes(p, i) ==
    /\ OnlyVC(p, i) /\ Live(p, i) /\ vcs[p][i].state = "CONNECTING"
    /\ vcs[p][i].apprecv # << >> /\ vcs[p][i].apprecv \in Seq(AllIds)
    /\ vcs'[p][i] = [vcs[p][i] EXCEPT !.writeid = Head(vcs[p][i].apprecv),
                                      !.apprecv = Tail(vcs[p][i].apprecv),
                                      !.state = "CONNECTED"]
    /\ vcs[p][i] \in VCs
    /\ UNCHANGED <<nextId, sends, connectList, connected, wire, accepts>>

\* spawn_net_connect_ib returns.
LEMMA FinishConnectTables ==
    ASSUME TablesOK, NEW p \in Procs, FinishConnect(p)
    PROVE  TablesOK' /\ \E i \in Ids(p) : Finishes(p, i)
<1>0. Shape /\ ProcTyped(p) /\ app[p].at = "connecting" /\ countConn[p] \in Int
  BY ProcFacts DEF FinishConnect
<1>a. PICK i \in Ids(p) : i = app[p].id
  BY <1>0 DEF ProcTyped
<1> DEFINE v == vcs[p][i]
           w == [v EXCEPT !.writeid = Head(v.apprecv), !.apprecv = Tail(v.apprecv),
                          !.state = "CONNECTED"]
<1>1. /\ vcs' = [vcs EXCEPT ![p][i] = w] /\ v.apprecv # << >>
      /\ held' = [held EXCEPT ![p] = @ \cup {i}] /\ app' = [app EXCEPT ![p] = [at |-> "idle"]]
      /\ countConn' = [countConn EXCEPT ![p] = @ + 1]
      /\ UNCHANGED <<nextId, sends, connectList, connected, wire, accepts>>
  BY <1>a DEF FinishConnect
<1>2. VCOK(p, i) /\ Uses(p, i)
  BY <1>0, <1>a DEF TablesOK, Uses
<1>3. Live(p, i) /\ v.state = "CONNECTING" /\ ~v.localClosed /\ FieldsOK(p, v) /\ v \in VCs
  BY <1>0, <1>2 DEF VCOK, FieldsOK
<1>4. v.apprecv \in Seq(AllIds) /\ Head(v.apprecv) \in AllIds /\ Tail(v.apprecv) \in Seq(AllIds)
  <2>1. v.apprecv \in Seq(AllIds)
    BY <1>3 DEF VCs
  <2>2. QED
    BY <1>1, <2>1
<1>5. Head(v.apprecv) # NoId
  BY <1>4, IdsProps
<1>6. FieldsOK(p, w) /\ w.state = "CONNECTED" /\ ~w.localClosed
  BY <1>3, <1>4, <1>5 DEF FieldsOK, VCs, Closed
<1> HIDE DEF w
<1>7. /\ DOMAIN vcs' = Procs /\ \A r \in Procs : DOMAIN vcs'[r] = Ids(r)
      /\ vcs'[p][i] = w /\ \A j \in Ids(p) : j # i => vcs'[p][j] = vcs[p][j]
      /\ \A r \in Procs : r # p => vcs'[r] = vcs[r]
  BY <1>0, <1>1, TableUpdate DEF Shape
<1>8. Shape' /\ \A r \in Procs : r # p => SameProc(r)
  BY <1>0, <1>1, <1>7 DEF Shape, SameProc
<1>9. /\ app'[p] = [at |-> "idle"] /\ held'[p] = held[p] \cup {i}
      /\ countConn'[p] = countConn[p] + 1
  BY <1>0, <1>1 DEF Shape
<1>10. ProcTyped(p)'
  BY <1>0, <1>1, <1>9 DEF ProcTyped
<1>11. VCOK(p, i)'
  <2>1. Live(p, i)' /\ Live(p, i)
    BY <1>3, <1>6, <1>7, NotNull DEF Live, FieldsOK
  <2>2. ~Uses(p, i)'
    BY <1>9 DEF Uses
  <2>3. QED
    BY <1>1, <1>2, <1>3, <1>6, <1>7, <2>1, <2>2 DEF VCOK
<1>12. ASSUME NEW j \in Ids(p), j # i PROVE SameVC(p, j)
  BY <1>1, <1>7, <1>9, <1>12 DEF SameVC, Uses
<1>13. nextId[p] <= nextId'[p] /\ \A r \in Procs : wire'[r] \subseteq Packets
  BY <1>1, ProcFacts DEF ProcTyped
<1>14. TablesOK'
  BY <1>8, <1>10, <1>11, <1>12, <1>13, ProcStep
<1>15. OnlyVC(p, i)
  BY <1>7 DEF OnlyVC
<1>16. Finishes(p, i)
  BY <1>1, <1>3, <1>4, <1>7, <1>15 DEF w, Finishes
<1>17. QED
  BY <1>14, <1>16

\* p makes VC i for the request <<q, k>>, the first of its list.
Accepts(p, i, q, k) ==
    /\ i = nextId[p] /\ nextId' = [nextId EXCEPT ![p] = i + 1]
    /\ connectList[p] # << >> /\ Head(connectList[p]) = [proc |-> q, id |-> k]
    /\ OnlyVC(p, i) /\ vcs'[p][i].peer = q /\ vcs'[p][i].writeid = k
    /\ vcs'[p][i].state = "CONNECTED"
    /\ ~vcs'[p][i].remoteClosed /\ vcs'[p][i].apprecv = << >>
    /\ \A m \in vcs'[p][i].sendwin : m.type = "ACCEPT"
    /\ connected' = [connected EXCEPT ![p] = @ \cup {[proc |-> q, id |-> k, vc |-> i]}]
    /\ accepts' = [accepts EXCEPT ![p] = @ \cup {[proc |-> q, id |-> k, vc |-> i]}]
    /\ \E pk \in Packets : /\ NewPacket(q, pk) /\ pk.type = "ACCEPT"
                           /\ pk.src = p /\ pk.id = i /\ pk.srcid = k

\* spawn_net_accept_ib up to comm_unlock.
LEMMA AcceptTables ==
    ASSUME TablesOK, NEW p \in Procs, Accept(p)
    PROVE  /\ TablesOK'
           /\ \E i \in Ids(p), q \in Procs, k \in AllIds : Accepts(p, i, q, k)
<1>0. Shape /\ ProcTyped(p) /\ connectList[p] # << >> /\ app[p].at = "idle" /\ MaxVC[p] \in Nat
  BY ProcFacts DEF Accept
<1>a. PICK i \in Ids(p) : i = nextId[p] /\ i \in Nat
  BY ProcFacts DEF Accept
<1>1. connectList[p] \in Seq([proc : Procs, id : AllIds])
  BY <1>0 DEF ProcTyped
<1>2. Head(connectList[p]) \in [proc : Procs, id : AllIds]
      /\ Tail(connectList[p]) \in Seq([proc : Procs, id : AllIds])
  BY <1>0, <1>1, HeadTail
<1>b. PICK q \in Procs, k \in AllIds : Head(connectList[p]) = [proc |-> q, id |-> k]
  BY <1>2
<1> DEFINE v == [NewVC(q) EXCEPT !.writeid = k, !.torecv = 1]
           u == PostSend(v, "ACCEPT")
           w == [u EXCEPT !.state = "CONNECTED"]
           pk == Packet(p, i, v, Item(v, "ACCEPT"))
           own == [proc |-> q, id |-> k, vc |-> i]
<1>3. /\ vcs' = [vcs EXCEPT ![p][i] = w] /\ Post(p, i, pk, q)
      /\ connected' = [connected EXCEPT ![p] = @ \cup {own}]
      /\ accepts' = [accepts EXCEPT ![p] = @ \cup {own}]
      /\ app' = [app EXCEPT ![p] = [at |-> "accepted", id |-> i]]
      /\ connectList' = [connectList EXCEPT ![p] = Tail(@)]
      /\ nextId' = [nextId EXCEPT ![p] = i + 1]
      /\ UNCHANGED <<countConn, held>>
  <2>1. Head(connectList[p]).proc = q /\ Head(connectList[p]).id = k
    BY <1>b
  <2>2. QED
    BY <1>a, <2>1 DEF Accept
<1>4. /\ v \in VCs /\ v.state = "CONNECTING" /\ v.peer = q /\ v.writeid = k
      /\ ~v.localClosed /\ ~v.remoteClosed /\ v.tosend = 0 /\ v.sendwin = {} /\ v.apprecv = << >>
  <2>1. -1 \in Numbers /\ << >> \in Seq(AllIds)
    BY NumbersProps
  <2>2. QED
    BY <2>1 DEF NewVC, VCs
<1>5. MaxData[p] \in Nat /\ v.tosend \in Numbers /\ "ACCEPT" \in PacketTypes
  BY <1>4, NumbersProps DEF PacketTypes
<1> HIDE DEF v
<1>6. /\ u \in VCs /\ u.tosend = 1 /\ ~u.localClosed /\ u.peer = q /\ u.writeid = k
      /\ ~u.remoteClosed /\ u.apprecv = << >>
      /\ u.sendwin = {Item(v, "ACCEPT")} /\ Item(v, "ACCEPT").type = "ACCEPT"
      /\ Item(v, "ACCEPT").seq = 0
  BY <1>4, <1>5, PostSendProps
<1> HIDE DEF u
<1>7. /\ w \in VCs /\ w.state = "CONNECTED" /\ w.tosend = 1 /\ ~w.localClosed /\ w.peer = q
      /\ w.writeid = k /\ ~w.remoteClosed /\ w.apprecv = << >>
      /\ w.sendwin = {Item(v, "ACCEPT")}
  BY <1>6 DEF VCs
<1> HIDE DEF w
<1>8. pk \in Packets /\ pk.type = "ACCEPT" /\ pk.src = p /\ pk.id = i /\ pk.srcid = k
  BY <1>4, <1>5, <1>6, PacketProps
<1> HIDE DEF pk
<1>9. FieldsOK(p, w)
  <2>1. k # NoId
    BY IdsProps
  <2>2. QED
    BY <1>5, <1>6, <1>7, <2>1 DEF FieldsOK, Closed
<1>10. /\ DOMAIN vcs' = Procs /\ \A r \in Procs : DOMAIN vcs'[r] = Ids(r)
       /\ vcs'[p][i] = w /\ \A j \in Ids(p) : j # i => vcs'[p][j] = vcs[p][j]
       /\ \A r \in Procs : r # p => vcs'[r] = vcs[r]
  BY <1>0, <1>3, TableUpdate DEF Shape
<1>11. /\ DOMAIN sends' = Procs /\ \A r \in Procs : DOMAIN sends'[r] = Ids(r)
       /\ sends'[p][i] \in Seq(Numbers) /\ sends'[p][i] # << >>
       /\ \A j \in Ids(p) : j # i => sends'[p][j] = sends[p][j]
       /\ \A r \in Procs : r # p => sends'[r] = sends[r]
       /\ DOMAIN wire' = Procs /\ \A r \in Procs : wire'[r] \subseteq Packets
       /\ \A r \in Procs : r # q => wire'[r] = wire[r]
       /\ wire'[q] \subseteq wire[q] \cup {pk}
  BY <1>0, <1>3, <1>8, PostProps
<1>12. Shape'
  BY <1>0, <1>3, <1>10, <1>11 DEF Shape
<1>13. ASSUME NEW r \in Procs, r # p PROVE SameProc(r)
  BY <1>0, <1>3, <1>10, <1>11, <1>13 DEF SameProc, Shape
<1>14. /\ nextId'[p] = i + 1 /\ app'[p] = [at |-> "accepted", id |-> i]
       /\ connected'[p] = connected[p] \cup {own} /\ accepts'[p] = accepts[p] \cup {own}
       /\ connectList'[p] = Tail(connectList[p]) /\ held'[p] = held[p]
  BY <1>0, <1>3 DEF Shape
<1>15. ProcTyped(p)'
  <2>1. nextId'[p] \in 0..MaxVC[p]
    BY <1>0, <1>a, <1>14 DEF Ids
  <2>2. own \in Accepted(p)
    BY DEF Accepted
  <2>3. QED
    BY <1>0, <1>2, <1>3, <1>11, <1>14, <2>1, <2>2 DEF ProcTyped
<1>16. VCOK(p, i) /\ ~Live(p, i)
  BY <1>a DEF TablesOK, VCOK
<1>17. VCOK(p, i)'
  <2>1. i < nextId'[p] /\ Live(p, i)'
    BY <1>a, <1>7, <1>10, <1>14, NotNull DEF Live
  <2>2. i \notin held'[p] /\ app'[p].at = "accepted"
    BY <1>14, <1>16 DEF VCOK
  <2>3. QED
    BY <1>7, <1>9, <1>10, <1>11, <2>1, <2>2 DEF VCOK
<1>18. ASSUME NEW j \in Ids(p), j # i PROVE SameVC(p, j)
  BY <1>10, <1>11, <1>14, <1>18 DEF SameVC, Uses
<1>19. nextId[p] <= nextId'[p]
  BY <1>a, <1>14
<1>20. TablesOK'
  BY <1>11, <1>12, <1>13, <1>15, <1>17, <1>18, <1>19, ProcStep
<1>21. OnlyVC(p, i) /\ NewPacket(q, pk)
  BY <1>10, <1>11 DEF OnlyVC, NewPacket
<1>22. \A m \in w.sendwin : m.type = "ACCEPT"
  BY <1>6, <1>7
<1>23. QED
  <2>1. /\ OnlyVC(p, i) /\ vcs'[p][i].peer = q /\ vcs'[p][i].writeid = k
        /\ vcs'[p][i].state = "CONNECTED"
        /\ ~vcs'[p][i].remoteClosed /\ vcs'[p][i].apprecv = << >>
        /\ \A m \in vcs'[p][i].sendwin : m.type = "ACCEPT"
    BY <1>7, <1>10, <1>21, <1>22
  <2>2. \E k0 \in Packets : /\ NewPacket(q, k0) /\ k0.type = "ACCEPT"
                            /\ k0.src = p /\ k0.id = i /\ k0.srcid = k
    BY <1>8, <1>21
  <2>3. Accepts(p, i, q, k)
    BY <1>0, <1>a, <1>b, <1>3, <2>1, <2>2 DEF Accepts
  <2>4. QED
    BY <1>20, <2>3

\* The last statement of spawn_net_accept_ib.
LEMMA AcceptCountTables ==
    ASSUME TablesOK, NEW p \in Procs, AcceptLoad(p) \/ AcceptStore(p)
    PROVE  TablesOK' /\ UNCHANGED <<vcs, nextId, sends, connectList, connected, wire, accepts>>
<1>0. /\ Shape /\ ProcTyped(p) /\ countConn[p] \in Int
      /\ \A r \in Procs : wire[r] \subseteq Packets
      /\ UNCHANGED <<vcs, nextId, sends, connectList, connected, wire, accepts>>
  BY ProcFacts DEF TablesOK, ProcTyped, AcceptLoad, AcceptStore, net
<1>1. app[p].at \in {"accepted", "counting"}
  BY DEF AcceptLoad, AcceptStore
<1>a. PICK i \in Ids(p) : i = app[p].id
  BY <1>0, <1>1 DEF ProcTyped
<1>2. VCOK(p, i) /\ Uses(p, i)
  BY <1>1, <1>a DEF TablesOK, Uses
<1>3. Live(p, i) /\ ~vcs[p][i].localClosed /\ vcs[p][i].state = "CONNECTED"
  BY <1>1, <1>2 DEF VCOK
<1>4. nextId[p] <= nextId'[p]
  BY <1>0, ProcFacts
<1>5. CASE AcceptLoad(p)
  <2>1. /\ app' = [app EXCEPT ![p] = [at |-> "counting", id |-> i, load |-> countConn[p]]]
        /\ UNCHANGED <<countConn, held>>
    BY <1>a, <1>5 DEF AcceptLoad
  <2>2. app'[p] = [at |-> "counting", id |-> i, load |-> countConn[p]]
    BY <1>0, <2>1 DEF Shape
  <2>3. Shape' /\ \A r \in Procs : r # p => SameProc(r)
    BY <1>0, <2>1 DEF Shape, SameProc
  <2>4. ProcTyped(p)'
    BY <1>0, <2>1, <2>2 DEF ProcTyped
  <2>5. VCOK(p, i)'
    BY <1>0, <1>2, <1>3, <2>1, <2>2 DEF VCOK, Live
  <2>6. ASSUME NEW j \in Ids(p), j # i PROVE SameVC(p, j)
    BY <1>0, <2>1, <2>2, <2>6 DEF SameVC, Uses
  <2>7. QED
    BY <1>0, <1>4, <2>3, <2>4, <2>5, <2>6, ProcStep
<1>6. CASE AcceptStore(p)
  <2>1. /\ app' = [app EXCEPT ![p] = [at |-> "idle"]]
        /\ countConn' = [countConn EXCEPT ![p] = app[p].load + 1]
        /\ held' = [held EXCEPT ![p] = @ \cup {i}] /\ app[p].at = "counting"
    BY <1>a, <1>6 DEF AcceptStore
  <2>2. /\ app'[p] = [at |-> "idle"] /\ held'[p] = held[p] \cup {i}
        /\ countConn'[p] = app[p].load + 1 /\ app[p].load \in Int
    BY <1>0, <2>1 DEF Shape, ProcTyped
  <2>3. Shape' /\ \A r \in Procs : r # p => SameProc(r)
    BY <1>0, <2>1 DEF Shape, SameProc
  <2>4. ProcTyped(p)'
    BY <1>0, <2>1, <2>2 DEF ProcTyped
  <2>5. VCOK(p, i)'
    BY <1>0, <1>2, <1>3, <2>1, <2>2 DEF VCOK, Live, Uses
  <2>6. ASSUME NEW j \in Ids(p), j # i PROVE SameVC(p, j)
    BY <1>0, <2>1, <2>2, <2>6 DEF SameVC, Uses
  <2>7. QED
    BY <1>0, <1>4, <2>3, <2>4, <2>5, <2>6, ProcStep
<1>7. QED
  BY <1>0, <1>5, <1>6

\* The tables of VCs and of their sends keep their shape, and so does the fabric.
TablesShape ==
    /\ DOMAIN vcs' = Procs /\ \A r \in Procs : DOMAIN vcs'[r] = Ids(r)
    /\ DOMAIN sends' = Procs /\ \A r \in Procs : DOMAIN sends'[r] = Ids(r)
    /\ DOMAIN wire' = Procs /\ \A r \in Procs : wire'[r] \subseteq Packets

\* Only the sends of VC i of p change.
OnlySends(p, i) ==
    /\ \A j \in Ids(p) : j # i => sends'[p][j] = sends[p][j]
    /\ \A r \in Procs : r # p => sends'[r] = sends[r]

\* References to the VCs of p are only taken away.
FewerRefs(p) ==
    /\ DOMAIN countConn' = Procs /\ DOMAIN connected' = Procs /\ DOMAIN held' = Procs
    /\ \A r \in Procs : r # p => /\ countConn'[r] = countConn[r]
                                 /\ connected'[r] = connected[r] /\ held'[r] = held[r]
    /\ countConn'[p] \in Int /\ connected'[p] \subseteq connected[p] /\ held'[p] \subseteq held[p]
    /\ nextId' = nextId /\ connectList' = connectList /\ app' = app /\ accepts' = accepts

\* A step that changes VC i of p, and only takes references away.
LEMMA VCStep ==
    ASSUME TablesOK, NEW p \in Procs, NEW i \in Ids(p),
           TablesShape, OnlyVC(p, i), OnlySends(p, i), FewerRefs(p), VCOK(p, i)'
    PROVE  TablesOK'
<1>0. Shape /\ ProcTyped(p) /\ nextId[p] \in Nat
  BY ProcFacts
<1>2. Shape'
  BY <1>0 DEF Shape, TablesShape, FewerRefs
<1>3. \A r \in Procs : r # p => SameProc(r)
  BY DEF SameProc, OnlyVC, OnlySends, FewerRefs
<1>4. ProcTyped(p)'
  BY <1>0 DEF ProcTyped, FewerRefs, TablesShape
<1>5. ASSUME NEW j \in Ids(p), j # i PROVE SameVC(p, j)
  BY <1>5 DEF SameVC, Uses, OnlyVC, OnlySends, FewerRefs
<1>6. nextId[p] <= nextId'[p] /\ \A r \in Procs : wire'[r] \subseteq Packets
  BY <1>0 DEF FewerRefs, TablesShape
<1>7. QED
  BY <1>2, <1>3, <1>4, <1>5, <1>6, ProcStep

LEMMA NoRefsChange ==
    ASSUME TablesOK, NEW p \in Procs,
           UNCHANGED <<nextId, connectList, connected, countConn, app, held, accepts>>
    PROVE  FewerRefs(p)
BY DEF TablesOK, Shape, ProcTyped, FewerRefs

\* spawn_net_write_ib.
LEMMA WriteTables ==
    ASSUME TablesOK, NEW p \in Procs, NEW i \in Ids(p), Write(p, i)
    PROVE  /\ TablesOK' /\ OnlyVC(p, i) /\ Live(p, i) /\ vcs[p][i] \in VCs
           /\ Evolves(vcs[p][i], vcs'[p][i])
           /\ vcs'[p][i].remoteClosed = vcs[p][i].remoteClosed
           /\ vcs'[p][i].apprecv = vcs[p][i].apprecv
           /\ \A m \in vcs'[p][i].sendwin : m \in vcs[p][i].sendwin \/ m.type = "DATA"
           /\ \E pk \in Packets : NewPacket(vcs[p][i].peer, pk) /\ pk.type = "DATA"
<1> DEFINE v == vcs[p][i]
           w == PostSend(v, "DATA")
           pk == Packet(p, i, v, Item(v, "DATA"))
<1>0. Shape /\ ProcTyped(p) /\ VCOK(p, i) /\ i \in held[p] /\ app[p].at = "idle"
  BY ProcFacts DEF Write
<1>1. /\ Live(p, i) /\ v \in VCs /\ FieldsOK(p, v) /\ v.state = "CONNECTED" /\ ~v.localClosed
      /\ v.tosend <= MaxData[p] /\ v.tosend \in Nat /\ i < nextId[p] /\ v.peer \in Procs
  BY <1>0, ProcFacts DEF Write, VCs
<1>2. /\ vcs' = [vcs EXCEPT ![p][i] = w] /\ Post(p, i, pk, v.peer)
      /\ UNCHANGED <<nextId, connectList, connected, countConn, app, held, accepts>>
  BY DEF Write
<1> HIDE DEF v
<1>3. v.tosend \in Numbers /\ "DATA" \in PacketTypes /\ MaxData[p] \in Nat
  BY <1>1, NumbersProps DEF PacketTypes
<1>4. /\ w \in VCs /\ w.state = v.state /\ w.peer = v.peer /\ w.writeid = v.writeid
      /\ w.localClosed = v.localClosed /\ w.remoteClosed = v.remoteClosed
      /\ w.tosend = v.tosend + 1 /\ w.apprecv = v.apprecv
      /\ w.sendwin = v.sendwin \cup {Item(v, "DATA")}
      /\ Item(v, "DATA").type = "DATA" /\ Item(v, "DATA").seq = v.tosend
  BY <1>1, <1>3, PostSendProps
<1>5. pk \in Packets /\ pk.type = "DATA"
  BY <1>1, <1>3, <1>4, PacketProps
<1> HIDE DEF w, pk
<1>6. FieldsOK(p, w)
  BY <1>1, <1>3, <1>4 DEF FieldsOK, Closed
<1>7. /\ DOMAIN sends' = Procs /\ \A r \in Procs : DOMAIN sends'[r] = Ids(r)
      /\ sends'[p][i] \in Seq(Numbers) /\ sends'[p][i] # << >>
      /\ \A j \in Ids(p) : j # i => sends'[p][j] = sends[p][j]
      /\ \A r \in Procs : r # p => sends'[r] = sends[r]
      /\ DOMAIN wire' = Procs /\ \A r \in Procs : wire'[r] \subseteq Packets
      /\ \A r \in Procs : r # v.peer => wire'[r] = wire[r]
      /\ wire'[v.peer] \subseteq wire[v.peer] \cup {pk}
  BY <1>1, <1>2, <1>5, PostProps
<1>8. /\ DOMAIN vcs' = Procs /\ \A r \in Procs : DOMAIN vcs'[r] = Ids(r)
      /\ vcs'[p][i] = w /\ OnlyVC(p, i)
  BY <1>0, <1>2, TableUpdate DEF Shape, OnlyVC
<1>9. VCOK(p, i)'
  <2>1. Live(p, i)' /\ ~Uses(p, i)'
    BY <1>0, <1>2, <1>4, <1>8, NotNull DEF Live, Uses
  <2>2. QED
    BY <1>1, <1>2, <1>4, <1>6, <1>7, <1>8, <2>1 DEF VCOK
<1>10. TablesShape /\ OnlySends(p, i) /\ NewPacket(v.peer, pk)
  BY <1>7, <1>8 DEF TablesShape, OnlySends, NewPacket
<1>11. TablesOK'
  BY <1>2, <1>8, <1>9, <1>10, NoRefsChange, VCStep
<1>12. QED
  BY <1>1, <1>4, <1>5, <1>8, <1>10, <1>11 DEF v, Evolves

\* spawn_net_disconnect_ib: VC i is closed here, and leaves the connected list only
\* if it was closed at the other end before.
LEMMA DisconnectTables ==
    ASSUME TablesOK, NEW p \in Procs, NEW i \in Ids(p), Disconnect(p, i)
    PROVE  /\ TablesOK' /\ OnlyVC(p, i) /\ Live(p, i) /\ vcs[p][i] \in VCs /\ Live(p, i)'
           /\ Evolves(vcs[p][i], vcs'[p][i]) /\ vcs'[p][i].localClosed
           /\ vcs'[p][i].remoteClosed = vcs[p][i].remoteClosed
           /\ vcs'[p][i].apprecv \in {vcs[p][i].apprecv, << >>}
           /\ \A m \in vcs'[p][i].sendwin : m \in vcs[p][i].sendwin \/ m.type = "DISCONNECT"
           /\ vcs[p][i].writeid # NoId
           /\ \A r \in Procs : r # p => connected'[r] = connected[r]
           /\ \/ connected'[p] = connected[p]
              \/ vcs[p][i].remoteClosed /\ connected'[p] = {c \in connected[p] : c.vc # i}
           /\ nextId' = nextId /\ connectList' = connectList /\ accepts' = accepts
           /\ \E pk \in Packets : /\ NewPacket(vcs[p][i].peer, pk) /\ pk.type = "DISCONNECT"
                                  /\ pk.src = p /\ pk.id = i /\ pk.srcid = vcs[p][i].writeid
<1> DEFINE v == vcs[p][i]
           u == PostSend(v, "DISCONNECT")
           w == [u EXCEPT !.localClosed = TRUE]
           n == Len(sends[p][i]) + 1
           x == VCFree(w, n)
           pk == Packet(p, i, v, Item(v, "DISCONNECT"))
<1>0. Shape /\ ProcTyped(p) /\ VCOK(p, i) /\ i \in held[p] /\ app[p].at = "idle"
  BY ProcFacts DEF Disconnect
<1>1. /\ Live(p, i) /\ v \in VCs /\ FieldsOK(p, v) /\ v.state = "CONNECTED" /\ ~v.localClosed
      /\ v.tosend \in Nat /\ i < nextId[p] /\ v.peer \in Procs
      /\ v.remoteClosed \in BOOLEAN
  BY <1>0, ProcFacts DEF VCs
<1>2. /\ vcs' = [vcs EXCEPT ![p][i] = x] /\ Post(p, i, pk, v.peer)
      /\ connected' = [connected EXCEPT ![p] = ConnectedAfter(p, i, w)]
      /\ countConn' = [countConn EXCEPT ![p] = @ - 1] /\ held' = [held EXCEPT ![p] = @ \ {i}]
      /\ UNCHANGED <<nextId, connectList, app, accepts>>
  BY DEF Disconnect
<1>3. n # 0
  <2>1. sends[p][i] \in Seq(Numbers)
    BY <1>0 DEF VCOK
  <2>2. QED
    BY <2>1
<1> HIDE DEF v, n
<1>4. v.tosend \in Numbers /\ "DISCONNECT" \in PacketTypes /\ MaxData[p] \in Nat
      /\ v.tosend <= MaxData[p] + 1 /\ v.writeid # NoId
  <2>1. v.tosend <= MaxData[p] + 1 /\ v.writeid # NoId
    BY <1>1 DEF FieldsOK
  <2>2. QED
    BY <1>1, <2>1, NumbersProps DEF PacketTypes
<1>5. /\ u \in VCs /\ u.state = v.state /\ u.peer = v.peer /\ u.writeid = v.writeid
      /\ u.remoteClosed = v.remoteClosed
      /\ u.tosend = v.tosend + 1 /\ u.apprecv = v.apprecv
      /\ u.sendwin = v.sendwin \cup {Item(v, "DISCONNECT")}
      /\ Item(v, "DISCONNECT").type = "DISCONNECT" /\ Item(v, "DISCONNECT").seq = v.tosend
  BY <1>1, <1>4, PostSendProps
<1>6. pk \in Packets /\ pk.type = "DISCONNECT" /\ pk.src = p /\ pk.id = i /\ pk.srcid = v.writeid
  BY <1>1, <1>4, <1>5, PacketProps
<1> HIDE DEF u, pk
<1>7. /\ w \in VCs /\ w.state = "CONNECTED" /\ w.peer = v.peer /\ w.writeid = v.writeid
      /\ w.remoteClosed = v.remoteClosed /\ w.localClosed
      /\ w.tosend = v.tosend + 1 /\ w.apprecv = v.apprecv
      /\ w.sendwin = v.sendwin \cup {Item(v, "DISCONNECT")}
  BY <1>1, <1>5 DEF VCs
<1> HIDE DEF w
<1>8. /\ x \in VCs /\ x.peer = v.peer /\ x.writeid = v.writeid /\ x.localClosed
      /\ x.remoteClosed = v.remoteClosed /\ x.tosend = v.tosend + 1
      /\ x.apprecv \in {v.apprecv, << >>}
      /\ x.sendwin \subseteq v.sendwin \cup {Item(v, "DISCONNECT")}
      /\ x.state = IF v.remoteClosed THEN "CLOSING" ELSE "CONNECTED"
  <2>1. Closed(w) <=> v.remoteClosed
    BY <1>7 DEF Closed
  <2>2. CASE v.remoteClosed
    BY <1>1, <1>3, <1>7, <2>1, <2>2, VCFreeProps
  <2>3. CASE ~v.remoteClosed
    BY <1>1, <1>7, <2>1, <2>3, VCFreeProps
  <2>4. QED
    BY <2>2, <2>3
<1> HIDE DEF x
<1>9. FieldsOK(p, x)
  <2>1. x.tosend <= MaxData[p] + 2
    BY <1>1, <1>4, <1>8
  <2>2. QED
    BY <1>1, <1>4, <1>8, <2>1 DEF FieldsOK, Closed
<1>10. /\ DOMAIN sends' = Procs /\ \A r \in Procs : DOMAIN sends'[r] = Ids(r)
       /\ sends'[p][i] \in Seq(Numbers) /\ sends'[p][i] # << >>
       /\ \A j \in Ids(p) : j # i => sends'[p][j] = sends[p][j]
       /\ \A r \in Procs : r # p => sends'[r] = sends[r]
       /\ DOMAIN wire' = Procs /\ \A r \in Procs : wire'[r] \subseteq Packets
       /\ \A r \in Procs : r # v.peer => wire'[r] = wire[r]
       /\ wire'[v.peer] \subseteq wire[v.peer] \cup {pk}
  BY <1>1, <1>2, <1>6, PostProps
<1>11. /\ DOMAIN vcs' = Procs /\ \A r \in Procs : DOMAIN vcs'[r] = Ids(r)
       /\ vcs'[p][i] = x /\ OnlyVC(p, i)
  BY <1>0, <1>2, TableUpdate DEF Shape, OnlyVC
<1>12. /\ connected'[p] = IF v.remoteClosed THEN {c \in connected[p] : c.vc # i} ELSE connected[p]
       /\ \A r \in Procs : r # p => connected'[r] = connected[r]
       /\ DOMAIN connected' = Procs
  BY <1>0, <1>2, <1>7 DEF Shape, ConnectedAfter, PurgeConnected, Closed
<1>13. held'[p] = held[p] \ {i} /\ countConn'[p] = countConn[p] - 1
  BY <1>0, <1>2 DEF Shape
<1>14. VCOK(p, i)'
  <2>1. Live(p, i)' /\ ~Uses(p, i)' /\ i \notin held'[p]
    BY <1>0, <1>2, <1>8, <1>11, <1>13, NotNull DEF Live, Uses
  <2>2. \A c \in connected'[p] : c.vc = i => x.state = "CONNECTED"
    BY <1>8, <1>12
  <2>3. QED
    BY <1>1, <1>2, <1>8, <1>9, <1>10, <1>11, <2>1, <2>2 DEF VCOK
<1>15. TablesShape /\ OnlySends(p, i) /\ NewPacket(v.peer, pk)
  BY <1>10, <1>11 DEF TablesShape, OnlySends, NewPacket
<1>16. FewerRefs(p)
  <2>1. countConn'[p] \in Int
    BY <1>13, ProcFacts
  <2>2. connected'[p] \subseteq connected[p]
    BY <1>12
  <2>3. QED
    BY <1>0, <1>2, <1>12, <1>13, <2>1, <2>2 DEF FewerRefs, Shape
<1>17. TablesOK'
  BY <1>11, <1>14, <1>15, <1>16, VCStep
<1>18. Evolves(v, x) /\ \A m \in x.sendwin : m \in v.sendwin \/ m.type = "DISCONNECT"
  BY <1>1, <1>5, <1>8 DEF Evolves
<1>19. Live(p, i)'
  BY <1>8, <1>11, NotNull DEF Live
<1>20. QED
  BY <1>1, <1>2, <1>4, <1>6, <1>8, <1>11, <1>12, <1>15, <1>17, <1>18, <1>19 DEF v

\* cq_poll of a send completion.
LEMMA SendCompleteTables ==
    ASSUME TablesOK, NEW p \in Procs, NEW i \in Ids(p), SendComplete(p, i)
    PROVE  /\ TablesOK' /\ OnlyVC(p, i)
           /\ vcs'[p][i] = vcs[p][i] \/ ~Live(p, i)'
           /\ UNCHANGED <<nextId, connectList, connected, wire, accepts>>
<1>0. Shape /\ ProcTyped(p) /\ VCOK(p, i) /\ sends[p][i] # << >> /\ sends[p][i] \in Seq(Numbers)
  BY ProcFacts DEF SendComplete, VCOK
<1>1. /\ sends' = [sends EXCEPT ![p][i] = Tail(sends[p][i])]
      /\ UNCHANGED <<nextId, connectList, connected, countConn, app, held, wire, accepts>>
  BY DEF SendComplete
<1>2. Live(p, i) /\ FieldsOK(p, vcs[p][i])
  BY <1>0 DEF VCOK
<1>3. Tail(sends[p][i]) \in Seq(Numbers) /\ (Len(sends[p][i]) = 1 => Tail(sends[p][i]) = << >>)
  <2>1. Tail(sends[p][i]) \in Seq(Numbers) /\ Len(Tail(sends[p][i])) = Len(sends[p][i]) - 1
    BY <1>0, HeadTail
  <2>2. Len(Tail(sends[p][i])) = 0 => Tail(sends[p][i]) = << >>
    BY <2>1, EmptySeq
  <2>3. QED
    BY <2>1, <2>2
<1>4. /\ DOMAIN sends' = Procs /\ \A r \in Procs : DOMAIN sends'[r] = Ids(r)
      /\ sends'[p][i] = Tail(sends[p][i]) /\ OnlySends(p, i)
  BY <1>0, <1>1, TableUpdate DEF Shape, OnlySends
<1>5. FewerRefs(p)
  BY <1>1, NoRefsChange
<1>6. CASE vcs[p][i].state = "CLOSING" /\ Len(sends[p][i]) = 1
  <2>1. vcs' = [vcs EXCEPT ![p][i] = NULL]
    BY <1>6 DEF SendComplete
  <2>2. /\ DOMAIN vcs' = Procs /\ \A r \in Procs : DOMAIN vcs'[r] = Ids(r)
        /\ vcs'[p][i] = NULL /\ OnlyVC(p, i)
    BY <1>0, <2>1, TableUpdate DEF Shape, OnlyVC
  <2>3. TablesShape
    BY <1>0, <1>1, <1>4, <2>2 DEF TablesShape, Shape, TablesOK, ProcTyped
  <2>4. ~Live(p, i)'
    BY <2>2 DEF Live
  <2>5. VCOK(p, i)'
    <3>1. sends'[p][i] = << >>
      BY <1>3, <1>4, <1>6
    <3>2. \A c \in connected[p] : c.vc # i
      BY <1>0, <1>6 DEF VCOK
    <3>3. i \notin held[p] /\ ~Uses(p, i)
      <4>1. Closed(vcs[p][i])
        BY <1>2, <1>6 DEF FieldsOK
      <4>2. QED
        BY <1>0, <4>1 DEF VCOK, Closed
    <3>4. ~Uses(p, i)'
      BY <1>1, <3>3 DEF Uses
    <3>5. QED
      BY <1>1, <1>3, <1>4, <2>4, <3>1, <3>2, <3>3, <3>4 DEF VCOK
  <2>6. TablesOK'
    BY <1>4, <1>5, <2>2, <2>3, <2>5, VCStep
  <2>7. QED
    BY <1>1, <2>2, <2>4, <2>6
<1>7. CASE ~(vcs[p][i].state = "CLOSING" /\ Len(sends[p][i]) = 1)
  <2>1. vcs' = vcs
    BY <1>7 DEF SendComplete
  <2>2. OnlyVC(p, i) /\ TablesShape
    BY <1>0, <1>1, <1>4, <2>1 DEF TablesShape, Shape, TablesOK, ProcTyped, OnlyVC
  <2>3. VCOK(p, i)'
    BY <1>0, <1>1, <1>2, <1>3, <1>4, <2>1 DEF VCOK, Live, Uses
  <2>4. TablesOK'
    BY <1>4, <1>5, <2>2, <2>3, VCStep
  <2>5. QED
    BY <1>1, <2>1, <2>2, <2>4
<1>8. QED
  BY <1>6, <1>7

\* ud_resend and ud_toss_packet.
LEMMA CheckResendTables ==
    ASSUME TablesOK, NEW p \in Procs, NEW i \in Ids(p), CheckResend(p, i)
    PROVE  /\ TablesOK' /\ OnlyVC(p, i) /\ Live(p, i) /\ vcs[p][i] \in VCs
           /\ Evolves(vcs[p][i], vcs'[p][i])
           /\ vcs'[p][i].remoteClosed = vcs[p][i].remoteClosed
           /\ vcs'[p][i].apprecv = vcs[p][i].apprecv
           /\ \A m \in vcs'[p][i].sendwin : \E l \in vcs[p][i].sendwin : m.type = l.type
           /\ UNCHANGED <<nextId, connectList, connected, accepts>>
           /\ \/ wire' = wire
              \/ \E m \in vcs[p][i].sendwin, pk \in Packets :
                    /\ NewPacket(vcs[p][i].peer, pk) /\ pk.type = m.type
                    /\ pk.src = p /\ pk.id = i /\ pk.srcid = vcs[p][i].writeid
<1> DEFINE v == vcs[p][i]
<1>0. Shape /\ ProcTyped(p) /\ VCOK(p, i) /\ Live(p, i)
  BY ProcFacts DEF CheckResend
<1>1. /\ v \in VCs /\ FieldsOK(p, v) /\ v.peer \in Procs /\ v.sendwin \subseteq Items
      /\ i < nextId[p]
  BY <1>0 DEF VCOK, FieldsOK, VCs
<1>2. PICK m \in v.sendwin : Resend(p, i, m) \/ Toss(p, i, m)
  BY DEF CheckResend
<1>3. m \in Items /\ m.type \in PacketTypes /\ m.seq \in Numbers /\ m.retry \in Nat
  BY <1>1 DEF Items
<1>4. UNCHANGED <<nextId, connectList, connected, countConn, app, held, accepts>>
  BY <1>2 DEF Resend, Toss
<1>5. FewerRefs(p)
  BY <1>4, NoRefsChange
<1>6. ASSUME NEW w, vcs' = [vcs EXCEPT ![p][i] = w], w \in VCs, Evolves(v, w),
             w.state = v.state, w.localClosed = v.localClosed, w.remoteClosed = v.remoteClosed,
             w.tosend = v.tosend,
             \A l \in w.sendwin : \E o \in v.sendwin : l.type = o.type,
             DOMAIN sends' = Procs, \A r \in Procs : DOMAIN sends'[r] = Ids(r),
             sends'[p][i] \in Seq(Numbers), OnlySends(p, i),
             DOMAIN wire' = Procs, \A r \in Procs : wire'[r] \subseteq Packets
      PROVE  TablesOK' /\ OnlyVC(p, i) /\ vcs'[p][i] = w
  <2>1. /\ DOMAIN vcs' = Procs /\ \A r \in Procs : DOMAIN vcs'[r] = Ids(r)
        /\ vcs'[p][i] = w /\ OnlyVC(p, i)
    BY <1>0, <1>6, TableUpdate DEF Shape, OnlyVC
  <2>2. FieldsOK(p, w)
    BY <1>1, <1>6 DEF FieldsOK, Evolves, Closed
  <2>3. Live(p, i)'
    BY <1>6, <2>1, NotNull DEF Live
  <2>4. VCOK(p, i)'
    BY <1>0, <1>1, <1>4, <1>6, <2>1, <2>2, <2>3 DEF VCOK, Uses
  <2>5. TablesShape
    BY <1>6, <2>1 DEF TablesShape
  <2>6. QED
    BY <1>5, <1>6, <2>1, <2>4, <2>5, VCStep
<1>7. CASE Resend(p, i, m)
  <2> DEFINE w == [v EXCEPT !.sendwin = (v.sendwin \ {m}) \cup {Counted(m)}, !.ackNeed = FALSE]
             pk == Packet(p, i, v, m)
  <2>1. Counted(m) \in Items /\ Counted(m).type = m.type
    BY <1>3 DEF Counted, Items
  <2>2. /\ w \in VCs /\ w.state = v.state /\ w.peer = v.peer /\ w.writeid = v.writeid
        /\ w.localClosed = v.localClosed /\ w.remoteClosed = v.remoteClosed
        /\ w.tosend = v.tosend /\ w.apprecv = v.apprecv
        /\ w.sendwin = (v.sendwin \ {m}) \cup {Counted(m)}
    BY <1>1, <2>1 DEF VCs
  <2>3. \A l \in w.sendwin : \E o \in v.sendwin : l.type = o.type
    BY <2>1, <2>2
  <2>4. vcs' = [vcs EXCEPT ![p][i] = w] /\ Post(p, i, pk, v.peer)
    BY <1>7 DEF Resend
  <2>5. pk \in Packets /\ pk.type = m.type /\ pk.src = p /\ pk.id = i /\ pk.srcid = v.writeid
    BY <1>1, <1>3, PacketProps
  <2> HIDE DEF pk, w, v
  <2>6. /\ DOMAIN sends' = Procs /\ \A r \in Procs : DOMAIN sends'[r] = Ids(r)
        /\ sends'[p][i] \in Seq(Numbers) /\ OnlySends(p, i) /\ NewPacket(v.peer, pk)
        /\ DOMAIN wire' = Procs /\ \A r \in Procs : wire'[r] \subseteq Packets
    BY <1>1, <2>4, <2>5, PostProps DEF OnlySends, NewPacket
  <2>7. Evolves(v, w)
    BY <2>2 DEF Evolves
  <2>8. TablesOK' /\ OnlyVC(p, i) /\ vcs'[p][i] = w
    BY <1>6, <2>2, <2>3, <2>4, <2>6, <2>7
  <2>9. QED
    BY <1>0, <1>1, <1>4, <2>2, <2>3, <2>5, <2>6, <2>7, <2>8 DEF v
<1>8. CASE Toss(p, i, m)
  <2> DEFINE w == [v EXCEPT !.sendwin = v.sendwin \ {m}]
  <2>2. /\ w \in VCs /\ w.state = v.state /\ w.peer = v.peer /\ w.writeid = v.writeid
        /\ w.localClosed = v.localClosed /\ w.remoteClosed = v.remoteClosed
        /\ w.tosend = v.tosend /\ w.apprecv = v.apprecv
        /\ w.sendwin = v.sendwin \ {m}
    BY <1>1 DEF VCs
  <2>3. \A l \in w.sendwin : \E o \in v.sendwin : l.type = o.type
    BY <2>2
  <2>4. vcs' = [vcs EXCEPT ![p][i] = w] /\ sends' = sends /\ wire' = wire
    BY <1>8 DEF Toss
  <2> HIDE DEF w, v
  <2>6. /\ DOMAIN sends' = Procs /\ \A r \in Procs : DOMAIN sends'[r] = Ids(r)
        /\ sends'[p][i] \in Seq(Numbers) /\ OnlySends(p, i)
        /\ DOMAIN wire' = Procs /\ \A r \in Procs : wire'[r] \subseteq Packets
    BY <1>0, <2>4 DEF Shape, OnlySends, VCOK, TablesOK, ProcTyped
  <2>7. Evolves(v, w)
    BY <2>2 DEF Evolves
  <2>8. TablesOK' /\ OnlyVC(p, i) /\ vcs'[p][i] = w
    BY <1>6, <2>2, <2>3, <2>4, <2>6, <2>7
  <2>9. QED
    BY <1>0, <1>1, <1>4, <2>2, <2>3, <2>4, <2>7, <2>8 DEF v
<1>9. QED
  BY <1>2, <1>7, <1>8

\* cq_poll of a CONNECT packet, and of a packet that is for no VC.
LEMMA RecvNoVCTables ==
    ASSUME TablesOK, NEW p \in Procs, NEW pk \in wire[p],
           wire' = [wire EXCEPT ![p] = @ \ {pk}], UNCHANGED <<nextId, sends, app, held, accepts>>,
           RecvConnect(p, pk) \/ RecvStray(p, pk)
    PROVE  TablesOK' /\ UNCHANGED <<vcs, connected>>
<1>0. /\ Shape /\ ProcTyped(p) /\ UNCHANGED <<vcs, connected, countConn>>
      /\ \A r \in Procs : wire[r] \subseteq Packets
  BY ProcFacts DEF TablesOK, ProcTyped, RecvConnect, RecvStray
<1>1. [proc |-> pk.src, id |-> pk.id] \in [proc : Procs, id : AllIds]
  BY <1>0 DEF Packets
<1>2. /\ DOMAIN connectList' = Procs /\ connectList'[p] \in Seq([proc : Procs, id : AllIds])
      /\ \A r \in Procs : r # p => connectList'[r] = connectList[r]
  <2>1. CASE connectList' = connectList
    BY <1>0, <2>1 DEF Shape, ProcTyped
  <2>2. CASE connectList' = [connectList EXCEPT ![p] =
                               Append(@, [proc |-> pk.src, id |-> pk.id])]
    <3>1. connectList[p] \in Seq([proc : Procs, id : AllIds])
      BY <1>0 DEF ProcTyped
    <3>2. Append(connectList[p], [proc |-> pk.src, id |-> pk.id])
              \in Seq([proc : Procs, id : AllIds])
      BY <1>1, <3>1, AppendProperties
    <3>3. QED
      BY <1>0, <2>2, <3>2 DEF Shape
  <2>3. QED
    BY <2>1, <2>2 DEF RecvConnect, RecvStray
<1>3. DOMAIN wire' = Procs /\ \A r \in Procs : wire'[r] \subseteq Packets
  BY <1>0 DEF Shape
<1>4. Shape' /\ \A r \in Procs : r # p => SameProc(r)
  BY <1>0, <1>2, <1>3 DEF Shape, SameProc
<1>5. ProcTyped(p)'
  BY <1>0, <1>2, <1>3 DEF ProcTyped
<1>6. ASSUME NEW j \in Ids(p) PROVE SameVC(p, j)
  BY <1>0 DEF SameVC
<1>7. nextId[p] <= nextId'[p]
  BY ProcFacts
<1>8. QED
  BY <1>0, <1>3, <1>4, <1>5, <1>6, <1>7, ProcStep

\* cq_poll of a DISCONNECT packet for VC i: it is closed at the other end, and
\* leaves the connected list only if it was closed here before.
LEMMA RecvDisconnectTables ==
    ASSUME TablesOK, NEW p \in Procs, NEW i \in Ids(p), NEW pk \in wire[p],
           wire' = [wire EXCEPT ![p] = @ \ {pk}], UNCHANGED <<nextId, sends, app, held, accepts>>,
           IsFor(p, i, pk), RecvDisconnect(p, i, pk)
    PROVE  /\ TablesOK' /\ OnlyVC(p, i) /\ Live(p, i) /\ vcs[p][i] \in VCs
           /\ \/ ~Live(p, i)'
              \/ /\ Evolves(vcs[p][i], vcs'[p][i])
                 /\ vcs'[p][i].apprecv \in {vcs[p][i].apprecv, << >>}
                 /\ vcs'[p][i].sendwin \subseteq vcs[p][i].sendwin
           /\ \A r \in Procs : r # p => connected'[r] = connected[r]
           /\ connected'[p] \in {connected[p], {c \in connected[p] : c.vc # i}}
           /\ connectList' = connectList
<1> DEFINE v == vcs[p][i]
           u == ProcessAck(v, pk.ack)
           w == [u EXCEPT !.remoteClosed = TRUE]
           n == Len(sends[p][i])
           x == VCFree(w, n)
<1>0. /\ Shape /\ ProcTyped(p) /\ VCOK(p, i) /\ Live(p, i)
      /\ \A r \in Procs : wire[r] \subseteq Packets
  BY ProcFacts DEF IsFor, TablesOK, ProcTyped
<1>1. v \in VCs /\ FieldsOK(p, v) /\ v.localClosed \in BOOLEAN /\ i < nextId[p]
  BY <1>0 DEF VCOK, FieldsOK, VCs
<1>2. /\ vcs' = [vcs EXCEPT ![p][i] = x]
      /\ connected' = [connected EXCEPT ![p] = ConnectedAfter(p, i, w)]
      /\ countConn' = [countConn EXCEPT ![p] = @ - 1] /\ connectList' = connectList
  BY DEF RecvDisconnect
<1>3. n = 0 <=> sends[p][i] = << >>
  <2>1. sends[p][i] \in Seq(Numbers)
    BY <1>0 DEF VCOK
  <2>2. QED
    BY <2>1, EmptySeq
<1> HIDE DEF v, n
<1>4. /\ u \in VCs /\ u.state = v.state /\ u.peer = v.peer /\ u.writeid = v.writeid
      /\ u.localClosed = v.localClosed /\ u.tosend = v.tosend /\ u.apprecv = v.apprecv
      /\ u.sendwin \subseteq v.sendwin
  BY <1>1, ProcessAckProps
<1> HIDE DEF u
<1>5. /\ w \in VCs /\ w.state = v.state /\ w.peer = v.peer /\ w.writeid = v.writeid
      /\ w.localClosed = v.localClosed /\ w.remoteClosed /\ w.tosend = v.tosend
      /\ w.apprecv = v.apprecv /\ w.sendwin = u.sendwin
  BY <1>4 DEF VCs
<1> HIDE DEF w
<1>6. \/ x = NULL /\ n = 0 /\ v.localClosed
      \/ /\ x \in VCs /\ x.peer = v.peer /\ x.writeid = v.writeid
         /\ x.localClosed = v.localClosed /\ x.remoteClosed
         /\ x.tosend = v.tosend /\ x.apprecv \in {v.apprecv, << >>}
         /\ x.sendwin \subseteq v.sendwin
         /\ x.state = IF v.localClosed THEN "CLOSING" ELSE v.state
  <2>1. Closed(w) <=> v.localClosed
    BY <1>5 DEF Closed
  <2>2. CASE v.localClosed /\ n = 0
    BY <1>5, <2>1, <2>2, VCFreeProps
  <2>3. CASE v.localClosed /\ n # 0
    BY <1>1, <1>5, <2>1, <2>3, VCFreeProps
  <2>4. CASE ~v.localClosed
    BY <1>1, <1>4, <1>5, <2>1, <2>4, VCFreeProps
  <2>5. QED
    BY <2>2, <2>3, <2>4
<1> HIDE DEF x
<1>7. /\ DOMAIN vcs' = Procs /\ \A r \in Procs : DOMAIN vcs'[r] = Ids(r)
      /\ vcs'[p][i] = x /\ OnlyVC(p, i)
  BY <1>0, <1>2, TableUpdate DEF Shape, OnlyVC
<1>8. /\ connected'[p] = IF v.localClosed THEN {c \in connected[p] : c.vc # i} ELSE connected[p]
      /\ \A r \in Procs : r # p => connected'[r] = connected[r]
      /\ DOMAIN connected' = Procs
  BY <1>0, <1>2, <1>5 DEF Shape, ConnectedAfter, PurgeConnected, Closed
<1>9. VCOK(p, i)'
  <2>1. CASE v.localClosed
    <3>1. \A c \in connected'[p] : c.vc # i
      BY <1>8, <2>1
    <3>2. i \notin held'[p] /\ ~Uses(p, i)'
      BY <1>0, <2>1 DEF VCOK, Uses, v
    <3>3. CASE x = NULL /\ n = 0
      <4>1. ~Live(p, i)' /\ sends'[p][i] = << >> /\ sends'[p][i] \in Seq(Numbers)
        BY <1>0, <1>3, <1>7, <3>3 DEF Live, VCOK
      <4>2. QED
        BY <3>1, <3>2, <4>1 DEF VCOK
    <3>4. CASE ~(x = NULL /\ n = 0)
      <4>1. FieldsOK(p, x)
        BY <1>1, <1>6, <2>1, <3>4 DEF FieldsOK, Closed
      <4>2. Live(p, i)'
        BY <1>6, <1>7, <3>4, NotNull DEF Live
      <4>3. QED
        BY <1>0, <1>1, <1>7, <3>1, <3>2, <4>1, <4>2 DEF VCOK
    <3>5. QED
      BY <3>3, <3>4
  <2>2. CASE ~v.localClosed
    <3>1. x \in VCs /\ x.state = v.state /\ ~x.localClosed
      BY <1>6, <2>2
    <3>2. FieldsOK(p, x)
      BY <1>1, <1>6, <2>2, <3>1 DEF FieldsOK, Closed
    <3>3. Live(p, i)'
      BY <1>7, <3>1, NotNull DEF Live
    <3>4. connected'[p] = connected[p]
      BY <1>8, <2>2
    <3>5. QED
      BY <1>0, <1>1, <1>7, <3>1, <3>2, <3>3, <3>4 DEF VCOK, Uses, v
  <2>3. QED
    BY <2>1, <2>2
<1>10. TablesShape /\ OnlySends(p, i)
  BY <1>0, <1>7 DEF TablesShape, OnlySends, Shape
<1>11. FewerRefs(p)
  <2>1. countConn'[p] = countConn[p] - 1
    BY <1>0, <1>2 DEF Shape
  <2>2. countConn'[p] \in Int
    BY <2>1, ProcFacts
  <2>3. connected'[p] \subseteq connected[p]
    BY <1>8
  <2>4. QED
    BY <1>0, <1>2, <1>8, <2>2, <2>3 DEF FewerRefs, Shape
<1>12. TablesOK'
  BY <1>7, <1>9, <1>10, <1>11, VCStep
<1>13. ~Live(p, i)' \/ (Evolves(v, x) /\ x.apprecv \in {v.apprecv, << >>} /\ x.sendwin \subseteq v.sendwin)
  <2>1. CASE x = NULL
    BY <1>7, <2>1 DEF Live
  <2>2. CASE x # NULL
    BY <1>1, <1>6, <2>2 DEF Evolves
  <2>3. QED
    BY <2>1, <2>2
<1>14. QED
  BY <1>0, <1>1, <1>2, <1>7, <1>8, <1>12, <1>13 DEF v

\* cq_poll of an ACCEPT, DATA or ACK packet for VC i.
LEMMA RecvOtherTables ==
    ASSUME TablesOK, NEW p \in Procs, NEW i \in Ids(p), NEW pk \in wire[p],
           wire' = [wire EXCEPT ![p] = @ \ {pk}], UNCHANGED <<nextId, sends, app, held, accepts>>,
           IsFor(p, i, pk), RecvOther(p, i, pk)
    PROVE  /\ TablesOK' /\ OnlyVC(p, i) /\ Live(p, i) /\ vcs[p][i] \in VCs
           /\ Evolves(vcs[p][i], vcs'[p][i])
           /\ vcs'[p][i].remoteClosed = vcs[p][i].remoteClosed
           /\ vcs'[p][i].sendwin \subseteq vcs[p][i].sendwin
           /\ \/ vcs'[p][i].apprecv = vcs[p][i].apprecv
              \/ pk.type = "ACCEPT" /\ vcs'[p][i].apprecv = Append(vcs[p][i].apprecv, pk.id)
           /\ UNCHANGED <<connectList, connected>>
<1> DEFINE v == vcs[p][i]
           u == ProcessAck(v, pk.ack)
           w == Placed(u, pk)
<1>0. /\ Shape /\ ProcTyped(p) /\ VCOK(p, i) /\ Live(p, i)
      /\ \A r \in Procs : wire[r] \subseteq Packets
  BY ProcFacts DEF IsFor, TablesOK, ProcTyped
<1>1. v \in VCs /\ FieldsOK(p, v) /\ i < nextId[p] /\ pk \in Packets
  BY <1>0 DEF VCOK, FieldsOK
<1>2. vcs' = [vcs EXCEPT ![p][i] = w] /\ UNCHANGED <<connectList, connected, countConn>>
  BY DEF RecvOther
<1> HIDE DEF v
<1>3. /\ u \in VCs /\ u.state = v.state /\ u.peer = v.peer /\ u.writeid = v.writeid
      /\ u.localClosed = v.localClosed /\ u.remoteClosed = v.remoteClosed
      /\ u.tosend = v.tosend /\ u.apprecv = v.apprecv
      /\ u.sendwin \subseteq v.sendwin
  BY <1>1, ProcessAckProps
<1> HIDE DEF u
<1>4. /\ w \in VCs /\ w.state = v.state /\ w.peer = v.peer /\ w.writeid = v.writeid
      /\ w.localClosed = v.localClosed /\ w.remoteClosed = v.remoteClosed
      /\ w.tosend = v.tosend /\ w.sendwin \subseteq v.sendwin
      /\ \/ w.apprecv = v.apprecv
         \/ pk.type = "ACCEPT" /\ w.apprecv = Append(v.apprecv, pk.id)
  BY <1>1, <1>3, PlacedProps
<1> HIDE DEF w
<1>5. /\ DOMAIN vcs' = Procs /\ \A r \in Procs : DOMAIN vcs'[r] = Ids(r)
      /\ vcs'[p][i] = w /\ OnlyVC(p, i)
  BY <1>0, <1>2, TableUpdate DEF Shape, OnlyVC
<1>6. FieldsOK(p, w)
  BY <1>1, <1>4 DEF FieldsOK, Closed
<1>7. Live(p, i)'
  BY <1>4, <1>5, NotNull DEF Live
<1>8. VCOK(p, i)'
  BY <1>0, <1>1, <1>2, <1>4, <1>5, <1>6, <1>7 DEF VCOK, Uses, v
<1>9. TablesShape /\ OnlySends(p, i)
  BY <1>0, <1>5 DEF TablesShape, OnlySends, Shape
<1>10. FewerRefs(p)
  BY <1>2, NoRefsChange
<1>11. TablesOK'
  BY <1>5, <1>8, <1>9, <1>10, VCStep
<1>12. QED
  BY <1>0, <1>1, <1>2, <1>4, <1>5, <1>11 DEF v, Evolves

\* ud_check_acks: the VCs that owe an acknowledgement are on the connected list,
\* and so exist.
LEMMA CheckAcksTables ==
    ASSUME TablesOK, NEW p \in Procs, CheckAcks(p)
    PROVE  /\ TablesOK'
           /\ \A r \in Procs : r # p => vcs'[r] = vcs[r]
           /\ \A i \in Ids(p) :
                 \/ vcs'[p][i] = vcs[p][i]
                 \/ /\ Live(p, i) /\ vcs[p][i] \in VCs
                    /\ vcs'[p][i] = [vcs[p][i] EXCEPT !.ackNeed = FALSE]
           /\ \A r \in Procs : \A pk \in wire'[r] : pk \in wire[r] \/ pk.type = "ACK"
           /\ UNCHANGED <<nextId, connectList, connected, accepts>>
<1> DEFINE due == {i \in Ids(p) : (\E c \in connected[p] : c.vc = i) /\ vcs[p][i].ackNeed}
           Ack(i) == Packet(p, i, vcs[p][i], [type |-> "ACK", seq |-> -1])
<1>0. Shape /\ ProcTyped(p) /\ \A r \in Procs : wire[r] \subseteq Packets
  BY ProcFacts DEF TablesOK, ProcTyped
<1>1. /\ vcs' = [vcs EXCEPT ![p] =
                    [i \in Ids(p) |-> IF i \in due THEN [vcs[p][i] EXCEPT !.ackNeed = FALSE]
                                      ELSE vcs[p][i]]]
      /\ wire' = [q \in Procs |->
                     Carry(wire[q], {Ack(i) : i \in {j \in due : vcs[p][j].peer = q}})]
      /\ sends' = [sends EXCEPT ![p] =
                      [i \in Ids(p) |-> IF i \in due THEN Append(sends[p][i], -1) ELSE sends[p][i]]]
      /\ UNCHANGED <<nextId, connectList, connected, countConn, app, held, accepts>>
  BY DEF CheckAcks
<1>2. ASSUME NEW i \in due
      PROVE  /\ VCOK(p, i) /\ Live(p, i) /\ vcs[p][i] \in VCs /\ FieldsOK(p, vcs[p][i])
             /\ Ack(i) \in Packets /\ Ack(i).type = "ACK"
  <2>1. i \in Ids(p) /\ VCOK(p, i) /\ \E c \in connected[p] : c.vc = i
    BY DEF TablesOK
  <2>2. Live(p, i) /\ FieldsOK(p, vcs[p][i]) /\ vcs[p][i] \in VCs
    BY <2>1 DEF VCOK, FieldsOK
  <2>3. [type |-> "ACK", seq |-> -1].type \in PacketTypes
        /\ [type |-> "ACK", seq |-> -1].seq \in Numbers
    BY NumbersProps DEF PacketTypes
  <2>4. QED
    BY <2>1, <2>2, <2>3, PacketProps
<1> HIDE DEF Ack
<1>3. /\ DOMAIN wire' = Procs /\ \A r \in Procs : wire'[r] \subseteq Packets
      /\ \A r \in Procs : \A pk \in wire'[r] : pk \in wire[r] \/ pk.type = "ACK"
  <2>1. DOMAIN wire' = Procs
    BY <1>1
  <2>2. ASSUME NEW r \in Procs, NEW pk \in wire'[r]
        PROVE  pk \in Packets /\ (pk \in wire[r] \/ pk.type = "ACK")
    <3>1. pk \in wire[r] \cup {Ack(i) : i \in {j \in due : vcs[p][j].peer = r}}
      BY <1>1, CarryProps
    <3>2. CASE pk \in wire[r]
      BY <1>0, <3>2
    <3>3. CASE pk \in {Ack(i) : i \in {j \in due : vcs[p][j].peer = r}}
      BY <1>2, <3>3
    <3>4. QED
      BY <3>1, <3>2, <3>3
  <2>3. QED
    BY <2>1, <2>2
<1>4. /\ DOMAIN vcs' = Procs /\ \A r \in Procs : r # p => vcs'[r] = vcs[r]
      /\ DOMAIN vcs'[p] = Ids(p)
      /\ \A i \in Ids(p) : vcs'[p][i] = IF i \in due THEN [vcs[p][i] EXCEPT !.ackNeed = FALSE]
                                        ELSE vcs[p][i]
  BY <1>0, <1>1 DEF Shape
<1>5. /\ DOMAIN sends' = Procs /\ \A r \in Procs : r # p => sends'[r] = sends[r]
      /\ DOMAIN sends'[p] = Ids(p)
      /\ \A i \in Ids(p) : sends'[p][i] = IF i \in due THEN Append(sends[p][i], -1) ELSE sends[p][i]
  BY <1>0, <1>1 DEF Shape
<1> HIDE DEF due
<1>6. Shape' /\ \A r \in Procs : r # p => SameProc(r)
  BY <1>0, <1>1, <1>3, <1>4, <1>5 DEF Shape, SameProc
<1>7a. ProcTyped(p)'
  BY <1>0, <1>1, <1>3 DEF ProcTyped
<1>7b. nextId[p] <= nextId'[p]
  BY <1>1, ProcFacts
<1>8. ASSUME NEW i \in Ids(p), i \notin due PROVE SameVC(p, i)
  BY <1>1, <1>4, <1>5, <1>8 DEF SameVC
<1>9. ASSUME NEW i \in Ids(p), i \in due PROVE VCOK(p, i)'
  <2> DEFINE v == vcs[p][i]
             w == [v EXCEPT !.ackNeed = FALSE]
  <2>1. VCOK(p, i) /\ Live(p, i) /\ v \in VCs /\ FieldsOK(p, v)
    BY <1>2, <1>9
  <2>2. /\ w \in VCs /\ w.state = v.state /\ w.writeid = v.writeid
        /\ w.localClosed = v.localClosed /\ w.remoteClosed = v.remoteClosed
        /\ w.tosend = v.tosend /\ w.sendwin = v.sendwin
    BY <2>1 DEF VCs
  <2>3. vcs'[p][i] = w
    BY <1>4, <1>9
  <2>4. sends'[p][i] \in Seq(Numbers)
    <3>1. sends[p][i] \in Seq(Numbers) /\ -1 \in Numbers
      BY <2>1, NumbersProps DEF VCOK
    <3>2. Append(sends[p][i], -1) \in Seq(Numbers)
      BY <3>1, AppendProperties
    <3>3. QED
      BY <1>5, <1>9, <3>2
  <2> HIDE DEF w
  <2>5. FieldsOK(p, w) /\ Live(p, i)'
    BY <2>1, <2>2, <2>3, NotNull DEF FieldsOK, Closed, Live
  <2>6. QED
    BY <1>1, <2>1, <2>2, <2>3, <2>4, <2>5 DEF VCOK, Uses
<1>10. TablesOK'
  BY <1>3, <1>6, <1>7a, <1>7b, <1>8, <1>9, ProcStep
<1>11. QED
  BY <1>1, <1>2, <1>3, <1>4, <1>10

\* The fabric loses a packet.
LEMMA LoseTables ==
    ASSUME TablesOK, NEW p \in Procs, Lose(p)
    PROVE  /\ TablesOK' /\ \A r \in Procs : wire'[r] \subseteq wire[r]
           /\ UNCHANGED <<vcs, nextId, connectList, connected, accepts>>
<1>0. Shape /\ ProcTyped(p) /\ \A r \in Procs : wire[r] \subseteq Packets
  BY ProcFacts DEF TablesOK, ProcTyped
<1>1. /\ UNCHANGED <<vcs, nextId, sends, connectList, connected, countConn, app, held, accepts>>
      /\ DOMAIN wire' = Procs /\ \A r \in Procs : wire'[r] \subseteq wire[r]
  BY <1>0 DEF Lose, Shape
<1>2. \A r \in Procs : wire'[r] \subseteq Packets
  BY <1>0, <1>1
<1>3. Shape' /\ \A r \in Procs : r # p => SameProc(r)
  BY <1>0, <1>1 DEF Shape, SameProc
<1>4. ProcTyped(p)' /\ nextId[p] <= nextId'[p]
  BY <1>0, <1>1, <1>2, ProcFacts DEF ProcTyped
<1>5. ASSUME NEW j \in Ids(p) PROVE SameVC(p, j)
  BY <1>1 DEF SameVC
<1>6. QED
  BY <1>1, <1>2, <1>3, <1>4, <1>5, ProcStep

LEMMA InitTables == Init => TablesOK
<1> SUFFICES ASSUME Init PROVE TablesOK
  OBVIOUS
<1>1. Shape
  BY DEF Init, Shape
<1>2. ASSUME NEW p \in Procs
      PROVE  ProcTyped(p) /\ \A i \in Ids(p) : VCOK(p, i)
  <2>1. MaxVC[p] \in Nat
    BY IdsProps
  <2>2. ProcTyped(p)
    BY <2>1 DEF Init, ProcTyped
  <2>3. ASSUME NEW i \in Ids(p) PROVE VCOK(p, i)
    BY DEF Init, VCOK, Live, Uses
  <2>4. QED
    BY <2>2, <2>3
<1>3. QED
  BY <1>1, <1>2 DEF TablesOK

LEMMA NextTables ==
    ASSUME TablesOK, [Next]_vars
    PROVE  TablesOK'
<1>1. ASSUME NEW p \in Procs, ProcessRecv(p)
      PROVE  TablesOK'
  <2>1. PICK pk \in wire[p] :
           /\ wire' = [wire EXCEPT ![p] = @ \ {pk}]
           /\ \/ RecvConnect(p, pk)
              \/ RecvStray(p, pk)
              \/ \E i \in Ids(p) :
                    /\ pk.type # "CONNECT" /\ IsFor(p, i, pk)
                    /\ RecvDisconnect(p, i, pk) \/ RecvOther(p, i, pk)
    BY <1>1 DEF ProcessRecv
  <2>2. UNCHANGED <<nextId, sends, app, held, accepts>>
    BY <1>1 DEF ProcessRecv
  <2>3. QED
    BY <2>1, <2>2, RecvNoVCTables, RecvDisconnectTables, RecvOtherTables
<1>2. CASE UNCHANGED vars
  <2>1. Shape' /\ \A p \in Procs : SameProc(p) /\ wire'[p] \subseteq Packets
    BY <1>2 DEF vars, TablesOK, Shape, ProcTyped, SameProc
  <2>2. \A p \in Procs : ProcTyped(p)' /\ \A i \in Ids(p) : VCOK(p, i)'
    BY <2>1, OtherProc DEF TablesOK
  <2>3. QED
    BY <2>1, <2>2 DEF TablesOK
<1>3. CASE Next
  BY <1>1, <1>3, ConnectTables, FinishConnectTables, AcceptTables, AcceptCountTables, WriteTables,
     DisconnectTables, SendCompleteTables, CheckResendTables, CheckAcksTables, LoseTables
     DEF Next
<1>4. QED
  BY <1>2, <1>3

LEMMA TablesInvariant == Spec => []TablesOK
BY InitTables, NextTables, PTL DEF Spec

\* Neither a completion nor the connected list leads cq_poll or ud_check_acks to a
\* VC that vc_delete has taken away, and all state has its type.
THEOREM ReferencesLive == Spec => []ReferencesAreLive
<1>1. ASSUME TablesOK PROVE ReferencesAreLive
  <2>1. TypeOK
    BY <1>1 DEF TablesOK, ProcTyped, VCOK, FieldsOK, TypeOK, Accepted
  <2>2. SendsHaveTheirVC
    BY <1>1 DEF TablesOK, VCOK, SendsHaveTheirVC
  <2>3. ConnectedListIsLive
    BY <1>1 DEF TablesOK, ProcTyped, VCOK, ConnectedListIsLive, Accepted
  <2>4. QED
    BY <2>1, <2>2, <2>3 DEF ReferencesAreLive
<1>2. QED
  BY <1>1, TablesInvariant, PTL

\* The vc pointers the application holds, and the one connect waits on, are valid
\* however the DISCONNECT packets of the two ends cross.
THEOREM HeldAreLive == Spec => []HeldChannelsAreLive
<1>1. ASSUME TablesOK PROVE HeldChannelsAreLive
  <2>1. ASSUME NEW p \in Procs
        PROVE  /\ \A i \in held[p] :
                     Live(p, i) /\ vcs[p][i].state = "CONNECTED" /\ ~vcs[p][i].localClosed
               /\ app[p].at = "connecting" => vcs[p][app[p].id].state = "CONNECTING"
    <3>1. held[p] \subseteq Ids(p) /\ \A i \in Ids(p) : VCOK(p, i)
      BY <1>1 DEF TablesOK, ProcTyped
    <3>2. app[p].at = "connecting" => app[p].id \in Ids(p)
      BY <1>1 DEF TablesOK, ProcTyped
    <3>3. QED
      BY <3>1, <3>2 DEF VCOK, Uses
  <2>2. QED
    BY <2>1 DEF HeldChannelsAreLive
<1>2. QED
  BY <1>1, TablesInvariant, PTL

-----------------------------------------------------------------------------
(* Second part: requests are held once.                                    *)

LEMMA NextOneEntry ==
    ASSUME TablesOK, OneEntryPerRequest, [Next]_vars
    PROVE  OneEntryPerRequest'
<1>0. ASSUME connectList' = connectList, \A q \in Procs : connected'[q] \subseteq connected[q]
      PROVE  OneEntryPerRequest'
  BY <1>0 DEF OneEntryPerRequest
<1>1. ASSUME NEW p \in Procs, NEW q \in Procs, Connect(p, q) PROVE OneEntryPerRequest'
  BY <1>0, <1>1 DEF Connect
<1>2. ASSUME NEW p \in Procs, FinishConnect(p) \/ AcceptLoad(p) \/ AcceptStore(p) \/ Lose(p)
      PROVE  OneEntryPerRequest'
  BY <1>0, <1>2 DEF FinishConnect, AcceptLoad, AcceptStore, Lose
<1>3. ASSUME NEW p \in Procs, CheckAcks(p) PROVE OneEntryPerRequest'
  BY <1>0, <1>3 DEF CheckAcks
<1>4. ASSUME NEW p \in Procs, NEW i \in Ids(p), Write(p, i) \/ SendComplete(p, i) \/ CheckResend(p, i)
      PROVE  OneEntryPerRequest'
  BY <1>0, <1>4 DEF Write, SendComplete, CheckResend, Resend, Toss
<1>5. ASSUME NEW p \in Procs, NEW i \in Ids(p), Disconnect(p, i) PROVE OneEntryPerRequest'
  <2>1. connectList' = connectList /\ \A q \in Procs : connected'[q] \subseteq connected[q]
    BY <1>5, DisconnectTables
  <2>2. QED
    BY <1>0, <2>1
<1>6. ASSUME NEW p \in Procs, Accept(p) PROVE OneEntryPerRequest'
  <2>0. Shape /\ connectList[p] \in Seq([proc : Procs, id : AllIds]) /\ connectList[p] # << >>
    BY <1>6, ProcFacts DEF ProcTyped, Accept
  <2>a. PICK i \in Ids(p), q \in Procs, k \in AllIds : Accepts(p, i, q, k)
    BY <1>6, AcceptTables
  <2>1. /\ Head(connectList[p]) = [proc |-> q, id |-> k]
        /\ connected' = [connected EXCEPT ![p] = @ \cup {[proc |-> q, id |-> k, vc |-> i]}]
    BY <2>a DEF Accepts
  <2> DEFINE L == connectList[p]
             own == [proc |-> q, id |-> k, vc |-> i]
  <2>2. /\ connectList' = [connectList EXCEPT ![p] = Tail(@)]
        /\ L[1] = [proc |-> q, id |-> k] /\ Len(L) \in Nat \ {0} /\ Len(Tail(L)) = Len(L) - 1
        /\ \A j \in 1..Len(Tail(L)) : Tail(L)[j] = L[j + 1] /\ j + 1 \in 1..Len(L)
    BY <1>6, <2>0, <2>1, HeadTail DEF Accept
  <2>3. /\ connectList'[p] = Tail(L) /\ connected'[p] = connected[p] \cup {own}
        /\ \A r \in Procs : r # p => connectList'[r] = connectList[r] /\ connected'[r] = connected[r]
    BY <2>0, <2>1, <2>2 DEF Shape
  <2>4. /\ \A j, l \in 1..Len(L) : L[j] = L[l] => j = l
        /\ \A c, d \in connected[p] : c.proc = d.proc /\ c.id = d.id => c = d
        /\ \A j \in 1..Len(L) : \A c \in connected[p] : ~(c.proc = L[j].proc /\ c.id = L[j].id)
    BY DEF OneEntryPerRequest, SameRequest
  <2>5. 1 \in 1..Len(L)
    BY <2>2
  <2> HIDE DEF L
  <2>6. /\ \A j, l \in 1..Len(Tail(L)) : Tail(L)[j] = Tail(L)[l] => j = l
        /\ \A j \in 1..Len(Tail(L)) : Tail(L)[j] # L[1]
    <3>1. ASSUME NEW j \in 1..Len(Tail(L)), NEW l \in 1..Len(Tail(L)), Tail(L)[j] = Tail(L)[l]
          PROVE  j = l
      <4>1. j + 1 = l + 1
        BY <2>2, <2>4, <3>1
      <4>2. QED
        BY <2>2, <4>1
    <3>2. ASSUME NEW j \in 1..Len(Tail(L)) PROVE Tail(L)[j] # L[1]
      <4>1. j + 1 # 1
        BY <2>2
      <4>2. QED
        BY <2>2, <2>4, <2>5, <4>1
    <3>3. QED
      BY <3>1, <3>2
  <2>7. \A j \in 1..Len(Tail(L)) : Tail(L)[j] \in [proc : Procs, id : AllIds]
    BY <2>0, <2>2, ElementOfSeq DEF L
  <2>8. \A c \in connected[p] : ~(c.proc = q /\ c.id = k)
    BY <2>2, <2>4, <2>5
  <2>9. ASSUME NEW j \in 1..Len(Tail(L)), NEW c \in connected'[p]
        PROVE  ~(c.proc = Tail(L)[j].proc /\ c.id = Tail(L)[j].id)
    <3>1. CASE c \in connected[p]
      BY <2>2, <2>4, <3>1
    <3>2. CASE c = own
      BY <2>2, <2>6, <2>7, <3>2
    <3>3. QED
      BY <2>3, <3>1, <3>2
  <2>10. ASSUME NEW c \in connected'[p], NEW d \in connected'[p], c.proc = d.proc, c.id = d.id
         PROVE  c = d
    BY <2>3, <2>4, <2>8, <2>10
  <2>11. ASSUME NEW r \in Procs, r # p
         PROVE  /\ \A j, l \in 1..Len(connectList'[r]) :
                      connectList'[r][j] = connectList'[r][l] => j = l
                /\ \A c, d \in connected'[r] : c.proc = d.proc /\ c.id = d.id => c = d
                /\ \A j \in 1..Len(connectList'[r]) : \A c \in connected'[r] :
                      ~(c.proc = connectList'[r][j].proc /\ c.id = connectList'[r][j].id)
    <3>1. connectList'[r] = connectList[r] /\ connected'[r] = connected[r]
      BY <2>3, <2>11
    <3>2. QED
      BY <3>1 DEF OneEntryPerRequest, SameRequest
  <2>12. /\ \A j, l \in 1..Len(connectList'[p]) :
               connectList'[p][j] = connectList'[p][l] => j = l
         /\ \A c, d \in connected'[p] : c.proc = d.proc /\ c.id = d.id => c = d
         /\ \A j \in 1..Len(connectList'[p]) : \A c \in connected'[p] :
               ~(c.proc = connectList'[p][j].proc /\ c.id = connectList'[p][j].id)
    <3>1. connectList'[p] = Tail(L)
      BY <2>3
    <3>2. QED
      BY <2>6, <2>9, <2>10, <3>1
  <2>13. QED
    BY <2>11, <2>12 DEF OneEntryPerRequest, SameRequest
<1>7. ASSUME NEW p \in Procs, ProcessRecv(p) PROVE OneEntryPerRequest'
  <2>1. PICK pk \in wire[p] :
           /\ wire' = [wire EXCEPT ![p] = @ \ {pk}]
           /\ \/ RecvConnect(p, pk)
              \/ RecvStray(p, pk)
              \/ \E i \in Ids(p) :
                    /\ pk.type # "CONNECT" /\ IsFor(p, i, pk)
                    /\ RecvDisconnect(p, i, pk) \/ RecvOther(p, i, pk)
    BY <1>7 DEF ProcessRecv
  <2>2. UNCHANGED <<nextId, sends, app, held, accepts>>
    BY <1>7 DEF ProcessRecv
  <2>3. CASE RecvStray(p, pk)
    BY <1>0, <2>3 DEF RecvStray
  <2>4. ASSUME NEW i \in Ids(p), IsFor(p, i, pk), RecvDisconnect(p, i, pk)
        PROVE  OneEntryPerRequest'
    <3>1. connectList' = connectList /\ \A q \in Procs : connected'[q] \subseteq connected[q]
      BY <2>1, <2>2, <2>4, RecvDisconnectTables
    <3>2. QED
      BY <1>0, <3>1
  <2>5. ASSUME NEW i \in Ids(p), IsFor(p, i, pk), RecvOther(p, i, pk)
        PROVE  OneEntryPerRequest'
    BY <1>0, <2>5 DEF RecvOther
  <2>6. CASE RecvConnect(p, pk)
    <3>1. CASE IsRepeated(p, pk)
      BY <1>0, <2>6, <3>1 DEF RecvConnect
    <3>2. CASE ~IsRepeated(p, pk)
      <4> DEFINE L == connectList[p]
                 req == [proc |-> pk.src, id |-> pk.id]
      <4>0. Shape /\ L \in Seq([proc : Procs, id : AllIds]) /\ pk \in Packets
        BY ProcFacts DEF ProcTyped
      <4>1. req \in [proc : Procs, id : AllIds]
        BY <4>0 DEF Packets
      <4>2. connectList' = [connectList EXCEPT ![p] = Append(@, req)] /\ connected' = connected
        BY <2>6, <3>2 DEF RecvConnect
      <4>3. /\ connectList'[p] = Append(L, req)
            /\ \A r \in Procs : r # p => connectList'[r] = connectList[r]
        BY <4>0, <4>2 DEF Shape
      <4>4. /\ Len(L) \in Nat /\ Len(Append(L, req)) = Len(L) + 1
            /\ \A j \in 1..Len(L) : Append(L, req)[j] = L[j]
            /\ Append(L, req)[Len(L) + 1] = req
        BY <4>0, <4>1, AppendProperties
      <4>5. /\ \A j \in 1..Len(L) : L[j] # req
            /\ \A c \in connected[p] : ~(c.proc = req.proc /\ c.id = req.id)
        BY <3>2 DEF IsRepeated, SameRequest
      <4>6. /\ \A j, l \in 1..Len(L) : L[j] = L[l] => j = l
            /\ \A c, d \in connected[p] : c.proc = d.proc /\ c.id = d.id => c = d
            /\ \A j \in 1..Len(L) : \A c \in connected[p] : ~(c.proc = L[j].proc /\ c.id = L[j].id)
        BY DEF OneEntryPerRequest, SameRequest
      <4> HIDE DEF L, req
      <4>7. \A j \in 1..Len(Append(L, req)) : j \in 1..Len(L) \/ j = Len(L) + 1
        BY <4>4
      <4>8. \A j, l \in 1..Len(Append(L, req)) : Append(L, req)[j] = Append(L, req)[l] => j = l
        BY <4>4, <4>5, <4>6, <4>7
      <4>9. \A j \in 1..Len(Append(L, req)) : \A c \in connected[p] :
               ~(c.proc = Append(L, req)[j].proc /\ c.id = Append(L, req)[j].id)
        BY <4>4, <4>5, <4>6, <4>7
      <4>10. QED
        BY <4>2, <4>3, <4>6, <4>8, <4>9 DEF OneEntryPerRequest, SameRequest
    <3>3. QED
      BY <3>1, <3>2
  <2>7. QED
    BY <2>1, <2>3, <2>4, <2>5, <2>6
<1>8. CASE UNCHANGED vars
  BY <1>0, <1>8 DEF vars
<1>9. QED
  BY <1>1, <1>2, <1>3, <1>4, <1>5, <1>6, <1>7, <1>8 DEF Next

\* However often a CONNECT packet is repeated, ud_process_connreq makes one request
\* of it as long as the request waits or its VC exists.
THEOREM RequestsHeldOnce == Spec => []OneEntryPerRequest
<1>1. Init => OneEntryPerRequest
  BY DEF Init, OneEntryPerRequest
<1>2. TablesOK /\ OneEntryPerRequest /\ [Next]_vars => OneEntryPerRequest'
  BY NextOneEntry
<1>3. QED
  BY <1>1, <1>2, TablesInvariant, PTL DEF Spec

-----------------------------------------------------------------------------
(* Third part: the two ends of a channel.                                  *)

\* VCs keep their peers, are not opened again and change the id they write to only
\* in connect; ids are not given out twice, and what was accepted stays so.
Keeps ==
    /\ \A q \in Procs : \A j \in Ids(q) : (j < nextId[q] /\ Live(q, j)') =>
          /\ Live(q, j) /\ vcs'[q][j].peer = vcs[q][j].peer
          /\ vcs[q][j].localClosed => vcs'[q][j].localClosed
          /\ vcs[q][j].state # "CONNECTING" =>
                /\ vcs'[q][j].state # "CONNECTING"
                /\ vcs'[q][j].writeid = vcs[q][j].writeid
    /\ \A q \in Procs : /\ nextId[q] <= nextId'[q] /\ nextId'[q] \in Nat
                        /\ accepts[q] \subseteq accepts'[q]
                        /\ \A a \in accepts'[q] : a \in accepts[q] \/ nextId[q] <= a.vc

\* What Keeps is for: everything the third part says of an old VC stays true.
LEMMA KeepsFacts ==
    ASSUME TablesOK, Keeps
    PROVE  /\ \A q \in Procs : \A p, i, j : Entry(p, i, q, j) => Entry(p, i, q, j)'
           /\ \A p, q \in Procs : \A i, j : Link(p, i, q, j) => Link(p, i, q, j)'
           /\ \A q \in Procs : \A j \in Ids(q) : j < nextId[q] /\ Shut(q, j) => Shut(q, j)'
           /\ \A p \in Procs : \A i : Acceptor(p, i) => Acceptor(p, i)'
           /\ \A p \in Procs : \A i \in Ids(p) :
                 i < nextId[p] /\ ~Acceptor(p, i) => ~Acceptor(p, i)'
           /\ \A p \in Procs : \A i, q : IsRequest(p, i, q) => IsRequest(p, i, q)'
<1>1. \A q \in Procs : \A p, i, j : Entry(p, i, q, j) => Entry(p, i, q, j)'
  BY DEF Keeps, Entry
<1>2. \A p, q \in Procs : \A i, j : Link(p, i, q, j) => Link(p, i, q, j)'
  BY <1>1 DEF Link
<1>3. \A q \in Procs : \A j \in Ids(q) : j < nextId[q] /\ Shut(q, j) => Shut(q, j)'
  BY DEF Keeps, Shut
<1>4. \A p \in Procs : \A i : Acceptor(p, i) => Acceptor(p, i)'
  BY DEF Keeps, Acceptor
<1>5. ASSUME NEW p \in Procs, NEW i \in Ids(p), i < nextId[p], ~Acceptor(p, i)
      PROVE  ~Acceptor(p, i)'
  <2>1. i \in Nat /\ nextId[p] \in Nat
    BY ProcFacts
  <2>2. \A a \in accepts'[p] : a \in accepts[p] \/ nextId[p] <= a.vc
    BY DEF Keeps
  <2>3. \A a \in accepts'[p] : a.vc # i
    BY <1>5, <2>1, <2>2 DEF Acceptor
  <2>4. QED
    BY <2>3 DEF Acceptor
<1>6. ASSUME NEW p \in Procs, NEW i, NEW q, IsRequest(p, i, q)
      PROVE  IsRequest(p, i, q)'
  <2>1. i \in Ids(p) /\ i < nextId[p] /\ ~Acceptor(p, i) /\ (Live(p, i) => vcs[p][i].peer = q)
    BY <1>6 DEF IsRequest
  <2>2. i < nextId'[p]
    <3>1. i \in Nat /\ nextId[p] \in Nat /\ nextId'[p] \in Nat /\ nextId[p] <= nextId'[p]
      BY <2>1, ProcFacts DEF Keeps
    <3>2. QED
      BY <2>1, <3>1
  <2>3. Live(p, i)' => vcs'[p][i].peer = q
    BY <2>1 DEF Keeps
  <2>4. QED
    BY <1>5, <2>1, <2>2, <2>3 DEF IsRequest
<1>7. QED
  BY <1>1, <1>2, <1>3, <1>4, <1>5, <1>6

\* An accepted request, its types and what AcceptsOK says of it.
LEMMA AcceptFacts ==
    ASSUME TablesOK, PairsOK, NEW q \in Procs, NEW a \in accepts[q]
    PROVE  /\ a = [proc |-> a.proc, id |-> a.id, vc |-> a.vc]
           /\ a.proc \in Procs /\ a.id \in Ids(a.proc) /\ a.vc \in Ids(q)
           /\ a.vc < nextId[q] /\ a.id < nextId[a.proc] /\ IsRequest(a.proc, a.id, q)
           /\ Live(q, a.vc) => /\ vcs[q][a.vc].peer = a.proc /\ vcs[q][a.vc].writeid = a.id
                               /\ vcs[q][a.vc].state # "CONNECTING"
           /\ \A b \in accepts[q] : a.vc = b.vc => a = b
           /\ a \in connected[q] \/ Shut(a.proc, a.id)
<1>1. a \in Accepted(q)
  BY DEF TablesOK, ProcTyped
<1>2. /\ a = [proc |-> a.proc, id |-> a.id, vc |-> a.vc] /\ a.proc \in Procs /\ a.vc \in Ids(q)
  BY <1>1 DEF Accepted
<1>3. AcceptsOK(q)
  BY DEF PairsOK
<1>4. QED
  BY <1>2, <1>3 DEF AcceptsOK, IsRequest

\* The VCs of a pair exist, or have existed; an accepted VC belongs to one request.
LEMMA LinkFacts ==
    ASSUME TablesOK, PairsOK, NEW p \in Procs, NEW q \in Procs, NEW i, NEW j, Link(p, i, q, j)
    PROVE  /\ i \in Ids(p) /\ i < nextId[p] /\ j \in Ids(q) /\ j < nextId[q]
           /\ \A a \in accepts[p] : a.vc = i => a.proc = q /\ a.id = j
           /\ ~Acceptor(p, i) => Entry(p, i, q, j)
<1>1. CASE Entry(p, i, q, j)
  <2>1. i \in Ids(p) /\ i < nextId[p] /\ j \in Ids(q) /\ j < nextId[q] /\ IsRequest(p, i, q)
    BY <1>1, AcceptFacts DEF Entry
  <2>2. QED
    BY <1>1, <2>1 DEF IsRequest, Acceptor
<1>2. CASE Entry(q, j, p, i)
  <2>1. PICK a \in accepts[p] : a.proc = q /\ a.id = j /\ a.vc = i
    BY <1>2 DEF Entry
  <2>2. /\ i \in Ids(p) /\ i < nextId[p] /\ j \in Ids(q) /\ j < nextId[q]
        /\ \A b \in accepts[p] : b.vc = i => a = b
    BY <2>1, AcceptFacts
  <2>3. QED
    BY <2>1, <2>2 DEF Acceptor
<1>3. QED
  BY <1>1, <1>2 DEF Link

\* A VC that has been told where to write belongs to that VC; one made by accept was
\* made for the request of that VC.
LEMMA WriteFacts ==
    ASSUME TablesOK, PairsOK, NEW p \in Procs, NEW i \in Ids(p), Live(p, i)
    PROVE  /\ vcs[p][i].peer \in Procs /\ NamesOK(p, i)
           /\ Acceptor(p, i) => Entry(vcs[p][i].peer, vcs[p][i].writeid, p, i)
           /\ vcs[p][i].writeid # NoId => Link(vcs[p][i].peer, vcs[p][i].writeid, p, i)
<1>1. vcs[p][i] \in VCs /\ vcs[p][i].peer \in Procs
  BY ProcFacts DEF VCs
<1>2. NamesOK(p, i)
  BY DEF PairsOK
<1>3. ASSUME Acceptor(p, i) PROVE Entry(vcs[p][i].peer, vcs[p][i].writeid, p, i)
  <2>1. PICK a \in accepts[p] : a.vc = i
    BY <1>3 DEF Acceptor
  <2>2. a = [proc |-> vcs[p][i].peer, id |-> vcs[p][i].writeid, vc |-> i]
    BY <2>1, AcceptFacts
  <2>3. QED
    BY <2>2 DEF Entry
<1>4. QED
  BY <1>1, <1>2, <1>3 DEF NamesOK, Link

\* What a VC was told stays right while it learns only what is right.
LEMMA NamesStep ==
    ASSUME TablesOK, PairsOK, Keeps, NEW p \in Procs, NEW i \in Ids(p), Live(p, i),
           vcs'[p][i].peer = vcs[p][i].peer,
           \/ vcs'[p][i].writeid = vcs[p][i].writeid
           \/ Entry(p, i, vcs[p][i].peer, vcs'[p][i].writeid),
           \A k \in 1..Len(vcs'[p][i].apprecv) : Entry(p, i, vcs[p][i].peer, vcs'[p][i].apprecv[k]),
           vcs'[p][i].remoteClosed =>
              \/ vcs[p][i].remoteClosed
              \/ \E j : Link(p, i, vcs[p][i].peer, j) /\ Shut(vcs[p][i].peer, j),
           \A m \in vcs'[p][i].sendwin :
              m.type \in {"CONNECT", "ACCEPT"} => \E l \in vcs[p][i].sendwin : l.type = m.type
    PROVE  NamesOK(p, i)'
<1>1. vcs[p][i].peer \in Procs /\ NamesOK(p, i) /\ i < nextId[p]
  BY WriteFacts, ProcFacts
<1>2. PICK q \in Procs : q = vcs[p][i].peer /\ q = vcs'[p][i].peer
  BY <1>1
<1>3. (\A k \in 1..Len(vcs[p][i].apprecv) : Entry(p, i, q, vcs[p][i].apprecv[k]))'
  BY <1>2 DEF Keeps, Entry
<1>4. (vcs[p][i].writeid = NoId \/ Acceptor(p, i) \/ Entry(p, i, q, vcs[p][i].writeid))'
  BY <1>1, <1>2 DEF NamesOK, Keeps, Entry, Acceptor
<1>5. ASSUME vcs'[p][i].remoteClosed
      PROVE  \E j \in Ids(q) : Link(p, i, q, j)' /\ Shut(q, j)'
  <2>1. PICK j : Link(p, i, q, j) /\ Shut(q, j)
    BY <1>1, <1>2, <1>5 DEF NamesOK
  <2>2. j \in Ids(q) /\ j < nextId[q]
    BY <2>1, LinkFacts
  <2>3. QED
    BY <2>1, <2>2, KeepsFacts
<1>6. ASSUME NEW m \in vcs'[p][i].sendwin
      PROVE  /\ m.type = "CONNECT" => ~Acceptor(p, i)'
             /\ m.type = "ACCEPT" => Acceptor(p, i)'
  <2>1. m.type \in {"CONNECT", "ACCEPT"} => \E l \in vcs[p][i].sendwin : l.type = m.type
    OBVIOUS
  <2>2. /\ m.type = "CONNECT" => ~Acceptor(p, i)
        /\ m.type = "ACCEPT" => Acceptor(p, i)
    BY <1>1, <2>1 DEF NamesOK
  <2>3. QED
    BY <1>1, <2>2, KeepsFacts
<1>7. QED
  BY <1>2, <1>3, <1>4, <1>5, <1>6 DEF NamesOK

LEMMA SameNames ==
    ASSUME TablesOK, PairsOK, Keeps, NEW p \in Procs, NEW i \in Ids(p), Live(p, i),
           vcs'[p][i] = vcs[p][i]
    PROVE  NamesOK(p, i)'
<1>1. NamesOK(p, i)
  BY WriteFacts
<1>2. \A k \in 1..Len(vcs[p][i].apprecv) : Entry(p, i, vcs[p][i].peer, vcs[p][i].apprecv[k])
  BY <1>1 DEF NamesOK
<1>3. QED
  BY <1>2, NamesStep

\* Only VC i of p has to be looked at when it is the only one that changes.
LEMMA OnlyNames ==
    ASSUME TablesOK, PairsOK, Keeps, NEW p \in Procs, NEW i \in Ids(p), OnlyVC(p, i),
           Live(p, i)' => NamesOK(p, i)'
    PROVE  \A r \in Procs : \A j \in Ids(r) : Live(r, j)' => NamesOK(r, j)'
<1>1. ASSUME NEW r \in Procs, NEW j \in Ids(r), Live(r, j)', r # p \/ j # i
      PROVE  NamesOK(r, j)'
  <2>1. vcs'[r][j] = vcs[r][j]
    BY <1>1 DEF OnlyVC
  <2>2. Live(r, j)
    BY <1>1, <2>1 DEF Live
  <2>3. QED
    BY <2>1, <2>2, SameNames
<1>2. QED
  BY <1>1

\* Packets stay right.
LEMMA PacketKept ==
    ASSUME TablesOK, PairsOK, Keeps, NEW r \in Procs, NEW pk \in wire[r]
    PROVE  PacketOK(r, pk)'
<1>1. PacketOK(r, pk) /\ pk.src \in Procs
  BY DEF PairsOK, TablesOK, ProcTyped, Packets
<1>2. pk.type = "DISCONNECT" => Shut(pk.src, pk.id)'
  <2>1. SUFFICES ASSUME pk.type = "DISCONNECT" PROVE Shut(pk.src, pk.id)'
    OBVIOUS
  <2>2. Link(r, pk.srcid, pk.src, pk.id) /\ Shut(pk.src, pk.id)
    BY <1>1, <2>1 DEF PacketOK
  <2>3. pk.id \in Ids(pk.src) /\ pk.id < nextId[pk.src]
    BY <1>1, <2>2, LinkFacts
  <2>4. QED
    BY <1>1, <2>2, <2>3, KeepsFacts
<1>3. QED
  BY <1>1, <1>2, KeepsFacts DEF PacketOK

\* So do the entries of the list of requests.
LEMMA RequestKept ==
    ASSUME TablesOK, PairsOK, Keeps, NEW r \in Procs, NEW k \in 1..Len(connectList[r]), NEW req,
           req = connectList[r][k]
    PROVE  req \in [proc : Procs, id : AllIds] /\ IsRequest(req.proc, req.id, r)'
<1>1. connectList[r] \in Seq([proc : Procs, id : AllIds])
  BY DEF TablesOK, ProcTyped
<1>2. req \in [proc : Procs, id : AllIds]
  BY <1>1, ElementOfSeq
<1>3. req.proc \in Procs
  BY <1>2
<1>4. IsRequest(req.proc, req.id, r)
  BY DEF PairsOK
<1>5. QED
  BY <1>2, <1>3, <1>4, KeepsFacts

\* And what was accepted, while it leaves the connected list only after the
\* requestor has closed.
LEMMA AcceptKept ==
    ASSUME TablesOK, PairsOK, Keeps, NEW q \in Procs, NEW a \in accepts[q],
           a \in connected'[q] \/ Shut(a.proc, a.id) \/ a \notin connected[q]
    PROVE  /\ a.vc < nextId'[q] /\ IsRequest(a.proc, a.id, q)'
           /\ Live(q, a.vc)' => /\ vcs'[q][a.vc].peer = a.proc /\ vcs'[q][a.vc].writeid = a.id
                                /\ vcs'[q][a.vc].state # "CONNECTING"
           /\ a \in connected'[q] \/ Shut(a.proc, a.id)'
<1>1. /\ a.proc \in Procs /\ a.id \in Ids(a.proc) /\ a.vc \in Ids(q)
      /\ a.vc < nextId[q] /\ a.id < nextId[a.proc] /\ IsRequest(a.proc, a.id, q)
      /\ Live(q, a.vc) => /\ vcs[q][a.vc].peer = a.proc /\ vcs[q][a.vc].writeid = a.id
                          /\ vcs[q][a.vc].state # "CONNECTING"
      /\ a \in connected[q] \/ Shut(a.proc, a.id)
  BY AcceptFacts
<1>2. a.vc < nextId'[q]
  <2>1. a.vc \in Nat /\ nextId[q] \in Nat /\ nextId'[q] \in Nat /\ nextId[q] <= nextId'[q]
    BY <1>1, ProcFacts DEF Keeps
  <2>2. QED
    BY <1>1, <2>1
<1>3. IsRequest(a.proc, a.id, q)' /\ (Shut(a.proc, a.id) => Shut(a.proc, a.id)')
  BY <1>1, KeepsFacts
<1>4. Live(q, a.vc)' => /\ vcs'[q][a.vc].peer = a.proc /\ vcs'[q][a.vc].writeid = a.id
                        /\ vcs'[q][a.vc].state # "CONNECTING"
  BY <1>1 DEF Keeps
<1>5. QED
  BY <1>1, <1>2, <1>3, <1>4

\* A step that accepts nothing.
LEMMA PairsStep ==
    ASSUME TablesOK, PairsOK, Keeps, accepts' = accepts,
           \A q \in Procs : /\ connected'[q] \subseteq connected[q]
                            /\ \A a \in connected[q] : a \in connected'[q] \/ Shut(a.proc, a.id),
           connectList' = connectList,
           \A r \in Procs : \A j \in Ids(r) : Live(r, j)' => NamesOK(r, j)',
           \A r \in Procs : \A pk \in wire'[r] : pk \in wire[r] \/ PacketOK(r, pk)'
    PROVE  PairsOK'
<1>1. ASSUME NEW q \in Procs PROVE AcceptsOK(q)'
  <2>1. connected'[q] \subseteq accepts'[q]
    BY DEF PairsOK, AcceptsOK
  <2>2. \A a, b \in accepts'[q] : a.vc = b.vc => a = b
    BY DEF PairsOK, AcceptsOK
  <2>3. QED
    BY <2>1, <2>2, AcceptKept DEF AcceptsOK
<1>2. ASSUME NEW r \in Procs, NEW k \in 1..Len(connectList'[r])
      PROVE  IsRequest(connectList[r][k].proc, connectList[r][k].id, r)'
  <2>1. PICK req : req = connectList[r][k] /\ req = connectList'[r][k]
    OBVIOUS
  <2>2. IsRequest(req.proc, req.id, r)'
    BY <2>1, RequestKept
  <2>3. QED
    BY <2>1, <2>2
<1>3. QED
  BY <1>1, <1>2, PacketKept DEF PairsOK

\* A step that changes VC i of p, accepts nothing and makes no VC.
LEMMA KeepsOne ==
    ASSUME TablesOK, NEW p \in Procs, NEW i \in Ids(p), OnlyVC(p, i),
           nextId' = nextId, accepts' = accepts,
           \/ ~Live(p, i)'
           \/ vcs'[p][i] = vcs[p][i]
           \/ Live(p, i) /\ Evolves(vcs[p][i], vcs'[p][i])
    PROVE  Keeps
<1>1. \A q \in Procs : nextId[q] \in Nat
  BY ProcFacts
<1>2. \A q \in Procs : /\ nextId[q] <= nextId'[q] /\ nextId'[q] \in Nat
                       /\ accepts[q] \subseteq accepts'[q]
                       /\ \A a \in accepts'[q] : a \in accepts[q] \/ nextId[q] <= a.vc
  BY <1>1
<1>3. ASSUME NEW q \in Procs, NEW j \in Ids(q), Live(q, j)', q # p \/ j # i
      PROVE  Live(q, j) /\ vcs'[q][j] = vcs[q][j]
  BY <1>3 DEF OnlyVC, Live
<1>4. CASE ~Live(p, i)'
  BY <1>2, <1>3, <1>4 DEF Keeps
<1>5. CASE vcs'[p][i] = vcs[p][i]
  BY <1>2, <1>3, <1>5 DEF Keeps, Live
<1>6. CASE Live(p, i) /\ Evolves(vcs[p][i], vcs'[p][i])
  BY <1>2, <1>3, <1>6 DEF Keeps, Evolves
<1>7. QED
  BY <1>4, <1>5, <1>6

LEMMA ConnectPairs ==
    ASSUME TablesOK, PairsOK, NEW p \in Procs, NEW q \in Procs, Connect(p, q)
    PROVE  PairsOK'
<1>1. UNCHANGED <<connectList, connected, accepts>>
  BY DEF Connect
<1>a. PICK i \in Ids(p) : Requests(p, i, q)
  BY ConnectTables
<1>2. /\ i = nextId[p] /\ nextId' = [nextId EXCEPT ![p] = i + 1] /\ OnlyVC(p, i)
      /\ vcs'[p][i].peer = q /\ vcs'[p][i].writeid = NoId
      /\ ~vcs'[p][i].remoteClosed /\ vcs'[p][i].apprecv = << >>
      /\ \A m \in vcs'[p][i].sendwin : m.type = "CONNECT"
  BY <1>a DEF Requests
<1>b. PICK pk \in Packets : NewPacket(q, pk) /\ pk.type = "CONNECT" /\ pk.src = p /\ pk.id = i
  BY <1>a DEF Requests
<1>3. Shape /\ \A r \in Procs : nextId[r] \in Nat
  BY ProcFacts
<1>4. i < nextId'[p] /\ \A r \in Procs : nextId[r] <= nextId'[r] /\ nextId'[r] \in Nat
  BY <1>2, <1>3 DEF Shape
<1>5. Keeps
  <2>1. ASSUME NEW r \in Procs, NEW j \in Ids(r), j < nextId[r]
        PROVE  vcs'[r][j] = vcs[r][j]
    <3>1. r = p => j # i
      BY <1>2, <1>3, <2>1
    <3>2. QED
      BY <1>2, <3>1 DEF OnlyVC
  <2>2. QED
    BY <1>1, <1>4, <2>1 DEF Keeps, Live
<1>6. ~Acceptor(p, i)'
  <2>1. \A a \in accepts[p] : a.vc \in Nat /\ a.vc < nextId[p]
    BY AcceptFacts, IdsProps
  <2>2. \A a \in accepts[p] : a.vc # i
    BY <1>2, <1>3, <2>1
  <2>3. QED
    BY <1>1, <2>2 DEF Acceptor
<1>7. NamesOK(p, i)'
  BY <1>2, <1>6 DEF NamesOK
<1>8. IsRequest(p, i, q)'
  BY <1>2, <1>4, <1>6 DEF IsRequest
<1>9. PacketOK(q, pk)'
  BY <1>b, <1>8 DEF PacketOK
<1>10. \A r \in Procs : \A k \in wire'[r] : k \in wire[r] \/ PacketOK(r, k)'
  BY <1>b, <1>9 DEF NewPacket
<1>11. \A r \in Procs : \A j \in Ids(r) : Live(r, j)' => NamesOK(r, j)'
  BY <1>2, <1>5, <1>7, OnlyNames
<1>12. QED
  BY <1>1, <1>5, <1>10, <1>11, PairsStep

LEMMA FinishConnectPairs ==
    ASSUME TablesOK, PairsOK, NEW p \in Procs, FinishConnect(p)
    PROVE  PairsOK'
<1>a. PICK i \in Ids(p) : Finishes(p, i)
  BY FinishConnectTables
<1>1. UNCHANGED <<nextId, connectList, connected, accepts, wire>>
  BY <1>a DEF Finishes
<1>2. /\ OnlyVC(p, i) /\ Live(p, i) /\ vcs[p][i].state = "CONNECTING"
      /\ vcs[p][i].apprecv # << >> /\ vcs[p][i].apprecv \in Seq(AllIds)
      /\ vcs'[p][i] = [vcs[p][i] EXCEPT !.writeid = Head(vcs[p][i].apprecv),
                                        !.apprecv = Tail(vcs[p][i].apprecv),
                                        !.state = "CONNECTED"]
      /\ vcs[p][i] \in VCs
  BY <1>a DEF Finishes
<1>3. /\ vcs'[p][i].peer = vcs[p][i].peer /\ vcs'[p][i].writeid = Head(vcs[p][i].apprecv)
      /\ vcs'[p][i].apprecv = Tail(vcs[p][i].apprecv)
      /\ vcs'[p][i].remoteClosed = vcs[p][i].remoteClosed
      /\ vcs'[p][i].localClosed = vcs[p][i].localClosed
      /\ vcs'[p][i].sendwin = vcs[p][i].sendwin
  BY <1>2 DEF VCs
<1>4. Keeps
  <2>1. \A q \in Procs : nextId[q] \in Nat
    BY ProcFacts
  <2>2. \A q \in Procs : /\ nextId[q] <= nextId'[q] /\ nextId'[q] \in Nat
                         /\ accepts[q] \subseteq accepts'[q]
                         /\ \A a \in accepts'[q] : a \in accepts[q] \/ nextId[q] <= a.vc
    BY <1>1, <2>1
  <2>3. ASSUME NEW q \in Procs, NEW j \in Ids(q), Live(q, j)', q # p \/ j # i
        PROVE  Live(q, j) /\ vcs'[q][j] = vcs[q][j]
    BY <1>2, <2>3 DEF OnlyVC, Live
  <2>4. QED
    BY <1>2, <1>3, <2>2, <2>3 DEF Keeps
<1>5. /\ Head(vcs[p][i].apprecv) = vcs[p][i].apprecv[1] /\ 1 \in 1..Len(vcs[p][i].apprecv)
      /\ \A k \in 1..Len(Tail(vcs[p][i].apprecv)) :
            /\ Tail(vcs[p][i].apprecv)[k] = vcs[p][i].apprecv[k + 1]
            /\ k + 1 \in 1..Len(vcs[p][i].apprecv)
  BY <1>2, HeadTail
<1>6. /\ Entry(p, i, vcs[p][i].peer, vcs'[p][i].writeid)
      /\ \A k \in 1..Len(vcs'[p][i].apprecv) : Entry(p, i, vcs[p][i].peer, vcs'[p][i].apprecv[k])
  <2>1. \A k \in 1..Len(vcs[p][i].apprecv) : Entry(p, i, vcs[p][i].peer, vcs[p][i].apprecv[k])
    BY <1>2, WriteFacts DEF NamesOK
  <2>2. QED
    BY <1>3, <1>5, <2>1
<1>7. NamesOK(p, i)'
  BY <1>2, <1>3, <1>4, <1>6, NamesStep
<1>8. \A r \in Procs : \A j \in Ids(r) : Live(r, j)' => NamesOK(r, j)'
  BY <1>2, <1>4, <1>7, OnlyNames
<1>9. QED
  BY <1>1, <1>4, <1>8, PairsStep

LEMMA AcceptPairs ==
    ASSUME TablesOK, PairsOK, NEW p \in Procs, Accept(p)
    PROVE  PairsOK'
<1>a. PICK i \in Ids(p), q \in Procs, k \in AllIds : Accepts(p, i, q, k)
  BY AcceptTables
<1> DEFINE own == [proc |-> q, id |-> k, vc |-> i]
<1>1. /\ i = nextId[p] /\ nextId' = [nextId EXCEPT ![p] = i + 1]
      /\ connectList[p] # << >> /\ Head(connectList[p]) = [proc |-> q, id |-> k]
      /\ OnlyVC(p, i) /\ vcs'[p][i].peer = q /\ vcs'[p][i].writeid = k
      /\ vcs'[p][i].state = "CONNECTED"
      /\ ~vcs'[p][i].remoteClosed /\ vcs'[p][i].apprecv = << >>
      /\ \A m \in vcs'[p][i].sendwin : m.type = "ACCEPT"
      /\ connected' = [connected EXCEPT ![p] = @ \cup {own}]
      /\ accepts' = [accepts EXCEPT ![p] = @ \cup {own}]
  BY <1>a DEF Accepts
<1>b. PICK pk \in Packets : /\ NewPacket(q, pk) /\ pk.type = "ACCEPT"
                            /\ pk.src = p /\ pk.id = i /\ pk.srcid = k
  BY <1>a DEF Accepts
<1>2. Shape /\ (\A r \in Procs : nextId[r] \in Nat)
      /\ connectList[p] \in Seq([proc : Procs, id : AllIds])
  BY ProcFacts DEF ProcTyped
<1>3. /\ i < nextId'[p] /\ \A r \in Procs : nextId[r] <= nextId'[r] /\ nextId'[r] \in Nat
      /\ connected'[p] = connected[p] \cup {own} /\ accepts'[p] = accepts[p] \cup {own}
      /\ \A r \in Procs : r # p => connected'[r] = connected[r] /\ accepts'[r] = accepts[r]
  BY <1>1, <1>2 DEF Shape
<1>4. /\ connectList'[p] = Tail(connectList[p])
      /\ \A r \in Procs : r # p => connectList'[r] = connectList[r]
  BY <1>2 DEF Accept, Shape
<1>5. Keeps
  <2>1. ASSUME NEW r \in Procs, NEW j \in Ids(r), j < nextId[r]
        PROVE  vcs'[r][j] = vcs[r][j]
    <3>1. r = p => j # i
      BY <1>1, <1>2, <2>1
    <3>2. QED
      BY <1>1, <3>1 DEF OnlyVC
  <2>2. own.vc = i /\ nextId[p] <= i
    BY <1>1, <1>2
  <2>3. \A r \in Procs : /\ accepts[r] \subseteq accepts'[r]
                         /\ \A a \in accepts'[r] : a \in accepts[r] \/ nextId[r] <= a.vc
    BY <1>3, <2>2
  <2>4. QED
    BY <1>3, <2>1, <2>3 DEF Keeps, Live
<1>6. /\ connectList[p][1] = [proc |-> q, id |-> k] /\ 1 \in 1..Len(connectList[p])
      /\ \A n \in 1..Len(Tail(connectList[p])) :
            /\ Tail(connectList[p])[n] = connectList[p][n + 1]
            /\ n + 1 \in 1..Len(connectList[p])
  BY <1>1, <1>2, HeadTail
<1>7. IsRequest(q, k, p)'
  <2>1. PICK req : req = connectList[p][1] /\ req.proc = q /\ req.id = k
    BY <1>6
  <2>2. QED
    BY <1>5, <1>6, <2>1, RequestKept
<1>8. ASSUME NEW r \in Procs, NEW n \in 1..Len(connectList'[r])
      PROVE  IsRequest(connectList[r][n].proc, connectList[r][n].id, r)'
  <2>1. \E l \in 1..Len(connectList[r]) : connectList'[r][n] = connectList[r][l]
    <3>1. CASE r = p
      BY <1>4, <1>6, <3>1
    <3>2. CASE r # p
      BY <1>4, <3>2
    <3>3. QED
      BY <3>1, <3>2
  <2>2. PICK l \in 1..Len(connectList[r]) : connectList'[r][n] = connectList[r][l]
    BY <2>1
  <2>3. PICK req : req = connectList[r][l] /\ req = connectList'[r][n]
    BY <2>2
  <2>4. IsRequest(req.proc, req.id, r)'
    BY <1>5, <2>3, RequestKept
  <2>5. QED
    BY <2>3, <2>4
<1>9. own \in accepts'[p] /\ Acceptor(p, i)' /\ Entry(q, k, p, i)'
  <2>1. own \in accepts'[p] /\ own.vc = i
    BY <1>3
  <2>2. Acceptor(p, i)'
    BY <2>1 DEF Acceptor
  <2>3. QED
    BY <2>1, <2>2 DEF Entry
<1>10. NamesOK(p, i)'
  BY <1>1, <1>9 DEF NamesOK
<1>11. \A r \in Procs : \A j \in Ids(r) : Live(r, j)' => NamesOK(r, j)'
  BY <1>1, <1>5, <1>10, OnlyNames
<1>12. ASSUME NEW r \in Procs, NEW l \in wire'[r] PROVE PacketOK(r, l)'
  <2>1. PacketOK(q, pk)'
    BY <1>b, <1>9 DEF PacketOK
  <2>2. l \in wire[r] \/ (r = q /\ l = pk)
    BY <1>b DEF NewPacket
  <2>3. QED
    BY <1>5, <2>1, <2>2, PacketKept
<1>13. AcceptsOK(p)'
  <2>1. connected'[p] \subseteq accepts'[p]
    BY <1>3 DEF PairsOK, AcceptsOK
  <2>2. ASSUME NEW a \in accepts[p]
        PROVE  /\ a.vc < nextId'[p] /\ IsRequest(a.proc, a.id, p)'
               /\ Live(p, a.vc)' => /\ vcs'[p][a.vc].peer = a.proc /\ vcs'[p][a.vc].writeid = a.id
                                    /\ vcs'[p][a.vc].state # "CONNECTING"
               /\ a \in connected'[p] \/ Shut(a.proc, a.id)'
               /\ a.vc # i
    <3>1. a \in connected'[p] \/ a \notin connected[p]
      BY <1>3
    <3>2. a.vc \in Nat /\ a.vc < nextId[p]
      BY AcceptFacts, IdsProps
    <3>3. a.vc # i
      BY <1>1, <1>2, <3>2
    <3>4. QED
      BY <1>5, <3>1, <3>3, AcceptKept
  <2>3. /\ own.vc < nextId'[p] /\ IsRequest(own.proc, own.id, p)' /\ own \in connected'[p]
        /\ vcs'[p][own.vc].peer = own.proc /\ vcs'[p][own.vc].writeid = own.id
        /\ vcs'[p][own.vc].state # "CONNECTING"
    BY <1>1, <1>3, <1>7
  <2>4. own.vc = i
    OBVIOUS
  <2> HIDE DEF own
  <2>5. ASSUME NEW a \in accepts'[p], NEW b \in accepts'[p], a.vc = b.vc PROVE a = b
    <3>1. CASE a \in accepts[p] /\ b \in accepts[p]
      BY <2>5, <3>1, AcceptFacts
    <3>2. CASE a = own \/ b = own
      BY <1>3, <2>2, <2>4, <2>5, <3>2
    <3>3. QED
      BY <1>3, <3>1, <3>2
  <2>6. ASSUME NEW a \in accepts'[p]
        PROVE  /\ a.vc < nextId'[p] /\ IsRequest(a.proc, a.id, p)'
               /\ Live(p, a.vc)' => /\ vcs'[p][a.vc].peer = a.proc /\ vcs'[p][a.vc].writeid = a.id
                                    /\ vcs'[p][a.vc].state # "CONNECTING"
               /\ a \in connected'[p] \/ Shut(a.proc, a.id)'
    <3>1. CASE a \in accepts[p]
      BY <2>2, <3>1
    <3>2. CASE a = own
      BY <2>3, <3>2
    <3>3. QED
      BY <1>3, <3>1, <3>2
  <2>7. QED
    BY <2>1, <2>5, <2>6 DEF AcceptsOK
<1>14. ASSUME NEW r \in Procs, r # p PROVE AcceptsOK(r)'
  <2>1. connected'[r] = connected[r] /\ accepts'[r] = accepts[r]
    BY <1>3, <1>14
  <2>2. connected'[r] \subseteq accepts'[r] /\ \A a, b \in accepts'[r] : a.vc = b.vc => a = b
    BY <2>1 DEF PairsOK, AcceptsOK
  <2>3. QED
    BY <1>5, <2>1, <2>2, AcceptKept DEF AcceptsOK
<1>15. QED
  BY <1>8, <1>11, <1>12, <1>13, <1>14 DEF PairsOK

LEMMA WritePairs ==
    ASSUME TablesOK, PairsOK, NEW p \in Procs, NEW i \in Ids(p), Write(p, i)
    PROVE  PairsOK'
<1>1. UNCHANGED <<nextId, connectList, connected, countConn, app, held, accepts>>
  BY DEF Write
<1>2. /\ OnlyVC(p, i) /\ Live(p, i) /\ Evolves(vcs[p][i], vcs'[p][i])
      /\ vcs'[p][i].remoteClosed = vcs[p][i].remoteClosed
      /\ vcs'[p][i].apprecv = vcs[p][i].apprecv
      /\ \A m \in vcs'[p][i].sendwin : m \in vcs[p][i].sendwin \/ m.type = "DATA"
      /\ \E pk \in Packets : NewPacket(vcs[p][i].peer, pk) /\ pk.type = "DATA"
  BY WriteTables
<1>3. Keeps
  BY <1>1, <1>2, KeepsOne
<1>4. NamesOK(p, i)'
  <2>1. \A k \in 1..Len(vcs'[p][i].apprecv) : Entry(p, i, vcs[p][i].peer, vcs'[p][i].apprecv[k])
    BY <1>2, WriteFacts DEF NamesOK
  <2>2. QED
    BY <1>2, <1>3, <2>1, NamesStep DEF Evolves
<1>5. \A r \in Procs : \A j \in Ids(r) : Live(r, j)' => NamesOK(r, j)'
  BY <1>2, <1>3, <1>4, OnlyNames
<1>6. \A r \in Procs : \A k \in wire'[r] : k \in wire[r] \/ PacketOK(r, k)'
  BY <1>2 DEF NewPacket, PacketOK
<1>7. QED
  BY <1>1, <1>3, <1>5, <1>6, PairsStep

LEMMA DisconnectPairs ==
    ASSUME TablesOK, PairsOK, NEW p \in Procs, NEW i \in Ids(p), Disconnect(p, i)
    PROVE  PairsOK'
<1>1. /\ OnlyVC(p, i) /\ Live(p, i) /\ Live(p, i)'
      /\ Evolves(vcs[p][i], vcs'[p][i]) /\ vcs'[p][i].localClosed
      /\ vcs'[p][i].remoteClosed = vcs[p][i].remoteClosed
      /\ vcs'[p][i].apprecv \in {vcs[p][i].apprecv, << >>}
      /\ \A m \in vcs'[p][i].sendwin : m \in vcs[p][i].sendwin \/ m.type = "DISCONNECT"
      /\ vcs[p][i].writeid # NoId
      /\ nextId' = nextId /\ connectList' = connectList /\ accepts' = accepts
  BY DisconnectTables
<1>2. /\ \A r \in Procs : r # p => connected'[r] = connected[r]
      /\ \/ connected'[p] = connected[p]
         \/ vcs[p][i].remoteClosed /\ connected'[p] = {c \in connected[p] : c.vc # i}
  BY DisconnectTables
<1>3. PICK pk \in Packets : /\ NewPacket(vcs[p][i].peer, pk) /\ pk.type = "DISCONNECT"
                            /\ pk.src = p /\ pk.id = i /\ pk.srcid = vcs[p][i].writeid
  BY DisconnectTables
<1>4. Keeps
  BY <1>1, KeepsOne
<1>5. NamesOK(p, i) /\ vcs[p][i].peer \in Procs /\ Link(vcs[p][i].peer, vcs[p][i].writeid, p, i)
  BY <1>1, WriteFacts
<1>6. NamesOK(p, i)'
  <2>1. \A k \in 1..Len(vcs'[p][i].apprecv) : Entry(p, i, vcs[p][i].peer, vcs'[p][i].apprecv[k])
    BY <1>1, <1>5 DEF NamesOK
  <2>2. QED
    BY <1>1, <1>4, <2>1, NamesStep DEF Evolves
<1>7. \A r \in Procs : \A j \in Ids(r) : Live(r, j)' => NamesOK(r, j)'
  BY <1>1, <1>4, <1>6, OnlyNames
<1>8. ASSUME NEW r \in Procs, NEW k \in wire'[r] PROVE k \in wire[r] \/ PacketOK(r, k)'
  <2>1. PICK q \in Procs : q = vcs[p][i].peer
    BY <1>5
  <2>2. Link(q, pk.srcid, p, i)'
    BY <1>3, <1>4, <1>5, <2>1, KeepsFacts
  <2>3. PacketOK(q, pk)'
    BY <1>1, <1>3, <2>2 DEF PacketOK, Shut
  <2>4. QED
    BY <1>3, <2>1, <2>3 DEF NewPacket
<1>9. ASSUME NEW q \in Procs
      PROVE  /\ connected'[q] \subseteq connected[q]
             /\ \A a \in connected[q] : a \in connected'[q] \/ Shut(a.proc, a.id)
  <2>1. CASE connected'[q] = connected[q]
    BY <2>1
  <2>2. CASE q = p /\ vcs[p][i].remoteClosed /\ connected'[p] = {c \in connected[p] : c.vc # i}
    <3>1. ASSUME NEW a \in connected[p], a.vc = i PROVE Shut(a.proc, a.id)
      <4>1. PICK j : Link(p, i, vcs[p][i].peer, j) /\ Shut(vcs[p][i].peer, j)
        BY <1>5, <2>2 DEF NamesOK
      <4>2. a \in accepts[p]
        BY <3>1 DEF PairsOK, AcceptsOK
      <4>3. a.proc = vcs[p][i].peer /\ a.id = j
        BY <1>5, <3>1, <4>1, <4>2, LinkFacts
      <4>4. QED
        BY <4>1, <4>3
    <3>2. QED
      BY <2>2, <3>1
  <2>3. QED
    BY <1>2, <2>1, <2>2
<1>10. QED
  BY <1>1, <1>4, <1>7, <1>8, <1>9, PairsStep

LEMMA SendCompletePairs ==
    ASSUME TablesOK, PairsOK, NEW p \in Procs, NEW i \in Ids(p), SendComplete(p, i)
    PROVE  PairsOK'
<1>1. /\ OnlyVC(p, i) /\ (vcs'[p][i] = vcs[p][i] \/ ~Live(p, i)')
      /\ UNCHANGED <<nextId, connectList, connected, wire, accepts>>
  BY SendCompleteTables
<1>2. Keeps
  BY <1>1, KeepsOne
<1>3. Live(p, i)' => NamesOK(p, i)'
  <2>1. ASSUME Live(p, i)' PROVE Live(p, i) /\ vcs'[p][i] = vcs[p][i]
    BY <1>1, <2>1 DEF Live
  <2>2. QED
    BY <1>2, <2>1, SameNames
<1>4. \A r \in Procs : \A j \in Ids(r) : Live(r, j)' => NamesOK(r, j)'
  BY <1>1, <1>2, <1>3, OnlyNames
<1>5. QED
  BY <1>1, <1>2, <1>4, PairsStep

LEMMA CheckResendPairs ==
    ASSUME TablesOK, PairsOK, NEW p \in Procs, NEW i \in Ids(p), CheckResend(p, i)
    PROVE  PairsOK'
<1>1. /\ OnlyVC(p, i) /\ Live(p, i) /\ Evolves(vcs[p][i], vcs'[p][i])
      /\ vcs'[p][i].remoteClosed = vcs[p][i].remoteClosed
      /\ vcs'[p][i].apprecv = vcs[p][i].apprecv
      /\ \A m \in vcs'[p][i].sendwin : \E l \in vcs[p][i].sendwin : m.type = l.type
      /\ UNCHANGED <<nextId, connectList, connected, accepts>>
  BY CheckResendTables
<1>2. \/ wire' = wire
      \/ \E m \in vcs[p][i].sendwin, pk \in Packets :
            /\ NewPacket(vcs[p][i].peer, pk) /\ pk.type = m.type
            /\ pk.src = p /\ pk.id = i /\ pk.srcid = vcs[p][i].writeid
  BY CheckResendTables
<1>3. Keeps
  BY <1>1, KeepsOne
<1>4. /\ NamesOK(p, i) /\ vcs[p][i].peer \in Procs
      /\ Acceptor(p, i) => Entry(vcs[p][i].peer, vcs[p][i].writeid, p, i)
      /\ vcs[p][i].writeid # NoId => Link(vcs[p][i].peer, vcs[p][i].writeid, p, i)
  BY <1>1, WriteFacts
<1>5. NamesOK(p, i)'
  <2>1. \A k \in 1..Len(vcs'[p][i].apprecv) : Entry(p, i, vcs[p][i].peer, vcs'[p][i].apprecv[k])
    BY <1>1, <1>4 DEF NamesOK
  <2>2. QED
    BY <1>1, <1>3, <2>1, NamesStep DEF Evolves
<1>6. \A r \in Procs : \A j \in Ids(r) : Live(r, j)' => NamesOK(r, j)'
  BY <1>1, <1>3, <1>5, OnlyNames
<1>7. ASSUME NEW r \in Procs, NEW k \in wire'[r] PROVE k \in wire[r] \/ PacketOK(r, k)'
  <2>1. CASE wire' = wire
    BY <2>1
  <2>2. CASE wire' # wire
    <3>1. PICK m \in vcs[p][i].sendwin, pk \in Packets :
             /\ NewPacket(vcs[p][i].peer, pk) /\ pk.type = m.type
             /\ pk.src = p /\ pk.id = i /\ pk.srcid = vcs[p][i].writeid
      BY <1>2, <2>2
    <3>2. PICK q \in Procs : q = vcs[p][i].peer
      BY <1>4
    <3>3. FieldsOK(p, vcs[p][i]) /\ i < nextId[p]
      BY <1>1, ProcFacts
    <3>4. m.type = "CONNECT" => IsRequest(p, i, q)'
      <4>1. m.type = "CONNECT" => IsRequest(p, i, q)
        BY <1>4, <3>2, <3>3 DEF NamesOK, IsRequest
      <4>2. QED
        BY <1>3, <4>1, KeepsFacts
    <3>5. m.type = "ACCEPT" => Entry(q, pk.srcid, p, i)'
      <4>1. m.type = "ACCEPT" => Entry(q, pk.srcid, p, i)
        BY <1>4, <3>1, <3>2 DEF NamesOK
      <4>2. QED
        BY <1>3, <4>1, KeepsFacts
    <3>6. m.type = "DISCONNECT" => Link(q, pk.srcid, p, i)' /\ Shut(p, i)'
      <4>1. ASSUME m.type = "DISCONNECT"
            PROVE  vcs[p][i].localClosed /\ vcs[p][i].writeid # NoId
        BY <3>3, <4>1 DEF FieldsOK
      <4>2. m.type = "DISCONNECT" => Link(q, pk.srcid, p, i)
        BY <1>4, <3>1, <3>2, <4>1
      <4>3. m.type = "DISCONNECT" => Shut(p, i)'
        BY <1>1, <4>1 DEF Shut, Evolves
      <4>4. QED
        BY <1>3, <4>2, <4>3, KeepsFacts
    <3>7. PacketOK(q, pk)'
      BY <3>1, <3>4, <3>5, <3>6 DEF PacketOK
    <3>8. QED
      BY <3>1, <3>2, <3>7 DEF NewPacket
  <2>3. QED
    BY <2>1, <2>2
<1>8. QED
  BY <1>1, <1>3, <1>6, <1>7, PairsStep

\* A step that leaves the VCs and the lists alone and adds no packet.
LEMMA QuietPairs ==
    ASSUME TablesOK, PairsOK, UNCHANGED <<vcs, nextId, connected, accepts>>, connectList' = connectList,
           \A r \in Procs : wire'[r] \subseteq wire[r]
    PROVE  PairsOK'
<1>1. Keeps
  <2>1. \A q \in Procs : nextId[q] \in Nat
    BY ProcFacts
  <2>2. \A q \in Procs : nextId[q] <= nextId'[q] /\ nextId'[q] \in Nat
    BY <2>1
  <2>3. QED
    BY <2>2 DEF Keeps, Live
<1>2. \A r \in Procs : \A j \in Ids(r) : Live(r, j)' => NamesOK(r, j)'
  BY <1>1, SameNames DEF Live
<1>3. QED
  BY <1>1, <1>2, PairsStep

\* A CONNECT packet that becomes a request is one.
LEMMA RecvConnectPairs ==
    ASSUME TablesOK, PairsOK, NEW p \in Procs, NEW pk \in wire[p],
           wire' = [wire EXCEPT ![p] = @ \ {pk}], UNCHANGED <<nextId, sends, app, held, accepts>>,
           RecvConnect(p, pk)
    PROVE  PairsOK'
<1>0. Shape /\ \A r \in Procs : wire[r] \subseteq Packets
  BY DEF TablesOK, ProcTyped
<1>1. \A r \in Procs : wire'[r] \subseteq wire[r]
  BY <1>0 DEF Shape
<1>2. UNCHANGED <<vcs, connected>>
  BY DEF RecvConnect
<1>3. CASE connectList' = connectList
  BY <1>1, <1>2, <1>3, QuietPairs
<1>4. CASE connectList' # connectList
  <2> DEFINE new == [proc |-> pk.src, id |-> pk.id]
             L == connectList[p]
  <2>1. connectList' = [connectList EXCEPT ![p] = Append(@, new)]
    BY <1>4 DEF RecvConnect
  <2>2. L \in Seq([proc : Procs, id : AllIds]) /\ new \in [proc : Procs, id : AllIds]
    BY <1>0 DEF TablesOK, ProcTyped, Packets
  <2>3. /\ connectList'[p] = Append(L, new) /\ \A r \in Procs : r # p => connectList'[r] = connectList[r]
        /\ \A n \in 1..Len(Append(L, new)) : (n \in 1..Len(L) /\ Append(L, new)[n] = L[n])
                                             \/ Append(L, new)[n] = new
    <3>1. /\ Len(L) \in Nat /\ Len(Append(L, new)) = Len(L) + 1
          /\ \A n \in 1..Len(L) : Append(L, new)[n] = L[n]
          /\ Append(L, new)[Len(L) + 1] = new
      BY <2>2, AppendProperties
    <3>2. connectList'[p] = Append(L, new) /\ \A r \in Procs : r # p => connectList'[r] = connectList[r]
      BY <1>0, <2>1 DEF Shape
    <3> HIDE DEF L, new
    <3>3. \A n \in 1..Len(Append(L, new)) : n \in 1..Len(L) \/ n = Len(L) + 1
      BY <3>1
    <3>4. QED
      BY <3>1, <3>2, <3>3
  <2>4. IsRequest(pk.src, pk.id, p)
    BY DEF PairsOK, PacketOK, RecvConnect
  <2>5. Keeps
    <3>1. \A q \in Procs : nextId[q] \in Nat
      BY ProcFacts
    <3>2. \A q \in Procs : nextId[q] <= nextId'[q] /\ nextId'[q] \in Nat
      BY <3>1
    <3>3. QED
      BY <1>2, <3>2 DEF Keeps, Live
  <2>6. IsRequest(new.proc, new.id, p)'
    <3>1. pk.src \in Procs /\ new.proc = pk.src /\ new.id = pk.id
      BY <1>0 DEF Packets
    <3>2. QED
      BY <2>4, <2>5, <3>1, KeepsFacts
  <2> HIDE DEF new
  <2>7. ASSUME NEW r \in Procs, NEW n \in 1..Len(connectList'[r])
        PROVE  IsRequest(connectList[r][n].proc, connectList[r][n].id, r)'
    <3>1. \/ n \in 1..Len(connectList[r]) /\ connectList'[r][n] = connectList[r][n]
          \/ r = p /\ connectList'[r][n] = new
      <4>1. CASE r = p
        BY <2>3, <4>1
      <4>2. CASE r # p
        BY <2>3, <4>2
      <4>3. QED
        BY <4>1, <4>2
    <3>2. PICK req : req = connectList'[r][n]
      OBVIOUS
    <3>3. IsRequest(req.proc, req.id, r)'
      BY <2>5, <2>6, <3>1, <3>2, RequestKept
    <3>4. QED
      BY <3>2, <3>3
  <2>8. \A r \in Procs : \A j \in Ids(r) : Live(r, j)' => NamesOK(r, j)'
    BY <1>2, <2>5, SameNames DEF Live
  <2>9. ASSUME NEW q \in Procs PROVE AcceptsOK(q)'
    <3>1. connected'[q] \subseteq accepts'[q] /\ \A a, b \in accepts'[q] : a.vc = b.vc => a = b
      BY <1>2 DEF PairsOK, AcceptsOK
    <3>2. QED
      BY <1>2, <2>5, <3>1, AcceptKept DEF AcceptsOK
  <2>10. QED
    BY <1>1, <2>5, <2>7, <2>8, <2>9, PacketKept DEF PairsOK
<1>5. QED
  BY <1>3, <1>4

LEMMA RecvDisconnectPairs ==
    ASSUME TablesOK, PairsOK, NEW p \in Procs, NEW i \in Ids(p), NEW pk \in wire[p],
           wire' = [wire EXCEPT ![p] = @ \ {pk}], UNCHANGED <<nextId, sends, app, held, accepts>>,
           IsFor(p, i, pk), RecvDisconnect(p, i, pk)
    PROVE  PairsOK'
<1>0. /\ Shape /\ pk.type = "DISCONNECT" /\ pk.srcid = i /\ pk.src = vcs[p][i].peer
      /\ pk.src \in Procs
  BY DEF TablesOK, ProcTyped, Packets, IsFor, RecvDisconnect
<1>1. /\ OnlyVC(p, i) /\ Live(p, i)
      /\ \/ ~Live(p, i)'
         \/ /\ Evolves(vcs[p][i], vcs'[p][i])
            /\ vcs'[p][i].apprecv \in {vcs[p][i].apprecv, << >>}
            /\ vcs'[p][i].sendwin \subseteq vcs[p][i].sendwin
      /\ \A r \in Procs : r # p => connected'[r] = connected[r]
      /\ connected'[p] \in {connected[p], {c \in connected[p] : c.vc # i}}
      /\ connectList' = connectList
  BY RecvDisconnectTables
<1>2. Link(p, i, vcs[p][i].peer, pk.id) /\ Shut(vcs[p][i].peer, pk.id)
  BY <1>0 DEF PairsOK, PacketOK
<1>3. Keeps
  BY <1>1, KeepsOne
<1>4. Live(p, i)' => NamesOK(p, i)'
  <2>1. SUFFICES ASSUME Live(p, i)' PROVE NamesOK(p, i)'
    OBVIOUS
  <2>2. /\ Evolves(vcs[p][i], vcs'[p][i])
        /\ vcs'[p][i].apprecv \in {vcs[p][i].apprecv, << >>}
        /\ vcs'[p][i].sendwin \subseteq vcs[p][i].sendwin
    BY <1>1, <2>1
  <2>3. \A k \in 1..Len(vcs'[p][i].apprecv) : Entry(p, i, vcs[p][i].peer, vcs'[p][i].apprecv[k])
    BY <1>1, <2>2, WriteFacts DEF NamesOK
  <2>4. QED
    BY <1>1, <1>2, <1>3, <2>2, <2>3, NamesStep DEF Evolves
<1>5. \A r \in Procs : \A j \in Ids(r) : Live(r, j)' => NamesOK(r, j)'
  BY <1>1, <1>3, <1>4, OnlyNames
<1>6. \A r \in Procs : wire'[r] \subseteq wire[r]
  BY <1>0 DEF Shape
<1>7. ASSUME NEW q \in Procs
      PROVE  /\ connected'[q] \subseteq connected[q]
             /\ \A a \in connected[q] : a \in connected'[q] \/ Shut(a.proc, a.id)
  <2>1. CASE connected'[q] = connected[q]
    BY <2>1
  <2>2. CASE q = p /\ connected'[p] = {c \in connected[p] : c.vc # i}
    <3>1. ASSUME NEW a \in connected[p], a.vc = i PROVE Shut(a.proc, a.id)
      <4>1. a \in accepts[p]
        BY <3>1 DEF PairsOK, AcceptsOK
      <4>2. a.proc = vcs[p][i].peer /\ a.id = pk.id
        BY <1>0, <1>2, <3>1, <4>1, LinkFacts
      <4>3. QED
        BY <1>2, <4>2
    <3>2. QED
      BY <2>2, <3>1
  <2>3. QED
    BY <1>1, <2>1, <2>2
<1>8. QED
  BY <1>1, <1>3, <1>5, <1>6, <1>7, PairsStep

LEMMA RecvOtherPairs ==
    ASSUME TablesOK, PairsOK, NEW p \in Procs, NEW i \in Ids(p), NEW pk \in wire[p],
           wire' = [wire EXCEPT ![p] = @ \ {pk}], UNCHANGED <<nextId, sends, app, held, accepts>>,
           IsFor(p, i, pk), RecvOther(p, i, pk)
    PROVE  PairsOK'
<1>0. Shape /\ pk.srcid = i /\ pk.src = vcs[p][i].peer
  BY DEF TablesOK, IsFor
<1>1. /\ OnlyVC(p, i) /\ Live(p, i) /\ vcs[p][i] \in VCs /\ Evolves(vcs[p][i], vcs'[p][i])
      /\ vcs'[p][i].remoteClosed = vcs[p][i].remoteClosed
      /\ vcs'[p][i].sendwin \subseteq vcs[p][i].sendwin
      /\ \/ vcs'[p][i].apprecv = vcs[p][i].apprecv
         \/ pk.type = "ACCEPT" /\ vcs'[p][i].apprecv = Append(vcs[p][i].apprecv, pk.id)
      /\ UNCHANGED <<connectList, connected>>
  BY RecvOtherTables
<1>2. Keeps
  BY <1>1, KeepsOne
<1>3. \A k \in 1..Len(vcs'[p][i].apprecv) : Entry(p, i, vcs[p][i].peer, vcs'[p][i].apprecv[k])
  <2> DEFINE s == vcs[p][i].apprecv
  <2>1. \A k \in 1..Len(s) : Entry(p, i, vcs[p][i].peer, s[k])
    BY <1>1, WriteFacts DEF NamesOK
  <2>2. CASE vcs'[p][i].apprecv = vcs[p][i].apprecv
    BY <2>1, <2>2
  <2>3. CASE pk.type = "ACCEPT" /\ vcs'[p][i].apprecv = Append(vcs[p][i].apprecv, pk.id)
    <3>1. Entry(p, i, vcs[p][i].peer, pk.id)
      BY <1>0, <2>3 DEF PairsOK, PacketOK
    <3>2. s \in Seq(AllIds) /\ pk.id \in AllIds
      BY <1>1 DEF VCs, TablesOK, ProcTyped, Packets
    <3>3. /\ Len(s) \in Nat /\ Len(Append(s, pk.id)) = Len(s) + 1
          /\ \A k \in 1..Len(s) : Append(s, pk.id)[k] = s[k]
          /\ Append(s, pk.id)[Len(s) + 1] = pk.id
      BY SMTT(30), <3>2, AppendProperties
    <3> HIDE DEF s
    <3>4. \A k \in 1..Len(Append(s, pk.id)) : k \in 1..Len(s) \/ k = Len(s) + 1
      BY <3>3
    <3>5. \A k \in 1..Len(Append(s, pk.id)) : Entry(p, i, vcs[p][i].peer, Append(s, pk.id)[k])
      BY <2>1, <3>1, <3>3, <3>4
    <3>6. QED
      BY <2>3, <3>5 DEF s
  <2>4. QED
    BY <1>1, <2>2, <2>3
<1>4. NamesOK(p, i)'
  BY <1>1, <1>2, <1>3, NamesStep DEF Evolves
<1>5. \A r \in Procs : \A j \in Ids(r) : Live(r, j)' => NamesOK(r, j)'
  BY <1>1, <1>2, <1>4, OnlyNames
<1>6. \A r \in Procs : wire'[r] \subseteq wire[r]
  BY <1>0 DEF Shape
<1>7. QED
  BY <1>1, <1>2, <1>5, <1>6, PairsStep

LEMMA CheckAcksPairs ==
    ASSUME TablesOK, PairsOK, NEW p \in Procs, CheckAcks(p)
    PROVE  PairsOK'
<1>1. /\ \A r \in Procs : r # p => vcs'[r] = vcs[r]
      /\ \A i \in Ids(p) :
            \/ vcs'[p][i] = vcs[p][i]
            \/ /\ Live(p, i) /\ vcs[p][i] \in VCs
               /\ vcs'[p][i] = [vcs[p][i] EXCEPT !.ackNeed = FALSE]
      /\ \A r \in Procs : \A pk \in wire'[r] : pk \in wire[r] \/ pk.type = "ACK"
      /\ UNCHANGED <<nextId, connectList, connected, accepts>>
  BY CheckAcksTables
<1>2. ASSUME NEW r \in Procs, NEW i \in Ids(r), Live(r, i)'
      PROVE  /\ Live(r, i) /\ vcs'[r][i].peer = vcs[r][i].peer
             /\ vcs'[r][i].state = vcs[r][i].state /\ vcs'[r][i].writeid = vcs[r][i].writeid
             /\ vcs'[r][i].localClosed = vcs[r][i].localClosed
             /\ vcs'[r][i].remoteClosed = vcs[r][i].remoteClosed
             /\ vcs'[r][i].sendwin = vcs[r][i].sendwin /\ vcs'[r][i].apprecv = vcs[r][i].apprecv
  <2>1. CASE vcs'[r][i] = vcs[r][i]
    BY <1>2, <2>1 DEF Live
  <2>2. CASE Live(r, i) /\ vcs[r][i] \in VCs /\ vcs'[r][i] = [vcs[r][i] EXCEPT !.ackNeed = FALSE]
    BY <2>2 DEF VCs
  <2>3. QED
    BY <1>1, <2>1, <2>2
<1>3. Keeps
  <2>1. \A q \in Procs : nextId[q] \in Nat
    BY ProcFacts
  <2>2. \A q \in Procs : nextId[q] <= nextId'[q] /\ nextId'[q] \in Nat
    BY <1>1, <2>1
  <2>3. QED
    BY <1>1, <1>2, <2>2 DEF Keeps
<1>4. ASSUME NEW r \in Procs, NEW i \in Ids(r), Live(r, i)' PROVE NamesOK(r, i)'
  <2>1. \A k \in 1..Len(vcs'[r][i].apprecv) : Entry(r, i, vcs[r][i].peer, vcs'[r][i].apprecv[k])
    BY <1>2, <1>4, WriteFacts DEF NamesOK
  <2>2. QED
    BY <1>2, <1>3, <1>4, <2>1, NamesStep
<1>5. \A r \in Procs : \A pk \in wire'[r] : pk \in wire[r] \/ PacketOK(r, pk)'
  BY <1>1 DEF PacketOK
<1>6. QED
  BY <1>1, <1>3, <1>4, <1>5, PairsStep

LEMMA NextPairs ==
    ASSUME TablesOK, PairsOK, [Next]_vars
    PROVE  PairsOK'
<1>1. ASSUME NEW p \in Procs, ProcessRecv(p) PROVE PairsOK'
  <2>1. PICK pk \in wire[p] :
           /\ wire' = [wire EXCEPT ![p] = @ \ {pk}]
           /\ \/ RecvConnect(p, pk)
              \/ RecvStray(p, pk)
              \/ \E i \in Ids(p) :
                    /\ pk.type # "CONNECT" /\ IsFor(p, i, pk)
                    /\ RecvDisconnect(p, i, pk) \/ RecvOther(p, i, pk)
    BY <1>1 DEF ProcessRecv
  <2>2. UNCHANGED <<nextId, sends, app, held, accepts>>
    BY <1>1 DEF ProcessRecv
  <2>3. CASE RecvStray(p, pk)
    <3>1. \A r \in Procs : wire'[r] \subseteq wire[r]
      BY <2>1 DEF TablesOK, Shape
    <3>2. UNCHANGED <<vcs, connectList, connected>>
      BY <2>3 DEF RecvStray
    <3>3. QED
      BY <2>2, <3>1, <3>2, QuietPairs
  <2>4. QED
    BY <2>1, <2>2, <2>3, RecvConnectPairs, RecvDisconnectPairs, RecvOtherPairs
<1>2. ASSUME NEW p \in Procs, AcceptLoad(p) \/ AcceptStore(p) PROVE PairsOK'
  BY <1>2, AcceptCountTables, QuietPairs
<1>3. ASSUME NEW p \in Procs, Lose(p) PROVE PairsOK'
  BY <1>3, LoseTables, QuietPairs
<1>4. CASE UNCHANGED vars
  BY <1>4, QuietPairs DEF vars
<1>5. CASE Next
  BY <1>1, <1>2, <1>3, <1>5, ConnectPairs, FinishConnectPairs, AcceptPairs, WritePairs,
     DisconnectPairs, SendCompletePairs, CheckResendPairs, CheckAcksPairs DEF Next
<1>6. QED
  BY <1>4, <1>5

LEMMA PairsInvariant == Spec => []PairsOK
<1>1. Init => PairsOK
  BY DEF Init, PairsOK, AcceptsOK, Live
<1>2. TablesOK /\ PairsOK /\ [Next]_vars => PairsOK'
  BY NextPairs
<1>3. QED
  BY <1>1, <1>2, TablesInvariant, PTL DEF Spec

\* A request whose VC is open has been accepted at most once.
LEMMA OneAcceptor ==
    ASSUME TablesOK, PairsOK, OneEntryPerRequest, NEW p \in Procs, NEW q \in Procs,
           NEW i, NEW j, NEW k, Entry(p, i, q, j), Entry(p, i, q, k), ~Shut(p, i)
    PROVE  j = k
<1> DEFINE a == [proc |-> p, id |-> i, vc |-> j]
           b == [proc |-> p, id |-> i, vc |-> k]
<1>1. a \in accepts[q] /\ b \in accepts[q]
  BY DEF Entry
<1>2. a.proc = p /\ a.id = i /\ b.proc = p /\ b.id = i /\ a.vc = j /\ b.vc = k
  OBVIOUS
<1> HIDE DEF a, b
<1>3. a \in connected[q] /\ b \in connected[q]
  BY <1>1, <1>2, AcceptFacts
<1>4. a = b
  BY <1>2, <1>3 DEF OneEntryPerRequest, SameRequest
<1>5. QED
  BY <1>2, <1>4

\* While neither end has disconnected, each writes to the VC that was made for it:
\* repeated, lost and late CONNECT and ACCEPT packets never cross two channels.
THEOREM ChannelsPaired == Spec => []ChannelsArePaired
<1>1. ASSUME TablesOK, PairsOK, OneEntryPerRequest PROVE ChannelsArePaired
  <2>1. ASSUME NEW p \in Procs, NEW i \in held[p]
        PROVE  /\ vcs[p][i].writeid \in Ids(vcs[p][i].peer)
               /\ (/\ Live(vcs[p][i].peer, vcs[p][i].writeid)
                   /\ ~vcs[vcs[p][i].peer][vcs[p][i].writeid].localClosed) =>
                     /\ vcs[vcs[p][i].peer][vcs[p][i].writeid].peer = p
                     /\ vcs[vcs[p][i].peer][vcs[p][i].writeid].writeid \in {i, NoId}
    <3>1. i \in Ids(p) /\ Live(p, i) /\ vcs[p][i].writeid # NoId
      <4>1. i \in Ids(p)
        BY <1>1 DEF TablesOK, ProcTyped
      <4>2. Live(p, i) /\ vcs[p][i].state = "CONNECTED" /\ FieldsOK(p, vcs[p][i])
        BY <1>1, <4>1, ProcFacts
      <4>3. QED
        BY <4>1, <4>2 DEF FieldsOK
    <3>2. PICK q \in Procs : \E j : q = vcs[p][i].peer /\ j = vcs[p][i].writeid
      BY <1>1, <3>1, WriteFacts
    <3>3. PICK j : q = vcs[p][i].peer /\ j = vcs[p][i].writeid
      BY <3>2
    <3>4. Link(q, j, p, i) /\ j \in Ids(q)
      <4>1. Link(q, j, p, i)
        BY <1>1, <3>1, <3>3, WriteFacts
      <4>2. QED
        BY <1>1, <4>1, LinkFacts
    <3>5. ASSUME Live(q, j), ~vcs[q][j].localClosed
          PROVE  vcs[q][j].peer = p /\ vcs[q][j].writeid \in {i, NoId}
      <4>1. CASE Entry(p, i, q, j)
        BY <1>1, <3>5, <4>1, AcceptFacts DEF Entry
      <4>2. CASE Entry(q, j, p, i)
        <5>1. IsRequest(q, j, p)
          BY <1>1, <4>2, AcceptFacts DEF Entry
        <5>2. vcs[q][j].peer = p /\ ~Acceptor(q, j)
          BY <3>5, <5>1 DEF IsRequest
        <5>3. ASSUME vcs[q][j].writeid # NoId PROVE vcs[q][j].writeid = i
          <6>1. Entry(q, j, p, vcs[q][j].writeid)
            BY <1>1, <3>4, <3>5, <5>2, <5>3, WriteFacts DEF NamesOK
          <6>2. ~Shut(q, j)
            BY <3>5 DEF Shut
          <6>3. QED
            BY <1>1, <4>2, <6>1, <6>2, OneAcceptor
        <5>4. QED
          BY <5>2, <5>3
      <4>3. QED
        BY <3>4, <4>1, <4>2 DEF Link
    <3>6. QED
      BY <3>3, <3>4, <3>5
  <2>2. QED
    BY <2>1 DEF ChannelsArePaired
<1>2. QED
  BY <1>1, TablesInvariant, PairsInvariant, RequestsHeldOnce, PTL

\* remote_closed is set on a channel only after the VC at its other end, the one
\* written to, has been disconnected.
THEOREM RemoteCloseIsGenuine == Spec => []RemoteClosedIsTrue
<1>1. ASSUME TablesOK, PairsOK, OneEntryPerRequest PROVE RemoteClosedIsTrue
  <2>1. ASSUME NEW p \in Procs, NEW i \in held[p], vcs[p][i].remoteClosed
        PROVE  Shut(vcs[p][i].peer, vcs[p][i].writeid)
    <3>1. i \in Ids(p) /\ Live(p, i) /\ vcs[p][i].writeid # NoId /\ ~Shut(p, i)
      <4>1. i \in Ids(p)
        BY <1>1 DEF TablesOK, ProcTyped
      <4>2. /\ Live(p, i) /\ vcs[p][i].state = "CONNECTED" /\ FieldsOK(p, vcs[p][i])
            /\ ~vcs[p][i].localClosed
        BY <1>1, <4>1, ProcFacts
      <4>3. QED
        BY <4>1, <4>2 DEF FieldsOK, Shut
    <3>2. vcs[p][i].peer \in Procs /\ NamesOK(p, i)
      BY <1>1, <3>1, WriteFacts
    <3>3. PICK j : Link(p, i, vcs[p][i].peer, j) /\ Shut(vcs[p][i].peer, j)
      BY <2>1, <3>2 DEF NamesOK
    <3>4. CASE Acceptor(p, i)
      <4>1. PICK a \in accepts[p] : a.vc = i
        BY <3>4 DEF Acceptor
      <4>2. a.id = vcs[p][i].writeid
        BY <1>1, <3>1, <4>1, AcceptFacts
      <4>3. a.id = j
        BY <1>1, <3>2, <3>3, <4>1, LinkFacts
      <4>4. QED
        BY <3>3, <4>2, <4>3
    <3>5. CASE ~Acceptor(p, i)
      <4>1. Entry(p, i, vcs[p][i].peer, vcs[p][i].writeid)
        BY <3>1, <3>2, <3>5 DEF NamesOK
      <4>2. Entry(p, i, vcs[p][i].peer, j)
        BY <1>1, <3>2, <3>3, <3>5, LinkFacts
      <4>3. j = vcs[p][i].writeid
        BY <1>1, <3>1, <3>2, <4>1, <4>2, OneAcceptor
      <4>4. QED
        BY <3>3, <4>3
    <3>6. QED
      BY <3>4, <3>5
  <2>2. QED
    BY <2>1 DEF RemoteClosedIsTrue, Shut
<1>2. QED
  BY <1>1, TablesInvariant, PairsInvariant, RequestsHeldOnce, PTL

=============================================================================
