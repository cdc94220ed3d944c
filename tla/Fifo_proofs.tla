----------------------------- MODULE Fifo_proofs -----------------------------
(***************************************************************************)
(* Proofs about the named-pipe transport: a pipe is not closed under a     *)
(* channel, a search of the shared queue passes over nothing, and channels *)
(* are separate streams.                                                   *)
(*                                                                         *)
(* The argument: the right to write to p as its channel k is in one place  *)
(* at a time (RightsOK), and g_writer_count counts these rights (CountOK); *)
(* so when the last close sees no writers, nobody has a channel to p.      *)
(***************************************************************************)
EXTENDS Fifo, SequenceTheorems, FiniteSetTheorems, TLAPS

-----------------------------------------------------------------------------
(* Sequences of packets.                                                   *)

LEMMA SignalsAre ==
    ASSUME NEW S, NEW s \in Seq(S)
    PROVE  /\ \A x : x \in Signals(s) <=> (\E i \in 1..Len(s) : s[i] = x) /\ x.type # "MESSAGE"
           /\ Signals(s) \subseteq S
<1>1. DOMAIN s = 1..Len(s) /\ \A i \in 1..Len(s) : s[i] \in S
  OBVIOUS
<1>2. \A x : x \in Range(s) <=> \E i \in 1..Len(s) : s[i] = x
  BY <1>1 DEF Range
<1>3. QED
  BY <1>1, <1>2 DEF Signals

LEMMA SignalsOfNone ==
    Signals(<< >>) = {} /\ Distinct(<< >>)
<1>1. Signals(<< >>) = {}
  BY DEF Signals, Range
<1>2. QED
  BY <1>1 DEF Distinct

LEMMA SignalsAppend ==
    ASSUME NEW S, NEW s \in Seq(S), NEW x \in S
    PROVE  /\ Append(s, x) \in Seq(S) /\ Len(Append(s, x)) = Len(s) + 1
           /\ \A i \in 1..Len(s) : Append(s, x)[i] = s[i]
           /\ x.type = "MESSAGE" => Signals(Append(s, x)) = Signals(s)
           /\ x.type # "MESSAGE" => Signals(Append(s, x)) = Signals(s) \cup {x}
           /\ Distinct(s) /\ x \notin Signals(s) => Distinct(Append(s, x))
<1>1. PICK t : t = Append(s, x)
  OBVIOUS
<1>2. /\ t \in Seq(S) /\ Len(t) = Len(s) + 1 /\ t[Len(s) + 1] = x /\ Len(s) \in Nat
      /\ \A i \in 1..Len(s) : t[i] = s[i]
  BY <1>1
<1>3. \A y : (\E i \in 1..Len(t) : t[i] = y) <=> (\E i \in 1..Len(s) : s[i] = y) \/ y = x
  <2>1. ASSUME NEW y, NEW i \in 1..Len(t), t[i] = y
        PROVE  (\E j \in 1..Len(s) : s[j] = y) \/ y = x
    BY <1>2, <2>1
  <2>2. ASSUME NEW y, NEW i \in 1..Len(s), s[i] = y
        PROVE  \E j \in 1..Len(t) : t[j] = y
    BY <1>2, <2>2
  <2>3. \E j \in 1..Len(t) : t[j] = x
    BY <1>2
  <2>4. QED
    BY <2>1, <2>2, <2>3
<1>4. \A y : y \in Signals(t) <=> (y \in Signals(s) \/ y = x) /\ y.type # "MESSAGE"
  BY <1>2, <1>3, SignalsAre
<1>5. \A y \in Signals(s) : y.type # "MESSAGE"
  BY SignalsAre
<1>6. ASSUME Distinct(s), x \notin Signals(s) PROVE Distinct(t)
  <2>1. SUFFICES ASSUME NEW k \in 1..Len(t), NEW l \in 1..Len(t),
                        t[k] = t[l], t[k].type # "MESSAGE"
                 PROVE  k = l
    BY DEF Distinct
  <2>2. \A i \in 1..Len(s) : s[i] = x => x.type = "MESSAGE"
    BY <1>6, SignalsAre
  <2>3. k \in 1..Len(s) \/ k = Len(s) + 1
    BY <1>2
  <2>4. l \in 1..Len(s) \/ l = Len(s) + 1
    BY <1>2
  <2>5. CASE k \in 1..Len(s) /\ l \in 1..Len(s)
    BY <1>2, <1>6, <2>1, <2>5 DEF Distinct
  <2>6. CASE k \in 1..Len(s) /\ l = Len(s) + 1
    BY <1>2, <2>1, <2>2, <2>6
  <2>7. CASE k = Len(s) + 1 /\ l \in 1..Len(s)
    BY <1>2, <2>1, <2>2, <2>7
  <2>8. QED
    BY <2>3, <2>4, <2>5, <2>6, <2>7
<1>7. QED
  BY <1>1, <1>2, <1>4, <1>5, <1>6

LEMMA SignalsTail ==
    ASSUME NEW S, NEW s \in Seq(S), s # << >>, Distinct(s)
    PROVE  /\ Tail(s) \in Seq(S) /\ Len(Tail(s)) = Len(s) - 1 /\ Head(s) \in S
           /\ Signals(Tail(s)) = Signals(s) \ {Head(s)}
           /\ Head(s).type # "MESSAGE" => Head(s) \in Signals(s)
           /\ Distinct(Tail(s))
<1>1. PICK t : t = Tail(s)
  OBVIOUS
<1>2. /\ t \in Seq(S) /\ Len(t) = Len(s) - 1 /\ Head(s) = s[1] /\ Len(s) \in Nat \ {0}
      /\ s[1] \in S /\ \A i \in 1..(Len(s) - 1) : t[i] = s[i + 1]
  BY <1>1
<1>3. \A y \in Signals(t) : y \in Signals(s) /\ y # s[1]
  <2>1. SUFFICES ASSUME NEW y \in Signals(t) PROVE y \in Signals(s) /\ y # s[1]
    OBVIOUS
  <2>2. PICK i \in 1..Len(t) : t[i] = y /\ y.type # "MESSAGE"
    BY <1>2, SignalsAre
  <2>3. i + 1 \in 1..Len(s) /\ s[i + 1] = y /\ i + 1 # 1 /\ 1 \in 1..Len(s)
    BY <1>2, <2>2
  <2>4. y \in Signals(s)
    BY <2>2, <2>3, SignalsAre
  <2>5. QED
    BY <2>2, <2>3, <2>4 DEF Distinct
<1>4. \A y \in Signals(s) : y # s[1] => y \in Signals(t)
  <2>1. SUFFICES ASSUME NEW y \in Signals(s), y # s[1] PROVE y \in Signals(t)
    OBVIOUS
  <2>2. PICK i \in 1..Len(s) : s[i] = y /\ y.type # "MESSAGE"
    BY SignalsAre
  <2>3. i - 1 \in 1..Len(t) /\ t[i - 1] = y
    BY <1>2, <2>1, <2>2
  <2>4. QED
    BY <1>2, <2>2, <2>3, SignalsAre
<1>5. Distinct(t)
  <2>1. SUFFICES ASSUME NEW k \in 1..Len(t), NEW l \in 1..Len(t),
                        t[k] = t[l], t[k].type # "MESSAGE"
                 PROVE  k = l
    BY DEF Distinct
  <2>2. k + 1 \in 1..Len(s) /\ l + 1 \in 1..Len(s) /\ t[k] = s[k + 1] /\ t[l] = s[l + 1]
    BY <1>2
  <2>3. k + 1 = l + 1
    BY <2>1, <2>2 DEF Distinct
  <2>4. QED
    BY <2>3
<1>6. s[1].type # "MESSAGE" => s[1] \in Signals(s)
  BY <1>2, SignalsAre
<1>7. QED
  BY <1>1, <1>2, <1>3, <1>4, <1>5, <1>6

\* t is s without its m-th element.
IsRemoval(S, s, m, t) ==
    /\ t \in Seq(S) /\ Len(t) = Len(s) - 1 /\ Len(s) \in Nat \ {0} /\ s[m] \in S
    /\ \A i \in 1..(Len(s) - 1) : t[i] = IF i < m THEN s[i] ELSE s[i + 1]

LEMMA RemoveIs ==
    ASSUME NEW S, NEW s \in Seq(S), NEW m \in 1..Len(s), NEW t, t = RemoveAt(s, m)
    PROVE  IsRemoval(S, s, m, t)
<1>1. SubSeq(s, 1, m - 1) \in Seq(S) /\ Len(SubSeq(s, 1, m - 1)) = m - 1
      /\ \A i \in 1..(m - 1) : SubSeq(s, 1, m - 1)[i] = s[i]
  OBVIOUS
<1>2. SubSeq(s, m + 1, Len(s)) \in Seq(S) /\ Len(SubSeq(s, m + 1, Len(s))) = Len(s) - m
      /\ \A i \in 1..(Len(s) - m) : SubSeq(s, m + 1, Len(s))[i] = s[m + i]
  OBVIOUS
<1>3. PICK u \in Seq(S) : u = SubSeq(s, 1, m - 1)
  BY <1>1
<1>4. PICK v \in Seq(S) : v = SubSeq(s, m + 1, Len(s))
  BY <1>2
<1>5. t = u \o v
  BY <1>3, <1>4 DEF RemoveAt
<1>6. /\ t \in Seq(S) /\ Len(t) = Len(u) + Len(v)
      /\ \A i \in 1..(Len(u) + Len(v)) : t[i] = IF i <= Len(u) THEN u[i] ELSE v[i - Len(u)]
  BY <1>5, ConcatProperties
<1>7. Len(u) = m - 1 /\ \A i \in 1..(m - 1) : u[i] = s[i]
  BY <1>1, <1>3
<1>8. Len(v) = Len(s) - m /\ \A i \in 1..(Len(s) - m) : v[i] = s[m + i]
  BY <1>2, <1>4
<1>9. Len(s) \in Nat /\ s[m] \in S
  OBVIOUS
<1>10. ASSUME NEW i \in 1..(Len(s) - 1)
       PROVE  t[i] = IF i < m THEN s[i] ELSE s[i + 1]
  <2>1. i \in 1..(Len(u) + Len(v)) /\ (i < m <=> i <= Len(u))
    BY <1>7, <1>8, <1>9
  <2>2. CASE i < m
    <3>1. t[i] = u[i] /\ i \in 1..(m - 1)
      BY <1>6, <2>1, <2>2
    <3>2. QED
      BY <1>7, <2>2, <3>1
  <2>3. CASE ~(i < m)
    <3>1. i - (m - 1) \in 1..(Len(s) - m) /\ m + (i - (m - 1)) = i + 1
      BY <1>9, <2>3
    <3>2. t[i] = v[i - (m - 1)]
      BY <1>6, <1>7, <2>1, <2>3
    <3>3. QED
      BY <1>8, <2>3, <3>1, <3>2
  <2>4. QED
    BY <2>2, <2>3
<1>11. Len(t) = Len(s) - 1 /\ Len(s) \in Nat \ {0}
  BY <1>6, <1>7, <1>8, <1>9
<1>12. QED
  BY <1>6, <1>9, <1>10, <1>11 DEF IsRemoval

LEMMA SignalsRemove ==
    ASSUME NEW S, NEW s \in Seq(S), NEW m \in 1..Len(s), Distinct(s)
    PROVE  /\ RemoveAt(s, m) \in Seq(S) /\ Len(RemoveAt(s, m)) = Len(s) - 1 /\ s[m] \in S
           /\ Signals(RemoveAt(s, m)) = Signals(s) \ {s[m]}
           /\ s[m].type # "MESSAGE" => s[m] \in Signals(s)
           /\ Distinct(RemoveAt(s, m))
<1>1. PICK t : t = RemoveAt(s, m)
  OBVIOUS
<1>2. /\ t \in Seq(S) /\ Len(t) = Len(s) - 1 /\ Len(s) \in Nat \ {0} /\ s[m] \in S
      /\ \A i \in 1..(Len(s) - 1) : t[i] = IF i < m THEN s[i] ELSE s[i + 1]
  <2>1. IsRemoval(S, s, m, t)
    BY <1>1, RemoveIs
  <2>2. QED
    BY ONLY <2>1 DEF IsRemoval
<1>3. \A y \in Signals(t) : y \in Signals(s) /\ y # s[m]
  <2>1. SUFFICES ASSUME NEW y \in Signals(t) PROVE y \in Signals(s) /\ y # s[m]
    OBVIOUS
  <2>2. PICK i \in 1..Len(t) : t[i] = y /\ y.type # "MESSAGE"
    BY <1>2, SignalsAre
  <2>3. PICK j \in 1..Len(s) : s[j] = y /\ j # m
    <3>1. i \in 1..(Len(s) - 1) /\ t[i] = IF i < m THEN s[i] ELSE s[i + 1]
      BY ONLY <1>2, <2>2
    <3>2. CASE i < m
      <4>1. i \in 1..Len(s) /\ s[i] = y /\ i # m
        BY ONLY <1>2, <2>2, <3>1, <3>2, m \in 1..Len(s)
      <4>2. QED
        BY ONLY <4>1
    <3>3. CASE ~(i < m)
      <4>1. i + 1 \in 1..Len(s) /\ s[i + 1] = y /\ i + 1 # m
        BY ONLY <1>2, <2>2, <3>1, <3>3, m \in 1..Len(s)
      <4>2. QED
        BY ONLY <4>1
    <3>4. QED
      BY ONLY <3>2, <3>3
  <2>4. y \in Signals(s)
    BY <2>2, <2>3, SignalsAre
  <2>5. QED
    BY <2>2, <2>3, <2>4 DEF Distinct
<1>4. \A y \in Signals(s) : y # s[m] => y \in Signals(t)
  <2>1. SUFFICES ASSUME NEW y \in Signals(s), y # s[m] PROVE y \in Signals(t)
    OBVIOUS
  <2>2. PICK i \in 1..Len(s) : s[i] = y /\ y.type # "MESSAGE"
    BY SignalsAre
  <2>3. \E j \in 1..Len(t) : t[j] = y
    <3>1. CASE i < m
      <4>1. i \in 1..(Len(s) - 1) /\ i \in 1..Len(t) /\ t[i] = s[i]
        BY ONLY <1>2, <2>2, <3>1, m \in 1..Len(s)
      <4>2. QED
        BY ONLY <2>2, <4>1
    <3>2. CASE i > m
      <4>1. i - 1 \in 1..Len(t) /\ t[i - 1] = s[(i - 1) + 1] /\ (i - 1) + 1 = i
        BY <1>2, <3>2
      <4>2. QED
        BY <2>2, <4>1
    <3>3. QED
      BY <2>1, <2>2, <3>1, <3>2
  <2>4. QED
    BY <1>2, <2>2, <2>3, SignalsAre
<1>5. Distinct(t)
  <2>1. SUFFICES ASSUME NEW k \in 1..Len(t), NEW l \in 1..Len(t),
                        t[k] = t[l], t[k].type # "MESSAGE"
                 PROVE  k = l
    BY DEF Distinct
  <2>2. PICK i \in 1..Len(s) : t[k] = s[i] /\ i = IF k < m THEN k ELSE k + 1
    BY <1>2
  <2>3. PICK j \in 1..Len(s) : t[l] = s[j] /\ j = IF l < m THEN l ELSE l + 1
    BY <1>2
  <2>4. i = j
    BY <2>1, <2>2, <2>3 DEF Distinct
  <2>5. QED
    BY <2>2, <2>3, <2>4
<1>6. s[m].type # "MESSAGE" => s[m] \in Signals(s)
  BY <1>2, SignalsAre
<1>7. QED
  BY <1>1, <1>2, <1>3, <1>4, <1>5, <1>6

-----------------------------------------------------------------------------
(* Positions of a thread.                                                  *)

LEMMA PositionIs ==
    ASSUME NEW a \in Positions
    PROVE  /\ a.at \in {"idle", "close", "drain", "killed", "wait", "write"}
           /\ a.at \in {"idle", "close", "drain", "killed"} => a = [at |-> a.at]
           /\ a.at = "wait" => /\ a = [at |-> "wait", op |-> a.op, type |-> a.type, src |-> a.src,
                                       seen |-> a.seen, args |-> a.args]
                               /\ a.seen \in Nat /\ a.op \in {"connect", "accept", "read"}
                               /\ a.op = "connect" => a.type = "ACCEPT" /\ a.src \in Ids
                                                      /\ a.args \in Fds
                               /\ a.op = "accept" => a.type = "CONNECT" /\ a.src = NoId
                                                     /\ a.args = NoId
                               /\ a.op = "read" => a.type = "MESSAGE" /\ a.src \in Ids
                                                   /\ a.args \in Nat
           /\ a.at = "write" => /\ a.op \in {"connect", "accept", "disconnect", "write"}
                                /\ a.to \in Fds
                                /\ a.op = "connect" => a.pk \in Connects /\ a.args \in Ids
                                /\ a.op = "accept" => a.pk \in Accepts /\ a.args \in Chans
                                /\ a.op = "disconnect" => a.pk \in Disconnects /\ a.args \in Ids
                                /\ a.op = "write" => /\ a.pk \in Messages
                                                     /\ a.args \in [chan : Ids, left : Nat]
  BY SMTT(60) DEF Positions

LEMMA Positioned ==
    /\ Idle \in Positions
    /\ \A at \in {"idle", "close", "drain", "killed"} : [at |-> at] \in Positions
    /\ \A i \in Ids, n \in Nat, fd \in Fds :
          [at |-> "wait", op |-> "connect", type |-> "ACCEPT", src |-> i, seen |-> n,
           args |-> fd] \in Positions
    /\ \A n \in Nat :
          [at |-> "wait", op |-> "accept", type |-> "CONNECT", src |-> NoId, seen |-> n,
           args |-> NoId] \in Positions
    /\ \A i \in Ids, n \in Nat, m \in Nat :
          [at |-> "wait", op |-> "read", type |-> "MESSAGE", src |-> i, seen |-> n,
           args |-> m] \in Positions
    /\ \A fd \in Fds, pk \in Connects, i \in Ids : Send("connect", fd, pk, i) \in Positions
    /\ \A fd \in Fds, pk \in Accepts, ch \in Chans : Send("accept", fd, pk, ch) \in Positions
    /\ \A fd \in Fds, pk \in Disconnects, i \in Ids : Send("disconnect", fd, pk, i) \in Positions
    /\ \A fd \in Fds, pk \in Messages, x \in [chan : Ids, left : Nat] :
          Send("write", fd, pk, x) \in Positions
  BY DEF Positions, Idle, Send

LEMMA PacketIs ==
    ASSUME NEW pk \in Packets
    PROVE  /\ pk.type \in {"CONNECT", "ACCEPT", "DISCONNECT", "MESSAGE"}
           /\ pk.type = "CONNECT" => /\ pk \in Connects /\ pk.data.proc \in Procs
                                     /\ pk.data.id \in Ids
                                     /\ pk = Request(pk.data.proc, pk.data.id)
           /\ pk.type = "ACCEPT" => /\ pk \in Accepts /\ pk.src \in Ids /\ pk.data \in Ids
                                    /\ pk = Packet("ACCEPT", pk.src, pk.data)
           /\ pk.type = "DISCONNECT" => /\ pk \in Disconnects /\ pk.src \in Ids
                                        /\ pk = Packet("DISCONNECT", pk.src, << >>)
           /\ pk.type = "MESSAGE" => pk \in Messages /\ pk.src \in Ids /\ pk.data \in Seq(Units)
<1>1. pk \in Connects \/ pk \in Accepts \/ pk \in Disconnects \/ pk \in Messages
  BY DEF Packets
<1>2. CASE pk \in Connects
  BY <1>2 DEF Connects, Request, Packet
<1>3. CASE pk \in Accepts
  BY <1>3 DEF Accepts, Packet
<1>4. CASE pk \in Disconnects
  BY <1>4 DEF Disconnects, Packet
<1>5. CASE pk \in Messages
  BY <1>5 DEF Messages
<1>6. QED
  BY <1>1, <1>2, <1>3, <1>4, <1>5

LEMMA Packed ==
    /\ \A q \in Procs, i \in Ids : Request(q, i) \in Connects /\ Request(q, i).type = "CONNECT"
                                   /\ Request(q, i) \in Packets
                                   /\ Request(q, i).data = [proc |-> q, id |-> i]
    /\ \A i, k \in Ids : /\ Packet("ACCEPT", i, k) \in Accepts
                         /\ Packet("ACCEPT", i, k) \in Packets
                         /\ Packet("ACCEPT", i, k).type = "ACCEPT"
    /\ \A k \in Ids : /\ Packet("DISCONNECT", k, << >>) \in Disconnects
                      /\ Packet("DISCONNECT", k, << >>) \in Packets
                      /\ Packet("DISCONNECT", k, << >>).type = "DISCONNECT"
    /\ \A k \in Ids, d \in Seq(Units) : /\ Packet("MESSAGE", k, d) \in Messages
                                        /\ Packet("MESSAGE", k, d) \in Packets
  BY DEF Packets, Connects, Accepts, Disconnects, Messages, Request, Packet

LEMMA PacketsDiffer ==
    /\ \A q, r, i, j : Request(q, i) = Request(r, j) => q = r /\ i = j
    /\ \A i, j, k, l : Packet("ACCEPT", i, k) = Packet("ACCEPT", j, l) => i = j /\ k = l
    /\ \A k, l : Packet("DISCONNECT", k, << >>) = Packet("DISCONNECT", l, << >>) => k = l
    /\ \A q, i, j, k : Request(q, i) # Packet("ACCEPT", j, k)
    /\ \A q, i, k : Request(q, i) # Packet("DISCONNECT", k, << >>)
    /\ \A i, j, k : Packet("ACCEPT", i, k) # Packet("DISCONNECT", j, << >>)
<1>1. ASSUME NEW q, NEW r, NEW i, NEW j, Request(q, i) = Request(r, j) PROVE q = r /\ i = j
  <2>1. Request(q, i).data.proc = q /\ Request(r, j).data.proc = r
        /\ Request(q, i).data.id = i /\ Request(r, j).data.id = j
    BY DEF Request, Packet
  <2>2. QED
    BY <1>1, <2>1
<1>2. ASSUME NEW t, NEW u, NEW i, NEW j, NEW k, NEW l, Packet(t, i, k) = Packet(u, j, l)
      PROVE  t = u /\ i = j /\ k = l
  <2>1. /\ Packet(t, i, k).type = t /\ Packet(t, i, k).src = i /\ Packet(t, i, k).data = k
        /\ Packet(u, j, l).type = u /\ Packet(u, j, l).src = j /\ Packet(u, j, l).data = l
    BY DEF Packet
  <2>2. QED
    BY <1>2, <2>1
<1>4. \A i, j, k, l : Packet("ACCEPT", i, k) = Packet("ACCEPT", j, l) => i = j /\ k = l
  BY <1>2
<1>5. \A k, l : Packet("DISCONNECT", k, << >>) = Packet("DISCONNECT", l, << >>) => k = l
  BY <1>2
<1>6. \A q, i, j, k : Request(q, i) # Packet("ACCEPT", j, k)
  BY DEF Request, Packet
<1>7. \A q, i, k : Request(q, i) # Packet("DISCONNECT", k, << >>)
  BY DEF Request, Packet
<1>8. \A i, j, k : Packet("ACCEPT", i, k) # Packet("DISCONNECT", j, << >>)
  <2>1. "ACCEPT" # "DISCONNECT"
    OBVIOUS
  <2>2. QED
    BY <1>2, <2>1
<1>9. QED
  BY <1>1, <1>4, <1>5, <1>6, <1>7, <1>8

LEMMA Numbers == /\ MaxChan \in Nat /\ Ids \subseteq Nat /\ NoId \notin Ids /\ NoPipe \in Nat
                 /\ IsFiniteSet(Ids) /\ MaxUnits \in Nat /\ PayloadSize \in Nat \ {0}
<1>1. MaxChan \in Nat /\ MaxUnits \in Nat /\ PayloadSize \in Nat \ {0}
  BY FifoAssumption
<1>2. IsFiniteSet(1..MaxChan)
  BY <1>1, FS_Interval
<1>3. Ids \subseteq Nat /\ NoId \notin Ids /\ NoPipe \in Nat
  BY <1>1 DEF Ids, NoId, NoPipe
<1>4. IsFiniteSet(Ids)
  BY <1>2 DEF Ids
<1>5. QED
  BY <1>1, <1>3, <1>4

-----------------------------------------------------------------------------
(* What happens to packets and positions in each step.                     *)

\* The part of a message that goes in one packet.
PartOK(a, p, i, from) ==
    /\ a \in Positions /\ a.at = "write" /\ a.op = "write"
    /\ a.to = chans[p][i].fd /\ a.pk.src = chans[p][i].writeid
    /\ a.args.chan = i
    /\ from + Len(a.pk.data) + a.args.left <= MaxUnits

LEMMA PartIs ==
    ASSUME TypeOK, NEW p \in Procs, NEW i \in Ids, HasChan(p, i),
           NEW from \in Nat, NEW left \in Nat \ {0}, from + left <= MaxUnits
    PROVE  PartOK(SendPart(p, i, from, left), p, i, from)
<1>1. chans[p][i] \in Chans
  BY DEF TypeOK, HasChan
<1>2. Bytes(left) \in 1..left
  BY Numbers DEF Bytes
<1>3. PICK d : d = [j \in 1..Bytes(left) |-> <<p, i, from + j>>]
  OBVIOUS
<1>4. d \in Seq(Units) /\ Len(d) = Bytes(left)
  <2>1. \A j \in 1..Bytes(left) : <<p, i, from + j>> \in Units
    BY <1>2, Numbers DEF Units
  <2>2. d \in [1..Bytes(left) -> Units]
    BY <1>3, <2>1
  <2>3. QED
    BY <1>2, <2>2
<1>5. PICK x : x = [chan |-> i, left |-> left - Bytes(left)]
  OBVIOUS
<1>6. x \in [chan : Ids, left : Nat] /\ x.chan = i /\ x.left = left - Bytes(left)
  BY <1>2, <1>5
<1>7. PICK pk : pk = Packet("MESSAGE", chans[p][i].writeid, d)
  OBVIOUS
<1>8. pk \in Messages /\ pk.src = chans[p][i].writeid /\ pk.data = d
  <2>1. chans[p][i].writeid \in Ids
    BY <1>1 DEF Chans
  <2>2. QED
    BY <1>4, <1>7, <2>1, Packed DEF Packet
<1>9. SendPart(p, i, from, left) = Send("write", chans[p][i].fd, pk, x)
  BY <1>3, <1>5, <1>7 DEF SendPart
<1>10. chans[p][i].fd \in Fds
  BY <1>1 DEF Chans
<1>11. Send("write", chans[p][i].fd, pk, x) \in Positions
  BY <1>6, <1>8, <1>10, Positioned
<1>12. QED
  <2>1. /\ Send("write", chans[p][i].fd, pk, x).at = "write"
        /\ Send("write", chans[p][i].fd, pk, x).op = "write"
        /\ Send("write", chans[p][i].fd, pk, x).to = chans[p][i].fd
        /\ Send("write", chans[p][i].fd, pk, x).pk = pk
        /\ Send("write", chans[p][i].fd, pk, x).args = x
    BY DEF Send
  <2>2. from + Len(d) + x.left <= MaxUnits
    BY <1>2, <1>4, <1>6, Numbers
  <2>3. QED
    BY <1>6, <1>8, <1>9, <1>11, <2>1, <2>2 DEF PartOK

\* The types of the values the invariant speaks of.
LEMMA TypeFacts ==
    ASSUME TypeOK
    PROVE  /\ \A r \in Procs : app[r] \in Positions
           /\ \A r \in Procs : Awaits(r) => app[r].src \in Ids /\ app[r].args \in Fds
           /\ \A r, q \in Procs : Accepting(r, q) => app[r].pk \in Accepts /\ app[r].to \in Fds
           /\ \A r \in Procs, i \in Ids : HasChan(r, i) => chans[r][i] \in Chans
           /\ \A r \in Procs, i \in Ids : HasChan(r, i) => chans[r][i].fd \in Fds
           /\ \A fd \in Fds : fd.proc \in Procs
<1>1. \A r \in Procs : app[r] \in Positions
  BY DEF TypeOK
<1>2. \A r \in Procs : Awaits(r) => app[r].src \in Ids /\ app[r].args \in Fds
  BY <1>1, PositionIs DEF Awaits
<1>3. \A r, q \in Procs : Accepting(r, q) => app[r].pk \in Accepts /\ app[r].to \in Fds
  BY <1>1, PositionIs DEF Accepting
<1>4. \A r \in Procs, i \in Ids : HasChan(r, i) => chans[r][i] \in Chans
  BY DEF TypeOK, HasChan
<1>5. \A ch \in Chans : ch.fd \in Fds
  BY DEF Chans
<1>6. \A fd \in Fds : fd.proc \in Procs
  BY DEF Fds
<1>7. QED
  BY <1>1, <1>2, <1>3, <1>4, <1>5, <1>6

\* Somebody has the request of q, or its answer.
Pressing(q) == Accepted(q) \/ \E r \in Procs : Accepting(r, q) \/ \E i \in Ids : Requested(r, q, i)

\* A step that leaves the requests of q to p and their answers alone.
LEMMA RequestKept ==
    ASSUME NEW p \in Procs, NEW q \in Procs, RequestOK(p, q),
           \A i \in Ids : Requested(p, q, i)' => Requested(p, q, i),
           \A i \in Ids : Request(q, i) \in Signals(pipe[p])' =>
              Request(q, i) \in Signals(pipe[p]) /\ (HasReader(app[q].args) => HasReader(app[q].args)'),
           \A i, k \in Ids : Answered(q, i, k)' <=> Answered(q, i, k),
           Awaits(q)' <=> Awaits(q),
           Awaits(q) => app'[q].src = app[q].src /\ app'[q].args = app[q].args,
           Accepting(p, q)' <=> Accepting(p, q),
           Accepting(p, q) => app'[p].pk = app[p].pk /\ app'[p].to = app[p].to,
           Accepting(p, q) /\ HasReader(app[p].to) => HasReader(app[p].to)',
           Awaits(q) /\ Pressing(q)' /\ Through(q) => Through(q)'
    PROVE  RequestOK(p, q)'
<1>1. Accepted(q)' <=> Accepted(q)
  BY DEF Accepted
<1>2. ASSUME NEW i \in Ids, Requested(p, q, i)'
      PROVE  /\ Awaits(q)' /\ app'[q].src = i /\ app'[q].args.proc = p
             /\ ~Accepting(p, q)' /\ ~Accepted(q)' /\ Through(q)'
             /\ Request(q, i) \in Signals(pipe[p])' => HasReader(app[q].args)'
  <2>1. /\ Awaits(q) /\ app[q].src = i /\ app[q].args.proc = p
        /\ ~Accepting(p, q) /\ ~Accepted(q) /\ Through(q)
        /\ Request(q, i) \in Signals(pipe[p]) => HasReader(app[q].args)
    BY <1>2 DEF RequestOK
  <2>2. Pressing(q)'
    BY <1>2 DEF Pressing
  <2>3. QED
    BY <1>1, <2>1, <2>2
<1>3. ASSUME Accepting(p, q)
      PROVE  /\ Awaits(q)' /\ app'[q].src = app'[p].pk.src /\ app'[q].args.proc = p
             /\ ~Accepted(q)' /\ Through(q)' /\ HasReader(app[p].to)'
  <2>1. /\ Awaits(q) /\ app[q].src = app[p].pk.src /\ app[q].args.proc = p
        /\ ~Accepted(q) /\ Through(q) /\ HasReader(app[p].to)
    BY <1>3 DEF RequestOK
  <2>2. Pressing(q)'
    BY <1>3 DEF Pressing
  <2>3. QED
    BY <1>1, <1>3, <2>1, <2>2
<1>4. ASSUME NEW i \in Ids, NEW k \in Ids, Answered(q, i, k)
      PROVE  /\ Awaits(q)' /\ app'[q].src = i /\ Through(q)'
             /\ \A j, l \in Ids : Answered(q, j, l)' => l = k
  <2>1. /\ Awaits(q) /\ app[q].src = i /\ Through(q)
        /\ \A j, l \in Ids : Answered(q, j, l) => l = k
    BY <1>4 DEF RequestOK
  <2>2. Pressing(q)'
    BY <1>1, <1>4 DEF Pressing, Accepted
  <2>3. QED
    BY <2>1, <2>2
<1>5. QED
  BY <1>2, <1>3, <1>4 DEF RequestOK, Request, Packet

\* A step after which no packet and no right is new.
LEMMA Fewer ==
    ASSUME TypeOK, RequestsOK, RightsOK, chans' = chans,
           \A r, q \in Procs, i \in Ids : Requested(r, q, i)' => Requested(r, q, i),
           \A r, q \in Procs, i \in Ids : Request(q, i) \in Signals(pipe[r])' =>
              Request(q, i) \in Signals(pipe[r]) /\ (HasReader(app[q].args) => HasReader(app[q].args)'),
           \A r \in Procs, i, k \in Ids : Answered(r, i, k)' <=> Answered(r, i, k),
           \A r \in Procs, k \in Ids : Returned(r, k)' => Returned(r, k),
           \A r \in Procs : /\ Awaits(r)' <=> Awaits(r)
                            /\ Awaits(r) => app'[r].src = app[r].src /\ app'[r].args = app[r].args,
           \A r, q \in Procs : /\ Accepting(r, q)' <=> Accepting(r, q)
                               /\ Accepting(r, q) => app'[r].pk = app[r].pk /\ app'[r].to = app[r].to
                               /\ Accepting(r, q) /\ HasReader(app[r].to) => HasReader(app[r].to)',
           \A q \in Procs : Awaits(q) /\ Pressing(q)' /\ Through(q) => Through(q)',
           \A q \in Procs, j \in Ids : HasChan(q, j) /\ (Served(chans[q][j].fd) \/ <<q, j>> \in stale)
              => Served(chans[q][j].fd)' \/ <<q, j>> \in stale'
    PROVE  /\ RequestsOK' /\ RightsOK'
           /\ \A r \in Procs : Accepted(r)' <=> Accepted(r)
           /\ \A q, p \in Procs, j, k \in Ids : Granted(q, j, p, k)' <=> Granted(q, j, p, k)
           /\ \A q, p \in Procs, k \in Ids : Promised(q, p, k)' <=> Promised(q, p, k)
<1>5. \A r \in Procs : Accepted(r)' <=> Accepted(r)
  BY DEF Accepted
<1>6. \A q, p \in Procs, j, k \in Ids : Granted(q, j, p, k)' <=> Granted(q, j, p, k)
  BY DEF Granted, HasChan
<1>7. \A q, p \in Procs, k \in Ids : Promised(q, p, k)' <=> Promised(q, p, k)
  BY DEF Promised
<1>11. RequestsOK'
  <2>1. ASSUME NEW p \in Procs, NEW q \in Procs PROVE RequestOK(p, q)'
    <3>1. RequestOK(p, q)
      BY DEF RequestsOK
    <3>2. QED
      BY <3>1, RequestKept
  <2>2. QED
    BY <2>1 DEF RequestsOK
<1>12. RightsOK'
  <2>1. \A q, p \in Procs, j, k \in Ids : Granted(q, j, p, k) => HasChan(q, j)
    BY DEF Granted
  <2>2. QED
    BY <1>6, <1>7, <2>1 DEF RightsOK
<1>13. QED
  BY <1>5, <1>6, <1>7, <1>11, <1>12

\* A step that leaves signals, channels, requests and answers alone: at most, a
\* signal goes from the pipe to the queue.
LEMMA Frame ==
    ASSUME TypeOK, RequestsOK, RightsOK, chans' = chans, stale' = stale,
           \A r \in Procs : /\ Signals(pipe[r])' \subseteq Signals(pipe[r])
                            /\ Pending(r)' = Pending(r),
           \A r \in Procs, k \in Ids : Returned(r, k)' <=> Returned(r, k),
           \A r \in Procs : /\ Awaits(r)' <=> Awaits(r)
                            /\ Awaits(r) => app'[r].src = app[r].src /\ app'[r].args = app[r].args
                            /\ Killed(r) => Killed(r)',
           \A r, q \in Procs : /\ Accepting(r, q)' <=> Accepting(r, q)
                               /\ Accepting(r, q) => app'[r].pk = app[r].pk /\ app'[r].to = app[r].to,
           \A fd \in Fds : HasReader(fd) => HasReader(fd)'
    PROVE  /\ RequestsOK' /\ RightsOK'
           /\ \A r \in Procs : /\ Accepted(r)' <=> Accepted(r)
                               /\ \A k \in Ids : Held(r, k)' <=> Held(r, k)
<1>2. \A r, q \in Procs, i \in Ids : Requested(r, q, i)' <=> Requested(r, q, i)
  BY DEF Requested, Request, Packet
<1>3. \A r \in Procs, i, k \in Ids : Answered(r, i, k)' <=> Answered(r, i, k)
  BY DEF Answered, Packet
<1>9. \A fd \in Fds : Served(fd) => Served(fd)'
  BY TypeFacts DEF Served, Killed
<1>10. \A r \in Procs : Awaits(r) /\ Through(r) => Through(r)'
  BY <1>9, TypeFacts DEF Through
<1>11. \A q \in Procs, j \in Ids : HasChan(q, j) /\ (Served(chans[q][j].fd) \/ <<q, j>> \in stale)
            => Served(chans[q][j].fd)' \/ <<q, j>> \in stale'
  <2>1. SUFFICES ASSUME NEW q \in Procs, NEW j \in Ids, HasChan(q, j), Served(chans[q][j].fd)
                 PROVE  Served(chans[q][j].fd)'
    OBVIOUS
  <2>2. QED
    BY <1>9, <2>1, TypeFacts
<1>12. \A r, q \in Procs, i \in Ids : Request(q, i) \in Signals(pipe[r])' =>
          Request(q, i) \in Signals(pipe[r]) /\ (HasReader(app[q].args) => HasReader(app[q].args)')
  <2>1. SUFFICES ASSUME NEW r \in Procs, NEW q \in Procs, NEW i \in Ids,
                        Request(q, i) \in Signals(pipe[r])', HasReader(app[q].args)
                 PROVE  HasReader(app[q].args)'
    BY DEF Request, Packet
  <2>2. Requested(r, q, i)
    BY <2>1 DEF Requested, Pending
  <2>3. Awaits(q)
    BY <2>2 DEF RequestsOK, RequestOK
  <2>4. app[q].args \in Fds /\ app'[q].args = app[q].args
    BY <2>3, TypeFacts
  <2>5. QED
    BY <2>1, <2>4 DEF HasReader
<1>13. \A r, q \in Procs : Accepting(r, q) /\ HasReader(app[r].to) => HasReader(app[r].to)'
  <2>1. SUFFICES ASSUME NEW r \in Procs, NEW q \in Procs, Accepting(r, q), HasReader(app[r].to)
                 PROVE  HasReader(app[r].to)'
    OBVIOUS
  <2>2. app[r].to \in Fds /\ app'[r].to = app[r].to
    BY <2>1, TypeFacts
  <2>3. QED
    BY <2>1, <2>2 DEF HasReader
<1>14. /\ RequestsOK' /\ RightsOK'
       /\ \A r \in Procs : Accepted(r)' <=> Accepted(r)
       /\ \A q, p \in Procs, j, k \in Ids : Granted(q, j, p, k)' <=> Granted(q, j, p, k)
       /\ \A q, p \in Procs, k \in Ids : Promised(q, p, k)' <=> Promised(q, p, k)
  BY <1>2, <1>3, <1>10, <1>11, <1>12, <1>13, Fewer
<1>15. \A r \in Procs, k \in Ids : Held(r, k)' <=> Held(r, k)
  BY <1>14 DEF Held
<1>16. QED
  BY <1>14, <1>15

LEMMA StillLess ==
    ASSUME NEW i \in Ids, NEW m \in Nat, NEW n \in Nat, i < m, m <= n
    PROVE  i < n
<1>1. i \in Nat
  BY Numbers
<1>2. QED
  BY <1>1

LEMMA NextOfId == \A i \in Ids : i + 1 \in 1..(MaxChan + 1) /\ i \in Nat
  BY Numbers DEF Ids

LEMMA NextIds ==
    ASSUME TypeOK
    PROVE  \A r \in Procs : nextId[r] \in Nat /\ nextId[r] <= nextId[r]
<1>1. nextId \in [Procs -> 1..(MaxChan + 1)]
  BY DEF TypeOK
<1>2. QED
  BY <1>1, Numbers

\* The ids of a process stay good when fewer of them are in use.
LEMMA IdsKept ==
    ASSUME TypeOK, NEW r \in Procs, IdsOK(r), nextId'[r] \in Nat, nextId[r] <= nextId'[r],
           \A k \in Ids : (HasChan(r, k)' => HasChan(r, k)) /\ (Held(r, k)' => Held(r, k)),
           Accepted(r) => Accepted(r)',
           Awaits(r)' => Awaits(r) /\ app'[r].src = app[r].src /\ app'[r].args = app[r].args,
           app'[r].at = "write" => app'[r] = app[r]
    PROVE  IdsOK(r)'
<1>1. nextId[r] \in Nat
  BY DEF TypeOK
<1>2. \A k \in Ids : InUse(r, k)' => InUse(r, k)
  BY DEF InUse
<1>3. \A k \in Ids : InUse(r, k)' => k < nextId'[r]
  BY <1>1, <1>2, StillLess DEF IdsOK
<1>4. ASSUME Awaits(r)'
      PROVE  /\ app'[r].args.proc # r /\ app'[r].src < nextId'[r]
             /\ ~HasChan(r, app[r].src)' /\ (~Accepted(r)' => ~Held(r, app[r].src)')
  <2>1. /\ app[r].src \in Ids /\ app[r].args.proc # r /\ app[r].src < nextId[r]
        /\ ~HasChan(r, app[r].src) /\ (~Accepted(r) => ~Held(r, app[r].src))
        /\ app'[r].src = app[r].src /\ app'[r].args = app[r].args
    BY <1>4, TypeFacts DEF IdsOK
  <2>2. PICK i \in Ids : i = app[r].src
    BY <2>1
  <2>3. i < nextId'[r]
    BY <1>1, <2>1, <2>2, StillLess
  <2>4. ~HasChan(r, i)' /\ (~Accepted(r)' => ~Held(r, i)')
    BY <2>1, <2>2
  <2>5. QED
    BY <2>1, <2>2, <2>3, <2>4
<1>5. app[r] \in Positions
  BY DEF TypeOK
<1>6. ASSUME app'[r].at = "write", app'[r].op = "connect"
      PROVE  app'[r].to.proc # r /\ app'[r].args < nextId'[r] /\ ~InUse(r, app[r].args)'
  <2>1. PICK i \in Ids : /\ i = app[r].args /\ app[r].to.proc # r /\ i < nextId[r]
                         /\ ~InUse(r, i)
    BY <1>5, <1>6, PositionIs DEF IdsOK
  <2>2. ~InUse(r, i)' /\ i < nextId'[r]
    BY <1>1, <1>2, <2>1, StillLess
  <2>3. QED
    BY <1>6, <2>1, <2>2
<1>7. ASSUME app'[r].at = "write", app'[r].op = "accept"
      PROVE  app'[r].pk.data < nextId'[r] /\ ~InUse(r, app[r].pk.data)'
  <2>1. app[r].pk.data \in Ids
    BY <1>5, <1>7, PositionIs DEF Accepts
  <2>2. PICK i \in Ids : i = app[r].pk.data /\ i < nextId[r] /\ ~InUse(r, i)
    BY <1>7, <2>1 DEF IdsOK
  <2>3. ~InUse(r, i)' /\ i < nextId'[r]
    BY <1>1, <1>2, <2>2, StillLess
  <2>4. QED
    BY <1>7, <2>2, <2>3
<1>8. QED
  BY <1>3, <1>4, <1>6, <1>7 DEF IdsOK

\* Positions in which a thread neither waits for an answer nor gives one.
Calm(a) ==
    \/ a.at \in {"idle", "close", "drain"}
    \/ a.at = "wait" /\ a.op \in {"accept", "read"}
    \/ a.at = "write" /\ a.op \in {"connect", "disconnect", "write"}

LEMMA SameCount ==
    ASSUME NEW r \in Procs, CountOK(r), writers'[r] = writers[r], Killed(r)' <=> Killed(r),
           Accepted(r)' <=> Accepted(r), \A k \in Ids : Held(r, k)' <=> Held(r, k)
    PROVE  CountOK(r)'
<1>1. Writers(r)' = Writers(r)
  BY DEF Writers
<1>2. QED
  BY <1>1 DEF CountOK

LEMMA Quiet ==
    ASSUME FifoInv, NEW p \in Procs, chans' = chans, stale' = stale, writers' = writers,
           \A r \in Procs : /\ Signals(pipe[r])' = Signals(pipe[r])
                            /\ Signals(queue[r])' = Signals(queue[r]),
           Calm(app[p]), Calm(app'[p]), \A r \in Procs : r # p => app'[r] = app[r],
           \A r \in Procs : nextId'[r] \in Nat /\ nextId[r] <= nextId'[r],
           app'[p].at = "write" /\ app'[p].op = "connect" =>
              /\ app'[p].to.proc # p /\ app'[p].args \in Ids /\ app'[p].args < nextId'[p]
              /\ ~InUse(p, app'[p].args),
           \A fd \in Fds : HasReader(fd) => HasReader(fd)'
    PROVE  RequestsOK' /\ RightsOK' /\ \A r \in Procs : IdsOK(r)' /\ CountOK(r)'
<1>0. TypeOK /\ RequestsOK /\ RightsOK /\ \A r \in Procs : IdsOK(r) /\ CountOK(r)
  BY DEF FifoInv
<1>1. /\ ~Awaits(p) /\ ~Awaits(p)' /\ ~Killed(p) /\ ~Killed(p)'
      /\ \A q \in Procs : ~Accepting(p, q) /\ ~Accepting(p, q)'
  BY DEF Calm, Awaits, Killed, Accepting
<1>2. \A r \in Procs : r # p => /\ Awaits(r)' <=> Awaits(r)
                                /\ Killed(r)' <=> Killed(r)
                                /\ \A q \in Procs : Accepting(r, q)' <=> Accepting(r, q)
  BY DEF Awaits, Killed, Accepting
<1>3. \A r \in Procs : /\ Awaits(r)' <=> Awaits(r)
                       /\ Awaits(r) => app'[r].src = app[r].src /\ app'[r].args = app[r].args
                       /\ Killed(r)' <=> Killed(r)
  BY <1>1, <1>2
<1>4. \A r, q \in Procs : /\ Accepting(r, q)' <=> Accepting(r, q)
                          /\ Accepting(r, q) => app'[r].pk = app[r].pk /\ app'[r].to = app[r].to
  BY <1>1, <1>2
<1>5. /\ RequestsOK' /\ RightsOK'
      /\ \A r \in Procs : Accepted(r)' <=> Accepted(r)
      /\ \A r \in Procs, k \in Ids : Held(r, k)' <=> Held(r, k)
      /\ \A r \in Procs, k \in Ids : HasChan(r, k)' <=> HasChan(r, k)
      /\ \A r \in Procs, k \in Ids : InUse(r, k)' <=> InUse(r, k)
  <2>1. \A r \in Procs : Pending(r)' = Pending(r)
    BY DEF Pending
  <2>2. \A r \in Procs, k \in Ids : Returned(r, k)' <=> Returned(r, k)
    BY DEF Returned, Packet
  <2>3. /\ RequestsOK' /\ RightsOK'
        /\ \A r \in Procs : /\ Accepted(r)' <=> Accepted(r)
                            /\ \A k \in Ids : Held(r, k)' <=> Held(r, k)
    BY <1>0, <1>3, <1>4, <2>1, <2>2, Frame
  <2>4. \A r \in Procs, k \in Ids : HasChan(r, k)' <=> HasChan(r, k)
    BY DEF HasChan
  <2>5. QED
    BY <2>3, <2>4 DEF InUse
<1>6. ASSUME NEW r \in Procs PROVE IdsOK(r)'
  <2>1. nextId[r] \in Nat /\ nextId'[r] \in Nat /\ nextId[r] <= nextId'[r]
    BY <1>0 DEF TypeOK
  <2>2. CASE r = p
    <3>1. app'[p].at = "write" => app'[p].op # "accept"
      BY DEF Calm
    <3>2. \A k \in Ids : InUse(p, k)' => k < nextId'[p]
      BY <1>0, <1>5, <2>1, <2>2, StillLess DEF IdsOK
    <3>3. ASSUME app'[p].at = "write", app'[p].op = "connect" PROVE ~InUse(p, app[p].args)'
      <4>1. PICK i \in Ids : i = app'[p].args /\ ~InUse(p, i)
        BY <3>3
      <4>2. ~InUse(p, i)'
        BY <1>5, <4>1
      <4>3. QED
        BY <4>1, <4>2
    <3>4. QED
      BY <1>1, <2>2, <3>1, <3>2, <3>3 DEF IdsOK
  <2>3. CASE r # p
    BY <1>0, <1>2, <1>5, <2>1, <2>3, IdsKept
  <2>4. QED
    BY <2>2, <2>3
<1>7. ASSUME NEW r \in Procs PROVE CountOK(r)'
  BY <1>0, <1>3, <1>5, SameCount
<1>8. QED
  BY <1>5, <1>6, <1>7

LEMMA ThreadKept ==
    ASSUME NEW r \in Procs, TypeOK, ThreadOK(r), app'[r] = app[r], chans'[r] = chans[r],
           out'[r] = out[r], inode[r] # NoPipe => inode'[r] # NoPipe,
           Len(queue[r]) \in Nat, Len(queue'[r]) \in Nat, Len(queue[r]) <= Len(queue'[r])
    PROVE  ThreadOK(r)'
<1>1. app[r].at = "wait" => app[r].seen \in Nat
  BY PositionIs DEF TypeOK
<1>2. QED
  BY <1>1 DEF ThreadOK, Request, Packet

LEMMA QueueTypes ==
    ASSUME TypeOK, NEW r \in Procs
    PROVE  /\ pipe[r] \in Seq(Packets) /\ queue[r] \in Seq(Packets \ Disconnects)
           /\ queue[r] \in Seq(Packets)
           /\ Len(queue[r]) \in Nat /\ Len(pipe[r]) \in Nat
<1>1. pipe[r] \in Seq(Packets) /\ queue[r] \in Seq(Packets \ Disconnects)
  BY DEF TypeOK
<1>2. \A S, T : S \subseteq T => Seq(S) \subseteq Seq(T)
  OBVIOUS
<1>3. queue[r] \in Seq(Packets)
  BY <1>1, <1>2
<1>4. QED
  BY <1>1, <1>3

\* A step that changes only the position of p, and counters.
LEMMA Moves ==
    ASSUME FifoInv, NEW p \in Procs, TypeOK',
           UNCHANGED <<pipe, queue, inode, chans, stale, writers, out>>,
           Calm(app[p]), Calm(app'[p]), \A r \in Procs : r # p => app'[r] = app[r],
           \A r \in Procs : nextId[r] <= nextId'[r],
           app'[p].at = "write" /\ app'[p].op = "connect" =>
              /\ app'[p].to.proc # p /\ app'[p].args \in Ids /\ app'[p].args < nextId'[p]
              /\ ~InUse(p, app'[p].args),
           ThreadOK(p)'
    PROVE  FifoInv'
<1>1. \A r \in Procs : nextId'[r] \in Nat
  BY DEF TypeOK
<1>2. \A fd \in Fds : HasReader(fd) => HasReader(fd)'
  BY DEF HasReader
<1>3. RequestsOK' /\ RightsOK' /\ \A r \in Procs : IdsOK(r)' /\ CountOK(r)'
  BY <1>1, <1>2, Quiet
<1>4. TypeOK /\ \A r \in Procs : ThreadOK(r) /\ InboxOK(r)
  BY DEF FifoInv
<1>5. ASSUME NEW r \in Procs, r # p PROVE ThreadOK(r)'
  <2>1. Len(queue[r]) \in Nat
    BY <1>4, QueueTypes
  <2>2. QED
    BY <1>4, <1>5, <2>1, ThreadKept
<1>6. ASSUME NEW r \in Procs PROVE InboxOK(r)'
  BY <1>4 DEF InboxOK
<1>7. QED
  BY <1>3, <1>5, <1>6 DEF FifoInv

LEMMA IdleIs ==
    ASSUME NEW p \in Procs, app[p] = Idle
    PROVE  app[p].at = "idle" /\ Calm(app[p])
  BY DEF Idle, Calm

\* Types after a step that changes only positions, counters and histories.
LEMMA TypeMoves ==
    ASSUME TypeOK, NEW p \in Procs, NEW a \in Positions,
           app' = [app EXCEPT ![p] = a],
           UNCHANGED <<pipe, queue, chans, stale, writers, out, got>>
    PROVE  UNCHANGED <<inode, opens, openCalls, nextId>> => TypeOK'
<1>1. app' \in [Procs -> Positions]
  BY DEF TypeOK
<1>2. QED
  BY <1>1 DEF TypeOK

LEMMA AppSet ==
    ASSUME TypeOK, NEW p \in Procs, NEW a, app' = [app EXCEPT ![p] = a]
    PROVE  app'[p] = a /\ \A r \in Procs : r # p => app'[r] = app[r]
<1>1. DOMAIN app = Procs
  BY DEF TypeOK
<1>2. QED
  BY <1>1

LEMMA StepAccept ==
    ASSUME FifoInv, NEW p \in Procs, Accept(p)
    PROVE  FifoInv'
<1>1. TypeOK /\ app[p].at = "idle" /\ Calm(app[p])
  BY IdleIs DEF FifoInv, Accept
<1>2. PICK a : a = Wait("accept", "CONNECT", NoId, NoId)
  OBVIOUS
<1>3. a \in Positions /\ Calm(a) /\ a.at = "wait" /\ a.op = "accept" /\ a.seen = 0
  BY <1>2, Positioned DEF Wait, Calm
<1>4. app' = [app EXCEPT ![p] = a]
      /\ UNCHANGED <<pipe, queue, inode, chans, stale, writers, out, got, opens, openCalls, nextId>>
  BY <1>2 DEF Accept, api
<1>5. TypeOK'
  BY <1>1, <1>3, <1>4, TypeMoves
<1>6. app'[p] = a /\ \A r \in Procs : r # p => app'[r] = app[r]
  BY <1>1, <1>4, AppSet
<1>7. ThreadOK(p)'
  <2>1. inode[p] # NoPipe /\ Len(queue[p]) \in Nat
    BY <1>1, QueueTypes DEF Accept
  <2>2. QED
    BY <1>3, <1>4, <1>6, <2>1 DEF ThreadOK, Awaits
<1>8. \A r \in Procs : nextId[r] <= nextId'[r]
  BY <1>1, <1>4 DEF TypeOK
<1>9. QED
  BY <1>1, <1>3, <1>4, <1>5, <1>6, <1>7, <1>8, Moves

LEMMA StepRead ==
    ASSUME FifoInv, NEW p \in Procs, NEW i \in Ids, NEW size \in ReadSizes, Read(p, i, size)
    PROVE  FifoInv'
<1>1. TypeOK /\ app[p].at = "idle" /\ Calm(app[p])
  BY IdleIs DEF FifoInv, Read
<1>2. PICK a : a = Wait("read", "MESSAGE", i, size)
  OBVIOUS
<1>3. a \in Positions /\ Calm(a) /\ a.at = "wait" /\ a.op = "read" /\ a.seen = 0
  <2>1. size \in Nat
    BY FifoAssumption
  <2>2. QED
    BY <1>2, <2>1, Positioned DEF Wait, Calm
<1>4. app' = [app EXCEPT ![p] = a]
      /\ UNCHANGED <<pipe, queue, inode, chans, stale, writers, out, got, opens, openCalls, nextId>>
  BY <1>2 DEF Read, api
<1>5. TypeOK'
  BY <1>1, <1>3, <1>4, TypeMoves
<1>6. app'[p] = a /\ \A r \in Procs : r # p => app'[r] = app[r]
  BY <1>1, <1>4, AppSet
<1>7. ThreadOK(p)'
  <2>1. inode[p] # NoPipe /\ Len(queue[p]) \in Nat
    BY <1>1, QueueTypes DEF Read
  <2>2. QED
    BY <1>3, <1>4, <1>6, <2>1 DEF ThreadOK, Awaits
<1>8. \A r \in Procs : nextId[r] <= nextId'[r]
  BY <1>1, <1>4 DEF TypeOK
<1>9. QED
  BY <1>1, <1>3, <1>4, <1>5, <1>6, <1>7, <1>8, Moves

LEMMA StepDisconnect ==
    ASSUME FifoInv, NEW p \in Procs, NEW i \in Ids, Disconnect(p, i)
    PROVE  FifoInv'
<1>1. TypeOK /\ app[p].at = "idle" /\ Calm(app[p]) /\ HasChan(p, i)
  BY IdleIs DEF FifoInv, Disconnect
<1>2. chans[p][i] \in Chans
  BY <1>1, TypeFacts
<1>3. PICK pk : pk = Packet("DISCONNECT", chans[p][i].writeid, << >>)
  OBVIOUS
<1>4. PICK a : a = Send("disconnect", chans[p][i].fd, pk, i)
  OBVIOUS
<1>5. /\ a \in Positions /\ Calm(a) /\ a.at = "write" /\ a.op = "disconnect"
      /\ a.to = chans[p][i].fd /\ a.args = i /\ a.pk.src = chans[p][i].writeid
  <2>1. chans[p][i].fd \in Fds /\ chans[p][i].writeid \in Ids
    BY <1>2 DEF Chans
  <2>2. pk \in Disconnects /\ pk.src = chans[p][i].writeid
    BY <1>3, <2>1, Packed DEF Packet
  <2>3. a \in Positions
    BY <1>4, <2>1, <2>2, Positioned
  <2>4. /\ a.at = "write" /\ a.op = "disconnect" /\ a.to = chans[p][i].fd
        /\ a.args = i /\ a.pk = pk
    BY <1>4 DEF Send
  <2>5. QED
    BY <2>2, <2>3, <2>4 DEF Calm
<1>6. app' = [app EXCEPT ![p] = a]
      /\ UNCHANGED <<pipe, queue, inode, chans, stale, writers, out, got, opens, openCalls, nextId>>
  BY <1>3, <1>4 DEF Disconnect, api
<1>7. TypeOK'
  BY <1>1, <1>5, <1>6, TypeMoves
<1>8. app'[p] = a /\ \A r \in Procs : r # p => app'[r] = app[r]
  BY <1>1, <1>6, AppSet
<1>9. ThreadOK(p)'
  <2>1. chans[p][i] = [fd |-> chans[p][i].fd, writeid |-> chans[p][i].writeid]
    BY <1>2 DEF Chans
  <2>2. QED
    BY <1>5, <1>6, <1>8, <2>1 DEF ThreadOK, Awaits
<1>10. \A r \in Procs : nextId[r] <= nextId'[r]
  BY <1>1, <1>6 DEF TypeOK
<1>11. QED
  BY <1>1, <1>5, <1>6, <1>7, <1>8, <1>9, <1>10, Moves

LEMMA StepWrite ==
    ASSUME FifoInv, NEW p \in Procs, NEW i \in Ids, NEW size \in WriteSizes, Write(p, i, size)
    PROVE  FifoInv'
<1>1. TypeOK /\ app[p].at = "idle" /\ Calm(app[p]) /\ HasChan(p, i)
  BY IdleIs DEF FifoInv, Write
<1>2. chans[p][i] \in Chans
  BY <1>1, TypeFacts
<1>3. PICK a : a = SendPart(p, i, out[p][i], size)
  OBVIOUS
<1>4. /\ a \in Positions /\ a.at = "write" /\ a.op = "write"
      /\ a.to = chans[p][i].fd /\ a.pk.src = chans[p][i].writeid
      /\ a.args.chan = i /\ out[p][i] + Len(a.pk.data) + a.args.left <= MaxUnits
  <2>1. size \in Nat \ {0}
    BY FifoAssumption
  <2>2. out[p][i] \in 0..MaxUnits
    BY <1>1 DEF TypeOK
  <2>3. out[p][i] \in Nat /\ out[p][i] + size <= MaxUnits
    BY <2>2, Numbers DEF Write
  <2>4. PartOK(SendPart(p, i, out[p][i], size), p, i, out[p][i])
    BY <1>1, <2>1, <2>3, PartIs
  <2>5. QED
    BY <1>3, <2>4 DEF PartOK
<1>5. app' = [app EXCEPT ![p] = a]
      /\ UNCHANGED <<pipe, queue, inode, chans, stale, writers, out, got, opens, openCalls, nextId>>
  BY <1>3 DEF Write, api
<1>6. TypeOK'
  BY <1>1, <1>4, <1>5, TypeMoves
<1>7. app'[p] = a /\ \A r \in Procs : r # p => app'[r] = app[r]
  BY <1>1, <1>5, AppSet
<1>8. ThreadOK(p)'
  <2>1. chans[p][i] = [fd |-> chans[p][i].fd, writeid |-> chans[p][i].writeid]
    BY <1>2 DEF Chans
  <2>2. QED
    BY <1>4, <1>5, <1>7, <2>1 DEF ThreadOK, Awaits
<1>9. Calm(a)
  BY <1>4 DEF Calm
<1>10. \A r \in Procs : nextId[r] <= nextId'[r]
  BY <1>1, <1>5 DEF TypeOK
<1>11. QED
  BY <1>1, <1>4, <1>5, <1>6, <1>7, <1>8, <1>9, <1>10, Moves

\* The id of a request is a new one.
LEMMA StepConnect ==
    ASSUME FifoInv, NEW p \in Procs, NEW q \in Procs, Connect(p, q)
    PROVE  FifoInv'
<1>1. TypeOK /\ IdsOK(p) /\ app[p].at = "idle" /\ Calm(app[p]) /\ p # q
      /\ inode[p] # NoPipe /\ inode[q] # NoPipe /\ nextId[p] \in Ids
  BY IdleIs DEF FifoInv, Connect
<1>2. PICK i \in Ids : i = nextId[p]
  BY <1>1
<1>3. PICK a : a = Send("connect", Fd(q), Request(p, i), i)
  OBVIOUS
<1>4. /\ a \in Positions /\ Calm(a) /\ a.at = "write" /\ a.op = "connect"
      /\ a.to.proc = q /\ a.args = i /\ a.pk = Request(p, i)
  <2>1. Fd(q) \in Fds /\ Fd(q).proc = q
    BY <1>1 DEF TypeOK, Fd, Fds
  <2>2. a \in Positions
    BY <1>3, <2>1, Packed, Positioned
  <2>3. /\ a.at = "write" /\ a.op = "connect" /\ a.to = Fd(q) /\ a.args = i
        /\ a.pk = Request(p, i)
    BY <1>3 DEF Send
  <2>4. QED
    BY <2>1, <2>2, <2>3 DEF Calm
<1>5. /\ app' = [app EXCEPT ![p] = a] /\ nextId' = [nextId EXCEPT ![p] = i + 1]
      /\ UNCHANGED <<pipe, queue, inode, chans, stale, writers, out, got, opens, openCalls>>
  BY <1>2, <1>3 DEF Connect, Request, api
<1>6. app' \in [Procs -> Positions] /\ nextId' \in [Procs -> 1..(MaxChan + 1)]
  <2>1. i + 1 \in 1..(MaxChan + 1)
    BY Numbers DEF Ids
  <2>2. app \in [Procs -> Positions] /\ nextId \in [Procs -> 1..(MaxChan + 1)]
    BY <1>1 DEF TypeOK
  <2>3. QED
    BY <1>4, <1>5, <2>1, <2>2
<1>7. TypeOK'
  BY <1>1, <1>5, <1>6 DEF TypeOK
<1>8. app'[p] = a /\ \A r \in Procs : r # p => app'[r] = app[r]
  BY <1>1, <1>5, AppSet
<1>9. ThreadOK(p)'
  BY <1>1, <1>4, <1>5, <1>8 DEF ThreadOK, Awaits, Request, Packet
<1>10. nextId'[p] = i + 1 /\ i \in Nat /\ \A r \in Procs : nextId[r] <= nextId'[r]
  <2>1. i \in Nat /\ \A r \in Procs : nextId[r] \in Nat
    <3>1. nextId \in [Procs -> 1..(MaxChan + 1)]
      BY <1>1 DEF TypeOK
    <3>2. QED
      BY <3>1, Numbers
  <2>2. DOMAIN nextId = Procs
    BY <1>1 DEF TypeOK
  <2>3. QED
    BY <1>2, <1>5, <2>1, <2>2
<1>11. i < nextId'[p] /\ ~InUse(p, i)
  <2>1. InUse(p, i) => i < nextId[p]
    BY <1>1 DEF IdsOK
  <2>2. QED
    BY <1>2, <1>10, <2>1
<1>12. QED
  BY <1>1, <1>4, <1>5, <1>7, <1>8, <1>9, <1>10, <1>11, Moves

LEMMA StepClose ==
    ASSUME FifoInv, NEW p \in Procs, Close(p)
    PROVE  FifoInv'
<1>1. TypeOK /\ app[p].at = "idle" /\ Calm(app[p])
  BY IdleIs DEF FifoInv, Close
<1>2. PICK a : a = IF opens[p] = 1 THEN [at |-> "close"] ELSE Idle
  OBVIOUS
<1>3. a \in Positions /\ Calm(a) /\ a.at \in {"idle", "close"}
  BY <1>2, Positioned DEF Idle, Calm
<1>4. /\ app' = [app EXCEPT ![p] = a] /\ opens' = [opens EXCEPT ![p] = @ - 1]
      /\ UNCHANGED <<pipe, queue, inode, chans, stale, writers, out, got, openCalls, nextId>>
  BY <1>2 DEF Close
<1>5. app' \in [Procs -> Positions]
  BY <1>1, <1>3, <1>4 DEF TypeOK
<1>6. opens' \in [Procs -> Nat] /\ \A r \in Procs : opens'[r] <= openCalls[r]
  <2>1. opens \in [Procs -> Nat] /\ openCalls \in [Procs -> Nat]
        /\ \A r \in Procs : opens[r] <= openCalls[r]
    BY <1>1 DEF TypeOK
  <2>2. opens[p] > 0
    BY DEF Close
  <2>3. QED
    BY <1>4, <2>1, <2>2
<1>7. TypeOK'
  BY <1>1, <1>4, <1>5, <1>6 DEF TypeOK
<1>8. app'[p] = a /\ \A r \in Procs : r # p => app'[r] = app[r]
  BY <1>1, <1>4, AppSet
<1>9. ThreadOK(p)'
  BY <1>3, <1>8 DEF ThreadOK, Awaits
<1>10. \A r \in Procs : nextId[r] <= nextId'[r]
  BY <1>1, <1>4 DEF TypeOK
<1>11. QED
  BY <1>1, <1>3, <1>4, <1>7, <1>8, <1>9, <1>10, Moves

LEMMA StepCloseProgress ==
    ASSUME FifoInv, NEW p \in Procs, CloseProgress(p)
    PROVE  FifoInv'
<1>1. TypeOK
  BY DEF FifoInv
<1>2. PICK a \in {[at |-> "close"], [at |-> "drain"]} : app' = [app EXCEPT ![p] = a]
  BY DEF CloseProgress
<1>3. /\ a \in Positions /\ Calm(a) /\ a.at \in {"close", "drain"}
      /\ app[p].at \in {"close", "drain"} /\ Calm(app[p])
  BY Positioned DEF CloseProgress, Calm
<1>4. UNCHANGED <<pipe, queue, inode, chans, stale, writers, out, got, opens, openCalls, nextId>>
  BY DEF CloseProgress, api
<1>5. TypeOK'
  BY <1>1, <1>2, <1>3, <1>4, TypeMoves
<1>6. app'[p] = a /\ \A r \in Procs : r # p => app'[r] = app[r]
  BY <1>1, <1>2, AppSet
<1>7. ThreadOK(p)'
  BY <1>3, <1>6 DEF ThreadOK, Awaits
<1>8. \A r \in Procs : nextId[r] <= nextId'[r]
  BY <1>1, <1>4 DEF TypeOK
<1>9. QED
  BY <1>1, <1>3, <1>4, <1>5, <1>6, <1>7, <1>8, Moves

LEMMA StepOpen ==
    ASSUME FifoInv, NEW p \in Procs, Open(p)
    PROVE  FifoInv'
<1>1. /\ TypeOK /\ app[p].at = "idle" /\ Calm(app[p])
      /\ \A r \in Procs : InboxOK(r) /\ ThreadOK(r)
  BY IdleIs DEF FifoInv, Open
<1>2. /\ inode' = [inode EXCEPT ![p] = IF @ = NoPipe THEN openCalls[p] + 1 ELSE @]
      /\ opens' = [opens EXCEPT ![p] = @ + 1] /\ openCalls' = [openCalls EXCEPT ![p] = @ + 1]
      /\ openCalls[p] < MaxOpen[p]
      /\ UNCHANGED <<pipe, queue, writers, nextId, chans, app, out, got, stale>>
  BY DEF Open
<1>3. /\ inode \in [Procs -> Nat] /\ opens \in [Procs -> Nat] /\ openCalls \in [Procs -> Nat]
      /\ \A r \in Procs : MaxOpen[r] \in Nat /\ openCalls[r] <= MaxOpen[r]
                          /\ opens[r] <= openCalls[r] /\ inode[r] <= openCalls[r]
  BY <1>1, FifoAssumption DEF TypeOK
<1>4. /\ inode' \in [Procs -> Nat] /\ opens' \in [Procs -> Nat] /\ openCalls' \in [Procs -> Nat]
      /\ \A r \in Procs : openCalls'[r] <= MaxOpen[r] /\ opens'[r] <= openCalls'[r]
                          /\ inode'[r] <= openCalls'[r]
  BY <1>2, <1>3
<1>5. \A r \in Procs : inode[r] # NoPipe => inode'[r] = inode[r]
  BY <1>2, <1>3
<1>6. TypeOK'
  BY <1>1, <1>2, <1>4 DEF TypeOK
<1>7. \A fd \in Fds : HasReader(fd) => HasReader(fd)'
  BY <1>5 DEF HasReader, Fds
<1>8. RequestsOK' /\ RightsOK' /\ \A r \in Procs : IdsOK(r)' /\ CountOK(r)'
  <2>1. \A r \in Procs : nextId'[r] \in Nat /\ nextId[r] <= nextId'[r]
    BY <1>1, <1>2 DEF TypeOK
  <2>2. app'[p].at # "write" /\ Calm(app'[p]) /\ \A r \in Procs : app'[r] = app[r]
    BY <1>1, <1>2
  <2>3. QED
    BY <1>1, <1>2, <1>7, <2>1, <2>2, Quiet
<1>9. ASSUME NEW r \in Procs PROVE ThreadOK(r)' /\ InboxOK(r)'
  <2>1. Len(queue[r]) \in Nat
    BY <1>1, QueueTypes
  <2>2. ThreadOK(r)'
    BY <1>1, <1>2, <1>5, <2>1, ThreadKept
  <2>3. InboxOK(r)'
    BY <1>1, <1>2, <1>5 DEF InboxOK
  <2>4. QED
    BY <2>2, <2>3
<1>10. QED
  BY <1>6, <1>8, <1>9 DEF FifoInv

-----------------------------------------------------------------------------
(* Steps that move packets.                                                *)

LEMMA PipeAppend ==
    ASSUME TypeOK, NEW q \in Procs, InboxOK(q), NEW pk \in Packets, Len(pipe[q]) < PipeCap,
           pipe' = [pipe EXCEPT ![q] = Append(@, pk)]
    PROVE  /\ pipe' \in [Procs -> Seq(Packets)] /\ \A r \in Procs : Len(pipe'[r]) <= PipeCap
           /\ \A r \in Procs : r # q => pipe'[r] = pipe[r]
           /\ pk.type = "MESSAGE" => Signals(pipe[q])' = Signals(pipe[q]) /\ Distinct(pipe[q])'
           /\ pk.type # "MESSAGE" => Signals(pipe[q])' = Signals(pipe[q]) \cup {pk}
           /\ pk \notin Signals(pipe[q]) => Distinct(pipe[q])'
           /\ pipe'[q] # << >>
<1>1. pipe \in [Procs -> Seq(Packets)] /\ \A r \in Procs : Len(pipe[r]) <= PipeCap
  BY DEF TypeOK
<1>2. PICK s \in Seq(Packets) : s = pipe[q]
  BY <1>1
<1>3. PICK t : t = Append(s, pk)
  OBVIOUS
<1>4. pipe' = [pipe EXCEPT ![q] = t]
  BY <1>1, <1>2, <1>3
<1>5. /\ t \in Seq(Packets) /\ Len(t) = Len(s) + 1
      /\ pk.type = "MESSAGE" => Signals(t) = Signals(s)
      /\ pk.type # "MESSAGE" => Signals(t) = Signals(s) \cup {pk}
      /\ Distinct(s) /\ pk \notin Signals(s) => Distinct(t)
  BY <1>3, SignalsAppend
<1>6. pipe'[q] = t /\ \A r \in Procs : r # q => pipe'[r] = pipe[r]
  BY <1>1, <1>4
<1>7. pipe' \in [Procs -> Seq(Packets)]
  BY <1>1, <1>4, <1>5
<1>8. Len(t) <= PipeCap /\ t # << >>
  <2>1. Len(s) \in Nat /\ PipeCap \in Nat /\ Len(s) < PipeCap
    BY <1>2, FifoAssumption
  <2>2. QED
    BY <1>5, <2>1
<1>9. Distinct(s)
  BY <1>2 DEF InboxOK
<1>10. pk.type = "MESSAGE" => pk \notin Signals(s)
  BY SignalsAre
<1>11. \A r \in Procs : Len(pipe'[r]) <= PipeCap
  BY <1>1, <1>6, <1>8
<1>12. QED
  BY <1>2, <1>5, <1>6, <1>7, <1>8, <1>9, <1>10, <1>11

\* What a thread that writes is about to put in which pipe.
LEMMA Writing ==
    ASSUME FifoInv, NEW p \in Procs, app[p].at = "write"
    PROVE  /\ app[p].to \in Fds /\ app[p].to.proc \in Procs /\ app[p].pk \in Packets
           /\ app[p].op = "disconnect" =>
                 /\ app[p].args \in Ids /\ HasChan(p, app[p].args)
                 /\ app[p].pk = Packet("DISCONNECT", app[p].pk.src, << >>) /\ app[p].pk.src \in Ids
                 /\ chans[p][app[p].args].fd = app[p].to
                 /\ chans[p][app[p].args].writeid = app[p].pk.src
           /\ app[p].op = "write" =>
                 /\ app[p].args.chan \in Ids /\ HasChan(p, app[p].args.chan)
                 /\ app[p].args.left \in Nat /\ app[p].pk.type = "MESSAGE"
                 /\ app[p].pk.data \in Seq(Units)
                 /\ chans[p][app[p].args.chan].fd = app[p].to
                 /\ chans[p][app[p].args.chan].writeid = app[p].pk.src
<1>1. TypeOK /\ ThreadOK(p) /\ app[p] \in Positions
  BY DEF FifoInv, TypeOK
<1>2. app[p].to \in Fds /\ app[p].to.proc \in Procs
  BY <1>1, PositionIs, TypeFacts
<1>3. app[p].pk \in Packets
  BY <1>1, PositionIs DEF Packets
<1>4. ASSUME NEW i \in Ids, NEW fd, NEW k \in Ids, chans[p][i] = [fd |-> fd, writeid |-> k]
      PROVE  HasChan(p, i) /\ chans[p][i].fd = fd /\ chans[p][i].writeid = k
  <2>1. chans[p][i].writeid = k /\ NoChan.writeid = NoId
    BY <1>4 DEF NoChan
  <2>2. QED
    BY <1>4, <2>1, Numbers DEF HasChan
<1>5. ASSUME app[p].op = "disconnect"
      PROVE  /\ app[p].args \in Ids /\ HasChan(p, app[p].args)
             /\ app[p].pk = Packet("DISCONNECT", app[p].pk.src, << >>) /\ app[p].pk.src \in Ids
             /\ chans[p][app[p].args].fd = app[p].to
             /\ chans[p][app[p].args].writeid = app[p].pk.src
  <2>1. app[p].args \in Ids /\ app[p].pk \in Disconnects
    BY <1>1, <1>5, PositionIs
  <2>2. app[p].pk = Packet("DISCONNECT", app[p].pk.src, << >>) /\ app[p].pk.src \in Ids
    BY <2>1 DEF Disconnects, Packet
  <2>3. chans[p][app[p].args] = [fd |-> app[p].to, writeid |-> app[p].pk.src]
    BY <1>1, <1>5 DEF ThreadOK
  <2>4. QED
    BY <1>4, <2>1, <2>2, <2>3
<1>6. ASSUME app[p].op = "write"
      PROVE  /\ app[p].args.chan \in Ids /\ HasChan(p, app[p].args.chan)
             /\ app[p].args.left \in Nat /\ app[p].pk.type = "MESSAGE"
             /\ app[p].pk.data \in Seq(Units)
             /\ chans[p][app[p].args.chan].fd = app[p].to
             /\ chans[p][app[p].args.chan].writeid = app[p].pk.src
  <2>1. app[p].args \in [chan : Ids, left : Nat] /\ app[p].pk \in Messages
    BY <1>1, <1>6, PositionIs
  <2>2. app[p].args.chan \in Ids /\ app[p].args.left \in Nat
    BY <2>1
  <2>3. app[p].pk.type = "MESSAGE" /\ app[p].pk.data \in Seq(Units) /\ app[p].pk.src \in Ids
    BY <2>1 DEF Messages
  <2>4. chans[p][app[p].args.chan] = [fd |-> app[p].to, writeid |-> app[p].pk.src]
    BY <1>1, <1>6 DEF ThreadOK
  <2>5. QED
    BY <1>4, <2>2, <2>3, <2>4
<1>7. QED
  BY <1>2, <1>3, <1>5, <1>6

LEMMA StepWriteMessage ==
    ASSUME FifoInv, NEW p \in Procs, PacketWrite(p), app[p].op = "write"
    PROVE  FifoInv'
<1>1. TypeOK /\ app[p].at = "write" /\ \A r \in Procs : InboxOK(r) /\ ThreadOK(r)
  BY DEF FifoInv, PacketWrite
<1>2. PICK q \in Procs : q = app[p].to.proc
  BY <1>1, Writing
<1>3. PICK i \in Ids, n \in Nat, left \in Nat :
         /\ i = app[p].args.chan /\ n = Len(app[p].pk.data) /\ left = app[p].args.left
  BY <1>1, Writing
<1>4. /\ app[p].pk \in Packets /\ app[p].pk.type = "MESSAGE" /\ HasChan(p, i)
      /\ out[p][i] + n + left <= MaxUnits
  BY <1>1, <1>3, Writing DEF ThreadOK
<1>5. out[p][i] \in Nat
  <2>1. out[p][i] \in 0..MaxUnits
    BY <1>1 DEF TypeOK
  <2>2. QED
    BY <2>1, Numbers
<1>6. PICK a : a = IF left = 0 THEN Idle ELSE SendPart(p, i, out[p][i] + n, left)
  OBVIOUS
<1>7. /\ pipe' = [pipe EXCEPT ![q] = Append(@, app[p].pk)] /\ Len(pipe[q]) < PipeCap
      /\ app' = [app EXCEPT ![p] = a] /\ out' = [out EXCEPT ![p][i] = @ + n]
      /\ UNCHANGED <<queue, inode, opens, openCalls, chans, stale, writers, got, nextId>>
  <2>1. /\ pipe' = [pipe EXCEPT ![q] = Append(@, app[p].pk)] /\ Len(pipe[q]) < PipeCap
        /\ Wrote(p) /\ UNCHANGED <<queue, inode, opens, openCalls, stale, got, nextId>>
    BY <1>2 DEF PacketWrite, api
  <2>2. /\ app' = [app EXCEPT ![p] = a] /\ out' = [out EXCEPT ![p][i] = @ + n]
        /\ UNCHANGED <<writers, chans>>
    BY <2>1, <1>3, <1>6 DEF Wrote
  <2>3. QED
    BY <2>1, <2>2
<1>8. /\ a \in Positions /\ Calm(a) /\ ~(a.at = "write" /\ a.op = "connect")
      /\ a.at \in {"idle", "write"}
      /\ a.at = "write" => /\ a.op = "write" /\ a.to = chans[p][i].fd
                           /\ a.pk.src = chans[p][i].writeid /\ a.args.chan = i
                           /\ (out[p][i] + n) + Len(a.pk.data) + a.args.left <= MaxUnits
  <2>1. CASE left = 0
    <3>1. a = Idle
      BY <1>6, <2>1
    <3>2. QED
      BY <3>1, Positioned DEF Idle, Calm
  <2>2. CASE left # 0
    <3>1. out[p][i] + n \in Nat /\ left \in Nat \ {0} /\ (out[p][i] + n) + left <= MaxUnits
      BY <1>4, <1>5, <2>2
    <3>2. a = SendPart(p, i, out[p][i] + n, left)
      BY <1>6, <2>2
    <3>3. PICK from \in Nat : from = out[p][i] + n
      BY <3>1
    <3>4. from + left <= MaxUnits
      BY <3>1, <3>3
    <3>5. PartOK(SendPart(p, i, from, left), p, i, from)
      BY <1>1, <1>4, <3>1, <3>4, PartIs
    <3>6. PartOK(a, p, i, from)
      BY <3>2, <3>3, <3>5
    <3>7. QED
      BY <3>3, <3>6 DEF PartOK, Calm
  <2>3. QED
    BY <2>1, <2>2
<1>9. /\ pipe' \in [Procs -> Seq(Packets)] /\ \A r \in Procs : Len(pipe'[r]) <= PipeCap
      /\ \A r \in Procs : r # q => pipe'[r] = pipe[r]
      /\ Signals(pipe[q])' = Signals(pipe[q]) /\ Distinct(pipe[q])' /\ pipe'[q] # << >>
  BY <1>1, <1>4, <1>7, PipeAppend
<1>10. app'[p] = a /\ \A r \in Procs : r # p => app'[r] = app[r]
  BY <1>1, <1>7, AppSet
<1>11. /\ out' \in [Procs -> [Ids -> 0..MaxUnits]] /\ out'[p][i] = out[p][i] + n
       /\ \A r \in Procs : r # p => out'[r] = out[r]
  <2>1. out \in [Procs -> [Ids -> 0..MaxUnits]]
    BY <1>1 DEF TypeOK
  <2>2. out[p][i] + n \in 0..MaxUnits
    BY <1>4, <1>5, Numbers
  <2>3. QED
    BY <1>7, <2>1, <2>2
<1>12. TypeOK'
  <2>1. app' \in [Procs -> Positions]
    BY <1>1, <1>7, <1>8 DEF TypeOK
  <2>2. QED
    BY <1>1, <1>7, <1>9, <1>11, <2>1 DEF TypeOK
<1>13. RequestsOK' /\ RightsOK' /\ \A r \in Procs : IdsOK(r)' /\ CountOK(r)'
  <2>1. \A r \in Procs : nextId'[r] \in Nat /\ nextId[r] <= nextId'[r]
    <3>1. nextId \in [Procs -> 1..(MaxChan + 1)]
      BY <1>1 DEF TypeOK
    <3>2. \A r \in Procs : nextId[r] \in Nat
      BY <3>1, Numbers
    <3>3. QED
      BY <1>7, <3>2
  <2>2. \A r \in Procs : /\ Signals(pipe[r])' = Signals(pipe[r])
                         /\ Signals(queue[r])' = Signals(queue[r])
    BY <1>7, <1>9
  <2>3. \A fd \in Fds : HasReader(fd) => HasReader(fd)'
    BY <1>7 DEF HasReader
  <2>4. Calm(app[p])
    BY <1>1 DEF Calm
  <2>5. QED
    BY <1>7, <1>8, <1>10, <2>1, <2>2, <2>3, <2>4, Quiet
<1>14. ASSUME NEW r \in Procs PROVE ThreadOK(r)'
  <2>1. Len(queue[r]) \in Nat
    BY <1>1, QueueTypes
  <2>2. CASE r # p
    BY <1>1, <1>7, <1>10, <1>11, <2>1, <2>2, ThreadKept
  <2>3. CASE r = p
    <3>1. chans[p][i] = [fd |-> chans[p][i].fd, writeid |-> chans[p][i].writeid]
      <4>1. chans[p][i] \in Chans
        BY <1>1, <1>4, TypeFacts
      <4>2. QED
        BY <4>1 DEF Chans
    <3>2. QED
      BY <1>7, <1>8, <1>10, <1>11, <2>3, <3>1 DEF ThreadOK
  <2>4. QED
    BY <2>2, <2>3
<1>15. ASSUME NEW r \in Procs PROVE InboxOK(r)'
  <2>1. inode[q] # NoPipe
    <3>1. HasReader(app[p].to) /\ app[p].to \in Fds
      BY <1>1, Writing DEF PacketWrite
    <3>2. QED
      BY <1>2, <3>1 DEF HasReader, Fds
  <2>2. QED
    BY <1>1, <1>7, <1>9, <2>1 DEF InboxOK
<1>16. QED
  BY <1>12, <1>13, <1>14, <1>15 DEF FifoInv

\* As Quiet, for threads that wait.
LEMMA Settled ==
    ASSUME FifoInv, UNCHANGED <<chans, stale, writers, nextId>>,
           \A r \in Procs : /\ Signals(pipe[r])' \subseteq Signals(pipe[r])
                            /\ Pending(r)' = Pending(r),
           \A r \in Procs, k \in Ids : Returned(r, k)' <=> Returned(r, k),
           \A r \in Procs : /\ Awaits(r)' <=> Awaits(r)
                            /\ Awaits(r) => app'[r].src = app[r].src /\ app'[r].args = app[r].args
                            /\ Killed(r)' <=> Killed(r),
           \A r, q \in Procs : Accepting(r, q)' <=> Accepting(r, q),
           \A r \in Procs : app[r].at = "write" \/ app'[r].at = "write" => app'[r] = app[r],
           inode' = inode
    PROVE  RequestsOK' /\ RightsOK' /\ \A r \in Procs : IdsOK(r)' /\ CountOK(r)'
<1>0. TypeOK /\ RequestsOK /\ RightsOK /\ \A r \in Procs : IdsOK(r) /\ CountOK(r)
  BY DEF FifoInv
<1>1. \A r, q \in Procs : Accepting(r, q) => app'[r].pk = app[r].pk /\ app'[r].to = app[r].to
  BY DEF Accepting
<1>2. \A fd \in Fds : HasReader(fd) => HasReader(fd)'
  BY DEF HasReader
<1>3. /\ RequestsOK' /\ RightsOK'
      /\ \A r \in Procs : /\ Accepted(r)' <=> Accepted(r)
                          /\ \A k \in Ids : Held(r, k)' <=> Held(r, k)
  BY <1>0, <1>1, <1>2, Frame
<1>4. ASSUME NEW r \in Procs PROVE IdsOK(r)' /\ CountOK(r)'
  <2>1. nextId'[r] \in Nat /\ nextId[r] <= nextId'[r]
    BY <1>0 DEF TypeOK
  <2>2. \A k \in Ids : (HasChan(r, k)' => HasChan(r, k)) /\ (Held(r, k)' => Held(r, k))
    BY <1>3 DEF HasChan
  <2>3. IdsOK(r)'
    BY <1>0, <1>3, <2>1, <2>2, IdsKept
  <2>4. CountOK(r)'
    BY <1>0, <1>3, SameCount
  <2>5. QED
    BY <2>3, <2>4
<1>5. QED
  BY <1>3, <1>4

LEMMA PipeTail ==
    ASSUME TypeOK, NEW p \in Procs, InboxOK(p), pipe[p] # << >>,
           pipe' = [pipe EXCEPT ![p] = Tail(@)]
    PROVE  /\ pipe' \in [Procs -> Seq(Packets)] /\ \A r \in Procs : Len(pipe'[r]) <= PipeCap
           /\ \A r \in Procs : r # p => pipe'[r] = pipe[r]
           /\ Head(pipe[p]) \in Packets /\ Distinct(pipe[p])'
           /\ Signals(pipe[p])' = Signals(pipe[p]) \ {Head(pipe[p])}
           /\ Head(pipe[p]).type # "MESSAGE" => Head(pipe[p]) \in Signals(pipe[p])
<1>1. pipe \in [Procs -> Seq(Packets)] /\ \A r \in Procs : Len(pipe[r]) <= PipeCap
  BY DEF TypeOK
<1>2. PICK s \in Seq(Packets) : s = pipe[p]
  BY <1>1
<1>3. Distinct(s) /\ s # << >>
  BY <1>2 DEF InboxOK
<1>4. PICK t : t = Tail(s)
  OBVIOUS
<1>5. pipe' = [pipe EXCEPT ![p] = t]
  BY <1>1, <1>2, <1>4
<1>6. /\ t \in Seq(Packets) /\ Len(t) = Len(s) - 1 /\ Head(s) \in Packets
      /\ Signals(t) = Signals(s) \ {Head(s)}
      /\ Head(s).type # "MESSAGE" => Head(s) \in Signals(s)
      /\ Distinct(t)
  BY <1>3, <1>4, SignalsTail
<1>7. pipe'[p] = t /\ \A r \in Procs : r # p => pipe'[r] = pipe[r]
  BY <1>1, <1>5
<1>8. pipe' \in [Procs -> Seq(Packets)]
  BY <1>1, <1>5, <1>6
<1>9. Len(t) <= PipeCap
  <2>1. Len(s) \in Nat /\ PipeCap \in Nat /\ Len(s) <= PipeCap
    BY <1>1, <1>2, FifoAssumption
  <2>2. QED
    BY <1>6, <2>1
<1>10. \A r \in Procs : Len(pipe'[r]) <= PipeCap
  BY <1>1, <1>7, <1>9
<1>11. QED
  BY <1>2, <1>6, <1>7, <1>8, <1>10

LEMMA QueueAppend ==
    ASSUME TypeOK, NEW p \in Procs, InboxOK(p), NEW pk \in Packets, ~IsDisconnect(pk),
           queue' = [queue EXCEPT ![p] = Append(@, pk)]
    PROVE  /\ queue' \in [Procs -> Seq(Packets \ Disconnects)]
           /\ \A r \in Procs : r # p => queue'[r] = queue[r]
           /\ pk.type = "MESSAGE" => Signals(queue[p])' = Signals(queue[p]) /\ Distinct(queue[p])'
           /\ pk.type # "MESSAGE" => Signals(queue[p])' = Signals(queue[p]) \cup {pk}
           /\ pk \notin Signals(queue[p]) => Distinct(queue[p])'
           /\ Len(queue'[p]) = Len(queue[p]) + 1
           /\ \A k \in 1..Len(queue[p]) : queue'[p][k] = queue[p][k]
<1>1. queue \in [Procs -> Seq(Packets \ Disconnects)]
  BY DEF TypeOK
<1>2. PICK s \in Seq(Packets \ Disconnects) : s = queue[p]
  BY <1>1
<1>3. PICK t : t = Append(s, pk)
  OBVIOUS
<1>4. queue' = [queue EXCEPT ![p] = t]
  BY <1>1, <1>2, <1>3
<1>5. pk \in Packets \ Disconnects
  BY DEF IsDisconnect, Disconnects
<1>6. /\ t \in Seq(Packets \ Disconnects) /\ Len(t) = Len(s) + 1
      /\ \A i \in 1..Len(s) : t[i] = s[i]
      /\ pk.type = "MESSAGE" => Signals(t) = Signals(s)
      /\ pk.type # "MESSAGE" => Signals(t) = Signals(s) \cup {pk}
      /\ Distinct(s) /\ pk \notin Signals(s) => Distinct(t)
  BY <1>3, <1>5, SignalsAppend
<1>7. queue'[p] = t /\ \A r \in Procs : r # p => queue'[r] = queue[r]
  BY <1>1, <1>4
<1>8. queue' \in [Procs -> Seq(Packets \ Disconnects)]
  BY <1>1, <1>4, <1>6
<1>9. Distinct(s)
  BY <1>2 DEF InboxOK
<1>10. pk.type = "MESSAGE" => pk \notin Signals(s)
  BY SignalsAre
<1>11. QED
  BY <1>2, <1>6, <1>7, <1>8, <1>9, <1>10

LEMMA QueueRemove ==
    ASSUME TypeOK, NEW p \in Procs, InboxOK(p), NEW m \in 1..Len(queue[p]),
           queue' = [queue EXCEPT ![p] = RemoveAt(queue[p], m)]
    PROVE  /\ queue' \in [Procs -> Seq(Packets \ Disconnects)]
           /\ \A r \in Procs : r # p => queue'[r] = queue[r]
           /\ queue[p][m] \in Packets \ Disconnects /\ Distinct(queue[p])'
           /\ Signals(queue[p])' = Signals(queue[p]) \ {queue[p][m]}
           /\ queue[p][m].type # "MESSAGE" => queue[p][m] \in Signals(queue[p])
<1>1. queue \in [Procs -> Seq(Packets \ Disconnects)]
  BY DEF TypeOK
<1>2. PICK s \in Seq(Packets \ Disconnects) : s = queue[p]
  BY <1>1
<1>3. Distinct(s) /\ m \in 1..Len(s)
  BY <1>2 DEF InboxOK
<1>4. PICK t : t = RemoveAt(s, m)
  OBVIOUS
<1>5. queue' = [queue EXCEPT ![p] = t]
  BY <1>1, <1>2, <1>4
<1>6. /\ t \in Seq(Packets \ Disconnects) /\ s[m] \in Packets \ Disconnects
      /\ Signals(t) = Signals(s) \ {s[m]}
      /\ s[m].type # "MESSAGE" => s[m] \in Signals(s)
      /\ Distinct(t)
  BY <1>3, <1>4, SignalsRemove
<1>7. queue'[p] = t /\ \A r \in Procs : r # p => queue'[r] = queue[r]
  BY <1>1, <1>5
<1>8. queue' \in [Procs -> Seq(Packets \ Disconnects)]
  BY <1>1, <1>5, <1>6
<1>9. QED
  BY <1>2, <1>6, <1>7, <1>8

\* Poll: a packet goes from the pipe to the queue.
LEMMA StepPollKeeps ==
    ASSUME FifoInv, NEW p \in Procs, Poll(p), ~IsDisconnect(Head(pipe[p]))
    PROVE  FifoInv'
<1>1. /\ TypeOK /\ pipe[p] # << >> /\ app[p].at \in {"wait", "drain"}
      /\ \A r \in Procs : InboxOK(r) /\ ThreadOK(r)
  BY DEF FifoInv, Poll
<1>2. PICK pk : pk = Head(pipe[p])
  OBVIOUS
<1>3. /\ pipe' = [pipe EXCEPT ![p] = Tail(@)] /\ queue' = [queue EXCEPT ![p] = Append(@, pk)]
      /\ UNCHANGED <<inode, opens, openCalls, writers, nextId, chans, app, out, got, stale>>
  BY <1>2 DEF Poll, Enqueue, api
<1>4. /\ pipe' \in [Procs -> Seq(Packets)] /\ \A r \in Procs : Len(pipe'[r]) <= PipeCap
      /\ \A r \in Procs : r # p => pipe'[r] = pipe[r]
      /\ pk \in Packets /\ Distinct(pipe[p])'
      /\ Signals(pipe[p])' = Signals(pipe[p]) \ {pk}
      /\ pk.type # "MESSAGE" => pk \in Signals(pipe[p])
  BY <1>1, <1>2, <1>3, PipeTail
<1>5. /\ queue' \in [Procs -> Seq(Packets \ Disconnects)]
      /\ \A r \in Procs : r # p => queue'[r] = queue[r]
      /\ pk.type = "MESSAGE" => Signals(queue[p])' = Signals(queue[p]) /\ Distinct(queue[p])'
      /\ pk.type # "MESSAGE" => Signals(queue[p])' = Signals(queue[p]) \cup {pk}
      /\ pk \notin Signals(queue[p]) => Distinct(queue[p])'
      /\ Len(queue'[p]) = Len(queue[p]) + 1
  BY <1>1, <1>2, <1>3, <1>4, QueueAppend
<1>6. TypeOK'
  BY <1>1, <1>3, <1>4, <1>5 DEF TypeOK
<1>7. Signals(pipe[p]) \cap Signals(queue[p]) = {} /\ inode[p] # NoPipe
  BY <1>1 DEF InboxOK
<1>8. pk.type = "MESSAGE" => pk \notin Signals(pipe[p])
  BY <1>1, QueueTypes, SignalsAre
<1>9. Signals(pipe[p])' \subseteq Signals(pipe[p]) /\ Pending(p)' = Pending(p)
      /\ Signals(pipe[p])' \cap Signals(queue[p])' = {}
  BY <1>4, <1>5, <1>7, <1>8 DEF Pending
<1>10. \A r \in Procs : /\ Signals(pipe[r])' \subseteq Signals(pipe[r])
                        /\ Pending(r)' = Pending(r)
  BY <1>4, <1>5, <1>9 DEF Pending
<1>11. \A r \in Procs, k \in Ids : Returned(r, k)' <=> Returned(r, k)
  <2>1. \A k \in Ids : Packet("DISCONNECT", k, << >>) # pk
    BY <1>2, Packed DEF IsDisconnect
  <2>2. \A k \in Ids : Returned(p, k)' <=> Returned(p, k)
    BY <1>4, <2>1 DEF Returned, Packet
  <2>3. \A r \in Procs, k \in Ids : r # p => (Returned(r, k)' <=> Returned(r, k))
    BY <1>4 DEF Returned, Packet
  <2>4. QED
    BY <2>2, <2>3
<1>12. RequestsOK' /\ RightsOK' /\ \A r \in Procs : IdsOK(r)' /\ CountOK(r)'
  <2>1. /\ \A r \in Procs : (Awaits(r)' <=> Awaits(r)) /\ (Killed(r)' <=> Killed(r))
        /\ \A r, q \in Procs : Accepting(r, q)' <=> Accepting(r, q)
    BY <1>3 DEF Awaits, Killed, Accepting
  <2>2. QED
    BY <1>3, <1>10, <1>11, <2>1, Settled
<1>13. ASSUME NEW r \in Procs PROVE ThreadOK(r)' /\ InboxOK(r)'
  <2>1. Len(queue[r]) \in Nat /\ Len(queue'[r]) \in Nat
    BY <1>1, <1>6, QueueTypes
  <2>2. Len(queue[r]) <= Len(queue'[r])
    BY <1>5, <2>1
  <2>3. ThreadOK(r)'
    BY <1>1, <1>3, <2>1, <2>2, ThreadKept
  <2>4. InboxOK(r)'
    <3>1. CASE r = p
      BY <1>3, <1>4, <1>5, <1>7, <1>9, <3>1 DEF InboxOK
    <3>2. CASE r # p
      BY <1>1, <1>3, <1>4, <1>5, <3>2 DEF InboxOK
    <3>3. QED
      BY <3>1, <3>2
  <2>5. QED
    BY <2>3, <2>4
<1>14. QED
  BY <1>6, <1>12, <1>13 DEF FifoInv

\* Poll: the right that a DISCONNECT gives back is no longer counted.
LEMMA StepPollCounts ==
    ASSUME FifoInv, NEW p \in Procs, Poll(p), IsDisconnect(Head(pipe[p]))
    PROVE  FifoInv'
<1>1. /\ TypeOK /\ RequestsOK /\ RightsOK /\ pipe[p] # << >> /\ app[p].at \in {"wait", "drain"}
      /\ \A r \in Procs : InboxOK(r) /\ ThreadOK(r) /\ IdsOK(r) /\ CountOK(r)
  BY DEF FifoInv, Poll
<1>2. PICK pk : pk = Head(pipe[p])
  OBVIOUS
<1>3. /\ pipe' = [pipe EXCEPT ![p] = Tail(@)] /\ writers' = [writers EXCEPT ![p] = @ - 1]
      /\ UNCHANGED <<inode, opens, openCalls, queue, nextId, chans, app, out, got, stale>>
  BY <1>2 DEF Poll, Enqueue, api
<1>4. /\ pipe' \in [Procs -> Seq(Packets)] /\ \A r \in Procs : Len(pipe'[r]) <= PipeCap
      /\ \A r \in Procs : r # p => pipe'[r] = pipe[r]
      /\ pk \in Packets /\ Distinct(pipe[p])'
      /\ Signals(pipe[p])' = Signals(pipe[p]) \ {pk}
      /\ pk.type # "MESSAGE" => pk \in Signals(pipe[p])
  BY <1>1, <1>2, <1>3, PipeTail
<1>5. writers' \in [Procs -> Int] /\ writers'[p] = writers[p] - 1 /\ writers[p] \in Int
      /\ \A r \in Procs : r # p => writers'[r] = writers[r]
  <2>1. writers \in [Procs -> Int]
    BY <1>1 DEF TypeOK
  <2>2. QED
    BY <1>3, <2>1
<1>6. TypeOK'
  BY <1>1, <1>3, <1>4, <1>5 DEF TypeOK
<1>7. PICK k \in Ids : pk = Packet("DISCONNECT", k, << >>)
  BY <1>2, <1>4, PacketIs DEF IsDisconnect
<1>8. Returned(p, k) /\ ~Returned(p, k)'
  BY <1>4, <1>7, Packed DEF Returned, Packet
<1>9. \A r \in Procs, l \in Ids : r # p \/ l # k => (Returned(r, l)' <=> Returned(r, l))
  <2>1. \A l \in Ids : l # k => Packet("DISCONNECT", l, << >>) # pk
    BY <1>7, PacketsDiffer
  <2>2. \A l \in Ids : l # k => (Returned(p, l)' <=> Returned(p, l))
    BY <1>4, <2>1 DEF Returned, Packet
  <2>3. \A r \in Procs, l \in Ids : r # p => (Returned(r, l)' <=> Returned(r, l))
    BY <1>4 DEF Returned, Packet
  <2>4. QED
    BY <2>2, <2>3
<1>10. \A r \in Procs : \A x : x # pk => (x \in Signals(pipe[r])' <=> x \in Signals(pipe[r]))
                                        /\ (x \in Pending(r)' <=> x \in Pending(r))
  BY <1>3, <1>4 DEF Pending
<1>11. /\ \A r, q \in Procs, i \in Ids : Requested(r, q, i)' => Requested(r, q, i)
       /\ \A r, q \in Procs, i \in Ids : Request(q, i) \in Signals(pipe[r])' =>
              Request(q, i) \in Signals(pipe[r])
       /\ \A r \in Procs, i, l \in Ids : Answered(r, i, l)' <=> Answered(r, i, l)
  <2>1. /\ \A q \in Procs, i \in Ids : Request(q, i) # pk
        /\ \A i, l \in Ids : Packet("ACCEPT", i, l) # pk
    BY <1>7, PacketsDiffer
  <2>2. QED
    BY <1>10, <2>1 DEF Requested, Answered, Request, Packet
<1>12. /\ \A r \in Procs : (Awaits(r)' <=> Awaits(r)) /\ (Killed(r)' <=> Killed(r))
       /\ \A r, q \in Procs : Accepting(r, q)' <=> Accepting(r, q)
       /\ \A fd : (HasReader(fd)' <=> HasReader(fd)) /\ (Served(fd)' <=> Served(fd))
       /\ \A q \in Procs : Through(q)' <=> Through(q)
  BY <1>3 DEF Awaits, Killed, Accepting, HasReader, Served, Through
<1>13. /\ RequestsOK' /\ RightsOK'
       /\ \A r \in Procs : Accepted(r)' <=> Accepted(r)
       /\ \A q, r \in Procs, j, l \in Ids : Granted(q, j, r, l)' <=> Granted(q, j, r, l)
       /\ \A q, r \in Procs, l \in Ids : Promised(q, r, l)' <=> Promised(q, r, l)
  <2>1. \A r \in Procs, l \in Ids : Returned(r, l)' => Returned(r, l)
    BY <1>8, <1>9
  <2>2. \A q \in Procs, j \in Ids : HasChan(q, j) /\ (Served(chans[q][j].fd) \/ <<q, j>> \in stale)
              => Served(chans[q][j].fd)' \/ <<q, j>> \in stale'
    BY <1>3 DEF Served, HasReader
  <2>3. \A r \in Procs : (HasReader(app[r].args) => HasReader(app[r].args)')
                         /\ (HasReader(app[r].to) => HasReader(app[r].to)')
    BY <1>3 DEF HasReader
  <2>4. QED
    BY <1>1, <1>3, <1>11, <1>12, <2>1, <2>2, <2>3, Fewer
<1>14. Held(p, k) /\ ~Held(p, k)'
       /\ \A r \in Procs, l \in Ids : r # p \/ l # k => (Held(r, l)' <=> Held(r, l))
  <2>1. \A r \in Procs, l \in Ids : r # p \/ l # k => (Held(r, l)' <=> Held(r, l))
    BY <1>9, <1>13 DEF Held
  <2>2. Held(p, k) /\ (\A q \in Procs : ~Promised(q, p, k))
        /\ (\A q \in Procs, j \in Ids : ~Granted(q, j, p, k))
    BY <1>1, <1>8 DEF Held, RightsOK
  <2>3. ~Held(p, k)'
    BY <1>8, <1>13, <2>2 DEF Held
  <2>4. QED
    BY <2>1, <2>2, <2>3
<1>15. ASSUME NEW r \in Procs PROVE IdsOK(r)'
  <2>1. nextId'[r] \in Nat /\ nextId[r] <= nextId'[r]
    BY <1>1, <1>3, NextIds
  <2>2. \A l \in Ids : (HasChan(r, l)' => HasChan(r, l)) /\ (Held(r, l)' => Held(r, l))
    BY <1>3, <1>14 DEF HasChan
  <2>3. QED
    BY <1>1, <1>3, <1>12, <1>13, <2>1, <2>2, IdsKept
<1>16. ASSUME NEW r \in Procs PROVE CountOK(r)'
  <2>1. CASE r # p
    <3>1. \A l \in Ids : Held(r, l)' <=> Held(r, l)
      BY <1>14, <2>1
    <3>2. QED
      BY <1>1, <1>5, <1>12, <1>13, <2>1, <3>1, SameCount
  <2>2. CASE r = p
    <3>1. Writers(p)' = Writers(p) \ {k} /\ k \in Writers(p)
      BY <1>14 DEF Writers
    <3>2. IsFiniteSet(Writers(p))
      BY Numbers, FS_Subset DEF Writers
    <3>3. Cardinality(Writers(p)') = Cardinality(Writers(p)) - 1 /\ Cardinality(Writers(p)) \in Nat
      BY <3>1, <3>2, FS_RemoveElement, FS_CardinalityType
    <3>4. ~Killed(p)
      BY <1>1 DEF Killed
    <3>5. writers[p] = Cardinality(Writers(p)) - (IF Accepted(p) THEN 1 ELSE 0)
      BY <1>1, <3>4 DEF CountOK
    <3>6. QED
      BY <1>5, <1>13, <2>2, <3>3, <3>5 DEF CountOK
  <2>3. QED
    BY <2>1, <2>2
<1>17. ASSUME NEW r \in Procs PROVE ThreadOK(r)' /\ InboxOK(r)'
  <2>1. Len(queue[r]) \in Nat
    BY <1>1, QueueTypes
  <2>2. ThreadOK(r)'
    BY <1>1, <1>3, <2>1, ThreadKept
  <2>3. InboxOK(r)'
    <3>1. CASE r = p
      <4>1. inode[p] # NoPipe /\ Signals(pipe[p])' \cap Signals(queue[p]) = {}
        BY <1>1, <1>4 DEF InboxOK
      <4>2. QED
        BY <1>1, <1>3, <1>4, <3>1, <4>1 DEF InboxOK
    <3>2. CASE r # p
      BY <1>1, <1>3, <1>4, <3>2 DEF InboxOK
    <3>3. QED
      BY <3>1, <3>2
  <2>4. QED
    BY <2>2, <2>3
<1>18. QED
  BY <1>6, <1>13, <1>15, <1>16, <1>17 DEF FifoInv

\* PacketRead: nothing new is found.
LEMMA StepLook ==
    ASSUME FifoInv, NEW p \in Procs, app[p].at = "wait",
           app' = [app EXCEPT ![p].seen = Len(queue[p])],
           UNCHANGED <<pipe, inode, opens, openCalls, queue, writers, nextId, chans, out, got, stale>>
    PROVE  FifoInv'
<1>1. TypeOK /\ \A r \in Procs : InboxOK(r) /\ ThreadOK(r)
  BY DEF FifoInv
<1>2. PICK n \in Nat : n = Len(queue[p])
  BY <1>1, QueueTypes
<1>3. PICK a : a = [app[p] EXCEPT !.seen = n]
  OBVIOUS
<1>4. app \in [Procs -> Positions] /\ app[p] \in Positions
  BY <1>1 DEF TypeOK
<1>5. app' = [app EXCEPT ![p] = a]
  BY <1>2, <1>3, <1>4
<1>6. app[p] = [at |-> "wait", op |-> app[p].op, type |-> app[p].type, src |-> app[p].src,
                seen |-> app[p].seen, args |-> app[p].args]
  BY <1>4, PositionIs
<1>7. a = [at |-> "wait", op |-> app[p].op, type |-> app[p].type, src |-> app[p].src,
           seen |-> n, args |-> app[p].args]
  BY <1>3, <1>6
<1>8. /\ a.at = "wait" /\ a.op = app[p].op /\ a.src = app[p].src /\ a.args = app[p].args
      /\ a.seen = n
  BY <1>7
<1>9. a \in Positions
  <2>1. app[p].op \in {"connect", "accept", "read"}
    BY <1>4, PositionIs
  <2>2. CASE app[p].op = "connect"
    BY <1>4, <1>7, <2>2, PositionIs, Positioned
  <2>3. CASE app[p].op = "accept"
    BY <1>4, <1>7, <2>3, PositionIs, Positioned
  <2>4. CASE app[p].op = "read"
    BY <1>4, <1>7, <2>4, PositionIs, Positioned
  <2>5. QED
    BY <2>1, <2>2, <2>3, <2>4
<1>10. TypeOK'
  BY <1>1, <1>5, <1>9, TypeMoves
<1>11. app'[p] = a /\ \A r \in Procs : r # p => app'[r] = app[r]
  BY <1>1, <1>5, AppSet
<1>12. RequestsOK' /\ RightsOK' /\ \A r \in Procs : IdsOK(r)' /\ CountOK(r)'
  <2>1. \A r \in Procs : /\ Awaits(r)' <=> Awaits(r)
                         /\ Awaits(r) => app'[r].src = app[r].src /\ app'[r].args = app[r].args
                         /\ Killed(r)' <=> Killed(r)
    BY <1>8, <1>11 DEF Awaits, Killed
  <2>2. \A r, q \in Procs : Accepting(r, q)' <=> Accepting(r, q)
    BY <1>8, <1>11 DEF Accepting
  <2>3. \A r \in Procs : app[r].at = "write" \/ app'[r].at = "write" => app'[r] = app[r]
    BY <1>8, <1>11
  <2>4. \A r \in Procs, k \in Ids : Returned(r, k)' <=> Returned(r, k)
    BY DEF Returned, Packet
  <2>5. \A r \in Procs : /\ Signals(pipe[r])' \subseteq Signals(pipe[r])
                         /\ Pending(r)' = Pending(r)
    BY DEF Pending
  <2>6. QED
    BY <2>1, <2>2, <2>3, <2>4, <2>5, Settled
<1>13. ASSUME NEW r \in Procs PROVE ThreadOK(r)'
  <2>1. Len(queue[r]) \in Nat
    BY <1>1, QueueTypes
  <2>2. CASE r = p
    BY <1>1, <1>2, <1>8, <1>11, <2>2 DEF ThreadOK
  <2>3. CASE r # p
    BY <1>1, <1>11, <2>1, <2>3, ThreadKept
  <2>4. QED
    BY <2>2, <2>3
<1>14. \A r \in Procs : InboxOK(r)'
  BY <1>1 DEF InboxOK
<1>15. QED
  BY <1>10, <1>12, <1>13, <1>14 DEF FifoInv

\* PacketRead: a message is taken from the queue.
LEMMA StepGotMessage ==
    ASSUME FifoInv, NEW p \in Procs, app[p].at = "wait", NEW m \in 1..Len(queue[p]),
           Match(queue[p][m], app[p].type, app[p].src), GotMessage(p, queue[p][m]),
           queue' = [queue EXCEPT ![p] = RemoveAt(queue[p], m)],
           UNCHANGED <<pipe, inode, opens, openCalls, out, stale>>
    PROVE  FifoInv'
<1>1. TypeOK /\ app[p].op = "read" /\ \A r \in Procs : InboxOK(r) /\ ThreadOK(r)
  BY DEF FifoInv, GotMessage
<1>2. /\ queue' \in [Procs -> Seq(Packets \ Disconnects)]
      /\ \A r \in Procs : r # p => queue'[r] = queue[r]
      /\ queue[p][m] \in Packets \ Disconnects /\ Distinct(queue[p])'
      /\ Signals(queue[p])' = Signals(queue[p]) \ {queue[p][m]}
  BY <1>1, QueueRemove
<1>3. PICK pk \in Packets : pk = queue[p][m]
  BY <1>2
<1>4. app[p] \in Positions /\ app[p].type = "MESSAGE" /\ app[p].src \in Ids /\ app[p].args \in Nat
  <2>1. app[p] \in Positions
    BY <1>1 DEF TypeOK
  <2>2. QED
    BY <1>1, <2>1, PositionIs
<1>5. pk.type = "MESSAGE" /\ pk.data \in Seq(Units)
  BY <1>3, <1>4, PacketIs DEF Match
<1>6. Signals(queue[p])' = Signals(queue[p])
  <2>1. pk \notin Signals(queue[p])
    BY <1>1, <1>5, QueueTypes, SignalsAre
  <2>2. QED
    BY <1>2, <1>3, <2>1
<1>7. PICK left \in Int : left = app[p].args - Len(pk.data)
  BY <1>4, <1>5
<1>8. PICK i \in Ids : i = app[p].src
  BY <1>4
<1>9. PICK a : a = IF left > 0 THEN Wait("read", "MESSAGE", i, left) ELSE Idle
  OBVIOUS
<1>10. /\ got' = [got EXCEPT ![p][i] = @ \o pk.data] /\ app' = [app EXCEPT ![p] = a]
       /\ UNCHANGED <<writers, nextId, chans>>
  BY <1>3, <1>7, <1>8, <1>9 DEF GotMessage
<1>11. /\ a \in Positions /\ Calm(a) /\ a.at \in {"wait", "idle"}
       /\ a.at = "wait" => a.op = "read" /\ a.seen = 0
  BY <1>7, <1>9, Positioned DEF Wait, Calm, Idle
<1>12. got' \in [Procs -> [Ids -> Seq(Units)]]
  <2>1. got \in [Procs -> [Ids -> Seq(Units)]]
    BY <1>1 DEF TypeOK
  <2>2. PICK s \in Seq(Units) : s = got[p][i] \o pk.data
    <3>1. got[p][i] \in Seq(Units)
      BY <2>1
    <3>2. QED
      BY <1>5, <3>1, ConcatProperties
  <2>3. got' = [got EXCEPT ![p][i] = s]
    BY <1>10, <2>1, <2>2
  <2>4. QED
    BY <2>1, <2>2, <2>3
<1>13. TypeOK'
  <2>1. app' \in [Procs -> Positions]
    BY <1>1, <1>10, <1>11 DEF TypeOK
  <2>2. QED
    BY <1>1, <1>2, <1>10, <1>12, <2>1 DEF TypeOK
<1>14. app'[p] = a /\ \A r \in Procs : r # p => app'[r] = app[r]
  BY <1>1, <1>10, AppSet
<1>15. RequestsOK' /\ RightsOK' /\ \A r \in Procs : IdsOK(r)' /\ CountOK(r)'
  <2>1. \A r \in Procs : nextId'[r] \in Nat /\ nextId[r] <= nextId'[r]
    BY <1>1, <1>10, NextIds
  <2>2. \A r \in Procs : /\ Signals(pipe[r])' = Signals(pipe[r])
                         /\ Signals(queue[r])' = Signals(queue[r])
    BY <1>2, <1>6
  <2>3. \A fd \in Fds : HasReader(fd) => HasReader(fd)'
    BY DEF HasReader
  <2>4. Calm(app[p])
    BY <1>1 DEF Calm
  <2>5. app'[p].at # "write" /\ Calm(app'[p])
    BY <1>11, <1>14
  <2>6. QED
    BY <1>10, <1>14, <2>1, <2>2, <2>3, <2>4, <2>5, Quiet
<1>16. ASSUME NEW r \in Procs PROVE ThreadOK(r)' /\ InboxOK(r)'
  <2>1. Len(queue[r]) \in Nat /\ Len(queue'[r]) \in Nat
    BY <1>1, <1>13, QueueTypes
  <2>2. CASE r = p
    <3>1. inode[p] # NoPipe
      BY <1>1 DEF ThreadOK
    <3>2. ThreadOK(p)'
      BY <1>11, <1>14, <2>1, <2>2, <3>1 DEF ThreadOK
    <3>3. InboxOK(p)'
      BY <1>1, <1>2, <1>6 DEF InboxOK
    <3>4. QED
      BY <2>2, <3>2, <3>3
  <2>3. CASE r # p
    <3>1. ThreadOK(r)'
      BY <1>1, <1>2, <1>10, <1>14, <2>1, <2>3, ThreadKept
    <3>2. InboxOK(r)'
      BY <1>1, <1>2, <2>3 DEF InboxOK
    <3>3. QED
      BY <3>1, <3>2
  <2>4. QED
    BY <2>2, <2>3
<1>17. QED
  BY <1>13, <1>15, <1>16 DEF FifoInv

\* Nobody waits for the answer of a thread that is not waiting.
LEMMA NotAwaiting ==
    ASSUME RequestsOK, NEW p \in Procs, ~Awaits(p)
    PROVE  /\ ~Accepted(p) /\ (\A i, k \in Ids : ~Answered(p, i, k))
           /\ \A q \in Procs : ~Accepting(q, p)
           /\ \A r \in Procs, i \in Ids : ~Requested(r, p, i)
  BY DEF RequestsOK, RequestOK, Accepted

\* p no longer reads its pipe.
LEMMA PipeGone ==
    ASSUME FifoInv, NEW p \in Procs, TypeOK',
           inode' = [inode EXCEPT ![p] = NoPipe], pipe' = [pipe EXCEPT ![p] = << >>],
           UNCHANGED <<queue, writers, nextId, chans, out>>,
           ~Awaits(p), \A q \in Procs : ~Accepting(p, q),
           app'[p].at \in {"idle", "killed"}, \A r \in Procs : r # p => app'[r] = app[r],
           \A q \in Procs : Awaits(q) /\ Pressing(q)' /\ Through(q) => Through(q)',
           \A q \in Procs, j \in Ids : HasChan(q, j) /\ (Served(chans[q][j].fd) \/ <<q, j>> \in stale)
              => Served(chans[q][j].fd)' \/ <<q, j>> \in stale'
    PROVE  /\ RequestsOK' /\ RightsOK'
           /\ \A r \in Procs : InboxOK(r)' /\ ThreadOK(r)' /\ IdsOK(r)'
           /\ \A r \in Procs : r # p => CountOK(r)'
           /\ ~Accepted(p)' /\ \A k \in Ids : Held(p, k)' => Held(p, k)
<1>1. /\ TypeOK /\ RequestsOK /\ RightsOK
      /\ \A r \in Procs : InboxOK(r) /\ ThreadOK(r) /\ IdsOK(r) /\ CountOK(r)
  BY DEF FifoInv
<1>2. /\ inode'[p] = NoPipe /\ \A r \in Procs : r # p => inode'[r] = inode[r]
      /\ pipe'[p] = << >> /\ \A r \in Procs : r # p => pipe'[r] = pipe[r]
  BY <1>1 DEF TypeOK
<1>3. Signals(pipe[p])' = {} /\ Distinct(pipe[p])'
  BY <1>2, SignalsOfNone
<1>4. \A r \in Procs : /\ Signals(pipe[r])' \subseteq Signals(pipe[r])
                       /\ Pending(r)' \subseteq Pending(r)
                       /\ r # p => Signals(pipe[r])' = Signals(pipe[r]) /\ Pending(r)' = Pending(r)
  BY <1>2, <1>3 DEF Pending
<1>5. ~Awaits(p)' /\ \A q \in Procs : ~Accepting(p, q)'
  BY DEF Awaits, Accepting
<1>6. \A r \in Procs : /\ Awaits(r)' <=> Awaits(r)
                       /\ Awaits(r) => app'[r].src = app[r].src /\ app'[r].args = app[r].args
                       /\ r # p => (Killed(r)' <=> Killed(r))
  BY <1>5 DEF Awaits, Killed
<1>7. \A r, q \in Procs : /\ Accepting(r, q)' <=> Accepting(r, q)
                          /\ Accepting(r, q) => app'[r].pk = app[r].pk /\ app'[r].to = app[r].to
  BY <1>5 DEF Accepting
<1>8. \A r, q \in Procs, i \in Ids : Requested(r, q, i)' => Requested(r, q, i)
  BY <1>4 DEF Requested, Request, Packet
<1>9. \A r \in Procs, i, k \in Ids : Answered(r, i, k)' <=> Answered(r, i, k)
  <2>1. \A r \in Procs, i, k \in Ids : r # p => (Answered(r, i, k)' <=> Answered(r, i, k))
    BY <1>4 DEF Answered, Packet
  <2>2. \A i, k \in Ids : Answered(p, i, k)' => Answered(p, i, k)
    BY <1>4 DEF Answered, Packet
  <2>3. \A i, k \in Ids : ~Answered(p, i, k)
    BY <1>1, NotAwaiting
  <2>4. QED
    BY <2>1, <2>2, <2>3
<1>10. \A r \in Procs, k \in Ids : /\ Returned(r, k)' => Returned(r, k)
                                   /\ r # p => (Returned(r, k)' <=> Returned(r, k))
  BY <1>4 DEF Returned, Packet
<1>11. \A fd \in Fds : fd.proc # p => (HasReader(fd) => HasReader(fd)')
  BY <1>2, TypeFacts, <1>1 DEF HasReader
<1>12. \A r, q \in Procs, i \in Ids : Request(q, i) \in Signals(pipe[r])' =>
          Request(q, i) \in Signals(pipe[r]) /\ (HasReader(app[q].args) => HasReader(app[q].args)')
  <2>1. SUFFICES ASSUME NEW r \in Procs, NEW q \in Procs, NEW i \in Ids,
                        Request(q, i) \in Signals(pipe[r])'
                 PROVE  /\ Request(q, i) \in Signals(pipe[r])
                        /\ HasReader(app[q].args) => HasReader(app[q].args)'
    BY DEF Request, Packet
  <2>2. Request(q, i) \in Signals(pipe[r]) /\ r # p
    BY <1>3, <1>4, <2>1
  <2>3. Requested(r, q, i)
    BY <2>2 DEF Requested, Pending
  <2>4. Awaits(q) /\ app[q].args.proc = r
    BY <1>1, <2>3 DEF RequestsOK, RequestOK
  <2>5. app[q].args \in Fds /\ app'[q].args = app[q].args
    BY <1>1, <1>6, <2>4, TypeFacts
  <2>6. QED
    BY <1>11, <2>2, <2>4, <2>5 DEF HasReader
<1>13. \A r, q \in Procs : Accepting(r, q) /\ HasReader(app[r].to) => HasReader(app[r].to)'
  <2>1. SUFFICES ASSUME NEW r \in Procs, NEW q \in Procs, Accepting(r, q), HasReader(app[r].to)
                 PROVE  HasReader(app[r].to)'
    OBVIOUS
  <2>2. app[r].to.proc = q /\ q # p
    BY <1>1, <2>1, NotAwaiting DEF Accepting
  <2>3. app[r].to \in Fds /\ app'[r].to = app[r].to
    BY <1>1, <1>7, <2>1, TypeFacts
  <2>4. QED
    BY <1>11, <2>1, <2>2, <2>3 DEF HasReader
<1>14. /\ RequestsOK' /\ RightsOK'
       /\ \A r \in Procs : Accepted(r)' <=> Accepted(r)
       /\ \A q, r \in Procs, j, k \in Ids : Granted(q, j, r, k)' <=> Granted(q, j, r, k)
       /\ \A q, r \in Procs, k \in Ids : Promised(q, r, k)' <=> Promised(q, r, k)
  BY <1>1, <1>6, <1>7, <1>8, <1>9, <1>10, <1>12, <1>13, Fewer
<1>15. \A r \in Procs, k \in Ids : /\ Held(r, k)' => Held(r, k)
                                   /\ r # p => (Held(r, k)' <=> Held(r, k))
  BY <1>10, <1>14 DEF Held
<1>16. ASSUME NEW r \in Procs PROVE IdsOK(r)' /\ ThreadOK(r)' /\ InboxOK(r)'
  <2>1. nextId'[r] \in Nat /\ nextId[r] <= nextId'[r]
    BY <1>1, NextIds
  <2>2. \A k \in Ids : (HasChan(r, k)' => HasChan(r, k)) /\ (Held(r, k)' => Held(r, k))
    BY <1>15 DEF HasChan
  <2>3. app'[r].at = "write" => app'[r] = app[r]
    OBVIOUS
  <2>4. IdsOK(r)'
    BY <1>1, <1>6, <1>14, <2>1, <2>2, <2>3, IdsKept
  <2>5. Len(queue[r]) \in Nat
    BY <1>1, QueueTypes
  <2>6. CASE r = p
    <3>1. ThreadOK(p)'
      BY DEF ThreadOK
    <3>2. InboxOK(p)'
      BY <1>1, <1>2, <1>3 DEF InboxOK
    <3>3. QED
      BY <2>4, <2>6, <3>1, <3>2
  <2>7. CASE r # p
    <3>1. ThreadOK(r)'
      BY <1>1, <1>2, <2>5, <2>7, ThreadKept
    <3>2. InboxOK(r)'
      BY <1>1, <1>2, <2>7 DEF InboxOK
    <3>3. QED
      BY <2>4, <3>1, <3>2
  <2>8. QED
    BY <2>6, <2>7
<1>17. ASSUME NEW r \in Procs, r # p PROVE CountOK(r)'
  BY <1>1, <1>6, <1>14, <1>15, <1>17, SameCount
<1>18. ~Accepted(p)'
  BY <1>1, <1>14, NotAwaiting
<1>19. QED
  BY <1>14, <1>15, <1>16, <1>17, <1>18

LEMMA StepBrokenPipe ==
    ASSUME FifoInv, NEW p \in Procs, BrokenPipe(p)
    PROVE  FifoInv'
<1>1. TypeOK /\ RequestsOK /\ app[p].at = "write" /\ ~HasReader(app[p].to)
  BY DEF FifoInv, BrokenPipe
<1>2. ~Awaits(p) /\ \A q \in Procs : ~Accepting(p, q)
  BY <1>1 DEF Awaits, RequestsOK, RequestOK
<1>3. PICK a : a = [at |-> "killed"]
  OBVIOUS
<1>4. /\ app' = [app EXCEPT ![p] = a] /\ inode' = [inode EXCEPT ![p] = NoPipe]
      /\ pipe' = [pipe EXCEPT ![p] = << >>]
      /\ UNCHANGED <<opens, openCalls, queue, writers, nextId, chans, out, got, stale>>
  BY <1>3 DEF BrokenPipe
<1>5. a \in Positions /\ a.at = "killed"
  BY <1>3, Positioned
<1>6. app'[p] = a /\ \A r \in Procs : r # p => app'[r] = app[r]
  BY <1>1, <1>4, AppSet
<1>7. /\ inode' \in [Procs -> Nat] /\ pipe' \in [Procs -> Seq(Packets)]
      /\ \A r \in Procs : inode'[r] <= openCalls[r] /\ Len(pipe'[r]) <= PipeCap
  <2>1. /\ inode \in [Procs -> Nat] /\ pipe \in [Procs -> Seq(Packets)]
        /\ openCalls \in [Procs -> Nat] /\ PipeCap \in Nat
        /\ \A r \in Procs : inode[r] <= openCalls[r] /\ Len(pipe[r]) <= PipeCap
    BY <1>1, FifoAssumption DEF TypeOK
  <2>2. << >> \in Seq(Packets) /\ Len(<< >>) = 0
    OBVIOUS
  <2>3. QED
    BY <1>4, <2>1, <2>2 DEF NoPipe
<1>8. TypeOK'
  <2>1. app' \in [Procs -> Positions]
    BY <1>1, <1>4, <1>5 DEF TypeOK
  <2>2. QED
    BY <1>1, <1>4, <1>7, <2>1 DEF TypeOK
<1>9. \A r \in Procs : r # p => inode'[r] = inode[r]
  BY <1>1, <1>4 DEF TypeOK
<1>10. \A fd \in Fds : Served(fd) => Served(fd)'
  BY <1>1, <1>5, <1>6, <1>9, TypeFacts DEF Served, HasReader
<1>11. \A q \in Procs : Awaits(q) /\ Through(q) => Through(q)'
  <2>1. SUFFICES ASSUME NEW q \in Procs, Awaits(q), Through(q) PROVE Through(q)'
    OBVIOUS
  <2>2. app'[q] = app[q] /\ app[q].args \in Fds
    BY <1>1, <1>2, <1>6, <2>1, TypeFacts
  <2>3. QED
    BY <1>4, <1>10, <2>1, <2>2 DEF Through, Served, HasReader
<1>12. \A q \in Procs, j \in Ids : HasChan(q, j) /\ (Served(chans[q][j].fd) \/ <<q, j>> \in stale)
              => Served(chans[q][j].fd)' \/ <<q, j>> \in stale'
  <2>1. SUFFICES ASSUME NEW q \in Procs, NEW j \in Ids, HasChan(q, j), Served(chans[q][j].fd)
                 PROVE  Served(chans[q][j].fd)'
    BY <1>4
  <2>2. PICK fd \in Fds : fd = chans[q][j].fd
    BY <1>1, <2>1, TypeFacts
  <2>3. Served(fd)'
    BY <1>10, <2>1, <2>2
  <2>4. QED
    BY <1>4, <2>2, <2>3 DEF Served, HasReader
<1>13. /\ RequestsOK' /\ RightsOK'
       /\ \A r \in Procs : InboxOK(r)' /\ ThreadOK(r)' /\ IdsOK(r)'
       /\ \A r \in Procs : r # p => CountOK(r)'
  BY <1>2, <1>4, <1>5, <1>6, <1>8, <1>11, <1>12, PipeGone
<1>14. CountOK(p)'
  BY <1>5, <1>6 DEF CountOK, Killed
<1>15. QED
  BY <1>8, <1>13, <1>14 DEF FifoInv

\* The last close: when no writer is counted, nobody has a right to write.
LEMMA StepCloseDone ==
    ASSUME FifoInv, NEW p \in Procs, CloseDone(p)
    PROVE  FifoInv'
<1>1. TypeOK /\ RequestsOK /\ RightsOK /\ CountOK(p) /\ app[p].at = "close" /\ writers[p] <= 0
  BY DEF FifoInv, CloseDone, WritersGone
<1>2. ~Awaits(p) /\ ~Killed(p) /\ \A q \in Procs : ~Accepting(p, q)
  BY <1>1 DEF Awaits, Accepting, Killed
<1>3. /\ app' = [app EXCEPT ![p] = Idle] /\ inode' = [inode EXCEPT ![p] = NoPipe]
      /\ pipe' = [pipe EXCEPT ![p] = << >>]
      /\ stale' = stale \cup {<<pk.data.proc, pk.data.id>> :
                                pk \in {pk \in Range(queue[p]) : pk.type = "CONNECT"}}
      /\ UNCHANGED <<opens, openCalls, queue, writers, nextId, chans, out, got>>
  BY DEF CloseDone
<1>4. Idle \in Positions /\ Idle.at = "idle"
  BY Positioned DEF Idle
<1>5. app'[p] = Idle /\ \A r \in Procs : r # p => app'[r] = app[r]
  BY <1>1, <1>3, AppSet
<1>6. \A k \in Ids : ~Held(p, k)
  <2>1. writers[p] = Cardinality(Writers(p))
    <3>1. ~Accepted(p)
      BY <1>1, <1>2, NotAwaiting
    <3>2. IsFiniteSet(Writers(p))
      BY Numbers, FS_Subset DEF Writers
    <3>3. Cardinality(Writers(p)) \in Nat
      BY <3>2, FS_CardinalityType
    <3>4. writers[p] = Cardinality(Writers(p)) - 0
      BY <1>1, <1>2, <3>1 DEF CountOK
    <3>5. QED
      BY <3>3, <3>4
  <2>2. IsFiniteSet(Writers(p))
    BY Numbers, FS_Subset DEF Writers
  <2>3. Cardinality(Writers(p)) = 0
    <3>1. Cardinality(Writers(p)) \in Nat
      BY <2>2, FS_CardinalityType
    <3>2. QED
      BY <1>1, <2>1, <3>1
  <2>4. Writers(p) = {}
    BY <2>2, <2>3, FS_EmptySet
  <2>5. QED
    BY <2>4 DEF Writers
<1>7. \A q \in Procs, i \in Ids : Request(q, i) \in Signals(queue[p]) => <<q, i>> \in stale'
  <2>1. SUFFICES ASSUME NEW q \in Procs, NEW i \in Ids, Request(q, i) \in Signals(queue[p])
                 PROVE  <<q, i>> \in stale'
    OBVIOUS
  <2>2. PICK pk : pk = Request(q, i)
    OBVIOUS
  <2>3. pk \in Range(queue[p]) /\ pk.type = "CONNECT" /\ pk.data.proc = q /\ pk.data.id = i
    <3>1. pk \in Range(queue[p])
      BY <2>1, <2>2 DEF Signals
    <3>2. pk.type = "CONNECT" /\ pk.data = [proc |-> q, id |-> i]
      BY <2>2, Packed
    <3>3. QED
      BY <3>1, <3>2
  <2>4. QED
    BY <1>3, <2>3
<1>8. stale' \subseteq Procs \X Ids
  <2>1. \A pk \in Range(queue[p]) : pk \in Packets
    <3>1. queue[p] \in Seq(Packets)
      BY <1>1, QueueTypes
    <3>2. QED
      BY <3>1 DEF Range
  <2>2. \A pk \in Range(queue[p]) : pk.type = "CONNECT" =>
           pk.data.proc \in Procs /\ pk.data.id \in Ids
    BY <2>1, PacketIs
  <2>3. stale \subseteq Procs \X Ids
    BY <1>1 DEF TypeOK
  <2>4. QED
    BY <1>3, <2>2, <2>3
<1>9. /\ inode' \in [Procs -> Nat] /\ pipe' \in [Procs -> Seq(Packets)]
      /\ \A r \in Procs : inode'[r] <= openCalls[r] /\ Len(pipe'[r]) <= PipeCap
  <2>1. /\ inode \in [Procs -> Nat] /\ pipe \in [Procs -> Seq(Packets)]
        /\ openCalls \in [Procs -> Nat] /\ PipeCap \in Nat
        /\ \A r \in Procs : inode[r] <= openCalls[r] /\ Len(pipe[r]) <= PipeCap
    BY <1>1, FifoAssumption DEF TypeOK
  <2>2. << >> \in Seq(Packets) /\ Len(<< >>) = 0
    OBVIOUS
  <2>3. QED
    BY <1>3, <2>1, <2>2 DEF NoPipe
<1>10. TypeOK'
  <2>1. app' \in [Procs -> Positions]
    BY <1>1, <1>3, <1>4 DEF TypeOK
  <2>2. QED
    BY <1>1, <1>3, <1>8, <1>9, <2>1 DEF TypeOK
<1>11. \A fd \in Fds : fd.proc # p /\ Served(fd) => Served(fd)'
  <2>1. \A r \in Procs : r # p => inode'[r] = inode[r]
    BY <1>1, <1>3 DEF TypeOK
  <2>2. QED
    BY <1>1, <1>5, <2>1, TypeFacts DEF Served, HasReader
<1>12. ASSUME NEW q \in Procs, Awaits(q), Pressing(q)', Through(q) PROVE Through(q)'
  <2>1. app'[q] = app[q] /\ app[q].args \in Fds /\ app[q].src \in Ids /\ app[q].args.proc \in Procs
    BY <1>1, <1>2, <1>5, <1>12, TypeFacts
  <2>2. CASE app[q].args.proc # p
    BY <1>3, <1>11, <1>12, <2>1, <2>2 DEF Through, Served, HasReader
  <2>3. CASE app[q].args.proc = p
    <3>1. ~Accepted(q)
      <4>1. ASSUME NEW i \in Ids, NEW k \in Ids, Answered(q, i, k) PROVE FALSE
        BY <1>6, <1>12, <2>3, <4>1 DEF Held, Promised
      <4>2. QED
        BY <4>1 DEF Accepted
    <3>2. \A r \in Procs : /\ Signals(pipe[r])' \subseteq Signals(pipe[r])
                           /\ Pending(r)' \subseteq Pending(r)
      <4>1. pipe'[p] = << >> /\ \A r \in Procs : r # p => pipe'[r] = pipe[r]
        BY <1>1, <1>3 DEF TypeOK
      <4>2. QED
        BY <1>3, <4>1, SignalsOfNone DEF Pending
    <3>3. ~Accepted(q)'
      BY <3>1, <3>2 DEF Accepted, Answered, Packet
    <3>4. \A r \in Procs : ~Accepting(r, q)'
      <4>1. \A r \in Procs : ~Accepting(r, q)
        BY <1>1, <1>2, <2>3 DEF RequestsOK, RequestOK
      <4>2. QED
        BY <1>4, <1>5, <4>1 DEF Accepting
    <3>5. PICK r \in Procs, i \in Ids : Requested(r, q, i)'
      BY <1>12, <3>3, <3>4 DEF Pressing
    <3>6. Request(q, i) \in Pending(r)'
      BY <3>5 DEF Requested, Request, Packet
    <3>7. Requested(r, q, i)
      BY <3>2, <3>6 DEF Requested
    <3>8. app[q].args.proc = r /\ app[q].src = i
      BY <1>1, <3>7 DEF RequestsOK, RequestOK
    <3>9. Pending(p)' = Signals(queue[p])
      <4>1. pipe'[p] = << >>
        BY <1>1, <1>3 DEF TypeOK
      <4>2. QED
        BY <1>3, <4>1, SignalsOfNone DEF Pending
    <3>10. <<q, i>> \in stale'
      BY <1>7, <2>3, <3>6, <3>8, <3>9
    <3>11. QED
      BY <2>1, <3>8, <3>10 DEF Through
  <2>4. QED
    BY <2>2, <2>3
<1>13. ASSUME NEW q \in Procs, NEW j \in Ids, HasChan(q, j),
              Served(chans[q][j].fd) \/ <<q, j>> \in stale
       PROVE  Served(chans[q][j].fd)' \/ <<q, j>> \in stale'
  <2>1. PICK fd \in Fds, k \in Ids : fd = chans[q][j].fd /\ k = chans[q][j].writeid
    BY <1>1, <1>13, TypeFacts DEF Chans
  <2>2. fd.proc \in Procs
    BY <1>1, TypeFacts
  <2>3. Granted(q, j, fd.proc, k)
    BY <1>13, <2>1 DEF Granted
  <2>4. fd.proc # p
    BY <1>6, <2>3 DEF Held
  <2>5. Served(fd) => Served(fd)'
    BY <1>11, <2>4
  <2>6. Served(chans[q][j].fd)' <=> Served(fd)'
    BY <1>3, <2>1 DEF Served, HasReader
  <2>7. QED
    BY <1>3, <1>13, <2>1, <2>5, <2>6
<1>14. /\ RequestsOK' /\ RightsOK'
       /\ \A r \in Procs : InboxOK(r)' /\ ThreadOK(r)' /\ IdsOK(r)'
       /\ \A r \in Procs : r # p => CountOK(r)'
       /\ ~Accepted(p)' /\ \A k \in Ids : Held(p, k)' => Held(p, k)
  BY <1>2, <1>3, <1>4, <1>5, <1>10, <1>12, <1>13, PipeGone
<1>15. CountOK(p)'
  <2>1. Writers(p)' = Writers(p)
    BY <1>6, <1>14 DEF Writers
  <2>2. ~Accepted(p)
    BY <1>1, <1>2, NotAwaiting
  <2>3. QED
    BY <1>1, <1>2, <1>3, <1>14, <2>1, <2>2 DEF CountOK
<1>16. QED
  BY <1>10, <1>14, <1>15 DEF FifoInv

\* A signal is written to the pipe of q.
LEMMA SignalSent ==
    ASSUME TypeOK, NEW q \in Procs, \A r \in Procs : InboxOK(r), NEW pk \in Packets,
           pk.type # "MESSAGE", pk \notin Pending(q), Len(pipe[q]) < PipeCap, inode[q] # NoPipe,
           pipe' = [pipe EXCEPT ![q] = Append(@, pk)], queue' = queue, inode' = inode
    PROVE  /\ pipe' \in [Procs -> Seq(Packets)] /\ \A r \in Procs : Len(pipe'[r]) <= PipeCap
           /\ \A r \in Procs : InboxOK(r)'
           /\ \A r \in Procs : \A x : x \in Signals(pipe[r])' <=>
                                         x \in Signals(pipe[r]) \/ (r = q /\ x = pk)
           /\ \A r \in Procs : \A x : x \in Pending(r)' <=> x \in Pending(r) \/ (r = q /\ x = pk)
<1>1. /\ pipe' \in [Procs -> Seq(Packets)] /\ \A r \in Procs : Len(pipe'[r]) <= PipeCap
      /\ \A r \in Procs : r # q => pipe'[r] = pipe[r]
      /\ Signals(pipe[q])' = Signals(pipe[q]) \cup {pk}
      /\ pk \notin Signals(pipe[q]) => Distinct(pipe[q])'
  BY PipeAppend
<1>2. pk \notin Signals(pipe[q]) /\ pk \notin Signals(queue[q])
  BY DEF Pending
<1>3. \A r \in Procs : \A x : x \in Signals(pipe[r])' <=>
                                x \in Signals(pipe[r]) \/ (r = q /\ x = pk)
  BY <1>1
<1>4. \A r \in Procs : \A x : x \in Pending(r)' <=> x \in Pending(r) \/ (r = q /\ x = pk)
  BY <1>3 DEF Pending
<1>5. ASSUME NEW r \in Procs PROVE InboxOK(r)'
  <2>1. CASE r = q
    BY <1>1, <1>2, <2>1 DEF InboxOK
  <2>2. CASE r # q
    BY <1>1, <2>2 DEF InboxOK
  <2>3. QED
    BY <2>1, <2>2
<1>6. QED
  BY <1>1, <1>3, <1>4, <1>5

\* What a write that goes through changes.
LEMMA WriteIs ==
    ASSUME FifoInv, NEW p \in Procs, PacketWrite(p)
    PROVE  /\ app[p].at = "write" /\ HasReader(app[p].to) /\ app[p].to \in Fds
           /\ app[p].to.proc \in Procs /\ inode[app[p].to.proc] # NoPipe
           /\ Len(pipe[app[p].to.proc]) < PipeCap
           /\ pipe' = [pipe EXCEPT ![app[p].to.proc] = Append(@, app[p].pk)]
           /\ Wrote(p)
           /\ UNCHANGED <<inode, opens, openCalls, queue, nextId, got, stale>>
<1>1. /\ app[p].at = "write" /\ HasReader(app[p].to) /\ Len(pipe[app[p].to.proc]) < PipeCap
      /\ pipe' = [pipe EXCEPT ![app[p].to.proc] = Append(@, app[p].pk)]
      /\ Wrote(p)
      /\ UNCHANGED <<inode, opens, openCalls, queue, nextId, got, stale>>
  BY DEF PacketWrite, api
<1>2. app[p].to \in Fds /\ app[p].to.proc \in Procs
  BY <1>1, Writing
<1>3. QED
  BY <1>1, <1>2 DEF HasReader, Fds

\* PacketWrite: the request is under way, and connect waits for the answer.
LEMMA StepWriteConnect ==
    ASSUME FifoInv, NEW p \in Procs, PacketWrite(p), app[p].op = "connect"
    PROVE  FifoInv'
<1>1. /\ TypeOK /\ RequestsOK /\ RightsOK
      /\ \A r \in Procs : InboxOK(r) /\ ThreadOK(r) /\ IdsOK(r) /\ CountOK(r)
  BY DEF FifoInv
<1>2. PICK fd \in Fds, q \in Procs : fd = app[p].to /\ q = fd.proc
  BY WriteIs
<1>3. PICK i \in Ids : i = app[p].args
  <2>1. app[p] \in Positions /\ app[p].at = "write"
    BY <1>1, WriteIs DEF TypeOK
  <2>2. QED
    BY <2>1, PositionIs
<1>4. PICK a : a = [at |-> "wait", op |-> "connect", type |-> "ACCEPT", src |-> i, seen |-> 0,
                    args |-> fd]
  OBVIOUS
<1>5. /\ app[p].at = "write" /\ HasReader(fd) /\ inode[q] # NoPipe /\ Len(pipe[q]) < PipeCap
      /\ pipe' = [pipe EXCEPT ![q] = Append(@, app[p].pk)] /\ app' = [app EXCEPT ![p] = a]
      /\ UNCHANGED <<inode, opens, openCalls, queue, nextId, got, stale, writers, chans, out>>
  <2>1. Wrote(p)
    BY WriteIs
  <2>2. app' = [app EXCEPT ![p] = a] /\ UNCHANGED <<writers, chans, out>>
    BY <1>2, <1>3, <1>4, <2>1 DEF Wrote, Wait
  <2>3. QED
    BY <1>2, <2>2, WriteIs
<1>6. app[p].pk = Request(p, i) /\ inode[p] # NoPipe
  BY <1>1, <1>3, <1>5 DEF ThreadOK
<1>7. /\ a \in Positions /\ a.at = "wait" /\ a.op = "connect" /\ a.src = i /\ a.args = fd
      /\ a.seen = 0
  BY <1>4, Positioned
<1>8. app'[p] = a /\ \A r \in Procs : r # p => app'[r] = app[r]
  BY <1>1, <1>5, AppSet
<1>9. ~Awaits(p) /\ Awaits(p)' /\ \A s \in Procs : ~Accepting(p, s) /\ ~Accepting(p, s)'
  BY <1>5, <1>7, <1>8 DEF Awaits, Accepting
<1>10. /\ ~Accepted(p) /\ (\A j, k \in Ids : ~Answered(p, j, k))
       /\ \A s \in Procs : ~Accepting(s, p)
       /\ \A r \in Procs, j \in Ids : ~Requested(r, p, j)
  BY <1>1, <1>9, NotAwaiting
<1>11. /\ Request(p, i) \in Packets /\ Request(p, i).type # "MESSAGE"
       /\ Request(p, i) \notin Pending(q)
  BY <1>10, Packed DEF Requested
<1>12. /\ pipe' \in [Procs -> Seq(Packets)] /\ \A r \in Procs : Len(pipe'[r]) <= PipeCap
       /\ \A r \in Procs : InboxOK(r)'
       /\ \A r \in Procs : \A x : x \in Signals(pipe[r])' <=>
                                     x \in Signals(pipe[r]) \/ (r = q /\ x = Request(p, i))
       /\ \A r \in Procs : \A x : x \in Pending(r)' <=>
                                     x \in Pending(r) \/ (r = q /\ x = Request(p, i))
  BY <1>1, <1>5, <1>6, <1>11, SignalSent
<1>13. TypeOK'
  <2>1. app' \in [Procs -> Positions]
    BY <1>1, <1>5, <1>7 DEF TypeOK
  <2>2. QED
    BY <1>1, <1>5, <1>12, <2>1 DEF TypeOK
<1>14. \A r, s \in Procs, j \in Ids :
          Requested(r, s, j)' <=> Requested(r, s, j) \/ (r = q /\ s = p /\ j = i)
  BY <1>12, PacketsDiffer DEF Requested, Request, Packet
<1>15. /\ \A r \in Procs, j, k \in Ids : Answered(r, j, k)' <=> Answered(r, j, k)
       /\ \A r \in Procs, k \in Ids : Returned(r, k)' <=> Returned(r, k)
  <2>1. /\ \A j, k \in Ids : Packet("ACCEPT", j, k) # Request(p, i)
        /\ \A k \in Ids : Packet("DISCONNECT", k, << >>) # Request(p, i)
    BY PacketsDiffer
  <2>2. \A r \in Procs, j, k \in Ids : Answered(r, j, k)' <=> Answered(r, j, k)
    BY <1>12, <2>1 DEF Answered, Packet
  <2>3. \A r \in Procs, k \in Ids : Returned(r, k)' <=> Returned(r, k)
    BY <1>12, <2>1 DEF Returned, Packet
  <2>4. QED
    BY <2>2, <2>3
<1>16. \A r \in Procs : Accepted(r)' <=> Accepted(r)
  BY <1>15 DEF Accepted
<1>17. \A r, s \in Procs, j, k \in Ids : Granted(r, j, s, k)' <=> Granted(r, j, s, k)
  BY <1>5 DEF Granted, HasChan
<1>18. \A r, s \in Procs, k \in Ids : Promised(r, s, k)' <=> Promised(r, s, k)
  <2>1. \A r, s \in Procs, k \in Ids : r # p => (Promised(r, s, k)' <=> Promised(r, s, k))
    BY <1>8, <1>15 DEF Promised, Awaits
  <2>2. \A s \in Procs, k \in Ids : ~Promised(p, s, k) /\ ~Promised(p, s, k)'
    BY <1>10, <1>15 DEF Promised
  <2>3. QED
    BY <2>1, <2>2
<1>19. \A r \in Procs, k \in Ids : Held(r, k)' <=> Held(r, k)
  BY <1>15, <1>17, <1>18 DEF Held
<1>20. \A f \in Fds : (HasReader(f)' <=> HasReader(f)) /\ (Served(f)' <=> Served(f))
  <2>1. \A r \in Procs : Killed(r)' <=> Killed(r)
    BY <1>5, <1>7, <1>8 DEF Killed
  <2>2. QED
    BY <1>1, <1>5, <2>1, TypeFacts DEF HasReader, Served, Killed
<1>21. RequestsOK'
  <2>1. ASSUME NEW r \in Procs, NEW s \in Procs, s # p PROVE RequestOK(r, s)'
    <3>1. RequestOK(r, s)
      BY <1>1 DEF RequestsOK
    <3>2. app'[s] = app[s] /\ (Awaits(s)' <=> Awaits(s))
      BY <1>8, <2>1 DEF Awaits
    <3>3. Accepting(r, s)' <=> Accepting(r, s)
      BY <1>8, <1>9 DEF Accepting
    <3>4. Accepting(r, s) => app'[r].pk = app[r].pk /\ app'[r].to = app[r].to
      BY <1>8, <1>9
    <3>5. \A j \in Ids : Requested(r, s, j)' => Requested(r, s, j)
      BY <1>14, <2>1
    <3>6. HasReader(app[s].args)' <=> HasReader(app[s].args)
      BY <1>5, <3>2 DEF HasReader
    <3>7. \A j \in Ids : Request(s, j) \in Signals(pipe[r])' => Request(s, j) \in Signals(pipe[r])
      BY <1>12, <2>1, PacketsDiffer DEF Request, Packet
    <3>8. Accepting(r, s) /\ HasReader(app[r].to) => HasReader(app[r].to)'
      BY <1>5, <3>4 DEF HasReader
    <3>9. Awaits(s) /\ Through(s) => Through(s)'
      <4>1. SUFFICES ASSUME Awaits(s), Through(s) PROVE Through(s)'
        OBVIOUS
      <4>2. app[s].args \in Fds
        BY <1>1, <4>1, TypeFacts
      <4>3. Served(app[s].args) => Served(app[s].args)'
        BY <1>20, <3>2, <4>2 DEF Served, HasReader
      <4>4. QED
        BY <1>5, <3>2, <4>1, <4>3 DEF Through
    <3>10. QED
      BY <1>15, <3>1, <3>2, <3>3, <3>4, <3>5, <3>6, <3>7, <3>8, <3>9, RequestKept
  <2>2. ASSUME NEW r \in Procs PROVE RequestOK(r, p)'
    <3>1. ~Accepting(r, p)' /\ ~Accepted(p)' /\ \A j, k \in Ids : ~Answered(p, j, k)'
      BY <1>8, <1>9, <1>10, <1>15, <1>16 DEF Accepting
    <3>2. Served(fd)
      BY <1>5 DEF Served
    <3>3. Served(app[p].args)' /\ HasReader(app[p].args)'
      BY <1>5, <1>7, <1>8, <1>20, <3>2 DEF Served, HasReader
    <3>4. \A j \in Ids : Requested(r, p, j)' => j = i /\ r = q
      BY <1>10, <1>14
    <3>5. app'[p].src = i /\ app'[p].args.proc = q
      BY <1>2, <1>7, <1>8
    <3>6. Through(p)'
      BY <3>3 DEF Through
    <3>7. QED
      BY <1>9, <3>1, <3>3, <3>4, <3>5, <3>6 DEF RequestOK
  <2>3. QED
    BY <2>1, <2>2 DEF RequestsOK
<1>22. RightsOK'
  <2>1. \A r \in Procs, j \in Ids : HasChan(r, j) => (Served(chans[r][j].fd)' <=> Served(chans[r][j].fd))
    <3>1. SUFFICES ASSUME NEW r \in Procs, NEW j \in Ids, HasChan(r, j)
                   PROVE  Served(chans[r][j].fd)' <=> Served(chans[r][j].fd)
      OBVIOUS
    <3>2. chans[r][j].fd \in Fds
      BY <1>1, <3>1, TypeFacts
    <3>3. QED
      BY <1>5, <1>20, <3>2 DEF Served, HasReader
  <2>2. \A r, s \in Procs, j, k \in Ids : Granted(r, j, s, k) => HasChan(r, j)
    BY DEF Granted
  <2>3. QED
    BY <1>1, <1>5, <1>15, <1>17, <1>18, <2>1, <2>2 DEF RightsOK
<1>23. ASSUME NEW r \in Procs PROVE IdsOK(r)'
  <2>1. nextId'[r] \in Nat /\ nextId[r] <= nextId'[r]
    BY <1>1, <1>5, NextIds
  <2>2. \A k \in Ids : (HasChan(r, k)' <=> HasChan(r, k)) /\ (Held(r, k)' <=> Held(r, k))
    BY <1>5, <1>19 DEF HasChan
  <2>3. CASE r # p
    <3>1. app'[r] = app[r] /\ (Awaits(r)' <=> Awaits(r))
      BY <1>8, <2>3 DEF Awaits
    <3>2. QED
      BY <1>1, <1>16, <2>1, <2>2, <3>1, IdsKept
  <2>4. CASE r = p
    <3>1. /\ \A k \in Ids : InUse(p, k) => k < nextId[p]
          /\ fd.proc # p /\ i < nextId[p] /\ ~InUse(p, i)
      BY <1>1, <1>2, <1>3, <1>5 DEF IdsOK
    <3>2. ~HasChan(p, i)' /\ ~Held(p, i)' /\ \A k \in Ids : InUse(p, k)' => k < nextId'[p]
      BY <1>5, <2>2, <2>4, <3>1 DEF InUse
    <3>3. QED
      BY <1>5, <1>7, <1>8, <2>4, <3>1, <3>2 DEF IdsOK
  <2>5. QED
    BY <2>3, <2>4
<1>24. ASSUME NEW r \in Procs PROVE CountOK(r)'
  <2>1. Killed(r)' <=> Killed(r)
    BY <1>5, <1>7, <1>8 DEF Killed
  <2>2. QED
    BY <1>1, <1>5, <1>16, <1>19, <2>1, SameCount
<1>25. ASSUME NEW r \in Procs PROVE ThreadOK(r)'
  <2>1. Len(queue[r]) \in Nat
    BY <1>1, QueueTypes
  <2>2. CASE r = p
    BY <1>5, <1>6, <1>7, <1>8, <2>1, <2>2 DEF ThreadOK
  <2>3. CASE r # p
    BY <1>1, <1>5, <1>8, <2>1, <2>3, ThreadKept
  <2>4. QED
    BY <2>2, <2>3
<1>26. QED
  BY <1>12, <1>13, <1>21, <1>22, <1>23, <1>24, <1>25 DEF FifoInv

\* PacketWrite: the right to write goes back with the DISCONNECT.
LEMMA StepWriteDisconnect ==
    ASSUME FifoInv, NEW p \in Procs, PacketWrite(p), app[p].op = "disconnect"
    PROVE  FifoInv'
<1>1. /\ TypeOK /\ RequestsOK /\ RightsOK
      /\ \A r \in Procs : InboxOK(r) /\ ThreadOK(r) /\ IdsOK(r) /\ CountOK(r)
  BY DEF FifoInv
<1>2. PICK q \in Procs : q = app[p].to.proc
  BY WriteIs
<1>3. PICK i \in Ids, k \in Ids :
         /\ i = app[p].args /\ HasChan(p, i) /\ app[p].pk = Packet("DISCONNECT", k, << >>)
         /\ chans[p][i].fd = app[p].to /\ chans[p][i].writeid = k
  BY Writing, WriteIs
<1>4. PICK pk : pk = Packet("DISCONNECT", k, << >>)
  OBVIOUS
<1>5. /\ app[p].at = "write" /\ inode[q] # NoPipe /\ Len(pipe[q]) < PipeCap
      /\ pipe' = [pipe EXCEPT ![q] = Append(@, pk)] /\ app' = [app EXCEPT ![p] = Idle]
      /\ chans' = [chans EXCEPT ![p][i] = NoChan]
      /\ UNCHANGED <<inode, opens, openCalls, queue, nextId, got, stale, writers, out>>
  <2>1. Wrote(p)
    BY WriteIs
  <2>2. /\ app' = [app EXCEPT ![p] = Idle] /\ chans' = [chans EXCEPT ![p][i] = NoChan]
        /\ UNCHANGED <<writers, out>>
    BY <1>3, <2>1 DEF Wrote
  <2>3. QED
    BY <1>2, <1>3, <1>4, <2>2, WriteIs
<1>6. app'[p] = Idle /\ Idle.at = "idle" /\ \A r \in Procs : r # p => app'[r] = app[r]
  BY <1>1, <1>5, AppSet DEF Idle
<1>7. /\ chans' \in [Procs -> [Ids -> Chans \cup {NoChan}]] /\ chans'[p][i] = NoChan
      /\ \A r \in Procs, j \in Ids : r # p \/ j # i => chans'[r][j] = chans[r][j]
      /\ \A r \in Procs : r # p => chans'[r] = chans[r]
  <2>1. chans \in [Procs -> [Ids -> Chans \cup {NoChan}]]
    BY <1>1 DEF TypeOK
  <2>2. QED
    BY <1>5, <2>1
<1>8. Granted(p, i, q, k)
  <2>1. chans[p][i].fd.proc = q
    BY <1>2, <1>3
  <2>2. QED
    BY <1>3, <2>1 DEF Granted
<1>9. /\ \A r, s \in Procs, j, l \in Ids : r # p \/ j # i => (Granted(r, j, s, l)' <=> Granted(r, j, s, l))
      /\ \A s \in Procs, l \in Ids : ~Granted(p, i, s, l)'
      /\ \A s \in Procs, l \in Ids : Granted(p, i, s, l) => s = q /\ l = k
      /\ \A r \in Procs, j \in Ids : HasChan(r, j)' => HasChan(r, j)
  <2>1. \A r, s \in Procs, j, l \in Ids :
           r # p \/ j # i => (Granted(r, j, s, l)' <=> Granted(r, j, s, l))
    BY <1>7 DEF Granted, HasChan
  <2>2. ~HasChan(p, i)' /\ \A r \in Procs, j \in Ids : HasChan(r, j)' => HasChan(r, j)
    BY <1>7 DEF HasChan
  <2>3. \A s \in Procs, l \in Ids : ~Granted(p, i, s, l)'
    BY <2>2 DEF Granted
  <2>4. \A s \in Procs, l \in Ids : Granted(p, i, s, l) => s = q /\ l = k
    BY <1>2, <1>3 DEF Granted
  <2>5. QED
    BY <2>1, <2>2, <2>3, <2>4
<1>10. /\ pk \in Packets /\ pk.type # "MESSAGE" /\ pk \notin Pending(q)
  <2>1. pk \in Packets /\ pk.type = "DISCONNECT" /\ pk \in Disconnects
    BY <1>4, Packed
  <2>2. pk \notin Signals(pipe[q])
    BY <1>1, <1>4, <1>8 DEF RightsOK, Returned
  <2>3. Signals(queue[q]) \subseteq Packets \ Disconnects
    <3>1. queue[q] \in Seq(Packets \ Disconnects)
      BY <1>1, QueueTypes
    <3>2. QED
      BY <3>1, SignalsAre
  <2>4. QED
    BY <2>1, <2>2, <2>3 DEF Pending
<1>11. /\ pipe' \in [Procs -> Seq(Packets)] /\ \A r \in Procs : Len(pipe'[r]) <= PipeCap
       /\ \A r \in Procs : InboxOK(r)'
       /\ \A r \in Procs : \A x : x \in Signals(pipe[r])' <=> x \in Signals(pipe[r]) \/ (r = q /\ x = pk)
       /\ \A r \in Procs : \A x : x \in Pending(r)' <=> x \in Pending(r) \/ (r = q /\ x = pk)
  BY <1>1, <1>5, <1>10, SignalSent
<1>12. TypeOK'
  <2>1. app' \in [Procs -> Positions]
    BY <1>1, <1>5, Positioned DEF TypeOK
  <2>2. QED
    BY <1>1, <1>5, <1>7, <1>11, <2>1 DEF TypeOK
<1>13. /\ \A r, s \in Procs, j \in Ids : Requested(r, s, j)' <=> Requested(r, s, j)
       /\ \A r, s \in Procs, j \in Ids :
             Request(s, j) \in Signals(pipe[r])' <=> Request(s, j) \in Signals(pipe[r])
       /\ \A r \in Procs, j, l \in Ids : Answered(r, j, l)' <=> Answered(r, j, l)
  <2>1. /\ \A s \in Procs, j \in Ids : Request(s, j) # pk
        /\ \A j, l \in Ids : Packet("ACCEPT", j, l) # pk
    BY <1>4, PacketsDiffer
  <2>2. /\ \A r, s \in Procs, j \in Ids : Requested(r, s, j)' <=> Requested(r, s, j)
        /\ \A r, s \in Procs, j \in Ids :
             Request(s, j) \in Signals(pipe[r])' <=> Request(s, j) \in Signals(pipe[r])
    BY <1>11, <2>1 DEF Requested, Request, Packet
  <2>3. \A r \in Procs, j, l \in Ids : Answered(r, j, l)' <=> Answered(r, j, l)
    BY <1>11, <2>1 DEF Answered, Packet
  <2>4. QED
    BY <2>2, <2>3
<1>14. /\ Returned(q, k)'
       /\ \A r \in Procs, l \in Ids : r # q \/ l # k => (Returned(r, l)' <=> Returned(r, l))
  BY <1>4, <1>11, PacketsDiffer DEF Returned, Packet
<1>15. /\ ~Awaits(p) /\ ~Awaits(p)' /\ ~Killed(p) /\ ~Killed(p)'
       /\ \A s \in Procs : ~Accepting(p, s) /\ ~Accepting(p, s)'
  BY <1>5, <1>6 DEF Awaits, Accepting, Killed
<1>16. /\ \A r \in Procs : (Awaits(r)' <=> Awaits(r)) /\ (Killed(r)' <=> Killed(r))
       /\ \A r, s \in Procs : Accepting(r, s)' <=> Accepting(r, s)
  <2>1. \A r \in Procs : r # p => (Awaits(r)' <=> Awaits(r)) /\ (Killed(r)' <=> Killed(r))
    BY <1>6 DEF Awaits, Killed
  <2>2. \A r, s \in Procs : r # p => (Accepting(r, s)' <=> Accepting(r, s))
    BY <1>6 DEF Accepting
  <2>3. QED
    BY <1>15, <2>1, <2>2
<1>17. \A r \in Procs : Accepted(r)' <=> Accepted(r)
  BY <1>13 DEF Accepted
<1>18. \A r, s \in Procs, l \in Ids : Promised(r, s, l)' <=> Promised(r, s, l)
  BY <1>6, <1>13, <1>15, <1>16 DEF Promised
<1>19. \A r \in Procs, l \in Ids : Held(r, l)' <=> Held(r, l)
  <2>1. Held(q, k) /\ Held(q, k)'
    BY <1>8, <1>14 DEF Held
  <2>2. ASSUME NEW r \in Procs, NEW l \in Ids, r # q \/ l # k PROVE Held(r, l)' <=> Held(r, l)
    <3>1. \A s \in Procs, j \in Ids : Granted(s, j, r, l)' <=> Granted(s, j, r, l)
      BY <1>9, <2>2
    <3>2. QED
      BY <1>14, <1>18, <2>2, <3>1 DEF Held
  <2>3. QED
    BY <2>1, <2>2
<1>20. \A f \in Fds : Served(f)' <=> Served(f)
  BY <1>1, <1>5, <1>16, TypeFacts DEF HasReader, Served, Killed
<1>21. RequestsOK'
  <2>1. ASSUME NEW r \in Procs, NEW s \in Procs PROVE RequestOK(r, s)'
    <3>1. RequestOK(r, s)
      BY <1>1 DEF RequestsOK
    <3>2. Awaits(s) => app'[s] = app[s]
      BY <1>6, <1>15
    <3>3. Accepting(r, s) => app'[r] = app[r]
      BY <1>6, <1>15
    <3>4. \A j \in Ids : Request(s, j) \in Signals(pipe[r])' =>
             Request(s, j) \in Signals(pipe[r]) /\ (HasReader(app[s].args) => HasReader(app[s].args)')
      <4>1. \A j \in Ids : Request(s, j) \in Signals(pipe[r]) => Awaits(s)
        BY <3>1 DEF RequestOK, Requested, Pending
      <4>2. Awaits(s) => (HasReader(app[s].args) => HasReader(app[s].args)')
        BY <1>5, <3>2 DEF HasReader
      <4>3. QED
        BY <1>13, <4>1, <4>2
    <3>5. Accepting(r, s) /\ HasReader(app[r].to) => HasReader(app[r].to)'
      BY <1>5, <3>3 DEF HasReader
    <3>6. Awaits(s) /\ Through(s) => Through(s)'
      <4>1. SUFFICES ASSUME Awaits(s), Through(s) PROVE Through(s)'
        OBVIOUS
      <4>2. app[s].args \in Fds
        BY <1>1, <4>1, TypeFacts
      <4>3. Served(app[s].args) => Served(app[s].args)'
        BY <1>20, <3>2, <4>1, <4>2 DEF Served, HasReader
      <4>4. QED
        BY <1>5, <3>2, <4>1, <4>3 DEF Through
    <3>7. QED
      BY <1>13, <1>16, <3>1, <3>2, <3>3, <3>4, <3>5, <3>6, RequestKept
  <2>2. QED
    BY <2>1 DEF RequestsOK
<1>22. RightsOK'
  <2>1. \A r, s \in Procs, j, l \in Ids : Granted(r, j, s, l)' =>
           Granted(r, j, s, l) /\ (r # p \/ j # i) /\ (s # q \/ l # k)
    <3>1. \A r \in Procs, j \in Ids : Granted(r, j, q, k) => r = p /\ j = i
      BY <1>1, <1>8 DEF RightsOK
    <3>2. QED
      BY <1>9, <3>1
  <2>2. \A r \in Procs : ~Promised(r, q, k)
    BY <1>1, <1>8 DEF RightsOK
  <2>3. \A r, s \in Procs, j, l \in Ids : Granted(r, j, s, l)' =>
           r # s /\ ~Returned(s, l)' /\ (Served(chans[r][j].fd)' \/ <<r, j>> \in stale')
    <3>1. SUFFICES ASSUME NEW r \in Procs, NEW s \in Procs, NEW j \in Ids, NEW l \in Ids,
                          Granted(r, j, s, l)'
                   PROVE  r # s /\ ~Returned(s, l)' /\ (Served(chans[r][j].fd)' \/ <<r, j>> \in stale')
      OBVIOUS
    <3>2. Granted(r, j, s, l) /\ (r # p \/ j # i) /\ (s # q \/ l # k)
      BY <2>1, <3>1
    <3>3. r # s /\ ~Returned(s, l) /\ (Served(chans[r][j].fd) \/ <<r, j>> \in stale)
      BY <1>1, <3>2 DEF RightsOK
    <3>4. chans'[r][j] = chans[r][j]
      BY <1>7, <3>2
    <3>5. chans[r][j].fd \in Fds
      BY <1>1, <3>2, TypeFacts DEF Granted
    <3>6. Served(chans[r][j].fd)' <=> Served(chans[r][j].fd)
      BY <1>20, <3>4, <3>5 DEF Served, HasReader
    <3>7. QED
      BY <1>5, <1>14, <3>2, <3>3, <3>6
  <2>4. \A r, s \in Procs, l \in Ids : ~(Promised(r, s, l)' /\ Returned(s, l)')
    BY <1>1, <1>14, <1>18, <2>2 DEF RightsOK
  <2>5. QED
    BY <1>1, <1>18, <2>1, <2>3, <2>4 DEF RightsOK
<1>23. ASSUME NEW r \in Procs PROVE IdsOK(r)' /\ CountOK(r)'
  <2>1. nextId'[r] \in Nat /\ nextId[r] <= nextId'[r]
    BY <1>1, <1>5, NextIds
  <2>2. \A l \in Ids : (HasChan(r, l)' => HasChan(r, l)) /\ (Held(r, l)' => Held(r, l))
    BY <1>9, <1>19
  <2>3. Awaits(r)' => Awaits(r) /\ app'[r] = app[r]
    BY <1>6, <1>15, <1>16
  <2>4. app'[r].at = "write" => app'[r] = app[r]
    BY <1>6
  <2>5. IdsOK(r)'
    BY <1>1, <1>17, <2>1, <2>2, <2>3, <2>4, IdsKept
  <2>6. CountOK(r)'
    BY <1>1, <1>5, <1>16, <1>17, <1>19, SameCount
  <2>7. QED
    BY <2>5, <2>6
<1>24. ASSUME NEW r \in Procs PROVE ThreadOK(r)'
  <2>1. Len(queue[r]) \in Nat
    BY <1>1, QueueTypes
  <2>2. CASE r = p
    BY <1>6, <2>2 DEF ThreadOK
  <2>3. CASE r # p
    BY <1>1, <1>5, <1>6, <1>7, <2>1, <2>3, ThreadKept
  <2>4. QED
    BY <2>2, <2>3
<1>25. QED
  BY <1>11, <1>12, <1>21, <1>22, <1>23, <1>24 DEF FifoInv

\* A signal is taken from the queue of p.
LEMMA SignalTaken ==
    ASSUME TypeOK, NEW p \in Procs, \A r \in Procs : InboxOK(r), NEW m \in 1..Len(queue[p]),
           queue[p][m].type # "MESSAGE",
           queue' = [queue EXCEPT ![p] = RemoveAt(queue[p], m)], pipe' = pipe, inode' = inode
    PROVE  /\ queue' \in [Procs -> Seq(Packets \ Disconnects)]
           /\ \A r \in Procs : r # p => queue'[r] = queue[r]
           /\ queue[p][m] \in Packets \ Disconnects /\ queue[p][m] \in Pending(p)
           /\ queue[p][m] \notin Signals(pipe[p])
           /\ \A r \in Procs : InboxOK(r)'
           /\ \A r \in Procs : \A x : x \in Pending(r)' <=>
                                         x \in Pending(r) /\ ~(r = p /\ x = queue[p][m])
<1>1. InboxOK(p)
  OBVIOUS
<1>2. /\ queue' \in [Procs -> Seq(Packets \ Disconnects)]
      /\ \A r \in Procs : r # p => queue'[r] = queue[r]
      /\ queue[p][m] \in Packets \ Disconnects /\ Distinct(queue[p])'
      /\ Signals(queue[p])' = Signals(queue[p]) \ {queue[p][m]}
      /\ queue[p][m] \in Signals(queue[p])
  BY <1>1, QueueRemove
<1>3. PICK pk : pk = queue[p][m]
  OBVIOUS
<1>4. pk \notin Signals(pipe[p]) /\ pk \in Pending(p)
  BY <1>1, <1>2, <1>3 DEF InboxOK, Pending
<1>5. Signals(queue[p])' = Signals(queue[p]) \ {pk}
  BY <1>2, <1>3
<1>6. \A r \in Procs : \A x : x \in Pending(r)' <=> x \in Pending(r) /\ ~(r = p /\ x = pk)
  BY <1>2, <1>4, <1>5 DEF Pending
<1>7. ASSUME NEW r \in Procs PROVE InboxOK(r)'
  <2>1. CASE r = p
    BY <1>1, <1>2, <1>5, <2>1 DEF InboxOK
  <2>2. CASE r # p
    BY <1>2, <2>2 DEF InboxOK
  <2>3. QED
    BY <2>1, <2>2
<1>8. QED
  BY <1>2, <1>3, <1>4, <1>6, <1>7

\* PacketRead: accept has a request, and is about to answer it.
LEMMA StepGotConnect ==
    ASSUME FifoInv, NEW p \in Procs, app[p].at = "wait", NEW m \in 1..Len(queue[p]),
           Match(queue[p][m], app[p].type, app[p].src), GotConnect(p, queue[p][m]),
           queue' = [queue EXCEPT ![p] = RemoveAt(queue[p], m)],
           UNCHANGED <<pipe, inode, opens, openCalls, out, stale>>
    PROVE  FifoInv'
<1>1. /\ TypeOK /\ RequestsOK /\ RightsOK /\ app[p].op = "accept"
      /\ \A r \in Procs : InboxOK(r) /\ ThreadOK(r) /\ IdsOK(r) /\ CountOK(r)
  BY DEF FifoInv, GotConnect
<1>2. queue[p][m].type = "CONNECT"
  <2>1. app[p] \in Positions
    BY <1>1 DEF TypeOK
  <2>2. app[p].type = "CONNECT"
    BY <1>1, <2>1, PositionIs
  <2>3. QED
    BY <2>2 DEF Match
<1>3. /\ queue' \in [Procs -> Seq(Packets \ Disconnects)]
      /\ \A r \in Procs : r # p => queue'[r] = queue[r]
      /\ queue[p][m] \in Packets \ Disconnects /\ queue[p][m] \in Pending(p)
      /\ \A r \in Procs : InboxOK(r)'
      /\ \A r \in Procs : \A x : x \in Pending(r)' <=>
                                    x \in Pending(r) /\ ~(r = p /\ x = queue[p][m])
  BY <1>1, <1>2, SignalTaken
<1>4. PICK q \in Procs, i \in Ids :
         /\ queue[p][m] = Request(q, i) /\ q = queue[p][m].data.proc /\ i = queue[p][m].data.id
  BY <1>2, <1>3, PacketIs
<1>5. Requested(p, q, i)
  BY <1>3, <1>4 DEF Requested
<1>6. /\ Awaits(q) /\ app[q].src = i /\ app[q].args.proc = p /\ ~Accepted(q) /\ Through(q)
  BY <1>1, <1>5 DEF RequestsOK, RequestOK
<1>7. inode[q] # NoPipe /\ q # p
  BY <1>1, <1>6 DEF ThreadOK, Awaits
<1>8. PICK k \in Ids : k = nextId[p]
  BY <1>4, <1>7 DEF GotConnect
<1>9. PICK pk \in Accepts : pk = Packet("ACCEPT", i, k) /\ pk.src = i /\ pk.data = k
  BY Packed DEF Packet
<1>10. PICK fd \in Fds : fd = Fd(q) /\ fd.proc = q /\ HasReader(fd)
  <2>1. inode[q] \in Nat
    BY <1>1 DEF TypeOK
  <2>2. Fd(q) \in Fds /\ Fd(q).proc = q /\ Fd(q).no = inode[q]
    BY <1>7, <2>1 DEF Fd, Fds
  <2>3. QED
    BY <2>2 DEF HasReader
<1>11. PICK c \in Chans : c = [fd |-> fd, writeid |-> i]
  BY DEF Chans
<1>12. PICK a : a = Send("accept", fd, pk, c)
  OBVIOUS
<1>13. /\ a \in Positions /\ a.at = "write" /\ a.op = "accept" /\ a.to = fd /\ a.pk = pk
       /\ a.args = c
  BY <1>12, Positioned DEF Send
<1>14. /\ app' = [app EXCEPT ![p] = a] /\ nextId' = [nextId EXCEPT ![p] = k + 1]
       /\ UNCHANGED <<writers, chans, got>>
  <2>1. inode[queue[p][m].data.proc] # NoPipe
    BY <1>4, <1>7
  <2>2. /\ nextId' = [nextId EXCEPT ![p] = @ + 1] /\ UNCHANGED <<writers, chans, got>>
        /\ app' = [app EXCEPT ![p] =
              Send("accept", Fd(queue[p][m].data.proc),
                   Packet("ACCEPT", queue[p][m].data.id, nextId[p]),
                   [fd |-> Fd(queue[p][m].data.proc), writeid |-> queue[p][m].data.id])]
    BY <2>1 DEF GotConnect
  <2>3. app' = [app EXCEPT ![p] = a]
    BY <1>4, <1>8, <1>9, <1>10, <1>11, <1>12, <2>2
  <2>4. QED
    BY <1>8, <2>2, <2>3
<1>15. app'[p] = a /\ \A r \in Procs : r # p => app'[r] = app[r]
  BY <1>1, <1>14, AppSet
<1>16. /\ nextId' \in [Procs -> 1..(MaxChan + 1)] /\ nextId'[p] = k + 1 /\ k \in Nat
       /\ \A r \in Procs : nextId'[r] \in Nat /\ nextId[r] <= nextId'[r]
  <2>1. nextId \in [Procs -> 1..(MaxChan + 1)]
    BY <1>1 DEF TypeOK
  <2>2. k + 1 \in 1..(MaxChan + 1) /\ k \in Nat
    BY NextOfId
  <2>3. \A r \in Procs : nextId[r] \in Nat /\ nextId[r] <= nextId[r]
    BY <1>1, NextIds
  <2>4. QED
    BY <1>8, <1>14, <2>1, <2>2, <2>3
<1>17. TypeOK'
  <2>1. app' \in [Procs -> Positions]
    BY <1>1, <1>13, <1>14 DEF TypeOK
  <2>2. QED
    BY <1>1, <1>3, <1>14, <1>16, <2>1 DEF TypeOK
<1>18. \A r, s \in Procs, j \in Ids :
          Requested(r, s, j)' <=> Requested(r, s, j) /\ ~(r = p /\ s = q /\ j = i)
  BY <1>3, <1>4, PacketsDiffer DEF Requested, Request, Packet
<1>19. \A r \in Procs, j, l \in Ids : Answered(r, j, l)' <=> Answered(r, j, l)
  <2>1. \A j, l \in Ids : Packet("ACCEPT", j, l) # queue[p][m]
    BY <1>4, PacketsDiffer
  <2>2. QED
    BY <1>3, <2>1 DEF Answered
<1>20. \A r \in Procs, l \in Ids : Returned(r, l)' <=> Returned(r, l)
  BY DEF Returned, Packet
<1>21. /\ ~Awaits(p) /\ ~Awaits(p)' /\ ~Killed(p) /\ ~Killed(p)'
       /\ \A s \in Procs : ~Accepting(p, s) /\ (Accepting(p, s)' <=> s = q)
  BY <1>1, <1>10, <1>13, <1>15 DEF Awaits, Killed, Accepting
<1>22. /\ \A r \in Procs : (Awaits(r)' <=> Awaits(r)) /\ (Killed(r)' <=> Killed(r))
       /\ \A r, s \in Procs : r # p => (Accepting(r, s)' <=> Accepting(r, s))
  <2>1. \A r \in Procs : r # p => (Awaits(r)' <=> Awaits(r)) /\ (Killed(r)' <=> Killed(r))
    BY <1>15 DEF Awaits, Killed
  <2>2. \A r, s \in Procs : r # p => (Accepting(r, s)' <=> Accepting(r, s))
    BY <1>15 DEF Accepting
  <2>3. QED
    BY <1>21, <2>1, <2>2
<1>23. \A r \in Procs : Accepted(r)' <=> Accepted(r)
  BY <1>19 DEF Accepted
<1>24. \A r, s \in Procs, j, l \in Ids : Granted(r, j, s, l)' <=> Granted(r, j, s, l)
  BY <1>14 DEF Granted, HasChan
<1>25. \A r, s \in Procs, l \in Ids : Promised(r, s, l)' <=> Promised(r, s, l)
  BY <1>15, <1>19, <1>21, <1>22 DEF Promised
<1>26. \A r \in Procs, l \in Ids : Held(r, l)' <=> Held(r, l)
  BY <1>20, <1>24, <1>25 DEF Held
<1>27. \A f \in Fds : (HasReader(f)' <=> HasReader(f)) /\ (Served(f)' <=> Served(f))
  BY <1>1, <1>22, TypeFacts DEF HasReader, Served, Killed
<1>28. \A s \in Procs : Awaits(s) /\ Through(s) => Through(s)' /\ app'[s] = app[s]
  <2>1. SUFFICES ASSUME NEW s \in Procs, Awaits(s), Through(s) PROVE Through(s)' /\ app'[s] = app[s]
    OBVIOUS
  <2>2. app[s].args \in Fds /\ app'[s] = app[s]
    BY <1>1, <1>15, <1>21, <2>1, TypeFacts
  <2>3. Served(app[s].args) => Served(app[s].args)'
    BY <1>27, <2>2 DEF Served, HasReader
  <2>4. QED
    BY <2>1, <2>2, <2>3 DEF Through
<1>29. RequestsOK'
  <2>1. ASSUME NEW r \in Procs, NEW s \in Procs, s # q PROVE RequestOK(r, s)'
    <3>1. RequestOK(r, s)
      BY <1>1 DEF RequestsOK
    <3>2. Awaits(s) => app'[s] = app[s]
      BY <1>15, <1>21
    <3>3. Accepting(r, s)' <=> Accepting(r, s)
      BY <1>21, <1>22, <2>1
    <3>4. Accepting(r, s) => app'[r] = app[r]
      BY <1>15, <1>21
    <3>5. \A j \in Ids : Requested(r, s, j)' => Requested(r, s, j)
      BY <1>18
    <3>6. \A j \in Ids : Request(s, j) \in Signals(pipe[r])' =>
             Request(s, j) \in Signals(pipe[r]) /\ (HasReader(app[s].args) => HasReader(app[s].args)')
      <4>1. \A j \in Ids : Request(s, j) \in Signals(pipe[r]) => Awaits(s)
        BY <3>1 DEF RequestOK, Requested, Pending
      <4>2. Awaits(s) => (HasReader(app[s].args) => HasReader(app[s].args)')
        BY <3>2 DEF HasReader
      <4>3. QED
        BY <4>1, <4>2 DEF Request, Packet
    <3>7. Accepting(r, s) /\ HasReader(app[r].to) => HasReader(app[r].to)'
      BY <3>4 DEF HasReader
    <3>8. QED
      BY <1>19, <1>22, <1>28, <3>1, <3>2, <3>3, <3>4, <3>5, <3>6, <3>7, RequestKept
  <2>2. ASSUME NEW r \in Procs PROVE RequestOK(r, q)'
    <3>1. \A j \in Ids : ~Requested(r, q, j)'
      <4>1. \A j \in Ids : Requested(r, q, j) => r = p /\ j = i
        BY <1>1, <1>6 DEF RequestsOK, RequestOK
      <4>2. QED
        BY <1>18, <4>1
    <3>2. \A j, l \in Ids : ~Answered(q, j, l)'
      BY <1>6, <1>19 DEF Accepted
    <3>3. Accepting(r, q)' => r = p
      <4>1. Accepting(r, q) => r = p
        BY <1>1, <1>6 DEF RequestsOK, RequestOK
      <4>2. QED
        BY <1>22, <4>1
    <3>4. /\ Awaits(q)' /\ app'[q].src = i /\ app'[q].args.proc = p /\ ~Accepted(q)' /\ Through(q)'
      BY <1>6, <1>22, <1>23, <1>28
    <3>5. app'[p].pk.src = i /\ HasReader(app[p].to)'
      BY <1>9, <1>10, <1>13, <1>15 DEF HasReader
    <3>6. QED
      BY <3>1, <3>2, <3>3, <3>4, <3>5 DEF RequestOK
  <2>3. QED
    BY <2>1, <2>2 DEF RequestsOK
<1>30. RightsOK'
  <2>1. \A r \in Procs, j \in Ids : HasChan(r, j) => (Served(chans[r][j].fd)' <=> Served(chans[r][j].fd))
    <3>1. SUFFICES ASSUME NEW r \in Procs, NEW j \in Ids, HasChan(r, j)
                   PROVE  Served(chans[r][j].fd)' <=> Served(chans[r][j].fd)
      OBVIOUS
    <3>2. chans[r][j].fd \in Fds
      BY <1>1, <3>1, TypeFacts
    <3>3. QED
      BY <1>14, <1>27, <3>2 DEF Served, HasReader
  <2>2. \A r, s \in Procs, j, l \in Ids : Granted(r, j, s, l) => HasChan(r, j)
    BY DEF Granted
  <2>3. QED
    BY <1>1, <1>20, <1>24, <1>25, <2>1, <2>2 DEF RightsOK
<1>31. ASSUME NEW r \in Procs PROVE IdsOK(r)' /\ CountOK(r)'
  <2>1. nextId'[r] \in Nat /\ nextId[r] <= nextId'[r]
    BY <1>16
  <2>2. \A l \in Ids : (HasChan(r, l)' <=> HasChan(r, l)) /\ (Held(r, l)' <=> Held(r, l))
    BY <1>14, <1>26 DEF HasChan
  <2>3. IdsOK(r)'
    <3>1. CASE r # p
      <4>1. app'[r] = app[r]
        BY <1>15, <3>1
      <4>2. QED
        BY <1>1, <1>22, <1>23, <2>1, <2>2, <4>1, IdsKept
    <3>2. CASE r = p
      <4>1. \A l \in Ids : (InUse(p, l)' <=> InUse(p, l)) /\ (InUse(p, l) => l < nextId[p])
        BY <1>1, <2>2, <3>2 DEF IdsOK, InUse
      <4>2. nextId[p] \in Nat
        BY <1>1, NextIds
      <4>3. \A l \in Ids : InUse(p, l)' => l < nextId'[p]
        BY <2>1, <3>2, <4>1, <4>2, StillLess
      <4>4. ~InUse(p, k)'
        <5>1. ~(k < nextId[p])
          BY <1>8, <1>16
        <5>2. QED
          BY <4>1, <5>1
      <4>5. k < nextId'[p]
        BY <1>16
      <4>6. QED
        BY <1>9, <1>13, <1>15, <1>21, <3>2, <4>3, <4>4, <4>5 DEF IdsOK
    <3>3. QED
      BY <3>1, <3>2
  <2>5. CountOK(r)'
    BY <1>1, <1>14, <1>22, <1>23, <1>26, SameCount
  <2>6. QED
    BY <2>3, <2>5
<1>32. ASSUME NEW r \in Procs PROVE ThreadOK(r)'
  <2>1. Len(queue[r]) \in Nat
    BY <1>1, QueueTypes
  <2>2. CASE r = p
    BY <1>9, <1>11, <1>13, <1>15, <2>2 DEF ThreadOK
  <2>3. CASE r # p
    BY <1>1, <1>3, <1>14, <1>15, <2>1, <2>3, ThreadKept
  <2>4. QED
    BY <2>2, <2>3
<1>33. QED
  BY <1>3, <1>17, <1>29, <1>30, <1>31, <1>32 DEF FifoInv

\* PacketRead: connect has its answer, and with it a right to write.
LEMMA StepGotAccept ==
    ASSUME FifoInv, NEW p \in Procs, app[p].at = "wait", NEW m \in 1..Len(queue[p]),
           Match(queue[p][m], app[p].type, app[p].src), GotAccept(p, queue[p][m]),
           queue' = [queue EXCEPT ![p] = RemoveAt(queue[p], m)],
           UNCHANGED <<pipe, inode, opens, openCalls, out, stale>>
    PROVE  FifoInv'
<1>1. /\ TypeOK /\ RequestsOK /\ RightsOK /\ app[p].op = "connect" /\ Awaits(p)
      /\ \A r \in Procs : InboxOK(r) /\ ThreadOK(r) /\ IdsOK(r) /\ CountOK(r)
  BY DEF FifoInv, GotAccept, Awaits
<1>2. PICK i \in Ids, fd \in Fds : i = app[p].src /\ fd = app[p].args
  BY <1>1, TypeFacts
<1>3. PICK q \in Procs : q = fd.proc
  BY <1>1, TypeFacts
<1>4. queue[p][m].type = "ACCEPT" /\ queue[p][m].src = i
  <2>1. app[p] \in Positions
    BY <1>1 DEF TypeOK
  <2>2. app[p].type = "ACCEPT"
    BY <1>1, <2>1, PositionIs
  <2>3. QED
    BY <1>2, <2>2 DEF Match
<1>5. /\ queue' \in [Procs -> Seq(Packets \ Disconnects)]
      /\ \A r \in Procs : r # p => queue'[r] = queue[r]
      /\ queue[p][m] \in Packets \ Disconnects /\ queue[p][m] \in Pending(p)
      /\ \A r \in Procs : InboxOK(r)'
      /\ \A r \in Procs : \A x : x \in Pending(r)' <=>
                                    x \in Pending(r) /\ ~(r = p /\ x = queue[p][m])
  <2>1. TypeOK /\ (\A r \in Procs : InboxOK(r)) /\ queue[p][m].type # "MESSAGE"
    BY <1>1, <1>4
  <2>2. QED
    BY <2>1, SignalTaken
<1>6. PICK k \in Ids : k = queue[p][m].data /\ queue[p][m] = Packet("ACCEPT", i, k)
  BY <1>4, <1>5, PacketIs
<1>7. PICK c \in Chans : c = [fd |-> fd, writeid |-> k] /\ c.fd = fd /\ c.writeid = k
  <2>1. [fd |-> fd, writeid |-> k] \in Chans
    BY DEF Chans
  <2>2. QED
    BY <2>1
<1>8. /\ chans' = [chans EXCEPT ![p][i] = c] /\ writers' = [writers EXCEPT ![p] = @ + 1]
      /\ app' = [app EXCEPT ![p] = Idle] /\ UNCHANGED <<nextId, got>>
  <2>1. /\ chans' = [chans EXCEPT ![p][app[p].src] =
                        [fd |-> app[p].args, writeid |-> queue[p][m].data]]
        /\ writers' = [writers EXCEPT ![p] = @ + 1]
        /\ app' = [app EXCEPT ![p] = Idle] /\ UNCHANGED <<nextId, got>>
    BY DEF GotAccept
  <2>2. QED
    BY <1>2, <1>6, <1>7, <2>1
<1>9. app'[p] = Idle /\ Idle.at = "idle" /\ \A r \in Procs : r # p => app'[r] = app[r]
  BY <1>1, <1>8, AppSet DEF Idle
<1>10. /\ chans' \in [Procs -> [Ids -> Chans \cup {NoChan}]] /\ chans'[p][i] = c
       /\ \A r \in Procs, j \in Ids : r # p \/ j # i => chans'[r][j] = chans[r][j]
       /\ \A r \in Procs : r # p => chans'[r] = chans[r]
  <2>1. chans \in [Procs -> [Ids -> Chans \cup {NoChan}]]
    BY <1>1 DEF TypeOK
  <2>2. QED
    BY <1>8, <2>1
<1>11. /\ writers' \in [Procs -> Int] /\ writers'[p] = writers[p] + 1 /\ writers[p] \in Int
       /\ \A r \in Procs : r # p => writers'[r] = writers[r]
  <2>1. writers \in [Procs -> Int]
    BY <1>1 DEF TypeOK
  <2>2. QED
    BY <1>8, <2>1
<1>12. TypeOK'
  <2>1. app' \in [Procs -> Positions]
    BY <1>1, <1>8, Positioned DEF TypeOK
  <2>2. QED
    BY <1>1, <1>5, <1>8, <1>10, <1>11, <2>1 DEF TypeOK
<1>13. Answered(p, i, k) /\ Accepted(p) /\ Through(p) /\ Promised(p, q, k)
  <2>1. Answered(p, i, k)
    BY <1>5, <1>6 DEF Answered
  <2>2. Accepted(p) /\ Promised(p, q, k)
    BY <1>1, <1>2, <1>3, <2>1 DEF Accepted, Promised
  <2>3. Through(p)
    BY <1>1, <2>1 DEF RequestsOK, RequestOK
  <2>4. QED
    BY <2>1, <2>2, <2>3
<1>14. \A j, l \in Ids : Answered(p, j, l) => j = i /\ l = k
  BY <1>1, <1>2, <1>13 DEF RequestsOK, RequestOK
<1>15. /\ \A r \in Procs, j, l \in Ids : r # p => (Answered(r, j, l)' <=> Answered(r, j, l))
       /\ \A j, l \in Ids : ~Answered(p, j, l)'
  <2>1. \A r \in Procs, j, l \in Ids : r # p => (Answered(r, j, l)' <=> Answered(r, j, l))
    BY <1>5 DEF Answered
  <2>2. \A j, l \in Ids : Answered(p, j, l)' => Answered(p, j, l) /\ ~(j = i /\ l = k)
    BY <1>5, <1>6 DEF Answered
  <2>3. QED
    BY <1>14, <2>1, <2>2
<1>16. \A r, s \in Procs, j \in Ids : Requested(r, s, j)' => Requested(r, s, j)
  BY <1>5 DEF Requested, Request, Packet
<1>17. \A r \in Procs, l \in Ids : Returned(r, l)' <=> Returned(r, l)
  BY DEF Returned, Packet
<1>18. ~HasChan(p, i) /\ q # p /\ i < nextId[p]
  BY <1>1, <1>2, <1>3 DEF IdsOK
<1>19. /\ \A r \in Procs, j \in Ids : r # p \/ j # i => (HasChan(r, j)' <=> HasChan(r, j))
       /\ HasChan(p, i)'
  <2>1. c # NoChan
    <3>1. c.writeid # NoChan.writeid
      BY <1>7, Numbers DEF NoChan
    <3>2. QED
      BY <3>1
  <2>2. QED
    BY <1>10, <2>1 DEF HasChan
<1>20. /\ Granted(p, i, q, k)'
       /\ \A r, s \in Procs, j, l \in Ids : r # p \/ j # i => (Granted(r, j, s, l)' <=> Granted(r, j, s, l))
       /\ \A s \in Procs, l \in Ids : Granted(p, i, s, l)' => s = q /\ l = k
       /\ \A s \in Procs, l \in Ids : ~Granted(p, i, s, l)
  <2>1. Granted(p, i, q, k)'
    BY <1>3, <1>7, <1>10, <1>19 DEF Granted
  <2>2. \A r, s \in Procs, j, l \in Ids : r # p \/ j # i => (Granted(r, j, s, l)' <=> Granted(r, j, s, l))
    BY <1>10, <1>19 DEF Granted
  <2>3. \A s \in Procs, l \in Ids : Granted(p, i, s, l)' => s = q /\ l = k
    BY <1>3, <1>7, <1>10 DEF Granted
  <2>4. \A s \in Procs, l \in Ids : ~Granted(p, i, s, l)
    BY <1>18 DEF Granted
  <2>5. QED
    BY <2>1, <2>2, <2>3, <2>4
<1>21. /\ ~Awaits(p)' /\ ~Killed(p) /\ ~Killed(p)'
       /\ \A s \in Procs : ~Accepting(p, s) /\ ~Accepting(p, s)'
  BY <1>9 DEF Awaits, Killed, Accepting
<1>22. /\ \A r \in Procs : Killed(r)' <=> Killed(r)
       /\ \A r \in Procs : r # p => (Awaits(r)' <=> Awaits(r))
       /\ \A r, s \in Procs : Accepting(r, s)' <=> Accepting(r, s)
  <2>1. \A r \in Procs : r # p => (Awaits(r)' <=> Awaits(r)) /\ (Killed(r)' <=> Killed(r))
    BY <1>9 DEF Awaits, Killed
  <2>2. \A r, s \in Procs : r # p => (Accepting(r, s)' <=> Accepting(r, s))
    BY <1>9 DEF Accepting
  <2>3. QED
    BY <1>21, <2>1, <2>2
<1>23. ~Accepted(p)' /\ \A r \in Procs : r # p => (Accepted(r)' <=> Accepted(r))
  BY <1>15 DEF Accepted
<1>24. /\ \A s \in Procs, l \in Ids : ~Promised(p, s, l)'
       /\ \A s \in Procs, l \in Ids : Promised(p, s, l) => s = q /\ l = k
       /\ \A r, s \in Procs, l \in Ids : r # p => (Promised(r, s, l)' <=> Promised(r, s, l))
  <2>1. \A s \in Procs, l \in Ids : ~Promised(p, s, l)'
    BY <1>21 DEF Promised
  <2>2. \A s \in Procs, l \in Ids : Promised(p, s, l) => s = q /\ l = k
    BY <1>2, <1>3, <1>14 DEF Promised
  <2>3. \A r, s \in Procs, l \in Ids : r # p => (Promised(r, s, l)' <=> Promised(r, s, l))
    BY <1>9, <1>15, <1>22 DEF Promised
  <2>4. QED
    BY <2>1, <2>2, <2>3
<1>25. \A r \in Procs, l \in Ids : Held(r, l)' <=> Held(r, l)
  <2>1. Held(q, k) /\ Held(q, k)'
    BY <1>13, <1>20 DEF Held
  <2>2. ASSUME NEW r \in Procs, NEW l \in Ids, r # q \/ l # k PROVE Held(r, l)' <=> Held(r, l)
    <3>1. \A s \in Procs, j \in Ids : Granted(s, j, r, l)' <=> Granted(s, j, r, l)
      BY <1>20, <2>2
    <3>2. \A s \in Procs : Promised(s, r, l)' <=> Promised(s, r, l)
      BY <1>24, <2>2
    <3>3. QED
      BY <1>17, <3>1, <3>2 DEF Held
  <2>3. QED
    BY <2>1, <2>2
<1>26. \A f \in Fds : Served(f)' <=> Served(f)
  BY <1>1, <1>22, TypeFacts DEF HasReader, Served, Killed
<1>27. RequestsOK'
  <2>1. ASSUME NEW r \in Procs, NEW s \in Procs, s # p PROVE RequestOK(r, s)'
    <3>1. RequestOK(r, s) /\ app'[s] = app[s]
      BY <1>1, <1>9, <2>1 DEF RequestsOK
    <3>2. Accepting(r, s) => app'[r] = app[r]
      BY <1>9, <1>21
    <3>3. \A j \in Ids : Request(s, j) \in Signals(pipe[r])' =>
             Request(s, j) \in Signals(pipe[r]) /\ (HasReader(app[s].args) => HasReader(app[s].args)')
      BY <3>1 DEF HasReader, Request, Packet
    <3>4. Accepting(r, s) /\ HasReader(app[r].to) => HasReader(app[r].to)'
      BY <3>2 DEF HasReader
    <3>5. Awaits(s) /\ Through(s) => Through(s)'
      <4>1. SUFFICES ASSUME Awaits(s), Through(s) PROVE Through(s)'
        OBVIOUS
      <4>2. app[s].args \in Fds
        BY <1>1, <4>1, TypeFacts
      <4>3. Served(app[s].args) => Served(app[s].args)'
        BY <1>26, <3>1, <4>2 DEF Served, HasReader
      <4>4. QED
        BY <3>1, <4>1, <4>3 DEF Through
    <3>6. \A j, l \in Ids : Answered(s, j, l)' <=> Answered(s, j, l)
      BY <1>15, <2>1
    <3>7. (Awaits(s)' <=> Awaits(s)) /\ (Accepting(r, s)' <=> Accepting(r, s))
      BY <1>22, <2>1
    <3>8. \A j \in Ids : Requested(r, s, j)' => Requested(r, s, j)
      BY <1>16
    <3>9. QED
      BY <3>1, <3>2, <3>3, <3>4, <3>5, <3>6, <3>7, <3>8, RequestKept
  <2>2. ASSUME NEW r \in Procs PROVE RequestOK(r, p)'
    <3>1. ~Accepting(r, p) /\ \A j \in Ids : ~Requested(r, p, j)
      BY <1>1, <1>13 DEF RequestsOK, RequestOK
    <3>2. ~Accepting(r, p)' /\ \A j \in Ids : ~Requested(r, p, j)'
      BY <1>16, <1>22, <3>1
    <3>3. QED
      BY <1>15, <3>2 DEF RequestOK
  <2>3. QED
    BY <2>1, <2>2 DEF RequestsOK
<1>28. RightsOK'
  <2>1. /\ ~Returned(q, k)
        /\ \A r \in Procs, j \in Ids : ~Granted(r, j, q, k)
        /\ \A r \in Procs : Promised(r, q, k) => r = p
    BY <1>1, <1>13 DEF RightsOK
  <2>2. Served(fd) \/ <<p, i>> \in stale
    BY <1>2, <1>13 DEF Through
  <2>3. \A r, s \in Procs, j, l \in Ids : Granted(r, j, s, l)' =>
           r # s /\ ~Returned(s, l)' /\ (Served(chans[r][j].fd)' \/ <<r, j>> \in stale')
    <3>1. SUFFICES ASSUME NEW r \in Procs, NEW s \in Procs, NEW j \in Ids, NEW l \in Ids,
                          Granted(r, j, s, l)'
                   PROVE  r # s /\ ~Returned(s, l)' /\ (Served(chans[r][j].fd)' \/ <<r, j>> \in stale')
      OBVIOUS
    <3>2. CASE r = p /\ j = i
      <4>1. Served(chans[p][i].fd)' <=> Served(fd)
        BY <1>7, <1>10, <1>26 DEF Served, HasReader
      <4>2. QED
        BY <1>17, <1>18, <1>20, <2>1, <2>2, <3>1, <3>2, <4>1
    <3>3. CASE r # p \/ j # i
      <4>1. Granted(r, j, s, l)
        BY <1>20, <3>1, <3>3
      <4>2. r # s /\ ~Returned(s, l) /\ (Served(chans[r][j].fd) \/ <<r, j>> \in stale)
        BY <1>1, <4>1 DEF RightsOK
      <4>3. chans'[r][j] = chans[r][j]
        BY <1>10, <3>3
      <4>4. chans[r][j].fd \in Fds
        BY <1>1, <4>1, TypeFacts DEF Granted
      <4>5. Served(chans[r][j].fd)' <=> Served(chans[r][j].fd)
        BY <1>26, <4>3, <4>4 DEF Served, HasReader
      <4>6. QED
        BY <1>17, <4>2, <4>5
    <3>4. QED
      BY <3>2, <3>3
  <2>4. \A s, r, u \in Procs, l, j, n \in Ids :
           Granted(r, j, s, l)' /\ Granted(u, n, s, l)' => u = r /\ n = j
    <3>1. \A r \in Procs, j \in Ids : Granted(r, j, q, k)' => r = p /\ j = i
      BY <1>20, <2>1
    <3>2. \A s, r, u \in Procs, l, j, n \in Ids :
             Granted(r, j, s, l) /\ Granted(u, n, s, l) => u = r /\ n = j
      BY <1>1 DEF RightsOK
    <3>3. \A r, s \in Procs, j, l \in Ids : Granted(r, j, s, l)' =>
             Granted(r, j, s, l) \/ (s = q /\ l = k)
      BY <1>20
    <3>4. QED
      BY <3>1, <3>2, <3>3
  <2>5. \A r, s \in Procs, l \in Ids : Promised(r, s, l)' => Promised(r, s, l) /\ (s # q \/ l # k)
    BY <1>24, <2>1
  <2>6. \A r, s, u \in Procs, l, j \in Ids : ~(Granted(r, j, s, l)' /\ Promised(u, s, l)')
    <3>1. \A r, s \in Procs, j, l \in Ids : Granted(r, j, s, l)' =>
             Granted(r, j, s, l) \/ (s = q /\ l = k)
      BY <1>20
    <3>2. \A r, s, u \in Procs, l, j \in Ids : ~(Granted(r, j, s, l) /\ Promised(u, s, l))
      BY <1>1 DEF RightsOK
    <3>3. QED
      BY <2>5, <3>1, <3>2
  <2>7. /\ \A s, r \in Procs, l \in Ids : ~(Promised(r, s, l)' /\ Returned(s, l)')
        /\ \A s, r, u \in Procs, l \in Ids : Promised(r, s, l)' /\ Promised(u, s, l)' => u = r
    BY <1>1, <1>17, <2>5 DEF RightsOK
  <2>8. QED
    BY <2>3, <2>4, <2>6, <2>7 DEF RightsOK
<1>29. ASSUME NEW r \in Procs PROVE IdsOK(r)'
  <2>1. nextId'[r] \in Nat /\ nextId[r] <= nextId'[r]
    BY <1>1, <1>8, NextIds
  <2>2. CASE r # p
    <3>1. \A l \in Ids : (HasChan(r, l)' => HasChan(r, l)) /\ (Held(r, l)' => Held(r, l))
      BY <1>19, <1>25, <2>2
    <3>2. app'[r] = app[r] /\ (Awaits(r)' <=> Awaits(r)) /\ (Accepted(r)' <=> Accepted(r))
      BY <1>9, <1>22, <1>23, <2>2
    <3>3. QED
      BY <1>1, <2>1, <3>1, <3>2, IdsKept
  <2>3. CASE r = p
    <3>1. \A l \in Ids : InUse(p, l)' => InUse(p, l) \/ l = i
      BY <1>19, <1>25 DEF InUse
    <3>2. \A l \in Ids : InUse(p, l)' => l < nextId'[p]
      BY <1>1, <1>8, <1>18, <3>1 DEF IdsOK
    <3>3. QED
      BY <1>9, <1>21, <2>3, <3>2 DEF IdsOK
  <2>4. QED
    BY <2>2, <2>3
<1>30. ASSUME NEW r \in Procs PROVE CountOK(r)'
  <2>1. CASE r # p
    <3>1. (Accepted(r)' <=> Accepted(r)) /\ writers'[r] = writers[r]
      BY <1>11, <1>23, <2>1
    <3>2. QED
      BY <1>1, <1>22, <1>25, <3>1, SameCount
  <2>2. CASE r = p
    <3>1. Writers(p)' = Writers(p)
      BY <1>25 DEF Writers
    <3>2. IsFiniteSet(Writers(p))
      BY Numbers, FS_Subset DEF Writers
    <3>3. Cardinality(Writers(p)) \in Nat
      BY <3>2, FS_CardinalityType
    <3>4. writers[p] = Cardinality(Writers(p)) - 1
      BY <1>1, <1>13, <1>21 DEF CountOK
    <3>5. QED
      BY <1>11, <1>23, <2>2, <3>1, <3>3, <3>4 DEF CountOK
  <2>3. QED
    BY <2>1, <2>2
<1>31. ASSUME NEW r \in Procs PROVE ThreadOK(r)'
  <2>1. Len(queue[r]) \in Nat
    BY <1>1, QueueTypes
  <2>2. CASE r = p
    BY <1>9, <2>2 DEF ThreadOK
  <2>3. CASE r # p
    BY <1>1, <1>5, <1>9, <1>10, <2>1, <2>3, ThreadKept
  <2>4. QED
    BY <2>2, <2>3
<1>32. QED
  BY <1>5, <1>12, <1>27, <1>28, <1>29, <1>30, <1>31 DEF FifoInv

\* PacketWrite: the answer is under way, and each side may write to the other.
LEMMA StepWriteAccept ==
    ASSUME FifoInv, NEW p \in Procs, PacketWrite(p), app[p].op = "accept"
    PROVE  FifoInv'
<1>1. /\ TypeOK /\ RequestsOK /\ RightsOK
      /\ \A r \in Procs : InboxOK(r) /\ ThreadOK(r) /\ IdsOK(r) /\ CountOK(r)
  BY DEF FifoInv
<1>2. PICK fd \in Fds, q \in Procs : fd = app[p].to /\ q = fd.proc
  BY WriteIs
<1>3. PICK i \in Ids, k \in Ids : /\ app[p].pk = Packet("ACCEPT", i, k)
                                  /\ app[p].pk.src = i /\ app[p].pk.data = k
  <2>1. app[p] \in Positions /\ app[p].at = "write"
    BY <1>1, WriteIs DEF TypeOK
  <2>2. app[p].pk \in Accepts
    BY <2>1, PositionIs
  <2>3. QED
    BY <2>2 DEF Accepts, Packet
<1>4. PICK pk : pk = Packet("ACCEPT", i, k)
  OBVIOUS
<1>5. PICK c \in Chans : c = [fd |-> fd, writeid |-> i] /\ c.fd = fd /\ c.writeid = i
  <2>1. [fd |-> fd, writeid |-> i] \in Chans
    BY DEF Chans
  <2>2. QED
    BY <2>1
<1>6. /\ app[p].at = "write" /\ HasReader(fd) /\ inode[q] # NoPipe /\ Len(pipe[q]) < PipeCap
      /\ pipe' = [pipe EXCEPT ![q] = Append(@, pk)] /\ app' = [app EXCEPT ![p] = Idle]
      /\ chans' = [chans EXCEPT ![p][k] = c] /\ writers' = [writers EXCEPT ![p] = @ + 1]
      /\ UNCHANGED <<inode, opens, openCalls, queue, nextId, got, stale, out>>
  <2>1. Wrote(p) /\ app[p].at = "write"
    BY WriteIs
  <2>2. app[p].args = c
    BY <1>1, <1>2, <1>3, <1>5, <2>1 DEF ThreadOK
  <2>3. /\ app' = [app EXCEPT ![p] = Idle] /\ chans' = [chans EXCEPT ![p][app[p].pk.data] = app[p].args]
        /\ writers' = [writers EXCEPT ![p] = @ + 1] /\ UNCHANGED out
    BY <2>1 DEF Wrote
  <2>4. chans' = [chans EXCEPT ![p][k] = c]
    BY <1>3, <2>2, <2>3
  <2>5. QED
    BY <1>2, <1>3, <1>4, <2>3, <2>4, WriteIs
<1>7. Accepting(p, q)
  BY <1>2, <1>6 DEF Accepting
<1>8. /\ Awaits(q) /\ app[q].src = i /\ app[q].args.proc = p /\ ~Accepted(q) /\ Through(q)
  BY <1>1, <1>3, <1>7 DEF RequestsOK, RequestOK
<1>9. /\ q # p /\ ~Held(q, i) /\ i < nextId[q] /\ ~HasChan(q, i)
      /\ ~Held(p, k) /\ ~HasChan(p, k) /\ k < nextId[p]
  <2>1. q # p
    BY <1>6, <1>8 DEF Awaits
  <2>2. ~Held(q, i) /\ i < nextId[q] /\ ~HasChan(q, i)
    BY <1>1, <1>8 DEF IdsOK
  <2>3. ~InUse(p, k) /\ k < nextId[p]
    BY <1>1, <1>3, <1>6 DEF IdsOK
  <2>4. QED
    BY <2>1, <2>2, <2>3 DEF InUse
<1>10. app'[p] = Idle /\ Idle.at = "idle" /\ \A r \in Procs : r # p => app'[r] = app[r]
  BY <1>1, <1>6, AppSet DEF Idle
<1>11. /\ chans' \in [Procs -> [Ids -> Chans \cup {NoChan}]] /\ chans'[p][k] = c
       /\ \A r \in Procs, j \in Ids : r # p \/ j # k => chans'[r][j] = chans[r][j]
       /\ \A r \in Procs : r # p => chans'[r] = chans[r]
  <2>1. chans \in [Procs -> [Ids -> Chans \cup {NoChan}]]
    BY <1>1 DEF TypeOK
  <2>2. QED
    BY <1>6, <2>1
<1>12. /\ writers' \in [Procs -> Int] /\ writers'[p] = writers[p] + 1 /\ writers[p] \in Int
       /\ \A r \in Procs : r # p => writers'[r] = writers[r]
  <2>1. writers \in [Procs -> Int]
    BY <1>1 DEF TypeOK
  <2>2. QED
    BY <1>6, <2>1
<1>13. pk \in Packets /\ pk.type # "MESSAGE" /\ pk \notin Pending(q)
  BY <1>4, <1>8, Packed DEF Accepted, Answered
<1>14. /\ pipe' \in [Procs -> Seq(Packets)] /\ \A r \in Procs : Len(pipe'[r]) <= PipeCap
       /\ \A r \in Procs : InboxOK(r)'
       /\ \A r \in Procs : \A x : x \in Signals(pipe[r])' <=> x \in Signals(pipe[r]) \/ (r = q /\ x = pk)
       /\ \A r \in Procs : \A x : x \in Pending(r)' <=> x \in Pending(r) \/ (r = q /\ x = pk)
  BY <1>1, <1>6, <1>13, SignalSent
<1>15. TypeOK'
  <2>1. app' \in [Procs -> Positions]
    BY <1>1, <1>6, Positioned DEF TypeOK
  <2>2. QED
    BY <1>1, <1>6, <1>11, <1>12, <1>14, <2>1 DEF TypeOK
<1>16. /\ \A r, s \in Procs, j \in Ids : Requested(r, s, j)' <=> Requested(r, s, j)
       /\ \A r, s \in Procs, j \in Ids :
             Request(s, j) \in Signals(pipe[r])' <=> Request(s, j) \in Signals(pipe[r])
       /\ \A r \in Procs, l \in Ids : Returned(r, l)' <=> Returned(r, l)
  <2>1. /\ \A s \in Procs, j \in Ids : Request(s, j) # pk
        /\ \A l \in Ids : Packet("DISCONNECT", l, << >>) # pk
    BY <1>4, PacketsDiffer
  <2>2. /\ \A r, s \in Procs, j \in Ids : Requested(r, s, j)' <=> Requested(r, s, j)
        /\ \A r, s \in Procs, j \in Ids :
             Request(s, j) \in Signals(pipe[r])' <=> Request(s, j) \in Signals(pipe[r])
    BY <1>14, <2>1 DEF Requested, Request, Packet
  <2>3. \A r \in Procs, l \in Ids : Returned(r, l)' <=> Returned(r, l)
    BY <1>14, <2>1 DEF Returned
  <2>4. QED
    BY <2>2, <2>3
<1>17. \A r \in Procs, j, l \in Ids :
          Answered(r, j, l)' <=> Answered(r, j, l) \/ (r = q /\ j = i /\ l = k)
  BY <1>4, <1>14, PacketsDiffer DEF Answered
<1>18. /\ \A r \in Procs, j \in Ids : r # p \/ j # k => (HasChan(r, j)' <=> HasChan(r, j))
       /\ HasChan(p, k)'
  <2>1. c # NoChan
    <3>1. c.writeid # NoChan.writeid
      BY <1>5, Numbers DEF NoChan
    <3>2. QED
      BY <3>1
  <2>2. QED
    BY <1>11, <2>1 DEF HasChan
<1>19. \A r, s \in Procs, j, l \in Ids :
          Granted(r, j, s, l)' <=> Granted(r, j, s, l) \/ (r = p /\ j = k /\ s = q /\ l = i)
  <2>1. \A r, s \in Procs, j, l \in Ids : r # p \/ j # k => (Granted(r, j, s, l)' <=> Granted(r, j, s, l))
    BY <1>11, <1>18 DEF Granted
  <2>2. \A s \in Procs, l \in Ids : Granted(p, k, s, l)' <=> s = q /\ l = i
    BY <1>2, <1>5, <1>11, <1>18 DEF Granted
  <2>3. \A s \in Procs, l \in Ids : ~Granted(p, k, s, l)
    BY <1>9 DEF Granted
  <2>4. QED
    BY <2>1, <2>2, <2>3
<1>20. /\ ~Awaits(p) /\ ~Awaits(p)' /\ ~Killed(p) /\ ~Killed(p)'
       /\ \A s \in Procs : ~Accepting(p, s)'
       /\ \A s \in Procs : Accepting(p, s) => s = q
  BY <1>2, <1>6, <1>10 DEF Awaits, Killed, Accepting
<1>21. /\ \A r \in Procs : (Awaits(r)' <=> Awaits(r)) /\ (Killed(r)' <=> Killed(r))
       /\ \A r, s \in Procs : r # p => (Accepting(r, s)' <=> Accepting(r, s))
  <2>1. \A r \in Procs : r # p => (Awaits(r)' <=> Awaits(r)) /\ (Killed(r)' <=> Killed(r))
    BY <1>10 DEF Awaits, Killed
  <2>2. \A r, s \in Procs : r # p => (Accepting(r, s)' <=> Accepting(r, s))
    BY <1>10 DEF Accepting
  <2>3. QED
    BY <1>20, <2>1, <2>2
<1>22. Accepted(q)' /\ \A r \in Procs : r # q => (Accepted(r)' <=> Accepted(r))
  BY <1>17 DEF Accepted
<1>23. \A r, s \in Procs, l \in Ids :
          Promised(r, s, l)' <=> Promised(r, s, l) \/ (r = q /\ s = p /\ l = k)
  <2>1. \A r, s \in Procs, l \in Ids : r # q => (Promised(r, s, l)' <=> Promised(r, s, l))
    BY <1>10, <1>17, <1>20, <1>21 DEF Promised
  <2>2. \A j, l \in Ids : Answered(q, j, l)' <=> j = i /\ l = k
    BY <1>8, <1>17 DEF Accepted
  <2>3. \A s \in Procs, l \in Ids : Promised(q, s, l)' <=> s = p /\ l = k
    BY <1>8, <1>9, <1>10, <1>21, <2>2 DEF Promised
  <2>4. \A s \in Procs, l \in Ids : ~Promised(q, s, l)
    BY <1>8 DEF Promised, Accepted
  <2>5. QED
    BY <2>1, <2>3, <2>4
<1>24. \A r \in Procs, l \in Ids :
          Held(r, l)' <=> Held(r, l) \/ (r = p /\ l = k) \/ (r = q /\ l = i)
  <2>1. Held(p, k)' /\ Held(q, i)'
    BY <1>19, <1>23 DEF Held
  <2>2. ASSUME NEW r \in Procs, NEW l \in Ids, ~(r = p /\ l = k), ~(r = q /\ l = i)
        PROVE  Held(r, l)' <=> Held(r, l)
    <3>1. \A s \in Procs, j \in Ids : Granted(s, j, r, l)' <=> Granted(s, j, r, l)
      BY <1>19, <2>2
    <3>2. \A s \in Procs : Promised(s, r, l)' <=> Promised(s, r, l)
      BY <1>23, <2>2
    <3>3. QED
      BY <1>16, <3>1, <3>2 DEF Held
  <2>3. QED
    BY <2>1, <2>2
<1>25. \A f \in Fds : Served(f)' <=> Served(f)
  BY <1>1, <1>6, <1>21, TypeFacts DEF HasReader, Served, Killed
<1>26. \A s \in Procs : Awaits(s) => app'[s] = app[s] /\ (Through(s) => Through(s)')
  <2>1. SUFFICES ASSUME NEW s \in Procs, Awaits(s)
                 PROVE  app'[s] = app[s] /\ (Through(s) => Through(s)')
    OBVIOUS
  <2>2. app'[s] = app[s] /\ app[s].args \in Fds
    BY <1>1, <1>10, <1>20, <2>1, TypeFacts
  <2>3. Served(app[s].args) => Served(app[s].args)'
    BY <1>25, <2>2 DEF Served, HasReader
  <2>4. QED
    BY <1>6, <2>2, <2>3 DEF Through
<1>27. RequestsOK'
  <2>1. ASSUME NEW r \in Procs, NEW s \in Procs, s # q PROVE RequestOK(r, s)'
    <3>1. RequestOK(r, s)
      BY <1>1 DEF RequestsOK
    <3>2. Accepting(r, s) => r # p /\ app'[r] = app[r]
      BY <1>10, <1>20, <2>1
    <3>3. Accepting(r, s)' <=> Accepting(r, s)
      BY <1>20, <1>21, <2>1
    <3>4. \A j \in Ids : Request(s, j) \in Signals(pipe[r])' =>
             Request(s, j) \in Signals(pipe[r]) /\ (HasReader(app[s].args) => HasReader(app[s].args)')
      <4>1. \A j \in Ids : Request(s, j) \in Signals(pipe[r]) => Awaits(s)
        BY <3>1 DEF RequestOK, Requested, Pending
      <4>2. Awaits(s) => (HasReader(app[s].args) => HasReader(app[s].args)')
        BY <1>6, <1>26 DEF HasReader
      <4>3. QED
        BY <1>16, <4>1, <4>2
    <3>5. Accepting(r, s) /\ HasReader(app[r].to) => HasReader(app[r].to)'
      BY <1>6, <3>2 DEF HasReader
    <3>6. \A j, l \in Ids : Answered(s, j, l)' <=> Answered(s, j, l)
      BY <1>17, <2>1
    <3>7. (Awaits(s)' <=> Awaits(s)) /\ \A j \in Ids : Requested(r, s, j)' => Requested(r, s, j)
      BY <1>16, <1>21
    <3>8. QED
      BY <1>26, <3>1, <3>2, <3>3, <3>4, <3>5, <3>6, <3>7, RequestKept
  <2>2. ASSUME NEW r \in Procs PROVE RequestOK(r, q)'
    <3>1. ~Accepting(r, q)'
      <4>1. Accepting(r, q) => r = p
        BY <1>1, <1>8 DEF RequestsOK, RequestOK
      <4>2. QED
        BY <1>20, <1>21, <4>1
    <3>2. \A j \in Ids : ~Requested(r, q, j)'
      <4>1. \A j \in Ids : ~Requested(r, q, j)
        BY <1>1, <1>7, <1>8 DEF RequestsOK, RequestOK
      <4>2. QED
        BY <1>16, <4>1
    <3>3. \A j, l \in Ids : Answered(q, j, l)' => j = i /\ l = k
      BY <1>8, <1>17 DEF Accepted
    <3>4. Awaits(q)' /\ app'[q].src = i /\ Through(q)'
      BY <1>8, <1>21, <1>26
    <3>5. QED
      BY <3>1, <3>2, <3>3, <3>4 DEF RequestOK
  <2>3. QED
    BY <2>1, <2>2 DEF RequestsOK
<1>28. RightsOK'
  <2>1. /\ ~Returned(q, i) /\ ~Returned(p, k)
        /\ \A r \in Procs, j \in Ids : ~Granted(r, j, q, i) /\ ~Granted(r, j, p, k)
        /\ \A r \in Procs : ~Promised(r, q, i) /\ ~Promised(r, p, k)
    BY <1>9 DEF Held
  <2>2. \A r, s \in Procs, j, l \in Ids : Granted(r, j, s, l)' =>
           r # s /\ ~Returned(s, l)' /\ (Served(chans[r][j].fd)' \/ <<r, j>> \in stale')
    <3>1. SUFFICES ASSUME NEW r \in Procs, NEW s \in Procs, NEW j \in Ids, NEW l \in Ids,
                          Granted(r, j, s, l)'
                   PROVE  r # s /\ ~Returned(s, l)' /\ (Served(chans[r][j].fd)' \/ <<r, j>> \in stale')
      OBVIOUS
    <3>2. CASE r = p /\ j = k /\ s = q /\ l = i
      <4>1. HasReader(fd)'
        BY <1>6 DEF HasReader
      <4>2. Served(chans[p][k].fd)'
        BY <1>5, <1>11, <4>1 DEF Served, HasReader
      <4>3. QED
        BY <1>9, <1>16, <2>1, <3>2, <4>2
    <3>3. CASE Granted(r, j, s, l)
      <4>1. r # s /\ ~Returned(s, l) /\ (Served(chans[r][j].fd) \/ <<r, j>> \in stale)
        BY <1>1, <3>3 DEF RightsOK
      <4>2. chans'[r][j] = chans[r][j]
        BY <1>9, <1>11, <3>3 DEF Granted
      <4>3. chans[r][j].fd \in Fds
        BY <1>1, <3>3, TypeFacts DEF Granted
      <4>4. Served(chans[r][j].fd)' <=> Served(chans[r][j].fd)
        BY <1>25, <4>2, <4>3 DEF Served, HasReader
      <4>5. QED
        BY <1>6, <1>16, <4>1, <4>4
    <3>4. QED
      BY <1>19, <3>1, <3>2, <3>3
  <2>3. \A s, r, u \in Procs, l, j, n \in Ids :
           Granted(r, j, s, l)' /\ Granted(u, n, s, l)' => u = r /\ n = j
    <3>1. \A s, r, u \in Procs, l, j, n \in Ids :
             Granted(r, j, s, l) /\ Granted(u, n, s, l) => u = r /\ n = j
      BY <1>1 DEF RightsOK
    <3>2. QED
      BY <1>19, <2>1, <3>1
  <2>4. \A r, s, u \in Procs, l, j \in Ids : ~(Granted(r, j, s, l)' /\ Promised(u, s, l)')
    <3>1. \A r, s, u \in Procs, l, j \in Ids : ~(Granted(r, j, s, l) /\ Promised(u, s, l))
      BY <1>1 DEF RightsOK
    <3>2. QED
      BY <1>9, <1>19, <1>23, <2>1, <3>1
  <2>5. /\ \A s, r \in Procs, l \in Ids : ~(Promised(r, s, l)' /\ Returned(s, l)')
        /\ \A s, r, u \in Procs, l \in Ids : Promised(r, s, l)' /\ Promised(u, s, l)' => u = r
    <3>1. /\ \A s, r \in Procs, l \in Ids : ~(Promised(r, s, l) /\ Returned(s, l))
          /\ \A s, r, u \in Procs, l \in Ids : Promised(r, s, l) /\ Promised(u, s, l) => u = r
      BY <1>1 DEF RightsOK
    <3>2. QED
      BY <1>16, <1>23, <2>1, <3>1
  <2>6. QED
    BY <2>2, <2>3, <2>4, <2>5 DEF RightsOK
<1>29. ASSUME NEW r \in Procs PROVE IdsOK(r)'
  <2>1. nextId'[r] \in Nat /\ nextId[r] <= nextId'[r] /\ nextId'[r] = nextId[r]
    BY <1>1, <1>6, NextIds
  <2>2. CASE r # p /\ r # q
    <3>1. \A l \in Ids : (HasChan(r, l)' => HasChan(r, l)) /\ (Held(r, l)' => Held(r, l))
      BY <1>18, <1>24, <2>2
    <3>2. app'[r] = app[r] /\ (Awaits(r)' <=> Awaits(r)) /\ (Accepted(r)' <=> Accepted(r))
      BY <1>10, <1>21, <1>22, <2>2
    <3>3. QED
      BY <1>1, <2>1, <3>1, <3>2, IdsKept
  <2>3. CASE r = p
    <3>1. \A l \in Ids : InUse(p, l)' => InUse(p, l) \/ l = k
      BY <1>9, <1>18, <1>24 DEF InUse
    <3>2. \A l \in Ids : InUse(p, l)' => l < nextId'[p]
      BY <1>1, <1>9, <2>1, <2>3, <3>1 DEF IdsOK
    <3>3. QED
      BY <1>10, <1>20, <2>3, <3>2 DEF IdsOK
  <2>4. CASE r = q
    <3>1. \A l \in Ids : InUse(q, l)' => InUse(q, l) \/ l = i
      BY <1>9, <1>18, <1>24 DEF InUse
    <3>2. \A l \in Ids : InUse(q, l)' => l < nextId'[q]
      BY <1>1, <1>9, <2>1, <2>4, <3>1 DEF IdsOK
    <3>3. app'[q] = app[q] /\ app[q].at = "wait" /\ app[q].args.proc # q
      BY <1>1, <1>8, <1>9, <1>10 DEF Awaits
    <3>4. ~HasChan(q, i)'
      BY <1>9, <1>18
    <3>5. QED
      BY <1>8, <1>9, <1>22, <2>1, <2>4, <3>2, <3>3, <3>4 DEF IdsOK
  <2>5. QED
    BY <2>2, <2>3, <2>4
<1>30. ASSUME NEW r \in Procs PROVE CountOK(r)'
  <2>1. CASE r # p /\ r # q
    <3>1. (Accepted(r)' <=> Accepted(r)) /\ writers'[r] = writers[r]
          /\ \A l \in Ids : Held(r, l)' <=> Held(r, l)
      BY <1>12, <1>22, <1>24, <2>1
    <3>2. QED
      BY <1>1, <1>21, <3>1, SameCount
  <2>2. ASSUME NEW x \in Ids, ~Held(r, x), \A l \in Ids : Held(r, l)' <=> Held(r, l) \/ l = x
        PROVE  /\ Cardinality(Writers(r)') = Cardinality(Writers(r)) + 1
               /\ Cardinality(Writers(r)) \in Nat
    <3>1. Writers(r)' = Writers(r) \cup {x} /\ x \notin Writers(r)
      BY <2>2 DEF Writers
    <3>2. IsFiniteSet(Writers(r))
      BY Numbers, FS_Subset DEF Writers
    <3>3. QED
      BY <3>1, <3>2, FS_AddElement, FS_CardinalityType
  <2>3. CASE r = p
    <3>1. \A l \in Ids : Held(p, l)' <=> Held(p, l) \/ l = k
      BY <1>9, <1>24
    <3>2. /\ Cardinality(Writers(p)') = Cardinality(Writers(p)) + 1
          /\ Cardinality(Writers(p)) \in Nat
      BY <1>9, <2>2, <2>3, <3>1
    <3>3. writers[p] = Cardinality(Writers(p)) - (IF Accepted(p) THEN 1 ELSE 0)
      BY <1>1, <1>20 DEF CountOK
    <3>4. Accepted(p)' <=> Accepted(p)
      BY <1>9, <1>22
    <3>5. QED
      BY <1>12, <2>3, <3>2, <3>3, <3>4 DEF CountOK
  <2>4. CASE r = q
    <3>1. \A l \in Ids : Held(q, l)' <=> Held(q, l) \/ l = i
      BY <1>9, <1>24
    <3>2. /\ Cardinality(Writers(q)') = Cardinality(Writers(q)) + 1
          /\ Cardinality(Writers(q)) \in Nat
      BY <1>9, <2>2, <2>4, <3>1
    <3>3. ~Killed(q) /\ writers'[q] = writers[q]
      BY <1>8, <1>9, <1>12 DEF Killed, Awaits
    <3>4. writers[q] = Cardinality(Writers(q)) - 0
      BY <1>1, <1>8, <3>3 DEF CountOK
    <3>5. QED
      BY <1>22, <2>4, <3>2, <3>3, <3>4 DEF CountOK
  <2>5. QED
    BY <2>1, <2>3, <2>4
<1>31. ASSUME NEW r \in Procs PROVE ThreadOK(r)'
  <2>1. Len(queue[r]) \in Nat
    BY <1>1, QueueTypes
  <2>2. CASE r = p
    BY <1>10, <2>2 DEF ThreadOK
  <2>3. CASE r # p
    BY <1>1, <1>6, <1>10, <1>11, <2>1, <2>3, ThreadKept
  <2>4. QED
    BY <2>2, <2>3
<1>32. QED
  BY <1>14, <1>15, <1>27, <1>28, <1>29, <1>30, <1>31 DEF FifoInv

-----------------------------------------------------------------------------
(* The theorems.                                                           *)

LEMMA StepPacketRead ==
    ASSUME FifoInv, NEW p \in Procs, PacketRead(p)
    PROVE  FifoInv'
<1>1. TypeOK /\ app[p].at = "wait" /\ UNCHANGED <<pipe, inode, opens, openCalls, out, stale>>
  BY DEF FifoInv, PacketRead, api
<1>2. CASE \E m \in Unseen(p) :
              /\ Match(queue[p][m], app[p].type, app[p].src)
              /\ queue' = [queue EXCEPT ![p] = RemoveAt(queue[p], m)]
              /\ GotAccept(p, queue[p][m]) \/ GotConnect(p, queue[p][m]) \/ GotMessage(p, queue[p][m])
  <2>1. PICK m \in Unseen(p) :
              /\ Match(queue[p][m], app[p].type, app[p].src)
              /\ queue' = [queue EXCEPT ![p] = RemoveAt(queue[p], m)]
              /\ GotAccept(p, queue[p][m]) \/ GotConnect(p, queue[p][m]) \/ GotMessage(p, queue[p][m])
    BY <1>2
  <2>2. m \in 1..Len(queue[p])
    <3>1. app[p].seen \in Nat /\ Len(queue[p]) \in Nat
      <4>1. app[p] \in Positions
        BY <1>1 DEF TypeOK
      <4>2. QED
        BY <1>1, <4>1, PositionIs, QueueTypes
    <3>2. QED
      BY <3>1 DEF Unseen
  <2>3. CASE GotAccept(p, queue[p][m])
    BY <1>1, <2>1, <2>2, <2>3, StepGotAccept
  <2>4. CASE GotConnect(p, queue[p][m])
    BY <1>1, <2>1, <2>2, <2>4, StepGotConnect
  <2>5. CASE GotMessage(p, queue[p][m])
    BY <1>1, <2>1, <2>2, <2>5, StepGotMessage
  <2>6. QED
    BY <2>1, <2>3, <2>4, <2>5
<1>3. CASE /\ app' = [app EXCEPT ![p].seen = Len(queue[p])]
           /\ UNCHANGED <<queue, writers, nextId, chans, got>>
  BY <1>1, <1>3, StepLook
<1>4. QED
  BY <1>2, <1>3 DEF PacketRead

LEMMA StepPacketWrite ==
    ASSUME FifoInv, NEW p \in Procs, PacketWrite(p)
    PROVE  FifoInv'
<1>1. app[p].op \in {"connect", "accept", "disconnect", "write"}
  <2>1. app[p] \in Positions /\ app[p].at = "write"
    BY DEF FifoInv, TypeOK, PacketWrite
  <2>2. QED
    BY <2>1, PositionIs
<1>2. QED
  BY <1>1, StepWriteConnect, StepWriteAccept, StepWriteDisconnect, StepWriteMessage

LEMMA FifoStart ==
    ASSUME Init
    PROVE  FifoInv
<1>1. /\ \A p \in Procs : pipe[p] = << >> /\ queue[p] = << >> /\ inode[p] = NoPipe
      /\ \A p \in Procs : opens[p] = 0 /\ openCalls[p] = 0 /\ writers[p] = 0 /\ nextId[p] = 1
      /\ \A p \in Procs : app[p] = Idle /\ Idle.at = "idle"
      /\ \A p \in Procs, i \in Ids : chans[p][i] = NoChan
  BY DEF Init, Idle
<1>2. \A p \in Procs : Signals(pipe[p]) = {} /\ Signals(queue[p]) = {} /\ Pending(p) = {}
  BY <1>1, SignalsOfNone DEF Pending
<1>3. /\ \A p, q \in Procs, i \in Ids : ~Requested(p, q, i)
      /\ \A q \in Procs, i, k \in Ids : ~Answered(q, i, k)
      /\ \A p \in Procs, k \in Ids : ~Returned(p, k)
  BY <1>2 DEF Requested, Answered, Returned
<1>4. /\ \A p \in Procs : ~Awaits(p) /\ ~Accepted(p) /\ \A q \in Procs : ~Accepting(p, q)
      /\ \A p \in Procs, i \in Ids : ~HasChan(p, i)
  BY <1>1, <1>3 DEF Awaits, Accepted, Accepting, HasChan
<1>5. /\ \A q, p \in Procs, j, k \in Ids : ~Granted(q, j, p, k)
      /\ \A q, p \in Procs, k \in Ids : ~Promised(q, p, k)
      /\ \A p \in Procs, k \in Ids : ~Held(p, k) /\ ~InUse(p, k)
  BY <1>3, <1>4 DEF Granted, Promised, Held, InUse
<1>6. TypeOK
  <2>1. << >> \in Seq(Packets) /\ << >> \in Seq(Packets \ Disconnects) /\ << >> \in Seq(Units)
        /\ Len(<< >>) = 0
    OBVIOUS
  <2>2. pipe \in [Procs -> Seq(Packets)] /\ \A p \in Procs : Len(pipe[p]) <= PipeCap
    <3>1. PipeCap \in Nat
      BY FifoAssumption
    <3>2. QED
      BY <1>1, <2>1, <3>1 DEF Init
  <2>3. /\ queue \in [Procs -> Seq(Packets \ Disconnects)]
        /\ inode \in [Procs -> Nat] /\ opens \in [Procs -> Nat] /\ openCalls \in [Procs -> Nat]
        /\ writers \in [Procs -> Int]
    BY <2>1 DEF Init, NoPipe
  <2>4. \A p \in Procs : openCalls[p] <= MaxOpen[p] /\ opens[p] <= openCalls[p]
                         /\ inode[p] <= openCalls[p]
    <3>1. \A p \in Procs : MaxOpen[p] \in Nat
      BY FifoAssumption
    <3>2. QED
      BY <1>1, <3>1 DEF NoPipe
  <2>5. nextId \in [Procs -> 1..(MaxChan + 1)]
    BY Numbers DEF Init
  <2>6. chans \in [Procs -> [Ids -> Chans \cup {NoChan}]]
    BY DEF Init
  <2>7. app \in [Procs -> Positions]
    BY Positioned DEF Init
  <2>8. out \in [Procs -> [Ids -> 0..MaxUnits]]
    BY Numbers DEF Init
  <2>9. got \in [Procs -> [Ids -> Seq(Units)]] /\ stale \subseteq Procs \X Ids
    BY <2>1 DEF Init
  <2>10. QED
    BY <2>2, <2>3, <2>4, <2>5, <2>6, <2>7, <2>8, <2>9 DEF TypeOK
<1>7. ASSUME NEW p \in Procs PROVE InboxOK(p) /\ ThreadOK(p) /\ IdsOK(p) /\ CountOK(p)
  <2>1. InboxOK(p)
    BY <1>1, <1>2, SignalsOfNone DEF InboxOK
  <2>2. ThreadOK(p)
    BY <1>1 DEF ThreadOK
  <2>3. IdsOK(p)
    BY <1>1, <1>4, <1>5 DEF IdsOK
  <2>4. CountOK(p)
    <3>1. Writers(p) = {}
      BY <1>5 DEF Writers
    <3>2. Cardinality(Writers(p)) = 0
      BY <3>1, FS_EmptySet
    <3>3. QED
      BY <1>1, <1>4, <3>2 DEF CountOK
  <2>5. QED
    BY <2>1, <2>2, <2>3, <2>4
<1>8. RequestsOK /\ RightsOK
  BY <1>3, <1>4, <1>5 DEF RequestsOK, RequestOK, RightsOK
<1>9. QED
  BY <1>6, <1>7, <1>8 DEF FifoInv

LEMMA FifoStutters ==
    ASSUME FifoInv, UNCHANGED vars
    PROVE  FifoInv'
<1>1. UNCHANGED <<pipe, inode, opens, openCalls, queue, writers, nextId, chans, app, out, got, stale>>
  BY DEF vars
<1>2. TypeOK /\ \A r \in Procs : InboxOK(r) /\ ThreadOK(r)
  BY DEF FifoInv
<1>3. TypeOK'
  BY <1>1, <1>2 DEF TypeOK
<1>4. RequestsOK' /\ RightsOK' /\ \A r \in Procs : IdsOK(r)' /\ CountOK(r)'
  <2>1. \A r \in Procs : /\ Awaits(r)' <=> Awaits(r)
                         /\ Awaits(r) => app'[r].src = app[r].src /\ app'[r].args = app[r].args
                         /\ Killed(r)' <=> Killed(r)
    BY <1>1 DEF Awaits, Killed
  <2>2. \A r, q \in Procs : Accepting(r, q)' <=> Accepting(r, q)
    BY <1>1 DEF Accepting
  <2>3. \A r \in Procs : app[r].at = "write" \/ app'[r].at = "write" => app'[r] = app[r]
    BY <1>1
  <2>4. \A r \in Procs, k \in Ids : Returned(r, k)' <=> Returned(r, k)
    BY <1>1 DEF Returned, Packet
  <2>5. \A r \in Procs : /\ Signals(pipe[r])' \subseteq Signals(pipe[r])
                         /\ Pending(r)' = Pending(r)
    BY <1>1 DEF Pending
  <2>6. QED
    BY <1>1, <2>1, <2>2, <2>3, <2>4, <2>5, Settled
<1>5. ASSUME NEW r \in Procs PROVE ThreadOK(r)' /\ InboxOK(r)'
  <2>1. Len(queue[r]) \in Nat
    BY <1>2, QueueTypes
  <2>2. ThreadOK(r)'
    BY <1>1, <1>2, <2>1, ThreadKept
  <2>3. InboxOK(r)'
    BY <1>1, <1>2 DEF InboxOK
  <2>4. QED
    BY <2>2, <2>3
<1>6. QED
  BY <1>3, <1>4, <1>5 DEF FifoInv

\* The inductive invariant: a signal is in one place, the right to write to a
\* channel is with one process or in one packet, ids are given out once, and
\* g_writer_count is the number of rights not yet given back.
THEOREM FifoInvariant == Spec => []FifoInv
<1>1. Init => FifoInv
  BY FifoStart
<1>2. ASSUME FifoInv, [Next]_vars PROVE FifoInv'
  <2>1. ASSUME NEW p \in Procs, Poll(p) PROVE FifoInv'
    BY <1>2, <2>1, StepPollKeeps, StepPollCounts
  <2>2. ASSUME NEW p \in Procs, PacketRead(p) PROVE FifoInv'
    BY <1>2, <2>2, StepPacketRead
  <2>3. ASSUME NEW p \in Procs, PacketWrite(p) PROVE FifoInv'
    BY <1>2, <2>3, StepPacketWrite
  <2>4. ASSUME NEW p \in Procs, BrokenPipe(p) PROVE FifoInv'
    BY <1>2, <2>4, StepBrokenPipe
  <2>5. ASSUME NEW p \in Procs, Open(p) PROVE FifoInv'
    BY <1>2, <2>5, StepOpen
  <2>6. ASSUME NEW p \in Procs, Close(p) PROVE FifoInv'
    BY <1>2, <2>6, StepClose
  <2>7. ASSUME NEW p \in Procs, CloseProgress(p) PROVE FifoInv'
    BY <1>2, <2>7, StepCloseProgress
  <2>8. ASSUME NEW p \in Procs, CloseDone(p) PROVE FifoInv'
    BY <1>2, <2>8, StepCloseDone
  <2>9. ASSUME NEW p \in Procs, Accept(p) PROVE FifoInv'
    BY <1>2, <2>9, StepAccept
  <2>10. ASSUME NEW p \in Procs, NEW q \in Procs, Connect(p, q) PROVE FifoInv'
    BY <1>2, <2>10, StepConnect
  <2>11. ASSUME NEW p \in Procs, NEW i \in Ids, Disconnect(p, i) PROVE FifoInv'
    BY <1>2, <2>11, StepDisconnect
  <2>12. ASSUME NEW p \in Procs, NEW i \in Ids, NEW size \in ReadSizes, Read(p, i, size)
         PROVE  FifoInv'
    BY <1>2, <2>12, StepRead
  <2>13. ASSUME NEW p \in Procs, NEW i \in Ids, NEW size \in WriteSizes, Write(p, i, size)
         PROVE  FifoInv'
    BY <1>2, <2>13, StepWrite
  <2>14. ASSUME UNCHANGED vars PROVE FifoInv'
    BY <1>2, <2>14, FifoStutters
  <2>15. QED
    BY <1>2, <2>1, <2>2, <2>3, <2>4, <2>5, <2>6, <2>7, <2>8, <2>9, <2>10, <2>11, <2>12,
       <2>13, <2>14 DEF Next
<1>3. QED
  BY <1>1, <1>2, PTL DEF Spec

\* Pipes hold at most PipeCap well-formed packets, and no DISCONNECT is ever in a
\* queue, where packet_read would not find it.
THEOREM FifoTypeCorrect == Spec => []TypeOK
<1>1. FifoInv => TypeOK
  BY DEF FifoInv
<1>2. QED
  BY <1>1, FifoInvariant, PTL

\* spawn_net_close_fifo removes a pipe only when no process has a channel to it
\* or is about to get one; but for requests that the pipe outlived, no write on a
\* channel meets a closed pipe.
THEOREM ReadersStay == Spec => []ChannelsHaveReaders
<1>1. FifoInv => ChannelsHaveReaders
  <2>1. SUFFICES ASSUME FifoInv, NEW p \in Procs
                 PROVE  /\ \A i \in Ids : HasChan(p, i) =>
                              Served(chans[p][i].fd) \/ <<p, i>> \in stale
                        /\ app[p].at = "write" /\ app[p].op = "accept" => HasReader(app[p].to)
    BY DEF ChannelsHaveReaders
  <2>2. TypeOK /\ RequestsOK /\ RightsOK
    BY <2>1 DEF FifoInv
  <2>3. ASSUME NEW i \in Ids, HasChan(p, i)
        PROVE  Served(chans[p][i].fd) \/ <<p, i>> \in stale
    <3>1. PICK q \in Procs, k \in Ids : q = chans[p][i].fd.proc /\ k = chans[p][i].writeid
      <4>1. chans[p][i] \in Chans
        BY <2>2, <2>3, TypeFacts
      <4>2. QED
        BY <4>1 DEF Chans, Fds
    <3>2. Granted(p, i, q, k)
      BY <2>3, <3>1 DEF Granted
    <3>3. QED
      BY <2>2, <3>2 DEF RightsOK
  <2>4. ASSUME app[p].at = "write", app[p].op = "accept" PROVE HasReader(app[p].to)
    <3>1. app[p].to.proc \in Procs
      BY <2>1, <2>4, Writing
    <3>2. Accepting(p, app[p].to.proc)
      BY <2>4 DEF Accepting
    <3>3. QED
      BY <2>2, <3>1, <3>2 DEF RequestsOK, RequestOK
  <2>5. QED
    BY <2>3, <2>4
<1>2. QED
  BY <1>1, FifoInvariant, PTL

-----------------------------------------------------------------------------
(* The search in packet_read.                                              *)

\* A step after which p does not wait, or has not begun to search.
LEMMA SearchAnew ==
    ASSUME TypeOK, NothingOverlooked, NEW p \in Procs, NEW a, app' = [app EXCEPT ![p] = a],
           a.at # "wait" \/ a.seen = 0,
           \A r \in Procs : r # p => queue'[r] = queue[r]
    PROVE  NothingOverlooked'
<1>1. app'[p] = a /\ \A r \in Procs : r # p => app'[r] = app[r]
  BY AppSet
<1>2. SUFFICES ASSUME NEW r \in Procs, app'[r].at = "wait", NEW k \in 1..app'[r].seen
               PROVE  ~Match(queue'[r][k], app'[r].type, app'[r].src)
  BY DEF NothingOverlooked, Match
<1>3. CASE r = p
  BY <1>1, <1>2, <1>3
<1>4. CASE r # p
  BY <1>1, <1>2, <1>4 DEF NothingOverlooked
<1>5. QED
  BY <1>3, <1>4

\* Packets that arrive do not change the ones packet_read has looked at.
LEMMA SearchPoll ==
    ASSUME FifoInv, NothingOverlooked, NEW p \in Procs, Poll(p)
    PROVE  NothingOverlooked'
<1>1. TypeOK /\ InboxOK(p) /\ pipe[p] # << >> /\ pipe' = [pipe EXCEPT ![p] = Tail(@)] /\ app' = app
  BY DEF FifoInv, Poll
<1>2. Head(pipe[p]) \in Packets
  BY <1>1, PipeTail
<1>3. \A r \in Procs : \A k \in 1..Len(queue[r]) : queue'[r][k] = queue[r][k]
  <2>1. CASE queue' = queue
    BY <2>1
  <2>2. CASE /\ ~IsDisconnect(Head(pipe[p]))
             /\ queue' = [queue EXCEPT ![p] = Append(@, Head(pipe[p]))]
    <3>1. /\ \A r \in Procs : r # p => queue'[r] = queue[r]
          /\ \A k \in 1..Len(queue[p]) : queue'[p][k] = queue[p][k]
      BY <1>1, <1>2, <2>2, QueueAppend
    <3>2. QED
      BY <3>1
  <2>3. QED
    BY <2>1, <2>2 DEF Poll, Enqueue
<1>4. SUFFICES ASSUME NEW r \in Procs, app[r].at = "wait", NEW k \in 1..app[r].seen
               PROVE  ~Match(queue'[r][k], app[r].type, app[r].src)
  BY <1>1 DEF NothingOverlooked, Match
<1>5. k \in 1..Len(queue[r])
  <2>1. app[r].seen \in Nat /\ Len(queue[r]) \in Nat
    <3>1. app[r] \in Positions
      BY <1>1 DEF TypeOK
    <3>2. QED
      BY <1>1, <1>4, <3>1, PositionIs, QueueTypes
  <2>2. app[r].seen <= Len(queue[r])
    BY <1>4 DEF FifoInv, ThreadOK
  <2>3. QED
    BY <2>1, <2>2
<1>6. QED
  BY <1>3, <1>4, <1>5 DEF NothingOverlooked

\* The packets before the ones packet_read looks at were looked at before.
LEMMA SearchLook ==
    ASSUME TypeOK, NothingOverlooked, NEW p \in Procs, app[p].at = "wait", queue' = queue,
           \A k \in Unseen(p) : ~Match(queue[p][k], app[p].type, app[p].src),
           app' = [app EXCEPT ![p].seen = Len(queue[p])]
    PROVE  NothingOverlooked'
<1>1. app[p] \in Positions /\ DOMAIN app = Procs
  BY DEF TypeOK
<1>2. PICK n \in Nat : n = app[p].seen
  BY <1>1, PositionIs
<1>3. PICK l \in Nat : l = Len(queue[p])
  BY QueueTypes
<1>4. app[p] = [at |-> "wait", op |-> app[p].op, type |-> app[p].type, src |-> app[p].src,
                seen |-> app[p].seen, args |-> app[p].args]
  BY <1>1, PositionIs
<1>5. /\ app'[p].seen = l /\ app'[p].type = app[p].type /\ app'[p].src = app[p].src
      /\ \A r \in Procs : r # p => app'[r] = app[r]
  BY <1>1, <1>3, <1>4
<1>6. SUFFICES ASSUME NEW r \in Procs, app'[r].at = "wait", NEW k \in 1..app'[r].seen
               PROVE  ~Match(queue[r][k], app'[r].type, app'[r].src)
  BY DEF NothingOverlooked, Match
<1>7. CASE r = p
  <2>1. k \in 1..n \/ k \in (n + 1)..l
    BY <1>5, <1>6, <1>7
  <2>2. CASE k \in 1..n
    BY <1>2, <1>5, <1>7, <2>2 DEF NothingOverlooked
  <2>3. CASE k \in (n + 1)..l
    BY <1>2, <1>3, <1>5, <1>7, <2>3 DEF Unseen
  <2>4. QED
    BY <2>1, <2>2, <2>3
<1>8. CASE r # p
  BY <1>5, <1>6, <1>8 DEF NothingOverlooked
<1>9. QED
  BY <1>7, <1>8

LEMMA SearchFound ==
    ASSUME TypeOK, NothingOverlooked, NEW p \in Procs, NEW pk,
           \A r \in Procs : r # p => queue'[r] = queue[r],
           GotAccept(p, pk) \/ GotConnect(p, pk) \/ GotMessage(p, pk)
    PROVE  NothingOverlooked'
<1>1. CASE GotAccept(p, pk)
  BY <1>1, SearchAnew DEF GotAccept, Idle
<1>2. CASE GotConnect(p, pk)
  BY <1>2, SearchAnew DEF GotConnect, Idle, Send
<1>3. CASE GotMessage(p, pk)
  <2>1. PICK left : left = app[p].args - Len(pk.data)
    OBVIOUS
  <2>2. PICK a : a = IF left > 0 THEN Wait("read", "MESSAGE", app[p].src, left) ELSE Idle
    OBVIOUS
  <2>3. app' = [app EXCEPT ![p] = a]
    BY <1>3, <2>1, <2>2 DEF GotMessage
  <2>4. a.at # "wait" \/ a.seen = 0
    BY <2>2 DEF Wait, Idle
  <2>5. QED
    BY <2>3, <2>4, SearchAnew
<1>4. QED
  BY <1>1, <1>2, <1>3

LEMMA SearchRead ==
    ASSUME TypeOK, NothingOverlooked, NEW p \in Procs, PacketRead(p)
    PROVE  NothingOverlooked'
<1>1. app[p].at = "wait"
  BY DEF PacketRead
<1>2. CASE \E k \in Unseen(p) :
              /\ queue' = [queue EXCEPT ![p] = RemoveAt(queue[p], k)]
              /\ GotAccept(p, queue[p][k]) \/ GotConnect(p, queue[p][k]) \/ GotMessage(p, queue[p][k])
  <2>1. \A r \in Procs : r # p => queue'[r] = queue[r]
    BY <1>2 DEF TypeOK
  <2>2. QED
    BY <1>2, <2>1, SearchFound
<1>3. CASE /\ \A k \in Unseen(p) : ~Match(queue[p][k], app[p].type, app[p].src)
           /\ app' = [app EXCEPT ![p].seen = Len(queue[p])]
           /\ UNCHANGED <<queue, writers, nextId, chans, got>>
  BY <1>1, <1>3, SearchLook
<1>4. QED
  BY <1>2, <1>3 DEF PacketRead

LEMMA SearchWrite ==
    ASSUME TypeOK, NothingOverlooked, NEW p \in Procs, PacketWrite(p)
    PROVE  NothingOverlooked'
<1>1. queue' = queue /\ Wrote(p)
  BY DEF PacketWrite
<1>2. PICK a : a = app[p]
  OBVIOUS
<1>3. CASE app' = [app EXCEPT ![p] = Wait("connect", "ACCEPT", a.args, a.to)]
  <2>1. PICK w : w = Wait("connect", "ACCEPT", a.args, a.to)
    OBVIOUS
  <2>2. w.seen = 0
    BY <2>1 DEF Wait
  <2>3. QED
    BY <1>1, <1>3, <2>1, <2>2, SearchAnew
<1>4. CASE app' = [app EXCEPT ![p] = Idle]
  BY <1>1, <1>4, SearchAnew DEF Idle
<1>5. CASE app' = [app EXCEPT ![p] =
                 IF a.args.left = 0 THEN Idle
                 ELSE SendPart(p, a.args.chan, out[p][a.args.chan] + Len(a.pk.data),
                               a.args.left)]
  <2>1. PICK w : w = IF a.args.left = 0 THEN Idle
                     ELSE SendPart(p, a.args.chan, out[p][a.args.chan] + Len(a.pk.data),
                                   a.args.left)
    OBVIOUS
  <2>2. w.at # "wait"
    BY <2>1 DEF Idle, SendPart, Send
  <2>3. QED
    BY <1>1, <1>5, <2>1, <2>2, SearchAnew
<1>6. QED
  BY <1>1, <1>2, <1>3, <1>4, <1>5 DEF Wrote

LEMMA SearchStart ==
    ASSUME TypeOK, NothingOverlooked, NEW p \in Procs, NEW i, NEW size,
           Accept(p) \/ Disconnect(p, i) \/ Read(p, i, size) \/ Write(p, i, size)
    PROVE  NothingOverlooked'
<1>1. queue' = queue
  BY DEF Accept, Disconnect, Read, Write
<1>2. CASE Accept(p)
  <2>1. PICK a : a = Wait("accept", "CONNECT", NoId, NoId)
    OBVIOUS
  <2>2. app' = [app EXCEPT ![p] = a]
    BY <1>2, <2>1 DEF Accept
  <2>3. a.seen = 0
    BY <2>1 DEF Wait
  <2>4. QED
    BY <1>1, <2>2, <2>3, SearchAnew
<1>3. CASE Disconnect(p, i)
  <2>1. PICK a : a = Send("disconnect", chans[p][i].fd,
                       Packet("DISCONNECT", chans[p][i].writeid, << >>), i)
    OBVIOUS
  <2>2. app' = [app EXCEPT ![p] = a]
    BY <1>3, <2>1 DEF Disconnect
  <2>3. a.at # "wait"
    BY <2>1 DEF Send
  <2>4. QED
    BY <1>1, <2>2, <2>3, SearchAnew
<1>4. CASE Read(p, i, size)
  <2>1. PICK a : a = Wait("read", "MESSAGE", i, size)
    OBVIOUS
  <2>2. app' = [app EXCEPT ![p] = a]
    BY <1>4, <2>1 DEF Read
  <2>3. a.seen = 0
    BY <2>1 DEF Wait
  <2>4. QED
    BY <1>1, <2>2, <2>3, SearchAnew
<1>5. CASE Write(p, i, size)
  <2>1. PICK a : a = SendPart(p, i, out[p][i], size)
    OBVIOUS
  <2>2. app' = [app EXCEPT ![p] = a]
    BY <1>5, <2>1 DEF Write
  <2>3. a.at # "wait"
    BY <2>1 DEF SendPart, Send
  <2>4. QED
    BY <1>1, <2>2, <2>3, SearchAnew
<1>6. QED
  BY <1>2, <1>3, <1>4, <1>5

LEMMA SearchOther ==
    ASSUME TypeOK, NothingOverlooked, NEW p \in Procs, NEW q \in Procs,
           BrokenPipe(p) \/ Close(p) \/ CloseProgress(p) \/ CloseDone(p) \/ Connect(p, q)
    PROVE  NothingOverlooked'
<1>1. queue' = queue
  BY DEF BrokenPipe, Close, CloseProgress, CloseDone, Connect
<1>2. CASE BrokenPipe(p) \/ CloseProgress(p) \/ CloseDone(p)
  BY <1>1, <1>2, SearchAnew DEF BrokenPipe, CloseProgress, CloseDone, Idle
<1>3. CASE Close(p)
  <2>1. PICK a : a = IF opens[p] = 1 THEN [at |-> "close"] ELSE Idle
    OBVIOUS
  <2>2. app' = [app EXCEPT ![p] = a]
    BY <1>3, <2>1 DEF Close
  <2>3. a.at # "wait"
    BY <2>1 DEF Idle
  <2>4. QED
    BY <1>1, <2>2, <2>3, SearchAnew
<1>4. CASE Connect(p, q)
  <2>1. PICK a : a = Send("connect", Fd(q), Packet("CONNECT", NoId, [proc |-> p, id |-> nextId[p]]),
                       nextId[p])
    OBVIOUS
  <2>2. app' = [app EXCEPT ![p] = a]
    BY <1>4, <2>1 DEF Connect
  <2>3. a.at # "wait"
    BY <2>1 DEF Send
  <2>4. QED
    BY <1>1, <2>2, <2>3, SearchAnew
<1>5. QED
  BY <1>2, <1>3, <1>4

\* packet_read looks only at the packets that arrived since its last look, and
\* yet never passes over a packet it waits for: while it waits, what it has
\* looked at stays where it is in the queue.
THEOREM NothingPassedOver == Spec => []NothingOverlooked
<1>1. Init => NothingOverlooked
  BY DEF Init, NothingOverlooked, Idle
<1>2. ASSUME FifoInv, NothingOverlooked, [Next]_vars PROVE NothingOverlooked'
  <2>1. TypeOK
    BY <1>2 DEF FifoInv
  <2>2. ASSUME NEW p \in Procs, Open(p) PROVE NothingOverlooked'
    BY <1>2, <2>2 DEF Open, NothingOverlooked, Match
  <2>3. ASSUME UNCHANGED vars PROVE NothingOverlooked'
    BY <1>2, <2>3 DEF vars, NothingOverlooked, Match
  <2>4. ASSUME NEW p \in Procs,
               Poll(p) \/ PacketRead(p) \/ PacketWrite(p) \/ BrokenPipe(p) \/ Open(p) \/ Close(p)
                 \/ CloseProgress(p) \/ CloseDone(p) \/ Accept(p)
        PROVE  NothingOverlooked'
    BY <1>2, <2>1, <2>2, <2>4, SearchPoll, SearchRead, SearchWrite, SearchOther, SearchStart
  <2>5. ASSUME NEW p \in Procs, NEW q \in Procs, Connect(p, q) PROVE NothingOverlooked'
    BY <1>2, <2>1, <2>5, SearchOther
  <2>6. ASSUME NEW p \in Procs, NEW i \in Ids,
               \/ Disconnect(p, i)
               \/ \E size \in ReadSizes : Read(p, i, size)
               \/ \E size \in WriteSizes : Write(p, i, size)
        PROVE  NothingOverlooked'
    BY <1>2, <2>1, <2>6, SearchStart
  <2>7. QED
    BY <1>2, <2>3, <2>4, <2>5, <2>6 DEF Next
<1>3. QED
  BY <1>1, <1>2, FifoInvariant, PTL DEF Spec

-----------------------------------------------------------------------------
(***************************************************************************)
(* Channels are separate streams, although all peers of a process share    *)
(* its pipe and its queue (StreamsAreSeparate).                            *)
(*                                                                         *)
(* The argument: the messages for a channel, in the queue and then in the  *)
(* pipe, are the continuation of what was read from it (Flow), they come   *)
(* from the one process whose channel it is (SourceOK), and they end with  *)
(* what that process wrote last (EndOK), so that the next packet it writes *)
(* continues them.                                                         *)
(***************************************************************************)

-----------------------------------------------------------------------------
(* The messages for a channel in a sequence of packets.                    *)

LEMMA RunIs ==
    ASSUME NEW pk \in Packets, NEW i, IsMessage(pk, i), NEW r, NEW j, RunOf(pk, r, j)
    PROVE  /\ FirstUnit(pk) \in Nat \ {0} /\ LastUnit(pk) \in Nat /\ FirstUnit(pk) <= LastUnit(pk)
           /\ Len(pk.data) \in Nat \ {0} /\ LastUnit(pk) = FirstUnit(pk) + Len(pk.data) - 1
<1>1. pk.data \in Seq(Units)
  BY PacketIs DEF IsMessage
<1>2. pk.data # << >>
  BY DEF RunOf
<1>3. Len(pk.data) \in Nat \ {0} /\ pk.data[1] \in Units
  BY <1>1, <1>2
<1>4. pk.data[1][3] \in Nat \ {0}
  BY <1>3, Numbers DEF Units
<1>5. QED
  BY <1>3, <1>4 DEF FirstUnit, LastUnit

LEMMA PacketsRemove ==
    ASSUME NEW s \in Seq(Packets), NEW m \in 1..Len(s), NEW t, t = RemoveAt(s, m)
    PROVE  /\ t \in Seq(Packets) /\ Len(t) = Len(s) - 1 /\ Len(s) \in Nat \ {0} /\ s[m] \in Packets
           /\ \A k \in 1..(Len(s) - 1) : t[k] = IF k < m THEN s[k] ELSE s[k + 1]
<1>1. IsRemoval(Packets, s, m, t)
  BY RemoveIs
<1>2. QED
  BY ONLY <1>1 DEF IsRemoval

\* A packet that is not a message for i comes or goes.
LEMMA AppendOther ==
    ASSUME NEW s \in Seq(Packets), NEW x \in Packets, NEW i, ~IsMessage(x, i),
           NEW t, t = Append(s, x)
    PROVE  /\ \A r, j, n : Flow(s, i, r, j, n) => Flow(t, i, r, j, n)
           /\ \A n, e : EndsAt(s, i, n, e) => EndsAt(t, i, n, e)
           /\ Carries(t, i) <=> Carries(s, i)
<1>1. /\ t \in Seq(Packets) /\ Len(t) = Len(s) + 1 /\ t[Len(s) + 1] = x /\ Len(s) \in Nat
      /\ \A k \in 1..Len(s) : t[k] = s[k]
  OBVIOUS
<1>2. \A k \in 1..Len(t) : IsMessage(t[k], i) => k \in 1..Len(s) /\ t[k] = s[k]
  BY <1>1
<1>3. \A k \in 1..Len(s) : k \in 1..Len(t) /\ t[k] = s[k] /\ \A l \in 1..(k - 1) : l \in 1..Len(s)
  BY <1>1
<1>4. Carries(t, i) <=> Carries(s, i)
  BY <1>2, <1>3 DEF Carries
<1>5. ASSUME NEW r, NEW j, NEW n, Flow(s, i, r, j, n) PROVE Flow(t, i, r, j, n)
  <2>1. SUFFICES ASSUME NEW k \in 1..Len(t), IsMessage(t[k], i)
                 PROVE  /\ RunOf(t[k], r, j)
                        /\ \/ FirstUnit(t[k]) = n + 1
                           \/ \E l \in 1..(k - 1) :
                                 IsMessage(t[l], i) /\ FirstUnit(t[k]) = LastUnit(t[l]) + 1
                        /\ \A l \in 1..(k - 1) : IsMessage(t[l], i) => LastUnit(t[l]) < FirstUnit(t[k])
    BY DEF Flow
  <2>2. k \in 1..Len(s) /\ t[k] = s[k] /\ \A l \in 1..(k - 1) : t[l] = s[l]
    BY <1>2, <1>3, <2>1
  <2>3. QED
    BY <1>5, <2>1, <2>2 DEF Flow
<1>6. ASSUME NEW n, NEW e, EndsAt(s, i, n, e) PROVE EndsAt(t, i, n, e)
  BY <1>2, <1>3, <1>4, <1>6 DEF EndsAt
<1>7. QED
  BY <1>4, <1>5, <1>6

LEMMA RemoveOther ==
    ASSUME NEW s \in Seq(Packets), NEW m \in 1..Len(s), NEW i, ~IsMessage(s[m], i),
           NEW t, t = RemoveAt(s, m)
    PROVE  /\ \A r, j, n : Flow(s, i, r, j, n) => Flow(t, i, r, j, n)
           /\ \A n, e : EndsAt(s, i, n, e) => EndsAt(t, i, n, e)
           /\ Carries(t, i) => Carries(s, i)
<1>1. /\ t \in Seq(Packets) /\ Len(t) = Len(s) - 1 /\ Len(s) \in Nat \ {0} /\ s[m] \in Packets
      /\ \A k \in 1..(Len(s) - 1) : t[k] = IF k < m THEN s[k] ELSE s[k + 1]
  BY PacketsRemove, Zenon
<1>2. PICK f : f = [k \in 1..Len(t) |-> IF k < m THEN k ELSE k + 1]
  OBVIOUS
<1>3. \A k \in 1..Len(t) : f[k] \in 1..Len(s) /\ t[k] = s[f[k]] /\ f[k] # m
  BY <1>1, <1>2
<1>4. \A k, l \in 1..Len(t) : l < k <=> f[l] < f[k]
  BY <1>1, <1>2
<1>5. \A k \in 1..Len(s) : k # m => \E l \in 1..Len(t) : f[l] = k
  <2>1. SUFFICES ASSUME NEW k \in 1..Len(s), k # m PROVE \E l \in 1..Len(t) : f[l] = k
    OBVIOUS
  <2>2. CASE k < m
    BY <1>1, <1>2, <2>2
  <2>3. CASE k > m
    <3>1. k - 1 \in 1..Len(t) /\ f[k - 1] = k
      BY <1>1, <1>2, <2>3
    <3>2. QED
      BY <3>1
  <2>4. QED
    BY <2>1, <2>2, <2>3
<1>6. ASSUME NEW r, NEW j, NEW n, Flow(s, i, r, j, n) PROVE Flow(t, i, r, j, n)
  <2>1. SUFFICES ASSUME NEW k \in 1..Len(t), IsMessage(t[k], i)
                 PROVE  /\ RunOf(t[k], r, j)
                        /\ \/ FirstUnit(t[k]) = n + 1
                           \/ \E l \in 1..(k - 1) :
                                 IsMessage(t[l], i) /\ FirstUnit(t[k]) = LastUnit(t[l]) + 1
                        /\ \A l \in 1..(k - 1) : IsMessage(t[l], i) => LastUnit(t[l]) < FirstUnit(t[k])
    BY DEF Flow
  <2>2. f[k] \in 1..Len(s) /\ t[k] = s[f[k]]
    BY <1>3
  <2>3. \A l \in 1..(f[k] - 1) : IsMessage(s[l], i) => \E x \in 1..(k - 1) : t[x] = s[l]
    <3>1. SUFFICES ASSUME NEW l \in 1..(f[k] - 1), IsMessage(s[l], i)
                   PROVE  \E x \in 1..(k - 1) : t[x] = s[l]
      OBVIOUS
    <3>2. l \in 1..Len(s) /\ l # m /\ l < f[k]
      BY <1>1, <2>2, <3>1
    <3>3. PICK x \in 1..Len(t) : f[x] = l
      BY <1>5, <3>2
    <3>4. x < k
      BY <1>4, <3>2, <3>3
    <3>5. x \in 1..(k - 1)
      BY <3>4
    <3>6. QED
      BY <1>3, <3>3, <3>5
  <2>4. \A l \in 1..(k - 1) : f[l] \in 1..(f[k] - 1) /\ t[l] = s[f[l]]
    <3>1. SUFFICES ASSUME NEW l \in 1..(k - 1) PROVE f[l] \in 1..(f[k] - 1) /\ t[l] = s[f[l]]
      OBVIOUS
    <3>2. l \in 1..Len(t) /\ l < k
      BY <1>1
    <3>3. QED
      BY <1>1, <1>3, <1>4, <2>2, <3>2
  <2>5. RunOf(s[f[k]], r, j)
    BY <1>6, <2>1, <2>2 DEF Flow
  <2>6. \/ FirstUnit(s[f[k]]) = n + 1
        \/ \E l \in 1..(f[k] - 1) : IsMessage(s[l], i) /\ FirstUnit(s[f[k]]) = LastUnit(s[l]) + 1
    BY <1>6, <2>1, <2>2 DEF Flow
  <2>7. \A l \in 1..(f[k] - 1) : IsMessage(s[l], i) => LastUnit(s[l]) < FirstUnit(s[f[k]])
    BY <1>6, <2>1, <2>2 DEF Flow
  <2>8. QED
    BY <2>2, <2>3, <2>4, <2>5, <2>6, <2>7
<1>7. \A k \in 1..Len(s) : IsMessage(s[k], i) => \E l \in 1..Len(t) : t[l] = s[k]
  BY <1>3, <1>5
<1>8. Carries(t, i) <=> Carries(s, i)
  BY <1>3, <1>7 DEF Carries
<1>9. ASSUME NEW n, NEW e, EndsAt(s, i, n, e) PROVE EndsAt(t, i, n, e)
  <2>1. \A k \in 1..Len(t) : IsMessage(t[k], i) => LastUnit(t[k]) <= e
    BY <1>3, <1>9 DEF EndsAt
  <2>2. (e = n /\ ~Carries(t, i)) \/ \E k \in 1..Len(t) : IsMessage(t[k], i) /\ LastUnit(t[k]) = e
    BY <1>7, <1>8, <1>9 DEF EndsAt
  <2>3. QED
    BY <2>1, <2>2 DEF EndsAt
<1>10. QED
  BY <1>6, <1>8, <1>9

\* The packet that continues the messages for i comes.
LEMMA AppendMessage ==
    ASSUME NEW s \in Seq(Packets), NEW x \in Packets, NEW i, IsMessage(x, i),
           NEW r, NEW j, NEW n \in Nat, NEW e \in Nat, RunOf(x, r, j), FirstUnit(x) = e + 1,
           Flow(s, i, r, j, n), EndsAt(s, i, n, e), NEW t, t = Append(s, x)
    PROVE  Flow(t, i, r, j, n) /\ EndsAt(t, i, n, LastUnit(x))
<1>1. /\ t \in Seq(Packets) /\ Len(t) = Len(s) + 1 /\ t[Len(s) + 1] = x /\ Len(s) \in Nat
      /\ \A k \in 1..Len(s) : t[k] = s[k] /\ s[k] \in Packets
  OBVIOUS
<1>2. LastUnit(x) \in Nat /\ e + 1 <= LastUnit(x)
  BY RunIs
<1>3. \A k \in 1..Len(s) : IsMessage(s[k], i) => LastUnit(s[k]) \in Nat /\ LastUnit(s[k]) <= e
  <2>1. SUFFICES ASSUME NEW k \in 1..Len(s), IsMessage(s[k], i)
                 PROVE  LastUnit(s[k]) \in Nat /\ LastUnit(s[k]) <= e
    OBVIOUS
  <2>2. RunOf(s[k], r, j)
    BY <2>1 DEF Flow
  <2>3. LastUnit(s[k]) \in Nat
    BY <1>1, <2>1, <2>2, RunIs
  <2>4. QED
    BY <2>1, <2>3 DEF EndsAt
<1>4. \A k \in 1..Len(t) : k \in 1..Len(s) \/ k = Len(s) + 1
  BY <1>1
<1>5. Flow(t, i, r, j, n)
  <2>1. SUFFICES ASSUME NEW k \in 1..Len(t), IsMessage(t[k], i)
                 PROVE  /\ RunOf(t[k], r, j)
                        /\ \/ FirstUnit(t[k]) = n + 1
                           \/ \E l \in 1..(k - 1) :
                                 IsMessage(t[l], i) /\ FirstUnit(t[k]) = LastUnit(t[l]) + 1
                        /\ \A l \in 1..(k - 1) : IsMessage(t[l], i) => LastUnit(t[l]) < FirstUnit(t[k])
    BY DEF Flow
  <2>2. CASE k \in 1..Len(s)
    <3>1. t[k] = s[k] /\ \A l \in 1..(k - 1) : t[l] = s[l]
      BY <1>1, <2>2
    <3>2. QED
      BY <2>1, <2>2, <3>1 DEF Flow
  <2>3. CASE k = Len(s) + 1
    <3>1. t[k] = x /\ \A l : l \in 1..(k - 1) <=> l \in 1..Len(s)
      BY <1>1, <2>3
    <3>2. \A l \in 1..(k - 1) : IsMessage(t[l], i) => LastUnit(t[l]) < FirstUnit(t[k])
      BY <1>1, <1>3, <3>1
    <3>3. \/ FirstUnit(t[k]) = n + 1
          \/ \E l \in 1..(k - 1) : IsMessage(t[l], i) /\ FirstUnit(t[k]) = LastUnit(t[l]) + 1
      BY <1>1, <3>1 DEF EndsAt
    <3>4. QED
      BY <3>1, <3>2, <3>3
  <2>4. QED
    BY <1>4, <2>2, <2>3
<1>6. EndsAt(t, i, n, LastUnit(x))
  <2>1. ASSUME NEW k \in 1..Len(t), IsMessage(t[k], i) PROVE LastUnit(t[k]) <= LastUnit(x)
    <3>1. CASE k \in 1..Len(s)
      BY <1>1, <1>2, <1>3, <2>1, <3>1
    <3>2. CASE k = Len(s) + 1
      BY <1>1, <1>2, <3>2
    <3>3. QED
      BY <1>4, <3>1, <3>2
  <2>2. \E k \in 1..Len(t) : IsMessage(t[k], i) /\ LastUnit(t[k]) = LastUnit(x)
    <3>1. Len(s) + 1 \in 1..Len(t)
      BY <1>1
    <3>2. QED
      BY <1>1, <3>1
  <2>3. QED
    BY <2>1, <2>2 DEF EndsAt
<1>7. QED
  BY <1>5, <1>6

\* The first message for i goes.
LEMMA RemoveNext ==
    ASSUME NEW s \in Seq(Packets), NEW m \in 1..Len(s), NEW i, IsMessage(s[m], i),
           \A l \in 1..(m - 1) : ~IsMessage(s[l], i),
           NEW r, NEW j, NEW n \in Nat, Flow(s, i, r, j, n), NEW t, t = RemoveAt(s, m)
    PROVE  /\ RunOf(s[m], r, j) /\ FirstUnit(s[m]) = n + 1
           /\ Flow(t, i, r, j, n + Len(s[m].data))
           /\ \A e \in Nat : EndsAt(s, i, n, e) => EndsAt(t, i, n + Len(s[m].data), e)
           /\ Carries(s, i)
<1>1. /\ t \in Seq(Packets) /\ Len(t) = Len(s) - 1 /\ Len(s) \in Nat \ {0}
      /\ \A k \in 1..Len(s) : s[k] \in Packets
      /\ \A k \in 1..(Len(s) - 1) : t[k] = IF k < m THEN s[k] ELSE s[k + 1]
  <2>1. \A k \in 1..Len(s) : s[k] \in Packets
    OBVIOUS
  <2>2. QED
    BY <2>1, PacketsRemove
<1>2. RunOf(s[m], r, j) /\ FirstUnit(s[m]) = n + 1
  BY DEF Flow
<1>3. PICK c \in Nat \ {0} : c = Len(s[m].data) /\ LastUnit(s[m]) = n + c
  <2>1. s[m] \in Packets
    BY <1>1
  <2>2. Len(s[m].data) \in Nat \ {0} /\ LastUnit(s[m]) = FirstUnit(s[m]) + Len(s[m].data) - 1
    BY <1>2, <2>1, RunIs
  <2>3. LastUnit(s[m]) = n + Len(s[m].data)
    <3>1. \A a, b, x : x \in Nat /\ a = n + 1 /\ b = a + x - 1 => b = n + x
      OBVIOUS
    <3>2. QED
      BY <1>2, <2>2, <3>1
  <2>4. QED
    BY <2>2, <2>3
<1>4. \A k \in 1..Len(s) : IsMessage(s[k], i) =>
         /\ FirstUnit(s[k]) \in Nat /\ LastUnit(s[k]) \in Nat /\ FirstUnit(s[k]) <= LastUnit(s[k])
         /\ RunOf(s[k], r, j)
  <2>1. SUFFICES ASSUME NEW k \in 1..Len(s), IsMessage(s[k], i)
                 PROVE  /\ FirstUnit(s[k]) \in Nat /\ LastUnit(s[k]) \in Nat
                        /\ FirstUnit(s[k]) <= LastUnit(s[k]) /\ RunOf(s[k], r, j)
    OBVIOUS
  <2>2. RunOf(s[k], r, j)
    BY <2>1 DEF Flow
  <2>3. QED
    BY <1>1, <2>1, <2>2, RunIs
<1>5. \A k \in 1..Len(t) : IsMessage(t[k], i) =>
         k + 1 \in 1..Len(s) /\ t[k] = s[k + 1] /\ m < k + 1
  <2>1. SUFFICES ASSUME NEW k \in 1..Len(t), IsMessage(t[k], i)
                 PROVE  k + 1 \in 1..Len(s) /\ t[k] = s[k + 1] /\ m < k + 1
    OBVIOUS
  <2>2. CASE k < m
    BY <1>1, <2>1, <2>2
  <2>3. QED
    BY <1>1, <2>2
<1>6. \A k \in 1..Len(s) : IsMessage(s[k], i) /\ k # m =>
         /\ m < k /\ k - 1 \in 1..Len(t) /\ t[k - 1] = s[k] /\ n + c < FirstUnit(s[k])
         /\ \E l \in 1..(k - 1) : IsMessage(s[l], i) /\ FirstUnit(s[k]) = LastUnit(s[l]) + 1
  <2>1. SUFFICES ASSUME NEW k \in 1..Len(s), IsMessage(s[k], i), k # m
                 PROVE  /\ m < k /\ k - 1 \in 1..Len(t) /\ t[k - 1] = s[k] /\ n + c < FirstUnit(s[k])
                        /\ \E l \in 1..(k - 1) :
                              IsMessage(s[l], i) /\ FirstUnit(s[k]) = LastUnit(s[l]) + 1
    OBVIOUS
  <2>2. m < k
    BY <1>1, <2>1
  <2>3. k - 1 \in 1..Len(t) /\ t[k - 1] = s[k] /\ m \in 1..(k - 1)
    BY <1>1, <2>1, <2>2
  <2>4. n + c < FirstUnit(s[k])
    BY <1>3, <2>1, <2>3 DEF Flow
  <2>5. FirstUnit(s[k]) # n + 1
    BY <1>3, <1>4, <2>1, <2>4
  <2>6. QED
    BY <2>1, <2>2, <2>3, <2>4, <2>5 DEF Flow
<1>7. Flow(t, i, r, j, n + c)
  <2>1. SUFFICES ASSUME NEW k \in 1..Len(t), IsMessage(t[k], i)
                 PROVE  /\ RunOf(t[k], r, j)
                        /\ \/ FirstUnit(t[k]) = n + c + 1
                           \/ \E l \in 1..(k - 1) :
                                 IsMessage(t[l], i) /\ FirstUnit(t[k]) = LastUnit(t[l]) + 1
                        /\ \A l \in 1..(k - 1) : IsMessage(t[l], i) => LastUnit(t[l]) < FirstUnit(t[k])
    BY DEF Flow
  <2>2. k + 1 \in 1..Len(s) /\ t[k] = s[k + 1] /\ m < k + 1
    BY <1>5, <2>1
  <2>3. PICK l \in 1..k : IsMessage(s[l], i) /\ FirstUnit(s[k + 1]) = LastUnit(s[l]) + 1
    BY <1>1, <1>6, <2>1, <2>2
  <2>4. \/ FirstUnit(t[k]) = n + c + 1
        \/ \E x \in 1..(k - 1) : IsMessage(t[x], i) /\ FirstUnit(t[k]) = LastUnit(t[x]) + 1
    <3>1. CASE l = m
      BY <1>3, <2>2, <2>3, <3>1
    <3>2. CASE l # m
      <4>1. l \in 1..Len(s)
        BY <1>1, <2>2
      <4>2. l - 1 \in 1..Len(t) /\ t[l - 1] = s[l]
        BY <1>6, <2>3, <3>2, <4>1
      <4>3. l - 1 \in 1..(k - 1)
        BY <4>2
      <4>4. QED
        BY <2>2, <2>3, <4>2, <4>3
    <3>3. QED
      BY <3>1, <3>2
  <2>5. ASSUME NEW x \in 1..(k - 1), IsMessage(t[x], i) PROVE LastUnit(t[x]) < FirstUnit(t[k])
    <3>1. x \in 1..Len(t) /\ x + 1 \in 1..((k + 1) - 1)
      BY <1>1
    <3>2. t[x] = s[x + 1]
      BY <1>5, <2>5, <3>1
    <3>3. QED
      BY <2>1, <2>2, <2>5, <3>1, <3>2 DEF Flow
  <2>6. QED
    BY <1>4, <2>1, <2>2, <2>4, <2>5
<1>8. ASSUME NEW e \in Nat, EndsAt(s, i, n, e) PROVE EndsAt(t, i, n + c, e)
  <2>1. \A k \in 1..Len(t) : IsMessage(t[k], i) => LastUnit(t[k]) <= e
    BY <1>5, <1>8 DEF EndsAt
  <2>2. Carries(s, i)
    BY DEF Carries
  <2>3. PICK k \in 1..Len(s) : IsMessage(s[k], i) /\ LastUnit(s[k]) = e
    BY <1>8, <2>2 DEF EndsAt
  <2>4. CASE k # m
    BY <1>6, <2>1, <2>3, <2>4 DEF EndsAt
  <2>5. CASE k = m
    <3>1. e = n + c
      BY <1>3, <2>3, <2>5
    <3>2. ASSUME NEW l \in 1..Len(t), IsMessage(t[l], i) PROVE FALSE
      <4>1. l + 1 \in 1..Len(s) /\ t[l] = s[l + 1] /\ l + 1 # m
        BY <1>5, <3>2
      <4>2. n + c < FirstUnit(s[l + 1]) /\ FirstUnit(s[l + 1]) <= LastUnit(s[l + 1])
            /\ FirstUnit(s[l + 1]) \in Nat /\ LastUnit(s[l + 1]) \in Nat
        BY <1>4, <1>6, <3>2, <4>1
      <4>3. LastUnit(s[l + 1]) <= e
        BY <2>1, <3>2, <4>1
      <4>4. QED
        BY <3>1, <4>2, <4>3
    <3>3. QED
      BY <2>1, <3>1, <3>2 DEF EndsAt, Carries
  <2>6. QED
    BY <2>4, <2>5
<1>9. Carries(s, i)
  BY DEF Carries
<1>10. QED
  BY <1>2, <1>3, <1>7, <1>8, <1>9

\* The end of the sequence is lost.
LEMMA FlowCut ==
    ASSUME NEW s \in Seq(Packets), NEW t \in Seq(Packets), NEW i
    PROVE  /\ \A r, j, n : Flow(s \o t, i, r, j, n) => Flow(s, i, r, j, n)
           /\ Carries(s, i) => Carries(s \o t, i)
<1>1. PICK u : u = s \o t
  OBVIOUS
<1>2. Len(s) \in Nat /\ Len(u) \in Nat /\ Len(s) <= Len(u) /\ \A k \in 1..Len(s) : u[k] = s[k]
  BY <1>1
<1>3. \A k \in 1..Len(s) : k \in 1..Len(u)
  BY <1>2
<1>4. ASSUME NEW r, NEW j, NEW n, Flow(u, i, r, j, n) PROVE Flow(s, i, r, j, n)
  <2>1. SUFFICES ASSUME NEW k \in 1..Len(s), IsMessage(s[k], i)
                 PROVE  /\ RunOf(s[k], r, j)
                        /\ \/ FirstUnit(s[k]) = n + 1
                           \/ \E l \in 1..(k - 1) :
                                 IsMessage(s[l], i) /\ FirstUnit(s[k]) = LastUnit(s[l]) + 1
                        /\ \A l \in 1..(k - 1) : IsMessage(s[l], i) => LastUnit(s[l]) < FirstUnit(s[k])
    BY DEF Flow
  <2>2. \A l \in 1..(k - 1) : l \in 1..Len(s)
    BY <1>2
  <2>3. k \in 1..Len(u) /\ u[k] = s[k] /\ \A l \in 1..(k - 1) : u[l] = s[l]
    BY <1>2, <1>3, <2>2
  <2>4. QED
    BY <1>4, <2>1, <2>3 DEF Flow
<1>5. QED
  BY <1>1, <1>2, <1>3, <1>4 DEF Carries

\* The mail of a process when a packet moves from the pipe to the queue, comes
\* into the pipe, or leaves the queue.
LEMMA ConcatIs ==
    ASSUME NEW s \in Seq(Packets), NEW t \in Seq(Packets), NEW u, u = s \o t
    PROVE  /\ u \in Seq(Packets) /\ Len(s) \in Nat /\ Len(t) \in Nat /\ Len(u) = Len(s) + Len(t)
           /\ \A k \in 1..Len(s) : u[k] = s[k]
           /\ \A k \in 1..Len(t) : u[Len(s) + k] = t[k]
  OBVIOUS

LEMMA MailMoves ==
    ASSUME NEW s \in Seq(Packets), NEW t \in Seq(Packets), t # << >>
    PROVE  /\ Append(s, Head(t)) \o Tail(t) = s \o t
           /\ Len(s) + 1 \in 1..Len(s \o t) /\ (s \o t)[Len(s) + 1] = Head(t)
           /\ s \o Tail(t) = RemoveAt(s \o t, Len(s) + 1)
<1>1. PICK u : u = s \o t
  OBVIOUS
<1>2. PICK z : z = Tail(t)
  OBVIOUS
<1>3. /\ z \in Seq(Packets) /\ Len(t) \in Nat \ {0} /\ Len(z) = Len(t) - 1 /\ t[1] = Head(t) /\ t[1] \in Packets
      /\ \A k \in 1..Len(z) : z[k] = t[k + 1]
  BY <1>2
<1>4. PICK v : v = s \o z
  OBVIOUS
<1>5. PICK w : w = RemoveAt(u, Len(s) + 1)
  OBVIOUS
<1>6. PICK a : a = Append(s, t[1])
  OBVIOUS
<1>7. a \in Seq(Packets) /\ Len(a) = Len(s) + 1 /\ a[Len(s) + 1] = t[1] /\ \A k \in 1..Len(s) : a[k] = s[k]
  BY <1>3, <1>6
<1>8. PICK b : b = a \o z
  OBVIOUS
<1>9. /\ u \in Seq(Packets) /\ Len(s) \in Nat /\ Len(u) = Len(s) + Len(t)
      /\ \A k \in 1..Len(s) : u[k] = s[k]
      /\ \A k \in 1..Len(t) : u[Len(s) + k] = t[k]
  BY <1>1, ConcatIs
<1>10. /\ v \in Seq(Packets) /\ Len(v) = Len(s) + Len(z)
       /\ \A k \in 1..Len(s) : v[k] = s[k]
       /\ \A k \in 1..Len(z) : v[Len(s) + k] = z[k]
  <2>1. z \in Seq(Packets)
    BY <1>3
  <2>2. QED
    BY <1>4, <2>1, ConcatIs
<1>11. /\ b \in Seq(Packets) /\ Len(b) = Len(a) + Len(z)
       /\ \A k \in 1..Len(a) : b[k] = a[k]
       /\ \A k \in 1..Len(z) : b[Len(a) + k] = z[k]
  <2>1. z \in Seq(Packets) /\ a \in Seq(Packets)
    BY <1>3, <1>7
  <2>2. QED
    BY <1>8, <2>1, ConcatIs
<1>12. Len(s) + 1 \in 1..Len(u) /\ u[Len(s) + 1] = Head(t) /\ u \in Seq(Packets)
  BY <1>3, <1>9
<1>13. /\ w \in Seq(Packets) /\ Len(w) = Len(u) - 1
       /\ \A k \in 1..(Len(u) - 1) : w[k] = IF k < Len(s) + 1 THEN u[k] ELSE u[k + 1]
  <2>1. PICK m : m = Len(s) + 1
    OBVIOUS
  <2>2. m \in 1..Len(u) /\ u \in Seq(Packets) /\ w = RemoveAt(u, m)
    BY <1>5, <1>12, <2>1
  <2>3. /\ w \in Seq(Packets) /\ Len(w) = Len(u) - 1
        /\ \A k \in 1..(Len(u) - 1) : w[k] = IF k < m THEN u[k] ELSE u[k + 1]
    BY <2>2, PacketsRemove
  <2>4. QED
    BY <2>1, <2>3
<1>14. \A k : k \in 1..(Len(s) + Len(z)) => k \in 1..Len(s) \/ \E x \in 1..Len(z) : k = Len(s) + x
  <2>1. SUFFICES ASSUME NEW k \in 1..(Len(s) + Len(z)), k \notin 1..Len(s)
                 PROVE  \E x \in 1..Len(z) : k = Len(s) + x
    OBVIOUS
  <2>2. k - Len(s) \in 1..Len(z) /\ k = Len(s) + (k - Len(s))
    BY <1>3, <1>9, <2>1
  <2>3. QED
    BY <2>2
<1>15. ASSUME NEW k \in 1..Len(v) PROVE v[k] = w[k]
  <2>1. CASE k \in 1..Len(s)
    <3>1. k \in 1..(Len(u) - 1) /\ k < Len(s) + 1
      BY <1>3, <1>9, <2>1
    <3>2. w[k] = u[k]
      BY <1>13, <3>1
    <3>3. QED
      BY <1>9, <1>10, <2>1, <3>2
  <2>2. ASSUME NEW x \in 1..Len(z), k = Len(s) + x PROVE v[k] = w[k]
    <3>1. v[k] = t[x + 1]
      BY <1>3, <1>10, <2>2
    <3>2. k \in 1..(Len(u) - 1) /\ ~(k < Len(s) + 1) /\ k + 1 = Len(s) + (x + 1) /\ x + 1 \in 1..Len(t)
      BY <1>3, <1>9, <2>2
    <3>3. w[k] = u[Len(s) + (x + 1)]
      BY <1>13, <3>2
    <3>4. QED
      BY <1>9, <3>1, <3>2, <3>3
  <2>3. QED
    BY <1>10, <1>14, <2>1, <2>2
<1>16. Len(v) = Len(w)
  BY <1>3, <1>9, <1>10, <1>13
<1>17. v = w
  BY <1>10, <1>13, <1>15, <1>16, SeqEqual
<1>18. ASSUME NEW k \in 1..Len(b) PROVE b[k] = u[k]
  <2>1. CASE k \in 1..Len(s)
    <3>1. k \in 1..Len(a)
      BY <1>7, <1>9, <2>1
    <3>2. QED
      BY <1>7, <1>9, <1>11, <2>1, <3>1
  <2>2. CASE k = Len(s) + 1
    <3>1. k \in 1..Len(a)
      BY <1>7, <1>9, <2>2
    <3>2. b[k] = t[1]
      BY <1>7, <1>11, <2>2, <3>1
    <3>3. QED
      BY <1>3, <1>12, <2>2, <3>2
  <2>3. CASE k > Len(s) + 1
    <3>1. PICK x : x = k - (Len(s) + 1)
      OBVIOUS
    <3>2. x \in 1..Len(z) /\ k = Len(a) + x /\ x + 1 \in 1..Len(t) /\ k = Len(s) + (x + 1)
      BY <1>3, <1>7, <1>9, <1>11, <2>3, <3>1
    <3>3. b[k] = t[x + 1]
      BY <1>3, <1>11, <3>2
    <3>4. QED
      BY <1>9, <3>2, <3>3
  <2>4. k \in Nat \ {0} /\ Len(s) \in Nat
    BY <1>3, <1>7, <1>9, <1>11
  <2>5. QED
    BY <2>1, <2>2, <2>3, <2>4
<1>19. Len(b) = Len(u)
  BY <1>3, <1>7, <1>9, <1>11
<1>20. b = u
  BY <1>9, <1>11, <1>18, <1>19, SeqEqual
<1>21. Append(s, Head(t)) \o Tail(t) = b
  BY <1>2, <1>3, <1>6, <1>8
<1>22. QED
  BY <1>1, <1>2, <1>4, <1>5, <1>12, <1>17, <1>20, <1>21

LEMMA MailComes ==
    ASSUME NEW s \in Seq(Packets), NEW t \in Seq(Packets), NEW x \in Packets
    PROVE  s \o Append(t, x) = Append(s \o t, x)
  OBVIOUS

LEMMA MailLeaves ==
    ASSUME NEW s \in Seq(Packets), NEW t \in Seq(Packets), NEW m \in 1..Len(s)
    PROVE  /\ m \in 1..Len(s \o t) /\ \A k \in 1..m : (s \o t)[k] = s[k]
           /\ RemoveAt(s, m) \o t = RemoveAt(s \o t, m)
<1>1. PICK u : u = s \o t
  OBVIOUS
<1>2. PICK x : x = RemoveAt(s, m)
  OBVIOUS
<1>3. PICK v : v = x \o t
  OBVIOUS
<1>4. PICK w : w = RemoveAt(u, m)
  OBVIOUS
<1>5. /\ u \in Seq(Packets) /\ Len(s) \in Nat /\ Len(t) \in Nat /\ Len(u) = Len(s) + Len(t)
      /\ \A k \in 1..Len(s) : u[k] = s[k]
      /\ \A k \in 1..Len(t) : u[Len(s) + k] = t[k]
  BY <1>1, ConcatIs
<1>6. /\ x \in Seq(Packets) /\ Len(x) = Len(s) - 1
      /\ \A k \in 1..(Len(s) - 1) : x[k] = IF k < m THEN s[k] ELSE s[k + 1]
  BY <1>2, PacketsRemove
<1>7. m \in 1..Len(u) /\ \A k \in 1..m : u[k] = s[k]
  BY <1>5
<1>8. /\ w \in Seq(Packets) /\ Len(w) = Len(u) - 1
      /\ \A k \in 1..(Len(u) - 1) : w[k] = IF k < m THEN u[k] ELSE u[k + 1]
  <2>1. u \in Seq(Packets) /\ m \in 1..Len(u)
    BY <1>5, <1>7
  <2>2. QED
    BY ZenonT(60), <1>4, <2>1, PacketsRemove
<1>9. /\ v \in Seq(Packets) /\ Len(v) = Len(x) + Len(t) /\ Len(x) \in Nat
      /\ \A k \in 1..Len(x) : v[k] = x[k]
      /\ \A k \in 1..Len(t) : v[Len(x) + k] = t[k]
  <2>1. x \in Seq(Packets)
    BY <1>6
  <2>2. QED
    BY <1>3, <2>1, ConcatIs
<1>10. ASSUME NEW k \in 1..Len(v) PROVE v[k] = w[k]
  <2>1. k \in 1..(Len(u) - 1)
    BY <1>5, <1>6, <1>9
  <2>2. CASE k \in 1..Len(x)
    <3>1. k \in 1..(Len(s) - 1) /\ k \in 1..Len(s) /\ k + 1 \in 1..Len(s)
      BY <1>5, <1>6, <2>2
    <3>2. v[k] = IF k < m THEN s[k] ELSE s[k + 1]
      BY <1>6, <1>9, <2>2, <3>1
    <3>3. w[k] = IF k < m THEN s[k] ELSE s[k + 1]
      BY <1>5, <1>8, <2>1, <3>1
    <3>4. QED
      BY <3>2, <3>3
  <2>3. CASE k \notin 1..Len(x)
    <3>1. PICK y : y = k - Len(x)
      OBVIOUS
    <3>2. y \in 1..Len(t) /\ k = Len(x) + y /\ ~(k < m) /\ k + 1 = Len(s) + y
      BY <1>5, <1>6, <1>9, <2>3, <3>1
    <3>3. v[k] = t[y]
      BY <1>9, <3>2
    <3>4. w[k] = u[k + 1]
      BY <1>8, <2>1, <3>2
    <3>5. QED
      BY <1>5, <3>2, <3>3, <3>4
  <2>4. QED
    BY <2>2, <2>3
<1>11. Len(v) = Len(w)
  BY <1>5, <1>6, <1>8, <1>9
<1>12. v = w
  BY <1>8, <1>9, <1>10, <1>11, SeqEqual
<1>13. QED
  BY <1>1, <1>2, <1>3, <1>4, <1>7, <1>12

-----------------------------------------------------------------------------
(* Who belongs to whom.                                                    *)

LEMMA HalfHolds ==
    ASSUME FifoInv, NEW p \in Procs, NEW r \in Procs, NEW i \in Ids, NEW j \in Ids, Half(p, i, r, j)
    PROVE  Held(r, j) /\ ~New(r, j) /\ ~New(p, i) /\ p # r
<1>1. IdsOK(p) /\ IdsOK(r) /\ TypeOK /\ RightsOK /\ RequestsOK
  BY DEF FifoInv
<1>2. nextId[p] \in Nat /\ nextId[r] \in Nat /\ i \in Nat /\ j \in Nat
  BY <1>1, NextIds, Numbers
<1>3. Held(r, j)
  BY DEF Half, Held, Promised
<1>4. ~New(r, j)
  BY <1>1, <1>2, <1>3 DEF New, IdsOK, InUse, Awaits
<1>5. CASE Granted(p, i, r, j)
  <2>1. HasChan(p, i) /\ p # r
    <3>1. HasChan(p, i)
      BY <1>5 DEF Granted
    <3>2. p # r
      BY <1>1, <1>5 DEF RightsOK
    <3>3. QED
      BY <3>1, <3>2
  <2>2. ~New(p, i)
    BY <1>1, <1>2, <2>1 DEF New, IdsOK, InUse, Awaits
  <2>3. QED
    BY <1>3, <1>4, <2>1, <2>2
<1>6. CASE Awaits(p) /\ app[p].src = i /\ app[p].args.proc = r /\ Answered(p, i, j)
  <2>1. Accepted(p)
    BY <1>6 DEF Accepted
  <2>2. p # r /\ i < nextId[p] /\ app[p].at = "wait"
    BY <1>1, <1>6 DEF IdsOK, Awaits
  <2>3. ~New(p, i)
    BY <1>2, <2>1, <2>2 DEF New
  <2>4. QED
    BY <1>3, <1>4, <2>2, <2>3
<1>7. QED
  BY <1>5, <1>6 DEF Half

\* One process at most has the right to write to channel j of r.
LEMMA HalfUnique ==
    ASSUME FifoInv, NEW p \in Procs, NEW q \in Procs, NEW r \in Procs,
           NEW i \in Ids, NEW k \in Ids, NEW j \in Ids, Half(p, i, r, j), Half(q, k, r, j)
    PROVE  q = p /\ k = i
<1>1. RightsOK
  BY DEF FifoInv
<1>2. Granted(p, i, r, j) \/ (Promised(p, r, j) /\ app[p].src = i)
  BY DEF Half, Promised
<1>3. Granted(q, k, r, j) \/ (Promised(q, r, j) /\ app[q].src = k)
  BY DEF Half, Promised
<1>4. ~(Granted(p, i, r, j) /\ Promised(q, r, j)) /\ ~(Granted(q, k, r, j) /\ Promised(p, r, j))
  BY <1>1 DEF RightsOK
<1>5. Promised(p, r, j) /\ Promised(q, r, j) => q = p
  BY <1>1 DEF RightsOK
<1>6. Granted(p, i, r, j) /\ Granted(q, k, r, j) => q = p /\ k = i
  BY <1>1 DEF RightsOK
<1>7. QED
  BY <1>2, <1>3, <1>4, <1>5, <1>6

\* A step that leaves a process, its ids and the answers to it alone.
LEMMA SameHalf ==
    ASSUME NEW r \in Procs, app'[r] = app[r], chans'[r] = chans[r], nextId'[r] = nextId[r],
           \A i, k \in Ids : Answered(r, i, k)' <=> Answered(r, i, k)
    PROVE  /\ Awaits(r)' <=> Awaits(r)
           /\ \A q \in Procs, i, k \in Ids : /\ Half(r, i, q, k)' <=> Half(r, i, q, k)
                                             /\ Granted(r, i, q, k)' <=> Granted(r, i, q, k)
           /\ \A i \in Ids : New(r, i)' <=> New(r, i)
<1>1. Awaits(r)' <=> Awaits(r)
  BY DEF Awaits
<1>2. Accepted(r)' <=> Accepted(r)
  BY DEF Accepted
<1>3. \A q \in Procs, i, k \in Ids : Granted(r, i, q, k)' <=> Granted(r, i, q, k)
  BY DEF Granted, HasChan
<1>4. \A q \in Procs, i, k \in Ids : Half(r, i, q, k)' <=> Half(r, i, q, k)
  BY <1>1, <1>3 DEF Half
<1>5. \A i \in Ids : New(r, i)' <=> New(r, i)
  BY <1>1, <1>2 DEF New
<1>6. QED
  BY <1>1, <1>3, <1>4, <1>5

\* A process that is neither waiting for an answer nor about to give out an id.
Plain(a) == ~(a.at = "wait" /\ a.op = "connect") /\ ~(a.at = "write" /\ a.op \in {"connect", "accept"})

LEMMA PlainHalf ==
    ASSUME NEW r \in Procs, Plain(app[r]), Plain(app'[r]), nextId'[r] = nextId[r],
           \A i \in Ids : chans'[r][i] = chans[r][i] \/ ~HasChan(r, i)'
    PROVE  /\ ~Awaits(r) /\ ~Awaits(r)'
           /\ \A q \in Procs, i, k \in Ids : /\ Half(r, i, q, k)' => Half(r, i, q, k)
                                             /\ Half(r, i, q, k)' <=> Granted(r, i, q, k)'
                                             /\ Granted(r, i, q, k)' => Granted(r, i, q, k)
           /\ \A i \in Ids : New(r, i)' <=> New(r, i)
<1>1. ~Awaits(r) /\ ~Awaits(r)'
  BY DEF Awaits, Plain
<1>2. \A q \in Procs, i, k \in Ids : Granted(r, i, q, k)' => Granted(r, i, q, k)
  BY DEF Granted, HasChan
<1>3. \A q \in Procs, i, k \in Ids : /\ Half(r, i, q, k)' <=> Granted(r, i, q, k)'
                                     /\ Half(r, i, q, k)' => Half(r, i, q, k)
  BY <1>1, <1>2 DEF Half
<1>4. \A i \in Ids : New(r, i)' <=> New(r, i)
  BY <1>1 DEF New, Plain
<1>5. QED
  BY <1>1, <1>2, <1>3, <1>4

LEMMA SameOut ==
    ASSUME TypeOK, NEW r \in Procs, OutOK(r), app'[r] = app[r], out'[r] = out[r], chans'[r] = chans[r],
           \A i \in Ids : New(r, i)' => New(r, i), openCalls' \in [Procs -> Nat],
           \A q \in Procs : openCalls[q] <= openCalls'[q]
    PROVE  OutOK(r)'
<1>1. \A q \in Procs : openCalls[q] \in Nat /\ openCalls'[q] \in Nat
  BY DEF TypeOK
<1>2. \A fd \in Fds : fd.no <= openCalls[fd.proc] => fd.no <= openCalls'[fd.proc]
  BY <1>1 DEF Fds
<1>3. Awaits(r)' <=> Awaits(r)
  BY DEF Awaits
<1>4. \A i \in Ids : New(r, i)' \/ (Awaits(r)' /\ app'[r].src = i) => out'[r][i] = 0
  BY <1>3 DEF OutOK
<1>5. \A i \in Ids : HasChan(r, i)' => chans'[r][i].fd.no <= openCalls'[chans'[r][i].fd.proc]
  <2>1. SUFFICES ASSUME NEW i \in Ids, HasChan(r, i)
                 PROVE  chans[r][i].fd.no <= openCalls'[chans[r][i].fd.proc]
    BY DEF HasChan
  <2>2. chans[r][i].fd \in Fds
    BY <2>1, TypeFacts
  <2>3. QED
    BY <1>2, <2>1, <2>2 DEF OutOK
<1>6. Awaits(r)' => app'[r].args.no <= openCalls'[app'[r].args.proc]
  <2>1. SUFFICES ASSUME Awaits(r) PROVE app[r].args.no <= openCalls'[app[r].args.proc]
    BY <1>3
  <2>2. app[r].args \in Fds
    BY <2>1, TypeFacts
  <2>3. QED
    BY <1>2, <2>1, <2>2 DEF OutOK
<1>7. app'[r].at = "write" => app'[r].to.no <= openCalls'[app'[r].to.proc]
  <2>1. SUFFICES ASSUME app[r].at = "write" PROVE app[r].to.no <= openCalls'[app[r].to.proc]
    OBVIOUS
  <2>2. app[r].to \in Fds
    BY <2>1, TypeFacts, PositionIs
  <2>3. QED
    BY <1>2, <2>1, <2>2 DEF OutOK
<1>8. app'[r].at = "write" /\ app'[r].op = "write" =>
         /\ RunOf(app'[r].pk, r, app'[r].args.chan)
         /\ FirstUnit(app'[r].pk) = out'[r][app'[r].args.chan] + 1
  BY DEF OutOK
<1>9. QED
  BY <1>4, <1>5, <1>6, <1>7, <1>8 DEF OutOK, RunOf, FirstUnit

\* A step that adds nothing to who belongs to whom and brings no message.
LEMMA StreamsKept ==
    ASSUME StreamInv, got' = got,
           \A p, q \in Procs, i, k \in Ids :
              /\ Half(p, i, q, k)' => Half(p, i, q, k)
              /\ Half(p, i, q, k)' /\ Granted(p, i, q, k) => Granted(p, i, q, k)',
           \A p, q \in Procs, i, k \in Ids : Granted(p, i, q, k)' =>
              /\ Granted(p, i, q, k) /\ out'[p][i] = out[p][i]
              /\ HasReader(chans[p][i].fd)' =>
                    /\ HasReader(chans[p][i].fd)
                    /\ \A n, e : EndsAt(Mail(q), k, n, e) => EndsAt(Mail(q)', k, n, e),
           \A p \in Procs, i \in Ids : New(p, i)' => New(p, i),
           \A p \in Procs, i \in Ids :
              /\ Carries(Mail(p)', i) => Carries(Mail(p), i)
              /\ \A r, j, n : Flow(Mail(p), i, r, j, n) => Flow(Mail(p)', i, r, j, n),
           \A p \in Procs : OutOK(p)'
    PROVE  StreamInv'
<1>1. PairsOK'
  BY DEF StreamInv, PairsOK
<1>2. ASSUME NEW p \in Procs, NEW i \in Ids PROVE SourceOK(p, i)'
  <2>1. SUFFICES ASSUME Fed(p, i)' PROVE SourceOK(p, i)'
    BY DEF SourceOK
  <2>2. Fed(p, i)
    BY <2>1 DEF Fed
  <2>3. PICK r \in Procs, j \in Ids :
           /\ ~New(p, i) /\ Feeds(r, j, p, i)
           /\ \A q \in Procs, k \in Ids : Half(p, i, q, k) => q = r /\ k = j
           /\ \A q \in Procs, k \in Ids : Half(q, k, p, i) => q = r /\ k = j /\ Granted(r, j, p, i)
    BY <2>2 DEF StreamInv, SourceOK
  <2>4. Feeds(r, j, p, i)'
    BY <2>3 DEF Feeds
  <2>5. ~New(p, i)'
    BY <2>3
  <2>6. \A q \in Procs, k \in Ids : Half(p, i, q, k)' => q = r /\ k = j
    BY <2>3
  <2>7. \A q \in Procs, k \in Ids : Half(q, k, p, i)' => q = r /\ k = j /\ Granted(r, j, p, i)'
    BY <2>3
  <2>8. QED
    BY <2>4, <2>5, <2>6, <2>7 DEF SourceOK
<1>3. ASSUME NEW p \in Procs, NEW q \in Procs, NEW i \in Ids, NEW k \in Ids PROVE EndOK(q, k, p, i)'
  BY DEF StreamInv, EndOK
<1>4. QED
  BY <1>1, <1>2, <1>3 DEF StreamInv

\* The messages on the way to r stay, or are lost from the end.
MailKept(r) ==
    \A i \in Ids : /\ Carries(Mail(r)', i) => Carries(Mail(r), i)
                   /\ \A s, j, n : Flow(Mail(r), i, s, j, n) => Flow(Mail(r)', i, s, j, n)
EndKept(r) == \A i \in Ids : \A n, e : EndsAt(Mail(r), i, n, e) => EndsAt(Mail(r)', i, n, e)

LEMMA MailSame ==
    ASSUME NEW r \in Procs, pipe'[r] = pipe[r], queue'[r] = queue[r]
    PROVE  MailKept(r) /\ EndKept(r)
<1>1. Mail(r)' = Mail(r)
  BY DEF Mail
<1>2. QED
  BY <1>1 DEF MailKept, EndKept

LEMMA MailMinus ==
    ASSUME TypeOK, NEW r \in Procs, NEW m \in 1..Len(Mail(r)), Mail(r)[m].type # "MESSAGE",
           Mail(r)' = RemoveAt(Mail(r), m)
    PROVE  MailKept(r) /\ EndKept(r)
<1>1. Mail(r) \in Seq(Packets)
  BY QueueTypes DEF Mail
<1>2. \A i \in Ids : ~IsMessage(Mail(r)[m], i)
  BY DEF IsMessage
<1>3. QED
  BY <1>1, <1>2, RemoveOther DEF MailKept, EndKept

LEMMA MailPoll ==
    ASSUME TypeOK, NEW p \in Procs, Poll(p)
    PROVE  \A r \in Procs : MailKept(r) /\ EndKept(r)
<1>1. /\ pipe[p] # << >> /\ pipe' = [pipe EXCEPT ![p] = Tail(@)] /\ Enqueue(p, Head(pipe[p]))
  BY DEF Poll
<1>2. pipe \in [Procs -> Seq(Packets)] /\ queue \in [Procs -> Seq(Packets \ Disconnects)]
  BY DEF TypeOK
<1>3. pipe'[p] = Tail(pipe[p]) /\ \A r \in Procs : r # p => pipe'[r] = pipe[r]
  BY <1>1, <1>2
<1>4. PICK s \in Seq(Packets) : s = queue[p]
  BY QueueTypes
<1>5. PICK t \in Seq(Packets) : t = pipe[p]
  BY QueueTypes
<1>6. CASE IsDisconnect(Head(pipe[p]))
  <2>1. queue' = queue
    BY <1>1, <1>6 DEF Enqueue
  <2>2. Mail(p) = s \o t /\ Mail(p)' = s \o Tail(t)
    BY <1>3, <1>4, <1>5, <2>1 DEF Mail
  <2>3. /\ Len(s) + 1 \in 1..Len(Mail(p)) /\ Mail(p)[Len(s) + 1] = Head(t)
        /\ Mail(p)' = RemoveAt(Mail(p), Len(s) + 1)
    BY <1>1, <1>5, <2>2, MailMoves
  <2>4. Head(t).type # "MESSAGE"
    BY <1>5, <1>6 DEF IsDisconnect
  <2>5. MailKept(p) /\ EndKept(p)
    BY <2>3, <2>4, MailMinus
  <2>6. \A r \in Procs : r # p => MailKept(r) /\ EndKept(r)
    BY <1>3, <2>1, MailSame
  <2>7. QED
    BY <2>5, <2>6
<1>7. CASE ~IsDisconnect(Head(pipe[p]))
  <2>1. queue' = [queue EXCEPT ![p] = Append(@, Head(pipe[p]))]
    BY <1>1, <1>7 DEF Enqueue
  <2>2. queue'[p] = Append(queue[p], Head(pipe[p])) /\ \A r \in Procs : r # p => queue'[r] = queue[r]
    BY <1>2, <2>1
  <2>3. Mail(p) = s \o t /\ Mail(p)' = Append(s, Head(t)) \o Tail(t)
    BY <1>3, <1>4, <1>5, <2>2 DEF Mail
  <2>4. Mail(p)' = Mail(p)
    BY <1>1, <1>5, <2>3, MailMoves
  <2>5. MailKept(p) /\ EndKept(p)
    BY <2>4 DEF MailKept, EndKept
  <2>6. \A r \in Procs : r # p => MailKept(r) /\ EndKept(r)
    BY <1>3, <2>2, MailSame
  <2>7. QED
    BY <2>5, <2>6
<1>8. QED
  BY <1>6, <1>7

LEMMA MailSent ==
    ASSUME TypeOK, NEW q \in Procs, NEW pk \in Packets,
           pipe' = [pipe EXCEPT ![q] = Append(@, pk)], queue' = queue
    PROVE  /\ Mail(q)' = Append(Mail(q), pk) /\ Mail(q) \in Seq(Packets)
           /\ \A r \in Procs : r # q => MailKept(r) /\ EndKept(r) /\ Mail(r)' = Mail(r)
           /\ pk.type # "MESSAGE" => MailKept(q) /\ EndKept(q)
<1>1. pipe \in [Procs -> Seq(Packets)]
  BY DEF TypeOK
<1>2. pipe'[q] = Append(pipe[q], pk) /\ \A r \in Procs : r # q => pipe'[r] = pipe[r]
  BY <1>1
<1>3. pipe[q] \in Seq(Packets) /\ queue[q] \in Seq(Packets)
  BY QueueTypes
<1>4. Mail(q)' = Append(Mail(q), pk) /\ Mail(q) \in Seq(Packets)
  <2>1. PICK s \in Seq(Packets), t \in Seq(Packets) : s = queue[q] /\ t = pipe[q]
    BY <1>3
  <2>2. Mail(q) = s \o t /\ Mail(q)' = s \o Append(t, pk)
    BY <1>2, <2>1 DEF Mail
  <2>3. s \o Append(t, pk) = Append(s \o t, pk) /\ s \o t \in Seq(Packets)
    BY MailComes, ConcatIs
  <2>4. QED
    BY <2>2, <2>3
<1>5. \A r \in Procs : r # q => MailKept(r) /\ EndKept(r)
  BY <1>2, MailSame
<1>6. \A r \in Procs : r # q => Mail(r)' = Mail(r)
  BY <1>2 DEF Mail
<1>7. ASSUME pk.type # "MESSAGE" PROVE MailKept(q) /\ EndKept(q)
  <2>1. \A i \in Ids : ~IsMessage(pk, i)
    BY <1>7 DEF IsMessage
  <2>2. QED
    BY <1>4, <2>1, AppendOther DEF MailKept, EndKept
<1>8. QED
  BY <1>4, <1>5, <1>6, <1>7

LEMMA MailTaken ==
    ASSUME TypeOK, NEW p \in Procs, NEW m \in 1..Len(queue[p]),
           queue' = [queue EXCEPT ![p] = RemoveAt(queue[p], m)], pipe' = pipe
    PROVE  /\ Mail(p) \in Seq(Packets) /\ m \in 1..Len(Mail(p)) /\ Mail(p)' = RemoveAt(Mail(p), m)
           /\ \A k \in 1..m : Mail(p)[k] = queue[p][k]
           /\ \A r \in Procs : r # p => MailKept(r) /\ EndKept(r) /\ Mail(r)' = Mail(r)
           /\ queue[p][m].type # "MESSAGE" => MailKept(p) /\ EndKept(p)
<1>1. queue \in [Procs -> Seq(Packets \ Disconnects)]
  BY DEF TypeOK
<1>2. queue'[p] = RemoveAt(queue[p], m) /\ \A r \in Procs : r # p => queue'[r] = queue[r]
  BY <1>1
<1>3. pipe[p] \in Seq(Packets) /\ queue[p] \in Seq(Packets)
  BY QueueTypes
<1>4. /\ Mail(p) \in Seq(Packets) /\ m \in 1..Len(Mail(p)) /\ Mail(p)' = RemoveAt(Mail(p), m)
      /\ \A k \in 1..m : Mail(p)[k] = queue[p][k]
  <2>1. PICK s \in Seq(Packets), t \in Seq(Packets) : s = queue[p] /\ t = pipe[p]
    BY <1>3
  <2>2. Mail(p) = s \o t /\ Mail(p)' = RemoveAt(s, m) \o t
    BY <1>2, <2>1 DEF Mail
  <2>3. m \in 1..Len(s)
    BY <2>1
  <2>4. /\ m \in 1..Len(s \o t) /\ \A k \in 1..m : (s \o t)[k] = s[k]
        /\ RemoveAt(s, m) \o t = RemoveAt(s \o t, m)
    BY <2>3, MailLeaves
  <2>5. s \o t \in Seq(Packets)
    BY ConcatIs
  <2>6. QED
    BY <2>1, <2>2, <2>4, <2>5
<1>5. \A r \in Procs : r # p => MailKept(r) /\ EndKept(r)
  BY <1>2, MailSame
<1>6. \A r \in Procs : r # p => Mail(r)' = Mail(r)
  BY <1>2 DEF Mail
<1>7. ASSUME queue[p][m].type # "MESSAGE" PROVE MailKept(p) /\ EndKept(p)
  <2>1. m \in 1..m
    BY <1>3
  <2>2. Mail(p)[m].type # "MESSAGE"
    BY <1>4, <1>7, <2>1
  <2>3. QED
    BY <1>4, <2>2, MailMinus
<1>8. QED
  BY <1>4, <1>5, <1>6, <1>7

LEMMA MailCut ==
    ASSUME TypeOK, NEW p \in Procs, pipe' = [pipe EXCEPT ![p] = << >>], queue' = queue
    PROVE  /\ \A r \in Procs : MailKept(r)
           /\ \A r \in Procs : r # p => EndKept(r)
<1>1. pipe \in [Procs -> Seq(Packets)]
  BY DEF TypeOK
<1>2. pipe'[p] = << >> /\ \A r \in Procs : r # p => pipe'[r] = pipe[r]
  BY <1>1
<1>3. pipe[p] \in Seq(Packets) /\ queue[p] \in Seq(Packets)
  BY QueueTypes
<1>4. Mail(p) = queue[p] \o pipe[p] /\ Mail(p)' = queue[p]
  <2>1. Mail(p) = queue[p] \o pipe[p] /\ Mail(p)' = queue[p] \o << >>
    BY <1>2 DEF Mail
  <2>2. queue[p] \o << >> = queue[p]
    BY <1>3
  <2>3. QED
    BY <2>1, <2>2
<1>5. MailKept(p)
  BY <1>3, <1>4, FlowCut DEF MailKept
<1>6. QED
  BY <1>2, <1>5, MailSame

\* A step of p that adds nothing to who belongs to whom and brings no message.
LEMMA StreamsFrame ==
    ASSUME FifoInv, TypeOK', StreamInv, NEW p \in Procs, got' = got, out' = out,
           \A r \in Procs : r # p => /\ app'[r] = app[r] /\ chans'[r] = chans[r]
                                     /\ nextId'[r] = nextId[r],
           \A q \in Procs : openCalls[q] <= openCalls'[q],
           \A r \in Procs, i, k \in Ids : r # p => (Answered(r, i, k)' <=> Answered(r, i, k)),
           \A q \in Procs, i, k \in Ids :
              /\ Half(p, i, q, k)' => Half(p, i, q, k)
              /\ Half(p, i, q, k)' /\ Granted(p, i, q, k) => Granted(p, i, q, k)'
              /\ Granted(p, i, q, k)' => Granted(p, i, q, k) /\ chans'[p][i] = chans[p][i],
           \A i \in Ids : New(p, i)' => New(p, i),
           OutOK(p)',
           \A r \in Procs : MailKept(r),
           \A fd \in Fds : fd.no <= openCalls[fd.proc] /\ HasReader(fd)' =>
                              HasReader(fd) /\ EndKept(fd.proc)
    PROVE  StreamInv'
<1>1. TypeOK /\ \A r \in Procs : OutOK(r)
  BY DEF FifoInv, StreamInv
<1>2. ASSUME NEW r \in Procs, r # p
      PROVE  /\ \A q \in Procs, i, k \in Ids : /\ Half(r, i, q, k)' <=> Half(r, i, q, k)
                                               /\ Granted(r, i, q, k)' <=> Granted(r, i, q, k)
             /\ \A i \in Ids : New(r, i)' <=> New(r, i)
  BY <1>2, SameHalf
<1>3. openCalls' \in [Procs -> Nat]
  BY DEF TypeOK
<1>4. \A r \in Procs : OutOK(r)'
  BY <1>1, <1>2, <1>3, SameOut
<1>5. \A r, q \in Procs, i, k \in Ids : Granted(r, i, q, k)' =>
         Granted(r, i, q, k) /\ chans'[r][i] = chans[r][i]
  BY <1>2
<1>6. \A r, q \in Procs, i, k \in Ids :
         /\ Half(r, i, q, k)' => Half(r, i, q, k)
         /\ Half(r, i, q, k)' /\ Granted(r, i, q, k) => Granted(r, i, q, k)'
  BY <1>2
<1>7. ASSUME NEW r \in Procs, NEW q \in Procs, NEW i \in Ids, NEW k \in Ids,
             Granted(r, i, q, k)', HasReader(chans[r][i].fd)'
      PROVE  /\ HasReader(chans[r][i].fd)
             /\ \A n, e : EndsAt(Mail(q), k, n, e) => EndsAt(Mail(q)', k, n, e)
  <2>1. Granted(r, i, q, k) /\ chans'[r][i] = chans[r][i]
    BY <1>5, <1>7
  <2>2. chans[r][i].fd \in Fds /\ chans[r][i].fd.proc = q
    BY <1>1, <2>1, TypeFacts DEF Granted
  <2>3. chans[r][i].fd.no <= openCalls[chans[r][i].fd.proc]
    BY <1>1, <2>1 DEF OutOK, Granted
  <2>4. PICK fd \in Fds : fd = chans[r][i].fd
    BY <2>2
  <2>5. HasReader(fd)'
    BY <1>7, <2>1, <2>4 DEF HasReader
  <2>6. HasReader(fd) /\ EndKept(q)
    BY <2>2, <2>3, <2>4, <2>5
  <2>7. QED
    BY <2>4, <2>6 DEF EndKept
<1>8. \A r \in Procs, i \in Ids : New(r, i)' => New(r, i)
  BY <1>2
<1>9. QED
  BY <1>4, <1>5, <1>6, <1>7, <1>8, StreamsKept DEF MailKept

-----------------------------------------------------------------------------
(* Steps that bring no message and no channel.                             *)

\* The packet p is about to write is one its channels and its history allow.
WriteOK(a, p) ==
    a.at = "write" => /\ a.to.no <= openCalls[a.to.proc]
                      /\ a.op = "write" => /\ RunOf(a.pk, p, a.args.chan)
                                           /\ FirstUnit(a.pk) = out[p][a.args.chan] + 1

LEMMA StreamMoves ==
    ASSUME FifoInv, TypeOK', StreamInv, NEW p \in Procs,
           UNCHANGED <<pipe, queue, inode, chans, out, got, nextId, openCalls>>,
           \A r \in Procs : r # p => app'[r] = app[r],
           Plain(app[p]), Plain(app'[p]), WriteOK(app'[p], p)
    PROVE  StreamInv'
<1>1. TypeOK /\ OutOK(p)
  BY DEF FifoInv, StreamInv
<1>2. \A q \in Procs : openCalls[q] <= openCalls'[q]
  BY <1>1 DEF TypeOK
<1>3. \A r \in Procs, i, k \in Ids : Answered(r, i, k)' <=> Answered(r, i, k)
  BY DEF Answered, Pending
<1>4. /\ ~Awaits(p) /\ ~Awaits(p)'
      /\ \A q \in Procs, i, k \in Ids : /\ Half(p, i, q, k)' => Half(p, i, q, k)
                                        /\ Half(p, i, q, k)' <=> Granted(p, i, q, k)'
                                        /\ Granted(p, i, q, k)' => Granted(p, i, q, k)
      /\ \A i \in Ids : New(p, i)' <=> New(p, i)
  BY PlainHalf
<1>5. OutOK(p)'
  <2>1. \A i \in Ids : New(p, i)' \/ (Awaits(p)' /\ app'[p].src = i) => out'[p][i] = 0
    BY <1>1, <1>4 DEF OutOK
  <2>2. \A i \in Ids : HasChan(p, i)' => chans'[p][i].fd.no <= openCalls'[chans'[p][i].fd.proc]
    BY <1>1 DEF OutOK, HasChan
  <2>3. app'[p].at = "write" => app'[p].to.no <= openCalls'[app'[p].to.proc]
    BY DEF WriteOK
  <2>4. app'[p].at = "write" /\ app'[p].op = "write" =>
           /\ RunOf(app'[p].pk, p, app'[p].args.chan)
           /\ FirstUnit(app'[p].pk) = out'[p][app'[p].args.chan] + 1
    BY DEF WriteOK
  <2>5. QED
    BY <1>4, <2>1, <2>2, <2>3, <2>4 DEF OutOK, RunOf, FirstUnit
<1>6. \A r \in Procs : MailKept(r) /\ EndKept(r)
  BY MailSame
<1>7. \A fd \in Fds : fd.no <= openCalls[fd.proc] /\ HasReader(fd)' =>
                         HasReader(fd) /\ EndKept(fd.proc)
  BY <1>1, <1>6, TypeFacts DEF HasReader
<1>8. QED
  BY <1>2, <1>3, <1>4, <1>5, <1>6, <1>7, StreamsFrame

\* Accept, read, disconnect and close begin, and close goes on.
LEMMA StreamCalls ==
    ASSUME FifoInv, TypeOK', StreamInv, NEW p \in Procs, NEW i \in Ids, NEW size,
           Accept(p) \/ Read(p, i, size) \/ Disconnect(p, i) \/ Close(p) \/ CloseProgress(p)
    PROVE  StreamInv'
<1>1. TypeOK /\ OutOK(p)
  BY DEF FifoInv, StreamInv
<1>2. UNCHANGED <<pipe, queue, inode, chans, out, got, nextId, openCalls>>
  BY DEF Accept, Read, Disconnect, Close, CloseProgress, api
<1>3. Plain(app[p])
  BY DEF Accept, Read, Disconnect, Close, CloseProgress, Idle, Plain
<1>4. PICK a : app' = [app EXCEPT ![p] = a] /\ Plain(a) /\ WriteOK(a, p)
  <2>1. CASE Accept(p)
    <3>1. PICK a : a = Wait("accept", "CONNECT", NoId, NoId)
      OBVIOUS
    <3>2. Plain(a) /\ WriteOK(a, p)
      BY <3>1 DEF Plain, WriteOK, Wait
    <3>3. QED
      BY <2>1, <3>1, <3>2 DEF Accept
  <2>2. CASE Read(p, i, size)
    <3>1. PICK a : a = Wait("read", "MESSAGE", i, size)
      OBVIOUS
    <3>2. Plain(a) /\ WriteOK(a, p)
      BY <3>1 DEF Plain, WriteOK, Wait
    <3>3. QED
      BY <2>2, <3>1, <3>2 DEF Read
  <2>3. CASE Disconnect(p, i)
    <3>1. PICK a : a = Send("disconnect", chans[p][i].fd,
                            Packet("DISCONNECT", chans[p][i].writeid, << >>), i)
      OBVIOUS
    <3>2. a.at = "write" /\ a.op = "disconnect" /\ a.to = chans[p][i].fd
      BY <3>1 DEF Send
    <3>3. chans[p][i].fd.no <= openCalls[chans[p][i].fd.proc]
      BY <1>1, <2>3 DEF OutOK, Disconnect
    <3>4. Plain(a) /\ WriteOK(a, p)
      BY <3>2, <3>3 DEF Plain, WriteOK
    <3>5. QED
      BY <2>3, <3>1, <3>4 DEF Disconnect
  <2>4. CASE Close(p)
    <3>1. PICK a : a = IF opens[p] = 1 THEN [at |-> "close"] ELSE Idle
      OBVIOUS
    <3>2. a.at \in {"close", "idle"}
      BY <3>1 DEF Idle
    <3>3. Plain(a) /\ WriteOK(a, p)
      BY <3>2 DEF Plain, WriteOK
    <3>4. QED
      BY <2>4, <3>1, <3>3 DEF Close
  <2>5. CASE CloseProgress(p)
    <3>1. PICK at \in {"drain", "close"} : app' = [app EXCEPT ![p] = [at |-> at]]
      BY <2>5 DEF CloseProgress
    <3>2. PICK a : a = [at |-> at]
      OBVIOUS
    <3>3. a.at \in {"drain", "close"}
      BY <3>2
    <3>4. Plain(a) /\ WriteOK(a, p)
      BY <3>3 DEF Plain, WriteOK
    <3>5. QED
      BY <3>1, <3>2, <3>4
  <2>6. QED
    BY <2>1, <2>2, <2>3, <2>4, <2>5
<1>5. app'[p] = a /\ \A r \in Procs : r # p => app'[r] = app[r]
  BY <1>1, <1>4, AppSet
<1>6. QED
  BY <1>2, <1>3, <1>4, <1>5, StreamMoves

\* A packet of a message is a run of the units of its channel.
LEMMA PartRuns ==
    ASSUME NEW p \in Procs, NEW i \in Ids, NEW from \in Nat, NEW left \in Nat \ {0},
           NEW a, a = SendPart(p, i, from, left)
    PROVE  /\ a.at = "write" /\ a.op = "write" /\ a.to = chans[p][i].fd /\ a.args.chan = i
           /\ RunOf(a.pk, p, i) /\ FirstUnit(a.pk) = from + 1
<1>1. PICK d : d = [j \in 1..Bytes(left) |-> <<p, i, from + j>>]
  OBVIOUS
<1>2. a.at = "write" /\ a.op = "write" /\ a.to = chans[p][i].fd /\ a.args.chan = i /\ a.pk.data = d
  BY <1>1 DEF SendPart, Send, Packet
<1>3. Bytes(left) \in Nat \ {0}
  BY Numbers DEF Bytes
<1>4. d # << >> /\ Len(d) = Bytes(left) /\ \A j \in 1..Bytes(left) : d[j] = <<p, i, from + j>>
  BY <1>1, <1>3
<1>5. d[1] = <<p, i, from + 1>>
  BY <1>3, <1>4
<1>6. FirstUnit(a.pk) = from + 1
  BY <1>2, <1>5 DEF FirstUnit
<1>7. ASSUME NEW x \in 1..Len(d) PROVE d[x] = <<p, i, (from + 1) + x - 1>>
  <2>1. (from + 1) + x - 1 = from + x
    BY <1>3, <1>4
  <2>2. QED
    BY <1>4, <2>1
<1>8. RunOf(a.pk, p, i)
  BY <1>2, <1>4, <1>6, <1>7 DEF RunOf
<1>9. QED
  BY <1>2, <1>6, <1>8

LEMMA StreamWrite ==
    ASSUME FifoInv, TypeOK', StreamInv, NEW p \in Procs, NEW i \in Ids, NEW size \in WriteSizes,
           Write(p, i, size)
    PROVE  StreamInv'
<1>1. TypeOK /\ OutOK(p)
  BY DEF FifoInv, StreamInv
<1>2. UNCHANGED <<pipe, queue, inode, chans, out, got, nextId, openCalls>> /\ app[p] = Idle
  BY DEF Write, api
<1>3. Plain(app[p])
  BY <1>2 DEF Idle, Plain
<1>4. PICK a : a = SendPart(p, i, out[p][i], size)
  OBVIOUS
<1>5. size \in Nat \ {0} /\ out[p][i] \in Nat
  BY <1>1, FifoAssumption, Numbers DEF TypeOK
<1>6. /\ a.at = "write" /\ a.op = "write" /\ a.to = chans[p][i].fd /\ a.args.chan = i
      /\ RunOf(a.pk, p, i) /\ FirstUnit(a.pk) = out[p][i] + 1
  BY <1>4, <1>5, PartRuns
<1>7. chans[p][i].fd.no <= openCalls[chans[p][i].fd.proc]
  BY <1>1 DEF OutOK, Write
<1>8. Plain(a) /\ WriteOK(a, p)
  BY <1>6, <1>7 DEF Plain, WriteOK
<1>9. app' = [app EXCEPT ![p] = a]
  BY <1>4 DEF Write
<1>10. app'[p] = a /\ \A r \in Procs : r # p => app'[r] = app[r]
  BY <1>1, <1>9, AppSet
<1>11. QED
  BY <1>2, <1>3, <1>8, <1>10, StreamMoves

LEMMA StreamConnect ==
    ASSUME FifoInv, TypeOK', StreamInv, NEW p \in Procs, NEW q \in Procs, Connect(p, q)
    PROVE  StreamInv'
<1>1. TypeOK /\ OutOK(p)
  BY DEF FifoInv, StreamInv
<1>2. /\ UNCHANGED <<pipe, queue, inode, chans, out, got, openCalls>> /\ app[p] = Idle
      /\ nextId[p] \in Ids /\ nextId' = [nextId EXCEPT ![p] = @ + 1]
  BY DEF Connect, api
<1>3. PICK a : a = Send("connect", Fd(q), Packet("CONNECT", NoId, [proc |-> p, id |-> nextId[p]]),
                        nextId[p])
  OBVIOUS
<1>4. a.at = "write" /\ a.op = "connect" /\ a.args = nextId[p] /\ a.to = Fd(q)
  BY <1>3 DEF Send
<1>5. app' = [app EXCEPT ![p] = a]
  BY <1>3 DEF Connect
<1>6. app'[p] = a /\ \A r \in Procs : r # p => app'[r] = app[r]
  BY <1>1, <1>5, AppSet
<1>7. nextId'[p] = nextId[p] + 1 /\ \A r \in Procs : r # p => nextId'[r] = nextId[r]
  BY <1>1, <1>2 DEF TypeOK
<1>8. app[p].at = "idle"
  BY <1>2, IdleIs
<1>9. ~Awaits(p) /\ ~Awaits(p)'
  BY <1>4, <1>6, <1>8 DEF Awaits
<1>10. \A i \in Ids : New(p, i)' => New(p, i)
  <2>1. SUFFICES ASSUME NEW i \in Ids, New(p, i)' PROVE nextId[p] <= i
    BY DEF New
  <2>2. nextId'[p] <= i \/ i = nextId[p]
    BY <1>4, <1>6, <1>9, <2>1 DEF New
  <2>3. nextId[p] \in Nat /\ i \in Nat
    BY <1>2, Numbers
  <2>4. QED
    BY <1>7, <2>2, <2>3
<1>11. \A r \in Procs, i \in Ids, k \in Ids : Granted(p, i, r, k)' <=> Granted(p, i, r, k)
  BY <1>2 DEF Granted, HasChan
<1>12. \A r \in Procs, i \in Ids, k \in Ids : Half(p, i, r, k)' <=> Half(p, i, r, k)
  BY <1>9, <1>11 DEF Half
<1>13. Fd(q).proc = q /\ Fd(q).no <= openCalls[q]
  BY <1>1 DEF Fd, TypeOK
<1>14. OutOK(p)'
  <2>1. \A i \in Ids : New(p, i)' \/ (Awaits(p)' /\ app'[p].src = i) => out'[p][i] = 0
    BY <1>1, <1>2, <1>9, <1>10 DEF OutOK
  <2>2. \A i \in Ids : HasChan(p, i)' => chans'[p][i].fd.no <= openCalls'[chans'[p][i].fd.proc]
    BY <1>1, <1>2 DEF OutOK, HasChan
  <2>3. app'[p].to.no <= openCalls'[app'[p].to.proc] /\ app'[p].op # "write"
    BY <1>2, <1>4, <1>6, <1>13
  <2>4. QED
    BY <1>9, <2>1, <2>2, <2>3 DEF OutOK
<1>15. \A r \in Procs : MailKept(r) /\ EndKept(r)
  BY <1>2, MailSame
<1>16. \A fd \in Fds : fd.no <= openCalls[fd.proc] /\ HasReader(fd)' =>
                          HasReader(fd) /\ EndKept(fd.proc)
  BY <1>1, <1>2, <1>15, TypeFacts DEF HasReader
<1>17. \A r \in Procs, i, k \in Ids : Answered(r, i, k)' <=> Answered(r, i, k)
  BY <1>2 DEF Answered, Pending
<1>18. \A r \in Procs : openCalls[r] <= openCalls'[r]
  BY <1>1, <1>2 DEF TypeOK
<1>19. QED
  BY <1>2, <1>6, <1>7, <1>10, <1>11, <1>12, <1>14, <1>15, <1>16, <1>17, <1>18, StreamsFrame

\* A pipe that is made anew has no writer yet.
LEMMA StreamOpen ==
    ASSUME FifoInv, TypeOK', StreamInv, NEW p \in Procs, Open(p)
    PROVE  StreamInv'
<1>1. TypeOK /\ \A r \in Procs : OutOK(r)
  BY DEF FifoInv, StreamInv
<1>2. /\ UNCHANGED <<pipe, queue, nextId, chans, app, out, got>>
      /\ openCalls' = [openCalls EXCEPT ![p] = @ + 1]
      /\ inode' = [inode EXCEPT ![p] = IF @ = NoPipe THEN openCalls[p] + 1 ELSE @]
  BY DEF Open
<1>3. \A r \in Procs : openCalls[r] \in Nat /\ inode[r] \in Nat
  BY <1>1 DEF TypeOK
<1>4. /\ openCalls'[p] = openCalls[p] + 1 /\ \A r \in Procs : r # p => openCalls'[r] = openCalls[r]
      /\ inode'[p] = IF inode[p] = NoPipe THEN openCalls[p] + 1 ELSE inode[p]
      /\ \A r \in Procs : r # p => inode'[r] = inode[r]
  BY <1>1, <1>2 DEF TypeOK
<1>5. \A r \in Procs : openCalls[r] <= openCalls'[r]
  BY <1>3, <1>4
<1>6. \A r \in Procs, i, k \in Ids : Answered(r, i, k)' <=> Answered(r, i, k)
  BY <1>2 DEF Answered, Pending
<1>7. /\ \A q \in Procs, i, k \in Ids : /\ Half(p, i, q, k)' <=> Half(p, i, q, k)
                                        /\ Granted(p, i, q, k)' <=> Granted(p, i, q, k)
      /\ \A i \in Ids : New(p, i)' <=> New(p, i)
  BY <1>2, <1>6, SameHalf
<1>8. openCalls' \in [Procs -> Nat]
  BY DEF TypeOK
<1>9. OutOK(p)'
  BY <1>1, <1>2, <1>5, <1>7, <1>8, SameOut
<1>10. \A r \in Procs : MailKept(r) /\ EndKept(r)
  BY <1>2, MailSame
<1>11. ASSUME NEW fd \in Fds, fd.no <= openCalls[fd.proc], HasReader(fd)'
       PROVE  HasReader(fd) /\ EndKept(fd.proc)
  <2>1. fd.proc \in Procs /\ fd.no \in Nat
    BY DEF Fds
  <2>2. inode'[fd.proc] = fd.no
    BY <1>11 DEF HasReader
  <2>3. inode[fd.proc] = fd.no
    BY <1>3, <1>4, <1>11, <2>1, <2>2
  <2>4. QED
    BY <1>10, <2>1, <2>3 DEF HasReader
<1>12. QED
  BY <1>2, <1>5, <1>6, <1>7, <1>9, <1>10, <1>11, StreamsFrame

LEMMA StreamLook ==
    ASSUME FifoInv, TypeOK', StreamInv, NEW p \in Procs, app[p].at = "wait",
           app' = [app EXCEPT ![p].seen = Len(queue[p])],
           UNCHANGED <<pipe, inode, openCalls, queue, nextId, chans, out, got>>
    PROVE  StreamInv'
<1>1. TypeOK /\ OutOK(p)
  BY DEF FifoInv, StreamInv
<1>2. \A r \in Procs : r # p => app'[r] = app[r]
  BY <1>1 DEF TypeOK
<1>3. app'[p] = [app[p] EXCEPT !.seen = Len(queue[p])]
  BY <1>1 DEF TypeOK
<1>4. app[p] = [at |-> "wait", op |-> app[p].op, type |-> app[p].type, src |-> app[p].src,
                seen |-> app[p].seen, args |-> app[p].args]
  BY <1>1, TypeFacts, PositionIs
<1>5. /\ app'[p].at = "wait" /\ app'[p].op = app[p].op /\ app'[p].src = app[p].src
      /\ app'[p].args = app[p].args
  <2>1. PICK a : a = app[p]
    OBVIOUS
  <2>2. a = [at |-> "wait", op |-> a.op, type |-> a.type, src |-> a.src, seen |-> a.seen,
             args |-> a.args]
    BY <1>4, <2>1
  <2>3. PICK b : b = [a EXCEPT !.seen = Len(queue[p])]
    OBVIOUS
  <2>4. b.at = "wait" /\ b.op = a.op /\ b.src = a.src /\ b.args = a.args
    BY <2>2, <2>3
  <2>5. QED
    BY <1>3, <2>1, <2>3, <2>4
<1>6. \A r \in Procs, i, k \in Ids : Answered(r, i, k)' <=> Answered(r, i, k)
  BY DEF Answered, Pending
<1>7. (Awaits(p)' <=> Awaits(p)) /\ (Accepted(p)' <=> Accepted(p))
  BY <1>5, <1>6 DEF Awaits, Accepted
<1>8. \A q \in Procs, i \in Ids, k \in Ids : Granted(p, i, q, k)' <=> Granted(p, i, q, k)
  BY DEF Granted, HasChan
<1>9. \A q \in Procs, i \in Ids, k \in Ids : Half(p, i, q, k)' <=> Half(p, i, q, k)
  BY <1>5, <1>6, <1>7, <1>8 DEF Half
<1>10. \A i \in Ids : New(p, i)' <=> New(p, i)
  BY <1>5, <1>7 DEF New
<1>11. OutOK(p)'
  <2>1. \A i \in Ids : New(p, i)' \/ (Awaits(p)' /\ app'[p].src = i) => out'[p][i] = 0
    BY <1>1, <1>5, <1>7, <1>10 DEF OutOK
  <2>2. \A i \in Ids : HasChan(p, i)' => chans'[p][i].fd.no <= openCalls'[chans'[p][i].fd.proc]
    BY <1>1 DEF OutOK, HasChan
  <2>3. Awaits(p)' => app'[p].args.no <= openCalls'[app'[p].args.proc]
    BY <1>1, <1>5, <1>7 DEF OutOK
  <2>4. QED
    BY <1>5, <2>1, <2>2, <2>3 DEF OutOK
<1>12. \A r \in Procs : MailKept(r) /\ EndKept(r)
  BY MailSame
<1>13. \A fd \in Fds : fd.no <= openCalls[fd.proc] /\ HasReader(fd)' =>
                          HasReader(fd) /\ EndKept(fd.proc)
  BY <1>1, <1>12, TypeFacts DEF HasReader
<1>14. \A r \in Procs : openCalls[r] <= openCalls'[r]
  BY <1>1 DEF TypeOK
<1>15. QED
  BY <1>2, <1>6, <1>8, <1>9, <1>10, <1>11, <1>12, <1>13, <1>14, StreamsFrame

LEMMA StreamPoll ==
    ASSUME FifoInv, TypeOK', StreamInv, NEW p \in Procs, Poll(p)
    PROVE  StreamInv'
<1>1. TypeOK /\ pipe[p] # << >> /\ \A r \in Procs : InboxOK(r) /\ OutOK(r)
  BY DEF FifoInv, StreamInv, Poll
<1>2. PICK pk : pk = Head(pipe[p])
  OBVIOUS
<1>3. /\ pipe' = [pipe EXCEPT ![p] = Tail(@)]
      /\ UNCHANGED <<inode, openCalls, nextId, chans, app, out, got>>
  BY DEF Poll, api
<1>4. /\ \A r \in Procs : r # p => pipe'[r] = pipe[r]
      /\ pk \in Packets /\ Signals(pipe[p])' = Signals(pipe[p]) \ {pk}
      /\ pk.type # "MESSAGE" => pk \in Signals(pipe[p])
  BY <1>1, <1>2, <1>3, PipeTail
<1>5. \A r \in Procs, i, k \in Ids : Answered(r, i, k)' <=> Answered(r, i, k)
  <2>1. CASE IsDisconnect(pk)
    <3>1. queue' = queue
      BY <1>2, <2>1 DEF Poll, Enqueue
    <3>2. \A i, k \in Ids : Packet("ACCEPT", i, k) # pk
      BY <2>1, Packed DEF IsDisconnect
    <3>3. \A r \in Procs : \A x : x # pk => (x \in Pending(r)' <=> x \in Pending(r))
      BY <1>4, <3>1 DEF Pending
    <3>4. QED
      BY <3>2, <3>3 DEF Answered, Packet
  <2>2. CASE ~IsDisconnect(pk)
    <3>1. queue' = [queue EXCEPT ![p] = Append(@, pk)]
      BY <1>2, <2>2 DEF Poll, Enqueue
    <3>2. /\ \A r \in Procs : r # p => queue'[r] = queue[r]
          /\ pk.type = "MESSAGE" => Signals(queue[p])' = Signals(queue[p])
          /\ pk.type # "MESSAGE" => Signals(queue[p])' = Signals(queue[p]) \cup {pk}
      BY <1>1, <1>4, <2>2, <3>1, QueueAppend
    <3>3. pk.type = "MESSAGE" => pk \notin Signals(pipe[p])
      BY <1>1, QueueTypes, SignalsAre
    <3>4. \A r \in Procs : Pending(r)' = Pending(r)
      BY <1>4, <3>2, <3>3 DEF Pending
    <3>5. QED
      BY <3>4 DEF Answered
  <2>3. QED
    BY <2>1, <2>2
<1>6. /\ \A q \in Procs, i, k \in Ids : /\ Half(p, i, q, k)' <=> Half(p, i, q, k)
                                        /\ Granted(p, i, q, k)' <=> Granted(p, i, q, k)
      /\ \A i \in Ids : New(p, i)' <=> New(p, i)
  BY <1>3, <1>5, SameHalf
<1>7. openCalls' \in [Procs -> Nat] /\ \A q \in Procs : openCalls[q] <= openCalls'[q]
  BY <1>1, <1>3 DEF TypeOK
<1>8. OutOK(p)'
  BY <1>1, <1>3, <1>6, <1>7, SameOut
<1>9. \A r \in Procs : MailKept(r) /\ EndKept(r)
  BY <1>1, MailPoll
<1>10. \A fd \in Fds : fd.no <= openCalls[fd.proc] /\ HasReader(fd)' =>
                          HasReader(fd) /\ EndKept(fd.proc)
  BY <1>1, <1>3, <1>9, TypeFacts DEF HasReader
<1>11. QED
  BY <1>3, <1>5, <1>6, <1>7, <1>8, <1>9, <1>10, StreamsFrame

\* The pipe of p is gone with what is in it: nobody can write to it any more.
LEMMA StreamGone ==
    ASSUME FifoInv, TypeOK', StreamInv, NEW p \in Procs, BrokenPipe(p) \/ CloseDone(p)
    PROVE  StreamInv'
<1>1. TypeOK /\ RequestsOK /\ \A r \in Procs : OutOK(r)
  BY DEF FifoInv, StreamInv
<1>2. /\ inode' = [inode EXCEPT ![p] = NoPipe] /\ pipe' = [pipe EXCEPT ![p] = << >>]
      /\ UNCHANGED <<openCalls, queue, nextId, chans, out, got>>
  BY DEF BrokenPipe, CloseDone
<1>3. PICK a : app' = [app EXCEPT ![p] = a] /\ a.at \in {"killed", "idle"}
  <2>1. CASE BrokenPipe(p)
    <3>1. PICK a : a = [at |-> "killed"]
      OBVIOUS
    <3>2. a.at = "killed"
      BY <3>1
    <3>3. QED
      BY <2>1, <3>1, <3>2 DEF BrokenPipe
  <2>2. CASE CloseDone(p)
    <3>1. Idle.at = "idle"
      BY DEF Idle
    <3>2. QED
      BY <2>2, <3>1 DEF CloseDone
  <2>3. QED
    BY <2>1, <2>2
<1>4. app'[p] = a /\ \A r \in Procs : r # p => app'[r] = app[r]
  BY <1>1, <1>3, AppSet
<1>5. ~Awaits(p) /\ ~Awaits(p)'
  BY <1>3, <1>4 DEF Awaits, BrokenPipe, CloseDone
<1>6. \A i \in Ids : New(p, i)' => New(p, i)
  BY <1>2, <1>3, <1>4, <1>5 DEF New
<1>7. \A q \in Procs, i \in Ids, k \in Ids : Granted(p, i, q, k)' <=> Granted(p, i, q, k)
  BY <1>2 DEF Granted, HasChan
<1>8. \A q \in Procs, i \in Ids, k \in Ids : Half(p, i, q, k)' <=> Half(p, i, q, k)
  BY <1>5, <1>7 DEF Half
<1>9. \A r \in Procs : r # p => pipe'[r] = pipe[r]
  BY <1>1, <1>2 DEF TypeOK
<1>10. \A r \in Procs, i, k \in Ids : r # p => (Answered(r, i, k)' <=> Answered(r, i, k))
  BY <1>2, <1>9 DEF Answered, Pending
<1>11. OutOK(p)'
  <2>1. \A i \in Ids : New(p, i)' \/ (Awaits(p)' /\ app'[p].src = i) => out'[p][i] = 0
    BY <1>1, <1>2, <1>5, <1>6 DEF OutOK
  <2>2. \A i \in Ids : HasChan(p, i)' => chans'[p][i].fd.no <= openCalls'[chans'[p][i].fd.proc]
    BY <1>1, <1>2 DEF OutOK, HasChan
  <2>3. QED
    BY <1>3, <1>4, <1>5, <2>1, <2>2 DEF OutOK
<1>12. /\ \A r \in Procs : MailKept(r)
       /\ \A r \in Procs : r # p => EndKept(r)
  BY <1>1, <1>2, MailCut
<1>13. ASSUME NEW fd \in Fds, HasReader(fd)' PROVE HasReader(fd) /\ EndKept(fd.proc)
  <2>1. fd.proc \in Procs /\ fd.no # NoPipe
    BY DEF Fds
  <2>2. inode'[p] = NoPipe /\ \A r \in Procs : r # p => inode'[r] = inode[r]
    BY <1>1, <1>2 DEF TypeOK
  <2>3. fd.proc # p
    BY <1>13, <2>1, <2>2 DEF HasReader
  <2>4. QED
    BY <1>12, <1>13, <2>1, <2>2, <2>3 DEF HasReader
<1>14. \A r \in Procs : openCalls[r] <= openCalls'[r]
  BY <1>1, <1>2 DEF TypeOK
<1>15. QED
  BY <1>2, <1>4, <1>6, <1>7, <1>8, <1>10, <1>11, <1>12, <1>13, <1>14, StreamsFrame

LEMMA StreamWriteConnect ==
    ASSUME FifoInv, TypeOK', StreamInv, NEW p \in Procs, PacketWrite(p), app[p].op = "connect"
    PROVE  StreamInv'
<1>1. /\ TypeOK /\ RequestsOK
      /\ \A r \in Procs : InboxOK(r) /\ ThreadOK(r) /\ IdsOK(r) /\ OutOK(r)
  BY DEF FifoInv, StreamInv
<1>2. PICK fd \in Fds, q \in Procs : fd = app[p].to /\ q = fd.proc
  BY WriteIs
<1>3. PICK i \in Ids : i = app[p].args
  <2>1. app[p] \in Positions /\ app[p].at = "write"
    BY <1>1, WriteIs DEF TypeOK
  <2>2. QED
    BY <2>1, PositionIs
<1>4. PICK a : a = [at |-> "wait", op |-> "connect", type |-> "ACCEPT", src |-> i, seen |-> 0,
                    args |-> fd]
  OBVIOUS
<1>5. /\ app[p].at = "write" /\ inode[q] # NoPipe /\ Len(pipe[q]) < PipeCap
      /\ pipe' = [pipe EXCEPT ![q] = Append(@, app[p].pk)] /\ app' = [app EXCEPT ![p] = a]
      /\ UNCHANGED <<inode, openCalls, queue, nextId, got, chans, out>>
  <2>1. Wrote(p)
    BY WriteIs
  <2>2. app' = [app EXCEPT ![p] = a] /\ UNCHANGED <<chans, out>>
    BY <1>2, <1>3, <1>4, <2>1 DEF Wrote, Wait
  <2>3. QED
    BY <1>2, <2>2, WriteIs
<1>6. app[p].pk = Request(p, i)
  BY <1>1, <1>3, <1>5 DEF ThreadOK
<1>7. a.at = "wait" /\ a.op = "connect" /\ a.src = i /\ a.args = fd
  BY <1>4
<1>8. app'[p] = a /\ \A r \in Procs : r # p => app'[r] = app[r]
  BY <1>1, <1>5, AppSet
<1>9. ~Awaits(p) /\ Awaits(p)'
  BY <1>5, <1>7, <1>8 DEF Awaits
<1>10. /\ ~Accepted(p) /\ (\A j, k \in Ids : ~Answered(p, j, k))
       /\ \A r \in Procs, j \in Ids : ~Requested(r, p, j)
  BY <1>1, <1>9, NotAwaiting
<1>11. /\ Request(p, i) \in Packets /\ Request(p, i).type # "MESSAGE"
       /\ Request(p, i) \notin Pending(q)
  BY <1>10, Packed DEF Requested
<1>12. \A r \in Procs : \A x : x \in Pending(r)' <=>
                                  x \in Pending(r) \/ (r = q /\ x = Request(p, i))
  BY <1>1, <1>5, <1>6, <1>11, SignalSent
<1>13. \A r \in Procs, j, k \in Ids : Answered(r, j, k)' <=> Answered(r, j, k)
  BY <1>12, PacketsDiffer DEF Answered, Packet
<1>14. \A j \in Ids : New(p, j)' => New(p, j)
  BY <1>3, <1>5, <1>7, <1>8 DEF New, Awaits
<1>15. \A r \in Procs, j \in Ids, k \in Ids : Granted(p, j, r, k)' <=> Granted(p, j, r, k)
  BY <1>5 DEF Granted, HasChan
<1>16. \A r \in Procs, j \in Ids, k \in Ids : Half(p, j, r, k)' <=> Half(p, j, r, k)
  BY <1>9, <1>10, <1>13, <1>15 DEF Half
<1>17. OutOK(p)'
  <2>1. New(p, i)
    BY <1>3, <1>5 DEF New
  <2>2. \A j \in Ids : New(p, j)' \/ (Awaits(p)' /\ app'[p].src = j) => out'[p][j] = 0
    BY <1>1, <1>5, <1>7, <1>8, <1>14, <2>1 DEF OutOK
  <2>3. \A j \in Ids : HasChan(p, j)' => chans'[p][j].fd.no <= openCalls'[chans'[p][j].fd.proc]
    BY <1>1, <1>5 DEF OutOK, HasChan
  <2>4. app'[p].args.no <= openCalls'[app'[p].args.proc]
    BY <1>1, <1>2, <1>5, <1>7, <1>8 DEF OutOK
  <2>5. QED
    BY <1>7, <1>8, <2>2, <2>3, <2>4 DEF OutOK
<1>18. \A r \in Procs : MailKept(r) /\ EndKept(r)
  BY <1>1, <1>5, <1>6, <1>11, MailSent
<1>19. \A f \in Fds : f.no <= openCalls[f.proc] /\ HasReader(f)' => HasReader(f) /\ EndKept(f.proc)
  BY <1>1, <1>5, <1>18, TypeFacts DEF HasReader
<1>20. \A r \in Procs : openCalls[r] <= openCalls'[r]
  BY <1>1, <1>5 DEF TypeOK
<1>21. QED
  BY <1>5, <1>8, <1>13, <1>14, <1>15, <1>16, <1>17, <1>18, <1>19, <1>20, StreamsFrame

LEMMA StreamWriteDisconnect ==
    ASSUME FifoInv, TypeOK', StreamInv, NEW p \in Procs, PacketWrite(p), app[p].op = "disconnect"
    PROVE  StreamInv'
<1>1. TypeOK /\ \A r \in Procs : InboxOK(r) /\ OutOK(r)
  BY DEF FifoInv, StreamInv
<1>2. PICK q \in Procs : q = app[p].to.proc
  BY WriteIs
<1>3. PICK i \in Ids, k \in Ids : i = app[p].args /\ app[p].pk = Packet("DISCONNECT", k, << >>)
  BY Writing, WriteIs
<1>4. PICK pk : pk = Packet("DISCONNECT", k, << >>)
  OBVIOUS
<1>5. /\ app[p].at = "write" /\ Len(pipe[q]) < PipeCap
      /\ pipe' = [pipe EXCEPT ![q] = Append(@, pk)] /\ app' = [app EXCEPT ![p] = Idle]
      /\ chans' = [chans EXCEPT ![p][i] = NoChan]
      /\ UNCHANGED <<inode, openCalls, queue, nextId, got, out>>
  <2>1. Wrote(p)
    BY WriteIs
  <2>2. /\ app' = [app EXCEPT ![p] = Idle] /\ chans' = [chans EXCEPT ![p][i] = NoChan]
        /\ UNCHANGED <<writers, out>>
    BY <1>3, <2>1 DEF Wrote
  <2>3. QED
    BY <1>2, <1>3, <1>4, <2>2, WriteIs
<1>6. app'[p] = Idle /\ Idle.at = "idle" /\ \A r \in Procs : r # p => app'[r] = app[r]
  BY <1>1, <1>5, AppSet DEF Idle
<1>7. /\ chans'[p][i] = NoChan /\ \A j \in Ids : j # i => chans'[p][j] = chans[p][j]
      /\ \A r \in Procs : r # p => chans'[r] = chans[r]
  <2>1. chans \in [Procs -> [Ids -> Chans \cup {NoChan}]]
    BY <1>1 DEF TypeOK
  <2>2. QED
    BY <1>5, <2>1
<1>8. Plain(app[p]) /\ Plain(app'[p])
  BY <1>5, <1>6 DEF Plain
<1>9. \A j \in Ids : (HasChan(p, j)' => chans'[p][j] = chans[p][j] /\ HasChan(p, j))
                     /\ (chans'[p][j] = chans[p][j] \/ ~HasChan(p, j)')
  BY <1>7 DEF HasChan
<1>10. /\ ~Awaits(p) /\ ~Awaits(p)'
       /\ \A r \in Procs, j, l \in Ids : /\ Half(p, j, r, l)' => Half(p, j, r, l)
                                         /\ Half(p, j, r, l)' <=> Granted(p, j, r, l)'
                                         /\ Granted(p, j, r, l)' => Granted(p, j, r, l)
       /\ \A j \in Ids : New(p, j)' <=> New(p, j)
  BY <1>5, <1>8, <1>9, PlainHalf
<1>11. \A r \in Procs, j, l \in Ids : Granted(p, j, r, l)' => chans'[p][j] = chans[p][j]
  BY <1>9 DEF Granted
<1>12. pk \in Packets /\ pk.type = "DISCONNECT" /\ pk.type # "MESSAGE"
  BY <1>4, Packed
<1>13. /\ \A r \in Procs : r # q => pipe'[r] = pipe[r]
       /\ Signals(pipe[q])' = Signals(pipe[q]) \cup {pk}
  BY <1>1, <1>5, <1>12, PipeAppend
<1>14. \A r \in Procs, j, l \in Ids : Answered(r, j, l)' <=> Answered(r, j, l)
  <2>1. \A j, l \in Ids : Packet("ACCEPT", j, l) # pk
    BY <1>12, Packed
  <2>2. \A r \in Procs : \A x : x # pk => (x \in Pending(r)' <=> x \in Pending(r))
    BY <1>5, <1>13 DEF Pending
  <2>3. QED
    BY <2>1, <2>2 DEF Answered, Packet
<1>15. OutOK(p)'
  <2>1. \A j \in Ids : New(p, j)' \/ (Awaits(p)' /\ app'[p].src = j) => out'[p][j] = 0
    BY <1>1, <1>5, <1>10 DEF OutOK
  <2>2. \A j \in Ids : HasChan(p, j)' => chans'[p][j].fd.no <= openCalls'[chans'[p][j].fd.proc]
    BY <1>1, <1>5, <1>9 DEF OutOK
  <2>3. QED
    BY <1>6, <1>10, <2>1, <2>2 DEF OutOK
<1>16. \A r \in Procs : MailKept(r) /\ EndKept(r)
  BY <1>1, <1>5, <1>12, MailSent
<1>17. \A f \in Fds : f.no <= openCalls[f.proc] /\ HasReader(f)' => HasReader(f) /\ EndKept(f.proc)
  BY <1>1, <1>5, <1>16, TypeFacts DEF HasReader
<1>18. \A r \in Procs : openCalls[r] <= openCalls'[r]
  BY <1>1, <1>5 DEF TypeOK
<1>19. QED
  BY <1>5, <1>6, <1>7, <1>10, <1>11, <1>14, <1>15, <1>16, <1>17, <1>18, StreamsFrame

LEMMA StreamGotConnect ==
    ASSUME FifoInv, TypeOK', StreamInv, NEW p \in Procs, app[p].at = "wait", NEW m \in 1..Len(queue[p]),
           Match(queue[p][m], app[p].type, app[p].src), GotConnect(p, queue[p][m]),
           queue' = [queue EXCEPT ![p] = RemoveAt(queue[p], m)],
           UNCHANGED <<pipe, inode, opens, openCalls, out, stale>>
    PROVE  StreamInv'
<1>1. TypeOK /\ app[p].op = "accept" /\ \A r \in Procs : InboxOK(r) /\ OutOK(r)
  BY DEF FifoInv, StreamInv, GotConnect
<1>2. queue[p][m].type = "CONNECT"
  <2>1. app[p] \in Positions
    BY <1>1 DEF TypeOK
  <2>2. app[p].type = "CONNECT"
    BY <1>1, <2>1, PositionIs
  <2>3. QED
    BY <2>2 DEF Match
<1>3. \A r \in Procs : \A x : x \in Pending(r)' <=> x \in Pending(r) /\ ~(r = p /\ x = queue[p][m])
  <2>1. queue[p][m].type # "MESSAGE"
    BY <1>2
  <2>2. /\ queue' \in [Procs -> Seq(Packets \ Disconnects)]
        /\ \A r \in Procs : r # p => queue'[r] = queue[r]
        /\ queue[p][m] \in Packets \ Disconnects /\ queue[p][m] \in Pending(p)
        /\ \A r \in Procs : InboxOK(r)'
        /\ \A r \in Procs : \A x : x \in Pending(r)' <=>
                                      x \in Pending(r) /\ ~(r = p /\ x = queue[p][m])
    BY <1>1, <2>1, SignalTaken
  <2>3. QED
    BY <2>2
<1>4. \A r \in Procs, j, l \in Ids : Answered(r, j, l)' <=> Answered(r, j, l)
  <2>1. PICK pk : pk = queue[p][m]
    OBVIOUS
  <2>2. \A j, l \in Ids : Packet("ACCEPT", j, l) # pk
    BY <1>2, <2>1, Packed
  <2>3. \A r \in Procs : \A x : x # pk => (x \in Pending(r)' <=> x \in Pending(r))
    BY <1>3, <2>1
  <2>4. QED
    BY <2>2, <2>3 DEF Answered, Packet
<1>5. UNCHANGED <<chans, got>> /\ \A r \in Procs : r # p => app'[r] = app[r] /\ nextId'[r] = nextId[r]
  <2>1. UNCHANGED <<chans, got>>
    BY DEF GotConnect
  <2>2. nextId \in [Procs -> 1..(MaxChan + 1)]
    BY <1>1 DEF TypeOK
  <2>3. nextId' = nextId \/ nextId' = [nextId EXCEPT ![p] = @ + 1]
    BY DEF GotConnect
  <2>4. \E a : app' = [app EXCEPT ![p] = a]
    BY DEF GotConnect
  <2>5. QED
    BY <1>1, <2>1, <2>2, <2>3, <2>4, AppSet
<1>6. \/ app'[p].at = "idle" /\ nextId'[p] = nextId[p]
      \/ /\ nextId[p] \in Ids /\ nextId'[p] = nextId[p] + 1
         /\ app'[p].at = "write" /\ app'[p].op = "accept" /\ app'[p].pk.data = nextId[p]
         /\ app'[p].to.no <= openCalls[app'[p].to.proc]
  <2>1. CASE inode[queue[p][m].data.proc] = NoPipe
    <3>1. app' = [app EXCEPT ![p] = Idle] /\ nextId' = nextId
      BY <2>1 DEF GotConnect
    <3>2. Idle.at = "idle"
      BY DEF Idle
    <3>3. QED
      BY <1>1, <3>1, <3>2, AppSet
  <2>2. CASE inode[queue[p][m].data.proc] # NoPipe
    <3>1. PICK q, id : q = queue[p][m].data.proc /\ id = queue[p][m].data.id
      OBVIOUS
    <3>2. q \in Procs
      <4>1. queue[p][m] \in Packets
        BY <1>1, QueueTypes
      <4>2. QED
        BY <1>2, <3>1, <4>1, PacketIs
    <3>3. PICK a : a = Send("accept", Fd(q), Packet("ACCEPT", id, nextId[p]),
                            [fd |-> Fd(q), writeid |-> id])
      OBVIOUS
    <3>4. a.at = "write" /\ a.op = "accept" /\ a.pk.data = nextId[p] /\ a.to = Fd(q)
      BY <3>3 DEF Send, Packet
    <3>5. /\ nextId[p] \in Ids /\ nextId' = [nextId EXCEPT ![p] = @ + 1]
          /\ app' = [app EXCEPT ![p] = a]
      BY <2>2, <3>1, <3>3 DEF GotConnect
    <3>6. app'[p] = a /\ nextId'[p] = nextId[p] + 1
      BY <1>1, <3>5, AppSet DEF TypeOK
    <3>7. Fd(q).proc = q /\ Fd(q).no <= openCalls[q]
      BY <1>1, <3>2 DEF Fd, TypeOK
    <3>8. QED
      BY <3>4, <3>5, <3>6, <3>7
  <2>3. QED
    BY <2>1, <2>2
<1>7. ~Awaits(p) /\ ~Awaits(p)'
  BY <1>1, <1>6 DEF Awaits
<1>8. \A i \in Ids : New(p, i)' => New(p, i)
  <2>1. SUFFICES ASSUME NEW i \in Ids, New(p, i)' PROVE nextId[p] <= i
    BY DEF New
  <2>2. nextId[p] \in Nat /\ i \in Nat
    BY <1>1, NextIds, Numbers
  <2>3. QED
    BY <1>6, <1>7, <2>1, <2>2 DEF New
<1>9. \A r \in Procs, i \in Ids, k \in Ids : Granted(p, i, r, k)' <=> Granted(p, i, r, k)
  BY <1>5 DEF Granted, HasChan
<1>10. \A r \in Procs, i \in Ids, k \in Ids : Half(p, i, r, k)' <=> Half(p, i, r, k)
  BY <1>7, <1>9 DEF Half
<1>11. OutOK(p)'
  <2>1. \A i \in Ids : New(p, i)' \/ (Awaits(p)' /\ app'[p].src = i) => out'[p][i] = 0
    BY <1>1, <1>7, <1>8 DEF OutOK
  <2>2. \A i \in Ids : HasChan(p, i)' => chans'[p][i].fd.no <= openCalls'[chans'[p][i].fd.proc]
    BY <1>1, <1>5 DEF OutOK, HasChan
  <2>3. app'[p].at = "write" => app'[p].to.no <= openCalls'[app'[p].to.proc] /\ app'[p].op # "write"
    BY <1>6
  <2>4. QED
    BY <1>7, <2>1, <2>2, <2>3 DEF OutOK
<1>12. \A r \in Procs : MailKept(r) /\ EndKept(r)
  <2>1. queue[p][m].type # "MESSAGE"
    BY <1>2
  <2>2. QED
    BY <1>1, <2>1, MailTaken
<1>13. \A fd \in Fds : fd.no <= openCalls[fd.proc] /\ HasReader(fd)' =>
                          HasReader(fd) /\ EndKept(fd.proc)
  BY <1>1, <1>12, TypeFacts DEF HasReader
<1>14. \A r \in Procs : openCalls[r] <= openCalls'[r]
  BY <1>1 DEF TypeOK
<1>15. QED
  BY <1>4, <1>5, <1>8, <1>9, <1>10, <1>11, <1>12, <1>13, <1>14, StreamsFrame

-----------------------------------------------------------------------------
(* Steps that make a channel.                                              *)

LEMMA SourceKept ==
    ASSUME NEW p \in Procs, NEW i \in Ids, SourceOK(p, i), got'[p][i] = got[p][i],
           Carries(Mail(p)', i) => Carries(Mail(p), i),
           \A r, j, n : Flow(Mail(p), i, r, j, n) => Flow(Mail(p)', i, r, j, n),
           New(p, i)' => New(p, i),
           \A q \in Procs, k \in Ids :
              /\ Half(p, i, q, k)' => Half(p, i, q, k)
              /\ Half(q, k, p, i)' => Half(q, k, p, i)
              /\ Granted(q, k, p, i) => Granted(q, k, p, i)'
    PROVE  SourceOK(p, i)'
<1>1. SUFFICES ASSUME Fed(p, i)' PROVE SourceOK(p, i)'
  BY DEF SourceOK
<1>2. Fed(p, i)
  BY <1>1 DEF Fed
<1>3. PICK r \in Procs, j \in Ids :
         /\ ~New(p, i) /\ Feeds(r, j, p, i)
         /\ \A q \in Procs, k \in Ids : Half(p, i, q, k) => q = r /\ k = j
         /\ \A q \in Procs, k \in Ids : Half(q, k, p, i) => q = r /\ k = j /\ Granted(r, j, p, i)
  BY <1>2 DEF SourceOK
<1>4. Feeds(r, j, p, i)'
  BY <1>3 DEF Feeds
<1>5. QED
  BY <1>3, <1>4 DEF SourceOK

\* A channel nobody has written on yet.
LEMMA EndUnfed ==
    ASSUME NEW q \in Procs, NEW k \in Ids, ~Fed(q, k), MailKept(q), got' = got
    PROVE  EndsAt(Mail(q)', k, Len(got'[q][k]), 0)
<1>1. got'[q][k] = << >> /\ ~Carries(Mail(q)', k)
  BY DEF Fed, MailKept
<1>2. Len(got'[q][k]) = 0
  BY <1>1
<1>3. QED
  BY <1>1, <1>2 DEF EndsAt, Carries

LEMMA StreamGotAccept ==
    ASSUME FifoInv, TypeOK', StreamInv, NEW p \in Procs, app[p].at = "wait", NEW m \in 1..Len(queue[p]),
           Match(queue[p][m], app[p].type, app[p].src), GotAccept(p, queue[p][m]),
           queue' = [queue EXCEPT ![p] = RemoveAt(queue[p], m)],
           UNCHANGED <<pipe, inode, opens, openCalls, out, stale>>
    PROVE  StreamInv'
<1>1. /\ TypeOK /\ RequestsOK /\ PairsOK /\ app[p].op = "connect" /\ Awaits(p)
      /\ \A r \in Procs : InboxOK(r) /\ IdsOK(r) /\ OutOK(r)
  BY DEF FifoInv, StreamInv, GotAccept, Awaits
<1>2. PICK i \in Ids, fd \in Fds : i = app[p].src /\ fd = app[p].args
  BY <1>1, TypeFacts
<1>3. PICK q \in Procs : q = fd.proc
  BY <1>1, TypeFacts
<1>4. queue[p][m].type = "ACCEPT" /\ queue[p][m].src = i
  <2>1. app[p] \in Positions
    BY <1>1 DEF TypeOK
  <2>2. app[p].type = "ACCEPT"
    BY <1>1, <2>1, PositionIs
  <2>3. QED
    BY <1>2, <2>2 DEF Match
<1>5. /\ queue[p][m] \in Packets \ Disconnects /\ queue[p][m] \in Pending(p)
      /\ \A r \in Procs : \A x : x \in Pending(r)' <=>
                                    x \in Pending(r) /\ ~(r = p /\ x = queue[p][m])
  <2>1. TypeOK /\ (\A r \in Procs : InboxOK(r)) /\ queue[p][m].type # "MESSAGE"
    BY <1>1, <1>4
  <2>2. /\ queue' \in [Procs -> Seq(Packets \ Disconnects)]
        /\ \A r \in Procs : r # p => queue'[r] = queue[r]
        /\ queue[p][m] \in Packets \ Disconnects /\ queue[p][m] \in Pending(p)
        /\ \A r \in Procs : InboxOK(r)'
        /\ \A r \in Procs : \A x : x \in Pending(r)' <=>
                                      x \in Pending(r) /\ ~(r = p /\ x = queue[p][m])
    BY <2>1, SignalTaken
  <2>3. QED
    BY <2>2
<1>6. PICK k \in Ids : k = queue[p][m].data /\ queue[p][m] = Packet("ACCEPT", i, k)
  BY <1>4, <1>5, PacketIs
<1>7. PICK c \in Chans : c = [fd |-> fd, writeid |-> k] /\ c.fd = fd /\ c.writeid = k
  <2>1. [fd |-> fd, writeid |-> k] \in Chans
    BY DEF Chans
  <2>2. QED
    BY <2>1
<1>8. /\ chans' = [chans EXCEPT ![p][i] = c] /\ app' = [app EXCEPT ![p] = Idle]
      /\ UNCHANGED <<nextId, got>>
  <2>1. /\ chans' = [chans EXCEPT ![p][app[p].src] =
                        [fd |-> app[p].args, writeid |-> queue[p][m].data]]
        /\ app' = [app EXCEPT ![p] = Idle] /\ UNCHANGED <<nextId, got>>
    BY DEF GotAccept
  <2>2. QED
    BY <1>2, <1>6, <1>7, <2>1
<1>9. app'[p] = Idle /\ Idle.at = "idle" /\ \A r \in Procs : r # p => app'[r] = app[r]
  BY <1>1, <1>8, AppSet DEF Idle
<1>10. /\ chans'[p][i] = c
       /\ \A r \in Procs, j \in Ids : r # p \/ j # i => chans'[r][j] = chans[r][j]
       /\ \A r \in Procs : r # p => chans'[r] = chans[r]
  <2>1. chans \in [Procs -> [Ids -> Chans \cup {NoChan}]]
    BY <1>1 DEF TypeOK
  <2>2. QED
    BY <1>8, <2>1
<1>11. Answered(p, i, k)
  BY <1>5, <1>6 DEF Answered
<1>12. \A j, l \in Ids : Answered(p, j, l) => j = i /\ l = k
  BY <1>1, <1>2, <1>11 DEF RequestsOK, RequestOK
<1>13. \A r \in Procs, j, l \in Ids : r # p => (Answered(r, j, l)' <=> Answered(r, j, l))
  BY <1>5 DEF Answered
<1>14. ~HasChan(p, i) /\ q # p /\ i < nextId[p]
  BY <1>1, <1>2, <1>3 DEF IdsOK
<1>15. /\ \A r \in Procs, j \in Ids : r # p \/ j # i => (HasChan(r, j)' <=> HasChan(r, j))
       /\ HasChan(p, i)'
  <2>1. c # NoChan
    <3>1. c.writeid # NoChan.writeid
      BY <1>7, Numbers DEF NoChan
    <3>2. QED
      BY <3>1
  <2>2. QED
    BY <1>10, <2>1 DEF HasChan
<1>16. /\ \A r, s \in Procs, j, l \in Ids : r # p \/ j # i => (Granted(r, j, s, l)' <=> Granted(r, j, s, l))
       /\ \A s \in Procs, l \in Ids : Granted(p, i, s, l)' <=> s = q /\ l = k
       /\ \A s \in Procs, l \in Ids : ~Granted(p, i, s, l)
  <2>1. \A s \in Procs, l \in Ids : Granted(p, i, s, l)' <=> s = q /\ l = k
    BY <1>3, <1>7, <1>10, <1>15 DEF Granted
  <2>2. \A r, s \in Procs, j, l \in Ids : r # p \/ j # i => (Granted(r, j, s, l)' <=> Granted(r, j, s, l))
    BY <1>10, <1>15 DEF Granted
  <2>3. \A s \in Procs, l \in Ids : ~Granted(p, i, s, l)
    BY <1>14 DEF Granted
  <2>4. QED
    BY <2>1, <2>2, <2>3
<1>17. ASSUME NEW r \in Procs, r # p
       PROVE  /\ \A s \in Procs, j, l \in Ids : Half(r, j, s, l)' <=> Half(r, j, s, l)
              /\ \A j \in Ids : New(r, j)' <=> New(r, j)
  BY <1>8, <1>9, <1>10, <1>13, <1>17, SameHalf
<1>18. ~Awaits(p)'
  BY <1>9 DEF Awaits
<1>19. \A s \in Procs, j, l \in Ids : Half(p, j, s, l)' <=> Half(p, j, s, l)
  <2>1. ASSUME NEW s \in Procs, NEW j \in Ids, NEW l \in Ids PROVE Half(p, j, s, l)' <=> Half(p, j, s, l)
    <3>1. Half(p, j, s, l)' <=> Granted(p, j, s, l)'
      BY <1>18 DEF Half
    <3>2. CASE j = i
      <4>1. Half(p, i, s, l) <=> app[p].args.proc = s /\ Answered(p, i, l)
        BY <1>1, <1>2, <1>16 DEF Half
      <4>2. QED
        BY <1>2, <1>3, <1>11, <1>12, <1>16, <3>1, <3>2, <4>1
    <3>3. CASE j # i
      BY <1>2, <1>16, <3>1, <3>3 DEF Half
    <3>4. QED
      BY <3>2, <3>3
  <2>2. QED
    BY <2>1
<1>20. \A j \in Ids : New(p, j)' => New(p, j)
  BY <1>8, <1>9, <1>18 DEF New
<1>21. \A r \in Procs : MailKept(r) /\ EndKept(r)
  <2>1. queue[p][m].type # "MESSAGE"
    BY <1>4
  <2>2. QED
    BY <1>1, <2>1, MailTaken
<1>22. PairsOK'
  <2>1. \A r, s \in Procs, j, l \in Ids : Half(r, j, s, l)' => Half(r, j, s, l)
    BY <1>17, <1>19
  <2>2. QED
    BY <1>1, <2>1 DEF PairsOK
<1>23. ASSUME NEW r \in Procs, NEW j \in Ids PROVE SourceOK(r, j)'
  <2>1. SourceOK(r, j)
    BY DEF StreamInv
  <2>2. \A s \in Procs, l \in Ids : /\ Half(r, j, s, l)' => Half(r, j, s, l)
                                    /\ Half(s, l, r, j)' => Half(s, l, r, j)
                                    /\ Granted(s, l, r, j) => Granted(s, l, r, j)'
    BY <1>16, <1>17, <1>19
  <2>3. New(r, j)' => New(r, j)
    BY <1>17, <1>20
  <2>4. QED
    BY <1>8, <1>21, <2>1, <2>2, <2>3, SourceKept DEF MailKept
<1>24. out[p][i] = 0
  BY <1>1, <1>2 DEF OutOK
<1>25. ~Fed(q, k)
  <2>1. Half(p, i, q, k)
    BY <1>1, <1>2, <1>3, <1>11 DEF Half
  <2>2. SourceOK(q, k)
    BY DEF StreamInv
  <2>3. SUFFICES ASSUME Fed(q, k) PROVE FALSE
    OBVIOUS
  <2>4. PICK r \in Procs, j \in Ids : Half(p, i, q, k) => p = r /\ i = j /\ Granted(r, j, q, k)
    BY <2>2, <2>3 DEF SourceOK
  <2>5. QED
    BY <1>16, <2>1, <2>4
<1>26. ASSUME NEW r \in Procs, NEW s \in Procs, NEW j \in Ids, NEW l \in Ids PROVE EndOK(r, j, s, l)'
  <2>1. SUFFICES ASSUME Granted(r, j, s, l)', HasReader(chans[r][j].fd)'
                 PROVE  EndsAt(Mail(s)', l, Len(got'[s][l]), out'[r][j])
    BY DEF EndOK
  <2>2. CASE r = p /\ j = i
    <3>1. s = q /\ l = k
      BY <1>16, <2>1, <2>2
    <3>2. QED
      BY <1>8, <1>21, <1>24, <1>25, <2>2, <3>1, EndUnfed
  <2>3. CASE r # p \/ j # i
    <3>1. Granted(r, j, s, l) /\ chans'[r][j] = chans[r][j]
      BY <1>10, <1>16, <2>1, <2>3
    <3>2. HasReader(chans[r][j].fd)
      BY <2>1, <3>1 DEF HasReader
    <3>3. EndsAt(Mail(s), l, Len(got[s][l]), out[r][j])
      BY <3>1, <3>2 DEF StreamInv, EndOK
    <3>4. QED
      BY <1>8, <1>21, <3>3 DEF EndKept
  <2>4. QED
    BY <2>2, <2>3
<1>27. openCalls' \in [Procs -> Nat] /\ \A r \in Procs : openCalls[r] <= openCalls'[r]
  <2>1. openCalls \in [Procs -> Nat] /\ openCalls' = openCalls
    BY <1>1 DEF TypeOK
  <2>2. QED
    BY <2>1
<1>28. ASSUME NEW r \in Procs PROVE OutOK(r)'
  <2>1. CASE r # p
    BY <1>1, <1>9, <1>10, <1>17, <1>27, <2>1, SameOut
  <2>2. CASE r = p
    <3>1. \A j \in Ids : New(p, j)' \/ (Awaits(p)' /\ app'[p].src = j) => out'[p][j] = 0
      BY <1>1, <1>18, <1>20 DEF OutOK
    <3>2. ASSUME NEW j \in Ids, HasChan(p, j)'
          PROVE  chans'[p][j].fd.no <= openCalls'[chans'[p][j].fd.proc]
      <4>1. CASE j = i
        BY <1>1, <1>2, <1>7, <1>10, <4>1 DEF OutOK
      <4>2. CASE j # i
        BY <1>1, <1>10, <1>15, <3>2, <4>2 DEF OutOK
      <4>3. QED
        BY <4>1, <4>2
    <3>3. QED
      BY <1>9, <1>18, <2>2, <3>1, <3>2 DEF OutOK
  <2>3. QED
    BY <2>1, <2>2
<1>29. QED
  BY <1>22, <1>23, <1>26, <1>28 DEF StreamInv


LEMMA StreamWriteAccept ==
    ASSUME FifoInv, TypeOK', StreamInv, NEW p \in Procs, PacketWrite(p), app[p].op = "accept"
    PROVE  StreamInv'
<1>1. /\ TypeOK /\ RequestsOK /\ PairsOK
      /\ \A r \in Procs : InboxOK(r) /\ ThreadOK(r) /\ IdsOK(r) /\ OutOK(r)
  BY DEF FifoInv, StreamInv
<1>2. PICK fd \in Fds, q \in Procs : fd = app[p].to /\ q = fd.proc
  BY WriteIs
<1>3. PICK i \in Ids, k \in Ids : /\ app[p].pk = Packet("ACCEPT", i, k)
                                  /\ app[p].pk.src = i /\ app[p].pk.data = k
  <2>1. app[p] \in Positions /\ app[p].at = "write"
    BY <1>1, WriteIs DEF TypeOK
  <2>2. app[p].pk \in Accepts
    BY <2>1, PositionIs
  <2>3. QED
    BY <2>2 DEF Accepts, Packet
<1>4. PICK pk : pk = Packet("ACCEPT", i, k)
  OBVIOUS
<1>5. PICK c \in Chans : c = [fd |-> fd, writeid |-> i] /\ c.fd = fd /\ c.writeid = i
  <2>1. [fd |-> fd, writeid |-> i] \in Chans
    BY DEF Chans
  <2>2. QED
    BY <2>1
<1>6. /\ app[p].at = "write" /\ inode[q] # NoPipe /\ Len(pipe[q]) < PipeCap
      /\ pipe' = [pipe EXCEPT ![q] = Append(@, pk)] /\ app' = [app EXCEPT ![p] = Idle]
      /\ chans' = [chans EXCEPT ![p][k] = c]
      /\ UNCHANGED <<inode, openCalls, queue, nextId, got, out>>
  <2>1. Wrote(p) /\ app[p].at = "write"
    BY WriteIs
  <2>2. app[p].args = c
    BY <1>1, <1>2, <1>3, <1>5, <2>1 DEF ThreadOK
  <2>3. /\ app' = [app EXCEPT ![p] = Idle] /\ chans' = [chans EXCEPT ![p][app[p].pk.data] = app[p].args]
        /\ UNCHANGED out
    BY <2>1 DEF Wrote
  <2>4. chans' = [chans EXCEPT ![p][k] = c]
    BY <1>3, <2>2, <2>3
  <2>5. QED
    BY <1>2, <1>3, <1>4, <2>3, <2>4, WriteIs
<1>7. Accepting(p, q)
  BY <1>2, <1>6 DEF Accepting
<1>8. Awaits(q) /\ app[q].src = i /\ app[q].args.proc = p /\ ~Accepted(q)
  BY <1>1, <1>3, <1>7 DEF RequestsOK, RequestOK
<1>9. q # p /\ ~Held(q, i) /\ ~HasChan(q, i) /\ ~Held(p, k) /\ ~HasChan(p, k)
  <2>1. q # p
    BY <1>6, <1>8 DEF Awaits
  <2>2. ~Held(q, i) /\ ~HasChan(q, i)
    BY <1>1, <1>8 DEF IdsOK
  <2>3. ~InUse(p, k)
    BY <1>1, <1>3, <1>6 DEF IdsOK
  <2>4. QED
    BY <2>1, <2>2, <2>3 DEF InUse
<1>10. app'[p] = Idle /\ Idle.at = "idle" /\ \A r \in Procs : r # p => app'[r] = app[r]
  BY <1>1, <1>6, AppSet DEF Idle
<1>11. /\ chans'[p][k] = c
       /\ \A r \in Procs, j \in Ids : r # p \/ j # k => chans'[r][j] = chans[r][j]
       /\ \A r \in Procs : r # p => chans'[r] = chans[r]
  <2>1. chans \in [Procs -> [Ids -> Chans \cup {NoChan}]]
    BY <1>1 DEF TypeOK
  <2>2. QED
    BY <1>6, <2>1
<1>12. pk \in Packets /\ pk.type # "MESSAGE" /\ pk \notin Pending(q)
  BY <1>4, <1>8, Packed DEF Accepted, Answered
<1>13. \A r \in Procs : \A x : x \in Pending(r)' <=> x \in Pending(r) \/ (r = q /\ x = pk)
  BY <1>1, <1>6, <1>12, SignalSent
<1>14. \A r \in Procs, j, l \in Ids :
          Answered(r, j, l)' <=> Answered(r, j, l) \/ (r = q /\ j = i /\ l = k)
  BY <1>4, <1>13, PacketsDiffer DEF Answered
<1>15. /\ \A r \in Procs, j \in Ids : r # p \/ j # k => (HasChan(r, j)' <=> HasChan(r, j))
       /\ HasChan(p, k)'
  <2>1. c # NoChan
    <3>1. c.writeid # NoChan.writeid
      BY <1>5, Numbers DEF NoChan
    <3>2. QED
      BY <3>1
  <2>2. QED
    BY <1>11, <2>1 DEF HasChan
<1>16. \A r, s \in Procs, j, l \in Ids :
          Granted(r, j, s, l)' <=> Granted(r, j, s, l) \/ (r = p /\ j = k /\ s = q /\ l = i)
  <2>1. \A r, s \in Procs, j, l \in Ids : r # p \/ j # k => (Granted(r, j, s, l)' <=> Granted(r, j, s, l))
    BY <1>11, <1>15 DEF Granted
  <2>2. \A s \in Procs, l \in Ids : Granted(p, k, s, l)' <=> s = q /\ l = i
    BY <1>2, <1>5, <1>11, <1>15 DEF Granted
  <2>3. \A s \in Procs, l \in Ids : ~Granted(p, k, s, l)
    BY <1>9 DEF Granted
  <2>4. QED
    BY <2>1, <2>2, <2>3
<1>17. ~Awaits(p) /\ ~Awaits(p)' /\ \A r \in Procs : Awaits(r)' <=> Awaits(r)
  BY <1>6, <1>10 DEF Awaits
<1>18. /\ \A s \in Procs, l \in Ids : ~Half(p, k, s, l) /\ ~Half(q, i, s, l)
       /\ \A s \in Procs, l \in Ids : ~Half(s, l, p, k) /\ ~Half(s, l, q, i)
  <2>1. \A s \in Procs, l \in Ids : ~Half(p, k, s, l) /\ ~Half(q, i, s, l)
    BY <1>8, <1>9, <1>17 DEF Half, Granted, Accepted
  <2>2. \A s \in Procs, l \in Ids : ~Half(s, l, p, k) /\ ~Half(s, l, q, i)
    BY <1>9 DEF Half, Held, Promised
  <2>3. QED
    BY <2>1, <2>2
<1>19. \A r, s \in Procs, j, l \in Ids : Half(r, j, s, l)' =>
          \/ Half(r, j, s, l)
          \/ r = p /\ j = k /\ s = q /\ l = i
          \/ r = q /\ j = i /\ s = p /\ l = k
  <2>1. ASSUME NEW r \in Procs, NEW s \in Procs, NEW j \in Ids, NEW l \in Ids, Half(r, j, s, l)'
        PROVE  \/ Half(r, j, s, l)
               \/ r = p /\ j = k /\ s = q /\ l = i
               \/ r = q /\ j = i /\ s = p /\ l = k
    <3>1. CASE Granted(r, j, s, l)'
      BY <1>16, <3>1 DEF Half
    <3>2. CASE Awaits(r)' /\ app'[r].src = j /\ app'[r].args.proc = s /\ Answered(r, j, l)'
      <4>1. r # p
        BY <1>17, <3>2
      <4>2. Awaits(r) /\ app[r].src = j /\ app[r].args.proc = s
        BY <1>10, <1>17, <3>2, <4>1
      <4>3. QED
        BY <1>8, <1>14, <3>2, <4>2 DEF Half
    <3>3. QED
      BY <2>1, <3>1, <3>2 DEF Half
  <2>2. QED
    BY <2>1
<1>20. \A r \in Procs, j \in Ids : New(r, j)' => New(r, j)
  <2>1. \A r \in Procs : Accepted(r) => Accepted(r)'
    BY <1>14 DEF Accepted
  <2>2. \A j \in Ids : New(p, j)' => New(p, j)
    BY <1>6, <1>10, <1>17 DEF New
  <2>3. \A r \in Procs, j \in Ids : r # p /\ New(r, j)' => New(r, j)
    BY <1>6, <1>10, <1>17, <2>1 DEF New
  <2>4. QED
    BY <2>2, <2>3
<1>21. New(p, k) /\ New(q, i)
  BY <1>3, <1>6, <1>8 DEF New
<1>22. ~Fed(p, k) /\ ~Fed(q, i) /\ out[p][k] = 0
  BY <1>1, <1>21 DEF StreamInv, SourceOK, OutOK
<1>23. \A r \in Procs : MailKept(r) /\ EndKept(r)
  BY <1>1, <1>6, <1>12, MailSent
<1>24. PairsOK'
  <2>1. SUFFICES ASSUME NEW a \in Procs, NEW b \in Procs, NEW r \in Procs,
                        NEW x \in Ids, NEW y \in Ids, NEW z \in Ids,
                        Half(a, x, r, y)', Half(b, z, a, x)'
                 PROVE  b = r /\ z = y
    BY DEF PairsOK
  <2>2. CASE a = p /\ x = k
    <3>1. r = q /\ y = i
      BY <1>9, <1>18, <1>19, <2>1, <2>2
    <3>2. b = q /\ z = i
      BY <1>9, <1>18, <1>19, <2>1, <2>2
    <3>3. QED
      BY <3>1, <3>2
  <2>3. CASE a = q /\ x = i
    <3>1. r = p /\ y = k
      BY <1>9, <1>18, <1>19, <2>1, <2>3
    <3>2. b = p /\ z = k
      BY <1>9, <1>18, <1>19, <2>1, <2>3
    <3>3. QED
      BY <3>1, <3>2
  <2>4. CASE ~(a = p /\ x = k) /\ ~(a = q /\ x = i)
    <3>1. Half(a, x, r, y) /\ Half(b, z, a, x)
      BY <1>19, <2>1, <2>4
    <3>2. QED
      BY <1>1, <3>1 DEF PairsOK
  <2>5. QED
    BY <2>2, <2>3, <2>4
<1>25. ASSUME NEW r \in Procs, NEW j \in Ids PROVE SourceOK(r, j)'
  <2>1. CASE (r = p /\ j = k) \/ (r = q /\ j = i)
    <3>1. ~Fed(r, j)
      BY <1>22, <2>1
    <3>2. ~Fed(r, j)'
      BY <1>6, <1>23, <3>1 DEF Fed, MailKept
    <3>3. QED
      BY <3>2 DEF SourceOK
  <2>2. CASE ~(r = p /\ j = k) /\ ~(r = q /\ j = i)
    <3>1. SourceOK(r, j)
      BY DEF StreamInv
    <3>2. \A s \in Procs, l \in Ids : /\ Half(r, j, s, l)' => Half(r, j, s, l)
                                      /\ Half(s, l, r, j)' => Half(s, l, r, j)
                                      /\ Granted(s, l, r, j) => Granted(s, l, r, j)'
      BY <1>16, <1>19, <2>2
    <3>3. QED
      BY <1>6, <1>20, <1>23, <3>1, <3>2, SourceKept DEF MailKept
  <2>3. QED
    BY <2>1, <2>2
<1>26. ASSUME NEW r \in Procs, NEW s \in Procs, NEW j \in Ids, NEW l \in Ids PROVE EndOK(r, j, s, l)'
  <2>1. SUFFICES ASSUME Granted(r, j, s, l)', HasReader(chans[r][j].fd)'
                 PROVE  EndsAt(Mail(s)', l, Len(got'[s][l]), out'[r][j])
    BY DEF EndOK
  <2>2. CASE r = p /\ j = k
    <3>1. s = q /\ l = i
      BY <1>9, <1>16, <2>1, <2>2 DEF Granted
    <3>2. QED
      BY <1>6, <1>22, <1>23, <2>2, <3>1, EndUnfed
  <2>3. CASE r # p \/ j # k
    <3>1. Granted(r, j, s, l) /\ chans'[r][j] = chans[r][j]
      BY <1>11, <1>16, <2>1, <2>3
    <3>2. HasReader(chans[r][j].fd)
      BY <1>6, <2>1, <3>1 DEF HasReader
    <3>3. EndsAt(Mail(s), l, Len(got[s][l]), out[r][j])
      BY <3>1, <3>2 DEF StreamInv, EndOK
    <3>4. QED
      BY <1>6, <1>23, <3>3 DEF EndKept
  <2>4. QED
    BY <2>2, <2>3
<1>27. openCalls' \in [Procs -> Nat] /\ \A r \in Procs : openCalls[r] <= openCalls'[r]
  <2>1. openCalls \in [Procs -> Nat] /\ openCalls' = openCalls
    BY <1>1, <1>6 DEF TypeOK
  <2>2. QED
    BY <2>1
<1>28. ASSUME NEW r \in Procs PROVE OutOK(r)'
  <2>1. CASE r # p
    BY <1>1, <1>6, <1>10, <1>11, <1>20, <1>27, <2>1, SameOut
  <2>2. CASE r = p
    <3>1. \A j \in Ids : New(p, j)' \/ (Awaits(p)' /\ app'[p].src = j) => out'[p][j] = 0
      BY <1>1, <1>6, <1>17, <1>20 DEF OutOK
    <3>2. ASSUME NEW j \in Ids, HasChan(p, j)'
          PROVE  chans'[p][j].fd.no <= openCalls'[chans'[p][j].fd.proc]
      <4>1. CASE j = k
        BY <1>1, <1>2, <1>5, <1>6, <1>11, <4>1 DEF OutOK
      <4>2. CASE j # k
        BY <1>1, <1>6, <1>11, <1>15, <3>2, <4>2 DEF OutOK
      <4>3. QED
        BY <4>1, <4>2
    <3>3. QED
      BY <1>10, <1>17, <2>2, <3>1, <3>2 DEF OutOK
  <2>3. QED
    BY <2>1, <2>2
<1>29. QED
  BY <1>24, <1>25, <1>26, <1>28 DEF StreamInv


-----------------------------------------------------------------------------
(* Messages come and go.                                                   *)

LEMMA StreamWriteMessage ==
    ASSUME FifoInv, TypeOK', StreamInv, NEW p \in Procs, PacketWrite(p), app[p].op = "write"
    PROVE  StreamInv'
<1>1. /\ TypeOK /\ PairsOK /\ app[p].at = "write"
      /\ \A r \in Procs : InboxOK(r) /\ ThreadOK(r) /\ OutOK(r)
  BY WriteIs DEF FifoInv, StreamInv
<1>2. PICK q \in Procs : q = app[p].to.proc
  BY <1>1, Writing
<1>3. PICK i \in Ids, n \in Nat, left \in Nat :
         /\ i = app[p].args.chan /\ n = Len(app[p].pk.data) /\ left = app[p].args.left
  BY <1>1, Writing
<1>4. PICK pk \in Packets : pk = app[p].pk
  BY <1>1, Writing
<1>5. /\ HasChan(p, i) /\ pk.type = "MESSAGE" /\ chans[p][i].fd = app[p].to
      /\ chans[p][i].writeid = pk.src
  BY <1>1, <1>3, <1>4, Writing
<1>6. PICK j \in Ids : j = pk.src
  BY <1>4, <1>5, PacketIs
<1>7. PICK e \in Nat : e = out[p][i]
  <2>1. out[p][i] \in 0..MaxUnits
    BY <1>1 DEF TypeOK
  <2>2. out[p][i] \in Nat
    BY <2>1, Numbers
  <2>3. QED
    BY <2>2
<1>8. PICK a : a = IF left = 0 THEN Idle ELSE SendPart(p, i, e + n, left)
  OBVIOUS
<1>9. /\ pipe' = [pipe EXCEPT ![q] = Append(@, pk)] /\ Len(pipe[q]) < PipeCap
      /\ app' = [app EXCEPT ![p] = a] /\ out' = [out EXCEPT ![p][i] = @ + n]
      /\ HasReader(app[p].to) /\ UNCHANGED <<queue, inode, openCalls, chans, got, nextId>>
  <2>1. Wrote(p)
    BY WriteIs
  <2>2. app' = [app EXCEPT ![p] = a] /\ out' = [out EXCEPT ![p][i] = @ + n] /\ UNCHANGED chans
    BY <2>1, <1>3, <1>7, <1>8 DEF Wrote
  <2>3. QED
    BY <1>2, <1>4, <2>2, WriteIs
<1>10. /\ RunOf(pk, p, i) /\ FirstUnit(pk) = e + 1 /\ IsMessage(pk, j)
       /\ LastUnit(pk) = e + n /\ n \in Nat \ {0}
  <2>1. RunOf(pk, p, i) /\ FirstUnit(pk) = e + 1
    BY <1>1, <1>3, <1>4, <1>7 DEF OutOK
  <2>2. IsMessage(pk, j)
    BY <1>5, <1>6 DEF IsMessage
  <2>3. LastUnit(pk) = FirstUnit(pk) + Len(pk.data) - 1 /\ Len(pk.data) \in Nat \ {0}
    BY <2>1, <2>2, RunIs
  <2>4. LastUnit(pk) = e + n /\ n \in Nat \ {0}
    <3>1. \A x, y : x = e + 1 /\ y = x + n - 1 => y = e + n
      OBVIOUS
    <3>2. QED
      BY <1>3, <1>4, <2>1, <2>3, <3>1
  <2>5. QED
    BY <2>1, <2>2, <2>4
<1>11. /\ a.at \in {"idle", "write"}
       /\ a.at = "write" => /\ a.op = "write" /\ a.to = chans[p][i].fd /\ a.args.chan = i
                            /\ RunOf(a.pk, p, i) /\ FirstUnit(a.pk) = (e + n) + 1
  <2>1. CASE left = 0
    <3>1. a = Idle
      BY <1>8, <2>1
    <3>2. QED
      BY <3>1 DEF Idle
  <2>2. CASE left # 0
    <3>1. PICK from \in Nat : from = e + n
      OBVIOUS
    <3>2. a = SendPart(p, i, from, left) /\ left \in Nat \ {0}
      BY <1>8, <2>2, <3>1
    <3>3. /\ a.at = "write" /\ a.op = "write" /\ a.to = chans[p][i].fd /\ a.args.chan = i
          /\ RunOf(a.pk, p, i) /\ FirstUnit(a.pk) = from + 1
      BY <3>2, PartRuns
    <3>4. QED
      BY <3>1, <3>3
  <2>3. QED
    BY <2>1, <2>2
<1>12. app'[p] = a /\ \A r \in Procs : r # p => app'[r] = app[r]
  BY <1>1, <1>9, AppSet
<1>13. /\ out'[p][i] = e + n /\ \A x \in Ids : x # i => out'[p][x] = out[p][x]
       /\ \A r \in Procs : r # p => out'[r] = out[r]
  <2>1. out \in [Procs -> [Ids -> 0..MaxUnits]]
    BY <1>1 DEF TypeOK
  <2>2. QED
    BY <1>7, <1>9, <2>1
<1>14. \A r \in Procs, x, y \in Ids : Answered(r, x, y)' <=> Answered(r, x, y)
  <2>1. /\ \A r \in Procs : r # q => pipe'[r] = pipe[r]
        /\ Signals(pipe[q])' = Signals(pipe[q])
    BY <1>1, <1>5, <1>9, PipeAppend
  <2>2. \A r \in Procs : Pending(r)' = Pending(r)
    BY <1>9, <2>1 DEF Pending
  <2>3. QED
    BY <2>2 DEF Answered
<1>15. Plain(app[p]) /\ Plain(app'[p])
  BY <1>1, <1>11, <1>12 DEF Plain
<1>16. /\ ~Awaits(p) /\ ~Awaits(p)'
       /\ \A r \in Procs, x, y \in Ids : Granted(p, x, r, y)' <=> Granted(p, x, r, y)
       /\ \A x \in Ids : New(p, x)' <=> New(p, x)
  <2>1. \A x \in Ids : chans'[p][x] = chans[p][x] \/ ~HasChan(p, x)'
    BY <1>9
  <2>2. /\ ~Awaits(p) /\ ~Awaits(p)'
        /\ \A r \in Procs, x, y \in Ids : /\ Half(p, x, r, y)' => Half(p, x, r, y)
                                          /\ Half(p, x, r, y)' <=> Granted(p, x, r, y)'
                                          /\ Granted(p, x, r, y)' => Granted(p, x, r, y)
        /\ \A x \in Ids : New(p, x)' <=> New(p, x)
    BY <1>9, <1>15, <2>1, PlainHalf
  <2>3. \A r \in Procs, x, y \in Ids : Granted(p, x, r, y)' <=> Granted(p, x, r, y)
    BY <1>9 DEF Granted, HasChan
  <2>4. QED
    BY <2>2, <2>3
<1>17. \A r, s \in Procs, x, y \in Ids : /\ Half(r, x, s, y)' <=> Half(r, x, s, y)
                                         /\ Granted(r, x, s, y)' <=> Granted(r, x, s, y)
  <2>1. \A s \in Procs, x \in Ids, y \in Ids : Half(p, x, s, y)' <=> Half(p, x, s, y)
    BY <1>16 DEF Half
  <2>2. \A r \in Procs : r # p => \A s \in Procs, x, y \in Ids :
                            /\ Half(r, x, s, y)' <=> Half(r, x, s, y)
                            /\ Granted(r, x, s, y)' <=> Granted(r, x, s, y)
    BY <1>9, <1>12, <1>14, SameHalf
  <2>3. QED
    BY <1>16, <2>1, <2>2
<1>18. \A r \in Procs, x \in Ids : New(r, x)' <=> New(r, x)
  <2>1. \A r \in Procs : r # p => \A x \in Ids : New(r, x)' <=> New(r, x)
    BY <1>9, <1>12, <1>14, SameHalf
  <2>2. QED
    BY <1>16, <2>1
<1>19. /\ Granted(p, i, q, j) /\ Half(p, i, q, j) /\ ~New(q, j) /\ ~New(p, i) /\ p # q
  <2>1. Granted(p, i, q, j)
    BY <1>2, <1>5, <1>6 DEF Granted
  <2>2. Half(p, i, q, j)
    BY <2>1 DEF Half
  <2>3. QED
    BY <2>1, <2>2, HalfHolds
<1>20. PICK g \in Nat : g = Len(got[q][j])
  <2>1. got[q][j] \in Seq(Units)
    BY <1>1 DEF TypeOK
  <2>2. Len(got[q][j]) \in Nat
    BY <2>1
  <2>3. QED
    BY <2>2
<1>21. EndsAt(Mail(q), j, g, e)
  <2>1. EndOK(p, i, q, j)
    BY DEF StreamInv
  <2>2. QED
    BY <1>5, <1>7, <1>9, <1>19, <1>20, <2>1 DEF EndOK
<1>22. Feeds(p, i, q, j)
  <2>1. CASE Fed(q, j)
    <3>1. SourceOK(q, j)
      BY DEF StreamInv
    <3>2. PICK r \in Procs, x \in Ids :
             /\ Feeds(r, x, q, j)
             /\ \A s \in Procs, y \in Ids : Half(s, y, q, j) => s = r /\ y = x /\ Granted(r, x, q, j)
      BY <2>1, <3>1 DEF SourceOK
    <3>3. p = r /\ i = x
      BY <1>19, <3>2
    <3>4. QED
      BY <3>2, <3>3
  <2>2. CASE ~Fed(q, j)
    <3>1. got[q][j] = << >> /\ ~Carries(Mail(q), j)
      BY <2>2 DEF Fed
    <3>2. \A k \in 1..Len(got[q][j]) : got[q][j][k] = <<p, i, k>>
      BY <3>1
    <3>3. Flow(Mail(q), j, p, i, Len(got[q][j]))
      BY <3>1 DEF Flow, Carries
    <3>4. QED
      BY <3>2, <3>3 DEF Feeds
  <2>3. QED
    BY <2>1, <2>2
<1>23. /\ Mail(q)' = Append(Mail(q), pk) /\ Mail(q) \in Seq(Packets)
       /\ \A r \in Procs : r # q => MailKept(r) /\ EndKept(r) /\ Mail(r)' = Mail(r)
  BY <1>1, <1>9, MailSent
<1>24. Flow(Mail(q)', j, p, i, g) /\ EndsAt(Mail(q)', j, g, e + n)
  <2>1. PICK s, t : s = Mail(q) /\ t = Append(s, pk) /\ s \in Seq(Packets)
    BY <1>23
  <2>2. Flow(s, j, p, i, g) /\ EndsAt(s, j, g, e)
    BY <1>20, <1>21, <1>22, <2>1 DEF Feeds
  <2>3. Flow(t, j, p, i, g) /\ EndsAt(t, j, g, LastUnit(pk))
    BY <1>10, <2>1, <2>2, AppendMessage
  <2>4. QED
    BY <1>10, <1>23, <2>1, <2>3
<1>25. ASSUME NEW r \in Procs, NEW x \in Ids, ~(r = q /\ x = j)
       PROVE  /\ Carries(Mail(r)', x) => Carries(Mail(r), x)
              /\ \A s, y, l : Flow(Mail(r), x, s, y, l) => Flow(Mail(r)', x, s, y, l)
              /\ \A l, f : EndsAt(Mail(r), x, l, f) => EndsAt(Mail(r)', x, l, f)
  <2>1. CASE r # q
    BY <1>23, <2>1 DEF MailKept, EndKept
  <2>2. CASE r = q
    <3>1. ~IsMessage(pk, x)
      BY <1>6, <1>25, <2>2 DEF IsMessage
    <3>2. QED
      BY <1>23, <2>2, <3>1, AppendOther
  <2>3. QED
    BY <2>1, <2>2
<1>26. PairsOK'
  BY <1>1, <1>17 DEF PairsOK
<1>27. ASSUME NEW r \in Procs, NEW x \in Ids PROVE SourceOK(r, x)'
  <2>1. CASE r = q /\ x = j
    <3>1. Feeds(p, i, q, j)'
      BY <1>9, <1>20, <1>22, <1>24 DEF Feeds
    <3>2. \A s \in Procs, y \in Ids : Half(q, j, s, y) => s = p /\ y = i
      BY <1>1, <1>19 DEF PairsOK
    <3>3. \A s \in Procs, y \in Ids : Half(s, y, q, j) => s = p /\ y = i
      BY <1>19, HalfUnique
    <3>4. QED
      BY <1>17, <1>18, <1>19, <2>1, <3>1, <3>2, <3>3 DEF SourceOK
  <2>2. CASE ~(r = q /\ x = j)
    <3>1. SourceOK(r, x)
      BY DEF StreamInv
    <3>2. QED
      BY <1>9, <1>17, <1>18, <1>25, <2>2, <3>1, SourceKept
  <2>3. QED
    BY <2>1, <2>2
<1>28. ASSUME NEW r \in Procs, NEW s \in Procs, NEW x \in Ids, NEW y \in Ids PROVE EndOK(r, x, s, y)'
  <2>1. SUFFICES ASSUME Granted(r, x, s, y)', HasReader(chans[r][x].fd)'
                 PROVE  EndsAt(Mail(s)', y, Len(got'[s][y]), out'[r][x])
    BY DEF EndOK
  <2>2. Granted(r, x, s, y) /\ HasReader(chans[r][x].fd)
    BY <1>9, <1>17, <2>1 DEF HasReader
  <2>3. CASE s = q /\ y = j
    <3>1. Half(r, x, q, j)
      BY <2>2, <2>3 DEF Half
    <3>2. r = p /\ x = i
      BY <1>19, <3>1, HalfUnique
    <3>3. QED
      BY <1>9, <1>13, <1>20, <1>24, <2>3, <3>2
  <2>4. CASE ~(s = q /\ y = j)
    <3>1. ~(r = p /\ x = i)
      BY <1>19, <2>2, <2>4 DEF Granted
    <3>2. out'[r][x] = out[r][x]
      BY <1>13, <3>1
    <3>3. EndsAt(Mail(s), y, Len(got[s][y]), out[r][x])
      BY <2>2 DEF StreamInv, EndOK
    <3>4. QED
      BY <1>9, <1>25, <2>4, <3>2, <3>3
  <2>5. QED
    BY <2>3, <2>4
<1>29. openCalls' \in [Procs -> Nat] /\ \A r \in Procs : openCalls[r] <= openCalls'[r]
  <2>1. openCalls \in [Procs -> Nat] /\ openCalls' = openCalls
    BY <1>1, <1>9 DEF TypeOK
  <2>2. QED
    BY <2>1
<1>30. ASSUME NEW r \in Procs PROVE OutOK(r)'
  <2>1. CASE r # p
    BY <1>1, <1>9, <1>12, <1>13, <1>18, <1>29, <2>1, SameOut
  <2>2. CASE r = p
    <3>1. \A x \in Ids : New(p, x)' \/ (Awaits(p)' /\ app'[p].src = x) => out'[p][x] = 0
      BY <1>1, <1>13, <1>16, <1>19 DEF OutOK
    <3>2. \A x \in Ids : HasChan(p, x)' => chans'[p][x].fd.no <= openCalls'[chans'[p][x].fd.proc]
      BY <1>1, <1>9 DEF OutOK, HasChan
    <3>3. app'[p].at = "write" => app'[p].to.no <= openCalls'[app'[p].to.proc]
      BY <1>1, <1>5, <1>9, <1>11, <1>12 DEF OutOK
    <3>4. app'[p].at = "write" /\ app'[p].op = "write" =>
             /\ RunOf(app'[p].pk, p, app'[p].args.chan)
             /\ FirstUnit(app'[p].pk) = out'[p][app'[p].args.chan] + 1
      BY <1>11, <1>12, <1>13
    <3>5. QED
      BY <1>16, <2>2, <3>1, <3>2, <3>3, <3>4 DEF OutOK, RunOf, FirstUnit
  <2>3. QED
    BY <2>1, <2>2
<1>31. QED
  BY <1>26, <1>27, <1>28, <1>30 DEF StreamInv


\* The first message for a channel leaves the queue, and is the next part of what
\* is read from it.
LEMMA StreamGotMessage ==
    ASSUME FifoInv, TypeOK', StreamInv, NEW p \in Procs, app[p].at = "wait", NEW m \in 1..Len(queue[p]),
           Match(queue[p][m], app[p].type, app[p].src), GotMessage(p, queue[p][m]),
           \A l \in 1..(m - 1) : ~Match(queue[p][l], app[p].type, app[p].src),
           queue' = [queue EXCEPT ![p] = RemoveAt(queue[p], m)],
           UNCHANGED <<pipe, inode, opens, openCalls, out, stale>>
    PROVE  StreamInv'
<1>1. TypeOK /\ PairsOK /\ app[p].op = "read" /\ \A r \in Procs : InboxOK(r) /\ OutOK(r)
  BY DEF FifoInv, StreamInv, GotMessage
<1>2. /\ queue' \in [Procs -> Seq(Packets \ Disconnects)]
      /\ \A r \in Procs : r # p => queue'[r] = queue[r]
      /\ queue[p][m] \in Packets \ Disconnects /\ Distinct(queue[p])'
      /\ Signals(queue[p])' = Signals(queue[p]) \ {queue[p][m]}
  BY <1>1, QueueRemove
<1>3. PICK pk \in Packets : pk = queue[p][m]
  BY <1>2
<1>4. app[p].type = "MESSAGE" /\ app[p].src \in Ids
  <2>1. app[p] \in Positions
    BY <1>1 DEF TypeOK
  <2>2. QED
    BY <1>1, <2>1, PositionIs
<1>5. PICK i \in Ids : i = app[p].src
  BY <1>4
<1>6. pk.type = "MESSAGE" /\ pk.data \in Seq(Units) /\ IsMessage(pk, i)
  BY <1>3, <1>4, <1>5, PacketIs DEF Match, IsMessage
<1>7. Signals(queue[p])' = Signals(queue[p])
  <2>1. pk \notin Signals(queue[p])
    BY <1>1, <1>6, QueueTypes, SignalsAre
  <2>2. QED
    BY <1>2, <1>3, <2>1
<1>8. PICK left : left = app[p].args - Len(pk.data)
  OBVIOUS
<1>9. PICK a : a = IF left > 0 THEN Wait("read", "MESSAGE", i, left) ELSE Idle
  OBVIOUS
<1>10. /\ got' = [got EXCEPT ![p][i] = @ \o pk.data] /\ app' = [app EXCEPT ![p] = a]
       /\ UNCHANGED <<nextId, chans>>
  BY <1>3, <1>5, <1>8, <1>9 DEF GotMessage
<1>11. a.at \in {"wait", "idle"} /\ (a.at = "wait" => a.op = "read")
  BY <1>9 DEF Wait, Idle
<1>12. app'[p] = a /\ \A r \in Procs : r # p => app'[r] = app[r]
  BY <1>1, <1>10, AppSet
<1>13. /\ got'[p][i] = got[p][i] \o pk.data
       /\ \A r \in Procs, x \in Ids : ~(r = p /\ x = i) => got'[r][x] = got[r][x]
  <2>1. got \in [Procs -> [Ids -> Seq(Units)]]
    BY <1>1 DEF TypeOK
  <2>2. QED
    BY <1>10, <2>1
<1>14. \A r \in Procs, x, y \in Ids : Answered(r, x, y)' <=> Answered(r, x, y)
  <2>1. \A r \in Procs : Pending(r)' = Pending(r)
    BY <1>2, <1>7 DEF Pending
  <2>2. QED
    BY <2>1 DEF Answered
<1>15. ~Awaits(p) /\ ~Awaits(p)' /\ Plain(app[p]) /\ Plain(app'[p])
  BY <1>1, <1>11, <1>12 DEF Plain, Awaits
<1>16. \A r, s \in Procs, x, y \in Ids : /\ Half(r, x, s, y)' <=> Half(r, x, s, y)
                                         /\ Granted(r, x, s, y)' <=> Granted(r, x, s, y)
  <2>1. \A r, s \in Procs, x, y \in Ids : Granted(r, x, s, y)' <=> Granted(r, x, s, y)
    BY <1>10 DEF Granted, HasChan
  <2>2. \A s \in Procs, x \in Ids, y \in Ids : Half(p, x, s, y)' <=> Half(p, x, s, y)
    BY <1>15, <2>1 DEF Half
  <2>3. \A r \in Procs : r # p => \A s \in Procs, x, y \in Ids : Half(r, x, s, y)' <=> Half(r, x, s, y)
    BY <1>10, <1>12, <1>14, SameHalf
  <2>4. QED
    BY <2>1, <2>2, <2>3
<1>17. \A r \in Procs, x \in Ids : New(r, x)' <=> New(r, x)
  <2>1. \A r \in Procs : r # p => \A x \in Ids : New(r, x)' <=> New(r, x)
    BY <1>10, <1>12, <1>14, SameHalf
  <2>2. \A x \in Ids : New(p, x)' <=> New(p, x)
    BY <1>10, <1>15 DEF New, Plain
  <2>3. QED
    BY <2>1, <2>2
<1>18. /\ Mail(p) \in Seq(Packets) /\ m \in 1..Len(Mail(p)) /\ Mail(p)' = RemoveAt(Mail(p), m)
       /\ \A k \in 1..m : Mail(p)[k] = queue[p][k]
       /\ \A r \in Procs : r # p => MailKept(r) /\ EndKept(r) /\ Mail(r)' = Mail(r)
  BY <1>1, MailTaken
<1>19. PICK s, t : s = Mail(p) /\ t = RemoveAt(s, m) /\ s \in Seq(Packets)
  BY <1>18
<1>20. /\ m \in 1..Len(s) /\ s[m] = pk /\ Mail(p)' = t
       /\ \A l \in 1..(m - 1) : ~IsMessage(s[l], i)
  <2>1. m \in Nat \ {0} /\ m \in 1..Len(s) /\ Mail(p)' = t
    BY <1>18, <1>19
  <2>2. m \in 1..m /\ \A l \in 1..(m - 1) : l \in 1..m
    BY <2>1
  <2>3. s[m] = pk /\ \A l \in 1..(m - 1) : s[l] = queue[p][l]
    BY <1>3, <1>18, <1>19, <2>2
  <2>4. \A l \in 1..(m - 1) : ~IsMessage(s[l], i)
    BY <1>4, <1>5, <2>3 DEF IsMessage, Match
  <2>5. QED
    BY <2>1, <2>3, <2>4
<1>21. PICK g \in Nat, n \in Nat : g = Len(got[p][i]) /\ n = Len(pk.data) /\ got[p][i] \in Seq(Units)
  <2>1. got[p][i] \in Seq(Units)
    BY <1>1 DEF TypeOK
  <2>2. Len(got[p][i]) \in Nat /\ Len(pk.data) \in Nat
    BY <1>6, <2>1
  <2>3. QED
    BY <2>1, <2>2
<1>22. Fed(p, i)
  <2>1. Carries(s, i)
    BY <1>6, <1>20 DEF Carries
  <2>2. QED
    BY <1>19, <2>1 DEF Fed
<1>23. PICK r \in Procs, j \in Ids :
         /\ ~New(p, i) /\ Feeds(r, j, p, i)
         /\ \A q \in Procs, k \in Ids : Half(p, i, q, k) => q = r /\ k = j
         /\ \A q \in Procs, k \in Ids : Half(q, k, p, i) => q = r /\ k = j /\ Granted(r, j, p, i)
  BY <1>22 DEF StreamInv, SourceOK
<1>24. /\ Flow(s, i, r, j, g)
       /\ \A k \in 1..g : got[p][i][k] = <<r, j, k>>
  BY <1>19, <1>21, <1>23 DEF Feeds
<1>25. /\ RunOf(pk, r, j) /\ FirstUnit(pk) = g + 1 /\ Flow(t, i, r, j, g + n)
       /\ \A e \in Nat : EndsAt(s, i, g, e) => EndsAt(t, i, g + n, e)
  <2>1. IsMessage(s[m], i) /\ n = Len(s[m].data)
    BY <1>6, <1>20, <1>21
  <2>2. /\ m \in 1..Len(s) /\ (\A l \in 1..(m - 1) : ~IsMessage(s[l], i))
        /\ Flow(s, i, r, j, g) /\ t = RemoveAt(s, m) /\ s \in Seq(Packets)
    BY <1>19, <1>20, <1>24
  <2>3. /\ RunOf(s[m], r, j) /\ FirstUnit(s[m]) = g + 1
        /\ Flow(t, i, r, j, g + Len(s[m].data))
        /\ \A e \in Nat : EndsAt(s, i, g, e) => EndsAt(t, i, g + Len(s[m].data), e)
        /\ Carries(s, i)
    BY <2>1, <2>2, RemoveNext
  <2>4. QED
    BY <1>20, <2>1, <2>3
<1>26. Len(got'[p][i]) = g + n /\ \A k \in 1..(g + n) : got'[p][i][k] = <<r, j, k>>
  <2>1. PICK u, v, w : /\ u = got[p][i] /\ v = pk.data /\ w = u \o v
                       /\ u \in Seq(Units) /\ v \in Seq(Units)
    BY <1>6, <1>21
  <2>2. /\ Len(w) = g + n /\ (\A k \in 1..g : w[k] = u[k])
        /\ \A x \in 1..n : w[g + x] = v[x]
    <3>1. /\ Len(w) = Len(u) + Len(v) /\ (\A k \in 1..Len(u) : w[k] = u[k])
          /\ \A x \in 1..Len(v) : w[Len(u) + x] = v[x]
      <4>1. w = u \o v /\ u \in Seq(Units) /\ v \in Seq(Units)
        BY <2>1
      <4>2. QED
        BY <4>1
    <3>2. Len(u) = g /\ Len(v) = n
      BY <1>21, <2>1
    <3>3. QED
      BY <3>1, <3>2
  <2>3. \A x \in 1..n : v[x] = <<r, j, (g + 1) + x - 1>>
    BY <1>21, <1>25, <2>1 DEF RunOf
  <2>4. ASSUME NEW k \in 1..(g + n) PROVE w[k] = <<r, j, k>>
    <3>1. CASE k \in 1..g
      BY <1>24, <2>1, <2>2, <3>1
    <3>2. CASE k \notin 1..g
      <4>1. PICK x \in 1..n : k = g + x
        <5>1. k - g \in 1..n /\ k = g + (k - g)
          BY <3>2
        <5>2. QED
          BY <5>1
      <4>2. (g + 1) + x - 1 = k
        BY <4>1
      <4>3. QED
        BY <2>2, <2>3, <4>1, <4>2
    <3>3. QED
      BY <3>1, <3>2
  <2>5. QED
    BY <1>13, <2>1, <2>2, <2>4
<1>27. ASSUME NEW q \in Procs, NEW x \in Ids, ~(q = p /\ x = i)
       PROVE  /\ Carries(Mail(q)', x) => Carries(Mail(q), x)
              /\ \A b, y, l : Flow(Mail(q), x, b, y, l) => Flow(Mail(q)', x, b, y, l)
              /\ \A l, e : EndsAt(Mail(q), x, l, e) => EndsAt(Mail(q)', x, l, e)
  <2>1. CASE q # p
    BY <1>18, <2>1 DEF MailKept, EndKept
  <2>2. CASE q = p
    <3>1. ~IsMessage(s[m], x)
      BY <1>6, <1>20, <1>27, <2>2 DEF IsMessage
    <3>2. /\ Carries(t, x) => Carries(s, x)
          /\ \A b, y, l : Flow(s, x, b, y, l) => Flow(t, x, b, y, l)
          /\ \A l, e : EndsAt(s, x, l, e) => EndsAt(t, x, l, e)
      BY <1>19, <1>20, <3>1, RemoveOther
    <3>3. QED
      BY <1>19, <1>20, <2>2, <3>2
  <2>3. QED
    BY <2>1, <2>2
<1>28. PairsOK'
  BY <1>1, <1>16 DEF PairsOK
<1>29. ASSUME NEW q \in Procs, NEW x \in Ids PROVE SourceOK(q, x)'
  <2>1. CASE q = p /\ x = i
    <3>1. Feeds(r, j, p, i)'
      BY <1>20, <1>25, <1>26 DEF Feeds
    <3>2. QED
      BY <1>16, <1>17, <1>23, <2>1, <3>1 DEF SourceOK
  <2>2. CASE ~(q = p /\ x = i)
    <3>1. SourceOK(q, x)
      BY DEF StreamInv
    <3>2. QED
      BY <1>13, <1>16, <1>17, <1>27, <2>2, <3>1, SourceKept
  <2>3. QED
    BY <2>1, <2>2
<1>30. ASSUME NEW b \in Procs, NEW q \in Procs, NEW x \in Ids, NEW y \in Ids PROVE EndOK(b, x, q, y)'
  <2>1. SUFFICES ASSUME Granted(b, x, q, y)', HasReader(chans[b][x].fd)'
                 PROVE  EndsAt(Mail(q)', y, Len(got'[q][y]), out'[b][x])
    BY DEF EndOK
  <2>2. Granted(b, x, q, y) /\ HasReader(chans[b][x].fd)
    BY <1>10, <1>16, <2>1 DEF HasReader
  <2>3. EndsAt(Mail(q), y, Len(got[q][y]), out[b][x])
    BY <2>2 DEF StreamInv, EndOK
  <2>4. CASE q = p /\ y = i
    <3>1. out[b][x] \in Nat
      <4>1. out[b][x] \in 0..MaxUnits
        BY <1>1 DEF TypeOK
      <4>2. QED
        BY <4>1, Numbers
    <3>2. EndsAt(t, i, g + n, out[b][x])
      BY <1>19, <1>21, <1>25, <2>3, <2>4, <3>1
    <3>3. QED
      BY <1>20, <1>26, <2>4, <3>2
  <2>5. CASE ~(q = p /\ y = i)
    BY <1>13, <1>27, <2>3, <2>5
  <2>6. QED
    BY <2>4, <2>5
<1>31. openCalls' \in [Procs -> Nat] /\ \A q \in Procs : openCalls[q] <= openCalls'[q]
  <2>1. openCalls \in [Procs -> Nat] /\ openCalls' = openCalls
    BY <1>1 DEF TypeOK
  <2>2. QED
    BY <2>1
<1>32. ASSUME NEW q \in Procs PROVE OutOK(q)'
  <2>1. CASE q # p
    BY <1>1, <1>10, <1>12, <1>17, <1>31, <2>1, SameOut
  <2>2. CASE q = p
    <3>1. \A x \in Ids : New(p, x)' \/ (Awaits(p)' /\ app'[p].src = x) => out'[p][x] = 0
      BY <1>1, <1>15, <1>17 DEF OutOK
    <3>2. \A x \in Ids : HasChan(p, x)' => chans'[p][x].fd.no <= openCalls'[chans'[p][x].fd.proc]
      BY <1>1, <1>10 DEF OutOK, HasChan
    <3>3. app'[p].at # "write"
      BY <1>11, <1>12
    <3>4. QED
      BY <1>15, <2>2, <3>1, <3>2, <3>3 DEF OutOK
  <2>3. QED
    BY <2>1, <2>2
<1>33. QED
  BY <1>28, <1>29, <1>30, <1>32 DEF StreamInv


-----------------------------------------------------------------------------
(* The invariant.                                                          *)

LEMMA StreamPacketRead ==
    ASSUME FifoInv, TypeOK', NothingOverlooked, StreamInv, NEW p \in Procs, PacketRead(p)
    PROVE  StreamInv'
<1>1. TypeOK /\ app[p].at = "wait" /\ UNCHANGED <<pipe, inode, opens, openCalls, out, stale>>
  BY DEF FifoInv, PacketRead, api
<1>2. CASE \E m \in Unseen(p) :
              /\ Match(queue[p][m], app[p].type, app[p].src)
              /\ \A l \in Unseen(p) : l < m => ~Match(queue[p][l], app[p].type, app[p].src)
              /\ queue' = [queue EXCEPT ![p] = RemoveAt(queue[p], m)]
              /\ GotAccept(p, queue[p][m]) \/ GotConnect(p, queue[p][m]) \/ GotMessage(p, queue[p][m])
  <2>1. PICK m \in Unseen(p) :
              /\ Match(queue[p][m], app[p].type, app[p].src)
              /\ \A l \in Unseen(p) : l < m => ~Match(queue[p][l], app[p].type, app[p].src)
              /\ queue' = [queue EXCEPT ![p] = RemoveAt(queue[p], m)]
              /\ GotAccept(p, queue[p][m]) \/ GotConnect(p, queue[p][m]) \/ GotMessage(p, queue[p][m])
    BY <1>2
  <2>2. app[p].seen \in Nat /\ Len(queue[p]) \in Nat
    <3>1. app[p] \in Positions
      BY <1>1 DEF TypeOK
    <3>2. QED
      BY <1>1, <3>1, PositionIs, QueueTypes
  <2>3. m \in 1..Len(queue[p])
    BY <2>2 DEF Unseen
  <2>4. CASE GotAccept(p, queue[p][m])
    BY <1>1, <2>1, <2>3, <2>4, StreamGotAccept
  <2>5. CASE GotConnect(p, queue[p][m])
    BY <1>1, <2>1, <2>3, <2>5, StreamGotConnect
  <2>6. CASE GotMessage(p, queue[p][m])
    <3>1. ASSUME NEW l \in 1..(m - 1) PROVE ~Match(queue[p][l], app[p].type, app[p].src)
      <4>1. l \in 1..app[p].seen \/ (l \in Unseen(p) /\ l < m)
        BY <2>2, <2>3 DEF Unseen
      <4>2. QED
        BY <1>1, <2>1, <4>1 DEF NothingOverlooked
    <3>2. QED
      BY <1>1, <2>1, <2>3, <2>6, <3>1, StreamGotMessage
  <2>7. QED
    BY <2>1, <2>4, <2>5, <2>6
<1>3. CASE /\ app' = [app EXCEPT ![p].seen = Len(queue[p])]
           /\ UNCHANGED <<queue, writers, nextId, chans, got>>
  BY <1>1, <1>3, StreamLook
<1>4. QED
  BY <1>2, <1>3 DEF PacketRead

LEMMA StreamPacketWrite ==
    ASSUME FifoInv, TypeOK', StreamInv, NEW p \in Procs, PacketWrite(p)
    PROVE  StreamInv'
<1>1. app[p].op \in {"connect", "accept", "disconnect", "write"}
  <2>1. app[p] \in Positions /\ app[p].at = "write"
    BY DEF FifoInv, TypeOK, PacketWrite
  <2>2. QED
    BY <2>1, PositionIs
<1>2. QED
  BY <1>1, StreamWriteConnect, StreamWriteAccept, StreamWriteDisconnect, StreamWriteMessage

LEMMA StreamStart ==
    ASSUME Init
    PROVE  StreamInv
<1>1. /\ \A p \in Procs : pipe[p] = << >> /\ queue[p] = << >>
      /\ \A p \in Procs : app[p] = Idle /\ Idle.at = "idle"
      /\ \A p \in Procs, i \in Ids : chans[p][i] = NoChan /\ out[p][i] = 0 /\ got[p][i] = << >>
  BY DEF Init, Idle
<1>2. \A p \in Procs : Mail(p) = << >> /\ ~Awaits(p)
  BY <1>1 DEF Mail, Awaits
<1>3. \A p, q \in Procs, i, k \in Ids : ~Granted(p, i, q, k) /\ ~Half(p, i, q, k)
  BY <1>1, <1>2 DEF Granted, HasChan, Half
<1>4. \A p \in Procs, i \in Ids : ~Fed(p, i)
  BY <1>1, <1>2 DEF Fed, Carries
<1>5. \A p \in Procs : OutOK(p)
  BY <1>1, <1>2 DEF OutOK, HasChan
<1>6. QED
  BY <1>3, <1>4, <1>5 DEF StreamInv, PairsOK, SourceOK, EndOK

LEMMA StreamStutters ==
    ASSUME FifoInv, StreamInv, UNCHANGED vars
    PROVE  StreamInv'
<1>1. TypeOK /\ \A r \in Procs : OutOK(r)
  BY DEF FifoInv, StreamInv
<1>2. UNCHANGED <<pipe, inode, openCalls, queue, nextId, chans, app, out, got>>
  BY DEF vars
<1>3. \A r \in Procs : MailKept(r) /\ EndKept(r)
  BY <1>2, MailSame
<1>4. \A r \in Procs, i, k \in Ids : Answered(r, i, k)' <=> Answered(r, i, k)
  BY <1>2 DEF Answered, Pending
<1>5. \A r, s \in Procs, i, k \in Ids : /\ Half(r, i, s, k)' <=> Half(r, i, s, k)
                                        /\ Granted(r, i, s, k)' <=> Granted(r, i, s, k)
  BY <1>2, <1>4, SameHalf
<1>6. \A r \in Procs, i \in Ids : New(r, i)' <=> New(r, i)
  BY <1>2, <1>4, SameHalf
<1>7. openCalls' \in [Procs -> Nat] /\ \A r \in Procs : openCalls[r] <= openCalls'[r]
  <2>1. openCalls \in [Procs -> Nat] /\ openCalls' = openCalls
    BY <1>1, <1>2 DEF TypeOK
  <2>2. QED
    BY <2>1
<1>8. \A r \in Procs : OutOK(r)'
  BY <1>1, <1>2, <1>6, <1>7, SameOut
<1>9. \A r, s \in Procs, i, k \in Ids : Granted(r, i, s, k)' =>
         /\ Granted(r, i, s, k) /\ out'[r][i] = out[r][i]
         /\ HasReader(chans[r][i].fd)' =>
               /\ HasReader(chans[r][i].fd)
               /\ \A n, e : EndsAt(Mail(s), k, n, e) => EndsAt(Mail(s)', k, n, e)
  BY <1>2, <1>3, <1>5 DEF HasReader, EndKept
<1>10. QED
  BY <1>2, <1>3, <1>5, <1>6, <1>8, <1>9, StreamsKept DEF MailKept

\* The inductive invariant: for every channel, what is in the queue and in the
\* pipe continues what was read, comes from the process at the other end, and
\* ends with what that process wrote last.
THEOREM StreamInvariant == Spec => []StreamInv
<1>1. Init => StreamInv
  BY StreamStart
<1>2. ASSUME FifoInv, TypeOK', NothingOverlooked, StreamInv, [Next]_vars PROVE StreamInv'
  <2>1. 1 \in Ids
    BY FifoAssumption DEF Ids
  <2>2. ASSUME NEW p \in Procs, PacketRead(p) PROVE StreamInv'
    BY <1>2, <2>2, StreamPacketRead
  <2>3. ASSUME NEW p \in Procs,
               Accept(p) \/ Close(p) \/ CloseProgress(p)
        PROVE  StreamInv'
    BY <1>2, <2>1, <2>3, StreamCalls
  <2>4. ASSUME NEW p \in Procs,
               Poll(p) \/ PacketWrite(p) \/ BrokenPipe(p) \/ Open(p) \/ CloseDone(p)
        PROVE  StreamInv'
    BY <1>2, <2>4, StreamPoll, StreamPacketWrite, StreamGone, StreamOpen
  <2>5. ASSUME NEW p \in Procs, NEW q \in Procs, Connect(p, q) PROVE StreamInv'
    BY <1>2, <2>5, StreamConnect
  <2>6. ASSUME NEW p \in Procs, NEW i \in Ids, Disconnect(p, i) PROVE StreamInv'
    BY <1>2, <2>6, StreamCalls
  <2>7. ASSUME NEW p \in Procs, NEW i \in Ids, NEW size \in ReadSizes, Read(p, i, size)
        PROVE  StreamInv'
    BY <1>2, <2>7, StreamCalls
  <2>8. ASSUME NEW p \in Procs, NEW i \in Ids, NEW size \in WriteSizes, Write(p, i, size)
        PROVE  StreamInv'
    BY <1>2, <2>8, StreamWrite
  <2>9. ASSUME UNCHANGED vars PROVE StreamInv'
    BY <1>2, <2>9, StreamStutters
  <2>10. QED
    BY <1>2, <2>2, <2>3, <2>4, <2>5, <2>6, <2>7, <2>8, <2>9 DEF Next
<1>3. QED
  BY <1>1, <1>2, FifoInvariant, FifoTypeCorrect, NothingPassedOver, PTL DEF Spec

\* Although every peer of a process writes to one pipe, and packet_read takes
\* packets out of the middle of one queue, what spawn_net_read_fifo returns from
\* a channel is what the process at its other end wrote on it, in order and
\* without gaps, whatever is opened, closed, connected and killed meanwhile.
THEOREM ChannelStreams == Spec => []StreamsAreSeparate
<1>1. TypeOK /\ StreamInv => StreamsAreSeparate
  <2>1. SUFFICES ASSUME TypeOK, StreamInv, NEW p \in Procs, NEW i \in Ids, NEW k \in 1..Len(got[p][i])
                 PROVE  /\ got[p][i][k] = <<got[p][i][1][1], got[p][i][1][2], k>>
                        /\ HasChan(p, i) => got[p][i][1][1] = chans[p][i].fd.proc
                                            /\ got[p][i][1][2] = chans[p][i].writeid
    BY DEF StreamsAreSeparate
  <2>2. got[p][i] \in Seq(Units)
    BY <2>1 DEF TypeOK
  <2>3. Len(got[p][i]) \in Nat \ {0} /\ 1 \in 1..Len(got[p][i]) /\ got[p][i] # << >>
    BY <2>2
  <2>4. Fed(p, i)
    BY <2>3 DEF Fed
  <2>5. PICK r \in Procs, j \in Ids :
           /\ Feeds(r, j, p, i)
           /\ \A q \in Procs, l \in Ids : Half(p, i, q, l) => q = r /\ l = j
    BY <2>1, <2>4 DEF StreamInv, SourceOK
  <2>6. got[p][i][k] = <<r, j, k>> /\ got[p][i][1] = <<r, j, 1>>
    BY <2>3, <2>5 DEF Feeds
  <2>7. got[p][i][1][1] = r /\ got[p][i][1][2] = j
    BY <2>6
  <2>8. ASSUME HasChan(p, i) PROVE chans[p][i].fd.proc = r /\ chans[p][i].writeid = j
    <3>1. PICK q \in Procs, l \in Ids : q = chans[p][i].fd.proc /\ l = chans[p][i].writeid
      <4>1. chans[p][i] \in Chans
        BY <2>1, <2>8, TypeFacts
      <4>2. QED
        BY <4>1 DEF Chans, Fds
    <3>2. Half(p, i, q, l)
      BY <2>8, <3>1 DEF Half, Granted
    <3>3. QED
      BY <2>5, <3>1, <3>2
  <2>9. QED
    BY <2>6, <2>7, <2>8
<1>2. QED
  BY <1>1, FifoTypeCorrect, StreamInvariant, PTL


=============================================================================
