------------------------ MODULE VirtualChannel_proofs ------------------------
(***************************************************************************)
(* Proofs about VirtualChannel: IInv is an inductive invariant, and with   *)
(* it the safety properties hold for every window size, every number of    *)
(* sequence numbers and every number of writes.                            *)
(*                                                                         *)
(* The operators that the code's functions became are treated one by one:  *)
(* a lemma says which fields a function changes and that it keeps the      *)
(* parts of IInv that speak of one vc_t.  The actions then only combine    *)
(* these lemmas.                                                           *)
(***************************************************************************)
EXTENDS VirtualChannel, SequenceTheorems, TLAPS

-----------------------------------------------------------------------------
(* What the 16-bit comparisons of the transport decide: as long as the     *)
(* numbers compared are less than SeqMod apart, the tests on the wrapped   *)
(* values give the answer the unwrapped numbers would give.                *)

\* Division with remainder, as the uint16_t arithmetic of the code uses it.
LEMMA DivMod ==
    ASSUME NEW x \in Nat, NEW m \in Nat \ {0}
    PROVE  x = (m * (x \div m)) + (x % m)
OBVIOUS

\* The range of a remainder.
LEMMA ModRange ==
    ASSUME NEW x \in Nat, NEW m \in Nat \ {0}
    PROVE  x % m \in Int /\ 0 <= x % m /\ x % m < m
OBVIOUS

\* A multiple of m grows by at least m with its factor.
LEMMA MulGap ==
    ASSUME NEW m \in Nat, NEW q \in Int, NEW r \in Int
    PROVE  /\ q < r => m * q + m <= m * r
           /\ r = q + 1 => m * r = m * q + m
OBVIOUS

\* Two numbers less than m apart wrap to values the same distance apart, up to
\* one turn.
LEMMA ModShift ==
    ASSUME NEW x \in Nat, NEW y \in Nat, NEW m \in Nat \ {0},
           x <= y, y < x + m
    PROVE  y % m = (x % m) + (y - x) \/ y % m = (x % m) + (y - x) - m
<1> DEFINE qx == x \div m
           qy == y \div m
<1>1. x = (m * qx) + (x % m) /\ qx \in Nat /\ x % m \in 0..(m - 1) /\ m * qx \in Nat
  BY DivMod
<1>2. y = (m * qy) + (y % m) /\ qy \in Nat /\ y % m \in 0..(m - 1) /\ m * qy \in Nat
  BY DivMod
<1> HIDE DEF qx, qy
<1>3. qy < qx => m * qy + m <= m * qx
  BY <1>1, <1>2, MulGap
<1>4. qx + 1 < qy => m * (qx + 1) + m <= m * qy
  BY <1>1, <1>2, MulGap
<1>5. m * (qx + 1) = m * qx + m
  BY <1>1, MulGap
<1>6. qy = qx \/ qy = qx + 1
  BY <1>1, <1>2, <1>3, <1>4, <1>5
<1>7. CASE qy = qx
  BY <1>1, <1>2, <1>7
<1>8. CASE qy = qx + 1
  BY <1>1, <1>2, <1>5, <1>8
<1>9. QED
  BY <1>6, <1>7, <1>8

\* A sequence number field holds a value below SeqMod.
LEMMA WrapRange ==
    ASSUME NEW n \in Int, -1 <= n
    PROVE  Wrap(n) \in Int /\ 0 <= Wrap(n) /\ Wrap(n) < SeqMod
<1>1. n + SeqMod \in Nat /\ SeqMod \in Nat \ {0}
  BY SeqNumAssumption
<1>2. QED
  BY <1>1, ModRange DEF Wrap

\* Fields whose numbers are less than a turn apart.
LEMMA WrapShift ==
    ASSUME NEW a \in Int, NEW b \in Int, -1 <= a, a <= b, b < a + SeqMod
    PROVE  \/ Wrap(b) = Wrap(a) + (b - a)
           \/ Wrap(b) = Wrap(a) + (b - a) - SeqMod
<1> DEFINE x == a + SeqMod
           y == b + SeqMod
<1>1. x \in Nat /\ y \in Nat /\ SeqMod \in Nat \ {0} /\ x <= y /\ y < x + SeqMod
  BY SeqNumAssumption
<1>2. y - x = b - a
  BY SeqNumAssumption
<1>3. y % SeqMod = (x % SeqMod) + (y - x) \/ y % SeqMod = (x % SeqMod) + (y - x) - SeqMod
  <2> HIDE DEF x, y
  <2> QED BY <1>1, ModShift
<1>4. QED
  BY <1>2, <1>3 DEF Wrap

\* Equal fields hold equal numbers.
LEMMA WrapInjective ==
    ASSUME NEW a \in Int, NEW b \in Int, -1 <= a, -1 <= b,
           a < b + SeqMod, b < a + SeqMod, Wrap(a) = Wrap(b)
    PROVE  a = b
<1>0. /\ Wrap(a) \in Int /\ 0 <= Wrap(a) /\ Wrap(a) < SeqMod
      /\ Wrap(b) \in Int /\ 0 <= Wrap(b) /\ Wrap(b) < SeqMod
  BY WrapRange
<1>1. CASE a <= b
  <2>1. \/ Wrap(b) = Wrap(a) + (b - a)
        \/ Wrap(b) = Wrap(a) + (b - a) - SeqMod
    BY <1>1, WrapShift, SeqNumAssumption
  <2>2. QED
    BY <1>0, <2>1, SeqNumAssumption
<1>2. CASE b <= a
  <2>1. \/ Wrap(a) = Wrap(b) + (a - b)
        \/ Wrap(a) = Wrap(b) + (a - b) - SeqMod
    BY <1>2, WrapShift, SeqNumAssumption
  <2>2. QED
    BY <1>0, <2>1, SeqNumAssumption
<1>3. QED
  BY <1>1, <1>2

\* The INCL_BETWEEN test of ud_process_ack releases the packet with number s
\* exactly when acknowledgement a covers it.
THEOREM AckExact ==
    ASSUME NEW s \in Int, NEW a \in Int, NEW t \in Int,
           0 <= s, s < t, -1 <= a, a < t, t - a < SeqMod, t - s < SeqMod
    PROVE  InclBetween(Wrap(a), Wrap(s), Wrap(t)) <=> s <= a
<1>1. /\ Wrap(a) \in Int /\ 0 <= Wrap(a) /\ Wrap(a) < SeqMod
      /\ Wrap(s) \in Int /\ 0 <= Wrap(s) /\ Wrap(s) < SeqMod
      /\ Wrap(t) \in Int /\ 0 <= Wrap(t) /\ Wrap(t) < SeqMod
  BY WrapRange
<1>2. \/ Wrap(t) = Wrap(a) + (t - a)
      \/ Wrap(t) = Wrap(a) + (t - a) - SeqMod
  BY WrapShift, SeqNumAssumption
<1>3. \/ Wrap(t) = Wrap(s) + (t - s)
      \/ Wrap(t) = Wrap(s) + (t - s) - SeqMod
  BY WrapShift, SeqNumAssumption
<1>4. QED
  BY <1>1, <1>2, <1>3, SeqNumAssumption DEF InclBetween

\* The window test of mv2_ud_place_recvwin takes the numbers t..t + RecvWin,
\* and at most one more when the window wraps; never an old number.
THEOREM WindowExact ==
    ASSUME NEW n \in Int, NEW t \in Nat,
           -1 <= n, t - n < SeqMod - RecvWin - 1, n - t < SeqMod
    PROVE  /\ t <= n /\ n <= t + RecvWin => InRecvWin(Wrap(n), Wrap(t))
           /\ InRecvWin(Wrap(n), Wrap(t)) => t <= n /\ n <= t + RecvWin + 1
<1>1. Wrap(n) \in Int /\ 0 <= Wrap(n) /\ Wrap(n) < SeqMod /\ Wrap(t) \in Int /\ 0 <= Wrap(t) /\ Wrap(t) < SeqMod
  BY WrapRange
<1>2. CASE t <= n
  <2>1. \/ Wrap(n) = Wrap(t) + (n - t)
        \/ Wrap(n) = Wrap(t) + (n - t) - SeqMod
    BY <1>2, WrapShift, SeqNumAssumption
  <2>2. QED
    BY <1>1, <1>2, <2>1, SeqNumAssumption DEF InRecvWin, RecvWinEnd, InclBetween
<1>3. CASE n < t
  <2>1. \/ Wrap(t) = Wrap(n) + (t - n)
        \/ Wrap(t) = Wrap(n) + (t - n) - SeqMod
    BY <1>3, WrapShift, SeqNumAssumption
  <2>2. QED
    BY <1>1, <1>3, <2>1, SeqNumAssumption DEF InRecvWin, RecvWinEnd, InclBetween
<1>4. QED
  BY <1>2, <1>3

\* The loops of recv_window_add step over exactly the smaller numbers.
LEMMA StepsOverExact ==
    ASSUME NEW t \in Nat, NEW c \in Int, NEW n \in Int, NEW h \in Int,
           t < h, h <= c, c <= t + RecvWin + 1, t < n, n <= t + RecvWin + 1
    PROVE  StepsOver(Wrap(c), Wrap(n), Wrap(h), Wrap(t)) <=> c < n
<1>1. /\ Wrap(c) \in Int /\ 0 <= Wrap(c) /\ Wrap(c) < SeqMod
      /\ Wrap(n) \in Int /\ 0 <= Wrap(n) /\ Wrap(n) < SeqMod
      /\ Wrap(h) \in Int /\ 0 <= Wrap(h) /\ Wrap(h) < SeqMod
      /\ Wrap(t) \in Int /\ 0 <= Wrap(t) /\ Wrap(t) < SeqMod
  BY WrapRange
<1>2. \/ Wrap(c) = Wrap(t) + (c - t)
      \/ Wrap(c) = Wrap(t) + (c - t) - SeqMod
  BY WrapShift, SeqNumAssumption
<1>3. \/ Wrap(n) = Wrap(t) + (n - t)
      \/ Wrap(n) = Wrap(t) + (n - t) - SeqMod
  BY WrapShift, SeqNumAssumption
<1>4. \/ Wrap(h) = Wrap(t) + (h - t)
      \/ Wrap(h) = Wrap(t) + (h - t) - SeqMod
  BY WrapShift, SeqNumAssumption
<1>5. QED
  BY <1>1, <1>2, <1>3, <1>4, SeqNumAssumption DEF StepsOver

-----------------------------------------------------------------------------
(* Queues.                                                                 *)

\* A function on an initial segment of the numbers is a sequence.
LEMMA FunctionIsSeq ==
    ASSUME NEW S, NEW n \in Nat, NEW f \in [1..n -> S]
    PROVE  f \in Seq(S) /\ Len(f) = n
<1>1. f \in Seq(S)
  BY SeqDef
<1>2. DOMAIN f = 1..n /\ DOMAIN f = 1..Len(f) /\ Len(f) \in Nat
  BY <1>1, LenProperties
<1>3. QED
  BY <1>1, <1>2

\* An index of a queue one longer is an index of the queue or the new last one.
LEMMA LastOrBefore ==
    ASSUME NEW m \in Nat, NEW i \in 1..(m + 1)
    PROVE  i \in 1..m \/ i = m + 1
OBVIOUS

\* One queue behind another.
LEMMA ConcatProps ==
    ASSUME NEW S, NEW q \in Seq(S), NEW x \in Seq(S)
    PROVE  /\ q \o x \in Seq(S)
           /\ Len(q \o x) = Len(q) + Len(x)
           /\ \A i \in 1..(Len(q) + Len(x)) :
                 (q \o x)[i] = IF i <= Len(q) THEN q[i] ELSE x[i - Len(q)]
BY ConcatProperties

\* What is left of a queue when its first n elements are removed.
LEMMA SuffixProps ==
    ASSUME NEW S, NEW q \in Seq(S), NEW n \in 0..Len(q)
    PROVE  /\ SubSeq(q, n + 1, Len(q)) \in Seq(S)
           /\ Len(SubSeq(q, n + 1, Len(q))) = Len(q) - n
           /\ \A i \in 1..(Len(q) - n) : SubSeq(q, n + 1, Len(q))[i] = q[n + i]
<1>1. \A i \in (n + 1)..Len(q) : q[i] \in S
  OBVIOUS
<1>2. /\ SubSeq(q, n + 1, Len(q)) \in Seq(S)
      /\ Len(SubSeq(q, n + 1, Len(q))) =
            IF n + 1 <= Len(q) THEN Len(q) - (n + 1) + 1 ELSE 0
      /\ \A i \in 1..(Len(q) - (n + 1) + 1) :
            SubSeq(q, n + 1, Len(q))[i] = q[(n + 1) + i - 1]
  <2>1. n + 1 \in Int /\ Len(q) \in Int
    OBVIOUS
  <2>2. QED
    BY <1>1, <2>1, SubSeqProperties
<1>3. QED
  BY <1>2

\* The first n elements of a queue.
LEMMA PrefixProps ==
    ASSUME NEW S, NEW q \in Seq(S), NEW n \in 0..Len(q)
    PROVE  /\ SubSeq(q, 1, n) \in Seq(S)
           /\ Len(SubSeq(q, 1, n)) = n
           /\ \A i \in 1..n : SubSeq(q, 1, n)[i] = q[i]
<1>1. \A i \in 1..n : q[i] \in S
  OBVIOUS
<1>2. /\ SubSeq(q, 1, n) \in Seq(S)
      /\ Len(SubSeq(q, 1, n)) = IF 1 <= n THEN n - 1 + 1 ELSE 0
      /\ \A i \in 1..(n - 1 + 1) : SubSeq(q, 1, n)[i] = q[1 + i - 1]
  BY <1>1, SubSeqProperties
<1>3. QED
  BY <1>2

\* InsertBefore puts one element in and keeps the others in order.
LEMMA InsertProps ==
    ASSUME NEW S, NEW q \in Seq(S), NEW x \in S, NEW p \in 1..(Len(q) + 1)
    PROVE  /\ InsertBefore(q, p, x) \in Seq(S)
           /\ Len(InsertBefore(q, p, x)) = Len(q) + 1
           /\ \A i \in 1..(Len(q) + 1) :
                 InsertBefore(q, p, x)[i] =
                    IF i < p THEN q[i] ELSE IF i = p THEN x ELSE q[i - 1]
<1> DEFINE f == InsertBefore(q, p, x)
<1>1. \A i \in 1..(Len(q) + 1) :
         (IF i < p THEN q[i] ELSE IF i = p THEN x ELSE q[i - 1]) \in S
  OBVIOUS
<1>2. f \in [1..(Len(q) + 1) -> S]
  BY <1>1 DEF InsertBefore
<1>3. Len(q) + 1 \in Nat
  OBVIOUS
<1>4. f \in Seq(S)
  BY <1>2, <1>3, SeqDef
<1>5. Len(f) = Len(q) + 1
  BY <1>2, <1>3, <1>4, LenProperties
<1>6. QED
  BY <1>4, <1>5 DEF InsertBefore

\* RemoveAt takes one element out and keeps the others in order.
LEMMA RemoveProps ==
    ASSUME NEW S, NEW q \in Seq(S), NEW k \in 1..Len(q)
    PROVE  /\ RemoveAt(q, k) \in Seq(S)
           /\ Len(RemoveAt(q, k)) = Len(q) - 1
           /\ \A i \in 1..(Len(q) - 1) :
                 RemoveAt(q, k)[i] = IF i < k THEN q[i] ELSE q[i + 1]
<1> DEFINE f == RemoveAt(q, k)
<1>1. \A i \in 1..(Len(q) - 1) : (IF i < k THEN q[i] ELSE q[i + 1]) \in S
  OBVIOUS
<1>2. f \in [1..(Len(q) - 1) -> S]
  BY <1>1 DEF RemoveAt
<1>3. Len(q) - 1 \in Nat
  OBVIOUS
<1>4. f \in Seq(S)
  BY <1>2, <1>3, SeqDef
<1>5. Len(f) = Len(q) - 1
  BY <1>2, <1>3, <1>4, LenProperties
<1>6. QED
  BY <1>4, <1>5 DEF RemoveAt

-----------------------------------------------------------------------------
(* The constants.                                                          *)

\* The sizes of the windows are numbers, and a window with all that may be
\* tossed is shorter than a turn of the sequence numbers.
LEMMA WindowSizes ==
    /\ SendWin \in Nat /\ 1 <= SendWin /\ MaxToss \in Nat /\ MaxAckPending \in Nat
    /\ SeqMod \in Nat /\ RecvWin \in Nat /\ RecvWin + 2 < SeqMod
    /\ SendWin + MaxToss + 1 < SeqMod
BY VCAssumption, SeqNumAssumption

-----------------------------------------------------------------------------
(* The fields of the structures.                                           *)

\* The fields of a vc_t.
LEMMA VCFields ==
    ASSUME NEW v \in VCs
    PROVE  /\ v.tosend \in Nat /\ v.torecv \in Nat /\ v.toack \in Int
           /\ v.ackNeed \in BOOLEAN /\ v.ackPending \in Nat
           /\ v.sendwin \in Seq(Items) /\ v.extwin \in Seq(Nat)
           /\ v.recvwin \in Seq(Packets) /\ v.apprecv \in Seq(Packets)
           /\ v.nread \in Nat /\ v.acked \in Int
           /\ Len(v.sendwin) \in Nat /\ Len(v.extwin) \in Nat
           /\ Len(v.recvwin) \in Nat /\ Len(v.apprecv) \in Nat
BY DEF VCs

\* The fields of a packet of the send window.
LEMMA ItemFields ==
    ASSUME NEW q \in Seq(Items), NEW i \in 1..Len(q)
    PROVE  /\ q[i] \in Items
           /\ q[i].type \in PacketTypes /\ q[i].seq \in Nat
           /\ q[i].data \in Nat /\ q[i].retry \in Nat
<1>1. q[i] \in Items
  OBVIOUS
<1>2. QED
  BY <1>1 DEF Items

\* The fields of a received packet.
LEMMA PacketFields ==
    ASSUME NEW q \in Seq(Packets), NEW i \in 1..Len(q)
    PROVE  /\ q[i] \in Packets
           /\ q[i].type \in PacketTypes /\ q[i].seq \in Int
           /\ q[i].data \in Nat /\ q[i].ack \in Int
<1>1. q[i] \in Packets
  OBVIOUS
<1>2. QED
  BY <1>1 DEF Packets

\* r and v agree on what the receiving side uses.
SameRecv(r, v) ==
    /\ r.torecv = v.torecv /\ r.toack = v.toack /\ r.recvwin = v.recvwin
    /\ r.apprecv = v.apprecv /\ r.nread = v.nread

\* r and v agree on what the sending side uses.
SameSend(r, v) ==
    /\ r.tosend = v.tosend /\ r.sendwin = v.sendwin
    /\ r.extwin = v.extwin /\ r.acked = v.acked

\* The parts of IInv depend on these fields only.
LEMMA SameKeeps ==
    ASSUME NEW r, NEW v, NEW t, NEW ts, NEW w
    PROVE  /\ SameSend(r, v) =>
                 /\ SendOK(v, t) => SendOK(r, t)
                 /\ CoverOK(v, ts) => CoverOK(r, ts)
                 /\ ExtOK(v, w) => ExtOK(r, w)
           /\ SameRecv(r, v) => (RecvOK(v) => RecvOK(r))
BY DEF SameSend, SameRecv, SendOK, CoverOK, ExtOK, RecvOK

-----------------------------------------------------------------------------
(* Sending.                                                                *)

\* ud_process_ack releases the packets numbered up to the acknowledgement, and
\* what it leaves of the send window keeps its shape.
LEMMA RemoveAckedProps ==
    ASSUME NEW v \in VCs, NEW t \in Nat, NEW ts, NEW ack \in Int,
           NEW n \in 0..Len(v.sendwin),
           SendOK(v, t), CoverOK(v, ts),
           -1 <= ack, ack < v.tosend, v.tosend - ack < SeqMod,
           IsAckedCount(v, ack, n)
    PROVE  /\ SameRecv(RemoveAcked(v, ack, n), v)
           /\ RemoveAcked(v, ack, n).tosend = v.tosend
           /\ RemoveAcked(v, ack, n).extwin = v.extwin
           /\ RemoveAcked(v, ack, n) \in VCs
           /\ RemoveAcked(v, ack, n).acked = IF ack > v.acked THEN ack ELSE v.acked
           /\ SendOK(RemoveAcked(v, ack, n), t)
           /\ CoverOK(RemoveAcked(v, ack, n), ts)
<1> DEFINE q == v.sendwin
           r == RemoveAcked(v, ack, n)
<1>0. /\ q \in Seq(Items) /\ v.tosend \in Nat /\ v.acked \in Int
      /\ Len(q) \in Nat /\ n \in Nat /\ n <= Len(q)
  BY VCFields
<1>a. \A i \in 1..Len(q) : q[i].seq \in Nat
  BY <1>0, ItemFields
<1>1. ASSUME NEW i \in 1..Len(q)
      PROVE  AckCovers(v, ack, i) <=> q[i].seq <= ack
  <2>0. q[i].seq \in Nat
    BY <1>a
  <2>1. /\ q[i].seq < v.tosend /\ v.acked < q[i].seq
        /\ v.tosend - 1 - v.acked <= Len(q) + t
        /\ Len(q) <= SendWin + 1 /\ t <= MaxToss
    BY DEF SendOK
  <2>2. v.tosend - q[i].seq < SeqMod
    <3> DEFINE l == Len(q)
               x == q[i].seq
               b == v.tosend
               c == v.acked
    <3>1. /\ l \in Nat /\ x \in Nat /\ b \in Nat /\ c \in Int /\ c < x
          /\ b - 1 - c <= l + t /\ l <= SendWin + 1 /\ t <= MaxToss
      BY <1>0, <2>0, <2>1
    <3> HIDE DEF l, x, b, c
    <3>2. b - x < SeqMod
      BY <3>1, WindowSizes
    <3>3. QED
      BY <3>2 DEF x, b
  <2>3. q[i].seq \in Int /\ 0 <= q[i].seq /\ v.tosend \in Int
    BY <1>0, <2>0
  <2>4. QED
    BY <2>1, <2>2, <2>3, AckExact DEF AckCovers
<1>2. \A i, j \in 1..Len(q) : i < j => q[i].seq + (j - i) <= q[j].seq
  BY DEF SendOK, Increasing
<1>3. \A i \in 1..n : q[i].seq <= ack
  BY <1>1 DEF IsAckedCount
<1>4. ASSUME NEW i \in (n + 1)..Len(q)
      PROVE  ack < q[i].seq
  <2>1. ~AckCovers(v, ack, n + 1)
    BY DEF IsAckedCount
  <2>2. n + 1 \in 1..Len(q) /\ ack < q[n + 1].seq
    BY <1>0, <1>a, <1>1, <2>1
  <2>3. QED
    <3> DEFINE x == q[i].seq
               y == q[n + 1].seq
    <3>1. i \in 1..Len(q) /\ x \in Nat /\ y \in Nat /\ ack < y
      BY <1>0, <1>a, <2>2
    <3>2. n + 1 < i => y + (i - (n + 1)) <= x
      BY <1>2, <2>2, <3>1
    <3>3. i = n + 1 => x = y
      OBVIOUS
    <3> HIDE DEF x, y, q
    <3>4. ack < x
      BY <1>0, <3>1, <3>2, <3>3
    <3>5. QED
      BY <3>4 DEF x, q
<1>5. n <= (IF ack > v.acked THEN ack - v.acked ELSE 0)
  <2>1. CASE n = 0
    BY <2>1, <1>0
  <2>2. CASE n > 0
    <3>1. 1 \in 1..Len(q) /\ n \in 1..Len(q)
      BY <2>2
    <3>2. v.acked < q[1].seq /\ q[n].seq <= ack
      BY <3>1, <1>3 DEF SendOK
    <3>3. 1 < n => q[1].seq + (n - 1) <= q[n].seq
      BY <3>1, <1>2
    <3> DEFINE x == q[1].seq
               y == q[n].seq
               c == v.acked
    <3>4. /\ x \in Nat /\ y \in Nat /\ c \in Int /\ c < x /\ y <= ack
          /\ (1 < n => x + (n - 1) <= y) /\ (n = 1 => x = y)
      BY <1>0, <1>a, <3>1, <3>2, <3>3
    <3> HIDE DEF x, y, c
    <3>5. n <= (IF ack > c THEN ack - c ELSE 0)
      BY <1>0, <2>2, <3>4
    <3>6. QED
      BY <3>5 DEF c
  <2>3. QED
    BY <2>1, <2>2
<1>6. /\ r.sendwin \in Seq(Items)
      /\ Len(r.sendwin) = Len(q) - n
      /\ \A i \in 1..(Len(q) - n) : r.sendwin[i] = q[n + i]
  <2>1. r.sendwin = SubSeq(q, n + 1, Len(q))
    BY DEF RemoveAcked, VCs
  <2>2. QED
    BY <1>0, <1>a, <2>1, SuffixProps
<1>7. /\ r = [v EXCEPT !.sendwin = r.sendwin, !.acked = r.acked]
      /\ r.acked = IF ack > v.acked THEN ack ELSE v.acked
      /\ r.tosend = v.tosend
  BY DEF RemoveAcked, VCs
<1>8. r \in VCs
  BY <1>0, <1>a, <1>6, <1>7 DEF VCs
<1>9. SendOK(r, t)
  <2> HIDE DEF r
  <2>1. /\ -1 <= v.acked /\ v.acked < v.tosend
        /\ Len(q) <= SendWin + 1
        /\ t <= MaxToss
        /\ v.tosend - 1 - v.acked <= Len(q) + t
    BY DEF SendOK, q
  <2>2. \A i \in 1..Len(q) :
          /\ v.acked < q[i].seq
          /\ q[i].seq < v.tosend
          /\ q[i].data = q[i].seq
          /\ q[i].type # "ACK"
    BY DEF SendOK, q
  <2>3. /\ -1 <= r.acked /\ r.acked < r.tosend
        /\ Len(r.sendwin) <= SendWin + 1
        /\ r.tosend - 1 - r.acked <= Len(r.sendwin) + t
    <3> DEFINE m == Len(q)
               a == v.acked
               b == v.tosend
    <3>1. /\ m \in Nat /\ a \in Int /\ b \in Nat /\ n \in Nat /\ n <= m
          /\ n <= (IF ack > a THEN ack - a ELSE 0)
          /\ -1 <= a /\ a < b /\ m <= SendWin + 1 /\ b - 1 - a <= m + t
      BY <1>0, <1>5, <2>1
    <3>2. Len(r.sendwin) = m - n /\ r.acked = (IF ack > a THEN ack ELSE a) /\ r.tosend = b
      BY <1>6, <1>7
    <3>3. ack < b
      OBVIOUS
    <3> HIDE DEF m, a, b
    <3>4. QED
      BY <3>1, <3>2, <3>3, WindowSizes
  <2>4. ASSUME NEW i \in 1..Len(r.sendwin)
        PROVE  /\ r.acked < r.sendwin[i].seq
               /\ r.sendwin[i].seq < r.tosend
               /\ r.sendwin[i].data = r.sendwin[i].seq
               /\ r.sendwin[i].type # "ACK"
    <3>1. n + i \in (n + 1)..Len(q) /\ n + i \in 1..Len(q) /\ r.sendwin[i] = q[n + i]
      BY <1>0, <1>6
    <3>2. ack < q[n + i].seq
      BY <1>4, <3>1
    <3>3. QED
      BY <1>7, <2>2, <3>1, <3>2
  <2>5. \A i, j \in 1..Len(r.sendwin) :
          i < j => r.sendwin[i].seq + (j - i) <= r.sendwin[j].seq
    <3> SUFFICES ASSUME NEW i \in 1..Len(r.sendwin), NEW j \in 1..Len(r.sendwin), i < j
                 PROVE  r.sendwin[i].seq + (j - i) <= r.sendwin[j].seq
      OBVIOUS
    <3>1. /\ n + i \in 1..Len(q) /\ n + j \in 1..Len(q) /\ n + i < n + j
          /\ r.sendwin[i] = q[n + i] /\ r.sendwin[j] = q[n + j]
      <4>1. i \in 1..(Len(q) - n) /\ j \in 1..(Len(q) - n)
        BY <1>6
      <4>2. r.sendwin[i] = q[n + i] /\ r.sendwin[j] = q[n + j]
        BY <1>6, <4>1
      <4> DEFINE l == Len(q)
      <4>3. l \in Nat /\ i \in 1..(l - n) /\ j \in 1..(l - n)
        BY <1>0, <4>1
      <4> HIDE DEF l
      <4>4. n + i \in 1..l /\ n + j \in 1..l /\ n + i < n + j
        BY <1>0, <4>3
      <4>5. QED
        BY <4>2, <4>4 DEF l
    <3>2. q[n + i].seq + ((n + j) - (n + i)) <= q[n + j].seq
      BY <1>2, <3>1
    <3>3. QED
      BY <1>0, <1>a, <3>1, <3>2
  <2>6. QED
    BY <2>1, <2>3, <2>4, <2>5 DEF SendOK, Increasing
<1>10. CoverOK(r, ts)
  <2> SUFFICES ASSUME NEW s \in (r.acked + 1)..(r.tosend - 1)
               PROVE  \/ \E i \in 1..Len(r.sendwin) : r.sendwin[i].seq = s
                      \/ \E i \in 1..Len(ts) : ts[i] = s
    BY DEF CoverOK
  <2>1. s \in (v.acked + 1)..(v.tosend - 1) /\ s > ack
    BY <1>0, <1>a, <1>7
  <2>2. CASE \E i \in 1..Len(ts) : ts[i] = s
    BY <2>2
  <2>3. CASE \E i \in 1..Len(q) : q[i].seq = s
    <3>1. PICK i \in 1..Len(q) : q[i].seq = s
      BY <2>3
    <3>2. i > n
      BY <1>0, <1>a, <1>3, <2>1, <3>1
    <3>3. i - n \in 1..Len(r.sendwin) /\ r.sendwin[i - n] = q[n + (i - n)] /\ n + (i - n) = i
      BY <1>0, <1>a, <1>6, <3>2
    <3>4. QED
      BY <3>1, <3>3
  <2>4. QED
    BY <2>1, <2>2, <2>3 DEF CoverOK
<1>11. SameRecv(r, v) /\ r.extwin = v.extwin
  BY DEF RemoveAcked, VCs, SameRecv
<1>12. QED
  BY <1>7, <1>8, <1>9, <1>10, <1>11

\* The payloads ds continue the stream at n.
Numbered(ds, n) == \A i \in 1..Len(ds) : ds[i] = n + i - 1

\* ud_post_send gives the packets the next numbers and puts them at the end of
\* the send window.
LEMMA PostSendProps ==
    ASSUME NEW v \in VCs, NEW t \in Nat, NEW ts, NEW ds \in Seq(Nat),
           SendOK(v, t), CoverOK(v, ts),
           Len(v.sendwin) + Len(ds) <= SendWin + 1,
           Numbered(ds, v.tosend)
    PROVE  /\ PostSend(v, ds) \in VCs
           /\ SameRecv(PostSend(v, ds), v)
           /\ PostSend(v, ds).tosend = v.tosend + Len(ds)
           /\ PostSend(v, ds).extwin = v.extwin
           /\ PostSend(v, ds).acked = v.acked
           /\ Len(PostSend(v, ds).sendwin) = Len(v.sendwin) + Len(ds)
           /\ SendOK(PostSend(v, ds), t)
           /\ CoverOK(PostSend(v, ds), ts)
<1> DEFINE q == v.sendwin
           r == PostSend(v, ds)
           x == NewItems(v, ds)
<1>0. /\ q \in Seq(Items) /\ v.tosend \in Nat /\ v.acked \in Int
      /\ Len(q) \in Nat /\ Len(ds) \in Nat /\ Len(q) + Len(ds) <= SendWin + 1
  BY VCFields
<1>a. \A i, j \in 1..Len(q) : i < j => q[i].seq + (j - i) <= q[j].seq
  BY DEF SendOK, Increasing
<1>b. \A i \in 1..Len(q) :
         /\ q[i].seq \in Nat /\ v.acked < q[i].seq /\ q[i].seq < v.tosend
         /\ q[i].data = q[i].seq /\ q[i].type # "ACK"
  BY <1>0, ItemFields DEF SendOK
<1>c. /\ -1 <= v.acked /\ v.acked < v.tosend /\ t <= MaxToss
      /\ v.tosend - 1 - v.acked <= Len(q) + t
  BY DEF SendOK
<1>d. \A s \in (v.acked + 1)..(v.tosend - 1) :
         \/ \E i \in 1..Len(q) : q[i].seq = s
         \/ \E i \in 1..Len(ts) : ts[i] = s
  BY DEF CoverOK
<1>1. CASE ds = << >>
  <2>1. r = v /\ Len(ds) = 0
    BY <1>1 DEF PostSend
  <2>2. QED
    BY <2>1, <1>0 DEF SameRecv
<1>2. CASE ds # << >>
  <2>1. /\ x \in Seq(Items) /\ Len(x) = Len(ds)
        /\ \A i \in 1..Len(ds) :
              x[i].type = "DATA" /\ x[i].seq = v.tosend + i - 1 /\ x[i].data = x[i].seq
    <3>1. \A i \in 1..Len(ds) : Item("DATA", v.tosend + i - 1, ds[i]) \in Items
      <4> SUFFICES ASSUME NEW i \in 1..Len(ds)
                   PROVE  Item("DATA", v.tosend + i - 1, ds[i]) \in Items
        OBVIOUS
      <4>1. v.tosend + i - 1 \in Nat /\ ds[i] \in Nat
        BY <1>0
      <4>2. QED
        BY <4>1 DEF Item, Items, PacketTypes
    <3>2. x \in [1..Len(ds) -> Items]
      BY <3>1 DEF NewItems
    <3>3. x \in Seq(Items) /\ Len(x) = Len(ds)
      <4> HIDE DEF x
      <4>1. QED
        BY <1>0, <3>2, FunctionIsSeq
    <3>5. \A i \in 1..Len(ds) :
             x[i].type = "DATA" /\ x[i].seq = v.tosend + i - 1 /\ x[i].data = ds[i]
      BY DEF NewItems, Item
    <3>6. QED
      BY <3>3, <3>5 DEF Numbered
  <2>2. /\ r = [v EXCEPT !.tosend = v.tosend + Len(ds), !.ackNeed = FALSE,
                         !.ackPending = 0, !.sendwin = q \o x]
        /\ SameRecv(r, v) /\ r.tosend = v.tosend + Len(ds)
        /\ r.extwin = v.extwin /\ r.acked = v.acked /\ r.sendwin = q \o x
    BY <1>2 DEF PostSend, VCs, SameRecv
  <2> HIDE DEF q, r, x
  <2>3. /\ r.sendwin \in Seq(Items)
        /\ Len(r.sendwin) = Len(q) + Len(ds)
        /\ \A i \in 1..(Len(q) + Len(ds)) :
              r.sendwin[i] = IF i <= Len(q) THEN q[i] ELSE x[i - Len(q)]
    <3>1. q \in Seq(Items) /\ x \in Seq(Items) /\ Len(x) = Len(ds) /\ r.sendwin = q \o x
      BY <1>0, <2>1, <2>2
    <3>2. /\ q \o x \in Seq(Items) /\ Len(q \o x) = Len(q) + Len(x)
          /\ \A i \in 1..(Len(q) + Len(x)) :
                (q \o x)[i] = IF i <= Len(q) THEN q[i] ELSE x[i - Len(q)]
      <4>1. q \in Seq(Items)
        BY <3>1
      <4>2. x \in Seq(Items)
        BY <3>1
      <4> HIDE <3>1
      <4>3. QED
        BY <4>1, <4>2, ConcatProps, Zenon
    <3>3. QED
      BY <3>1, <3>2
  <2>4. r \in VCs
    <3>1. v.tosend + Len(ds) \in Nat
      BY <1>0
    <3>2. QED
      BY <2>2, <2>3, <3>1 DEF VCs
  <2>5. \A i \in 1..Len(q) :
          /\ r.sendwin[i] = q[i] /\ q[i].seq \in Nat
          /\ v.acked < q[i].seq /\ q[i].seq < v.tosend
          /\ q[i].data = q[i].seq /\ q[i].type # "ACK"
    <3> SUFFICES ASSUME NEW i \in 1..Len(q)
                 PROVE  r.sendwin[i] = q[i]
      BY <1>b
    <3>1. i \in 1..(Len(q) + Len(ds)) /\ i <= Len(q)
      BY <1>0
    <3>2. QED
      BY <2>3, <3>1
  <2>6. \A i \in (Len(q) + 1)..(Len(q) + Len(ds)) :
          /\ r.sendwin[i].seq = v.tosend + (i - Len(q)) - 1
          /\ r.sendwin[i].data = r.sendwin[i].seq /\ r.sendwin[i].type # "ACK"
    <3> SUFFICES ASSUME NEW i \in (Len(q) + 1)..(Len(q) + Len(ds))
                 PROVE  /\ r.sendwin[i].seq = v.tosend + (i - Len(q)) - 1
                        /\ r.sendwin[i].data = r.sendwin[i].seq
                        /\ r.sendwin[i].type # "ACK"
      OBVIOUS
    <3>1. /\ i - Len(q) \in 1..Len(ds) /\ i \in 1..(Len(q) + Len(ds)) /\ ~(i <= Len(q))
      BY <1>0
    <3>2. r.sendwin[i] = x[i - Len(q)]
      BY <2>3, <3>1
    <3>3. QED
      BY <2>1, <3>1, <3>2
  <2>7. SendOK(r, t)
    <3>2. /\ -1 <= r.acked /\ r.acked < r.tosend
          /\ Len(r.sendwin) <= SendWin + 1
          /\ r.tosend - 1 - r.acked <= Len(r.sendwin) + t
      <4> DEFINE m == Len(q)
                 k == Len(ds)
                 a == v.acked
                 b == v.tosend
      <4>1. /\ m \in Nat /\ k \in Nat /\ m + k <= SendWin + 1 /\ a \in Int /\ b \in Nat
            /\ Len(r.sendwin) = m + k /\ r.tosend = b + k /\ r.acked = a
            /\ -1 <= a /\ a < b /\ b - 1 - a <= m + t
        BY <1>0, <1>c, <2>2, <2>3
      <4> HIDE DEF m, k, a, b
      <4>2. QED
        BY <4>1
    <3>3. ASSUME NEW i \in 1..Len(r.sendwin)
          PROVE  /\ r.acked < r.sendwin[i].seq /\ r.sendwin[i].seq < r.tosend
                 /\ r.sendwin[i].data = r.sendwin[i].seq /\ r.sendwin[i].type # "ACK"
      <4>1. CASE i \in 1..Len(q)
        BY <1>0, <2>2, <2>5, <4>1
      <4>2. CASE i \in (Len(q) + 1)..(Len(q) + Len(ds))
        <5>1. /\ r.sendwin[i].seq = v.tosend + (i - Len(q)) - 1
              /\ r.sendwin[i].data = r.sendwin[i].seq /\ r.sendwin[i].type # "ACK"
          BY <2>6, <4>2
        <5>2. /\ v.tosend <= r.sendwin[i].seq /\ r.sendwin[i].seq < v.tosend + Len(ds)
              /\ v.acked < r.sendwin[i].seq
          <6> DEFINE m == Len(q)
                     k == Len(ds)
                     a == v.acked
                     b == v.tosend
          <6>1. /\ m \in Nat /\ k \in Nat /\ a \in Int /\ b \in Nat /\ a < b
                /\ i \in Int /\ m + 1 <= i /\ i <= m + k /\ r.sendwin[i].seq = b + (i - m) - 1
            BY <1>0, <1>c, <4>2, <5>1
          <6> HIDE DEF m, k, a, b
          <6>2. b <= r.sendwin[i].seq /\ r.sendwin[i].seq < b + k /\ a < r.sendwin[i].seq
            BY <6>1
          <6>3. QED
            BY <6>2 DEF m, k, a, b
        <5>3. QED
          BY <2>2, <5>1, <5>2
      <4>3. QED
        BY <1>0, <2>3, <4>1, <4>2
    <3>4. ASSUME NEW i \in 1..Len(r.sendwin), NEW j \in 1..Len(r.sendwin), i < j
          PROVE  r.sendwin[i].seq + (j - i) <= r.sendwin[j].seq
      <4>1. CASE j \in 1..Len(q)
        <5>1. i \in 1..Len(q)
          BY <1>0, <2>3, <3>4, <4>1
        <5>2. q[i].seq + (j - i) <= q[j].seq
          BY <1>a, <3>4, <4>1, <5>1
        <5>3. QED
          BY <2>5, <4>1, <5>1, <5>2
      <4>2. CASE i \in (Len(q) + 1)..(Len(q) + Len(ds))
        <5>1. j \in (Len(q) + 1)..(Len(q) + Len(ds))
          BY <1>0, <2>3, <3>4, <4>2
        <5>2. /\ r.sendwin[i].seq = v.tosend + (i - Len(q)) - 1
              /\ r.sendwin[j].seq = v.tosend + (j - Len(q)) - 1
          BY <2>6, <4>2, <5>1
        <5>3. QED
          BY <1>0, <4>2, <5>1, <5>2
      <4>3. CASE i \in 1..Len(q) /\ j \in (Len(q) + 1)..(Len(q) + Len(ds))
        <5>1. r.sendwin[j].seq = v.tosend + (j - Len(q)) - 1
          BY <2>6, <4>3
        <5>2. Len(q) \in 1..Len(q) /\ q[Len(q)].seq < v.tosend /\ q[Len(q)].seq \in Nat
          BY <1>0, <2>5, <4>3
        <5>3. i < Len(q) => q[i].seq + (Len(q) - i) <= q[Len(q)].seq
          BY <1>a, <4>3, <5>2
        <5>4. r.sendwin[i] = q[i] /\ q[i].seq \in Nat
          BY <2>5, <4>3
        <5>5. q[i].seq + (Len(q) - i) < v.tosend
          <6> DEFINE f == q[i].seq
                     y == q[Len(q)].seq
                     l == Len(q)
          <6>1. f \in Nat /\ y \in Nat /\ l \in Nat /\ v.tosend \in Nat /\ i \in 1..l /\ y < v.tosend
            BY <1>0, <4>3, <5>2, <5>4
          <6>2. i < l => f + (l - i) <= y
            BY <5>3
          <6>3. i = l => f = y
            OBVIOUS
          <6> HIDE DEF f, y, l
          <6>4. f + (l - i) < v.tosend
            BY <6>1, <6>2, <6>3
          <6>5. QED
            BY <6>4 DEF f, l
        <5> DEFINE m == Len(q)
                   b == v.tosend
                   y == q[i].seq
                   z == r.sendwin[j].seq
        <5>6. /\ m \in Nat /\ b \in Nat /\ y \in Nat /\ i \in Int /\ j \in Int
              /\ m + 1 <= j /\ y + (m - i) < b /\ z = b + (j - m) - 1
          BY <1>0, <4>3, <5>1, <5>4, <5>5
        <5> HIDE DEF m, b, y, z
        <5>7. y + (j - i) <= z
          BY <5>6
        <5>8. QED
          BY <5>4, <5>7 DEF y, z
      <4>4. QED
        BY <1>0, <2>3, <4>1, <4>2, <4>3
    <3>5. QED
      BY <1>c, <3>2, <3>3, <3>4 DEF SendOK, Increasing
  <2>8. CoverOK(r, ts)
    <3> SUFFICES ASSUME NEW s \in (r.acked + 1)..(r.tosend - 1)
                 PROVE  \/ \E i \in 1..Len(r.sendwin) : r.sendwin[i].seq = s
                        \/ \E i \in 1..Len(ts) : ts[i] = s
      BY DEF CoverOK
    <3>1. CASE s < v.tosend
      <4>1. s \in (v.acked + 1)..(v.tosend - 1)
        BY <1>0, <2>2, <3>1
      <4>2. \/ \E i \in 1..Len(q) : q[i].seq = s
            \/ \E i \in 1..Len(ts) : ts[i] = s
        BY <1>d, <4>1
      <4>3. \A i \in 1..Len(q) : i \in 1..Len(r.sendwin) /\ r.sendwin[i] = q[i]
        BY <1>0, <2>3, <2>5
      <4>4. QED
        BY <4>2, <4>3
    <3>2. CASE v.tosend <= s
      <4> DEFINE i == s - v.tosend + 1 + Len(q)
      <4>1. i \in (Len(q) + 1)..(Len(q) + Len(ds)) /\ i \in 1..Len(r.sendwin)
            /\ v.tosend + (i - Len(q)) - 1 = s
        <5> DEFINE m == Len(q)
                   k == Len(ds)
                   b == v.tosend
        <5>1. /\ m \in Nat /\ k \in Nat /\ b \in Nat /\ s \in Int /\ b <= s /\ s <= b + k - 1
              /\ i = s - b + 1 + m /\ Len(r.sendwin) = m + k
          BY <1>0, <2>2, <2>3, <3>2
        <5> HIDE DEF m, k, b, i
        <5>2. i \in (m + 1)..(m + k) /\ i \in 1..(m + k) /\ b + (i - m) - 1 = s
          BY <5>1
        <5>3. QED
          BY <5>1, <5>2 DEF m, k, b
      <4>2. QED
        BY <2>6, <4>1
    <3>3. QED
      BY <1>0, <2>2, <3>1, <3>2
  <2>9. QED
    BY <2>2, <2>3, <2>4, <2>7, <2>8 DEF q, r
<1>3. QED
  BY <1>1, <1>2

\* The packets that ud_post_send hands to the UD context.
LEMMA PostedProps ==
    ASSUME NEW v \in VCs, NEW ds \in Seq(Nat), Numbered(ds, v.tosend),
           NEW p \in PostedPackets(v, ds)
    PROVE  /\ p \in Packets /\ p.type = "DATA" /\ p.ack = v.toack
           /\ v.tosend <= p.seq /\ p.seq < v.tosend + Len(ds) /\ p.data = p.seq
<1>0. v.tosend \in Nat /\ v.toack \in Int /\ Len(ds) \in Nat
  BY VCFields
<1>1. PICK i \in 1..Len(ds) : p = Packet(NewItems(v, ds)[i], v.toack)
  BY DEF PostedPackets
<1>2. NewItems(v, ds)[i] = Item("DATA", v.tosend + i - 1, ds[i])
  BY DEF NewItems
<1>3. p = [type |-> "DATA", seq |-> v.tosend + i - 1, data |-> ds[i], ack |-> v.toack]
  BY <1>1, <1>2 DEF Packet, Item
<1>4. ds[i] = v.tosend + i - 1 /\ ds[i] \in Nat
  BY DEF Numbered
<1>5. v.tosend <= v.tosend + i - 1 /\ v.tosend + i - 1 < v.tosend + Len(ds)
      /\ v.tosend + i - 1 \in Int
  BY <1>0
<1>6. QED
  BY <1>0, <1>3, <1>4, <1>5 DEF Packets, PacketTypes

\* The packets ud_flush_ext_window moves are the next of the stream and fit
\* into the send window.
LEMMA FlushSeqProps ==
    ASSUME NEW v \in VCs, NEW w, ExtOK(v, w), Len(v.sendwin) <= SendWin + 1
    PROVE  /\ FlushCount(v) \in 0..Len(v.extwin)
           /\ FlushSeq(v) \in Seq(Nat) /\ Len(FlushSeq(v)) = FlushCount(v)
           /\ Numbered(FlushSeq(v), v.tosend)
           /\ Len(v.sendwin) + FlushCount(v) <= SendWin + 1
<1> DEFINE m == Len(v.sendwin)
           x == Len(v.extwin)
<1>0. m \in Nat /\ x \in Nat /\ v.extwin \in Seq(Nat) /\ m <= SendWin + 1
  BY VCFields
<1>1. FlushCount(v) = IF m >= SendWin THEN 0 ELSE IF x <= SendWin - m THEN x ELSE SendWin - m
  BY DEF FlushCount
<1>2. FlushCount(v) \in 0..x /\ m + FlushCount(v) <= SendWin + 1
  <2> HIDE DEF m, x
  <2> QED BY <1>0, <1>1, WindowSizes
<1>3. /\ FlushSeq(v) \in Seq(Nat) /\ Len(FlushSeq(v)) = FlushCount(v)
      /\ \A i \in 1..FlushCount(v) : FlushSeq(v)[i] = v.extwin[i]
  BY <1>0, <1>2, PrefixProps DEF FlushSeq
<1>4. Numbered(FlushSeq(v), v.tosend)
  <2>1. \A i \in 1..x : v.extwin[i] = v.tosend + i - 1
    BY DEF ExtOK
  <2>2. \A i \in 1..FlushCount(v) : i \in 1..x
    BY <1>0, <1>2
  <2>3. QED
    BY <1>3, <2>1, <2>2 DEF Numbered
<1>5. QED
  BY <1>2, <1>3, <1>4

\* Packets wait only while the send window is full.
Fed(v) == v.extwin # << >> => Len(v.sendwin) >= SendWin

\* ud_flush_ext_window.
LEMMA FlushProps ==
    ASSUME NEW v \in VCs, NEW t \in Nat, NEW ts, NEW w \in Nat,
           SendOK(v, t), CoverOK(v, ts), ExtOK(v, w)
    PROVE  /\ FlushExtWindow(v) \in VCs
           /\ SameRecv(FlushExtWindow(v), v)
           /\ FlushExtWindow(v).tosend = v.tosend + FlushCount(v)
           /\ FlushExtWindow(v).acked = v.acked
           /\ SendOK(FlushExtWindow(v), t)
           /\ CoverOK(FlushExtWindow(v), ts)
           /\ ExtOK(FlushExtWindow(v), w)
           /\ Fed(FlushExtWindow(v))
<1> DEFINE n == FlushCount(v)
           u == PostSend(v, FlushSeq(v))
           r == FlushExtWindow(v)
<1>0. Len(v.sendwin) <= SendWin + 1 /\ v.extwin \in Seq(Nat) /\ v.tosend \in Nat
  BY VCFields DEF SendOK
<1>1. /\ n \in 0..Len(v.extwin)
      /\ FlushSeq(v) \in Seq(Nat) /\ Len(FlushSeq(v)) = n
      /\ Numbered(FlushSeq(v), v.tosend)
      /\ Len(v.sendwin) + n <= SendWin + 1
  BY <1>0, FlushSeqProps
<1>2. /\ u \in VCs /\ SameRecv(u, v) /\ u.tosend = v.tosend + n
      /\ u.extwin = v.extwin /\ u.acked = v.acked
      /\ Len(u.sendwin) = Len(v.sendwin) + n
      /\ SendOK(u, t) /\ CoverOK(u, ts)
  <2> HIDE DEF u, n
  <2>1. Len(v.sendwin) + Len(FlushSeq(v)) <= SendWin + 1
    BY <1>1
  <2>2. QED
    BY <1>1, <2>1, PostSendProps DEF u
<1>3. r = [u EXCEPT !.extwin = SubSeq(v.extwin, n + 1, Len(v.extwin))]
  <2>1. r = [u EXCEPT !.extwin = SubSeq(u.extwin, n + 1, Len(u.extwin))]
    BY DEF FlushExtWindow
  <2>2. QED
    BY <1>2, <2>1
<1> DEFINE z == SubSeq(v.extwin, n + 1, Len(v.extwin))
<1>4. /\ z \in Seq(Nat) /\ Len(z) = Len(v.extwin) - n
      /\ \A i \in 1..(Len(v.extwin) - n) : z[i] = v.extwin[n + i]
  BY <1>0, <1>1, SuffixProps
<1> HIDE DEF z, u, r
<1>5. r \in VCs /\ r.extwin = z /\ SameRecv(r, u) /\ r.tosend = u.tosend /\ r.acked = u.acked
      /\ r.sendwin = u.sendwin
  BY <1>2, <1>3, <1>4 DEF VCs, SameRecv, z
<1>6. SendOK(r, t) /\ CoverOK(r, ts)
  BY <1>2, <1>5 DEF SendOK, CoverOK
<1>7. ExtOK(r, w)
  <2> DEFINE x == Len(v.extwin)
             b == v.tosend
  <2>1. /\ x \in Nat /\ b \in Nat /\ n \in Nat /\ n <= x
        /\ w = b - 1 + x /\ r.tosend = b + n /\ Len(r.extwin) = x - n
    BY <1>0, <1>1, <1>2, <1>4, <1>5 DEF ExtOK
  <2>2. \A i \in 1..x : v.extwin[i] = b + i - 1
    BY DEF ExtOK
  <2> HIDE DEF x, b, n
  <2>3. w = r.tosend - 1 + Len(r.extwin)
    BY <2>1
  <2>4. ASSUME NEW i \in 1..Len(r.extwin)
        PROVE  r.extwin[i] = r.tosend + i - 1
    <3>1. i \in 1..(x - n) /\ n + i \in 1..x /\ b + (n + i) - 1 = r.tosend + i - 1
      BY <2>1
    <3>2. z[i] = v.extwin[n + i]
      BY <1>4, <3>1 DEF x
    <3>3. QED
      BY <1>5, <2>2, <3>1, <3>2
  <2>5. QED
    BY <2>3, <2>4 DEF ExtOK
<1>8. Fed(r)
  <2> DEFINE x == Len(v.extwin)
             m == Len(v.sendwin)
  <2>1. x \in Nat /\ m \in Nat /\ Len(r.extwin) = x - n /\ Len(r.sendwin) = m + n
    BY <1>0, <1>2, <1>4, <1>5, VCFields
  <2>2. n = IF m >= SendWin THEN 0 ELSE IF x <= SendWin - m THEN x ELSE SendWin - m
    BY DEF FlushCount
  <2>3. r.extwin \in Seq(Nat)
    BY <1>4, <1>5
  <2> HIDE DEF x, m, n
  <2>4. CASE Len(r.extwin) = 0
    <3>1. r.extwin = << >>
      BY <2>3, <2>4, EmptySeq
    <3>2. QED
      BY <3>1 DEF Fed
  <2>5. CASE x - n # 0
    <3>1. m + n >= SendWin
      BY <2>1, <2>2, <2>5, WindowSizes
    <3>2. QED
      BY <2>1, <3>1 DEF Fed
  <2>6. QED
    BY <2>1, <2>4, <2>5
<1>9. QED
  BY <1>2, <1>5, <1>6, <1>7, <1>8 DEF SameRecv, u, r

-----------------------------------------------------------------------------
(* Receiving.                                                              *)

\* The searches of recv_window_add stop at the first packet of the queue that
\* is not before number n.
LEMMA SearchExact ==
    ASSUME NEW q \in Seq(Packets), NEW t \in Nat, NEW n \in Int,
           NEW pos \in 1..(Len(q) + 1),
           Increasing(q), Within(q, t + 1, t + RecvWin + 1),
           t < n, n <= t + RecvWin + 1,
           SearchStopsAt(q, Wrap(n), Wrap(t), pos)
    PROVE  /\ \A i \in 1..(pos - 1) : q[i].seq < n
           /\ \A i \in pos..Len(q) : n <= q[i].seq
<1>0. Len(q) \in Nat
  OBVIOUS
<1>1. ASSUME NEW i \in 1..Len(q)
      PROVE  StepsOver(Wrap(q[i].seq), Wrap(n), Wrap(q[1].seq), Wrap(t)) <=> q[i].seq < n
  <2>1. 1 \in 1..Len(q) /\ i \in Int /\ (i = 1 \/ 1 < i)
    BY <1>0
  <2>2. q[1].seq \in Int /\ q[i].seq \in Int
    BY <2>1, PacketFields
  <2>3. /\ t + 1 <= q[1].seq /\ t + 1 <= q[i].seq /\ q[i].seq <= t + RecvWin + 1
    BY <2>1 DEF Within
  <2>4. 1 < i => q[1].seq + (i - 1) <= q[i].seq
    BY <2>1 DEF Increasing
  <2> DEFINE h == q[1].seq
             c == q[i].seq
  <2>5. h \in Int /\ c \in Int /\ t + 1 <= h /\ c <= t + RecvWin + 1
        /\ (1 < i => h + (i - 1) <= c) /\ (i = 1 => h = c)
    BY <2>2, <2>3, <2>4
  <2> HIDE DEF h, c
  <2>6. t < h /\ h <= c
    BY <2>1, <2>5
  <2>7. StepsOver(Wrap(c), Wrap(n), Wrap(h), Wrap(t)) <=> c < n
    BY <2>5, <2>6, StepsOverExact
  <2>8. QED
    BY <2>7 DEF h, c
<1>2. ASSUME NEW i \in 1..(pos - 1)
      PROVE  q[i].seq < n
  <2>1. i \in 1..Len(q)
    BY <1>0
  <2>2. StepsOver(Wrap(q[i].seq), Wrap(n), Wrap(q[1].seq), Wrap(t))
    BY DEF SearchStopsAt
  <2>3. QED
    BY <1>1, <2>1, <2>2
<1>3. ASSUME NEW i \in pos..Len(q)
      PROVE  n <= q[i].seq
  <2>1. i \in 1..Len(q) /\ pos \in 1..Len(q) /\ pos <= Len(q) /\ (i = pos \/ pos < i)
        /\ i \in Int /\ pos \in Int
    BY <1>0
  <2>2. ~StepsOver(Wrap(q[pos].seq), Wrap(n), Wrap(q[1].seq), Wrap(t))
    BY <2>1 DEF SearchStopsAt
  <2>3. ~(q[pos].seq < n)
    BY <1>1, <2>1, <2>2
  <2>4. q[i].seq \in Int /\ q[pos].seq \in Int
    BY <2>1, PacketFields
  <2>5. pos < i => q[pos].seq + (i - pos) <= q[i].seq
    BY <2>1 DEF Increasing
  <2> DEFINE y == q[i].seq
             z == q[pos].seq
  <2>6. /\ y \in Int /\ z \in Int /\ ~(z < n) /\ (pos < i => z + (i - pos) <= y)
        /\ (i = pos => y = z)
    BY <2>3, <2>4, <2>5
  <2> HIDE DEF y, z
  <2>7. n <= y
    BY <2>1, <2>6
  <2>8. QED
    BY <2>7 DEF y
<1>4. QED
  BY <1>2, <1>3

\* A packet put between smaller and greater numbers keeps the queue increasing.
LEMMA InsertIncreasing ==
    ASSUME NEW q \in Seq(Packets), NEW x \in Packets, NEW pos \in 1..(Len(q) + 1),
           Increasing(q),
           \A i \in 1..(pos - 1) : q[i].seq < x.seq,
           \A i \in pos..Len(q) : x.seq < q[i].seq
    PROVE  Increasing(InsertBefore(q, pos, x))
<1> DEFINE f == InsertBefore(q, pos, x)
<1>0. Len(q) \in Nat /\ x.seq \in Int /\ pos \in Int /\ 1 <= pos /\ pos <= Len(q) + 1
  BY DEF Packets
<1>1. /\ Len(f) = Len(q) + 1
      /\ \A i \in 1..(Len(q) + 1) :
            f[i] = IF i < pos THEN q[i] ELSE IF i = pos THEN x ELSE q[i - 1]
  BY InsertProps
<1> HIDE DEF f
\* Numbers before the new one leave room for it.
<1>2. ASSUME NEW i \in 1..(pos - 1)
      PROVE  q[i].seq + (pos - i) <= x.seq
  <2>1. i \in 1..Len(q) /\ pos - 1 \in 1..Len(q) /\ pos - 1 \in 1..(pos - 1)
        /\ i \in Int /\ (i = pos - 1 \/ i < pos - 1)
    BY <1>0
  <2>2. q[i].seq \in Int /\ q[pos - 1].seq \in Int
    BY <2>1, PacketFields
  <2>3. q[pos - 1].seq < x.seq
    BY <2>1
  <2>4. i < pos - 1 => q[i].seq + ((pos - 1) - i) <= q[pos - 1].seq
    BY <2>1 DEF Increasing
  <2> DEFINE y == q[i].seq
             z == q[pos - 1].seq
             b == x.seq
  <2>5. /\ y \in Int /\ z \in Int /\ b \in Int /\ z < b
        /\ (i < pos - 1 => y + ((pos - 1) - i) <= z) /\ (i = pos - 1 => y = z)
    BY <1>0, <2>2, <2>3, <2>4
  <2> HIDE DEF y, z, b
  <2>6. y + (pos - i) <= b
    BY <1>0, <2>1, <2>5
  <2>7. QED
    BY <2>6 DEF y, b
\* So do the numbers behind it.
<1>3. ASSUME NEW j \in pos..Len(q)
      PROVE  x.seq + (j + 1 - pos) <= q[j].seq
  <2>1. j \in 1..Len(q) /\ pos \in 1..Len(q) /\ pos \in pos..Len(q)
        /\ j \in Int /\ (j = pos \/ pos < j)
    BY <1>0
  <2>2. q[j].seq \in Int /\ q[pos].seq \in Int
    BY <2>1, PacketFields
  <2>3. x.seq < q[pos].seq
    BY <2>1
  <2>4. pos < j => q[pos].seq + (j - pos) <= q[j].seq
    BY <2>1 DEF Increasing
  <2> DEFINE y == q[j].seq
             z == q[pos].seq
             b == x.seq
  <2>5. /\ y \in Int /\ z \in Int /\ b \in Int /\ b < z
        /\ (pos < j => z + (j - pos) <= y) /\ (j = pos => y = z)
    BY <1>0, <2>2, <2>3, <2>4
  <2> HIDE DEF y, z, b
  <2>6. b + (j + 1 - pos) <= y
    BY <1>0, <2>1, <2>5
  <2>7. QED
    BY <2>6 DEF y, b
<1>4. ASSUME NEW i \in 1..Len(f), NEW j \in 1..Len(f), i < j
      PROVE  f[i].seq + (j - i) <= f[j].seq
  <2>0. i \in Int /\ j \in Int /\ i < j /\ 1 <= i /\ j <= Len(q) + 1
        /\ i \in 1..(Len(q) + 1) /\ j \in 1..(Len(q) + 1)
    BY <1>0, <1>1, <1>4
  <2>1. CASE j < pos
    <3>1. f[i] = q[i] /\ f[j] = q[j] /\ i \in 1..Len(q) /\ j \in 1..Len(q)
      BY <1>0, <1>1, <2>0, <2>1
    <3>2. QED
      BY <2>0, <3>1 DEF Increasing
  <2>2. CASE j = pos
    <3>1. f[i] = q[i] /\ f[j] = x /\ i \in 1..(pos - 1)
      BY <1>0, <1>1, <2>0, <2>2
    <3>2. QED
      BY <1>2, <2>2, <3>1
  <2>3. CASE i = pos
    <3>1. f[i] = x /\ f[j] = q[j - 1] /\ j - 1 \in pos..Len(q) /\ (j - 1) + 1 - pos = j - i
      BY <1>0, <1>1, <2>0, <2>3
    <3>2. x.seq + ((j - 1) + 1 - pos) <= q[j - 1].seq
      BY <1>3, <3>1
    <3>3. QED
      BY <3>1, <3>2
  <2>4. CASE i < pos /\ pos < j
    <3>1. f[i] = q[i] /\ f[j] = q[j - 1] /\ i \in 1..(pos - 1) /\ j - 1 \in pos..Len(q)
          /\ i \in 1..Len(q) /\ j - 1 \in 1..Len(q)
      BY <1>0, <1>1, <2>0, <2>4
    <3>2. q[i].seq + (pos - i) <= x.seq
      BY <1>2, <3>1
    <3>3. x.seq + ((j - 1) + 1 - pos) <= q[j - 1].seq
      BY <1>3, <3>1
    <3>4. q[i].seq \in Int /\ q[j - 1].seq \in Int
      BY <3>1, PacketFields
    <3> DEFINE y == q[i].seq
               z == q[j - 1].seq
               b == x.seq
    <3>5. y \in Int /\ z \in Int /\ b \in Int /\ y + (pos - i) <= b /\ b + ((j - 1) + 1 - pos) <= z
      BY <1>0, <3>2, <3>3, <3>4
    <3> HIDE DEF y, z, b
    <3>6. y + (j - i) <= z
      BY <1>0, <2>0, <3>5
    <3>7. QED
      BY <3>1, <3>6 DEF y, z
  <2>5. CASE pos < i
    <3>1. f[i] = q[i - 1] /\ f[j] = q[j - 1] /\ i - 1 \in 1..Len(q) /\ j - 1 \in 1..Len(q)
          /\ i - 1 < j - 1 /\ (j - 1) - (i - 1) = j - i
      BY <1>0, <1>1, <2>0, <2>5
    <3>2. q[i - 1].seq + ((j - 1) - (i - 1)) <= q[j - 1].seq
      BY <3>1 DEF Increasing
    <3>3. QED
      BY <3>1, <3>2
  <2>6. QED
    BY <1>0, <2>0, <2>1, <2>2, <2>3, <2>4, <2>5
<1>5. QED
  BY <1>4 DEF Increasing, f

\* recv_window_add keeps the queue increasing and adds nothing but the packet.
LEMMA RecvWindowAddProps ==
    ASSUME NEW q \in Seq(Packets), NEW p \in Packets, NEW t \in Nat,
           NEW pos \in 1..(Len(q) + 1),
           Increasing(q), Within(q, t + 1, t + RecvWin + 1),
           t < p.seq, p.seq <= t + RecvWin + 1,
           SearchStopsAt(q, Wrap(p.seq), Wrap(t), pos)
    PROVE  /\ RecvWindowAdd(q, p, pos) \in Seq(Packets)
           /\ Increasing(RecvWindowAdd(q, p, pos))
           /\ \A i \in 1..Len(RecvWindowAdd(q, p, pos)) :
                 \/ RecvWindowAdd(q, p, pos)[i] = p
                 \/ \E j \in 1..Len(q) : RecvWindowAdd(q, p, pos)[i] = q[j]
<1>0. p.seq \in Int /\ Len(q) \in Nat
  BY DEF Packets
<1>1. /\ \A i \in 1..(pos - 1) : q[i].seq < p.seq
      /\ \A i \in pos..Len(q) : p.seq <= q[i].seq
  BY <1>0, SearchExact
<1>2. CASE pos <= Len(q) /\ Wrap(q[pos].seq) = Wrap(p.seq)
  BY <1>2 DEF RecvWindowAdd
<1>3. CASE ~(pos <= Len(q) /\ Wrap(q[pos].seq) = Wrap(p.seq))
  <2>1. RecvWindowAdd(q, p, pos) = InsertBefore(q, pos, p)
    BY <1>3 DEF RecvWindowAdd
  <2>2. ASSUME NEW i \in pos..Len(q)
        PROVE  p.seq < q[i].seq
    <3>1. i \in 1..Len(q) /\ pos \in 1..Len(q) /\ pos <= Len(q) /\ pos \in pos..Len(q)
          /\ i \in Int /\ pos \in Int /\ (i = pos \/ pos < i)
      BY <1>0
    <3>2. q[pos].seq # p.seq
      BY <1>3, <3>1
    <3>3. q[i].seq \in Int /\ q[pos].seq \in Int
      BY <3>1, PacketFields
    <3>4. p.seq <= q[pos].seq
      BY <1>1, <3>1
    <3>5. pos < i => q[pos].seq + (i - pos) <= q[i].seq
      BY <3>1 DEF Increasing
    <3> DEFINE y == q[i].seq
               z == q[pos].seq
               b == p.seq
    <3>6. /\ y \in Int /\ z \in Int /\ b \in Int /\ z # b /\ b <= z
          /\ (pos < i => z + (i - pos) <= y) /\ (i = pos => y = z)
      BY <1>0, <3>2, <3>3, <3>4, <3>5
    <3> HIDE DEF y, z, b
    <3>7. b < y
      BY <3>1, <3>6
    <3>8. QED
      BY <3>7 DEF y, b
  <2>3. Increasing(InsertBefore(q, pos, p))
    BY <1>1, <2>2, InsertIncreasing
  <2>4. /\ InsertBefore(q, pos, p) \in Seq(Packets)
        /\ Len(InsertBefore(q, pos, p)) = Len(q) + 1
        /\ \A i \in 1..(Len(q) + 1) :
              InsertBefore(q, pos, p)[i] =
                 IF i < pos THEN q[i] ELSE IF i = pos THEN p ELSE q[i - 1]
    BY InsertProps
  <2>5. ASSUME NEW i \in 1..(Len(q) + 1)
        PROVE  \/ InsertBefore(q, pos, p)[i] = p
               \/ \E j \in 1..Len(q) : InsertBefore(q, pos, p)[i] = q[j]
    <3>1. CASE i = pos
      BY <2>4, <3>1
    <3>2. CASE i < pos
      <4>1. i \in 1..Len(q)
        BY <1>0, <3>2
      <4>2. QED
        BY <2>4, <3>2, <4>1
    <3>3. CASE pos < i
      <4>1. i - 1 \in 1..Len(q) /\ ~(i < pos) /\ i # pos
        BY <1>0, <3>3
      <4>2. QED
        BY <2>4, <4>1
    <3>4. QED
      BY <3>1, <3>2, <3>3
  <2>6. QED
    BY <2>1, <2>3, <2>4, <2>5
<1>4. QED
  BY <1>2, <1>3

\* RecvOK between the two halves of mv2_ud_place_recvwin: the first packet of
\* the out-of-order queue may now be the next in order.
PlacedOK(v) ==
    /\ v.torecv = v.nread + Len(v.apprecv)
    /\ -1 <= v.toack /\ v.toack < v.torecv
    /\ Contiguous(v.apprecv, v.nread)
    /\ Within(v.recvwin, v.torecv, v.torecv + RecvWin + 1)
    /\ Increasing(v.recvwin)

\* The second half of mv2_ud_place_recvwin moves exactly the packets that have
\* become in order.
LEMMA DrainProps ==
    ASSUME NEW v \in VCs, NEW k \in 0..Len(v.recvwin), NEW s \in Nat,
           PlacedOK(v), IsDrainCount(v, k),
           v.torecv <= s, Within(v.recvwin, 0, s - 1)
    PROVE  /\ Drain(v, k) \in VCs
           /\ SameSend(Drain(v, k), v)
           /\ Drain(v, k).nread = v.nread
           /\ RecvOK(Drain(v, k))
           /\ v.torecv <= Drain(v, k).torecv /\ Drain(v, k).torecv <= s
           /\ v.toack <= Drain(v, k).toack
           /\ Within(Drain(v, k).recvwin, 0, s - 1)
<1> DEFINE q == v.recvwin
           a == v.apprecv
           t == v.torecv
           r == Drain(v, k)
<1>0. /\ q \in Seq(Packets) /\ a \in Seq(Packets) /\ t \in Nat /\ v.toack \in Int
      /\ v.nread \in Nat /\ Len(q) \in Nat /\ Len(a) \in Nat /\ k \in Nat /\ k <= Len(q)
  BY VCFields
<1>1. /\ t = v.nread + Len(a) /\ -1 <= v.toack /\ v.toack < t
      /\ Contiguous(a, v.nread) /\ Within(q, t, t + RecvWin + 1) /\ Increasing(q)
  BY DEF PlacedOK
<1>2. ASSUME NEW i \in 1..Len(q)
      PROVE  /\ q[i].seq \in Int /\ t + i - 1 <= q[i].seq
             /\ q[i].seq <= t + RecvWin + 1 /\ q[i].seq <= s - 1
             /\ q[i].data = q[i].seq
  <2>1. 1 \in 1..Len(q) /\ i \in Int /\ (i = 1 \/ 1 < i)
    BY <1>0
  <2>2. q[1].seq \in Int /\ q[i].seq \in Int
    BY <1>0, <2>1, PacketFields
  <2>3. t <= q[1].seq /\ q[i].seq <= t + RecvWin + 1 /\ q[i].data = q[i].seq /\ q[i].seq <= s - 1
    BY <1>1, <2>1 DEF Within
  <2>4. 1 < i => q[1].seq + (i - 1) <= q[i].seq
    BY <1>1, <2>1 DEF Increasing
  <2> DEFINE y == q[1].seq
             z == q[i].seq
  <2>5. /\ y \in Int /\ z \in Int /\ t <= y /\ (1 < i => y + (i - 1) <= z)
        /\ (i = 1 => y = z)
    BY <2>2, <2>3, <2>4
  <2> HIDE DEF y, z, t
  <2>6. t + i - 1 <= z
    BY <1>0, <2>1, <2>5
  <2>7. QED
    BY <2>2, <2>3, <2>6 DEF z
<1>3. ASSUME NEW i \in 1..k
      PROVE  i \in 1..Len(q) /\ q[i].seq = t + i - 1
  <2>1. i \in 1..Len(q) /\ i \in Int /\ 1 <= i
    BY <1>0
  <2>2. Wrap(q[i].seq) = Wrap(t + i - 1)
    BY DEF IsDrainCount
  <2> DEFINE y == q[i].seq
             z == t + i - 1
  <2>3. y \in Int /\ z <= y /\ y <= t + RecvWin + 1
    BY <1>2, <2>1
  <2> HIDE DEF y, t
  <2>4. z \in Int /\ -1 <= z /\ -1 <= y /\ y < z + SeqMod /\ z < y + SeqMod
    BY <1>0, <2>1, <2>3, WindowSizes
  <2>5. Wrap(y) = Wrap(z)
    BY <2>2 DEF y, t
  <2> HIDE DEF z
  <2>6. y = z
    BY <2>3, <2>4, <2>5, WrapInjective
  <2>7. QED
    BY <2>1, <2>6 DEF y, z, t
<1>4. ASSUME NEW i \in 1..(Len(q) - k)
      PROVE  /\ k + i \in 1..Len(q)
             /\ t + k + 1 <= q[k + i].seq
  <2>1. k + i \in 1..Len(q) /\ k + 1 \in 1..Len(q) /\ k < Len(q) /\ i \in Int /\ 1 <= i
        /\ (k + i = k + 1 \/ k + 1 < k + i)
    BY <1>0
  <2>2. Wrap(q[k + 1].seq) # Wrap(t + (k + 1) - 1)
    BY <2>1 DEF IsDrainCount
  <2>3. q[k + 1].seq # t + (k + 1) - 1
    BY <2>2
  <2>4. q[k + 1].seq \in Int /\ t + (k + 1) - 1 <= q[k + 1].seq /\ q[k + i].seq \in Int
    BY <1>2, <2>1
  <2>5. k + 1 < k + i => q[k + 1].seq + ((k + i) - (k + 1)) <= q[k + i].seq
    BY <1>1, <2>1 DEF Increasing
  <2> DEFINE y == q[k + 1].seq
             z == q[k + i].seq
  <2>6. /\ y \in Int /\ z \in Int /\ y # t + (k + 1) - 1 /\ t + (k + 1) - 1 <= y
        /\ (k + 1 < k + i => y + ((k + i) - (k + 1)) <= z) /\ (k + i = k + 1 => y = z)
    BY <2>3, <2>4, <2>5
  <2> HIDE DEF y, z, t
  <2>7. t + k + 1 <= z
    BY <1>0, <2>1, <2>6
  <2>8. QED
    BY <2>1, <2>7 DEF z
<1> DEFINE pre == SubSeq(q, 1, k)
           rest == SubSeq(q, k + 1, Len(q))
<1>5. /\ pre \in Seq(Packets) /\ Len(pre) = k /\ \A i \in 1..k : pre[i] = q[i]
      /\ rest \in Seq(Packets) /\ Len(rest) = Len(q) - k
      /\ \A i \in 1..(Len(q) - k) : rest[i] = q[k + i]
  BY <1>0, PrefixProps, SuffixProps
<1>6. /\ r = [v EXCEPT !.apprecv = a \o pre, !.recvwin = rest,
                       !.toack = IF k = 0 THEN v.toack ELSE t + k - 1, !.torecv = t + k]
      /\ r.apprecv = a \o pre /\ r.recvwin = rest /\ r.torecv = t + k
      /\ r.toack = (IF k = 0 THEN v.toack ELSE t + k - 1)
      /\ r.nread = v.nread /\ SameSend(r, v)
  BY DEF Drain, VCs, SameSend
<1> HIDE DEF pre, rest, r
<1>7. /\ a \o pre \in Seq(Packets) /\ Len(a \o pre) = Len(a) + k
      /\ \A i \in 1..(Len(a) + k) :
            (a \o pre)[i] = IF i <= Len(a) THEN a[i] ELSE pre[i - Len(a)]
  <2>1. a \in Seq(Packets) /\ pre \in Seq(Packets) /\ Len(pre) = k
    BY <1>0, <1>5
  <2> HIDE DEF a
  <2>2. /\ a \o pre \in Seq(Packets) /\ Len(a \o pre) = Len(a) + Len(pre)
        /\ \A i \in 1..(Len(a) + Len(pre)) :
              (a \o pre)[i] = IF i <= Len(a) THEN a[i] ELSE pre[i - Len(a)]
    BY <2>1, ConcatProps, Zenon
  <2>3. QED
    BY <2>1, <2>2
<1>8. r \in VCs
  <2>1. t + k \in Nat /\ r.toack \in Int
    BY <1>0, <1>6
  <2>2. QED
    BY <1>5, <1>6, <1>7, <2>1 DEF VCs
<1>9. Contiguous(r.apprecv, r.nread)
  <2> SUFFICES ASSUME NEW i \in 1..(Len(a) + k)
               PROVE  (a \o pre)[i].seq = v.nread + i - 1
                      /\ (a \o pre)[i].data = (a \o pre)[i].seq
    BY <1>6, <1>7 DEF Contiguous
  <2>1. CASE i <= Len(a)
    <3>1. i \in 1..Len(a) /\ (a \o pre)[i] = a[i]
      BY <1>0, <1>7, <2>1
    <3>2. QED
      BY <1>1, <3>1 DEF Contiguous
  <2>2. CASE ~(i <= Len(a))
    <3>1. i - Len(a) \in 1..k /\ (a \o pre)[i] = pre[i - Len(a)]
      BY <1>0, <1>7, <2>2
    <3>2. /\ (a \o pre)[i] = q[i - Len(a)] /\ q[i - Len(a)].seq = t + (i - Len(a)) - 1
          /\ q[i - Len(a)].data = q[i - Len(a)].seq
      BY <1>2, <1>3, <1>5, <3>1
    <3>3. t + (i - Len(a)) - 1 = v.nread + i - 1
      <4> DEFINE l == Len(a)
                 n == v.nread
      <4>1. l \in Nat /\ n \in Nat /\ t = n + l /\ i \in Int
        BY <1>0, <1>1
      <4> HIDE DEF l, n, t
      <4>2. t + (i - l) - 1 = n + i - 1
        BY <4>1
      <4>3. QED
        BY <4>2 DEF l, n, t
    <3>4. QED
      BY <3>2, <3>3
  <2>3. QED
    BY <2>1, <2>2
<1>10. Within(r.recvwin, r.torecv + 1, r.torecv + RecvWin + 1) /\ Within(r.recvwin, 0, s - 1)
  <2> SUFFICES ASSUME NEW i \in 1..(Len(q) - k)
               PROVE  /\ (t + k) + 1 <= rest[i].seq /\ rest[i].seq <= (t + k) + RecvWin + 1
                      /\ 0 <= rest[i].seq /\ rest[i].seq <= s - 1 /\ rest[i].data = rest[i].seq
    BY <1>5, <1>6 DEF Within
  <2>1. rest[i] = q[k + i] /\ k + i \in 1..Len(q) /\ t + k + 1 <= q[k + i].seq
    BY <1>4, <1>5
  <2>2. /\ q[k + i].seq \in Int /\ q[k + i].seq <= t + RecvWin + 1 /\ q[k + i].seq <= s - 1
        /\ q[k + i].data = q[k + i].seq
    BY <1>2, <2>1
  <2> DEFINE y == q[k + i].seq
  <2>3. y \in Int /\ t + k + 1 <= y /\ y <= t + RecvWin + 1
    BY <2>1, <2>2
  <2> HIDE DEF y, t
  <2>4. (t + k) + 1 <= y /\ y <= (t + k) + RecvWin + 1 /\ 0 <= y
    BY <1>0, <2>3, WindowSizes
  <2>5. QED
    BY <2>1, <2>2, <2>4 DEF y
<1>11. Increasing(r.recvwin)
  <2> SUFFICES ASSUME NEW i \in 1..(Len(q) - k), NEW j \in 1..(Len(q) - k), i < j
               PROVE  rest[i].seq + (j - i) <= rest[j].seq
    <3>1. r.recvwin = rest /\ Len(rest) = Len(q) - k
      BY <1>5, <1>6
    <3> HIDE DEF q
    <3>2. QED
      BY <3>1 DEF Increasing
  <2>1. /\ k + i \in 1..Len(q) /\ k + j \in 1..Len(q) /\ k + i < k + j
        /\ rest[i] = q[k + i] /\ rest[j] = q[k + j] /\ (k + j) - (k + i) = j - i
    BY <1>0, <1>5
  <2>2. q[k + i].seq + ((k + j) - (k + i)) <= q[k + j].seq
    BY <1>1, <2>1 DEF Increasing
  <2>3. QED
    BY <2>1, <2>2
<1>12. /\ r.torecv = r.nread + Len(r.apprecv)
       /\ -1 <= r.toack /\ r.toack < r.torecv
       /\ t <= r.torecv /\ v.toack <= r.toack
  <2> DEFINE m == Len(a)
             c == v.toack
             n == v.nread
  <2>1. /\ m \in Nat /\ c \in Int /\ n \in Nat /\ t \in Nat /\ k \in Nat
        /\ t = n + m /\ -1 <= c /\ c < t
    BY <1>0, <1>1
  <2>2. /\ r.torecv = t + k /\ r.nread = n /\ Len(r.apprecv) = m + k
        /\ r.toack = (IF k = 0 THEN c ELSE t + k - 1)
    BY <1>6, <1>7
  <2> HIDE DEF m, c, n, t
  <2>3. /\ r.torecv = r.nread + Len(r.apprecv)
        /\ -1 <= r.toack /\ r.toack < r.torecv
        /\ t <= r.torecv /\ c <= r.toack
    BY <2>1, <2>2
  <2>4. QED
    BY <2>3 DEF c
<1>13. r.torecv <= s
  <2>1. CASE k = 0
    BY <1>0, <1>6, <2>1
  <2>2. CASE k > 0
    <3>1. k \in 1..k /\ k \in 1..Len(q)
      BY <1>0, <2>2
    <3>2. q[k].seq = t + k - 1 /\ q[k].seq <= s - 1
      BY <1>2, <1>3, <3>1
    <3>3. QED
      BY <1>0, <1>6, <3>2
  <2>3. QED
    BY <1>0, <2>1, <2>2
<1>14. QED
  BY <1>6, <1>8, <1>9, <1>10, <1>11, <1>12, <1>13 DEF RecvOK, r, t

\* The first half of mv2_ud_place_recvwin.
LEMMA PlaceProps ==
    ASSUME NEW v \in VCs, NEW p \in Packets, NEW s \in Nat,
           NEW pos \in 1..(Len(v.recvwin) + 1),
           RecvOK(v), v.torecv <= p.seq, p.seq <= v.torecv + RecvWin + 1,
           p.data = p.seq, p.seq < s,
           v.torecv <= s, Within(v.recvwin, 0, s - 1),
           SearchStopsAt(v.recvwin, Wrap(p.seq), Wrap(v.torecv), pos)
    PROVE  /\ Place(v, p, pos) \in VCs
           /\ SameSend(Place(v, p, pos), v)
           /\ Place(v, p, pos).nread = v.nread
           /\ PlacedOK(Place(v, p, pos))
           /\ v.torecv <= Place(v, p, pos).torecv /\ Place(v, p, pos).torecv <= s
           /\ v.toack <= Place(v, p, pos).toack
           /\ Within(Place(v, p, pos).recvwin, 0, s - 1)
<1> DEFINE q == v.recvwin
           a == v.apprecv
           t == v.torecv
           n == p.seq
           c == v.toack
           r == Place(v, p, pos)
<1>0. /\ q \in Seq(Packets) /\ a \in Seq(Packets) /\ t \in Nat /\ c \in Int
      /\ v.nread \in Nat /\ Len(q) \in Nat /\ Len(a) \in Nat
      /\ n \in Int /\ t <= n /\ n <= t + RecvWin + 1 /\ n < s /\ t <= s
  BY VCFields DEF Packets
<1>1. /\ t = v.nread + Len(a) /\ -1 <= c /\ c < t
      /\ Contiguous(a, v.nread) /\ Within(q, t + 1, t + RecvWin + 1) /\ Increasing(q)
  BY DEF RecvOK
<1>2. Wrap(n) = Wrap(t) => n = t
  <2>1. -1 <= n /\ -1 <= t /\ n < t + SeqMod /\ t < n + SeqMod
    <3> HIDE DEF n, t
    <3> QED BY <1>0, WindowSizes
  <2> HIDE DEF n, t
  <2>2. QED
    BY <1>0, <2>1, WrapInjective
<1>3. CASE Wrap(n) = Wrap(t)
  <2>1. n = t
    BY <1>2, <1>3
  <2>2. /\ r = [v EXCEPT !.apprecv = Append(a, p), !.toack = t, !.torecv = t + 1, !.ackNeed = TRUE]
        /\ r.apprecv = Append(a, p) /\ r.toack = t /\ r.torecv = t + 1 /\ r.recvwin = q
        /\ r.nread = v.nread /\ SameSend(r, v)
    BY <1>3 DEF Place, VCs, SameSend
  <2> HIDE DEF r
  <2>3. /\ Append(a, p) \in Seq(Packets) /\ Len(Append(a, p)) = Len(a) + 1
        /\ \A i \in 1..Len(a) : Append(a, p)[i] = a[i]
        /\ Append(a, p)[Len(a) + 1] = p
    BY <1>0, AppendProperties
  <2>4. r \in VCs
    <3>1. t + 1 \in Nat /\ t \in Int
      BY <1>0
    <3>2. QED
      BY <2>2, <2>3, <3>1 DEF VCs
  <2>5. Contiguous(r.apprecv, r.nread)
    <3> SUFFICES ASSUME NEW i \in 1..(Len(a) + 1)
                 PROVE  /\ Append(a, p)[i].seq = v.nread + i - 1
                        /\ Append(a, p)[i].data = Append(a, p)[i].seq
      BY <2>2, <2>3 DEF Contiguous
    <3>1. CASE i \in 1..Len(a)
      BY <1>1, <2>3, <3>1 DEF Contiguous
    <3>2. CASE i = Len(a) + 1
      <4>1. n = v.nread + i - 1
        BY <1>0, <1>1, <2>1, <3>2
      <4>2. QED
        BY <2>3, <3>2, <4>1
    <3>3. i \in 1..Len(a) \/ i = Len(a) + 1
      <4>1. Len(a) \in Nat
        BY <1>0
      <4>2. QED
        BY <4>1, LastOrBefore
    <3>4. QED
      BY <3>1, <3>2, <3>3
  <2>6. Within(r.recvwin, r.torecv, r.torecv + RecvWin + 1)
    <3> SUFFICES ASSUME NEW i \in 1..Len(q)
                 PROVE  /\ t + 1 <= q[i].seq /\ q[i].seq <= (t + 1) + RecvWin + 1
                        /\ q[i].data = q[i].seq
      BY <2>2 DEF Within
    <3>1. q[i].seq \in Int
      BY <1>0, PacketFields
    <3>2. t + 1 <= q[i].seq /\ q[i].seq <= t + RecvWin + 1 /\ q[i].data = q[i].seq
      BY <1>1 DEF Within
    <3> DEFINE y == q[i].seq
    <3>3. y \in Int /\ y <= t + RecvWin + 1
      BY <3>1, <3>2
    <3> HIDE DEF y, t
    <3>4. y <= (t + 1) + RecvWin + 1
      BY <1>0, <3>3, WindowSizes
    <3>5. QED
      BY <3>2, <3>4 DEF y, t
  <2>7. /\ r.torecv = r.nread + Len(r.apprecv) /\ -1 <= r.toack /\ r.toack < r.torecv
        /\ t <= r.torecv /\ r.torecv <= s /\ c <= r.toack
    <3> DEFINE m == Len(a)
               d == v.nread
    <3>1. /\ m \in Nat /\ d \in Nat /\ t = d + m /\ r.torecv = t + 1 /\ r.nread = d
          /\ Len(r.apprecv) = m + 1 /\ r.toack = t /\ c < t /\ n = t
      BY <1>0, <1>1, <2>1, <2>2, <2>3
    <3> HIDE DEF m, d, t, c, n
    <3>2. QED
      BY <1>0, <3>1
  <2>8. QED
    BY <1>1, <2>2, <2>4, <2>5, <2>6, <2>7 DEF PlacedOK, r
<1>4. CASE Wrap(n) # Wrap(t)
  <2> DEFINE z == RecvWindowAdd(q, p, pos)
  <2>1. t < n
    <3>1. n # t
      BY <1>4
    <3> HIDE DEF n, t
    <3>2. QED
      BY <1>0, <3>1
  <2>2. /\ z \in Seq(Packets) /\ Increasing(z)
        /\ \A i \in 1..Len(z) : z[i] = p \/ \E j \in 1..Len(q) : z[i] = q[j]
    BY <1>0, <1>1, <2>1, RecvWindowAddProps
  <2>3. /\ r = [v EXCEPT !.recvwin = z, !.ackNeed = TRUE]
        /\ r.apprecv = a /\ r.toack = c /\ r.torecv = t /\ r.recvwin = z
        /\ r.nread = v.nread /\ SameSend(r, v)
    BY <1>4 DEF Place, VCs, SameSend
  <2> HIDE DEF r, z
  <2>4. r \in VCs
    BY <2>2, <2>3 DEF VCs
  <2>5. Within(r.recvwin, r.torecv, r.torecv + RecvWin + 1) /\ Within(r.recvwin, 0, s - 1)
    <3> SUFFICES ASSUME NEW i \in 1..Len(z)
                 PROVE  /\ t <= z[i].seq /\ z[i].seq <= t + RecvWin + 1
                        /\ 0 <= z[i].seq /\ z[i].seq <= s - 1 /\ z[i].data = z[i].seq
      BY <2>3 DEF Within
    <3>1. CASE z[i] = p
      <4>1. t <= n /\ n <= t + RecvWin + 1 /\ 0 <= n /\ n <= s - 1
        <5> HIDE DEF n, t
        <5> QED BY <1>0
      <4>2. QED
        BY <3>1, <4>1
    <3>2. CASE \E j \in 1..Len(q) : z[i] = q[j]
      <4>1. PICK j \in 1..Len(q) : z[i] = q[j]
        BY <3>2
      <4>2. q[j].seq \in Int
        BY <1>0, PacketFields
      <4>3. /\ t + 1 <= q[j].seq /\ q[j].seq <= t + RecvWin + 1 /\ q[j].data = q[j].seq
            /\ q[j].seq <= s - 1 /\ 0 <= q[j].seq
        BY <1>1 DEF Within
      <4> DEFINE y == q[j].seq
      <4>4. t <= y
        <5>1. y \in Int /\ t + 1 <= y
          BY <4>2, <4>3
        <5> HIDE DEF y, t
        <5> QED BY <1>0, <5>1
      <4>5. QED
        BY <4>1, <4>3, <4>4
    <3>3. QED
      BY <2>2, <3>1, <3>2
  <2>6. c <= c /\ t <= t
    <3> HIDE DEF c, t
    <3> QED BY <1>0
  <2>7. QED
    BY <1>0, <1>1, <2>2, <2>3, <2>4, <2>5, <2>6 DEF PlacedOK, r
<1>5. QED
  BY <1>3, <1>4

\* mv2_ud_place_recvwin: v, that receives from an end which has sent the
\* numbers below s, stays well formed, and its acknowledgement does not go back.
LEMMA PlaceRecvwinProps ==
    ASSUME NEW v \in VCs, NEW p \in Packets, NEW s \in Nat,
           RecvOK(v), 0 <= p.seq, p.seq < s, p.data = p.seq,
           v.torecv <= s, Within(v.recvwin, 0, s - 1),
           v.torecv - p.seq < SeqMod - RecvWin - 1, p.seq - v.torecv < SeqMod,
           NEW w \in PlaceRecvwin(v, p)
    PROVE  /\ w \in VCs /\ SameSend(w, v) /\ w.nread = v.nread
           /\ RecvOK(w)
           /\ v.torecv <= w.torecv /\ w.torecv <= s
           /\ v.toack <= w.toack
           /\ Within(w.recvwin, 0, s - 1)
<1>0. /\ p.seq \in Int /\ v.torecv \in Nat /\ v.toack \in Int /\ -1 <= p.seq
  BY VCFields DEF Packets
<1>1. CASE ~InRecvWin(Wrap(p.seq), Wrap(v.torecv))
  <2>1. w = [v EXCEPT !.ackNeed = TRUE]
    BY <1>1 DEF PlaceRecvwin
  <2>2. w \in VCs /\ SameSend(w, v) /\ SameRecv(w, v)
    BY <2>1 DEF VCs, SameSend, SameRecv
  <2>3. RecvOK(w)
    BY <2>2, SameKeeps
  <2>4. QED
    BY <1>0, <2>2, <2>3 DEF SameRecv
<1>2. CASE InRecvWin(Wrap(p.seq), Wrap(v.torecv))
  <2>1. v.torecv <= p.seq /\ p.seq <= v.torecv + RecvWin + 1
    BY <1>0, <1>2, WindowExact
  <2>2. PICK pos \in 1..(Len(v.recvwin) + 1) :
          /\ SearchStopsAt(v.recvwin, Wrap(p.seq), Wrap(v.torecv), pos)
          /\ \E k \in 0..Len(Place(v, p, pos).recvwin) :
                IsDrainCount(Place(v, p, pos), k) /\ w = Drain(Place(v, p, pos), k)
    BY <1>2 DEF PlaceRecvwin, PlacedAndDrained
  <2> DEFINE u == Place(v, p, pos)
  <2>3. /\ u \in VCs /\ SameSend(u, v) /\ u.nread = v.nread /\ PlacedOK(u)
        /\ v.torecv <= u.torecv /\ u.torecv <= s /\ v.toack <= u.toack
        /\ Within(u.recvwin, 0, s - 1)
    BY <2>1, <2>2, PlaceProps
  <2>4. PICK k \in 0..Len(u.recvwin) : IsDrainCount(u, k) /\ w = Drain(u, k)
    BY <2>2
  <2> HIDE DEF u
  <2>5. /\ w \in VCs /\ SameSend(w, u) /\ w.nread = u.nread /\ RecvOK(w)
        /\ u.torecv <= w.torecv /\ w.torecv <= s /\ u.toack <= w.toack
        /\ Within(w.recvwin, 0, s - 1)
    BY <2>3, <2>4, DrainProps
  <2>6. /\ u.torecv \in Nat /\ w.torecv \in Nat /\ u.toack \in Int /\ w.toack \in Int
    BY <2>3, <2>5, VCFields
  <2>7. v.torecv <= w.torecv /\ v.toack <= w.toack
    <3> DEFINE a == v.torecv
               b == u.torecv
               c == w.torecv
               d == v.toack
               e == u.toack
               f == w.toack
    <3>1. /\ a \in Int /\ b \in Int /\ c \in Int /\ d \in Int /\ e \in Int /\ f \in Int
          /\ a <= b /\ b <= c /\ d <= e /\ e <= f
      BY <1>0, <2>3, <2>5, <2>6
    <3> HIDE DEF a, b, c, d, e, f
    <3>2. a <= c /\ d <= f
      BY <3>1
    <3>3. QED
      BY <3>2 DEF a, c, d, f
  <2>8. SameSend(w, v)
    BY <2>3, <2>5 DEF SameSend
  <2>9. QED
    BY <2>3, <2>5, <2>7, <2>8
<1>3. QED
  BY <1>1, <1>2

-----------------------------------------------------------------------------
(* One step of one end.                                                    *)

\* There are two ends.
LEMMA EndsProps ==
    ASSUME NEW e \in Ends
    PROVE  /\ Peer(e) \in Ends /\ Peer(Peer(e)) = e /\ Peer(e) # e
           /\ \A d \in Ends : d = e \/ d = Peer(e)
BY DEF Ends, Peer

\* w may take the place of vc[e]: it is well formed by itself, continues vc[e],
\* and fits the other end, which does not change.
EndStep(e, w) ==
    /\ w \in VCs
    /\ SendOK(w, Len(tossed'[e])) /\ CoverOK(w, tossed'[e])
    /\ ExtOK(w, written'[e]) /\ RecvOK(w) /\ StreamOK(w, delivered'[e])
    /\ vc[e].tosend <= w.tosend /\ vc[e].torecv <= w.torecv
    /\ vc[e].toack <= w.toack /\ vc[e].acked <= w.acked
    /\ w.torecv <= vc[Peer(e)].tosend
    /\ Within(w.recvwin, 0, vc[Peer(e)].tosend - 1)
    /\ w.acked < vc[Peer(e)].torecv

\* The histories of the other end do not change.
PeerHistories(e) ==
    /\ tossed' \in [Ends -> Seq(Nat)] /\ tossed'[Peer(e)] = tossed[Peer(e)]
    /\ written' \in [Ends -> Nat] /\ written'[Peer(e)] = written[Peer(e)]
    /\ delivered' \in [Ends -> Seq(Nat)] /\ delivered'[Peer(e)] = delivered[Peer(e)]

\* What e puts on the wire agrees with w.
WireStep(e, w) ==
    /\ wire' \in [Ends -> SUBSET Packets]
    /\ wire'[e] \subseteq wire[e]
    /\ \A p \in wire'[Peer(e)] : p \in wire[Peer(e)] \/ PacketOK(p, w)

\* A packet stays well formed when its sender goes on.
LEMMA PacketMono ==
    ASSUME NEW p \in Packets, NEW v \in VCs, NEW w \in VCs,
           PacketOK(p, v), v.tosend <= w.tosend, v.torecv <= w.torecv
    PROVE  PacketOK(p, w)
<1> DEFINE a == v.tosend
           b == w.tosend
           c == v.torecv
           d == w.torecv
           k == p.ack
           n == p.seq
<1>1. a \in Int /\ b \in Int /\ c \in Int /\ d \in Int /\ k \in Int /\ n \in Int /\ a <= b /\ c <= d
  BY VCFields DEF Packets
<1>2. /\ -1 <= k /\ k < c
      /\ p.type # "ACK" => 0 <= n /\ n < a /\ p.data = n
  BY DEF PacketOK
<1>3. k < d /\ (n < a => n < b)
  <2> HIDE DEF a, b, c, d, k, n
  <2> QED BY <1>1, <1>2
<1>4. QED
  BY <1>2, <1>3 DEF PacketOK

\* The invariant after a step of end e.
LEMMA EndStepKeepsIInv ==
    ASSUME IInv, NEW e \in Ends, NEW w, EndStep(e, w), PeerHistories(e),
           WireStep(e, w), vc' = [vc EXCEPT ![e] = w]
    PROVE  IInv'
<1> DEFINE f == Peer(e)
           v == vc[e]
           u == vc[f]
<1>0. /\ f \in Ends /\ Peer(f) = e /\ f # e /\ \A d \in Ends : d = e \/ d = f
  BY EndsProps
<1>1. /\ vc \in [Ends -> VCs] /\ v \in VCs /\ u \in VCs /\ w \in VCs
      /\ wire \in [Ends -> SUBSET Packets]
  BY <1>0 DEF IInv, TypeOK, EndStep
<1>2. vc'[e] = w /\ vc'[f] = u /\ vc' \in [Ends -> VCs]
  BY <1>0, <1>1
<1>3. TypeOK'
  BY <1>2 DEF TypeOK, PeerHistories, WireStep
<1>4. /\ SendOK(u, Len(tossed[f])) /\ CoverOK(u, tossed[f]) /\ ExtOK(u, written[f])
      /\ RecvOK(u) /\ LinkOK(u, v) /\ LinkOK(v, u) /\ StreamOK(u, delivered[f])
      /\ \A p \in wire[f] : PacketOK(p, v)
      /\ \A p \in wire[e] : PacketOK(p, u)
  <2>1. LinkOK(vc[f], vc[Peer(f)]) /\ LinkOK(vc[e], vc[Peer(e)])
    BY <1>0 DEF IInv
  <2>2. \A p \in wire[Peer(f)] : PacketOK(p, vc[f])
    BY <1>0 DEF IInv
  <2>3. QED
    BY <1>0, <2>1, <2>2 DEF IInv
<1>5. /\ v.tosend \in Nat /\ w.tosend \in Nat /\ u.tosend \in Nat
      /\ v.torecv \in Nat /\ w.torecv \in Nat /\ u.torecv \in Nat
      /\ v.acked \in Int /\ w.acked \in Int /\ u.acked \in Int
  BY <1>1, VCFields
<1>6. LinkOK(w, u)
  <2>1. w.acked < u.torecv /\ v.tosend <= w.tosend
    BY DEF EndStep
  <2>2. u.torecv <= v.tosend /\ Within(u.recvwin, 0, v.tosend - 1)
    BY <1>4 DEF LinkOK
  <2>3. u.torecv <= w.tosend
    <3> DEFINE a == u.torecv
               b == v.tosend
               c == w.tosend
    <3>1. a \in Int /\ b \in Int /\ c \in Int /\ a <= b /\ b <= c
      BY <1>5, <2>1, <2>2
    <3> HIDE DEF a, b, c
    <3>2. a <= c
      BY <3>1
    <3>3. QED
      BY <3>2 DEF a, c
  <2>4. Within(u.recvwin, 0, w.tosend - 1)
    <3> SUFFICES ASSUME NEW i \in 1..Len(u.recvwin)
                 PROVE  u.recvwin[i].seq <= w.tosend - 1
      BY <2>2 DEF Within
    <3> DEFINE y == u.recvwin[i].seq
               b == v.tosend
               c == w.tosend
    <3>0. u.recvwin \in Seq(Packets)
      BY <1>1, VCFields
    <3>1. y \in Int
      BY <3>0, PacketFields
    <3>2. y <= b - 1 /\ b \in Int /\ c \in Int /\ b <= c
      BY <1>5, <2>1, <2>2 DEF Within
    <3> HIDE DEF y, b, c
    <3>3. y <= c - 1
      BY <3>1, <3>2
    <3>4. QED
      BY <3>3 DEF y, c
  <2>5. QED
    BY <2>1, <2>3, <2>4 DEF LinkOK
<1>7. LinkOK(u, w)
  <2>1. /\ w.torecv <= u.tosend /\ Within(w.recvwin, 0, u.tosend - 1) /\ v.torecv <= w.torecv
    BY DEF EndStep
  <2>2. u.acked < v.torecv
    BY <1>4 DEF LinkOK
  <2>3. u.acked < w.torecv
    <3> DEFINE a == u.acked
               b == v.torecv
               c == w.torecv
    <3>1. a \in Int /\ b \in Int /\ c \in Int /\ a < b /\ b <= c
      BY <1>5, <2>1, <2>2
    <3> HIDE DEF a, b, c
    <3>2. a < c
      BY <3>1
    <3>3. QED
      BY <3>2 DEF a, c
  <2>4. QED
    BY <2>1, <2>3 DEF LinkOK
<1>8. \A p \in wire'[f] : PacketOK(p, w)
  <2> SUFFICES ASSUME NEW p \in wire'[f], p \in wire[f]
               PROVE  PacketOK(p, w)
    BY DEF WireStep
  <2>1. p \in Packets /\ PacketOK(p, v) /\ v.tosend <= w.tosend /\ v.torecv <= w.torecv
    BY <1>0, <1>1, <1>4 DEF EndStep
  <2>2. QED
    BY <1>1, <2>1, PacketMono
<1>9. \A p \in wire'[e] : PacketOK(p, u)
  BY <1>4 DEF WireStep
<1>10. ASSUME NEW d \in Ends
       PROVE  /\ SendOK(vc'[d], Len(tossed'[d])) /\ CoverOK(vc'[d], tossed'[d])
              /\ ExtOK(vc'[d], written'[d]) /\ RecvOK(vc'[d])
              /\ LinkOK(vc'[d], vc'[Peer(d)])
              /\ \A p \in wire'[Peer(d)] : PacketOK(p, vc'[d])
              /\ StreamOK(vc'[d], delivered'[d])
  <2>1. CASE d = e
    BY <1>2, <1>6, <1>8, <2>1 DEF EndStep
  <2>2. CASE d = f
    BY <1>0, <1>2, <1>4, <1>7, <1>9, <2>2 DEF PeerHistories
  <2>3. QED
    BY <1>0, <2>1, <2>2
<1>11. QED
  BY <1>3, <1>10 DEF IInv

\* What SendAll does to the wire.
LEMMA SendAllProps ==
    ASSUME TypeOK, NEW e \in Ends, NEW w, NEW out \in SUBSET Packets, SendAll(e, out),
           \A p \in out : PacketOK(p, w)
    PROVE  WireStep(e, w)
<1>0. Peer(e) \in Ends /\ Peer(e) # e
  BY EndsProps
<1>1. wire \in [Ends -> SUBSET Packets]
  BY DEF TypeOK
<1> DEFINE sent == {p \in out : HasWriteId(vc[e]) /\ p.type # "CONNECT"}
           new == IF Cardinality(wire[Peer(e)] \cup sent) <= MaxWire
                  THEN wire[Peer(e)] \cup sent ELSE wire[Peer(e)]
<1>2. wire' = [wire EXCEPT ![Peer(e)] = new]
  BY DEF SendAll
<1>3. sent \subseteq out
  OBVIOUS
<1>4. new \subseteq wire[Peer(e)] \cup out
  <2> HIDE DEF sent
  <2> QED BY <1>3
<1> HIDE DEF new, sent
<1>5. wire'[e] = wire[e] /\ wire'[Peer(e)] = new
  BY <1>0, <1>1, <1>2
<1>6. new \in SUBSET Packets
  BY <1>0, <1>1, <1>4
<1>7. wire' \in [Ends -> SUBSET Packets]
  BY <1>1, <1>2, <1>6
<1>8. QED
  BY <1>4, <1>5, <1>7 DEF WireStep

\* Facts about end e and its peer that every step starts from.
LEMMA EndFacts ==
    ASSUME IInv, NEW e \in Ends
    PROVE  /\ TypeOK
           /\ vc[e] \in VCs /\ vc[Peer(e)] \in VCs
           /\ tossed[e] \in Seq(Nat) /\ Len(tossed[e]) \in Nat
           /\ written[e] \in Nat /\ delivered[e] \in Seq(Nat)
           /\ SendOK(vc[e], Len(tossed[e])) /\ CoverOK(vc[e], tossed[e])
           /\ ExtOK(vc[e], written[e]) /\ RecvOK(vc[e]) /\ StreamOK(vc[e], delivered[e])
           /\ vc[e].acked < vc[Peer(e)].torecv
           /\ vc[Peer(e)].torecv <= vc[e].tosend
           /\ vc[Peer(e)].acked < vc[e].torecv
           /\ vc[e].torecv <= vc[Peer(e)].tosend
           /\ Within(vc[e].recvwin, 0, vc[Peer(e)].tosend - 1)
           /\ \A p \in wire[e] : p \in Packets /\ PacketOK(p, vc[Peer(e)])
<1>0. Peer(e) \in Ends /\ Peer(Peer(e)) = e
  BY EndsProps
<1>1. TypeOK
  BY DEF IInv
<1>2. /\ vc[e] \in VCs /\ vc[Peer(e)] \in VCs /\ tossed[e] \in Seq(Nat)
      /\ written[e] \in Nat /\ delivered[e] \in Seq(Nat) /\ wire[e] \subseteq Packets
  BY <1>0, <1>1 DEF TypeOK
<1>3. LinkOK(vc[e], vc[Peer(e)]) /\ LinkOK(vc[Peer(e)], vc[e])
  BY <1>0 DEF IInv
<1>4. \A p \in wire[e] : PacketOK(p, vc[Peer(e)])
  BY <1>0 DEF IInv
<1>5. QED
  BY <1>1, <1>2, <1>3, <1>4 DEF IInv, LinkOK

\* The part of ud_process_recv that comes before a packet is placed: the
\* acknowledgement it carries, and the extended window.
LEMMA AckStep ==
    ASSUME IInv, NEW e \in Ends, NEW p \in wire[e], Fresh(e, p),
           NEW n \in 0..Len(vc[e].sendwin), IsAckedCount(vc[e], p.ack, n)
    PROVE  LET v == RemoveAcked(vc[e], p.ack, n)
               f == FlushExtWindow(v)
           IN  /\ v \in VCs /\ f \in VCs /\ SameRecv(f, vc[e])
               /\ SendOK(f, Len(tossed[e])) /\ CoverOK(f, tossed[e]) /\ ExtOK(f, written[e])
               /\ vc[e].tosend <= f.tosend /\ vc[e].acked <= f.acked
               /\ f.acked < vc[Peer(e)].torecv /\ Fed(f)
               /\ PostedPackets(v, FlushSeq(v)) \subseteq Packets
               /\ \A a \in PostedPackets(v, FlushSeq(v)) :
                     a.ack = vc[e].toack /\ 0 <= a.seq /\ a.seq < f.tosend /\ a.data = a.seq
<1> DEFINE v == RemoveAcked(vc[e], p.ack, n)
           f == FlushExtWindow(v)
           u == vc[Peer(e)]
           t == Len(tossed[e])
<1>1. /\ vc[e] \in VCs /\ u \in VCs /\ t \in Nat /\ written[e] \in Nat
      /\ SendOK(vc[e], t) /\ CoverOK(vc[e], tossed[e]) /\ ExtOK(vc[e], written[e])
      /\ vc[e].acked < u.torecv /\ u.torecv <= vc[e].tosend
      /\ p \in Packets /\ PacketOK(p, u)
  BY EndFacts
<1>2. /\ p.ack \in Int /\ -1 <= p.ack /\ p.ack < u.torecv /\ vc[e].tosend - p.ack < SeqMod
      /\ vc[e].tosend \in Nat /\ vc[e].acked \in Int /\ u.torecv \in Nat
  BY <1>1, VCFields DEF Packets, PacketOK, Fresh
<1>3. p.ack < vc[e].tosend
  <2> DEFINE k == p.ack
             b == vc[e].tosend
             c == u.torecv
  <2>1. k \in Int /\ b \in Int /\ c \in Int /\ k < c /\ c <= b
    BY <1>1, <1>2
  <2> HIDE DEF k, b, c
  <2>2. k < b
    BY <2>1
  <2>3. QED
    BY <2>2 DEF k, b
<1>4. /\ SameRecv(v, vc[e]) /\ v.tosend = vc[e].tosend /\ v.extwin = vc[e].extwin
      /\ v \in VCs /\ v.acked = (IF p.ack > vc[e].acked THEN p.ack ELSE vc[e].acked)
      /\ SendOK(v, t) /\ CoverOK(v, tossed[e])
  <2> DEFINE y == vc[e]
             k == p.ack
  <2>1. /\ y \in VCs /\ t \in Nat /\ k \in Int /\ n \in 0..Len(y.sendwin)
        /\ SendOK(y, t) /\ CoverOK(y, tossed[e])
        /\ -1 <= k /\ k < y.tosend /\ y.tosend - k < SeqMod /\ IsAckedCount(y, k, n)
    BY <1>1, <1>2, <1>3
  <2>2. v = RemoveAcked(y, k, n)
    OBVIOUS
  <2> HIDE DEF t, y, k, v
  <2>3. /\ SameRecv(v, y) /\ v.tosend = y.tosend /\ v.extwin = y.extwin
        /\ v \in VCs /\ v.acked = (IF k > y.acked THEN k ELSE y.acked)
        /\ SendOK(v, t) /\ CoverOK(v, tossed[e])
    BY <2>1, <2>2, RemoveAckedProps
  <2>4. QED
    BY <2>3 DEF y, k
<1> HIDE DEF v
<1>5. ExtOK(v, written[e])
  BY <1>1, <1>4 DEF ExtOK
<1>6. /\ f \in VCs /\ SameRecv(f, v) /\ f.tosend = v.tosend + FlushCount(v) /\ f.acked = v.acked
      /\ SendOK(f, t) /\ CoverOK(f, tossed[e]) /\ ExtOK(f, written[e]) /\ Fed(f)
  <2> HIDE DEF t
  <2> QED BY <1>1, <1>4, <1>5, FlushProps
<1> HIDE DEF f
<1>7. /\ FlushCount(v) \in Nat /\ FlushSeq(v) \in Seq(Nat) /\ Len(FlushSeq(v)) = FlushCount(v)
      /\ Numbered(FlushSeq(v), v.tosend)
  <2>1. Len(v.sendwin) <= SendWin + 1
    BY <1>4 DEF SendOK
  <2>2. FlushCount(v) \in 0..Len(v.extwin)
    BY <1>4, <1>5, <2>1, FlushSeqProps
  <2>3. QED
    BY <1>4, <1>5, <2>1, <2>2, FlushSeqProps
<1>8. vc[e].tosend <= f.tosend
  BY <1>2, <1>4, <1>6, <1>7
<1>9. vc[e].acked <= f.acked /\ f.acked < u.torecv
  <2> DEFINE k == p.ack
             b == vc[e].acked
             c == u.torecv
  <2>1. k \in Int /\ b \in Int /\ c \in Int /\ k < c /\ b < c
        /\ f.acked = (IF k > b THEN k ELSE b)
    BY <1>1, <1>2, <1>4, <1>6
  <2> HIDE DEF k, b, c
  <2>2. b <= f.acked /\ f.acked < c
    BY <2>1
  <2>3. QED
    BY <2>2 DEF b, c
<1>10. ASSUME NEW a \in PostedPackets(v, FlushSeq(v))
       PROVE  /\ a \in Packets /\ a.ack = vc[e].toack /\ 0 <= a.seq /\ a.seq < f.tosend
              /\ a.data = a.seq
  <2>1. /\ a \in Packets /\ a.ack = v.toack /\ v.tosend <= a.seq
        /\ a.seq < v.tosend + Len(FlushSeq(v)) /\ a.data = a.seq
    BY <1>4, <1>7, PostedProps
  <2>2. v.toack = vc[e].toack /\ v.tosend \in Nat /\ a.seq \in Int
    BY <1>2, <1>4, <2>1 DEF SameRecv, Packets
  <2>3. 0 <= a.seq
    BY <2>1, <2>2
  <2>4. QED
    BY <1>6, <1>7, <2>1, <2>2, <2>3
<1>11. SameRecv(f, vc[e])
  BY <1>4, <1>6 DEF SameRecv
<1>12. QED
  BY <1>4, <1>6, <1>8, <1>9, <1>10, <1>11 DEF v, f

\* Packets that carry the acknowledgement of vc[e] and numbers of w.
LEMMA OutOK ==
    ASSUME NEW v \in VCs, NEW w \in VCs, NEW a \in Packets,
           -1 <= v.toack, v.toack < v.torecv, v.torecv <= w.torecv, a.ack = v.toack,
           a.type # "ACK" => 0 <= a.seq /\ a.seq < w.tosend /\ a.data = a.seq
    PROVE  PacketOK(a, w)
<1> DEFINE k == v.toack
           b == v.torecv
           c == w.torecv
<1>1. k \in Int /\ b \in Int /\ c \in Int /\ k < b /\ b <= c
  BY VCFields
<1>2. k < c
  <2> HIDE DEF k, b, c
  <2> QED BY <1>1
<1>3. QED
  BY <1>2 DEF PacketOK

\* The number of a packet that arrives is less than a turn ahead.
LEMMA NotAhead ==
    ASSUME IInv, NEW e \in Ends, NEW p \in wire[e], p.type # "ACK"
    PROVE  /\ 0 <= p.seq /\ p.seq < vc[Peer(e)].tosend /\ p.data = p.seq
           /\ p.seq - vc[e].torecv < SeqMod
<1> DEFINE u == vc[Peer(e)]
           f == Peer(e)
<1>0. f \in Ends
  BY EndsProps
<1>1. /\ u \in VCs /\ vc[e] \in VCs /\ u.acked < vc[e].torecv /\ p \in Packets /\ PacketOK(p, u)
  BY EndFacts
<1>2. /\ SendOK(u, Len(tossed[f])) /\ Len(tossed[f]) \in Nat
  BY <1>0, EndFacts
<1>3. /\ 0 <= p.seq /\ p.seq < u.tosend /\ p.data = p.seq /\ p.seq \in Int
  BY <1>1 DEF PacketOK, Packets
<1>4. p.seq - vc[e].torecv < SeqMod
  <2> DEFINE a == u.acked
             b == u.tosend
             c == vc[e].torecv
             m == Len(u.sendwin)
             t == Len(tossed[f])
             n == p.seq
  <2>1. /\ a \in Int /\ b \in Int /\ c \in Int /\ m \in Nat /\ t \in Nat /\ n \in Int
        /\ a < c /\ n < b /\ b - 1 - a <= m + t /\ m <= SendWin + 1 /\ t <= MaxToss
    <3>1. a \in Int /\ b \in Int /\ c \in Int /\ m \in Nat
      BY <1>1, VCFields
    <3>2. b - 1 - a <= m + t /\ m <= SendWin + 1 /\ t <= MaxToss
      BY <1>2 DEF SendOK
    <3>3. QED
      BY <1>1, <1>2, <1>3, <3>1, <3>2
  <2> HIDE DEF a, b, c, m, t, n
  <2>2. n - c < SeqMod
    BY <2>1, WindowSizes
  <2>3. QED
    BY <2>2 DEF n, c
<1>5. QED
  BY <1>3, <1>4

-----------------------------------------------------------------------------
(* The actions.                                                            *)

\* cq_poll and ud_process_recv.
LEMMA ProcessRecvStep ==
    ASSUME IInv, NEW e \in Ends, ProcessRecv(e)
    PROVE  \E w : Fed(w) /\ EndStep(e, w) /\ PeerHistories(e) /\ WireStep(e, w) /\ vc' = [vc EXCEPT ![e] = w]
<1> DEFINE u == vc[Peer(e)]
<1>0. /\ TypeOK /\ vc[e] \in VCs /\ u \in VCs
      /\ RecvOK(vc[e]) /\ StreamOK(vc[e], delivered[e])
      /\ vc[e].torecv <= u.tosend /\ Within(vc[e].recvwin, 0, u.tosend - 1)
  BY EndFacts
<1>1. tossed' = tossed /\ written' = written /\ delivered' = delivered /\ PeerHistories(e)
  BY <1>0 DEF ProcessRecv, PeerHistories, TypeOK
<1>2. PICK p \in wire[e] : Fresh(e, p) /\ (RecvAck(e, p) \/ RecvAccept(e, p) \/ RecvData(e, p))
  BY DEF ProcessRecv
<1>3. PICK n \in 0..Len(vc[e].sendwin) : IsAckedCount(vc[e], p.ack, n) /\
         LET v == RemoveAcked(vc[e], p.ack, n)
             f == FlushExtWindow(v)
             x == IF AckDue(f) THEN SendAck(f) ELSE CountPending(f)
             out == PostedPackets(v, FlushSeq(v))
         IN  \/ /\ p.type = "ACK"
                /\ vc' = [vc EXCEPT ![e] = f] /\ SendAll(e, out)
             \/ /\ p.type = "ACCEPT"
                /\ \E w \in PlaceRecvwin(f, p) : vc' = [vc EXCEPT ![e] = w]
                /\ SendAll(e, out)
             \/ /\ p.type = "DATA"
                /\ \E w \in PlaceRecvwin(x, p) : vc' = [vc EXCEPT ![e] = w]
                /\ SendAll(e, out \cup {a \in {AckPacket(f)} : AckDue(f)})
  <2>1. CASE RecvAck(e, p)
    BY <2>1 DEF RecvAck
  <2>2. CASE RecvAccept(e, p)
    BY <2>2 DEF RecvAccept
  <2>3. CASE RecvData(e, p)
    BY <2>3 DEF RecvData
  <2>4. QED
    BY <1>2, <2>1, <2>2, <2>3
<1> DEFINE v == RemoveAcked(vc[e], p.ack, n)
           f == FlushExtWindow(v)
           x == IF AckDue(f) THEN SendAck(f) ELSE CountPending(f)
           out == PostedPackets(v, FlushSeq(v))
<1>4. /\ v \in VCs /\ f \in VCs /\ SameRecv(f, vc[e])
      /\ SendOK(f, Len(tossed[e])) /\ CoverOK(f, tossed[e]) /\ ExtOK(f, written[e])
      /\ vc[e].tosend <= f.tosend /\ vc[e].acked <= f.acked
      /\ f.acked < u.torecv /\ Fed(f)
      /\ out \subseteq Packets
      /\ \A a \in out : a.ack = vc[e].toack /\ 0 <= a.seq /\ a.seq < f.tosend /\ a.data = a.seq
  BY <1>2, <1>3, AckStep
<1>5. \/ /\ p.type = "ACK"
         /\ vc' = [vc EXCEPT ![e] = f] /\ SendAll(e, out)
      \/ /\ p.type = "ACCEPT"
         /\ \E w \in PlaceRecvwin(f, p) : vc' = [vc EXCEPT ![e] = w]
         /\ SendAll(e, out)
      \/ /\ p.type = "DATA"
         /\ \E w \in PlaceRecvwin(x, p) : vc' = [vc EXCEPT ![e] = w]
         /\ SendAll(e, out \cup {a \in {AckPacket(f)} : AckDue(f)})
  BY <1>3
<1> HIDE DEF v, f, out
<1>6. /\ vc[e].torecv \in Nat /\ vc[e].toack \in Int /\ u.tosend \in Nat
      /\ -1 <= vc[e].toack /\ vc[e].toack < vc[e].torecv
  BY <1>0, VCFields DEF RecvOK
<1>7. /\ RecvOK(f) /\ f.torecv = vc[e].torecv /\ f.toack = vc[e].toack
      /\ f.recvwin = vc[e].recvwin /\ f.nread = vc[e].nread
  BY <1>0, <1>4, SameKeeps DEF SameRecv
\* A vc_t that keeps f's sending side and continues f's receiving side.
<1>8. ASSUME NEW w \in VCs, SameSend(w, f), w.nread = f.nread, RecvOK(w),
             f.torecv <= w.torecv, w.torecv <= u.tosend, f.toack <= w.toack,
             Within(w.recvwin, 0, u.tosend - 1)
      PROVE  Fed(w) /\ EndStep(e, w)
  <2>1. SendOK(w, Len(tossed[e])) /\ CoverOK(w, tossed[e]) /\ ExtOK(w, written[e])
    BY <1>4, <1>8, SameKeeps
  <2>2. StreamOK(w, delivered[e])
    BY <1>0, <1>7, <1>8 DEF StreamOK
  <2>3. w.tosend = f.tosend /\ w.acked = f.acked /\ Fed(w)
    BY <1>4, <1>8 DEF SameSend, Fed
  <2>4. QED
    BY <1>1, <1>4, <1>7, <1>8, <2>1, <2>2, <2>3 DEF EndStep
<1>9. ASSUME NEW w \in VCs, w.tosend = f.tosend, vc[e].torecv <= w.torecv, NEW a \in out
      PROVE  PacketOK(a, w)
  <2>1. a \in Packets /\ a.ack = vc[e].toack /\ 0 <= a.seq /\ a.seq < w.tosend /\ a.data = a.seq
    BY <1>4, <1>9
  <2>2. QED
    BY <1>0, <1>6, <1>9, <2>1, OutOK
<1>10. CASE /\ p.type = "ACK"
            /\ vc' = [vc EXCEPT ![e] = f] /\ SendAll(e, out)
  <2>1. f.torecv <= f.torecv /\ f.toack <= f.toack /\ SameSend(f, f)
    BY <1>6, <1>7 DEF SameSend
  <2>2. Fed(f) /\ EndStep(e, f)
    BY <1>0, <1>4, <1>7, <1>8, <2>1
  <2>3. \A a \in out : PacketOK(a, f)
    BY <1>4, <1>7, <1>9, <2>1
  <2>4. WireStep(e, f)
    BY <1>0, <1>4, <1>10, <2>3, SendAllProps
  <2>5. QED
    BY <1>1, <1>10, <2>2, <2>4
<1>11. CASE /\ p.type = "ACCEPT"
            /\ \E w \in PlaceRecvwin(f, p) : vc' = [vc EXCEPT ![e] = w]
            /\ SendAll(e, out)
  <2>1. PICK w \in PlaceRecvwin(f, p) : vc' = [vc EXCEPT ![e] = w]
    BY <1>11
  <2>2. /\ 0 <= p.seq /\ p.seq < u.tosend /\ p.data = p.seq /\ p.seq - f.torecv < SeqMod
        /\ f.torecv - p.seq < SeqMod - RecvWin - 1 /\ p \in Packets
    BY <1>2, <1>7, <1>11, NotAhead, EndFacts DEF Fresh
  <2>3. /\ w \in VCs /\ SameSend(w, f) /\ w.nread = f.nread /\ RecvOK(w)
        /\ f.torecv <= w.torecv /\ w.torecv <= u.tosend /\ f.toack <= w.toack
        /\ Within(w.recvwin, 0, u.tosend - 1)
    BY <1>0, <1>4, <1>6, <1>7, <2>2, PlaceRecvwinProps
  <2>4. Fed(w) /\ EndStep(e, w)
    BY <1>8, <2>3
  <2>5. \A a \in out : PacketOK(a, w)
    BY <1>7, <1>9, <2>3 DEF SameSend
  <2>6. WireStep(e, w)
    BY <1>0, <1>4, <1>11, <2>5, SendAllProps
  <2>7. QED
    BY <1>1, <2>1, <2>4, <2>6
<1>12. CASE /\ p.type = "DATA"
            /\ \E w \in PlaceRecvwin(x, p) : vc' = [vc EXCEPT ![e] = w]
            /\ SendAll(e, out \cup {a \in {AckPacket(f)} : AckDue(f)})
  <2>0. x \in VCs /\ SameSend(x, f) /\ SameRecv(x, f)
    <3>1. SendAck(f) \in VCs /\ SameSend(SendAck(f), f) /\ SameRecv(SendAck(f), f)
      BY <1>4 DEF SendAck, VCs, SameSend, SameRecv
    <3>2. CountPending(f) \in VCs /\ SameSend(CountPending(f), f) /\ SameRecv(CountPending(f), f)
      <4>1. f.ackPending + 1 \in Nat
        BY <1>4, VCFields
      <4>2. QED
        BY <1>4, <4>1 DEF CountPending, VCs, SameSend, SameRecv
    <3>3. QED
      BY <3>1, <3>2
  <2> HIDE DEF x
  <2>1. PICK w \in PlaceRecvwin(x, p) : vc' = [vc EXCEPT ![e] = w]
    BY <1>12
  <2>a. /\ RecvOK(x) /\ x.torecv = f.torecv /\ x.toack = f.toack
        /\ x.recvwin = f.recvwin /\ x.nread = f.nread
    BY <1>7, <2>0, SameKeeps DEF SameRecv
  <2>2. /\ 0 <= p.seq /\ p.seq < u.tosend /\ p.data = p.seq /\ p.seq - x.torecv < SeqMod
        /\ x.torecv - p.seq < SeqMod - RecvWin - 1 /\ p \in Packets
    BY <1>2, <1>7, <1>12, <2>a, NotAhead, EndFacts DEF Fresh
  <2>3. /\ w \in VCs /\ SameSend(w, x) /\ w.nread = x.nread /\ RecvOK(w)
        /\ x.torecv <= w.torecv /\ w.torecv <= u.tosend /\ x.toack <= w.toack
        /\ Within(w.recvwin, 0, u.tosend - 1)
    BY <1>0, <1>6, <1>7, <2>0, <2>a, <2>2, PlaceRecvwinProps
  <2>b. SameSend(w, f) /\ w.tosend = f.tosend
    BY <2>0, <2>3 DEF SameSend
  <2>4. Fed(w) /\ EndStep(e, w)
    BY <1>8, <2>3, <2>a, <2>b
  <2>5. \A a \in out : PacketOK(a, w)
    BY <1>7, <1>9, <2>3, <2>a, <2>b
  <2>6. AckPacket(f) \in Packets /\ AckPacket(f).type = "ACK" /\ AckPacket(f).ack = vc[e].toack
    BY <1>6, <1>7 DEF AckPacket, Packets, PacketTypes
  <2>7. PacketOK(AckPacket(f), w)
    BY <1>0, <1>6, <1>7, <2>3, <2>6, <2>a, OutOK
  <2> DEFINE all == out \cup {a \in {AckPacket(f)} : AckDue(f)}
  <2>8. all \subseteq Packets /\ \A a \in all : PacketOK(a, w)
    BY <1>4, <2>5, <2>6, <2>7
  <2>9. WireStep(e, w)
    BY <1>0, <1>12, <2>8, SendAllProps
  <2>10. QED
    BY <1>1, <2>1, <2>4, <2>9
<1>13. QED
  BY <1>5, <1>10, <1>11, <1>12

\* w differs from vc[e] only in fields IInv says nothing of.
LEMMA QuietEndStep ==
    ASSUME IInv, NEW e \in Ends, NEW w \in VCs,
           SendOK(w, Len(tossed'[e])), CoverOK(w, tossed'[e]), ExtOK(w, written'[e]),
           w.tosend = vc[e].tosend \/ w.tosend = vc[e].tosend + 1, w.acked = vc[e].acked,
           SameRecv(w, vc[e]), delivered' = delivered
    PROVE  EndStep(e, w)
<1>1. /\ vc[e] \in VCs /\ RecvOK(vc[e]) /\ StreamOK(vc[e], delivered[e])
      /\ vc[e].acked < vc[Peer(e)].torecv /\ vc[e].torecv <= vc[Peer(e)].tosend
      /\ Within(vc[e].recvwin, 0, vc[Peer(e)].tosend - 1)
  BY EndFacts
<1>2. vc[e].tosend \in Nat /\ vc[e].torecv \in Nat /\ vc[e].toack \in Int /\ vc[e].acked \in Int
  BY <1>1, VCFields
<1>3. RecvOK(w) /\ w.torecv = vc[e].torecv /\ w.toack = vc[e].toack
      /\ w.recvwin = vc[e].recvwin /\ w.nread = vc[e].nread
  BY <1>1, SameKeeps DEF SameRecv
<1>4. StreamOK(w, delivered'[e])
  BY <1>1, <1>3 DEF StreamOK
<1>5. /\ vc[e].tosend <= w.tosend /\ vc[e].torecv <= w.torecv
      /\ vc[e].toack <= w.toack /\ vc[e].acked <= w.acked
  BY <1>2, <1>3
<1>6. QED
  BY <1>1, <1>3, <1>4, <1>5 DEF EndStep

\* spawn_net_write_ib and ud_post_send.
LEMMA WriteStep ==
    ASSUME IInv, NEW e \in Ends, Write(e)
    PROVE  \E w : EndStep(e, w) /\ PeerHistories(e) /\ WireStep(e, w) /\ vc' = [vc EXCEPT ![e] = w]
<1> DEFINE v == vc[e]
           n == written[e] + 1
<1>0. /\ TypeOK /\ v \in VCs /\ written[e] \in Nat /\ Len(tossed[e]) \in Nat
      /\ SendOK(v, Len(tossed[e])) /\ CoverOK(v, tossed[e]) /\ ExtOK(v, written[e]) /\ RecvOK(v)
  BY EndFacts
<1>1. /\ tossed' = tossed /\ delivered' = delivered /\ written'[e] = n /\ n \in Nat
      /\ PeerHistories(e)
  BY <1>0, EndsProps DEF Write, PeerHistories, TypeOK
<1>2. /\ v.tosend \in Nat /\ v.toack \in Int /\ v.torecv \in Nat /\ v.acked \in Int
      /\ v.extwin \in Seq(Nat) /\ v.sendwin \in Seq(Items) /\ Len(v.extwin) \in Nat
      /\ -1 <= v.toack /\ v.toack < v.torecv
      /\ written[e] = v.tosend - 1 + Len(v.extwin)
  BY <1>0, VCFields DEF RecvOK, ExtOK
<1>3. CASE MayPost(v)
  <2> DEFINE w == PostSend(v, << n >>)
  <2>0. vc' = [vc EXCEPT ![e] = w] /\ SendAll(e, PostedPackets(v, << n >>))
    BY <1>3 DEF Write
  <2>1. v.extwin = << >> /\ Len(v.sendwin) <= SendWin
    BY <1>3 DEF MayPost
  <2>2. n = v.tosend
    BY <1>2, <2>1
  <2>3. << n >> \in Seq(Nat) /\ Len(<< n >>) = 1 /\ Numbered(<< n >>, v.tosend)
    BY <1>1, <1>2, <2>2 DEF Numbered
  <2>4. Len(v.sendwin) + Len(<< n >>) <= SendWin + 1
    <3> DEFINE l == Len(v.sendwin)
               d == Len(<< n >>)
    <3>1. l \in Nat /\ l <= SendWin /\ d = 1
      BY <1>2, <2>1, <2>3
    <3> HIDE DEF l, d
    <3>2. l + d <= SendWin + 1
      BY <3>1, WindowSizes
    <3>3. QED
      BY <3>2 DEF l, d
  <2>5. /\ w \in VCs /\ SameRecv(w, v) /\ w.tosend = v.tosend + 1 /\ w.extwin = v.extwin
        /\ w.acked = v.acked /\ SendOK(w, Len(tossed[e])) /\ CoverOK(w, tossed[e])
    <3> DEFINE ds == << n >>
               t == Len(tossed[e])
               y == vc[e]
    <3>1. /\ ds \in Seq(Nat) /\ Len(ds) = 1 /\ Numbered(ds, y.tosend) /\ t \in Nat
          /\ Len(y.sendwin) + Len(ds) <= SendWin + 1
          /\ y \in VCs /\ SendOK(y, t) /\ CoverOK(y, tossed[e]) /\ w = PostSend(y, ds)
      BY <1>0, <2>3, <2>4
    <3> HIDE DEF ds, t, y, w
    <3>2. /\ w \in VCs /\ SameRecv(w, y) /\ w.tosend = y.tosend + Len(ds) /\ w.extwin = y.extwin
          /\ w.acked = y.acked /\ SendOK(w, t) /\ CoverOK(w, tossed[e])
      BY <3>1, PostSendProps
    <3>3. QED
      BY <3>1, <3>2 DEF y, t
  <2> HIDE DEF w
  <2>6. ExtOK(w, n)
    <3>1. w.extwin = << >> /\ Len(w.extwin) = 0 /\ n = w.tosend - 1 + 0
      BY <1>2, <2>1, <2>2, <2>5
    <3>2. QED
      BY <3>1 DEF ExtOK
  <2>7. EndStep(e, w)
    BY <1>1, <2>5, <2>6, QuietEndStep
  <2>8. ASSUME NEW a \in PostedPackets(v, << n >>)
        PROVE  a \in Packets /\ PacketOK(a, w)
    <3>1. /\ a \in Packets /\ a.ack = v.toack /\ v.tosend <= a.seq
          /\ a.seq < v.tosend + Len(<< n >>) /\ a.data = a.seq
      BY <1>0, <2>3, PostedProps
    <3>2. /\ 0 <= a.seq /\ a.seq < w.tosend /\ v.torecv <= w.torecv
      <4>1. a.seq \in Int
        BY <3>1 DEF Packets
      <4>2. w.torecv = v.torecv
        BY <2>5 DEF SameRecv
      <4>3. QED
        BY <1>2, <2>3, <2>5, <3>1, <4>1, <4>2
    <3>3. QED
      BY <1>0, <1>2, <2>5, <3>1, <3>2, OutOK
  <2>9. WireStep(e, w)
    BY <1>0, <2>0, <2>8, SendAllProps
  <2>10. QED
    BY <1>1, <2>0, <2>7, <2>9
<1>4. CASE ~MayPost(v)
  <2> DEFINE w == [v EXCEPT !.extwin = Append(v.extwin, n)]
  <2>0. vc' = [vc EXCEPT ![e] = w] /\ wire' = wire
    BY <1>0, <1>4 DEF Write, TypeOK
  <2>1. /\ Append(v.extwin, n) \in Seq(Nat) /\ Len(Append(v.extwin, n)) = Len(v.extwin) + 1
        /\ \A i \in 1..Len(v.extwin) : Append(v.extwin, n)[i] = v.extwin[i]
        /\ Append(v.extwin, n)[Len(v.extwin) + 1] = n
    BY <1>1, <1>2, AppendProperties
  <2>2. /\ w \in VCs /\ SameRecv(w, v) /\ w.tosend = v.tosend /\ w.acked = v.acked
        /\ w.sendwin = v.sendwin /\ w.extwin = Append(v.extwin, n)
    BY <1>0, <2>1 DEF VCs, SameRecv
  <2> HIDE DEF w
  <2>3. SendOK(w, Len(tossed[e])) /\ CoverOK(w, tossed[e])
    BY <1>0, <2>2 DEF SendOK, CoverOK
  <2>4. ExtOK(w, n)
    <3>1. n = w.tosend - 1 + Len(w.extwin)
      <4> DEFINE b == v.tosend
                 m == Len(v.extwin)
                 k == written[e]
      <4>1. /\ b \in Nat /\ m \in Nat /\ k \in Nat /\ k = b - 1 + m
            /\ w.tosend = b /\ Len(w.extwin) = m + 1 /\ n = k + 1
        BY <1>0, <1>2, <2>1, <2>2
      <4> HIDE DEF b, m, k, n
      <4>2. QED
        BY <4>1
    <3>2. ASSUME NEW i \in 1..(Len(v.extwin) + 1)
          PROVE  Append(v.extwin, n)[i] = v.tosend + i - 1
      <4>1. CASE i \in 1..Len(v.extwin)
        BY <1>0, <2>1, <4>1 DEF ExtOK
      <4>2. CASE i = Len(v.extwin) + 1
        BY <1>2, <2>1, <4>2
      <4>3. QED
        BY <1>2, <4>1, <4>2
    <3>3. QED
      BY <2>1, <2>2, <3>1, <3>2 DEF ExtOK
  <2>5. EndStep(e, w)
    BY <1>1, <2>2, <2>3, <2>4, QuietEndStep
  <2>6. WireStep(e, w)
    BY <1>0, <2>0 DEF WireStep, TypeOK
  <2>7. QED
    BY <1>1, <2>0, <2>5, <2>6
<1>5. QED
  BY <1>3, <1>4

\* recv_accept_message and spawn_net_read_ib.
LEMMA ReadStep ==
    ASSUME IInv, NEW e \in Ends, Read(e)
    PROVE  \E w : EndStep(e, w) /\ PeerHistories(e) /\ WireStep(e, w) /\ vc' = [vc EXCEPT ![e] = w]
<1> DEFINE v == vc[e]
           a == v.apprecv
           w == [v EXCEPT !.apprecv = Tail(a), !.nread = v.nread + 1]
           d == delivered[e]
<1>0. /\ TypeOK /\ v \in VCs /\ d \in Seq(Nat) /\ StreamOK(v, d)
      /\ SendOK(v, Len(tossed[e])) /\ CoverOK(v, tossed[e]) /\ ExtOK(v, written[e]) /\ RecvOK(v)
      /\ v.acked < vc[Peer(e)].torecv /\ v.torecv <= vc[Peer(e)].tosend
      /\ Within(v.recvwin, 0, vc[Peer(e)].tosend - 1)
  BY EndFacts
<1>1. /\ a # << >> /\ vc' = [vc EXCEPT ![e] = w] /\ wire' = wire /\ tossed' = tossed
      /\ written' = written
      /\ delivered' = IF v.nread > 0 THEN [delivered EXCEPT ![e] = Append(d, a[1].data)] ELSE delivered
  BY <1>0 DEF Read, HasWriteId, TypeOK
<1>2. /\ a \in Seq(Packets) /\ v.nread \in Nat /\ v.torecv \in Nat /\ Len(a) \in Nat
      /\ v.toack \in Int /\ v.acked \in Int /\ v.tosend \in Nat
  BY <1>0, VCFields
<1>3. /\ Len(a) > 0 /\ Tail(a) \in Seq(Packets) /\ Len(Tail(a)) = Len(a) - 1
      /\ \A i \in 1..(Len(a) - 1) : Tail(a)[i] = a[i + 1]
  <2> HIDE DEF a
  <2>1. Len(a) # 0
    BY <1>1, <1>2, EmptySeq
  <2>2. QED
    BY <1>1, <1>2, <2>1, HeadTailProperties
<1>4. /\ w \in VCs /\ SameSend(w, v) /\ w.apprecv = Tail(a) /\ w.nread = v.nread + 1
      /\ w.torecv = v.torecv /\ w.toack = v.toack /\ w.recvwin = v.recvwin
  <2>1. v.nread + 1 \in Nat
    BY <1>2
  <2>2. QED
    BY <1>0, <1>3, <2>1 DEF VCs, SameSend
<1>5. /\ v.torecv = v.nread + Len(a) /\ Contiguous(a, v.nread)
      /\ -1 <= v.toack /\ v.toack < v.torecv
      /\ Within(v.recvwin, v.torecv + 1, v.torecv + RecvWin + 1) /\ Increasing(v.recvwin)
  BY <1>0 DEF RecvOK
<1>6. a[1].data = v.nread /\ a[1].data \in Nat
  <2>1. 1 \in 1..Len(a)
    BY <1>2, <1>3
  <2>2. a[1].seq = v.nread + 1 - 1 /\ a[1].data = a[1].seq
    BY <1>5, <2>1 DEF Contiguous
  <2>3. QED
    BY <1>2, <2>2
<1> HIDE DEF w
<1>7. RecvOK(w)
  <2>1. w.torecv = w.nread + Len(w.apprecv)
    BY <1>2, <1>3, <1>4, <1>5
  <2>2. ASSUME NEW i \in 1..(Len(a) - 1)
        PROVE  Tail(a)[i].seq = (v.nread + 1) + i - 1 /\ Tail(a)[i].data = Tail(a)[i].seq
    <3>1. i + 1 \in 1..Len(a) /\ v.nread + (i + 1) - 1 = (v.nread + 1) + i - 1
      <4> DEFINE l == Len(a)
                 n == v.nread
      <4>1. l \in Nat /\ n \in Nat /\ i \in 1..(l - 1)
        BY <1>2
      <4> HIDE DEF l, n
      <4>2. i + 1 \in 1..l /\ n + (i + 1) - 1 = (n + 1) + i - 1
        BY <4>1
      <4>3. QED
        BY <4>2 DEF l, n
    <3>2. a[i + 1].seq = v.nread + (i + 1) - 1 /\ a[i + 1].data = a[i + 1].seq
      BY <1>5, <3>1 DEF Contiguous
    <3>3. QED
      BY <1>3, <3>1, <3>2
  <2>3. Contiguous(w.apprecv, w.nread)
    BY <1>3, <1>4, <2>2 DEF Contiguous
  <2>4. QED
    BY <1>4, <1>5, <2>1, <2>3 DEF RecvOK
<1>8. delivered' \in [Ends -> Seq(Nat)] /\ delivered'[Peer(e)] = delivered[Peer(e)]
      /\ delivered'[e] = IF v.nread > 0 THEN Append(d, a[1].data) ELSE d
  <2>1. delivered \in [Ends -> Seq(Nat)] /\ Peer(e) # e /\ Peer(e) \in Ends
    BY <1>0, EndsProps DEF TypeOK
  <2>2. Append(d, a[1].data) \in Seq(Nat)
    BY <1>0, <1>6
  <2>3. QED
    BY <1>1, <2>1, <2>2
<1>9. StreamOK(w, delivered'[e])
  <2>1. CASE v.nread > 0
    <3>1. Len(d) = v.nread - 1 /\ \A i \in 1..Len(d) : d[i] = i
      BY <1>0, <1>2, <2>1 DEF StreamOK
    <3>2. /\ Len(Append(d, v.nread)) = Len(d) + 1
          /\ \A i \in 1..Len(d) : Append(d, v.nread)[i] = d[i]
          /\ Append(d, v.nread)[Len(d) + 1] = v.nread
      BY <1>0, <1>2, AppendProperties
    <3>3. delivered'[e] = Append(d, v.nread)
      BY <1>6, <1>8, <2>1
    <3>4. /\ Len(delivered'[e]) = IF w.nread = 0 THEN 0 ELSE w.nread - 1
      BY <1>2, <1>4, <3>1, <3>2, <3>3
    <3>5. ASSUME NEW i \in 1..Len(delivered'[e])
          PROVE  delivered'[e][i] = i
      <4>1. CASE i \in 1..Len(d)
        BY <3>1, <3>2, <3>3, <4>1
      <4>2. CASE i = Len(d) + 1
        BY <1>2, <3>1, <3>2, <3>3, <4>2
      <4>3. QED
        BY <1>0, <3>2, <3>3, <4>1, <4>2
    <3>6. QED
      BY <3>4, <3>5 DEF StreamOK
  <2>2. CASE ~(v.nread > 0)
    <3>1. v.nread = 0 /\ w.nread = 1 /\ delivered'[e] = d
      BY <1>2, <1>4, <1>8, <2>2
    <3>2. QED
      BY <1>0, <3>1 DEF StreamOK
  <2>3. QED
    BY <2>1, <2>2
<1>10. SendOK(w, Len(tossed[e])) /\ CoverOK(w, tossed[e]) /\ ExtOK(w, written[e])
  BY <1>0, <1>4, SameKeeps
<1>11. EndStep(e, w)
  <2>1. /\ v.tosend <= w.tosend /\ v.torecv <= w.torecv /\ v.toack <= w.toack
        /\ v.acked <= w.acked /\ w.acked = v.acked
    BY <1>2, <1>4 DEF SameSend
  <2>2. QED
    BY <1>0, <1>1, <1>4, <1>7, <1>9, <1>10, <2>1 DEF EndStep
<1>12. PeerHistories(e)
  BY <1>0, <1>1, <1>8 DEF PeerHistories, TypeOK
<1>13. WireStep(e, w)
  BY <1>0, <1>1 DEF WireStep, TypeOK
<1>14. QED
  BY <1>1, <1>11, <1>12, <1>13

\* ud_check_acks and ud_send_ack.
LEMMA CheckAcksStep ==
    ASSUME IInv, NEW e \in Ends, CheckAcks(e)
    PROVE  \E w : EndStep(e, w) /\ PeerHistories(e) /\ WireStep(e, w) /\ vc' = [vc EXCEPT ![e] = w]
<1> DEFINE v == vc[e]
           w == SendAck(v)
<1>0. /\ TypeOK /\ v \in VCs /\ RecvOK(v)
      /\ SendOK(v, Len(tossed[e])) /\ CoverOK(v, tossed[e]) /\ ExtOK(v, written[e])
  BY EndFacts
<1>1. /\ vc' = [vc EXCEPT ![e] = w] /\ SendAll(e, {AckPacket(v)})
      /\ tossed' = tossed /\ written' = written /\ delivered' = delivered /\ PeerHistories(e)
  BY <1>0 DEF CheckAcks, PeerHistories, TypeOK
<1>2. w \in VCs /\ SameSend(w, v) /\ SameRecv(w, v)
  BY <1>0 DEF SendAck, VCs, SameSend, SameRecv
<1> HIDE DEF w
<1>3. SendOK(w, Len(tossed[e])) /\ CoverOK(w, tossed[e]) /\ ExtOK(w, written[e])
  BY <1>0, <1>2, SameKeeps
<1>4. EndStep(e, w)
  BY <1>1, <1>2, <1>3, QuietEndStep DEF SameSend
<1>5. v.toack \in Int /\ v.torecv \in Nat /\ -1 <= v.toack /\ v.toack < v.torecv /\ v.torecv <= w.torecv
  BY <1>0, <1>2, VCFields DEF RecvOK, SameRecv
<1>6. AckPacket(v) \in Packets /\ AckPacket(v).type = "ACK" /\ AckPacket(v).ack = v.toack
  BY <1>5 DEF AckPacket, Packets, PacketTypes
<1>7. PacketOK(AckPacket(v), w)
  BY <1>0, <1>2, <1>5, <1>6, OutOK
<1>8. WireStep(e, w)
  BY <1>0, <1>1, <1>6, <1>7, SendAllProps
<1>9. QED
  BY <1>1, <1>4, <1>8

\* ud_resend.
LEMMA ResendStep ==
    ASSUME IInv, NEW e \in Ends, NEW i \in 1..Len(vc[e].sendwin), Resend(e, i)
    PROVE  \E w : EndStep(e, w) /\ PeerHistories(e) /\ WireStep(e, w) /\ vc' = [vc EXCEPT ![e] = w]
<1> DEFINE v == vc[e]
           q == v.sendwin
           m == IF Patient THEN q[i].retry ELSE q[i].retry + 1
           z == [q EXCEPT ![i] = [q[i] EXCEPT !.retry = m]]
           w == [v EXCEPT !.sendwin = z, !.ackNeed = FALSE]
<1>0. /\ TypeOK /\ v \in VCs /\ RecvOK(v)
      /\ SendOK(v, Len(tossed[e])) /\ CoverOK(v, tossed[e]) /\ ExtOK(v, written[e])
  BY EndFacts
<1>1. /\ vc' = [vc EXCEPT ![e] = w] /\ SendAll(e, {Packet(q[i], v.toack)})
      /\ tossed' = tossed /\ written' = written /\ delivered' = delivered /\ PeerHistories(e)
  BY <1>0 DEF Resend, PeerHistories, TypeOK, VCs
<1>2. /\ q \in Seq(Items) /\ q[i] \in Items /\ q[i].type \in PacketTypes /\ q[i].seq \in Nat
      /\ q[i].data \in Nat /\ q[i].retry \in Nat /\ Len(q) \in Nat
  BY <1>0, VCFields, ItemFields
<1>3. m \in Nat
  BY <1>2
<1> HIDE DEF m
<1>4. /\ z \in Seq(Items) /\ Len(z) = Len(q)
      /\ \A j \in 1..Len(q) : z[j].seq = q[j].seq /\ z[j].data = q[j].data /\ z[j].type = q[j].type
  <2>1. [q[i] EXCEPT !.retry = m] \in Items
    BY <1>2, <1>3 DEF Items
  <2>2. /\ [q[i] EXCEPT !.retry = m].seq = q[i].seq /\ [q[i] EXCEPT !.retry = m].data = q[i].data
        /\ [q[i] EXCEPT !.retry = m].type = q[i].type
    BY <1>2 DEF Items
  <2>3. z \in Seq(Items) /\ Len(z) = Len(q) /\ \A j \in 1..Len(q) : j # i => z[j] = q[j]
    BY <1>2, <2>1, ExceptSeq
  <2>4. z[i] = [q[i] EXCEPT !.retry = m]
    BY <1>2
  <2>5. QED
    BY <2>2, <2>3, <2>4
<1> HIDE DEF z
<1>5. /\ w \in VCs /\ SameRecv(w, v) /\ w.sendwin = z /\ w.tosend = v.tosend
      /\ w.acked = v.acked /\ w.extwin = v.extwin
  BY <1>0, <1>4 DEF VCs, SameRecv
<1> HIDE DEF w
<1>6. SendOK(w, Len(tossed[e]))
  <2>1. Increasing(z)
    BY <1>0, <1>4 DEF SendOK, Increasing
  <2>2. QED
    BY <1>0, <1>4, <1>5, <2>1 DEF SendOK
<1>7. CoverOK(w, tossed[e])
  <2> SUFFICES ASSUME NEW s \in (v.acked + 1)..(v.tosend - 1),
                      ~ \E j \in 1..Len(tossed[e]) : tossed[e][j] = s
               PROVE  \E j \in 1..Len(z) : z[j].seq = s
    BY <1>5 DEF CoverOK
  <2>1. PICK j \in 1..Len(q) : q[j].seq = s
    BY <1>0 DEF CoverOK
  <2>2. j \in 1..Len(z) /\ z[j].seq = s
    BY <1>4, <2>1
  <2>3. QED
    BY <2>2
<1>8. ExtOK(w, written[e])
  BY <1>0, <1>5 DEF ExtOK
<1>9. EndStep(e, w)
  BY <1>1, <1>5, <1>6, <1>7, <1>8, QuietEndStep
<1>10. v.toack \in Int /\ v.torecv \in Nat /\ -1 <= v.toack /\ v.toack < v.torecv /\ v.torecv <= w.torecv
  BY <1>0, <1>5, VCFields DEF RecvOK, SameRecv
<1> DEFINE a == Packet(q[i], v.toack)
<1>11. a \in Packets /\ a.ack = v.toack /\ a.seq = q[i].seq /\ a.data = q[i].data
  BY <1>2, <1>10 DEF Packet, Packets
<1>12. 0 <= a.seq /\ a.seq < w.tosend /\ a.data = a.seq
  <2>1. q[i].seq < v.tosend /\ q[i].data = q[i].seq
    BY <1>0 DEF SendOK
  <2>2. QED
    BY <1>2, <1>5, <1>11, <2>1
<1>13. PacketOK(a, w)
  BY <1>0, <1>5, <1>10, <1>11, <1>12, OutOK
<1>14. WireStep(e, w)
  BY <1>0, <1>1, <1>11, <1>13, SendAllProps
<1>15. QED
  BY <1>1, <1>9, <1>14

\* ud_toss_packet.
LEMMA TossStep ==
    ASSUME IInv, NEW e \in Ends, NEW k \in 1..Len(vc[e].sendwin), Toss(e, k)
    PROVE  \E w : EndStep(e, w) /\ PeerHistories(e) /\ WireStep(e, w) /\ vc' = [vc EXCEPT ![e] = w]
<1> DEFINE v == vc[e]
           q == v.sendwin
           z == RemoveAt(q, k)
           w == [v EXCEPT !.sendwin = z]
           ts == tossed[e]
           ts2 == Append(ts, q[k].seq)
<1>0. /\ TypeOK /\ v \in VCs /\ RecvOK(v) /\ ts \in Seq(Nat) /\ Len(ts) \in Nat
      /\ SendOK(v, Len(ts)) /\ CoverOK(v, ts) /\ ExtOK(v, written[e])
  BY EndFacts
<1>1. /\ q \in Seq(Items) /\ Len(q) \in Nat /\ k \in Int /\ 1 <= k /\ k <= Len(q)
      /\ \A i \in 1..Len(q) : q[i].seq \in Nat
  <2>1. q \in Seq(Items) /\ Len(q) \in Nat
    BY <1>0, VCFields
  <2>2. \A i \in 1..Len(q) : q[i].seq \in Nat
    BY <2>1, ItemFields
  <2>3. QED
    BY <2>1, <2>2
<1>2. /\ vc' = [vc EXCEPT ![e] = w] /\ Len(ts) < MaxToss /\ wire' = wire
      /\ tossed' = [tossed EXCEPT ![e] = ts2] /\ written' = written /\ delivered' = delivered
  BY <1>0 DEF Toss, TypeOK, VCs
<1>3. /\ ts2 \in Seq(Nat) /\ Len(ts2) = Len(ts) + 1 /\ ts2[Len(ts) + 1] = q[k].seq
      /\ \A i \in 1..Len(ts) : ts2[i] = ts[i]
  BY <1>0, <1>1, AppendProperties
<1> HIDE DEF ts2
<1>4. tossed' \in [Ends -> Seq(Nat)] /\ tossed'[e] = ts2 /\ PeerHistories(e)
  BY <1>0, <1>2, <1>3, EndsProps DEF TypeOK, PeerHistories
<1>5. /\ z \in Seq(Items) /\ Len(z) = Len(q) - 1
      /\ \A i \in 1..(Len(q) - 1) : z[i] = IF i < k THEN q[i] ELSE q[i + 1]
  BY <1>1, RemoveProps
<1> HIDE DEF z
<1>6. /\ w \in VCs /\ SameRecv(w, v) /\ w.sendwin = z /\ w.tosend = v.tosend
      /\ w.acked = v.acked /\ w.extwin = v.extwin
  BY <1>0, <1>5 DEF VCs, SameRecv
<1> HIDE DEF w
<1>7. Increasing(z)
  <2> SUFFICES ASSUME NEW i \in 1..(Len(q) - 1), NEW j \in 1..(Len(q) - 1), i < j
               PROVE  z[i].seq + (j - i) <= z[j].seq
    BY <1>5 DEF Increasing
  <2>0. /\ \A a, b \in 1..Len(q) : a < b => q[a].seq + (b - a) <= q[b].seq
    BY <1>0 DEF SendOK, Increasing
  <2>1. CASE j < k
    <3>1. z[i] = q[i] /\ z[j] = q[j] /\ i \in 1..Len(q) /\ j \in 1..Len(q)
      BY <1>1, <1>5, <2>1
    <3>2. QED
      BY <2>0, <3>1
  <2>2. CASE i < k /\ ~(j < k)
    <3>1. z[i] = q[i] /\ z[j] = q[j + 1] /\ i \in 1..Len(q) /\ j + 1 \in 1..Len(q) /\ i < j + 1
      BY <1>1, <1>5, <2>2
    <3>2. q[i].seq + ((j + 1) - i) <= q[j + 1].seq
      BY <2>0, <3>1
    <3>3. q[i].seq \in Nat /\ q[j + 1].seq \in Nat
      BY <1>1, <3>1
    <3> DEFINE x == q[i].seq
               y == q[j + 1].seq
    <3>4. x \in Nat /\ y \in Nat /\ i \in Int /\ j \in Int /\ x + ((j + 1) - i) <= y
      BY <3>2, <3>3
    <3> HIDE DEF x, y
    <3>5. x + (j - i) <= y
      BY <3>4
    <3>6. QED
      BY <3>1, <3>5 DEF x, y
  <2>3. CASE ~(i < k)
    <3>1. z[i] = q[i + 1] /\ z[j] = q[j + 1] /\ i + 1 \in 1..Len(q) /\ j + 1 \in 1..Len(q)
          /\ i + 1 < j + 1 /\ (j + 1) - (i + 1) = j - i
      BY <1>1, <1>5, <2>3
    <3>2. q[i + 1].seq + ((j + 1) - (i + 1)) <= q[j + 1].seq
      BY <2>0, <3>1
    <3>3. QED
      BY <3>1, <3>2
  <2>4. QED
    BY <2>1, <2>2, <2>3
<1>8. \A i \in 1..(Len(q) - 1) : \E j \in 1..Len(q) : z[i] = q[j]
  <2> SUFFICES ASSUME NEW i \in 1..(Len(q) - 1)
               PROVE  \E j \in 1..Len(q) : z[i] = q[j]
    OBVIOUS
  <2>1. i \in 1..Len(q) /\ i + 1 \in 1..Len(q)
    BY <1>1
  <2>2. QED
    BY <1>5, <2>1
<1>9. SendOK(w, Len(ts2))
  <2>1. /\ -1 <= v.acked /\ v.acked < v.tosend /\ Len(q) <= SendWin + 1
        /\ v.tosend - 1 - v.acked <= Len(q) + Len(ts) /\ v.acked \in Int /\ v.tosend \in Nat
    BY <1>0, VCFields DEF SendOK
  <2>2. /\ Len(z) <= SendWin + 1 /\ Len(ts2) <= MaxToss
        /\ v.tosend - 1 - v.acked <= Len(z) + Len(ts2)
    <3> DEFINE a == v.acked
               b == v.tosend
               c == Len(q)
               d == Len(ts)
    <3>1. /\ a \in Int /\ b \in Int /\ c \in Nat /\ d \in Nat /\ Len(z) = c - 1
          /\ Len(ts2) = d + 1 /\ d < MaxToss /\ c <= SendWin + 1 /\ b - 1 - a <= c + d
      <4>1. Len(z) = c - 1 /\ c \in Nat
        BY <1>1, <1>5
      <4>2. Len(ts2) = d + 1 /\ d < MaxToss /\ d \in Nat
        BY <1>0, <1>2, <1>3
      <4>3. a \in Int /\ b \in Int
        BY <2>1
      <4>4. c <= SendWin + 1 /\ b - 1 - a <= c + d
        BY <2>1
      <4> HIDE DEF a, b, c, d
      <4>5. QED
        BY <4>1, <4>2, <4>3, <4>4
    <3> HIDE DEF a, b, c, d
    <3>2. Len(z) <= SendWin + 1 /\ Len(ts2) <= MaxToss /\ b - 1 - a <= Len(z) + Len(ts2)
      BY <3>1, WindowSizes
    <3>3. QED
      BY <3>2 DEF a, b
  <2>3. ASSUME NEW i \in 1..Len(z)
        PROVE  /\ v.acked < z[i].seq /\ z[i].seq < v.tosend
               /\ z[i].data = z[i].seq /\ z[i].type # "ACK"
    <3>1. PICK j \in 1..Len(q) : z[i] = q[j]
      BY <1>5, <1>8
    <3>2. QED
      BY <1>0, <3>1 DEF SendOK
  <2>4. QED
    BY <1>6, <1>7, <2>1, <2>2, <2>3 DEF SendOK
<1>10. CoverOK(w, ts2)
  <2> SUFFICES ASSUME NEW s \in (v.acked + 1)..(v.tosend - 1)
               PROVE  \/ \E i \in 1..Len(z) : z[i].seq = s
                      \/ \E i \in 1..Len(ts2) : ts2[i] = s
    BY <1>6 DEF CoverOK
  <2>1. CASE \E i \in 1..Len(ts) : ts[i] = s
    <3>1. PICK i \in 1..Len(ts) : ts[i] = s
      BY <2>1
    <3>2. i \in 1..Len(ts2) /\ ts2[i] = ts[i]
      BY <1>0, <1>3
    <3>3. QED
      BY <3>1, <3>2
  <2>2. CASE \E i \in 1..Len(q) : q[i].seq = s
    <3>1. PICK i \in 1..Len(q) : q[i].seq = s
      BY <2>2
    <3>2. CASE i = k
      <4>1. Len(ts) + 1 \in 1..Len(ts2) /\ ts2[Len(ts) + 1] = s
        BY <1>0, <1>3, <3>1, <3>2
      <4>2. QED
        BY <4>1
    <3>3. CASE i < k
      <4>1. i \in 1..Len(z) /\ z[i] = q[i]
        BY <1>1, <1>5, <3>3
      <4>2. QED
        BY <3>1, <4>1
    <3>4. CASE k < i
      <4>1. i - 1 \in 1..Len(z) /\ z[i - 1] = q[(i - 1) + 1] /\ (i - 1) + 1 = i
        BY <1>1, <1>5, <3>4
      <4>2. QED
        BY <3>1, <4>1
    <3>5. QED
      BY <1>1, <3>2, <3>3, <3>4
  <2>3. QED
    BY <1>0, <2>1, <2>2 DEF CoverOK
<1>11. ExtOK(w, written[e])
  BY <1>0, <1>6 DEF ExtOK
<1>12. EndStep(e, w)
  BY <1>2, <1>4, <1>6, <1>9, <1>10, <1>11, QuietEndStep
<1>13. WireStep(e, w)
  BY <1>0, <1>2 DEF WireStep, TypeOK
<1>14. QED
  BY <1>2, <1>4, <1>12, <1>13

\* The fabric loses a packet, or nothing happens.
LEMMA LoseStep ==
    ASSUME IInv, NEW e \in Ends, Lose(e)
    PROVE  IInv'
<1>1. /\ vc' = vc /\ tossed' = tossed /\ written' = written /\ delivered' = delivered
  BY DEF Lose
<1>2. TypeOK /\ wire \in [Ends -> SUBSET Packets]
  BY DEF IInv, TypeOK
<1>3. PICK p \in wire[e] : wire' = [wire EXCEPT ![e] = @ \ {p}]
  BY DEF Lose
<1>4. wire' \in [Ends -> SUBSET Packets] /\ \A d \in Ends : wire'[d] \subseteq wire[d]
  BY <1>2, <1>3
<1>5. TypeOK'
  BY <1>1, <1>2, <1>4 DEF TypeOK
<1>6. \A d \in Ends : wire'[Peer(d)] \subseteq wire[Peer(d)]
  BY <1>4, EndsProps
<1>7. QED
  BY <1>1, <1>5, <1>6 DEF IInv

-----------------------------------------------------------------------------
(* The theorems.                                                           *)

\* Every step is a step of one end, or touches no vc_t and no history.
LEMMA NextIsEndStep ==
    ASSUME IInv, Next
    PROVE  \/ \E e \in Ends : \E w :
                 EndStep(e, w) /\ PeerHistories(e) /\ WireStep(e, w) /\ vc' = [vc EXCEPT ![e] = w]
           \/ \E e \in Ends : Lose(e)
<1>1. PICK e \in Ends : \/ ProcessRecv(e) \/ Write(e) \/ Read(e)
                        \/ CheckAcks(e) \/ CheckResend(e) \/ Lose(e)
  BY DEF Next
<1>2. CASE ProcessRecv(e)
  BY <1>2, ProcessRecvStep
<1>3. CASE Write(e)
  BY <1>3, WriteStep
<1>4. CASE Read(e)
  BY <1>4, ReadStep
<1>5. CASE CheckAcks(e)
  BY <1>5, CheckAcksStep
<1>6. CASE CheckResend(e)
  <2>1. PICK i \in 1..Len(vc[e].sendwin) : Resend(e, i) \/ Toss(e, i)
    BY <1>6 DEF CheckResend
  <2>2. CASE Resend(e, i)
    BY <2>2, ResendStep
  <2>3. CASE Toss(e, i)
    BY <2>3, TossStep
  <2>4. QED
    BY <2>1, <2>2, <2>3
<1>7. CASE Lose(e)
  BY <1>7
<1>8. QED
  BY <1>1, <1>2, <1>3, <1>4, <1>5, <1>6, <1>7

\* The handshake leaves the two ends as IInv says.
LEMMA InitIInv == Init => IInv
<1> SUFFICES ASSUME Init
             PROVE  IInv
  OBVIOUS
<1>0. Ends = {"conn", "acpt"} /\ Peer("conn") = "acpt" /\ Peer("acpt") = "conn"
  BY DEF Ends, Peer
<1> DEFINE first(e) == Item(IF e = "acpt" THEN "ACCEPT" ELSE "CONNECT", 0, 0)
<1>1. ASSUME NEW e \in Ends
      PROVE  /\ vc[e] = InitialVC(e) /\ tossed[e] = << >> /\ written[e] = 0 /\ delivered[e] = << >>
             /\ vc[e].tosend = 1 /\ vc[e].torecv = (IF e = "acpt" THEN 1 ELSE 0)
             /\ vc[e].toack = -1 /\ vc[e].sendwin = << first(e) >> /\ vc[e].extwin = << >>
             /\ vc[e].recvwin = << >> /\ vc[e].apprecv = << >>
             /\ vc[e].nread = (IF e = "acpt" THEN 1 ELSE 0) /\ vc[e].acked = -1
  BY DEF Init, InitialVC
<1>2. ASSUME NEW e \in Ends
      PROVE  /\ first(e) \in Items /\ first(e).seq = 0 /\ first(e).data = 0 /\ first(e).type # "ACK"
             /\ << first(e) >> \in Seq(Items) /\ Len(<< first(e) >>) = 1 /\ << first(e) >>[1] = first(e)
  <2>1. /\ first(e) \in Items /\ first(e).seq = 0 /\ first(e).data = 0 /\ first(e).type # "ACK"
    BY DEF Item, Items, PacketTypes
  <2> HIDE DEF first
  <2>2. QED
    BY <2>1
<1>3. ASSUME NEW e \in Ends
      PROVE  vc[e] \in VCs
  <2>2. /\ << >> \in Seq(Nat) /\ << >> \in Seq(Packets) /\ 0 \in Nat /\ 1 \in Nat /\ -1 \in Int
        /\ FALSE \in BOOLEAN
    OBVIOUS
  <2>3. InitialVC(e) \in VCs
    <3> DEFINE x == << Item(IF e = "acpt" THEN "ACCEPT" ELSE "CONNECT", 0, 0) >>
    <3>1. x \in Seq(Items)
      BY <1>2
    <3> HIDE DEF x
    <3>2. InitialVC(e) =
             [tosend |-> 1, torecv |-> IF e = "acpt" THEN 1 ELSE 0, toack |-> -1,
              ackNeed |-> FALSE, ackPending |-> 0, sendwin |-> x, extwin |-> << >>,
              recvwin |-> << >>, apprecv |-> << >>,
              nread |-> IF e = "acpt" THEN 1 ELSE 0, acked |-> -1]
      BY DEF InitialVC, x
    <3>3. QED
      BY <2>2, <3>1, <3>2 DEF VCs
  <2>4. QED
    BY <1>1, <2>3
<1>4. vc = [e \in Ends |-> vc[e]] /\ DOMAIN vc = Ends
  BY DEF Init
<1>5. vc \in [Ends -> VCs]
  BY <1>3, <1>4
<1>6. wire["acpt"] = {} /\ wire["conn"] = {Packet(first("acpt"), -1)}
      /\ wire = [e \in Ends |-> IF e = "conn" THEN {Packet(first("acpt"), -1)} ELSE {}]
  BY <1>0, <1>1 DEF Init, InitialVC
<1>7. /\ Packet(first("acpt"), -1) \in Packets
      /\ Packet(first("acpt"), -1).ack = -1 /\ Packet(first("acpt"), -1).seq = 0
      /\ Packet(first("acpt"), -1).data = 0
  BY <1>0, <1>2 DEF Packet, Packets, Items
<1>8. TypeOK
  <2>1. wire \in [Ends -> SUBSET Packets]
    BY <1>6, <1>7
  <2>2. /\ tossed \in [Ends -> Seq(Nat)] /\ written \in [Ends -> Nat]
        /\ delivered \in [Ends -> Seq(Nat)]
    BY DEF Init
  <2>3. QED
    BY <1>5, <2>1, <2>2 DEF TypeOK
<1> HIDE DEF first
<1>9. ASSUME NEW e \in Ends
      PROVE  /\ SendOK(vc[e], Len(tossed[e])) /\ CoverOK(vc[e], tossed[e])
             /\ ExtOK(vc[e], written[e]) /\ RecvOK(vc[e])
             /\ LinkOK(vc[e], vc[Peer(e)]) /\ StreamOK(vc[e], delivered[e])
             /\ \A p \in wire[Peer(e)] : PacketOK(p, vc[e])
  <2>0. Peer(e) \in Ends
    BY EndsProps
  <2>1. SendOK(vc[e], Len(tossed[e]))
    <3>1. Len(tossed[e]) = 0 /\ Len(vc[e].sendwin) = 1
      BY <1>1, <1>2
    <3>2. \A i \in 1..1 : i = 1
      OBVIOUS
    <3>3. Increasing(vc[e].sendwin)
      BY <3>1, <3>2 DEF Increasing
    <3>4. \A i \in 1..Len(vc[e].sendwin) :
            /\ -1 < vc[e].sendwin[i].seq /\ vc[e].sendwin[i].seq < 1
            /\ vc[e].sendwin[i].data = vc[e].sendwin[i].seq /\ vc[e].sendwin[i].type # "ACK"
      BY <1>1, <1>2, <3>1, <3>2
    <3>5. -1 <= -1 /\ -1 < 1 /\ 1 <= SendWin + 1 /\ 0 <= MaxToss /\ 1 - 1 - (-1) <= 1 + 0
      BY WindowSizes
    <3>6. QED
      BY <1>1, <3>1, <3>3, <3>4, <3>5 DEF SendOK
  <2>2. CoverOK(vc[e], tossed[e])
    <3>1. \A s \in (-1 + 1)..(1 - 1) : s = 0
      OBVIOUS
    <3>2. 1 \in 1..Len(vc[e].sendwin) /\ vc[e].sendwin[1].seq = 0
      BY <1>1, <1>2
    <3>3. QED
      BY <1>1, <3>1, <3>2 DEF CoverOK
  <2>3. ExtOK(vc[e], written[e])
    BY <1>1 DEF ExtOK
  <2>4. RecvOK(vc[e])
    BY <1>1 DEF RecvOK, Contiguous, Within, Increasing
  <2>5. LinkOK(vc[e], vc[Peer(e)])
    BY <1>1, <2>0 DEF LinkOK, Within
  <2>6. StreamOK(vc[e], delivered[e])
    BY <1>1 DEF StreamOK
  <2>7. ASSUME NEW p \in wire[Peer(e)]
        PROVE  PacketOK(p, vc[e])
    <3>1. e = "acpt" /\ p = Packet(first("acpt"), -1)
      BY <1>0, <1>6
    <3>2. QED
      BY <1>1, <1>7, <3>1 DEF PacketOK
  <2>8. QED
    BY <2>1, <2>2, <2>3, <2>4, <2>5, <2>6, <2>7
<1>10. QED
  BY <1>8, <1>9 DEF IInv

\* IInv is inductive.
THEOREM InductiveInvariant == Spec => []IInv
<1>1. IInv /\ [Next]_vars => IInv'
  <2> SUFFICES ASSUME IInv, [Next]_vars
               PROVE  IInv'
    OBVIOUS
  <2>1. CASE Next
    <3>1. CASE \E e \in Ends : Lose(e)
      BY <3>1, LoseStep
    <3>2. CASE \E e \in Ends : \E w :
                 EndStep(e, w) /\ PeerHistories(e) /\ WireStep(e, w) /\ vc' = [vc EXCEPT ![e] = w]
      BY <3>2, EndStepKeepsIInv
    <3>3. QED
      BY <2>1, <3>1, <3>2, NextIsEndStep
  <2>2. CASE UNCHANGED vars
    BY <2>2 DEF vars, IInv, TypeOK
  <2>3. QED
    BY <2>1, <2>2
<1>2. QED
  BY <1>1, InitIInv, PTL DEF Spec

\* Every field of both vc_t structures keeps its type.
THEOREM TypeCorrect == Spec => []TypeOK
<1>1. IInv => TypeOK
  BY DEF IInv
<1>2. QED
  BY <1>1, InductiveInvariant, PTL

\* What the reads of end e have returned, from IInv.
LEMMA DeliveredFacts ==
    ASSUME IInv, NEW e \in Ends
    PROVE  /\ Len(delivered[e]) <= written[Peer(e)]
           /\ \A i \in 1..Len(delivered[e]) : delivered[e][i] = i
<1> DEFINE v == vc[e]
           u == vc[Peer(e)]
<1>0. Peer(e) \in Ends
  BY EndsProps
<1>1. v \in VCs /\ u \in VCs /\ RecvOK(v) /\ StreamOK(v, delivered[e]) /\ v.torecv <= u.tosend
  BY EndFacts
<1>2. ExtOK(u, written[Peer(e)]) /\ written[Peer(e)] \in Nat
  BY <1>0, EndFacts
<1>3. Len(delivered[e]) <= written[Peer(e)]
  <2> DEFINE a == v.nread
             b == Len(v.apprecv)
             c == v.torecv
             d == u.tosend
             x == Len(u.extwin)
             n == written[Peer(e)]
  <2>1. a \in Nat /\ b \in Nat /\ c \in Nat /\ d \in Nat /\ x \in Nat /\ n \in Nat
    BY <1>1, <1>2, VCFields
  <2>2. c = a + b /\ c <= d /\ n = d - 1 + x /\ Len(delivered[e]) = IF a = 0 THEN 0 ELSE a - 1
    BY <1>1, <1>2 DEF RecvOK, ExtOK, StreamOK
  <2> HIDE DEF a, b, c, d, x, n
  <2>3. Len(delivered[e]) <= n
    BY <2>1, <2>2
  <2>4. QED
    BY <2>3 DEF n
<1>4. QED
  BY <1>1, <1>3 DEF StreamOK

\* A read returns the next packet the peer wrote, whatever the fabric does, for
\* every size of the windows and every number of sequence numbers.
THEOREM StreamIsReliable == Spec => []InOrderExactlyOnce
<1>1. IInv => InOrderExactlyOnce
  BY DeliveredFacts DEF InOrderExactlyOnce
<1>2. QED
  BY <1>1, InductiveInvariant, PTL

\* No packet leaves the send window before the peer has it in order, except by
\* ud_toss_packet.
THEOREM AcksAreTrue == Spec => []NoFalseAck
<1>1. IInv => NoFalseAck
  <2> SUFFICES ASSUME IInv, NEW e \in Ends, NEW s \in 0..(vc[e].tosend - 1)
               PROVE  \/ \E i \in 1..Len(vc[e].sendwin) : vc[e].sendwin[i].seq = s
                      \/ s < vc[Peer(e)].torecv
                      \/ \E i \in 1..Len(tossed[e]) : tossed[e][i] = s
    BY DEF NoFalseAck
  <2> DEFINE a == vc[e].acked
             b == vc[Peer(e)].torecv
             c == vc[e].tosend
  <2>1. /\ vc[e] \in VCs /\ vc[Peer(e)] \in VCs /\ CoverOK(vc[e], tossed[e]) /\ a < b
    BY EndFacts
  <2>2. a \in Int /\ b \in Int /\ c \in Int
    BY <2>1, VCFields
  <2>3. CASE s <= a
    <3> HIDE DEF a, b, c
    <3>1. s < b
      BY <2>1, <2>2, <2>3
    <3>2. QED
      BY <3>1 DEF b
  <2>4. CASE ~(s <= a)
    <3>1. s \in (a + 1)..(c - 1)
      BY <2>2, <2>4
    <3>2. QED
      BY <2>1, <3>1 DEF CoverOK
  <2>5. QED
    BY <2>3, <2>4
<1>2. QED
  BY <1>1, InductiveInvariant, PTL

\* The out-of-order queue is strictly ordered above the in-order stream.
THEOREM RecvQueueOrdered == Spec => []RecvWindowOrdered
<1>1. IInv => RecvWindowOrdered
  <2> SUFFICES ASSUME IInv, NEW e \in Ends
               PROVE  /\ \A i \in 1..Len(vc[e].recvwin) : vc[e].torecv < vc[e].recvwin[i].seq
                      /\ \A i, j \in 1..Len(vc[e].recvwin) :
                            i < j => vc[e].recvwin[i].seq < vc[e].recvwin[j].seq
    BY DEF RecvWindowOrdered
  <2> DEFINE q == vc[e].recvwin
             t == vc[e].torecv
  <2>1. vc[e] \in VCs /\ RecvOK(vc[e])
    BY EndFacts
  <2>2. q \in Seq(Packets) /\ t \in Nat /\ Within(q, t + 1, t + RecvWin + 1) /\ Increasing(q)
    BY <2>1, VCFields DEF RecvOK
  <2> HIDE DEF q, t
  <2>3. ASSUME NEW i \in 1..Len(q)
        PROVE  t < q[i].seq /\ q[i].seq \in Int
    <3>1. q[i].seq \in Int /\ t + 1 <= q[i].seq
      BY <2>2, PacketFields DEF Within
    <3>2. QED
      BY <2>2, <3>1
  <2>4. ASSUME NEW i \in 1..Len(q), NEW j \in 1..Len(q), i < j
        PROVE  q[i].seq < q[j].seq
    <3>1. q[i].seq + (j - i) <= q[j].seq /\ q[i].seq \in Int /\ q[j].seq \in Int
      BY <2>2, <2>3, <2>4 DEF Increasing
    <3> DEFINE x == q[i].seq
               y == q[j].seq
    <3>2. x \in Int /\ y \in Int /\ x + (j - i) <= y /\ i \in Int /\ j \in Int /\ i < j
      BY <2>4, <3>1
    <3> HIDE DEF x, y
    <3>3. x < y
      BY <3>2
    <3>4. QED
      BY <3>3 DEF x, y
  <2>5. QED
    BY <2>3, <2>4 DEF q, t
<1>2. QED
  BY <1>1, InductiveInvariant, PTL

\* At most SendWin + 1 packets are in flight.
THEOREM SendWindowBounded == Spec => []SendWindowBound
<1>1. IInv => SendWindowBound
  BY DEF IInv, SendOK, SendWindowBound
<1>2. QED
  BY <1>1, InductiveInvariant, PTL

\* What happens to the windows of one end: ud_process_recv leaves nothing
\* waiting in front of a free place, ud_post_send lets a packet wait only behind
\* others or a full window, and the other steps leave the windows alone.
LEMMA StaysFed ==
    ASSUME IInv, NEW e \in Ends, tossed[e] = << >> => Fed(vc[e]),
           NEW d \in Ends,
           \/ ProcessRecv(d) \/ Write(d) \/ Read(d)
           \/ CheckAcks(d) \/ CheckResend(d) \/ Lose(d)
    PROVE  tossed'[e] = << >> => Fed(vc'[e])
<1> DEFINE v == vc[e]
<1>0. /\ vc \in [Ends -> VCs] /\ tossed \in [Ends -> Seq(Nat)] /\ v \in VCs
      /\ v.sendwin \in Seq(Items) /\ v.extwin \in Seq(Nat) /\ Len(v.sendwin) \in Nat
  BY EndFacts, VCFields DEF TypeOK
<1>1. CASE ProcessRecv(d)
  <2>1. PICK w : Fed(w) /\ vc' = [vc EXCEPT ![d] = w]
    BY <1>1, ProcessRecvStep
  <2>2. tossed' = tossed
    BY <1>1 DEF ProcessRecv
  <2>3. vc'[e] = IF d = e THEN w ELSE v
    BY <1>0, <2>1
  <2>4. QED
    BY <2>1, <2>2, <2>3
<1>2. CASE Write(d)
  <2>1. tossed' = tossed
    BY <1>2 DEF Write
  <2>2. CASE d # e
    <3>1. vc'[e] = v
      BY <1>0, <1>2, <2>2 DEF Write
    <3>2. QED
      BY <2>1, <3>1
  <2>3. CASE d = e /\ MayPost(v)
    <3>1. vc'[e] = PostSend(v, << written[e] + 1 >>)
      BY <1>0, <1>2, <2>3 DEF Write
    <3>2. vc'[e].extwin = v.extwin /\ v.extwin = << >>
      BY <1>0, <2>3, <3>1 DEF PostSend, MayPost, VCs
    <3>3. QED
      BY <3>2 DEF Fed
  <2>4. CASE d = e /\ ~MayPost(v)
    <3>1. vc'[e] = [v EXCEPT !.extwin = Append(@, written[e] + 1)]
      BY <1>0, <1>2, <2>4 DEF Write
    <3>2. vc'[e].sendwin = v.sendwin
      BY <1>0, <3>1 DEF VCs
    <3>3. Len(v.sendwin) > SendWin \/ v.extwin # << >>
      BY <1>0, <2>4, WindowSizes DEF MayPost
    <3>4. tossed[e] = << >> => Len(v.sendwin) >= SendWin
      BY <1>0, <3>3, WindowSizes DEF Fed
    <3>5. QED
      BY <2>1, <3>2, <3>4 DEF Fed
  <2>5. QED
    BY <2>2, <2>3, <2>4
<1>3. CASE Read(d) \/ CheckAcks(d) \/ Lose(d)
  <2>1. tossed' = tossed
    BY <1>3 DEF Read, CheckAcks, Lose
  <2>2. vc'[e].sendwin = v.sendwin /\ vc'[e].extwin = v.extwin
    <3>1. CASE Read(d)
      <4>1. vc' = [vc EXCEPT ![d] = [vc[d] EXCEPT !.apprecv = Tail(@), !.nread = @ + 1]]
        BY <1>0, <3>1 DEF Read
      <4>2. QED
        BY <1>0, <4>1 DEF VCs
    <3>2. CASE CheckAcks(d)
      BY <1>0, <3>2 DEF CheckAcks, SendAck, VCs
    <3>3. CASE Lose(d)
      BY <1>0, <3>3 DEF Lose
    <3>4. QED
      BY <1>3, <3>1, <3>2, <3>3
  <2>3. QED
    BY <2>1, <2>2 DEF Fed
<1>4. CASE CheckResend(d)
  <2>1. PICK i \in 1..Len(vc[d].sendwin) : Resend(d, i) \/ Toss(d, i)
    BY <1>4 DEF CheckResend
  <2>2. CASE d # e
    <3>1. vc'[e] = v /\ tossed'[e] = tossed[e]
      BY <1>0, <2>1, <2>2 DEF Resend, Toss
    <3>2. QED
      BY <3>1
  <2>3. CASE d = e /\ Resend(e, i)
    <3>1. PICK q : vc' = [vc EXCEPT ![e] = [v EXCEPT !.sendwin = q, !.ackNeed = FALSE]]
                   /\ q = [v.sendwin EXCEPT ![i].retry = IF Patient THEN @ ELSE @ + 1]
      BY <2>3 DEF Resend
    <3>2. Len(q) = Len(v.sendwin)
      BY <1>0, <3>1
    <3>3. vc'[e].sendwin = q /\ vc'[e].extwin = v.extwin
      BY <1>0, <3>1 DEF VCs
    <3>4. tossed' = tossed
      BY <2>3 DEF Resend
    <3>5. QED
      BY <3>2, <3>3, <3>4 DEF Fed
  <2>4. CASE d = e /\ Toss(e, i)
    <3>1. tossed'[e] = Append(tossed[e], v.sendwin[i].seq)
      BY <1>0, <2>4 DEF Toss
    <3> DEFINE x == v.sendwin[i].seq
    <3> HIDE DEF x
    <3>2. Append(tossed[e], x) # << >>
      <4>1. Len(Append(tossed[e], x)) = Len(tossed[e]) + 1 /\ Len(tossed[e]) \in Nat
        BY <1>0
      <4>2. QED
        BY <4>1
    <3>3. QED
      BY <3>1, <3>2 DEF x
  <2>5. QED
    BY <2>1, <2>2, <2>3, <2>4
<1>5. QED
  BY <1>1, <1>2, <1>3, <1>4

\* As long as nothing was tossed, a packet waits only while an acknowledgement is
\* due that will let it go: nothing but IInv and the property itself is needed.
THEOREM SendsNeverStall == Spec => []NoStalledSends
<1> DEFINE AllFed == \A e \in Ends : tossed[e] = << >> => Fed(vc[e])
<1>1. AllFed <=> NoStalledSends
  BY DEF Fed, NoStalledSends
<1>2. Init => AllFed
  BY DEF Init, InitialVC, Fed
<1>3. IInv /\ AllFed /\ [Next]_vars => AllFed'
  <2> SUFFICES ASSUME IInv, AllFed, [Next]_vars, NEW e \in Ends
               PROVE  tossed'[e] = << >> => Fed(vc'[e])
    BY DEF Fed
  <2>1. CASE UNCHANGED vars
    BY <2>1 DEF vars
  <2>2. CASE Next
    BY <2>2, StaysFed DEF Next
  <2>3. QED
    BY <2>1, <2>2
<1>4. QED
  BY <1>1, <1>2, <1>3, InductiveInvariant, PTL DEF Spec

\* An acknowledgement once given is never taken back.
THEOREM AcksNeverGoBack == Spec => AckNeverRetracts
<1> DEFINE Mono == \A e \in Ends : vc'[e].toack >= vc[e].toack /\ vc'[e].acked >= vc[e].acked
<1>1. IInv /\ [Next]_vars => [Mono]_vars
  <2> SUFFICES ASSUME IInv, Next
               PROVE  Mono
    BY DEF vars
  <2> SUFFICES ASSUME NEW d \in Ends
               PROVE  vc'[d].toack >= vc[d].toack /\ vc'[d].acked >= vc[d].acked
    OBVIOUS
  <2>0. vc \in [Ends -> VCs] /\ vc[d].toack \in Int /\ vc[d].acked \in Int
    BY EndFacts, VCFields DEF TypeOK
  <2>1. CASE \E e \in Ends : Lose(e)
    BY <2>0, <2>1 DEF Lose
  <2>2. CASE \E e \in Ends : \E w :
               EndStep(e, w) /\ PeerHistories(e) /\ WireStep(e, w) /\ vc' = [vc EXCEPT ![e] = w]
    <3>0. PICK e \in Ends : \E w : EndStep(e, w) /\ vc' = [vc EXCEPT ![e] = w]
      BY <2>2
    <3>1. PICK w : EndStep(e, w) /\ vc' = [vc EXCEPT ![e] = w]
      BY <3>0
    <3>2. CASE d = e
      <4>1. vc'[d] = w /\ vc[d].toack <= w.toack /\ vc[d].acked <= w.acked /\ w \in VCs
        BY <2>0, <3>1, <3>2 DEF EndStep
      <4>2. w.toack \in Int /\ w.acked \in Int
        BY <4>1, VCFields
      <4>3. QED
        BY <2>0, <4>1, <4>2
    <3>3. CASE d # e
      <4>1. vc'[d] = vc[d]
        BY <2>0, <3>1, <3>3
      <4>2. QED
        BY <2>0, <4>1
    <3>4. QED
      BY <3>2, <3>3
  <2>3. QED
    BY <2>1, <2>2, NextIsEndStep
<1>2. QED
  BY <1>1, InductiveInvariant, PTL DEF Spec, AckNeverRetracts

\* A read is a read of the reliable channel, or takes ACCEPT from the queue.
LEMMA ReadRefines ==
    ASSUME IInv, TypeOK', InOrderExactlyOnce', NEW e \in Ends, Read(e)
    PROVE  Channel!ChanRead(e) \/ UNCHANGED <<written, delivered>>
<1> DEFINE d == delivered[e]
           x == vc[e].apprecv[1].data
<1>0. written' = written /\ Peer(e) \in Ends
  BY EndsProps DEF Read
<1>1. delivered \in [Ends -> Seq(Nat)] /\ delivered' \in [Ends -> Seq(Nat)] /\ written \in [Ends -> Nat]
  BY DEF IInv, TypeOK
<1>2. CASE ~HasWriteId(vc[e])
  BY <1>0, <1>2 DEF Read
<1>3. CASE HasWriteId(vc[e])
  <2>1. delivered' = [delivered EXCEPT ![e] = Append(d, x)]
    BY <1>3 DEF Read
  <2>2. delivered'[e] = Append(d, x) /\ d \in Seq(Nat) /\ delivered'[e] \in Seq(Nat)
    BY <1>1, <2>1
  <2> HIDE DEF x
  <2>3. Len(Append(d, x)) = Len(d) + 1 /\ Append(d, x)[Len(d) + 1] = x /\ Len(d) \in Nat
    BY <2>2
  <2>4. /\ Len(delivered'[e]) <= written'[Peer(e)]
        /\ \A i \in 1..Len(delivered'[e]) : delivered'[e][i] = i
    BY DEF InOrderExactlyOnce
  <2>5. Len(d) + 1 \in 1..Len(delivered'[e])
    BY <2>2, <2>3
  <2>6. x = Len(d) + 1
    BY <2>2, <2>3, <2>4, <2>5
  <2>7. Len(d) < written[Peer(e)]
    <3>1. written[Peer(e)] \in Nat
      BY <1>0, <1>1
    <3>2. QED
      BY <1>0, <2>2, <2>3, <2>4, <3>1
  <2>8. delivered' = [delivered EXCEPT ![e] = Append(@, Len(@) + 1)]
    BY <2>1, <2>6
  <2>9. QED
    BY <1>0, <2>7, <2>8 DEF Channel!ChanRead
<1>4. QED
  BY <1>2, <1>3

\* The transport implements the reliable channel.
THEOREM ChannelRefinement == Spec => ImplementsChannel
<1>1. Init => Channel!ChanInit
  BY DEF Init, Channel!ChanInit
<1>2. IInv /\ TypeOK' /\ InOrderExactlyOnce' /\ [Next]_vars
        => [Channel!ChanNext]_(Channel!cvars)
  <2> SUFFICES ASSUME IInv, TypeOK', InOrderExactlyOnce', [Next]_vars
               PROVE  Channel!ChanNext \/ UNCHANGED <<written, delivered>>
    BY DEF Channel!cvars
  <2>1. CASE UNCHANGED vars
    BY <2>1 DEF vars
  <2>2. CASE Next
    <3>1. PICK e \in Ends : \/ ProcessRecv(e) \/ Write(e) \/ Read(e)
                            \/ CheckAcks(e) \/ CheckResend(e) \/ Lose(e)
      BY <2>2 DEF Next
    <3>2. CASE Write(e)
      BY <3>2 DEF Write, Channel!ChanNext, Channel!ChanWrite
    <3>3. CASE Read(e)
      BY <3>3, ReadRefines DEF Channel!ChanNext
    <3>4. CASE ProcessRecv(e) \/ CheckAcks(e) \/ CheckResend(e) \/ Lose(e)
      BY <3>4 DEF ProcessRecv, CheckAcks, CheckResend, Resend, Toss, Lose
    <3>5. QED
      BY <3>1, <3>2, <3>3, <3>4
  <2>3. QED
    BY <2>1, <2>2
<1>3. QED
  BY <1>1, <1>2, InductiveInvariant, TypeCorrect, StreamIsReliable, PTL
  DEF Spec, ImplementsChannel, Channel!ChanSpec
=============================================================================
