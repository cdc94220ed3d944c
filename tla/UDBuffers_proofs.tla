------------------------- MODULE UDBuffers_proofs -------------------------
(***************************************************************************)
(* Proofs about UDBuffers, for any number of vbufs and VCs, any window and *)
(* any sizes of the queues.                                                *)
(***************************************************************************)
EXTENDS UDBuffers, FiniteSetTheorems, TLAPS

-----------------------------------------------------------------------------
(* Lists of vbufs.                                                         *)

LEMMA EmptyList == << >> \in Seq(Vbufs) /\ ToSet(<< >>) = {} /\ IsInjective(<< >>)
                   /\ Len(<< >>) = 0
BY DEF ToSet, IsInjective

LEMMA OneList ==
    ASSUME NEW b \in Vbufs
    PROVE  << b >> \in Seq(Vbufs) /\ ToSet(<< b >>) = {b} /\ IsInjective(<< b >>)
           /\ Len(<< b >>) = 1
BY DEF ToSet, IsInjective

LEMMA ToSetIn ==
    ASSUME NEW q \in Seq(Vbufs)
    PROVE  ToSet(q) \subseteq Vbufs /\ IsFiniteSet(ToSet(q)) /\ (ToSet(q) = {} <=> q = << >>)
<1>1. ToSet(q) \subseteq Vbufs
  BY DEF ToSet
<1>2. IsFiniteSet(ToSet(q))
  BY <1>1, FS_Subset, BuffersAssumption
<1>3. ASSUME q # << >>
      PROVE  ToSet(q) # {}
  <2>1. 1 \in DOMAIN q
    BY <1>3
  <2>2. q[1] \in ToSet(q)
    BY <2>1 DEF ToSet
  <2> QED
    BY <2>2
<1>4. ToSet(<< >>) = {}
  BY EmptyList
<1> QED
  BY <1>1, <1>2, <1>3, <1>4

LEMMA InList ==
    ASSUME NEW q \in Seq(Vbufs), NEW i \in 1..Len(q)
    PROVE  q[i] \in ToSet(q)
BY DEF ToSet

\* A list and the two parts it consists of.
LEMMA PartsOfList ==
    ASSUME NEW q \in Seq(Vbufs), NEW f \in Seq(Vbufs), NEW r \in Seq(Vbufs),
           Len(q) = Len(f) + Len(r),
           \A i \in 1..Len(f) : q[i] = f[i],
           \A i \in 1..Len(r) : q[i + Len(f)] = r[i]
    PROVE  /\ ToSet(q) = ToSet(f) \cup ToSet(r)
           /\ IsInjective(q) <=>
                 IsInjective(f) /\ IsInjective(r) /\ ToSet(f) \cap ToSet(r) = {}
<1> DEFINE n == Len(f)
<1>0. DOMAIN q = 1..Len(q) /\ DOMAIN f = 1..n /\ DOMAIN r = 1..Len(r)
      /\ n \in Nat /\ Len(r) \in Nat /\ Len(q) = n + Len(r)
  OBVIOUS
<1>1. \A i \in 1..n : i \in 1..Len(q) /\ q[i] = f[i]
  BY <1>0
<1>2. \A i \in 1..Len(r) : i + n \in 1..Len(q) /\ q[i + n] = r[i]
  BY <1>0
<1>3. \A i \in 1..Len(q) : \/ i \in 1..n
                           \/ i - n \in 1..Len(r) /\ (i - n) + n = i
  BY <1>0
<1> HIDE DEF n
<1>4. ToSet(q) \subseteq ToSet(f) \cup ToSet(r)
  <2> SUFFICES ASSUME NEW i \in 1..Len(q)
               PROVE  q[i] \in ToSet(f) \cup ToSet(r)
    BY <1>0 DEF ToSet
  <2>1. CASE i \in 1..n
    BY <2>1, <1>1, InList DEF n
  <2>2. CASE i - n \in 1..Len(r) /\ (i - n) + n = i
    BY <2>2, <1>2, InList
  <2> QED
    BY <2>1, <2>2, <1>3
<1>5. ToSet(f) \subseteq ToSet(q)
  <2> SUFFICES ASSUME NEW i \in 1..n
               PROVE  f[i] \in ToSet(q)
    BY <1>0 DEF ToSet
  <2> QED
    BY <1>1, InList
<1>6. ToSet(r) \subseteq ToSet(q)
  <2> SUFFICES ASSUME NEW i \in 1..Len(r)
               PROVE  r[i] \in ToSet(q)
    BY <1>0 DEF ToSet
  <2>1. i + n \in 1..Len(q) /\ q[i + n] = r[i]
    BY <1>2
  <2> QED
    BY <2>1, InList
<1>7. ASSUME IsInjective(q)
      PROVE  IsInjective(f) /\ IsInjective(r) /\ ToSet(f) \cap ToSet(r) = {}
  <2>1. \A k, l \in 1..Len(q) : q[k] = q[l] => k = l
    BY <1>7, <1>0 DEF IsInjective
  <2>2. \A k, l \in 1..n : f[k] = f[l] => k = l
    BY <2>1, <1>1
  <2>3. ASSUME NEW i \in 1..Len(r), NEW j \in 1..Len(r), r[i] = r[j]
        PROVE  i = j
    <3>1. i + n = j + n
      BY <2>1, <1>2, <2>3
    <3> QED
      BY <3>1, <1>0
  <2>4. ASSUME NEW i \in 1..n, NEW j \in 1..Len(r)
        PROVE  f[i] # r[j]
    <3>1. i # j + n
      BY <1>0
    <3> QED
      <4>1. i \in 1..Len(q) /\ q[i] = f[i] /\ j + n \in 1..Len(q) /\ q[j + n] = r[j]
        BY ONLY <1>1, <1>2, i \in 1..n, j \in 1..Len(r)
      <4> QED
        BY ONLY <2>1, <3>1, <4>1
  <2>5. ToSet(f) \cap ToSet(r) = {}
    BY <2>4, <1>0 DEF ToSet
  <2> QED
    BY <2>2, <2>3, <2>5, <1>0 DEF IsInjective
<1>8. ASSUME IsInjective(f), IsInjective(r), ToSet(f) \cap ToSet(r) = {}
      PROVE  IsInjective(q)
  <2>1. \A k \in 1..n, l \in 1..Len(r) : f[k] # r[l]
    <3> SUFFICES ASSUME NEW k \in 1..n, NEW l \in 1..Len(r)
                 PROVE  f[k] # r[l]
      OBVIOUS
    <3>1. f[k] \in ToSet(f) /\ r[l] \in ToSet(r)
      BY InList DEF n
    <3> QED
      BY <3>1, <1>8
  <2>2. \A k, l \in 1..n : f[k] = f[l] => k = l
    BY <1>8, <1>0 DEF IsInjective
  <2>3. \A k, l \in 1..Len(r) : r[k] = r[l] => k = l
    BY <1>8, <1>0 DEF IsInjective
  <2> SUFFICES ASSUME NEW i \in 1..Len(q), NEW j \in 1..Len(q), q[i] = q[j]
               PROVE  i = j
    BY <1>0 DEF IsInjective
  <2>4. CASE i \in 1..n /\ j \in 1..n
    BY <2>4, <2>2, <1>1
  <2>5. CASE i \notin 1..n /\ j \notin 1..n
    <3>1. i - n \in 1..Len(r) /\ j - n \in 1..Len(r)
          /\ q[i] = r[i - n] /\ q[j] = r[j - n]
      BY <2>5, <1>3, <1>2
    <3>2. i - n = j - n
      BY <3>1, <2>3
    <3> QED
      BY <3>2, <1>0
  <2>6. CASE i \in 1..n /\ j \notin 1..n
    <3>1. j - n \in 1..Len(r) /\ q[j] = r[j - n] /\ q[i] = f[i]
      BY <2>6, <1>3, <1>2, <1>1
    <3> QED
      BY <3>1, <2>1, <2>6
  <2>7. CASE i \notin 1..n /\ j \in 1..n
    <3>1. i - n \in 1..Len(r) /\ q[i] = r[i - n] /\ q[j] = f[j]
      BY <2>7, <1>3, <1>2, <1>1
    <3> QED
      BY <3>1, <2>1, <2>7
  <2> QED
    BY <2>4, <2>5, <2>6, <2>7
<1> QED
  BY <1>4, <1>5, <1>6, <1>7, <1>8

\* Two lists one after the other.
LEMMA JoinedLists ==
    ASSUME NEW q \in Seq(Vbufs), NEW r \in Seq(Vbufs)
    PROVE  /\ q \o r \in Seq(Vbufs) /\ Len(q \o r) = Len(q) + Len(r)
           /\ ToSet(q \o r) = ToSet(q) \cup ToSet(r)
           /\ IsInjective(q \o r) <=>
                 IsInjective(q) /\ IsInjective(r) /\ ToSet(q) \cap ToSet(r) = {}
<1>1. q \o r \in Seq(Vbufs) /\ Len(q \o r) = Len(q) + Len(r)
  OBVIOUS
<1>2. \A i \in 1..Len(q) : (q \o r)[i] = q[i]
  OBVIOUS
<1>3. \A i \in 1..Len(r) : (q \o r)[i + Len(q)] = r[i]
  OBVIOUS
<1>4. PICK j \in Seq(Vbufs) : j = q \o r
  BY <1>1
<1>5. /\ ToSet(j) = ToSet(q) \cup ToSet(r)
      /\ IsInjective(j) <=> IsInjective(q) /\ IsInjective(r) /\ ToSet(q) \cap ToSet(r) = {}
  <2>1. Len(j) = Len(q) + Len(r) /\ (\A i \in 1..Len(q) : j[i] = q[i])
        /\ (\A i \in 1..Len(r) : j[i + Len(q)] = r[i])
    BY <1>1, <1>2, <1>3, <1>4
  <2> QED
    BY <2>1, PartsOfList
<1> QED
  BY <1>1, <1>4, <1>5

LEMMA AppendedList ==
    ASSUME NEW q \in Seq(Vbufs), NEW b \in Vbufs
    PROVE  Append(q, b) = q \o << b >>
OBVIOUS

\* The first n of a list, and the others.
LEMMA SplitList ==
    ASSUME NEW q \in Seq(Vbufs), NEW n \in Nat,
           NEW f, f = FirstOf(q, n), NEW r, r = AfterFirst(q, Len(f))
    PROVE  /\ f \in Seq(Vbufs) /\ r \in Seq(Vbufs)
           /\ Len(f) = IF n < Len(q) THEN n ELSE Len(q)
           /\ Len(r) = Len(q) - Len(f)
           /\ ToSet(q) = ToSet(f) \cup ToSet(r)
           /\ IsInjective(q) <=>
                 IsInjective(f) /\ IsInjective(r) /\ ToSet(f) \cap ToSet(r) = {}
<1>1. f \in Seq(Vbufs) /\ Len(f) = (IF n < Len(q) THEN n ELSE Len(q)) /\ Len(q) \in Nat
  BY DEF FirstOf
<1>2. \A i \in 1..Len(f) : q[i] = f[i]
  BY <1>1 DEF FirstOf
<1>3. PICK m \in 0..Len(q) : m = Len(f)
  BY <1>1
<1>4. /\ SubSeq(q, m + 1, Len(q)) \in Seq(Vbufs)
      /\ Len(SubSeq(q, m + 1, Len(q))) = Len(q) - m
      /\ \A i \in 1..(Len(q) - m) : SubSeq(q, m + 1, Len(q))[i] = q[i + m]
  BY <1>1
<1>5. r \in Seq(Vbufs) /\ Len(r) = Len(q) - Len(f)
      /\ \A i \in 1..Len(r) : q[i + Len(f)] = r[i]
  BY <1>3, <1>4 DEF AfterFirst
<1>6. PICK g \in Seq(Vbufs), h \in Seq(Vbufs) : g = f /\ h = r
  BY <1>1, <1>5
<1>7. Len(q) = Len(g) + Len(h)
      /\ (\A i \in 1..Len(g) : q[i] = g[i]) /\ (\A i \in 1..Len(h) : q[i + Len(g)] = h[i])
  <2>1. Len(q) = Len(g) + Len(h)
    <3>1. Len(g) = m /\ Len(h) = Len(q) - m
      BY <1>3, <1>5, <1>6, Zenon
    <3>2. Len(q) = m + (Len(q) - m)
      BY <1>1
    <3> QED
      BY <3>1, <3>2, Zenon
  <2>2. \A i \in 1..Len(g) : q[i] = g[i]
    BY <1>2, <1>6
  <2>3. \A i \in 1..Len(h) : q[i + Len(g)] = h[i]
    BY <1>5, <1>6
  <2> QED
    BY <2>1, <2>2, <2>3
<1>8. /\ ToSet(q) = ToSet(g) \cup ToSet(h)
      /\ IsInjective(q) <=> IsInjective(g) /\ IsInjective(h) /\ ToSet(g) \cap ToSet(h) = {}
  BY <1>7, PartsOfList
<1> QED
  BY <1>1, <1>5, <1>6, <1>8

\* A list without repetitions has as many elements as it is long.
LEMMA ListCount ==
    ASSUME NEW q \in Seq(Vbufs), IsInjective(q)
    PROVE  Cardinality(ToSet(q)) = Len(q)
<1>1. q \in [1..Len(q) -> ToSet(q)] /\ (\A b \in ToSet(q) : \E i \in 1..Len(q) : q[i] = b)
  BY DEF ToSet
<1>2. q \in Bijection(1..Len(q), ToSet(q))
  BY <1>1 DEF Bijection, Injection, Surjection, IsInjective
<1>3. ExistsBijection(1..Len(q), ToSet(q))
  BY <1>2 DEF ExistsBijection
<1> QED
  BY <1>3, FS_CountingElements

LEMMA DisjointCount ==
    ASSUME NEW S, NEW T, IsFiniteSet(S), IsFiniteSet(T), S \cap T = {}
    PROVE  /\ IsFiniteSet(S \cup T)
           /\ Cardinality(S \cup T) = Cardinality(S) + Cardinality(T)
<1>1. Cardinality(S \cup T) = Cardinality(S) + Cardinality(T) - Cardinality(S \cap T)
      /\ IsFiniteSet(S \cup T)
  BY FS_Union
<1>2. Cardinality(S \cap T) = 0
  BY FS_EmptySet
<1>3. Cardinality(S) \in Nat /\ Cardinality(T) \in Nat
  BY FS_CardinalityType
<1> QED
  BY <1>1, <1>2, <1>3

\* Without: the elements outside bufs keep their order, and none is lost.
LEMMA WithoutIs ==
    ASSUME NEW q \in Seq(Vbufs), NEW bufs
    PROVE  /\ Without(q, bufs) \in Seq(Vbufs)
           /\ Len(Without(q, bufs)) <= Len(q)
           /\ ToSet(Without(q, bufs)) = ToSet(q) \ bufs
           /\ IsInjective(q) => IsInjective(Without(q, bufs))
<1> DEFINE kept == {i \in DOMAIN q : q[i] \notin bufs}
           upto(i) == {j \in kept : j <= i}
           n == Cardinality(kept)
           rank == [i \in kept |-> Cardinality(upto(i))]
           at(k) == CHOOSE i \in kept : Cardinality({j \in kept : j <= i}) = k
           w == Without(q, bufs)
<1>1. kept \subseteq 1..Len(q) /\ IsFiniteSet(kept) /\ n \in Nat /\ n <= Len(q)
  <2>1. kept \subseteq 1..Len(q) /\ Len(q) \in Nat
    OBVIOUS
  <2>2. IsFiniteSet(1..Len(q)) /\ Cardinality(1..Len(q)) = Len(q)
    <3>1. PICK m \in Nat : m = Len(q)
      BY <2>1
    <3>2. IsFiniteSet(1..m) /\ Cardinality(1..m) = m
      BY ONLY m \in Nat, FS_Interval
    <3> QED
      BY ONLY <3>1, <3>2
  <2> QED
    BY <2>1, <2>2, FS_Subset, FS_CardinalityType
<1>2. \A i \in kept : IsFiniteSet(upto(i)) /\ Cardinality(upto(i)) \in 1..n
  <2> SUFFICES ASSUME NEW i \in kept
               PROVE  IsFiniteSet(upto(i)) /\ Cardinality(upto(i)) \in 1..n
    OBVIOUS
  <2>1. upto(i) \subseteq kept /\ i \in upto(i)
    BY <1>1
  <2>2. IsFiniteSet(upto(i)) /\ Cardinality(upto(i)) <= n /\ Cardinality(upto(i)) \in Nat
    BY <2>1, <1>1, FS_Subset, FS_CardinalityType
  <2>3. Cardinality(upto(i)) # 0
    BY <2>1, <2>2, FS_EmptySet
  <2> QED
    BY <2>2, <2>3, <1>1
<1>3. ASSUME NEW i \in kept, NEW j \in kept, i < j
      PROVE  Cardinality(upto(i)) # Cardinality(upto(j))
  <2>1. upto(i) \in SUBSET upto(j) /\ j \in upto(j) /\ j \notin upto(i)
    BY <1>3, <1>1
  <2>2. Cardinality(upto(i)) = Cardinality(upto(j)) => upto(j) = upto(i)
    BY <2>1, <1>2, FS_Subset
  <2> QED
    BY <2>1, <2>2
<1>4. \A i, j \in kept : Cardinality(upto(i)) = Cardinality(upto(j)) => i = j
  BY <1>3, <1>1
<1>5. rank \in [kept -> 1..n] /\ (\A i, j \in kept : rank[i] = rank[j] => i = j)
  BY <1>2, <1>4
<1>6. rank \in Injection(kept, 1..n)
  BY <1>5 DEF Injection, IsInjective
<1>7. IsFiniteSet(1..n) /\ Cardinality(1..n) = Cardinality(kept)
  BY <1>1, FS_Interval
<1>8. rank \in Surjection(kept, 1..n)
  BY <1>6, <1>7, FS_Injection
<1>9. \A k \in 1..n : \E i \in kept : Cardinality(upto(i)) = k
  BY <1>8 DEF Surjection
<1>10. \A k \in 1..n : at(k) \in kept /\ Cardinality(upto(at(k))) = k
  BY <1>9
<1>11. w = [k \in 1..n |-> q[at(k)]]
  BY DEF Without
<1> HIDE DEF w, at, rank, n, upto
<1>12. \A k \in 1..n : q[at(k)] \in Vbufs /\ q[at(k)] \notin bufs /\ at(k) \in 1..Len(q)
  BY <1>10, <1>1
<1>13. w \in Seq(Vbufs) /\ Len(w) = n
  BY <1>11, <1>12, <1>1
<1>14. ToSet(w) \subseteq ToSet(q) \ bufs
  <2> SUFFICES ASSUME NEW k \in 1..n
               PROVE  w[k] \in ToSet(q) \ bufs
    BY <1>13 DEF ToSet
  <2> QED
    BY <1>11, <1>12, InList
<1>15. ToSet(q) \ bufs \subseteq ToSet(w)
  <2> SUFFICES ASSUME NEW i \in 1..Len(q), q[i] \notin bufs
               PROVE  q[i] \in ToSet(w)
    BY DEF ToSet
  <2>1. i \in kept
    OBVIOUS
  <2>2. PICK k \in 1..n : k = Cardinality(upto(i))
    BY <2>1, <1>2
  <2>3. at(k) = i
    BY <2>1, <2>2, <1>10, <1>4
  <2>4. w[k] = q[i]
    BY <2>3, <1>11
  <2> QED
    BY <2>4, <1>13, InList
<1>16. ASSUME IsInjective(q)
       PROVE  IsInjective(w)
  <2> SUFFICES ASSUME NEW k \in 1..n, NEW l \in 1..n, w[k] = w[l]
               PROVE  k = l
    <3>1. DOMAIN w = 1..n
      BY <1>11
    <3> QED
      BY <3>1 DEF IsInjective
  <2>1. q[at(k)] = q[at(l)]
    BY <1>11
  <2>2. at(k) = at(l)
    BY <2>1, <1>12, <1>16 DEF IsInjective
  <2> QED
    BY <2>2, <1>10
<1> QED
  BY <1>1, <1>13, <1>14, <1>15, <1>16 DEF w

-----------------------------------------------------------------------------
(* Receive credits.  Only the receive path touches the two counters; this     *)
(* part holds in any state, whatever has happened to the buffers.             *)

SameRecvs(s, t) == Counted(t) /\ t.posted = s.posted /\ t.recvs = s.recvs

LEMMA SameTrans ==
    ASSUME NEW s, NEW t, NEW u, SameRecvs(s, t), SameRecvs(t, u)
    PROVE  SameRecvs(s, u)
BY DEF SameRecvs

LEMMA GetSame ==
    ASSUME NEW s, Counted(s), NEW v
    PROVE  SameRecvs(s, Get(s, v))
BY DEF Get, SameRecvs, Counted

LEMMA ReleaseSame ==
    ASSUME NEW s, Counted(s), NEW bufs
    PROVE  SameRecvs(s, Release(s, bufs))
BY DEF Release, SameRecvs, Counted

LEMMA PostSame ==
    ASSUME NEW s, Counted(s), NEW bufs
    PROVE  SameRecvs(s, Post(s, bufs))
BY DEF Post, SameRecvs, Counted

LEMMA SubmitSame ==
    ASSUME NEW s, Counted(s), NEW bufs
    PROVE  SameRecvs(s, Submit(s, bufs))
<1> DEFINE now == IF s.ext_send_queue = << >> THEN FirstOf(bufs, s.avail) ELSE << >>
           t == Post(s, now)
           u == [t EXCEPT !.ext_send_queue = @ \o AfterFirst(bufs, Len(now))]
<1>1. SameRecvs(s, t)
  BY PostSame
<1>2. Submit(s, bufs) = u
  BY DEF Submit
<1> HIDE DEF now, t
<1>3. SameRecvs(t, u)
  BY <1>1 DEF SameRecvs, Counted
<1> QED
  BY <1>1, <1>2, <1>3, SameTrans

LEMMA SendNowSame ==
    ASSUME NEW s, Counted(s), NEW v, NEW bufs
    PROVE  SameRecvs(s, SendNow(s, v, bufs))
<1> DEFINE t == [s EXCEPT !.inprogress = @ \cup ToSet(bufs),
                          !.unack = @ \cup ToSet(bufs),
                          !.vc[v].sendwin = @ \o bufs]
<1>1. SameRecvs(s, t)
  BY DEF SameRecvs, Counted
<1>2. SendNow(s, v, bufs) = Submit(t, bufs)
  BY DEF SendNow
<1> HIDE DEF t
<1>3. SameRecvs(t, Submit(t, bufs))
  BY <1>1, SubmitSame DEF SameRecvs
<1> QED
  BY <1>1, <1>2, <1>3, SameTrans

LEMMA PostSendSame ==
    ASSUME NEW s, Counted(s), NEW v, NEW b
    PROVE  SameRecvs(s, PostSend(s, v, b))
<1>1. SameRecvs(s, SendNow(s, v, << b >>))
  BY SendNowSame
<1>2. SameRecvs(s, [s EXCEPT !.vc[v].extwin = Append(@, b)])
  BY DEF SameRecvs, Counted
<1> QED
  BY <1>1, <1>2 DEF PostSend

LEMMA FlushSame ==
    ASSUME NEW s, Counted(s), NEW v
    PROVE  SameRecvs(s, FlushExtWindow(s, v))
<1> DEFINE first == FirstOf(s.vc[v].extwin, Window - Len(s.vc[v].sendwin))
           t == [s EXCEPT !.vc[v].extwin = AfterFirst(@, Len(first))]
<1>1. SameRecvs(s, t)
  BY DEF SameRecvs, Counted
<1>2. FlushExtWindow(s, v) = IF Len(s.vc[v].sendwin) < Window THEN SendNow(t, v, first) ELSE s
  BY DEF FlushExtWindow
<1> HIDE DEF t, first
<1>3. SameRecvs(t, SendNow(t, v, first))
  BY <1>1, SendNowSame DEF SameRecvs
<1>4. SameRecvs(s, SendNow(t, v, first)) /\ SameRecvs(s, s)
  BY <1>1, <1>3, SameTrans DEF SameRecvs
<1> QED
  BY <1>2, <1>4

LEMMA UnlinkSame ==
    ASSUME NEW s, Counted(s), NEW v, NEW bufs
    PROVE  SameRecvs(s, Unlink(s, v, bufs))
BY DEF Unlink, SameRecvs, Counted

LEMMA ProcessAckSame ==
    ASSUME NEW s, Counted(s), NEW v, NEW n
    PROVE  SameRecvs(s, ProcessAck(s, v, n))
<1> DEFINE acked == ToSet(SubSeq(s.vc[v].sendwin, 1, n))
           t == Unlink(s, v, acked)
           u == Release(t, acked)
<1>1. SameRecvs(s, t)
  BY UnlinkSame
<1>2. SameRecvs(t, u)
  BY <1>1, ReleaseSame DEF SameRecvs
<1>3. SameRecvs(u, FlushExtWindow(u, v))
  BY <1>2, FlushSame DEF SameRecvs
<1>4. ProcessAck(s, v, n) = FlushExtWindow(u, v)
  BY DEF ProcessAck
<1> HIDE DEF t, u
<1>5. SameRecvs(s, u)
  BY <1>1, <1>2, SameTrans
<1> QED
  BY <1>3, <1>4, <1>5, SameTrans

LEMMA SendAckSame ==
    ASSUME NEW s, Counted(s), NEW v
    PROVE  SameRecvs(s, SendAck(s, v))
<1>1. SameRecvs(s, Get(s, v))
  BY GetSame
<1>2. SameRecvs(Get(s, v), Submit(Get(s, v), << Got(s) >>))
  BY <1>1, SubmitSame DEF SameRecvs
<1> QED
  BY <1>1, <1>2, SameTrans DEF SendAck

LEMMA PurgeSame ==
    ASSUME NEW s, Counted(s), NEW v
    PROVE  SameRecvs(s, PurgeQueues(s, v))
<1> DEFINE queued == {b \in ToSet(s.ext_send_queue) : s.vc_of[b] = v}
           sent == ToSet(s.vc[v].sendwin) \ queued
           s1 == [s EXCEPT
                    !.ext_send_queue = Without(@, queued),
                    !.vc[v].sendwin = Without(@, queued),
                    !.cut = @ \cup queued]
           u == Unlink(s1, v, sent)
           s2 == Release(u, sent)
           s3 == Release(s2, ToSet(s.vc[v].extwin))
           s4 == Release(s3, s.vc[v].recvwin)
<1>1. SameRecvs(s, s1)
  BY DEF SameRecvs, Counted
<1>2. PurgeQueues(s, v) = s4
  BY DEF PurgeQueues
<1> HIDE DEF s1, sent, queued
<1>3. SameRecvs(s1, u)
  BY <1>1, UnlinkSame DEF SameRecvs
<1>4. SameRecvs(u, s2)
  BY <1>3, ReleaseSame DEF SameRecvs
<1>5. SameRecvs(s2, s3)
  BY <1>4, ReleaseSame DEF SameRecvs
<1>6. SameRecvs(s3, s4)
  BY <1>5, ReleaseSame DEF SameRecvs
<1> HIDE DEF u, s2, s3, s4
<1> QED
  BY <1>1, <1>2, <1>3, <1>4, <1>5, <1>6 DEF SameRecvs

LEMMA VCFreeSame ==
    ASSUME NEW s, Counted(s), NEW v
    PROVE  SameRecvs(s, VCFree(s, v))
<1> DEFINE c == [s EXCEPT !.vc[v].state = "closing"]
           t == PurgeQueues(c, v)
<1>1. SameRecvs(s, c)
  BY DEF SameRecvs, Counted
<1>2. VCFree(s, v) \in {Delete(t, v), t, s}
  BY DEF VCFree
<1> HIDE DEF c
<1>3. SameRecvs(c, t)
  BY <1>1, PurgeSame DEF SameRecvs
<1> HIDE DEF t
<1>4. SameRecvs(t, Delete(t, v))
  BY <1>3 DEF SameRecvs, Counted, Delete
<1> QED
  BY <1>1, <1>2, <1>3, <1>4 DEF SameRecvs

\* CountRecv after a packet has taken one of the receives.
LEMMA CountRecvIs ==
    ASSUME NEW s, Counted(s), RecvsInv, mem.posted > 0,
           s.posted = mem.posted - 1, s.recvs = mem.recvs
    PROVE  LET t == CountRecv(s)
           IN  /\ Counted(t) /\ t.posted \in Nat
               /\ t.recvs \in Preserve..MaxRecvs /\ t.recvs = t.posted + strays
<1>1. mem.posted \in Nat /\ mem.recvs \in Preserve..MaxRecvs /\ mem.recvs = mem.posted + strays
      /\ strays \in Nat /\ Preserve \in Nat \ {0} /\ MaxRecvs \in Nat /\ MaxRecvs >= Preserve
  BY BuffersAssumption DEF RecvsInv
<1> DEFINE t == [s EXCEPT !.recvs = @ - 1]
           u == [t EXCEPT !.posted = @ + (MaxRecvs - t.recvs), !.recvs = MaxRecvs]
<1>2. Counted(t) /\ t.posted = mem.posted - 1 /\ t.recvs = mem.recvs - 1
  BY DEF Counted
<1>3. CountRecv(s) = IF t.recvs < Preserve THEN u ELSE t
  BY DEF CountRecv
<1> HIDE DEF t
<1>4. Counted(u) /\ u.posted = t.posted + (MaxRecvs - t.recvs) /\ u.recvs = MaxRecvs
  BY <1>2 DEF Counted
<1> HIDE DEF u
<1>5. CASE t.recvs < Preserve
  BY <1>1, <1>2, <1>3, <1>4, <1>5
<1>6. CASE ~(t.recvs < Preserve)
  BY <1>1, <1>2, <1>3, <1>6
<1> QED
  BY <1>5, <1>6

\* A packet that arrives takes one of the receives.
LEMMA ArrivedCounts ==
    ASSUME NEW s, Counted(s), NEW v
    PROVE  LET t == Arrived(s, v)
           IN  Counted(t) /\ t.posted = s.posted - 1 /\ t.recvs = s.recvs
<1> DEFINE g == Get(s, v)
<1>1. SameRecvs(s, g)
  BY GetSame
<1>2. Arrived(s, v) = [g EXCEPT !.posted = @ - 1]
  BY DEF Arrived
<1> HIDE DEF g
<1> QED
  BY <1>1, <1>2 DEF SameRecvs, Counted

LEMMA RecvsInit == Init => RecvsInv
BY BuffersAssumption DEF Init, RecvsInv, Counted

LEMMA RecvsStep == RecvsInv /\ [Next]_vars => RecvsInv'
<1> SUFFICES ASSUME RecvsInv, [Next]_vars
             PROVE  RecvsInv'
  OBVIOUS
<1>0. Counted(mem)
  BY DEF RecvsInv
<1>1. ASSUME SameRecvs(mem, mem'), UNCHANGED strays
      PROVE  RecvsInv'
  BY <1>1 DEF RecvsInv, SameRecvs
<1>2. ASSUME NEW s, Counted(s), mem.posted > 0, s.posted = mem.posted - 1, s.recvs = mem.recvs,
             mem' = CountRecv(s), UNCHANGED strays
      PROVE  RecvsInv'
  <2>1. /\ Counted(mem') /\ mem'.posted \in Nat
        /\ mem'.recvs \in Preserve..MaxRecvs /\ mem'.recvs = mem'.posted + strays
    BY <1>2, CountRecvIs
  <2> QED
    BY <2>1, <1>2 DEF RecvsInv
<1>3. ASSUME NEW v \in VCs, Send(v)
      PROVE  RecvsInv'
  <2> DEFINE g == Get(mem, v)
             t == PostSend(g, v, Got(mem))
  <2>1. SameRecvs(mem, g)
    BY <1>0, GetSame
  <2>2. SameRecvs(g, t)
    BY <2>1, PostSendSame DEF SameRecvs
  <2>3. SameRecvs(mem, t)
    BY <2>1, <2>2, SameTrans
  <2>4. mem' = t /\ UNCHANGED strays
    BY <1>3 DEF Send
  <2> QED
    BY <1>1, <2>3, <2>4
<1>4. ASSUME NEW v \in VCs, Disconnect(v)
      PROVE  RecvsInv'
  <2> DEFINE g == Get(mem, v)
             t == PostSend(g, v, Got(mem))
             u == [t EXCEPT !.vc[v].localClosed = TRUE]
  <2>1. SameRecvs(mem, g)
    BY <1>0, GetSame
  <2>2. SameRecvs(g, t)
    BY <2>1, PostSendSame DEF SameRecvs
  <2>3. mem' = VCFree(u, v) /\ UNCHANGED strays
    BY <1>4 DEF Disconnect
  <2> HIDE DEF t
  <2>4. SameRecvs(t, u)
    BY <2>2 DEF SameRecvs, Counted
  <2> HIDE DEF g, u
  <2>5. SameRecvs(u, VCFree(u, v))
    BY <2>4, VCFreeSame DEF SameRecvs
  <2>6. SameRecvs(mem, mem')
    BY <2>1, <2>2, <2>3, <2>4, <2>5 DEF SameRecvs
  <2> QED
    BY <1>1, <2>3, <2>6
<1>5. ASSUME NEW v \in VCs, Read(v)
      PROVE  RecvsInv'
  <2>1. PICK b \in mem.vc[v].recvwin :
           mem' = Release([mem EXCEPT !.vc[v].recvwin = @ \ {b}], {b})
    BY <1>5 DEF Read
  <2> DEFINE t == [mem EXCEPT !.vc[v].recvwin = @ \ {b}]
  <2>2. SameRecvs(mem, t)
    BY <1>0 DEF SameRecvs, Counted
  <2>3. mem' = Release(t, {b}) /\ UNCHANGED strays
    BY <2>1, <1>5 DEF Read
  <2> HIDE DEF t
  <2>4. SameRecvs(t, mem')
    BY <2>2, <2>3, ReleaseSame DEF SameRecvs
  <2> QED
    BY <1>1, <2>2, <2>3, <2>4, SameTrans
<1>6. ASSUME NEW v \in VCs, CheckAcks(v)
      PROVE  RecvsInv'
  BY <1>0, <1>1, <1>6, SendAckSame DEF CheckAcks
<1>7. ASSUME NEW v \in VCs, RecvData(v)
      PROVE  RecvsInv'
  <2> DEFINE a == Arrived(mem, v)
  <2>1. PICK n \in 0..Len(mem.vc[v].sendwin), due \in {HasFree(2), FALSE}, new \in BOOLEAN :
          LET b == Got(mem)
              s1 == ProcessAck(a, v, n)
              s2 == IF due THEN SendAck(s1, v) ELSE s1
          IN  mem' = CountRecv(IF new THEN [s2 EXCEPT !.vc[v].recvwin = @ \cup {b}]
                               ELSE Release(s2, {b}))
    BY <1>7 DEF RecvData
  <2>2. mem.posted > 0 /\ UNCHANGED strays
    BY <1>7 DEF RecvData, Packet
  <2>3. Counted(a) /\ a.posted = mem.posted - 1 /\ a.recvs = mem.recvs
    BY <1>0, ArrivedCounts
  <2> HIDE DEF a
  <2> DEFINE s1 == ProcessAck(a, v, n)
             s2 == IF due THEN SendAck(s1, v) ELSE s1
             s3 == [s2 EXCEPT !.vc[v].recvwin = @ \cup {Got(mem)}]
             s4 == Release(s2, {Got(mem)})
  <2>4. mem' = CountRecv(s3) \/ mem' = CountRecv(s4)
    BY <2>1
  <2>5. SameRecvs(a, s1)
    BY <2>3, ProcessAckSame
  <2> HIDE DEF s1
  <2>6. SameRecvs(s1, s2)
    BY <2>5, SendAckSame DEF SameRecvs
  <2> HIDE DEF s2
  <2>7. SameRecvs(s2, s3)
    BY <2>6 DEF SameRecvs, Counted
  <2>8. SameRecvs(s2, s4)
    BY <2>6, ReleaseSame DEF SameRecvs
  <2> HIDE DEF s3, s4
  <2>9. /\ Counted(s3) /\ s3.posted = mem.posted - 1 /\ s3.recvs = mem.recvs
        /\ Counted(s4) /\ s4.posted = mem.posted - 1 /\ s4.recvs = mem.recvs
    BY <2>3, <2>5, <2>6, <2>7, <2>8 DEF SameRecvs
  <2> QED
    BY <1>2, <2>2, <2>4, <2>9
<1>8. ASSUME NEW v \in VCs, RecvAck(v)
      PROVE  RecvsInv'
  <2> DEFINE a == Arrived(mem, v)
  <2>1. PICK n \in 0..Len(mem.vc[v].sendwin) :
          mem' = CountRecv(Release(ProcessAck(a, v, n), {Got(mem)}))
    BY <1>8 DEF RecvAck
  <2>2. mem.posted > 0 /\ UNCHANGED strays
    BY <1>8 DEF RecvAck, Packet
  <2>3. Counted(a) /\ a.posted = mem.posted - 1 /\ a.recvs = mem.recvs
    BY <1>0, ArrivedCounts
  <2> HIDE DEF a
  <2> DEFINE s1 == ProcessAck(a, v, n)
             s2 == Release(s1, {Got(mem)})
  <2>4. SameRecvs(a, s1)
    BY <2>3, ProcessAckSame
  <2>5. mem' = CountRecv(s2)
    BY <2>1
  <2> HIDE DEF s1
  <2>6. SameRecvs(s1, s2)
    BY <2>4, ReleaseSame DEF SameRecvs
  <2> HIDE DEF s2
  <2>7. Counted(s2) /\ s2.posted = mem.posted - 1 /\ s2.recvs = mem.recvs
    BY <2>3, <2>4, <2>6 DEF SameRecvs
  <2> QED
    BY <1>2, <2>2, <2>5, <2>7
<1>9. ASSUME NEW v \in VCs, RecvDisconnect(v)
      PROVE  RecvsInv'
  <2> DEFINE a == Arrived(mem, v)
  <2>1. PICK n \in 0..Len(mem.vc[v].sendwin) :
          LET t == Release(ProcessAck(a, v, n), {Got(mem)})
          IN  mem' = CountRecv(VCFree([t EXCEPT !.vc[v].remoteClosed = TRUE], v))
    BY <1>9 DEF RecvDisconnect
  <2>2. mem.posted > 0 /\ UNCHANGED strays
    BY <1>9 DEF RecvDisconnect, Packet
  <2>3. Counted(a) /\ a.posted = mem.posted - 1 /\ a.recvs = mem.recvs
    BY <1>0, ArrivedCounts
  <2> HIDE DEF a
  <2> DEFINE s1 == ProcessAck(a, v, n)
             s2 == Release(s1, {Got(mem)})
             s3 == [s2 EXCEPT !.vc[v].remoteClosed = TRUE]
             s4 == VCFree(s3, v)
  <2>4. SameRecvs(a, s1)
    BY <2>3, ProcessAckSame
  <2>5. mem' = CountRecv(s4)
    BY <2>1
  <2> HIDE DEF s1
  <2>6. SameRecvs(s1, s2)
    BY <2>4, ReleaseSame DEF SameRecvs
  <2> HIDE DEF s2
  <2>7. SameRecvs(s2, s3)
    BY <2>6 DEF SameRecvs, Counted
  <2> HIDE DEF s3
  <2>8. SameRecvs(s3, s4)
    BY <2>7, VCFreeSame DEF SameRecvs
  <2> HIDE DEF s4
  <2>9. Counted(s4) /\ s4.posted = mem.posted - 1 /\ s4.recvs = mem.recvs
    BY <2>3, <2>4, <2>6, <2>7, <2>8 DEF SameRecvs
  <2> QED
    BY <1>2, <2>2, <2>5, <2>9
<1>10. ASSUME NEW b \in Vbufs, Resend(b)
       PROVE  RecvsInv'
  <2> DEFINE t == [mem EXCEPT !.inprogress = @ \cup {b}]
  <2>1. SameRecvs(mem, t)
    BY <1>0 DEF SameRecvs, Counted
  <2>2. /\ \/ mem' = Post(t, << b >>)
           \/ mem' = [t EXCEPT !.ext_send_queue = Append(@, b)]
        /\ UNCHANGED strays
    BY <1>10 DEF Resend
  <2> HIDE DEF t
  <2>3. SameRecvs(t, Post(t, << b >>)) /\ SameRecvs(t, [t EXCEPT !.ext_send_queue = Append(@, b)])
    <3>1. SameRecvs(t, Post(t, << b >>))
      BY <2>1, PostSame DEF SameRecvs
    <3>2. SameRecvs(t, [t EXCEPT !.ext_send_queue = Append(@, b)])
      BY <2>1 DEF SameRecvs, Counted
    <3> QED
      BY <3>1, <3>2
  <2> QED
    BY <1>1, <2>1, <2>2, <2>3, SameTrans
<1>11. ASSUME NEW b \in Vbufs, Toss(b)
       PROVE  RecvsInv'
  <2> DEFINE t == Unlink(mem, mem.vc_of[b], {b})
  <2>1. SameRecvs(mem, t)
    BY <1>0, UnlinkSame
  <2>2. mem' = Release(t, {b}) /\ UNCHANGED strays
    BY <1>11 DEF Toss
  <2> HIDE DEF t
  <2>3. SameRecvs(t, mem')
    BY <2>1, <2>2, ReleaseSame DEF SameRecvs
  <2> QED
    BY <1>1, <2>1, <2>2, <2>3, SameTrans
<1>12. ASSUME NEW b \in Vbufs, PollSend(b)
       PROVE  RecvsInv'
  <2> DEFINE v == mem.vc_of[b]
             s1 == [mem EXCEPT !.sends = @ \ {b}, !.vc[v].outstanding = @ - 1]
             s2 == IF s1.vc[v].state = "closing" /\ s1.vc[v].outstanding = 0
                   THEN Delete(s1, v) ELSE s1
             s3 == [s2 EXCEPT !.inprogress = @ \ {b}, !.pending = @ \ {b}]
  <2>1. (mem' = Release(s3, {b}) \/ mem' = s3) /\ UNCHANGED strays
    BY <1>12 DEF PollSend
  <2>2. SameRecvs(mem, s1)
    BY <1>0 DEF SameRecvs, Counted
  <2> HIDE DEF s1
  <2>3. SameRecvs(s1, s2)
    BY <2>2 DEF SameRecvs, Counted, Delete
  <2> HIDE DEF s2
  <2>4. SameRecvs(s2, s3)
    BY <2>3 DEF SameRecvs, Counted
  <2> HIDE DEF s3
  <2>5. SameRecvs(s3, Release(s3, {b})) /\ SameRecvs(s3, s3)
    BY <2>4, ReleaseSame DEF SameRecvs
  <2>6. SameRecvs(mem, mem')
    BY <2>1, <2>2, <2>3, <2>4, <2>5 DEF SameRecvs
  <2> QED
    BY <1>1, <2>1, <2>6
<1>13. CASE RecvConnect
  <2> DEFINE s == [mem EXCEPT !.posted = @ - 1]
  <2>1. Counted(s) /\ s.posted = mem.posted - 1 /\ s.recvs = mem.recvs
    BY <1>0 DEF Counted
  <2>2. mem' = CountRecv(s) /\ mem.posted > 0 /\ UNCHANGED strays
    BY <1>13 DEF RecvConnect
  <2> QED
    BY <1>2, <2>1, <2>2
<1>14. CASE RecvStray
  BY <1>14, BuffersAssumption DEF RecvStray, RecvsInv, Counted
<1>15. CASE EndPoll
  <2> DEFINE t == [mem EXCEPT !.avail = @ + sendcnt]
             first == FirstOf(mem.ext_send_queue, t.avail)
             u == [t EXCEPT !.ext_send_queue = AfterFirst(@, Len(first))]
  <2>1. mem' = Post(u, first) /\ UNCHANGED strays
    BY <1>15 DEF EndPoll, UpdateSendCredits
  <2>2. SameRecvs(mem, t)
    BY <1>0 DEF SameRecvs, Counted
  <2> HIDE DEF t, first
  <2>3. SameRecvs(t, u)
    BY <2>2 DEF SameRecvs, Counted
  <2> HIDE DEF u
  <2>4. SameRecvs(u, mem')
    BY <2>1, <2>3, PostSame DEF SameRecvs
  <2>5. SameRecvs(mem, mem')
    BY <2>2, <2>3, <2>4 DEF SameRecvs
  <2> QED
    BY <1>1, <2>1, <2>5
<1>16. CASE UNCHANGED vars
  BY <1>16 DEF vars, RecvsInv
<1> QED
  BY <1>3, <1>4, <1>5, <1>6, <1>7, <1>8, <1>9, <1>10, <1>11, <1>12, <1>13, <1>14, <1>15, <1>16
  DEF Next

\* A process with fewer discarded packets than credit_preserve always has a
\* receive posted (HearsThePeers): cq_poll counts every packet but those, and
\* posts new receives at the low-water mark.  Late packets do not disturb it.
THEOREM PeersAreHeard == Spec => []HearsThePeers
<1>1. Init => RecvsInv
  BY RecvsInit
<1>2. RecvsInv /\ [Next]_vars => RecvsInv'
  BY RecvsStep
<1>3. RecvsInv => HearsThePeers
  BY BuffersAssumption DEF RecvsInv, HearsThePeers
<1> QED
  BY <1>1, <1>2, <1>3, PTL DEF Spec

-----------------------------------------------------------------------------
(* The buffers, one lemma per operator of the model.                          *)

LEMMA Sizes == Window \in Nat /\ Window > 0 /\ MaxSends \in Nat /\ MaxSends > 0
BY BuffersAssumption

Postable(s, bufs, sub, left) ==
    /\ bufs \in Seq(Vbufs) /\ IsInjective(bufs) /\ ToSet(bufs) \subseteq sub
    /\ Len(bufs) <= s.avail /\ left = sub \ ToSet(bufs)

Posted(s, t, bufs) ==
    /\ t.free = s.free /\ t.ext_send_queue = s.ext_send_queue /\ t.vc_of = s.vc_of
    /\ t.avail = s.avail - Len(bufs)
    /\ \A v \in VCs : t.vc[v].state = s.vc[v].state

\* Vbufs that are being submitted go to the hardware.
LEMMA PostOK ==
    ASSUME NEW s, NEW n \in Nat, NEW hand, NEW sub, MemOK(s, n, hand, sub),
           NEW bufs, NEW left, Postable(s, bufs, sub, left)
    PROVE  MemOK(Post(s, bufs), n, hand, left) /\ Posted(s, Post(s, bufs), bufs)
<1> /\ bufs \in Seq(Vbufs) /\ IsInjective(bufs) /\ ToSet(bufs) \subseteq sub
    /\ Len(bufs) <= s.avail /\ left = sub \ ToSet(bufs)
  BY DEF Postable
<1> DEFINE A == ToSet(bufs)
           t == Post(s, bufs)
           rest == sub \ A
           of(v) == {b \in A : s.vc_of[b] = v}
<1>0. /\ MemType(s) /\ FreeOK(s) /\ OutOK(s, sub) /\ FlagsOK(s, sub) /\ OwnerOK(s, sub)
      /\ WindowsOK(s, sub) /\ PlaceOK(s, hand, sub) /\ CreditOK(s, n)
  BY DEF MemOK
<1>1. /\ A \subseteq Vbufs /\ IsFiniteSet(A) /\ Cardinality(A) = Len(bufs)
      /\ \A v : IsFiniteSet(of(v)) /\ Cardinality(of(v)) \in Nat
  <2>1. A \subseteq Vbufs /\ IsFiniteSet(A) /\ Cardinality(A) = Len(bufs)
    BY ToSetIn, ListCount
  <2>2. ASSUME NEW v
        PROVE  IsFiniteSet(of(v)) /\ Cardinality(of(v)) \in Nat
    <3>1. of(v) \in SUBSET A
      OBVIOUS
    <3> QED
      BY <3>1, <2>1, FS_Subset, FS_CardinalityType
  <2> QED
    BY <2>1, <2>2
<1> DEFINE vc == [v \in VCs |-> [s.vc[v] EXCEPT !.outstanding = @ + Cardinality(of(v))]]
<1>2. t = [s EXCEPT !.sends = @ \cup A, !.avail = @ - Len(bufs), !.vc = vc]
  BY DEF Post
<1> HIDE DEF t, A, of
<1>3. /\ MemType(t)
      /\ t.sends = s.sends \cup A /\ t.avail = s.avail - Len(bufs)
      /\ t.free = s.free /\ t.ext_send_queue = s.ext_send_queue /\ t.unack = s.unack
      /\ t.inprogress = s.inprogress /\ t.pending = s.pending /\ t.vc_of = s.vc_of
      /\ t.twice = s.twice /\ t.cut = s.cut
      /\ \A v \in VCs : /\ t.vc[v].state = s.vc[v].state
                        /\ t.vc[v].sendwin = s.vc[v].sendwin
                        /\ t.vc[v].extwin = s.vc[v].extwin
                        /\ t.vc[v].recvwin = s.vc[v].recvwin
                        /\ t.vc[v].outstanding = s.vc[v].outstanding + Cardinality(of(v))
  <2>1. bufs \in Seq(Vbufs) /\ s.avail \in Nat /\ s.avail - Len(bufs) \in Nat
    BY <1>0 DEF MemType
  <2>2. ASSUME NEW v \in VCs
        PROVE  /\ vc[v].state = s.vc[v].state
               /\ vc[v].sendwin = s.vc[v].sendwin
               /\ vc[v].extwin = s.vc[v].extwin
               /\ vc[v].recvwin = s.vc[v].recvwin
               /\ vc[v].outstanding = s.vc[v].outstanding + Cardinality(of(v))
               /\ vc[v] \in VCType
    <3>1. s.vc[v] \in VCType
      BY <1>0 DEF MemType
    <3>2. PICK w \in VCType : w = s.vc[v]
      BY <3>1
    <3>3. PICK k \in Nat : k = Cardinality(of(v))
      BY <1>1
    <3>4. vc[v] = [w EXCEPT !.outstanding = @ + k]
      BY <3>2, <3>3
    <3>5. w.outstanding + k \in Int
      BY DEF VCType
    <3> QED
      BY <3>2, <3>3, <3>4, <3>5 DEF VCType
  <2>3. vc \in [VCs -> VCType]
    BY <2>2
  <2> HIDE DEF vc
  <2>4. MemType(t)
    BY <1>0, <1>1, <1>2, <2>1, <2>3 DEF MemType
  <2>5. t.vc = vc
    BY <1>0, <1>2 DEF MemType
  <2>6. /\ t.sends = s.sends \cup A /\ t.avail = s.avail - Len(bufs)
        /\ t.free = s.free /\ t.ext_send_queue = s.ext_send_queue /\ t.unack = s.unack
        /\ t.inprogress = s.inprogress /\ t.pending = s.pending /\ t.vc_of = s.vc_of
        /\ t.twice = s.twice /\ t.cut = s.cut
    BY <1>0, <1>2 DEF MemType
  <2> QED
    BY <2>2, <2>4, <2>5, <2>6
<1> HIDE DEF rest
<1>4. Out(t, rest) = Out(s, sub) /\ A \subseteq Out(s, sub)
  BY <1>3 DEF Out, rest, A
<1>5. FreeOK(t)
  BY <1>0, <1>3 DEF FreeOK
<1>6. OutOK(t, rest)
  <2>1. OutOK(s, sub)
    BY <1>0
  <2>2. IsInjective(t.ext_send_queue) /\ rest \subseteq Vbufs
    BY <2>1, <1>3 DEF OutOK, rest
  <2>3. ASSUME NEW b \in Vbufs
        PROVE  /\ b \in t.sends => b \notin ToSet(t.ext_send_queue)
               /\ b \in rest => b \notin t.sends \cup ToSet(t.ext_send_queue)
               /\ b \in t.cut => b \notin Out(t, rest)
    BY <2>1, <1>3, <1>4 DEF OutOK, rest, A
  <2> QED
    BY <2>2, <2>3 DEF OutOK
<1>7. FlagsOK(t, rest)
  BY <1>0, <1>3, <1>4 DEF FlagsOK
<1>8. OwnerOK(t, rest)
  <2> SUFFICES ASSUME NEW b \in Vbufs
               PROVE  LET state(S) == \E v \in VCs : t.vc_of[b] = v /\ t.vc[v].state \in S
                      IN  /\ b \in t.sends => state({"open", "closing"})
                          /\ b \in ToSet(t.ext_send_queue) \cup rest => state({"open"})
                          /\ b \in t.cut => state({"closing", "deleted"})
                          /\ b \in t.unack => state({"open"}) \/ b \in t.cut \cap t.inprogress
    BY DEF OwnerOK
  <2>1. \A S : (\E v \in VCs : t.vc_of[b] = v /\ t.vc[v].state \in S)
               <=> (\E v \in VCs : s.vc_of[b] = v /\ s.vc[v].state \in S)
    BY <1>3
  <2> QED
    BY <2>1, <1>0, <1>3 DEF OwnerOK, rest, A
<1>9. WindowsOK(t, rest)
  BY <1>0, <1>3, <1>4 DEF WindowsOK
<1>10. PlaceOK(t, hand, rest)
  <2>1. \A b : Waiting(t, b) <=> Waiting(s, b)
    BY <1>3 DEF Waiting
  <2> QED
    BY <2>1, <1>0, <1>3, <1>4 DEF PlaceOK
<1>11. CreditOK(t, n)
  <2>1. s.sends \cap A = {} /\ s.sends \subseteq Vbufs
    BY <1>0 DEF OutOK, A, MemType
  <2>2. IsFiniteSet(s.sends) /\ Cardinality(s.sends) \in Nat
    BY <2>1, BuffersAssumption, FS_Subset, FS_CardinalityType
  <2>3. Cardinality(t.sends) = Cardinality(s.sends) + Cardinality(A)
    BY <2>1, <2>2, <1>1, <1>3, DisjointCount
  <2>4. ASSUME NEW v \in VCs, t.vc[v].state # "deleted"
        PROVE  t.vc[v].outstanding = Cardinality({b \in t.sends : t.vc_of[b] = v})
    <3> DEFINE had == {b \in s.sends : s.vc_of[b] = v}
    <3>1. {b \in t.sends : t.vc_of[b] = v} = had \cup of(v) /\ had \cap of(v) = {}
      BY <1>3, <2>1 DEF of
    <3>2. had \subseteq s.sends
      OBVIOUS
    <3>3. IsFiniteSet(had) /\ Cardinality(had) \in Nat
      BY <3>2, <2>2, FS_Subset, FS_CardinalityType
    <3>4. s.vc[v].outstanding = Cardinality(had)
      BY <1>0, <1>3, <2>4 DEF CreditOK
    <3> HIDE DEF had
    <3>5. Cardinality(had \cup of(v)) = Cardinality(had) + Cardinality(of(v))
      BY <3>1, <3>3, <1>1, DisjointCount
    <3> QED
      BY <3>1, <3>4, <3>5, <1>3
  <2>5. t.avail + Cardinality(t.sends) + n = MaxSends
    <3>1. s.avail + Cardinality(s.sends) + n = MaxSends /\ s.avail \in Nat
      BY <1>0 DEF CreditOK, MemType
    <3> QED
      BY <3>1, <2>2, <2>3, <1>1, <1>3
  <2> QED
    BY <2>4, <2>5 DEF CreditOK
<1>12. MemOK(t, n, hand, rest)
  BY <1>3, <1>5, <1>6, <1>7, <1>8, <1>9, <1>10, <1>11 DEF MemOK
<1> QED
  BY <1>12, <1>3 DEF t, rest, A, Posted

\* Vbufs move between the extended send queue and those being submitted.
LEMMA RequeueOK ==
    ASSUME NEW s, NEW n \in Nat, NEW hand, NEW sub, MemOK(s, n, hand, sub),
           NEW q \in Seq(Vbufs), IsInjective(q), NEW rest \in SUBSET Vbufs,
           ToSet(q) \cup rest = ToSet(s.ext_send_queue) \cup sub,
           ToSet(q) \cap rest = {}
    PROVE  LET t == [s EXCEPT !.ext_send_queue = q]
           IN  /\ MemOK(t, n, hand, rest)
               /\ t.free = s.free /\ t.ext_send_queue = q /\ t.avail = s.avail /\ t.vc_of = s.vc_of
               /\ \A v \in VCs : t.vc[v].state = s.vc[v].state
<1> DEFINE t == [s EXCEPT !.ext_send_queue = q]
<1>0. /\ MemType(s) /\ FreeOK(s) /\ OutOK(s, sub) /\ FlagsOK(s, sub) /\ OwnerOK(s, sub)
      /\ WindowsOK(s, sub) /\ PlaceOK(s, hand, sub) /\ CreditOK(s, n)
  BY DEF MemOK
<1>1. /\ MemType(t) /\ t.ext_send_queue = q
      /\ t.sends = s.sends /\ t.avail = s.avail
      /\ t.free = s.free /\ t.unack = s.unack
      /\ t.inprogress = s.inprogress /\ t.pending = s.pending /\ t.vc_of = s.vc_of
      /\ t.twice = s.twice /\ t.cut = s.cut /\ t.vc = s.vc
  BY <1>0 DEF MemType
<1> HIDE DEF t
<1>2. Out(t, rest) = Out(s, sub)
  BY <1>1 DEF Out
<1>3. FreeOK(t)
  BY <1>0, <1>1 DEF FreeOK
<1>4. OutOK(t, rest)
  <2>1. ASSUME NEW b \in Vbufs
        PROVE  /\ b \in t.sends => b \notin ToSet(t.ext_send_queue)
               /\ b \in rest => b \notin t.sends \cup ToSet(t.ext_send_queue)
               /\ b \in t.cut => b \notin Out(t, rest)
    BY <1>0, <1>1, <1>2 DEF OutOK
  <2> QED
    BY <2>1, <1>1 DEF OutOK
<1>5. FlagsOK(t, rest)
  BY <1>0, <1>1, <1>2 DEF FlagsOK
<1>6. OwnerOK(t, rest)
  BY <1>0, <1>1 DEF OwnerOK
<1>7. WindowsOK(t, rest)
  BY <1>0, <1>1, <1>2 DEF WindowsOK
<1>8. PlaceOK(t, hand, rest)
  BY <1>0, <1>1, <1>2 DEF PlaceOK, Waiting
<1>9. CreditOK(t, n)
  BY <1>0, <1>1 DEF CreditOK
<1>10. MemOK(t, n, hand, rest)
  BY <1>1, <1>3, <1>4, <1>5, <1>6, <1>7, <1>8, <1>9 DEF MemOK
<1> QED
  BY <1>10, <1>1 DEF t

\* What a call may rely on between two operators.
Good(s, n, hand) == MemOK(s, n, hand, {}) /\ Drained(s)

\* The free list, the owners of the vbufs and the states of the VCs stay.
Kept(s, t) ==
    /\ t.free = s.free /\ t.vc_of = s.vc_of
    /\ \A w \in VCs : t.vc[w].state = s.vc[w].state

\* What a call leaves to the next one: the states of the VCs stay, the vbufs in
\* hand keep their owners, and the free list only grows.
Grown(s, t, hand) ==
    /\ s.free \subseteq t.free
    /\ \A w \in VCs : t.vc[w].state = s.vc[w].state
    /\ \A b \in hand : t.vc_of[b] = s.vc_of[b]

LEMMA GrownTrans ==
    /\ \A s, t, hand : Kept(s, t) => Grown(s, t, hand)
    /\ \A s, t, u, hand : Grown(s, t, hand) /\ Grown(t, u, hand) => Grown(s, u, hand)
BY DEF Kept, Grown

LEMMA SubmitOK ==
    ASSUME NEW s, NEW n \in Nat, NEW hand, NEW bufs \in Seq(Vbufs), IsInjective(bufs),
           MemOK(s, n, hand, ToSet(bufs)), Drained(s)
    PROVE  LET t == Submit(s, bufs)
           IN  /\ Good(t, n, hand) /\ t.free = s.free /\ t.vc_of = s.vc_of
               /\ \A v \in VCs : t.vc[v].state = s.vc[v].state
<1> DEFINE now == IF s.ext_send_queue = << >> THEN FirstOf(bufs, s.avail) ELSE << >>
           later == AfterFirst(bufs, Len(now))
           p == Post(s, now)
           q == s.ext_send_queue \o later
           sub == ToSet(bufs)
<1>0. s.avail \in Nat /\ s.ext_send_queue \in Seq(Vbufs)
      /\ IsInjective(s.ext_send_queue) /\ ToSet(s.ext_send_queue) \cap ToSet(bufs) = {}
  <2>1. ToSet(bufs) \subseteq Vbufs
    BY ToSetIn
  <2> QED
    BY <2>1 DEF MemOK, MemType, OutOK
<1>1. /\ now \in Seq(Vbufs) /\ later \in Seq(Vbufs) /\ Len(now) <= s.avail
      /\ ToSet(bufs) = ToSet(now) \cup ToSet(later)
      /\ IsInjective(now) /\ IsInjective(later) /\ ToSet(now) \cap ToSet(later) = {}
      /\ s.ext_send_queue = << >> => Len(now) = s.avail \/ later = << >>
  <2>1. CASE s.ext_send_queue = << >>
    <3>1. PICK f : f = FirstOf(bufs, s.avail)
      OBVIOUS
    <3>2. PICK r : r = AfterFirst(bufs, Len(f))
      OBVIOUS
    <3>3. /\ f \in Seq(Vbufs) /\ r \in Seq(Vbufs)
          /\ Len(f) = IF s.avail < Len(bufs) THEN s.avail ELSE Len(bufs)
          /\ Len(r) = Len(bufs) - Len(f)
          /\ ToSet(bufs) = ToSet(f) \cup ToSet(r)
          /\ IsInjective(f) /\ IsInjective(r) /\ ToSet(f) \cap ToSet(r) = {}
      BY <1>0, <3>1, <3>2, SplitList
    <3>4. f = now /\ r = later
      BY <2>1, <3>1, <3>2
    <3>5. Len(f) <= s.avail /\ (Len(f) = s.avail \/ r = << >>)
      BY <3>3, <1>0
    <3> QED
      BY <3>3, <3>4, <3>5
  <2>2. CASE s.ext_send_queue # << >>
    <3>1. PICK f : f = FirstOf(bufs, 0)
      OBVIOUS
    <3>2. f = << >> /\ Len(f) = 0
      BY <3>1 DEF FirstOf
    <3>3. PICK r : r = AfterFirst(bufs, Len(f))
      OBVIOUS
    <3>4. /\ f \in Seq(Vbufs) /\ r \in Seq(Vbufs)
          /\ ToSet(bufs) = ToSet(f) \cup ToSet(r)
          /\ IsInjective(f) /\ IsInjective(r) /\ ToSet(f) \cap ToSet(r) = {}
      BY <3>1, <3>3, SplitList
    <3>5. f = now /\ r = later
      BY <2>2, <3>2, <3>3
    <3> QED
      BY <2>2, <3>2, <3>4, <3>5, <1>0
  <2> QED
    BY <2>1, <2>2
<1>2. Submit(s, bufs) = [p EXCEPT !.ext_send_queue = @ \o later]
  BY DEF Submit
<1> HIDE DEF now, later
<1>3. /\ MemOK(p, n, hand, sub \ ToSet(now))
      /\ p.free = s.free /\ p.ext_send_queue = s.ext_send_queue /\ p.vc_of = s.vc_of
      /\ p.avail = s.avail - Len(now)
      /\ \A v \in VCs : p.vc[v].state = s.vc[v].state
  <2>1. PICK left : left = sub \ ToSet(now)
    OBVIOUS
  <2>2. Postable(s, now, sub, left)
    BY <1>1, <2>1 DEF Postable
  <2>3. MemOK(s, n, hand, sub)
    OBVIOUS
  <2> HIDE DEF sub
  <2>4. MemOK(p, n, hand, left) /\ Posted(s, p, now)
    BY ONLY <2>2, <2>3, n \in Nat, PostOK
  <2> QED
    BY <2>1, <2>4 DEF Posted
<1>4. sub \ ToSet(now) = ToSet(later)
  BY <1>1
<1> HIDE DEF p
<1>5. /\ q \in Seq(Vbufs) /\ ToSet(q) = ToSet(s.ext_send_queue) \cup ToSet(later)
      /\ IsInjective(q)
  <2>1. ToSet(s.ext_send_queue) \cap ToSet(later) = {}
    BY <1>0, <1>1
  <2>2. PICK e \in Seq(Vbufs) : e = s.ext_send_queue
    BY <1>0
  <2>3. e \o later \in Seq(Vbufs) /\ ToSet(e \o later) = ToSet(e) \cup ToSet(later)
        /\ IsInjective(e \o later)
    BY <1>0, <1>1, <2>1, <2>2, JoinedLists
  <2> QED
    BY <2>2, <2>3
<1> HIDE DEF q
<1> DEFINE t == [p EXCEPT !.ext_send_queue = q]
<1>6. Submit(s, bufs) = t
  BY <1>2, <1>3 DEF q
<1>7. /\ MemOK(t, n, hand, {})
      /\ t.free = p.free /\ t.ext_send_queue = q /\ t.avail = p.avail /\ t.vc_of = p.vc_of
      /\ \A v \in VCs : t.vc[v].state = p.vc[v].state
  <2>1. MemOK(p, n, hand, ToSet(later))
    BY <1>3, <1>4
  <2>2. ToSet(q) \cup {} = ToSet(p.ext_send_queue) \cup ToSet(later) /\ ToSet(q) \cap {} = {}
        /\ {} \in SUBSET Vbufs
    BY <1>3, <1>5
  <2> QED
    BY <2>1, <2>2, <1>5, RequeueOK
<1> HIDE DEF t
<1>8. Drained(t)
  <2>1. CASE s.ext_send_queue = << >> /\ later # << >>
    BY <2>1, <1>0, <1>1, <1>3, <1>7 DEF Drained
  <2>2. CASE s.ext_send_queue = << >> /\ later = << >>
    <3>1. q = << >>
      BY <2>2 DEF q
    <3> QED
      BY <3>1, <1>7 DEF Drained
  <2>3. CASE s.ext_send_queue # << >>
    <3>1. s.avail = 0
      BY <2>3 DEF Drained
    <3>2. t.avail = 0
      BY <3>1, <1>0, <1>1, <1>3, <1>7
    <3> QED
      BY <3>2 DEF Drained
  <2> QED
    BY <2>1, <2>2, <2>3
<1> QED
  BY <1>3, <1>6, <1>7, <1>8 DEF Good

\* Nothing refers to a vbuf on the free list.
LEMMA FreeUnused ==
    ASSUME NEW s, NEW n, NEW hand, NEW sub, MemOK(s, n, hand, sub), NEW b \in s.free
    PROVE  /\ b \in Vbufs /\ s.vc_of[b] = None
           /\ b \notin Out(s, sub) /\ b \notin s.unack /\ b \notin s.cut /\ b \notin s.inprogress
           /\ b \notin s.pending /\ b \notin hand /\ ~Waiting(s, b)
<1>0. /\ MemType(s) /\ FreeOK(s) /\ FlagsOK(s, sub) /\ OwnerOK(s, sub)
      /\ WindowsOK(s, sub) /\ PlaceOK(s, hand, sub) /\ None \notin VCs
  BY BuffersAssumption DEF MemOK
<1>1. b \in Vbufs /\ s.vc_of[b] = None
  BY <1>0 DEF MemType, FreeOK
<1>2. b \notin Out(s, sub) /\ b \notin s.unack /\ b \notin s.cut
  BY <1>0, <1>1 DEF OwnerOK, Out
<1>3. b \notin s.inprogress /\ b \notin s.pending
  BY <1>0, <1>1, <1>2 DEF FlagsOK
<1>4. ~Waiting(s, b)
  BY <1>0, <1>1 DEF Waiting, WindowsOK
<1>5. b \notin hand
  BY <1>0, <1>1 DEF PlaceOK
<1> QED
  BY <1>1, <1>2, <1>3, <1>4, <1>5

Taken(s, t, g, v) ==
    /\ g \in s.free /\ g \in Vbufs /\ t.free = s.free \ {g} /\ t.vc_of[g] = v
    /\ t.ext_send_queue = s.ext_send_queue /\ t.avail = s.avail /\ t.vc = s.vc
    /\ \A b \in Vbufs : b # g => t.vc_of[b] = s.vc_of[b]

\* vbuf_get.
LEMMA GetOK ==
    ASSUME NEW s, NEW n \in Nat, NEW hand, NEW sub, MemOK(s, n, hand, sub),
           s.free # {}, NEW v \in VCs, NEW next, next = hand \cup {Got(s)}
    PROVE  MemOK(Get(s, v), n, next, sub) /\ Taken(s, Get(s, v), Got(s), v)
<1> DEFINE t == Get(s, v)
<1>0. /\ MemType(s) /\ FreeOK(s) /\ OutOK(s, sub) /\ FlagsOK(s, sub) /\ OwnerOK(s, sub)
      /\ WindowsOK(s, sub) /\ PlaceOK(s, hand, sub) /\ CreditOK(s, n)
  BY DEF MemOK
<1>1. PICK g : g = Got(s)
  OBVIOUS
<1>2. g \in s.free /\ g \in Vbufs
  BY <1>0, <1>1 DEF Got, MemType
<1>3. /\ s.vc_of[g] = None
      /\ g \notin Out(s, sub) /\ g \notin s.unack /\ g \notin s.cut /\ g \notin s.inprogress
      /\ g \notin s.pending /\ g \notin hand /\ ~Waiting(s, g)
  BY <1>2, FreeUnused
<1>4. t = [s EXCEPT !.free = @ \ {g}, !.vc_of[g] = v]
  BY <1>1 DEF Get
<1> HIDE DEF t
<1>5. /\ MemType(t) /\ t.ext_send_queue = s.ext_send_queue
      /\ t.sends = s.sends /\ t.avail = s.avail
      /\ t.free = s.free \ {g} /\ t.unack = s.unack
      /\ t.inprogress = s.inprogress /\ t.pending = s.pending
      /\ t.twice = s.twice /\ t.cut = s.cut /\ t.vc = s.vc
      /\ t.vc_of[g] = v /\ \A b \in Vbufs : b # g => t.vc_of[b] = s.vc_of[b]
  BY <1>0, <1>2, <1>4 DEF MemType
<1>6. Out(t, sub) = Out(s, sub) /\ \A b : Waiting(t, b) <=> Waiting(s, b)
  BY <1>5 DEF Out, Waiting
<1>7. FreeOK(t)
  BY <1>0, <1>2, <1>5, BuffersAssumption DEF FreeOK
<1>8. OutOK(t, sub)
  BY <1>0, <1>5, <1>6 DEF OutOK
<1>9. FlagsOK(t, sub)
  BY <1>0, <1>5, <1>6 DEF FlagsOK
<1>10. OwnerOK(t, sub)
  <2>1. ASSUME NEW b \in Vbufs, b # g
        PROVE  LET state(S) == \E w \in VCs : t.vc_of[b] = w /\ t.vc[w].state \in S
               IN  /\ b \in t.sends => state({"open", "closing"})
                   /\ b \in ToSet(t.ext_send_queue) \cup sub => state({"open"})
                   /\ b \in t.cut => state({"closing", "deleted"})
                   /\ b \in t.unack => state({"open"}) \/ b \in t.cut \cap t.inprogress
    BY <2>1, <1>0, <1>5 DEF OwnerOK
  <2>2. g \notin t.sends /\ g \notin ToSet(t.ext_send_queue) \cup sub /\ g \notin t.cut
        /\ g \notin t.unack
    BY <1>3, <1>5 DEF Out
  <2> QED
    BY <2>1, <2>2 DEF OwnerOK
<1>11. WindowsOK(t, sub)
  <2>1. ASSUME NEW w \in VCs, s.vc[w].state = "open"
        PROVE  g \notin ToSet(s.vc[w].sendwin) /\ g \notin ToSet(s.vc[w].extwin)
               /\ g \notin s.vc[w].recvwin
    BY <2>1, <1>0, <1>2, <1>3 DEF WindowsOK, Waiting
  <2> QED
    BY <2>1, <1>0, <1>3, <1>5, <1>6 DEF WindowsOK
<1>12. PlaceOK(t, hand \cup {g}, sub)
  <2>1. hand \subseteq Vbufs
    BY <1>0 DEF PlaceOK
  <2> QED
    BY <2>1, <1>0, <1>2, <1>3, <1>5, <1>6 DEF PlaceOK
<1>13. CreditOK(t, n)
  <2>1. g \notin s.sends
    BY <1>3 DEF Out
  <2>2. s.sends \subseteq Vbufs
    BY <1>0 DEF MemType
  <2>3. \A w \in VCs : {b \in t.sends : t.vc_of[b] = w} = {b \in s.sends : s.vc_of[b] = w}
    BY <2>1, <2>2, <1>5
  <2> QED
    BY <2>3, <1>0, <1>5 DEF CreditOK
<1>14. MemOK(t, n, hand \cup {g}, sub)
  BY <1>5, <1>7, <1>8, <1>9, <1>10, <1>11, <1>12, <1>13 DEF MemOK
<1> QED
  BY <1>1, <1>2, <1>5, <1>14 DEF t, Taken

\* Steps that leave all lists as they are.
Alike(s, t) ==
    /\ t.ext_send_queue = s.ext_send_queue /\ t.sends = s.sends /\ t.avail = s.avail
    /\ t.free = s.free /\ t.unack = s.unack /\ t.vc_of = s.vc_of
    /\ t.inprogress = s.inprogress /\ t.pending = s.pending
    /\ t.twice = s.twice /\ t.cut = s.cut
    /\ \A v \in VCs :
          /\ t.vc[v].state = s.vc[v].state /\ t.vc[v].outstanding = s.vc[v].outstanding
          /\ t.vc[v].sendwin = s.vc[v].sendwin /\ t.vc[v].extwin = s.vc[v].extwin
          /\ t.vc[v].recvwin = s.vc[v].recvwin

LEMMA AlikeOK ==
    ASSUME NEW s, NEW t, NEW n \in Nat, NEW hand, MemType(t), Alike(s, t), Good(s, n, hand)
    PROVE  Good(t, n, hand)
<1>0. /\ MemType(s) /\ FreeOK(s) /\ OutOK(s, {}) /\ FlagsOK(s, {}) /\ OwnerOK(s, {})
      /\ WindowsOK(s, {}) /\ PlaceOK(s, hand, {}) /\ CreditOK(s, n) /\ Drained(s)
  BY DEF MemOK, Good
<1>1. Out(t, {}) = Out(s, {}) /\ \A b : Waiting(t, b) <=> Waiting(s, b)
  BY DEF Alike, Out, Waiting
<1>2. FreeOK(t) /\ OutOK(t, {}) /\ Drained(t)
  BY <1>0, <1>1 DEF Alike, FreeOK, OutOK, Drained
<1>3. FlagsOK(t, {})
  BY <1>0, <1>1 DEF Alike, FlagsOK
<1>4. OwnerOK(t, {})
  <2>1. \A b, S : (\E v \in VCs : t.vc_of[b] = v /\ t.vc[v].state \in S)
               <=> (\E v \in VCs : s.vc_of[b] = v /\ s.vc[v].state \in S)
    BY DEF Alike
  <2> QED
    BY <2>1, <1>0 DEF Alike, OwnerOK
<1>5. WindowsOK(t, {})
  BY <1>0, <1>1 DEF Alike, WindowsOK
<1>6. PlaceOK(t, hand, {}) /\ CreditOK(t, n)
  BY <1>0, <1>1 DEF Alike, PlaceOK, CreditOK
<1> QED
  BY <1>2, <1>3, <1>4, <1>5, <1>6 DEF MemOK, Good

LEMMA ClosedFlagsOK ==
    ASSUME NEW s, NEW n \in Nat, NEW hand, Good(s, n, hand), NEW v \in VCs
    PROVE  /\ Good([s EXCEPT !.vc[v].localClosed = TRUE], n, hand)
           /\ Good([s EXCEPT !.vc[v].remoteClosed = TRUE], n, hand)
           /\ [s EXCEPT !.vc[v].localClosed = TRUE].vc[v].state = s.vc[v].state
           /\ [s EXCEPT !.vc[v].remoteClosed = TRUE].vc[v].state = s.vc[v].state
<1>0. MemType(s)
  BY DEF Good, MemOK
<1>1. ASSUME NEW t, t \in {[s EXCEPT !.vc[v].localClosed = TRUE],
                           [s EXCEPT !.vc[v].remoteClosed = TRUE]}
      PROVE  MemType(t) /\ Alike(s, t)
  <2>1. /\ t.ext_send_queue = s.ext_send_queue /\ t.sends = s.sends /\ t.avail = s.avail
        /\ t.free = s.free /\ t.unack = s.unack /\ t.vc_of = s.vc_of
        /\ t.inprogress = s.inprogress /\ t.pending = s.pending
        /\ t.twice = s.twice /\ t.cut = s.cut
    BY <1>0, <1>1 DEF MemType
  <2>2. PICK vc \in [VCs -> VCType] : vc = s.vc
    BY <1>0 DEF MemType
  <2>3. t.vc = [vc EXCEPT ![v].localClosed = TRUE] \/ t.vc = [vc EXCEPT ![v].remoteClosed = TRUE]
    BY <1>0, <1>1, <2>2 DEF MemType
  <2>4. t.vc \in [VCs -> VCType] /\ \A w \in VCs :
          /\ t.vc[w].state = vc[w].state /\ t.vc[w].outstanding = vc[w].outstanding
          /\ t.vc[w].sendwin = vc[w].sendwin /\ t.vc[w].extwin = vc[w].extwin
          /\ t.vc[w].recvwin = vc[w].recvwin
    <3>1. ASSUME NEW w \in VCs
          PROVE  /\ t.vc[w] \in VCType
                 /\ t.vc[w].state = vc[w].state /\ t.vc[w].outstanding = vc[w].outstanding
                 /\ t.vc[w].sendwin = vc[w].sendwin /\ t.vc[w].extwin = vc[w].extwin
                 /\ t.vc[w].recvwin = vc[w].recvwin
      <4>1. PICK x \in VCType : x = vc[w]
        OBVIOUS
      <4>2. t.vc[w] \in {x, [x EXCEPT !.localClosed = TRUE], [x EXCEPT !.remoteClosed = TRUE]}
        BY <2>3, <4>1
      <4> QED
        BY <4>1, <4>2 DEF VCType
    <3>2. \E f : t.vc = [w \in VCs |-> f[w]]
      BY <2>3
    <3> QED
      BY <3>1, <3>2
  <2>5. t = [s EXCEPT !.vc = t.vc]
    BY <1>0, <1>1 DEF MemType
  <2>6. PICK new \in [VCs -> VCType] : new = t.vc
    BY <2>4
  <2>7. MemType([s EXCEPT !.vc = new])
    BY <1>0 DEF MemType
  <2>8. MemType(t)
    BY <2>5, <2>6, <2>7
  <2> QED
    BY <2>1, <2>2, <2>4, <2>8 DEF Alike
<1>2. ASSUME NEW t, t \in {[s EXCEPT !.vc[v].localClosed = TRUE],
                           [s EXCEPT !.vc[v].remoteClosed = TRUE]}
      PROVE  Good(t, n, hand) /\ t.vc[v].state = s.vc[v].state
  <2>1. MemType(t) /\ Alike(s, t)
    BY <1>1, <1>2
  <2> QED
    BY <2>1, AlikeOK DEF Alike
<1> QED
  BY <1>2

Recounted(s, p, r) == [s EXCEPT !.posted = p, !.recvs = r]

LEMMA CountersOK ==
    ASSUME NEW s, NEW n \in Nat, NEW hand, Good(s, n, hand), NEW p \in Int, NEW r \in Int,
           NEW t, t = Recounted(s, p, r)
    PROVE  Good(t, n, hand) /\ t.vc = s.vc /\ t.vc_of = s.vc_of /\ t.free = s.free
<1>0. MemType(s)
  BY DEF Good, MemOK
<1>1. MemType(t) /\ Alike(s, t) /\ t.vc = s.vc /\ t.vc_of = s.vc_of /\ t.free = s.free
  BY <1>0 DEF MemType, Alike, Recounted
<1> QED
  BY <1>1, AlikeOK

LEMMA CountRecvOK ==
    ASSUME NEW s, NEW n \in Nat, Good(s, n, {})
    PROVE  Good(CountRecv(s), n, {})
<1> DEFINE t == [s EXCEPT !.recvs = @ - 1]
           u == [t EXCEPT !.posted = @ + (MaxRecvs - t.recvs), !.recvs = MaxRecvs]
<1>0. MemType(s) /\ s.posted \in Int /\ s.recvs \in Int /\ MaxRecvs \in Int
  BY BuffersAssumption DEF Good, MemOK, MemType
<1>1. CountRecv(s) = IF t.recvs < Preserve THEN u ELSE t
  BY DEF CountRecv
<1>2. MemType(t) /\ Alike(s, t)
  <2>1. PICK r \in Int : r = s.recvs - 1
    BY <1>0
  <2>2. t = [s EXCEPT !.recvs = r]
    BY <2>1
  <2>3. MemType([s EXCEPT !.recvs = r])
    BY <1>0 DEF MemType
  <2>4. Alike(s, [s EXCEPT !.recvs = r])
    BY <1>0 DEF MemType, Alike
  <2> QED
    BY <2>2, <2>3, <2>4
<1> HIDE DEF t
<1>3. t.posted \in Int /\ t.recvs \in Int /\ MaxRecvs \in Int
  BY <1>0, <1>2 DEF MemType
<1>4. MemType(u) /\ Alike(t, u)
  <2>1. PICK p \in Int : p = t.posted + (MaxRecvs - t.recvs)
    BY <1>3
  <2>2. u = [t EXCEPT !.posted = p, !.recvs = MaxRecvs]
    BY <2>1
  <2>3. MemType([t EXCEPT !.posted = p, !.recvs = MaxRecvs])
    BY <1>2, <1>3 DEF MemType
  <2>4. Alike(t, [t EXCEPT !.posted = p, !.recvs = MaxRecvs])
    BY <1>2 DEF MemType, Alike
  <2> QED
    BY <2>2, <2>3, <2>4
<1> HIDE DEF u
<1>5. Good(t, n, {})
  BY <1>2, AlikeOK
<1>6. Good(u, n, {})
  BY <1>4, <1>5, AlikeOK
<1> QED
  BY <1>1, <1>5, <1>6

\* A vbuf in hand goes back to the free list.
LEMMA ReleaseHandOK ==
    ASSUME NEW s, NEW n \in Nat, NEW hand, Good(s, n, hand), NEW b \in hand
    PROVE  LET t == Release(s, {b})
           IN  /\ Good(t, n, hand \ {b}) /\ t.vc = s.vc /\ t.free = s.free \cup {b}
<1> DEFINE t == Release(s, {b})
<1>0. /\ MemType(s) /\ FreeOK(s) /\ OutOK(s, {}) /\ FlagsOK(s, {}) /\ OwnerOK(s, {})
      /\ WindowsOK(s, {}) /\ PlaceOK(s, hand, {}) /\ CreditOK(s, n) /\ Drained(s)
  BY DEF MemOK, Good
<1>1. b \in Vbufs /\ b \notin Out(s, {}) /\ b \notin s.unack /\ b \notin s.cut /\ b \notin s.free
      /\ ~Waiting(s, b)
  BY <1>0 DEF PlaceOK
<1>2. b \notin s.inprogress /\ b \notin s.pending
  BY <1>0, <1>1 DEF FlagsOK
<1>3. t = [s EXCEPT !.pending = @ \cup {}, !.free = @ \cup {b}, !.twice = @ \cup {},
                    !.vc_of = [c \in Vbufs |-> IF c \in {b} THEN None ELSE @[c]]]
  <2>1. {b} \ s.inprogress = {b} /\ {b} \cap s.inprogress = {} /\ {b} \cap s.free = {}
    BY <1>1, <1>2
  <2> QED
    BY <2>1 DEF Release
<1> HIDE DEF t
<1>4. /\ MemType(t) /\ t.ext_send_queue = s.ext_send_queue
      /\ t.sends = s.sends /\ t.avail = s.avail
      /\ t.free = s.free \cup {b} /\ t.unack = s.unack
      /\ t.inprogress = s.inprogress /\ t.pending = s.pending
      /\ t.twice = s.twice /\ t.cut = s.cut /\ t.vc = s.vc
      /\ t.vc_of[b] = None /\ \A c \in Vbufs : c # b => t.vc_of[c] = s.vc_of[c]
  <2> DEFINE of == [c \in Vbufs |-> IF c \in {b} THEN None ELSE s.vc_of[c]]
  <2>1. of \in [Vbufs -> VCs \cup {None}] /\ of[b] = None
        /\ \A c \in Vbufs : c # b => of[c] = s.vc_of[c]
    BY <1>0, <1>1 DEF MemType
  <2>2. t = [s EXCEPT !.pending = s.pending, !.free = s.free \cup {b}, !.twice = s.twice, !.vc_of = of]
    BY <1>3
  <2> HIDE DEF of
  <2>3. MemType([s EXCEPT !.pending = s.pending, !.free = s.free \cup {b}, !.twice = s.twice, !.vc_of = of])
    BY <1>0, <1>1, <2>1 DEF MemType
  <2>4. /\ t.ext_send_queue = s.ext_send_queue
        /\ t.sends = s.sends /\ t.avail = s.avail
        /\ t.free = s.free \cup {b} /\ t.unack = s.unack
        /\ t.inprogress = s.inprogress /\ t.pending = s.pending
        /\ t.twice = s.twice /\ t.cut = s.cut /\ t.vc = s.vc /\ t.vc_of = of
    BY <1>0, <2>2 DEF MemType
  <2> QED
    BY <2>1, <2>2, <2>3, <2>4
<1>6. Out(t, {}) = Out(s, {}) /\ \A c : Waiting(t, c) <=> Waiting(s, c)
  BY <1>4 DEF Out, Waiting
<1>7. FreeOK(t)
  BY <1>0, <1>1, <1>4 DEF FreeOK
<1>8. OutOK(t, {}) /\ Drained(t)
  BY <1>0, <1>4, <1>6 DEF OutOK, Drained
<1>9. FlagsOK(t, {})
  BY <1>0, <1>4, <1>6 DEF FlagsOK
<1>10. OwnerOK(t, {})
  <2>1. ASSUME NEW c \in Vbufs, c # b
        PROVE  LET state(S) == \E w \in VCs : t.vc_of[c] = w /\ t.vc[w].state \in S
               IN  /\ c \in t.sends => state({"open", "closing"})
                   /\ c \in ToSet(t.ext_send_queue) \cup {} => state({"open"})
                   /\ c \in t.cut => state({"closing", "deleted"})
                   /\ c \in t.unack => state({"open"}) \/ c \in t.cut \cap t.inprogress
    BY <2>1, <1>0, <1>4 DEF OwnerOK
  <2>2. b \notin t.sends /\ b \notin ToSet(t.ext_send_queue) \cup {} /\ b \notin t.cut
        /\ b \notin t.unack
    BY <1>1, <1>4 DEF Out
  <2> QED
    BY <2>1, <2>2 DEF OwnerOK
<1>11. WindowsOK(t, {})
  <2>1. ASSUME NEW w \in VCs, s.vc[w].state = "open"
        PROVE  b \notin ToSet(s.vc[w].sendwin) /\ b \notin ToSet(s.vc[w].extwin)
               /\ b \notin s.vc[w].recvwin
    BY <2>1, <1>0, <1>1 DEF WindowsOK, Waiting
  <2> QED
    BY <2>1, <1>0, <1>1, <1>4, <1>6 DEF WindowsOK
<1>12. PlaceOK(t, hand \ {b}, {})
  BY <1>0, <1>1, <1>4, <1>6 DEF PlaceOK
<1>13. CreditOK(t, n)
  <2>1. b \notin s.sends
    BY <1>1 DEF Out
  <2>2. s.sends \subseteq Vbufs
    BY <1>0 DEF MemType
  <2>3. \A w \in VCs : {c \in t.sends : t.vc_of[c] = w} = {c \in s.sends : s.vc_of[c] = w}
    BY <2>1, <2>2, <1>4
  <2> QED
    BY <2>3, <1>0, <1>4 DEF CreditOK
<1>14. Good(t, n, hand \ {b})
  BY <1>4, <1>7, <1>8, <1>9, <1>10, <1>11, <1>12, <1>13 DEF MemOK, Good
<1> QED
  BY <1>4, <1>14 DEF t

\* What vbuf_release does to each field.
LEMMA ReleaseIs ==
    ASSUME NEW s, MemType(s), NEW bufs \in SUBSET Vbufs
    PROVE  LET t == Release(s, bufs)
               now == bufs \ s.inprogress
           IN  /\ MemType(t)
               /\ t.pending = s.pending \cup (bufs \cap s.inprogress)
               /\ t.free = s.free \cup now /\ t.twice = s.twice \cup (now \cap s.free)
               /\ \A b \in Vbufs : t.vc_of[b] = IF b \in now THEN None ELSE s.vc_of[b]
               /\ t.ext_send_queue = s.ext_send_queue
               /\ t.sends = s.sends /\ t.avail = s.avail /\ t.unack = s.unack
               /\ t.inprogress = s.inprogress /\ t.cut = s.cut /\ t.vc = s.vc
<1> DEFINE now == bufs \ s.inprogress
           held == bufs \cap s.inprogress
           of == [b \in Vbufs |-> IF b \in now THEN None ELSE s.vc_of[b]]
           t == [s EXCEPT !.pending = @ \cup held, !.free = @ \cup now,
                          !.twice = @ \cup (now \cap s.free), !.vc_of = of]
<1>1. Release(s, bufs) = t
  BY DEF Release
<1>2. /\ of \in [Vbufs -> VCs \cup {None}]
      /\ \A b \in Vbufs : of[b] = IF b \in now THEN None ELSE s.vc_of[b]
      /\ now \subseteq Vbufs /\ held \subseteq Vbufs
  BY DEF MemType
<1> HIDE DEF of, now, held
<1>3. MemType(t)
  BY <1>2 DEF MemType
<1>4. /\ t.pending = s.pending \cup held /\ t.free = s.free \cup now
      /\ t.twice = s.twice \cup (now \cap s.free) /\ t.vc_of = of
      /\ t.ext_send_queue = s.ext_send_queue
      /\ t.sends = s.sends /\ t.avail = s.avail /\ t.unack = s.unack
      /\ t.inprogress = s.inprogress /\ t.cut = s.cut /\ t.vc = s.vc
  BY DEF MemType
<1> HIDE DEF t
<1> QED
  BY <1>1, <1>2, <1>3, <1>4 DEF now, held

\* One VC gets new lists.
Relisted(s, v, win, ext, recv) ==
    [s.vc EXCEPT ![v] = [s.vc[v] EXCEPT !.sendwin = win, !.extwin = ext, !.recvwin = recv]]

LEMMA RelistedIs ==
    ASSUME NEW s, MemType(s), NEW v \in VCs, NEW win \in Seq(Vbufs), NEW ext \in Seq(Vbufs),
           NEW recv \in SUBSET Vbufs
    PROVE  LET vc == Relisted(s, v, win, ext, recv)
           IN  /\ vc \in [VCs -> VCType]
               /\ vc[v].sendwin = win /\ vc[v].extwin = ext /\ vc[v].recvwin = recv
               /\ \A w \in VCs : w # v => vc[w] = s.vc[w]
               /\ \A w \in VCs : /\ vc[w].state = s.vc[w].state
                                 /\ vc[w].outstanding = s.vc[w].outstanding
<1>1. PICK x \in VCType : x = s.vc[v]
  BY DEF MemType
<1>2. s.vc \in [VCs -> VCType]
  BY DEF MemType
<1> DEFINE y == [x EXCEPT !.sendwin = win, !.extwin = ext, !.recvwin = recv]
           vc == [s.vc EXCEPT ![v] = y]
<1>3. /\ y \in VCType /\ y.sendwin = win /\ y.extwin = ext /\ y.recvwin = recv
      /\ y.state = x.state /\ y.outstanding = x.outstanding
  BY DEF VCType
<1>4. Relisted(s, v, win, ext, recv) = vc
  BY <1>1 DEF Relisted
<1> HIDE DEF y
<1>5. /\ vc \in [VCs -> VCType]
      /\ vc[v].sendwin = win /\ vc[v].extwin = ext /\ vc[v].recvwin = recv
      /\ \A w \in VCs : w # v => vc[w] = s.vc[w]
      /\ \A w \in VCs : /\ vc[w].state = s.vc[w].state
                        /\ vc[w].outstanding = s.vc[w].outstanding
  BY <1>1, <1>2, <1>3
<1> QED
  BY <1>4, <1>5

LEMMA UnlinkIs ==
    ASSUME NEW s, MemType(s), NEW v \in VCs, NEW bufs
    PROVE  LET t == Unlink(s, v, bufs)
           IN  /\ MemType(t) /\ t.unack = s.unack \ bufs
               /\ t.vc[v].sendwin = Without(s.vc[v].sendwin, bufs)
               /\ t.vc[v].extwin = s.vc[v].extwin /\ t.vc[v].recvwin = s.vc[v].recvwin
               /\ \A w \in VCs : w # v => t.vc[w] = s.vc[w]
               /\ \A w \in VCs : /\ t.vc[w].state = s.vc[w].state
                                 /\ t.vc[w].outstanding = s.vc[w].outstanding
               /\ t.ext_send_queue = s.ext_send_queue /\ t.free = s.free /\ t.twice = s.twice
               /\ t.sends = s.sends /\ t.avail = s.avail /\ t.vc_of = s.vc_of
               /\ t.inprogress = s.inprogress /\ t.cut = s.cut /\ t.pending = s.pending
<1>1. PICK x \in VCType : x = s.vc[v]
  BY DEF MemType
<1>2. x.sendwin \in Seq(Vbufs) /\ x.extwin \in Seq(Vbufs) /\ x.recvwin \in SUBSET Vbufs
  BY DEF VCType
<1>3. PICK win \in Seq(Vbufs) : win = Without(x.sendwin, bufs)
  BY <1>2, WithoutIs
<1> DEFINE vc == Relisted(s, v, win, x.extwin, x.recvwin)
           t == [s EXCEPT !.vc = vc, !.unack = @ \ bufs]
<1>4. [x EXCEPT !.sendwin = win]
      = [x EXCEPT !.sendwin = win, !.extwin = x.extwin, !.recvwin = x.recvwin]
  BY DEF VCType
<1>5. Unlink(s, v, bufs) = t
  <2>1. Unlink(s, v, bufs)
        = [s EXCEPT !.vc = [s.vc EXCEPT ![v] = [s.vc[v] EXCEPT !.sendwin = Without(@, bufs)]],
                    !.unack = @ \ bufs]
    BY DEF Unlink
  <2> QED
    BY <2>1, <1>1, <1>3, <1>4 DEF Relisted
<1>6. /\ vc \in [VCs -> VCType]
      /\ vc[v].sendwin = win /\ vc[v].extwin = x.extwin /\ vc[v].recvwin = x.recvwin
      /\ \A w \in VCs : w # v => vc[w] = s.vc[w]
      /\ \A w \in VCs : /\ vc[w].state = s.vc[w].state
                        /\ vc[w].outstanding = s.vc[w].outstanding
  BY <1>2, RelistedIs
<1> HIDE DEF vc
<1>7. MemType(t)
  BY <1>6 DEF MemType
<1>8. /\ t.unack = s.unack \ bufs /\ t.vc = vc
      /\ t.ext_send_queue = s.ext_send_queue /\ t.free = s.free /\ t.twice = s.twice
      /\ t.sends = s.sends /\ t.avail = s.avail /\ t.vc_of = s.vc_of
      /\ t.inprogress = s.inprogress /\ t.cut = s.cut /\ t.pending = s.pending
  BY DEF MemType
<1> HIDE DEF t
<1> QED
  BY <1>1, <1>3, <1>5, <1>6, <1>7, <1>8

\* Packets that an ack covers, or that are tossed, leave the send window and the
\* unacknowledged queue.  Those the hardware still has are released later.
Covered(s, v, D) == s.vc[v].state = "open" /\ D \subseteq ToSet(s.vc[v].sendwin)

LEMMA AckedOK ==
    ASSUME NEW s, NEW n \in Nat, NEW hand, Good(s, n, hand), NEW v \in VCs,
           NEW D, Covered(s, v, D)
    PROVE  LET t == Release(Unlink(s, v, D), D)
           IN  Good(t, n, hand) /\ Grown(s, t, hand)
<1> s.vc[v].state = "open" /\ D \subseteq ToSet(s.vc[v].sendwin)
  BY DEF Covered
<1> DEFINE u == Unlink(s, v, D)
           t == Release(u, D)
           now == D \ s.inprogress
<1>0. /\ MemType(s) /\ FreeOK(s) /\ OutOK(s, {}) /\ FlagsOK(s, {}) /\ OwnerOK(s, {})
      /\ WindowsOK(s, {}) /\ PlaceOK(s, hand, {}) /\ CreditOK(s, n) /\ Drained(s)
  BY DEF MemOK, Good
<1>1. s.vc[v].sendwin \in Seq(Vbufs) /\ IsInjective(s.vc[v].sendwin)
  BY <1>0 DEF MemType, VCType, WindowsOK
<1>2. D \in SUBSET Vbufs
  BY <1>1, ToSetIn
<1>3. /\ MemType(u) /\ u.unack = s.unack \ D
      /\ u.vc[v].sendwin = Without(s.vc[v].sendwin, D)
      /\ u.vc[v].extwin = s.vc[v].extwin /\ u.vc[v].recvwin = s.vc[v].recvwin
      /\ \A w \in VCs : w # v => u.vc[w] = s.vc[w]
      /\ \A w \in VCs : /\ u.vc[w].state = s.vc[w].state
                        /\ u.vc[w].outstanding = s.vc[w].outstanding
      /\ u.ext_send_queue = s.ext_send_queue /\ u.free = s.free /\ u.twice = s.twice
      /\ u.sends = s.sends /\ u.avail = s.avail /\ u.vc_of = s.vc_of
      /\ u.inprogress = s.inprogress /\ u.cut = s.cut /\ u.pending = s.pending
  BY <1>0, UnlinkIs
<1> HIDE DEF u
<1>4. /\ MemType(t)
      /\ t.pending = u.pending \cup (D \cap u.inprogress)
      /\ t.free = u.free \cup (D \ u.inprogress)
      /\ t.twice = u.twice \cup ((D \ u.inprogress) \cap u.free)
      /\ \A b \in Vbufs : t.vc_of[b] = IF b \in D \ u.inprogress THEN None ELSE u.vc_of[b]
      /\ t.ext_send_queue = u.ext_send_queue
      /\ t.sends = u.sends /\ t.avail = u.avail /\ t.unack = u.unack
      /\ t.inprogress = u.inprogress /\ t.cut = u.cut /\ t.vc = u.vc
  BY <1>2, <1>3, ReleaseIs
<1> HIDE DEF t
<1>5. \A b \in D : /\ b \in Vbufs /\ b \in s.unack /\ s.vc_of[b] = v
                   /\ b \notin s.cut /\ b \notin s.free /\ b \notin hand /\ ~Waiting(s, b)
  <2> SUFFICES ASSUME NEW b \in D
               PROVE  /\ b \in Vbufs /\ b \in s.unack /\ s.vc_of[b] = v
                      /\ b \notin s.cut /\ b \notin s.free /\ b \notin hand /\ ~Waiting(s, b)
    OBVIOUS
  <2>1. b \in Vbufs
    BY <1>2
  <2>2. b \in s.unack /\ s.vc_of[b] = v
    BY <2>1, <1>0 DEF WindowsOK
  <2>3. b \notin s.cut
    BY <2>1, <2>2, <1>0 DEF OwnerOK
  <2>4. b \notin s.free
    BY <2>2, FreeUnused DEF Good
  <2>5. b \notin hand
    BY <2>1, <2>2, <1>0 DEF PlaceOK
  <2>6. ~Waiting(s, b)
    BY <2>1, <2>2, <1>0 DEF WindowsOK, Waiting
  <2> QED
    BY <2>1, <2>2, <2>3, <2>4, <2>5, <2>6
<1>6. /\ t.vc[v].sendwin \in Seq(Vbufs) /\ IsInjective(t.vc[v].sendwin)
      /\ Len(t.vc[v].sendwin) <= Len(s.vc[v].sendwin)
      /\ ToSet(t.vc[v].sendwin) = ToSet(s.vc[v].sendwin) \ D
  <2>1. PICK q \in Seq(Vbufs) : q = s.vc[v].sendwin
    BY <1>1
  <2>2. /\ Without(q, D) \in Seq(Vbufs) /\ Len(Without(q, D)) <= Len(q)
        /\ ToSet(Without(q, D)) = ToSet(q) \ D /\ IsInjective(Without(q, D))
    BY <1>1, <2>1, WithoutIs
  <2> QED
    BY <2>1, <2>2, <1>3, <1>4
<1>7. /\ t.pending = s.pending \cup (D \cap s.inprogress)
      /\ t.free = s.free \cup now /\ t.twice = s.twice
      /\ \A b \in Vbufs : t.vc_of[b] = IF b \in now THEN None ELSE s.vc_of[b]
      /\ t.ext_send_queue = s.ext_send_queue
      /\ t.sends = s.sends /\ t.avail = s.avail /\ t.unack = s.unack \ D
      /\ t.inprogress = s.inprogress /\ t.cut = s.cut
      /\ t.vc[v].extwin = s.vc[v].extwin /\ t.vc[v].recvwin = s.vc[v].recvwin
      /\ \A w \in VCs : w # v => t.vc[w] = s.vc[w]
      /\ \A w \in VCs : /\ t.vc[w].state = s.vc[w].state
                        /\ t.vc[w].outstanding = s.vc[w].outstanding
                        /\ t.vc[w].extwin = s.vc[w].extwin
                        /\ t.vc[w].recvwin = s.vc[w].recvwin
  <2>1. (D \ s.inprogress) \cap s.free = {}
    BY <1>5
  <2> QED
    BY <2>1, <1>3, <1>4
<1>8. Out(t, {}) = Out(s, {}) /\ \A b : Waiting(t, b) <=> Waiting(s, b)
  BY <1>7 DEF Out, Waiting
<1>9. \A b \in now : b \notin Out(s, {})
  BY <1>0, <1>5 DEF FlagsOK
<1>10. FreeOK(t)
  BY <1>0, <1>2, <1>5, <1>7, BuffersAssumption DEF FreeOK
<1>11. OutOK(t, {}) /\ Drained(t)
  BY <1>0, <1>7, <1>8 DEF OutOK, Drained
<1>12. FlagsOK(t, {})
  BY <1>0, <1>5, <1>7, <1>8 DEF FlagsOK
<1>13. OwnerOK(t, {})
  <2>1. ASSUME NEW c \in Vbufs, c \notin now
        PROVE  LET state(S) == \E w \in VCs : t.vc_of[c] = w /\ t.vc[w].state \in S
               IN  /\ c \in t.sends => state({"open", "closing"})
                   /\ c \in ToSet(t.ext_send_queue) \cup {} => state({"open"})
                   /\ c \in t.cut => state({"closing", "deleted"})
                   /\ c \in t.unack => state({"open"}) \/ c \in t.cut \cap t.inprogress
    <3>1. t.vc_of[c] = s.vc_of[c]
      BY <2>1, <1>7
    <3>2. \A S : (\E w \in VCs : t.vc_of[c] = w /\ t.vc[w].state \in S)
                 <=> (\E w \in VCs : s.vc_of[c] = w /\ s.vc[w].state \in S)
      BY <3>1, <1>7
    <3> QED
      BY <3>2, <1>0, <1>7 DEF OwnerOK
  <2>2. ASSUME NEW c \in now
        PROVE  c \notin t.sends /\ c \notin ToSet(t.ext_send_queue) \cup {} /\ c \notin t.cut
               /\ c \notin t.unack
    BY <1>5, <1>7, <1>9 DEF Out
  <2> QED
    BY <2>1, <2>2 DEF OwnerOK
<1>14. WindowsOK(t, {})
  <2> SUFFICES ASSUME NEW w \in VCs
               PROVE  /\ Len(t.vc[w].sendwin) <= Window + 1
                      /\ t.vc[w].state = "open" =>
                           /\ IsInjective(t.vc[w].sendwin) /\ IsInjective(t.vc[w].extwin)
                           /\ \A b \in Vbufs :
                                /\ b \in ToSet(t.vc[w].sendwin) <=> b \in t.unack /\ t.vc_of[b] = w
                                /\ b \in ToSet(t.vc[w].extwin) \cup t.vc[w].recvwin =>
                                     t.vc_of[b] = w /\ b \notin Out(t, {}) \cup t.unack
                                /\ ~(b \in ToSet(t.vc[w].extwin) /\ b \in t.vc[w].recvwin)
    BY DEF WindowsOK
  <2>1. ASSUME NEW b \in Vbufs, s.vc[w].state = "open",
               b \in ToSet(t.vc[w].extwin) \cup t.vc[w].recvwin
        PROVE  t.vc_of[b] = w /\ b \notin Out(t, {}) \cup t.unack
    <3>1. s.vc_of[b] = w /\ b \notin Out(s, {}) \cup s.unack
      BY <2>1, <1>0, <1>7 DEF WindowsOK
    <3>2. b \notin now
      BY <3>1, <1>5
    <3> QED
      BY <3>1, <3>2, <1>7, <1>8
  <2>2. CASE w = v
    <3>1. ASSUME NEW b \in Vbufs
          PROVE  b \in ToSet(t.vc[v].sendwin) <=> b \in t.unack /\ t.vc_of[b] = v
      BY <1>0, <1>5, <1>6, <1>7 DEF WindowsOK
    <3>2. Len(s.vc[v].sendwin) <= Window + 1
      BY <1>0 DEF WindowsOK
    <3>3. Len(t.vc[v].sendwin) <= Window + 1
      <4>1. Len(t.vc[v].sendwin) \in Nat /\ Len(s.vc[v].sendwin) \in Nat
        BY <1>1, <1>6
      <4>2. Window + 1 \in Nat /\ Len(t.vc[v].sendwin) <= Len(s.vc[v].sendwin)
        BY <1>6, Sizes
      <4>3. \A i, j, k \in Nat : i <= j /\ j <= k => i <= k
        OBVIOUS
      <4> QED
        BY <3>2, <4>1, <4>2, <4>3, Zenon
    <3> QED
      BY <2>1, <2>2, <3>1, <3>3, <1>0, <1>6, <1>7 DEF WindowsOK
  <2>3. CASE w # v
    <3>1. t.vc[w] = s.vc[w]
      BY <2>3, <1>7
    <3>2. ASSUME NEW b \in Vbufs, s.vc[w].state = "open"
          PROVE  b \in ToSet(t.vc[w].sendwin) <=> b \in t.unack /\ t.vc_of[b] = w
      BY <2>3, <3>1, <3>2, <1>0, <1>5, <1>7, BuffersAssumption DEF WindowsOK
    <3> QED
      BY <2>1, <3>1, <3>2, <1>0 DEF WindowsOK
  <2> QED
    BY <2>2, <2>3
<1>15. PlaceOK(t, hand, {})
  <2>1. ASSUME NEW b \in Vbufs
        PROVE  LET linked == b \in Out(t, {}) \cup t.unack \cup t.cut \/ Waiting(t, b)
               IN  /\ linked \/ b \in hand \cup t.free
                   /\ ~(linked /\ b \in hand) /\ ~(b \in hand /\ b \in t.free)
    <3>1. CASE b \in D
      <4>1. b \in s.inprogress => b \in Out(s, {})
        BY <3>1, <1>0, <1>5 DEF FlagsOK
      <4> QED
        BY <3>1, <4>1, <1>5, <1>7, <1>8
    <3>2. CASE b \notin D
      BY <3>2, <1>0, <1>7, <1>8 DEF PlaceOK
    <3> QED
      BY <3>1, <3>2
  <2> QED
    BY <2>1, <1>0 DEF PlaceOK
<1>16. CreditOK(t, n)
  <2>1. s.sends \subseteq Vbufs /\ \A b \in now : b \notin s.sends
    BY <1>0, <1>9 DEF MemType, Out
  <2>2. \A w \in VCs : {c \in t.sends : t.vc_of[c] = w} = {c \in s.sends : s.vc_of[c] = w}
    BY <2>1, <1>7
  <2> QED
    BY <2>2, <1>0, <1>7 DEF CreditOK
<1>17. Good(t, n, hand)
  BY <1>4, <1>10, <1>11, <1>12, <1>13, <1>14, <1>15, <1>16 DEF MemOK, Good
<1>18. \A b \in hand : t.vc_of[b] = s.vc_of[b]
  <2>1. hand \subseteq Vbufs
    BY <1>0 DEF PlaceOK
  <2> QED
    BY <2>1, <1>5, <1>7
<1> QED
  BY <1>7, <1>17, <1>18 DEF t, u, Grown

\* Vbufs in hand enter the send window and are submitted.
Sendable(s, v, bufs, hand, left) ==
    /\ left = hand \ ToSet(bufs)
    /\ s.vc[v].state = "open" /\ bufs \in Seq(Vbufs) /\ IsInjective(bufs)
    /\ ToSet(bufs) \subseteq hand /\ (\A b \in ToSet(bufs) : s.vc_of[b] = v)
    /\ Len(s.vc[v].sendwin) + Len(bufs) <= Window + 1

LEMMA SendNowOK ==
    ASSUME NEW s, NEW n \in Nat, NEW hand, Good(s, n, hand), NEW v \in VCs,
           NEW bufs, NEW left, Sendable(s, v, bufs, hand, left)
    PROVE  Good(SendNow(s, v, bufs), n, left) /\ Kept(s, SendNow(s, v, bufs))
<1> /\ s.vc[v].state = "open" /\ bufs \in Seq(Vbufs) /\ IsInjective(bufs)
    /\ ToSet(bufs) \subseteq hand /\ (\A b \in ToSet(bufs) : s.vc_of[b] = v)
    /\ Len(s.vc[v].sendwin) + Len(bufs) <= Window + 1
    /\ left = hand \ ToSet(bufs)
  BY DEF Sendable
<1> DEFINE A == ToSet(bufs)
           u == [s EXCEPT !.inprogress = @ \cup A, !.unack = @ \cup A,
                          !.vc[v].sendwin = @ \o bufs]
<1>0. /\ MemType(s) /\ FreeOK(s) /\ OutOK(s, {}) /\ FlagsOK(s, {}) /\ OwnerOK(s, {})
      /\ WindowsOK(s, {}) /\ PlaceOK(s, hand, {}) /\ CreditOK(s, n) /\ Drained(s)
  BY DEF MemOK, Good
<1>1. SendNow(s, v, bufs) = Submit(u, bufs)
  BY DEF SendNow
<1>2. A \subseteq Vbufs /\ \A b \in A : s.vc_of[b] = v
  BY ToSetIn
<1>3. \A b \in A : /\ b \in hand /\ b \notin Out(s, {}) /\ b \notin s.unack /\ b \notin s.cut
                   /\ b \notin s.free /\ ~Waiting(s, b) /\ b \notin s.inprogress
                   /\ b \notin s.pending
  <2>1. ASSUME NEW b \in A
        PROVE  /\ b \in hand /\ b \notin Out(s, {}) /\ b \notin s.unack /\ b \notin s.cut
               /\ b \notin s.free /\ ~Waiting(s, b)
    BY <1>0, <1>2 DEF PlaceOK
  <2> QED
    BY <2>1, <1>0, <1>2 DEF FlagsOK
<1>4. PICK x \in VCType : x = s.vc[v]
  BY <1>0 DEF MemType
<1>5. x.sendwin \in Seq(Vbufs) /\ x.extwin \in Seq(Vbufs) /\ x.recvwin \in SUBSET Vbufs
  BY DEF VCType
<1>6. IsInjective(x.sendwin) /\ ToSet(x.sendwin) \cap A = {}
  <2>1. IsInjective(x.sendwin)
    BY <1>0, <1>4 DEF WindowsOK
  <2>2. \A b \in A : b \notin ToSet(x.sendwin)
    BY <1>0, <1>2, <1>3, <1>4 DEF WindowsOK
  <2> QED
    BY <2>1, <2>2
<1>7. PICK win \in Seq(Vbufs) :
         /\ win = x.sendwin \o bufs /\ Len(win) = Len(x.sendwin) + Len(bufs)
         /\ ToSet(win) = ToSet(x.sendwin) \cup A /\ IsInjective(win)
  <2>1. PICK q \in Seq(Vbufs) : q = x.sendwin
    BY <1>5
  <2>2. /\ q \o bufs \in Seq(Vbufs) /\ Len(q \o bufs) = Len(q) + Len(bufs)
        /\ ToSet(q \o bufs) = ToSet(q) \cup A
        /\ IsInjective(q \o bufs)
    BY <1>6, <2>1, JoinedLists
  <2> QED
    BY <2>1, <2>2
<1> DEFINE vc == Relisted(s, v, win, x.extwin, x.recvwin)
           t == [s EXCEPT !.inprogress = @ \cup A, !.unack = @ \cup A, !.vc = vc]
<1>8. u = t
  <2>1. [x EXCEPT !.sendwin = win]
        = [x EXCEPT !.sendwin = win, !.extwin = x.extwin, !.recvwin = x.recvwin]
    BY DEF VCType
  <2>2. u = [s EXCEPT !.inprogress = @ \cup A, !.unack = @ \cup A,
                      !.vc = [s.vc EXCEPT ![v] = [s.vc[v] EXCEPT !.sendwin = @ \o bufs]]]
    OBVIOUS
  <2> QED
    BY <2>1, <2>2, <1>4, <1>7 DEF Relisted
<1>9. /\ vc \in [VCs -> VCType]
      /\ vc[v].sendwin = win /\ vc[v].extwin = x.extwin /\ vc[v].recvwin = x.recvwin
      /\ \A w \in VCs : w # v => vc[w] = s.vc[w]
      /\ \A w \in VCs : /\ vc[w].state = s.vc[w].state
                        /\ vc[w].outstanding = s.vc[w].outstanding
  BY <1>0, <1>5, RelistedIs
<1> HIDE DEF vc, A, u
<1>10. MemType(t)
  BY <1>0, <1>2, <1>9 DEF MemType
<1>11. /\ t.inprogress = s.inprogress \cup A /\ t.unack = s.unack \cup A /\ t.vc = vc
       /\ t.ext_send_queue = s.ext_send_queue /\ t.free = s.free /\ t.twice = s.twice
       /\ t.sends = s.sends /\ t.avail = s.avail /\ t.vc_of = s.vc_of
       /\ t.cut = s.cut /\ t.pending = s.pending
  BY <1>0 DEF MemType
<1> HIDE DEF t
<1>12. \A w \in VCs : /\ t.vc[w].state = s.vc[w].state
                      /\ t.vc[w].outstanding = s.vc[w].outstanding
                      /\ t.vc[w].extwin = s.vc[w].extwin
                      /\ t.vc[w].recvwin = s.vc[w].recvwin
                      /\ w # v => t.vc[w].sendwin = s.vc[w].sendwin
  BY <1>4, <1>9, <1>11
<1>13. Out(t, A) = Out(s, {}) \cup A /\ \A b : Waiting(t, b) <=> Waiting(s, b)
  BY <1>11, <1>12 DEF Out, Waiting
<1>14. FreeOK(t) /\ Drained(t)
  BY <1>0, <1>11 DEF FreeOK, Drained
<1>15. OutOK(t, A)
  <2>1. ASSUME NEW b \in Vbufs
        PROVE  /\ b \in t.sends => b \notin ToSet(t.ext_send_queue)
               /\ b \in A => b \notin t.sends \cup ToSet(t.ext_send_queue)
               /\ b \in t.cut => b \notin Out(t, A)
    <3>1. b \in A => b \notin s.sends \cup ToSet(s.ext_send_queue) /\ b \notin s.cut
      BY <1>3 DEF Out
    <3> QED
      BY <3>1, <1>0, <1>11, <1>13 DEF OutOK
  <2> QED
    BY <2>1, <1>0, <1>2, <1>11 DEF OutOK
<1>16. FlagsOK(t, A)
  BY <1>0, <1>2, <1>3, <1>11, <1>13 DEF FlagsOK
<1>17. OwnerOK(t, A)
  <2> SUFFICES ASSUME NEW c \in Vbufs
               PROVE  LET state(S) == \E w \in VCs : t.vc_of[c] = w /\ t.vc[w].state \in S
                      IN  /\ c \in t.sends => state({"open", "closing"})
                          /\ c \in ToSet(t.ext_send_queue) \cup A => state({"open"})
                          /\ c \in t.cut => state({"closing", "deleted"})
                          /\ c \in t.unack => state({"open"}) \/ c \in t.cut \cap t.inprogress
    BY DEF OwnerOK
  <2>1. \A S : (\E w \in VCs : t.vc_of[c] = w /\ t.vc[w].state \in S)
                 <=> (\E w \in VCs : s.vc_of[c] = w /\ s.vc[w].state \in S)
    BY <1>11, <1>12
  <2>2. c \in A => \E w \in VCs : s.vc_of[c] = w /\ s.vc[w].state \in {"open"}
    BY <1>2
  <2> QED
    BY <2>1, <2>2, <1>0, <1>11 DEF OwnerOK
<1>18. WindowsOK(t, A)
  <2> SUFFICES ASSUME NEW w \in VCs
               PROVE  /\ Len(t.vc[w].sendwin) <= Window + 1
                      /\ t.vc[w].state = "open" =>
                           /\ IsInjective(t.vc[w].sendwin) /\ IsInjective(t.vc[w].extwin)
                           /\ \A b \in Vbufs :
                                /\ b \in ToSet(t.vc[w].sendwin) <=> b \in t.unack /\ t.vc_of[b] = w
                                /\ b \in ToSet(t.vc[w].extwin) \cup t.vc[w].recvwin =>
                                     t.vc_of[b] = w /\ b \notin Out(t, A) \cup t.unack
                                /\ ~(b \in ToSet(t.vc[w].extwin) /\ b \in t.vc[w].recvwin)
    BY DEF WindowsOK
  <2>1. ASSUME NEW b \in Vbufs, s.vc[w].state = "open",
               b \in ToSet(t.vc[w].extwin) \cup t.vc[w].recvwin
        PROVE  t.vc_of[b] = w /\ b \notin Out(t, A) \cup t.unack
    <3>1. s.vc_of[b] = w /\ b \notin Out(s, {}) \cup s.unack /\ Waiting(s, b)
      BY <2>1, <1>0, <1>12 DEF WindowsOK, Waiting
    <3> QED
      BY <3>1, <1>3, <1>11, <1>13
  <2>2. CASE w = v
    <3>1. ASSUME NEW b \in Vbufs
          PROVE  b \in ToSet(t.vc[v].sendwin) <=> b \in t.unack /\ t.vc_of[b] = v
      <4>1. b \in ToSet(x.sendwin) <=> b \in s.unack /\ s.vc_of[b] = v
        BY <1>0, <1>4 DEF WindowsOK
      <4>2. ToSet(t.vc[v].sendwin) = ToSet(x.sendwin) \cup A
        BY <1>7, <1>9, <1>11
      <4> QED
        BY <4>1, <4>2, <1>2, <1>11
    <3>2. t.vc[v].sendwin = win /\ IsInjective(win)
      BY <1>7, <1>9, <1>11
    <3>3. Len(win) <= Window + 1
      <4>1. Len(s.vc[v].sendwin) + Len(bufs) <= Window + 1
        OBVIOUS
      <4>2. Len(win) = Len(s.vc[v].sendwin) + Len(bufs)
        BY <1>4, <1>7, Zenon
      <4> QED
        BY <4>1, <4>2, Zenon
    <3> QED
      BY <2>1, <2>2, <3>1, <3>2, <3>3, <1>0, <1>12 DEF WindowsOK
  <2>3. CASE w # v
    <3>1. t.vc[w].sendwin = s.vc[w].sendwin
      BY <2>3, <1>12
    <3>2. ASSUME NEW b \in Vbufs, s.vc[w].state = "open"
          PROVE  b \in ToSet(t.vc[w].sendwin) <=> b \in t.unack /\ t.vc_of[b] = w
      BY <2>3, <3>1, <3>2, <1>0, <1>2, <1>11 DEF WindowsOK
    <3> QED
      BY <2>1, <3>1, <3>2, <1>0, <1>12 DEF WindowsOK
  <2> QED
    BY <2>2, <2>3
<1>19. PlaceOK(t, hand \ A, A)
  BY <1>0, <1>3, <1>11, <1>13 DEF PlaceOK
<1>20. CreditOK(t, n)
  BY <1>0, <1>11, <1>12 DEF CreditOK
<1>21. MemOK(t, n, hand \ A, A)
  BY <1>10, <1>14, <1>15, <1>16, <1>17, <1>18, <1>19, <1>20 DEF MemOK
<1>22. LET r == Submit(t, bufs)
       IN  /\ Good(r, n, hand \ A) /\ r.free = t.free /\ r.vc_of = t.vc_of
           /\ \A w \in VCs : r.vc[w].state = t.vc[w].state
  BY <1>14, <1>21, SubmitOK DEF A
<1> QED
  BY <1>1, <1>8, <1>11, <1>12, <1>22 DEF A, Kept

\* Vbufs move between the hand and the lists of an open VC that wait for the send
\* window or for the application.
Queued(s, v, ext, recv) == [s EXCEPT !.vc[v].extwin = ext, !.vc[v].recvwin = recv]

Movable(s, v, ext, recv, hand, next) ==
    /\ s.vc[v].state = "open"
    /\ ext \in Seq(Vbufs) /\ IsInjective(ext)
    /\ recv \in SUBSET Vbufs /\ next \in SUBSET Vbufs
    /\ ToSet(ext) \cup recv \cup next = ToSet(s.vc[v].extwin) \cup s.vc[v].recvwin \cup hand
    /\ ToSet(ext) \cap recv = {} /\ ToSet(ext) \cap next = {} /\ recv \cap next = {}
    /\ \A b \in ToSet(ext) \cup recv : s.vc_of[b] = v

LEMMA QueuedOK ==
    ASSUME NEW s, NEW n \in Nat, NEW hand, Good(s, n, hand), NEW v \in VCs,
           NEW ext, NEW recv, NEW next, Movable(s, v, ext, recv, hand, next)
    PROVE  LET t == Queued(s, v, ext, recv)
           IN  /\ Good(t, n, next) /\ t.free = s.free /\ t.vc_of = s.vc_of
               /\ t.vc[v].sendwin = s.vc[v].sendwin
               /\ \A w \in VCs : t.vc[w].state = s.vc[w].state
<1> /\ s.vc[v].state = "open"
    /\ ext \in Seq(Vbufs) /\ IsInjective(ext)
    /\ recv \in SUBSET Vbufs /\ next \in SUBSET Vbufs
    /\ ToSet(ext) \cup recv \cup next = ToSet(s.vc[v].extwin) \cup s.vc[v].recvwin \cup hand
    /\ ToSet(ext) \cap recv = {} /\ ToSet(ext) \cap next = {} /\ recv \cap next = {}
    /\ \A b \in ToSet(ext) \cup recv : s.vc_of[b] = v
  BY DEF Movable
<1> DEFINE t == Queued(s, v, ext, recv)
           E == ToSet(ext)
           old == ToSet(s.vc[v].extwin) \cup s.vc[v].recvwin
<1>0. /\ MemType(s) /\ FreeOK(s) /\ OutOK(s, {}) /\ FlagsOK(s, {}) /\ OwnerOK(s, {})
      /\ WindowsOK(s, {}) /\ PlaceOK(s, hand, {}) /\ CreditOK(s, n) /\ Drained(s)
  BY DEF MemOK, Good
<1>1. PICK x \in VCType : x = s.vc[v]
  BY <1>0 DEF MemType
<1>2. x.sendwin \in Seq(Vbufs) /\ E \subseteq Vbufs
  BY ToSetIn DEF VCType
<1> DEFINE vc == Relisted(s, v, x.sendwin, ext, recv)
           u == [s EXCEPT !.vc = vc]
<1>3. t = u
  <2>1. [x EXCEPT !.extwin = ext, !.recvwin = recv]
        = [x EXCEPT !.sendwin = x.sendwin, !.extwin = ext, !.recvwin = recv]
    BY DEF VCType
  <2>2. t = [s EXCEPT !.vc = [s.vc EXCEPT ![v] = [s.vc[v] EXCEPT !.extwin = ext, !.recvwin = recv]]]
    BY ONLY <1>0, v \in VCs DEF Queued, MemType, VCType
  <2> QED
    BY <2>1, <2>2, <1>1 DEF Relisted
<1>4. /\ vc \in [VCs -> VCType]
      /\ vc[v].sendwin = x.sendwin /\ vc[v].extwin = ext /\ vc[v].recvwin = recv
      /\ \A w \in VCs : w # v => vc[w] = s.vc[w]
      /\ \A w \in VCs : /\ vc[w].state = s.vc[w].state
                        /\ vc[w].outstanding = s.vc[w].outstanding
  BY <1>0, <1>2, RelistedIs
<1> HIDE DEF vc, t
<1>5. MemType(u)
  BY <1>0, <1>4 DEF MemType
<1>6. /\ u.inprogress = s.inprogress /\ u.unack = s.unack /\ u.vc = vc
      /\ u.ext_send_queue = s.ext_send_queue /\ u.free = s.free /\ u.twice = s.twice
      /\ u.sends = s.sends /\ u.avail = s.avail /\ u.vc_of = s.vc_of
      /\ u.cut = s.cut /\ u.pending = s.pending
  BY <1>0 DEF MemType
<1> HIDE DEF u
<1>7. /\ u.vc[v].extwin = ext /\ u.vc[v].recvwin = recv
      /\ \A w \in VCs : /\ u.vc[w].state = s.vc[w].state
                        /\ u.vc[w].outstanding = s.vc[w].outstanding
                        /\ u.vc[w].sendwin = s.vc[w].sendwin
                        /\ w # v => u.vc[w].extwin = s.vc[w].extwin
                        /\ w # v => u.vc[w].recvwin = s.vc[w].recvwin
  BY <1>1, <1>4, <1>6
<1>8. Out(u, {}) = Out(s, {})
  BY <1>6 DEF Out
<1>9. \A b \in Vbufs : b \in old \cup hand =>
         /\ b \notin Out(s, {}) /\ b \notin s.unack /\ b \notin s.cut /\ b \notin s.free
  <2>1. ASSUME NEW b \in Vbufs, b \in hand
        PROVE  b \notin Out(s, {}) /\ b \notin s.unack /\ b \notin s.cut /\ b \notin s.free
    BY <2>1, <1>0 DEF PlaceOK
  <2>2. ASSUME NEW b \in Vbufs, b \in old
        PROVE  b \notin Out(s, {}) /\ b \notin s.unack /\ b \notin s.cut /\ b \notin s.free
    <3>1. s.vc_of[b] = v /\ b \notin Out(s, {}) /\ b \notin s.unack
      BY <2>2, <1>0 DEF WindowsOK
    <3>2. b \notin s.free
      BY <3>1, <2>2, <1>0, BuffersAssumption DEF FreeOK
    <3>3. b \notin s.cut
      BY <3>1, <2>2, <1>0 DEF OwnerOK
    <3> QED
      BY <3>1, <3>2, <3>3
  <2> QED
    BY <2>1, <2>2
<1>10. \A b : Waiting(s, b) <=> b \in old \/ \E w \in VCs \ {v} :
                s.vc[w].state = "open" /\ b \in ToSet(s.vc[w].extwin) \cup s.vc[w].recvwin
  BY DEF Waiting
<1>11. \A b : Waiting(u, b) <=> b \in E \cup recv \/ \E w \in VCs \ {v} :
                s.vc[w].state = "open" /\ b \in ToSet(s.vc[w].extwin) \cup s.vc[w].recvwin
  BY <1>7 DEF Waiting
<1>12. \A b : b \in E \cup recv \cup next <=> b \in old \cup hand
  OBVIOUS
<1> HIDE DEF old, E
<1>13. FreeOK(u) /\ Drained(u)
  BY <1>0, <1>6 DEF FreeOK, Drained
<1>14. OutOK(u, {})
  BY <1>0, <1>6, <1>8 DEF OutOK
<1>15. FlagsOK(u, {})
  BY <1>0, <1>6, <1>8 DEF FlagsOK
<1>16. OwnerOK(u, {})
  <2> SUFFICES ASSUME NEW c \in Vbufs
               PROVE  LET state(S) == \E w \in VCs : u.vc_of[c] = w /\ u.vc[w].state \in S
                      IN  /\ c \in u.sends => state({"open", "closing"})
                          /\ c \in ToSet(u.ext_send_queue) \cup {} => state({"open"})
                          /\ c \in u.cut => state({"closing", "deleted"})
                          /\ c \in u.unack => state({"open"}) \/ c \in u.cut \cap u.inprogress
    BY DEF OwnerOK
  <2>1. \A S : (\E w \in VCs : u.vc_of[c] = w /\ u.vc[w].state \in S)
               <=> (\E w \in VCs : s.vc_of[c] = w /\ s.vc[w].state \in S)
    BY <1>6, <1>7
  <2> QED
    BY <2>1, <1>0, <1>6 DEF OwnerOK
<1>17. WindowsOK(u, {})
  <2> SUFFICES ASSUME NEW w \in VCs
               PROVE  /\ Len(u.vc[w].sendwin) <= Window + 1
                      /\ u.vc[w].state = "open" =>
                           /\ IsInjective(u.vc[w].sendwin) /\ IsInjective(u.vc[w].extwin)
                           /\ \A b \in Vbufs :
                                /\ b \in ToSet(u.vc[w].sendwin) <=> b \in u.unack /\ u.vc_of[b] = w
                                /\ b \in ToSet(u.vc[w].extwin) \cup u.vc[w].recvwin =>
                                     u.vc_of[b] = w /\ b \notin Out(u, {}) \cup u.unack
                                /\ ~(b \in ToSet(u.vc[w].extwin) /\ b \in u.vc[w].recvwin)
    BY DEF WindowsOK
  <2>1. CASE w = v
    <3>1. \A b \in E \cup recv : s.vc_of[b] = v /\ b \in old \cup hand
      BY <1>12 DEF E
    <3>2. \A b \in Vbufs : /\ b \in E \cup recv =>
                                u.vc_of[b] = v /\ b \notin Out(u, {}) \cup u.unack
                           /\ ~(b \in E /\ b \in recv)
      BY <3>1, <1>6, <1>8, <1>9 DEF E
    <3>3. Len(u.vc[v].sendwin) <= Window + 1 /\ IsInjective(u.vc[v].sendwin)
          /\ \A b \in Vbufs : b \in ToSet(u.vc[v].sendwin) <=> b \in u.unack /\ u.vc_of[b] = v
      BY <1>0, <1>6, <1>7 DEF WindowsOK
    <3>4. IsInjective(u.vc[v].extwin) /\ ToSet(u.vc[v].extwin) = E /\ u.vc[v].recvwin = recv
      BY <1>7 DEF E
    <3> QED
      BY <2>1, <3>2, <3>3, <3>4
  <2>2. CASE w # v
    BY <2>2, <1>0, <1>6, <1>7, <1>8 DEF WindowsOK
  <2> QED
    BY <2>1, <2>2
<1>18. PlaceOK(u, next, {})
  <2> SUFFICES ASSUME NEW b \in Vbufs
               PROVE  LET linked == b \in Out(u, {}) \cup u.unack \cup u.cut \/ Waiting(u, b)
                      IN  /\ linked \/ b \in next \cup u.free
                          /\ ~(linked /\ b \in next) /\ ~(b \in next /\ b \in u.free)
    BY DEF PlaceOK
  <2>1. LET linked == b \in Out(s, {}) \cup s.unack \cup s.cut \/ Waiting(s, b)
        IN  /\ linked \/ b \in hand \cup s.free
            /\ ~(linked /\ b \in hand) /\ ~(b \in hand /\ b \in s.free)
    BY <1>0 DEF PlaceOK
  <2>2. b \in next => b \notin E \cup recv
    BY DEF E
  <2>3. ASSUME b \in old, NEW w \in VCs \ {v}, s.vc[w].state = "open"
        PROVE  b \notin ToSet(s.vc[w].extwin) \cup s.vc[w].recvwin
    <3>1. s.vc_of[b] = v
      BY <2>3, <1>0 DEF WindowsOK, old
    <3> QED
      BY <3>1, <2>3, <1>0 DEF WindowsOK
  <2> QED
    BY <2>1, <2>2, <2>3, <1>6, <1>8, <1>9, <1>10, <1>11, <1>12
<1>19. CreditOK(u, n)
  BY <1>0, <1>6, <1>7 DEF CreditOK
<1>20. Good(u, n, next)
  BY <1>5, <1>13, <1>14, <1>15, <1>16, <1>17, <1>18, <1>19 DEF MemOK, Good
<1> QED
  BY <1>3, <1>6, <1>7, <1>20 DEF t

LEMMA QueuedExt ==
    ASSUME NEW s, MemType(s), NEW v \in VCs, NEW ext,
           NEW t, t = [s EXCEPT !.vc[v].extwin = ext]
    PROVE  t = Queued(s, v, ext, s.vc[v].recvwin)
<1>1. PICK x \in VCType : x = s.vc[v]
  BY DEF MemType
<1>2. [x EXCEPT !.extwin = ext, !.recvwin = x.recvwin] = [x EXCEPT !.extwin = ext]
  BY DEF VCType
<1>3. t = [s EXCEPT !.vc = [s.vc EXCEPT ![v] = [s.vc[v] EXCEPT !.extwin = ext]]]
  OBVIOUS
<1>4. PICK r : r = x.recvwin
  OBVIOUS
<1>5. Queued(s, v, ext, r)
      = [s EXCEPT !.vc = [s.vc EXCEPT ![v] = [s.vc[v] EXCEPT !.extwin = ext, !.recvwin = r]]]
  BY DEF Queued, MemType, VCType
<1> QED
  BY <1>1, <1>2, <1>3, <1>4, <1>5, Zenon

LEMMA QueuedRecv ==
    ASSUME NEW s, MemType(s), NEW v \in VCs, NEW recv,
           NEW t, t = [s EXCEPT !.vc[v].recvwin = recv]
    PROVE  t = Queued(s, v, s.vc[v].extwin, recv)
<1>1. PICK x \in VCType : x = s.vc[v]
  BY DEF MemType
<1>2. [x EXCEPT !.extwin = x.extwin, !.recvwin = recv] = [x EXCEPT !.recvwin = recv]
  BY DEF VCType
<1>3. t = [s EXCEPT !.vc = [s.vc EXCEPT ![v] = [s.vc[v] EXCEPT !.recvwin = recv]]]
  OBVIOUS
<1>4. PICK e : e = x.extwin
  OBVIOUS
<1>5. Queued(s, v, e, recv)
      = [s EXCEPT !.vc = [s.vc EXCEPT ![v] = [s.vc[v] EXCEPT !.extwin = e, !.recvwin = recv]]]
  BY DEF Queued, MemType, VCType
<1> QED
  BY <1>1, <1>2, <1>3, <1>4, <1>5, Zenon

\* ud_flush_ext_window.
LEMMA FlushOK ==
    ASSUME NEW s, NEW n \in Nat, NEW hand, Good(s, n, hand), NEW v \in VCs,
           s.vc[v].state = "open"
    PROVE  Good(FlushExtWindow(s, v), n, hand) /\ Kept(s, FlushExtWindow(s, v))
<1>0. MemType(s) /\ WindowsOK(s, {}) /\ PlaceOK(s, hand, {})
  BY DEF MemOK, Good
<1>1. PICK x \in VCType : x = s.vc[v]
  BY <1>0 DEF MemType
<1>2. x.sendwin \in Seq(Vbufs) /\ x.extwin \in Seq(Vbufs) /\ x.recvwin \in SUBSET Vbufs
      /\ Len(x.sendwin) \in Nat /\ hand \subseteq Vbufs
  BY <1>0 DEF VCType, PlaceOK
<1>3. CASE ~(Len(x.sendwin) < Window)
  BY <1>1, <1>3 DEF FlushExtWindow, Kept
<1>4. CASE Len(x.sendwin) < Window
  <2>1. PICK room \in Nat : room = Window - Len(x.sendwin)
    <3>1. \A i, j \in Nat : j < i => i - j \in Nat
      OBVIOUS
    <3> QED
      BY <3>1, <1>2, <1>4, Sizes, Zenon
  <2>2. PICK first : first = FirstOf(x.extwin, room)
    OBVIOUS
  <2>3. PICK rest : rest = AfterFirst(x.extwin, Len(first))
    OBVIOUS
  <2>4. /\ first \in Seq(Vbufs) /\ rest \in Seq(Vbufs)
        /\ Len(first) = IF room < Len(x.extwin) THEN room ELSE Len(x.extwin)
        /\ ToSet(x.extwin) = ToSet(first) \cup ToSet(rest)
        /\ IsInjective(x.extwin) <=>
              IsInjective(first) /\ IsInjective(rest) /\ ToSet(first) \cap ToSet(rest) = {}
    <3>1. PICK e \in Seq(Vbufs) : e = x.extwin
      BY <1>2
    <3>2. first = FirstOf(e, room) /\ rest = AfterFirst(e, Len(first))
      BY <2>2, <2>3, <3>1
    <3>3. /\ first \in Seq(Vbufs) /\ rest \in Seq(Vbufs)
          /\ Len(first) = IF room < Len(e) THEN room ELSE Len(e)
          /\ ToSet(e) = ToSet(first) \cup ToSet(rest)
          /\ IsInjective(e) <=>
                IsInjective(first) /\ IsInjective(rest) /\ ToSet(first) \cap ToSet(rest) = {}
      BY <3>2, SplitList
    <3> QED
      BY <3>1, <3>3
  <2>5. /\ IsInjective(first) /\ IsInjective(rest) /\ ToSet(first) \cap ToSet(rest) = {}
        /\ ToSet(first) \subseteq Vbufs /\ ToSet(rest) \subseteq Vbufs
    BY <2>4, <1>0, <1>1, ToSetIn DEF WindowsOK
  <2>6. \A b \in ToSet(x.extwin) \cup x.recvwin :
           s.vc_of[b] = v /\ b \notin hand /\ ~(b \in ToSet(x.extwin) /\ b \in x.recvwin)
    <3> SUFFICES ASSUME NEW b \in ToSet(x.extwin) \cup x.recvwin
                 PROVE  s.vc_of[b] = v /\ b \notin hand
                        /\ ~(b \in ToSet(x.extwin) /\ b \in x.recvwin)
      OBVIOUS
    <3>1. b \in Vbufs
      BY <1>2, <2>4, <2>5
    <3>2. Waiting(s, b)
      BY <1>1 DEF Waiting
    <3> QED
      BY <3>1, <3>2, <1>0, <1>1 DEF WindowsOK, PlaceOK
  <2>7. PICK u : u = Queued(s, v, rest, x.recvwin)
    OBVIOUS
  <2>8. FlushExtWindow(s, v) = SendNow(u, v, first)
    <3>1. FlushExtWindow(s, v) = SendNow([s EXCEPT !.vc[v].extwin = rest], v, first)
      <4>1. FlushExtWindow(s, v)
            = SendNow([s EXCEPT !.vc[v].extwin = AfterFirst(s.vc[v].extwin,
                          Len(FirstOf(s.vc[v].extwin, Window - Len(s.vc[v].sendwin))))], v,
                      FirstOf(s.vc[v].extwin, Window - Len(s.vc[v].sendwin)))
        BY <1>1, <1>4 DEF FlushExtWindow
      <4>2. FirstOf(s.vc[v].extwin, Window - Len(s.vc[v].sendwin)) = first
        BY <1>1, <2>1, <2>2, Zenon
      <4>3. AfterFirst(s.vc[v].extwin, Len(first)) = rest
        BY <1>1, <2>3, Zenon
      <4> QED
        BY <4>1, <4>2, <4>3
    <3>2. PICK y : y = [s EXCEPT !.vc[v].extwin = rest]
      OBVIOUS
    <3>4. y = Queued(s, v, rest, s.vc[v].recvwin)
      <4>1. MemType(s) /\ v \in VCs
        BY <1>0
      <4> QED
        BY ONLY <4>1, <3>2, QueuedExt, Zenon
    <3> QED
      BY <3>1, <3>2, <3>4, <1>1, <2>7, Zenon
  <2>9. /\ Good(u, n, hand \cup ToSet(first)) /\ u.free = s.free /\ u.vc_of = s.vc_of
        /\ u.vc[v].sendwin = s.vc[v].sendwin
        /\ \A w \in VCs : u.vc[w].state = s.vc[w].state
    <3>1. PICK next \in SUBSET Vbufs : next = hand \cup ToSet(first)
      BY <1>2, <2>5
    <3>2. /\ ToSet(rest) \cup x.recvwin \cup next
             = ToSet(s.vc[v].extwin) \cup s.vc[v].recvwin \cup hand
          /\ ToSet(rest) \cap x.recvwin = {} /\ ToSet(rest) \cap next = {}
          /\ x.recvwin \cap next = {}
          /\ \A b \in ToSet(rest) \cup x.recvwin : s.vc_of[b] = v
      BY <3>1, <1>1, <2>4, <2>5, <2>6
    <3>3. rest \in Seq(Vbufs) /\ IsInjective(rest) /\ x.recvwin \in SUBSET Vbufs
      BY <1>2, <2>4, <2>5
    <3>4. PICK recv \in SUBSET Vbufs : recv = x.recvwin
      BY <3>3
    <3>5. /\ ToSet(rest) \cup recv \cup next
             = ToSet(s.vc[v].extwin) \cup s.vc[v].recvwin \cup hand
          /\ ToSet(rest) \cap recv = {} /\ ToSet(rest) \cap next = {}
          /\ recv \cap next = {}
          /\ \A b \in ToSet(rest) \cup recv : s.vc_of[b] = v
      BY <3>2, <3>4
    <3>6. LET t == Queued(s, v, rest, recv)
          IN  /\ Good(t, n, next) /\ t.free = s.free /\ t.vc_of = s.vc_of
              /\ t.vc[v].sendwin = s.vc[v].sendwin
              /\ \A w \in VCs : t.vc[w].state = s.vc[w].state
      <4>1. Movable(s, v, rest, recv, hand, next)
        BY <3>3, <3>5 DEF Movable
      <4> QED
        BY <4>1, QueuedOK
    <3> QED
      BY <3>1, <3>4, <3>6, <2>7
  <2>10. Len(u.vc[v].sendwin) + Len(first) <= Window + 1
    <3>1. \A i, j, k, m \in Nat : i = m - j /\ (k = i \/ (k <= i)) => j + k <= m + 1
      OBVIOUS
    <3>2. PICK i \in Nat, j \in Nat, k \in Nat : i = room /\ j = Len(x.sendwin) /\ k = Len(first)
      <4>1. Len(first) \in Nat
        BY <2>4
      <4> QED
        BY <4>1, <1>2, Zenon
    <3>3. k <= i
      BY <3>2, <2>4
    <3>4. j + k <= Window + 1
      BY <3>1, <3>2, <3>3, <2>1, Sizes
    <3>5. Len(u.vc[v].sendwin) = j /\ Len(first) = k
      BY <3>2, <2>9, <1>1, Zenon
    <3> QED
      BY <3>4, <3>5, Zenon
  <2>11. \A b \in ToSet(first) : u.vc_of[b] = v
    BY <2>4, <2>6, <2>9
  <2>12. LET t == SendNow(u, v, first)
         IN  /\ Good(t, n, (hand \cup ToSet(first)) \ ToSet(first))
             /\ t.free = u.free /\ t.vc_of = u.vc_of
             /\ \A w \in VCs : t.vc[w].state = u.vc[w].state
    <3>1. PICK h : h = hand \cup ToSet(first)
      OBVIOUS
    <3>0. PICK left : left = h \ ToSet(first)
      OBVIOUS
    <3>2. /\ Good(u, n, h) /\ ToSet(first) \subseteq h /\ u.vc[v].state = "open"
          /\ first \in Seq(Vbufs) /\ IsInjective(first)
      BY <3>1, <2>4, <2>5, <2>9
    <3>3. LET t == SendNow(u, v, first)
          IN  /\ Good(t, n, left) /\ t.free = u.free /\ t.vc_of = u.vc_of
              /\ \A w \in VCs : t.vc[w].state = u.vc[w].state
      <4>1. Sendable(u, v, first, h, left)
        BY <3>0, <3>2, <2>10, <2>11 DEF Sendable
      <4>2. n \in Nat /\ Good(u, n, h) /\ v \in VCs
        BY <3>2
      <4>3. Good(SendNow(u, v, first), n, left) /\ Kept(u, SendNow(u, v, first))
        BY ONLY <4>1, <4>2, SendNowOK
      <4> QED
        BY <4>3 DEF Kept
    <3> QED
      BY <3>0, <3>1, <3>3
  <2>13. (hand \cup ToSet(first)) \ ToSet(first) = hand
    BY <2>4, <2>6
  <2> QED
    BY <2>8, <2>9, <2>12, <2>13 DEF Kept
<1> QED
  BY <1>3, <1>4

\* ud_process_ack.
LEMMA ProcessAckOK ==
    ASSUME NEW s, NEW n \in Nat, NEW hand, Good(s, n, hand), NEW v \in VCs,
           s.vc[v].state = "open", NEW k \in 0..Len(s.vc[v].sendwin)
    PROVE  Good(ProcessAck(s, v, k), n, hand) /\ Grown(s, ProcessAck(s, v, k), hand)
<1>1. s.vc[v].sendwin \in Seq(Vbufs)
  BY DEF Good, MemOK, MemType, VCType
<1>2. PICK q \in Seq(Vbufs) : q = s.vc[v].sendwin
  BY <1>1
<1>3. PICK D : D = ToSet(SubSeq(q, 1, k))
  OBVIOUS
<1>4. D \subseteq ToSet(q)
  <2>1. k \in 0..Len(q)
    BY <1>2
  <2>2. ASSUME NEW b \in D
        PROVE  b \in ToSet(q)
    <3>1. PICK i \in 1..k : b = q[i]
      BY <2>1, <1>3 DEF ToSet
    <3> QED
      BY <2>1, <3>1, InList
  <2> QED
    BY <2>2
<1>5. Covered(s, v, D)
  BY <1>2, <1>4 DEF Covered
<1>6. PICK t : t = Release(Unlink(s, v, D), D)
  OBVIOUS
<1>7. Good(t, n, hand) /\ Grown(s, t, hand)
  BY <1>5, <1>6, AckedOK
<1>8. t.vc[v].state = "open"
  BY <1>7 DEF Grown
<1>9. PICK u : u = FlushExtWindow(t, v)
  OBVIOUS
<1>10. Good(u, n, hand) /\ Kept(t, u)
  BY <1>7, <1>8, <1>9, FlushOK
<1>11. ProcessAck(s, v, k) = u
  BY <1>2, <1>3, <1>6, <1>9, Zenon DEF ProcessAck
<1> QED
  BY <1>7, <1>10, <1>11, GrownTrans

\* The lists of an open VC hold vbufs of that VC, which are not in hand.
LEMMA ListsOf ==
    ASSUME NEW s, NEW n \in Nat, NEW hand, Good(s, n, hand), NEW v \in VCs,
           s.vc[v].state = "open"
    PROVE  /\ s.vc[v].extwin \in Seq(Vbufs) /\ IsInjective(s.vc[v].extwin)
           /\ s.vc[v].sendwin \in Seq(Vbufs) /\ Len(s.vc[v].sendwin) \in Nat
           /\ s.vc[v].recvwin \in SUBSET Vbufs /\ hand \in SUBSET Vbufs
           /\ ToSet(s.vc[v].extwin) \cap s.vc[v].recvwin = {}
           /\ ToSet(s.vc[v].extwin) \cap hand = {} /\ s.vc[v].recvwin \cap hand = {}
           /\ \A b \in ToSet(s.vc[v].extwin) \cup s.vc[v].recvwin : s.vc_of[b] = v
<1>0. MemType(s) /\ WindowsOK(s, {}) /\ PlaceOK(s, hand, {})
  BY DEF MemOK, Good
<1>1. PICK x \in VCType : x = s.vc[v]
  BY <1>0 DEF MemType
<1>2. x.extwin \in Seq(Vbufs) /\ IsInjective(x.extwin) /\ x.sendwin \in Seq(Vbufs)
      /\ x.recvwin \in SUBSET Vbufs /\ hand \in SUBSET Vbufs
  BY <1>0, <1>1 DEF VCType, WindowsOK, PlaceOK
<1>3. ToSet(x.extwin) \subseteq Vbufs
  BY <1>2, ToSetIn
<1>4. \A b \in ToSet(x.extwin) \cup x.recvwin :
         s.vc_of[b] = v /\ b \notin hand /\ ~(b \in ToSet(x.extwin) /\ b \in x.recvwin)
  <2> SUFFICES ASSUME NEW b \in ToSet(x.extwin) \cup x.recvwin
               PROVE  s.vc_of[b] = v /\ b \notin hand
                      /\ ~(b \in ToSet(x.extwin) /\ b \in x.recvwin)
    OBVIOUS
  <2>1. b \in Vbufs
    BY <1>2, <1>3
  <2>2. Waiting(s, b)
    BY <1>1 DEF Waiting
  <2> QED
    BY <2>1, <2>2, <1>0, <1>1 DEF WindowsOK, PlaceOK
<1>5. Len(x.sendwin) \in Nat
  BY <1>2
<1> QED
  BY <1>1, <1>2, <1>4, <1>5

\* ud_post_send.
LEMMA PostSendOK ==
    ASSUME NEW s, NEW n \in Nat, NEW b, Good(s, n, {b}), NEW v \in VCs,
           s.vc[v].state = "open", s.vc_of[b] = v
    PROVE  Good(PostSend(s, v, b), n, {}) /\ Kept(s, PostSend(s, v, b))
<1> DEFINE wait == Len(s.vc[v].sendwin) > Window
                   \/ (s.vc[v].extwin # << >> /\ Head(s.vc[v].extwin) # b)
<1>0. /\ s.vc[v].extwin \in Seq(Vbufs) /\ IsInjective(s.vc[v].extwin)
      /\ s.vc[v].sendwin \in Seq(Vbufs) /\ Len(s.vc[v].sendwin) \in Nat
      /\ s.vc[v].recvwin \in SUBSET Vbufs /\ {b} \in SUBSET Vbufs
      /\ ToSet(s.vc[v].extwin) \cap s.vc[v].recvwin = {}
      /\ ToSet(s.vc[v].extwin) \cap {b} = {} /\ s.vc[v].recvwin \cap {b} = {}
      /\ \A c \in ToSet(s.vc[v].extwin) \cup s.vc[v].recvwin : s.vc_of[c] = v
  <2>1. PICK h : h = {b}
    OBVIOUS
  <2>2. Good(s, n, h) /\ n \in Nat /\ v \in VCs /\ s.vc[v].state = "open"
    BY <2>1
  <2>3. /\ s.vc[v].extwin \in Seq(Vbufs) /\ IsInjective(s.vc[v].extwin)
        /\ s.vc[v].sendwin \in Seq(Vbufs) /\ Len(s.vc[v].sendwin) \in Nat
        /\ s.vc[v].recvwin \in SUBSET Vbufs /\ h \in SUBSET Vbufs
        /\ ToSet(s.vc[v].extwin) \cap s.vc[v].recvwin = {}
        /\ ToSet(s.vc[v].extwin) \cap h = {} /\ s.vc[v].recvwin \cap h = {}
        /\ \A c \in ToSet(s.vc[v].extwin) \cup s.vc[v].recvwin : s.vc_of[c] = v
    BY ONLY <2>2, ListsOf
  <2> QED
    BY <2>1, <2>3
<1>1. b \in Vbufs
  BY <1>0
<1>2. CASE wait
  <2>1. PICK e \in Seq(Vbufs) : e = s.vc[v].extwin
    BY <1>0
  <2>2. PICK ext : ext = Append(e, b)
    OBVIOUS
  <2>3. ext \in Seq(Vbufs) /\ ToSet(ext) = ToSet(e) \cup {b} /\ IsInjective(ext)
    <3>1. << b >> \in Seq(Vbufs) /\ ToSet(<< b >>) = {b} /\ IsInjective(<< b >>)
      BY <1>1, OneList
    <3>2. PICK o \in Seq(Vbufs) : o = << b >>
      BY <3>1
    <3>3. ToSet(e) \cap ToSet(o) = {} /\ IsInjective(e) /\ IsInjective(o)
      BY <1>0, <2>1, <3>1, <3>2
    <3>4. e \o o \in Seq(Vbufs) /\ ToSet(e \o o) = ToSet(e) \cup ToSet(o) /\ IsInjective(e \o o)
      BY <3>3, JoinedLists
    <3>5. ext = e \o o
      BY <1>1, <2>2, <3>2, AppendedList
    <3> QED
      BY <3>1, <3>2, <3>4, <3>5
  <2>4. PICK recv \in SUBSET Vbufs : recv = s.vc[v].recvwin
    BY <1>0
  <2>5. Movable(s, v, ext, recv, {b}, {})
    BY <1>0, <2>1, <2>3, <2>4 DEF Movable
  <2>6. PICK t : t = [s EXCEPT !.vc[v].extwin = ext]
    OBVIOUS
  <2>7. t = Queued(s, v, ext, s.vc[v].recvwin)
    <3>1. MemType(s) /\ v \in VCs
      BY DEF Good, MemOK
    <3> QED
      BY ONLY <3>1, <2>6, QueuedExt, Zenon
  <2>8. PostSend(s, v, b) = t
    <3>1. PostSend(s, v, b) = [s EXCEPT !.vc[v].extwin = Append(s.vc[v].extwin, b)]
      BY <1>2 DEF PostSend
    <3> QED
      BY <3>1, <2>1, <2>2, <2>6, Zenon
  <2>9. PICK h, e0 : h = {b} /\ e0 = {}
    OBVIOUS
  <2>10. LET q == Queued(s, v, ext, recv)
         IN  /\ Good(q, n, e0) /\ q.free = s.free /\ q.vc_of = s.vc_of
             /\ q.vc[v].sendwin = s.vc[v].sendwin
             /\ \A w \in VCs : q.vc[w].state = s.vc[w].state
    <3>1. Movable(s, v, ext, recv, h, e0) /\ Good(s, n, h)
      BY <2>5, <2>9
    <3> QED
      BY <3>1, QueuedOK
  <2> QED
    BY <2>4, <2>7, <2>8, <2>9, <2>10 DEF Kept
<1>3. CASE ~wait
  <2>1. PICK h, left, o : h = {b} /\ left = {} /\ o = << b >>
    OBVIOUS
  <2>2. o \in Seq(Vbufs) /\ ToSet(o) = {b} /\ IsInjective(o) /\ Len(o) = 1
    BY <1>1, <2>1, OneList
  <2>3. Len(s.vc[v].sendwin) + Len(o) <= Window + 1
    <3>1. \A i, j \in Nat : ~(i > j) => i + 1 <= j + 1
      OBVIOUS
    <3>2. Len(s.vc[v].sendwin) + 1 <= Window + 1
      BY <3>1, <1>0, <1>3, Sizes, Zenon
    <3> QED
      BY <2>2, <3>2, Zenon
  <2>4. Sendable(s, v, o, h, left)
    BY <2>1, <2>2, <2>3 DEF Sendable
  <2>5. Good(s, n, h)
    BY <2>1
  <2>6. PICK t : t = SendNow(s, v, o)
    OBVIOUS
  <2>7. Good(t, n, left) /\ Kept(s, t)
    BY <2>4, <2>5, <2>6, SendNowOK
  <2>8. PostSend(s, v, b) = t
    BY <1>3, <2>1, <2>6 DEF PostSend
  <2> QED
    BY <2>1, <2>7, <2>8
<1> QED
  BY <1>2, <1>3

\* A vbuf in hand is submitted as it is: ud_send_ack sets no flag.
LEMMA UnflaggedOK ==
    ASSUME NEW s, NEW n \in Nat, NEW hand, MemOK(s, n, hand, {}), NEW b \in hand,
           NEW v \in VCs, s.vc_of[b] = v, s.vc[v].state = "open", NEW left, left = hand \ {b},
           NEW sub, sub = {b}
    PROVE  MemOK(s, n, left, sub)
<1>0. /\ MemType(s) /\ FreeOK(s) /\ OutOK(s, {}) /\ FlagsOK(s, {}) /\ OwnerOK(s, {})
      /\ WindowsOK(s, {}) /\ PlaceOK(s, hand, {}) /\ CreditOK(s, n)
  BY DEF MemOK
<1>1. b \in Vbufs /\ b \notin Out(s, {}) /\ b \notin s.unack /\ b \notin s.cut /\ b \notin s.free
      /\ ~Waiting(s, b)
  BY <1>0 DEF PlaceOK
<1>2. Out(s, sub) = Out(s, {}) \cup {b}
  BY DEF Out
<1>3. OutOK(s, sub)
  <2>1. b \notin s.sends \cup ToSet(s.ext_send_queue)
    BY <1>1 DEF Out
  <2> QED
    BY <2>1, <1>0, <1>1, <1>2 DEF OutOK
<1>4. FlagsOK(s, sub)
  BY <1>0, <1>1, <1>2 DEF FlagsOK
<1>5. OwnerOK(s, sub)
  <2> SUFFICES ASSUME NEW c \in Vbufs
               PROVE  LET state(S) == \E w \in VCs : s.vc_of[c] = w /\ s.vc[w].state \in S
                      IN  /\ c \in s.sends => state({"open", "closing"})
                          /\ c \in ToSet(s.ext_send_queue) \cup sub => state({"open"})
                          /\ c \in s.cut => state({"closing", "deleted"})
                          /\ c \in s.unack => state({"open"}) \/ c \in s.cut \cap s.inprogress
    BY DEF OwnerOK
  <2>1. c = b => \E w \in VCs : s.vc_of[c] = w /\ s.vc[w].state \in {"open"}
    OBVIOUS
  <2> QED
    BY <2>1, <1>0 DEF OwnerOK
<1>6. WindowsOK(s, sub)
  <2>1. \A w \in VCs : s.vc[w].state = "open" =>
           b \notin ToSet(s.vc[w].extwin) \cup s.vc[w].recvwin
    BY <1>1 DEF Waiting
  <2> SUFFICES ASSUME NEW w \in VCs
               PROVE  /\ Len(s.vc[w].sendwin) <= Window + 1
                      /\ s.vc[w].state = "open" =>
                           /\ IsInjective(s.vc[w].sendwin) /\ IsInjective(s.vc[w].extwin)
                           /\ \A c \in Vbufs :
                                /\ c \in ToSet(s.vc[w].sendwin) <=> c \in s.unack /\ s.vc_of[c] = w
                                /\ c \in ToSet(s.vc[w].extwin) \cup s.vc[w].recvwin =>
                                     s.vc_of[c] = w /\ c \notin Out(s, sub) \cup s.unack
                                /\ ~(c \in ToSet(s.vc[w].extwin) /\ c \in s.vc[w].recvwin)
    BY DEF WindowsOK
  <2>2. ASSUME NEW c \in Vbufs, s.vc[w].state = "open",
               c \in ToSet(s.vc[w].extwin) \cup s.vc[w].recvwin
        PROVE  s.vc_of[c] = w /\ c \notin Out(s, sub) \cup s.unack
    <3>1. s.vc_of[c] = w /\ c \notin Out(s, {}) \cup s.unack
      BY <2>2, <1>0 DEF WindowsOK
    <3> QED
      BY <3>1, <2>1, <2>2, <1>2
  <2> QED
    BY <2>2, <1>0 DEF WindowsOK
<1>7. PlaceOK(s, left, sub)
  BY <1>0, <1>1, <1>2 DEF PlaceOK
<1> QED
  BY <1>0, <1>3, <1>4, <1>5, <1>6, <1>7 DEF MemOK

\* ud_send_ack.
LEMMA SendAckOK ==
    ASSUME NEW s, NEW n \in Nat, NEW hand, Good(s, n, hand), NEW v \in VCs,
           s.vc[v].state = "open", s.free # {}
    PROVE  LET t == SendAck(s, v)
           IN  /\ Good(t, n, hand)
               /\ \A w \in VCs : t.vc[w].state = s.vc[w].state
               /\ \A b \in hand : t.vc_of[b] = s.vc_of[b]
<1>1. PICK t : t = Get(s, v)
  OBVIOUS
<1>2. PICK g : g = Got(s)
  OBVIOUS
<1>3. PICK h : h = hand \cup {g}
  OBVIOUS
<1>4. MemOK(t, n, h, {}) /\ Taken(s, t, g, v)
  BY <1>1, <1>2, <1>3, GetOK DEF Good
<1>5. g \notin hand /\ hand \subseteq Vbufs
  BY <1>4 DEF Good, MemOK, PlaceOK, Taken
<1>6. PICK sub : sub = {g}
  OBVIOUS
<1>7. MemOK(t, n, hand, sub) /\ Drained(t)
  <2>1. g \in h /\ t.vc[v].state = "open" /\ t.vc_of[g] = v /\ hand = h \ {g}
    BY <1>3, <1>4, <1>5 DEF Taken
  <2>2. MemOK(t, n, hand, sub)
    BY <2>1, <1>4, <1>6, UnflaggedOK
  <2> QED
    BY <2>2, <1>4 DEF Good, Drained, Taken
<1>8. PICK o : o = << g >>
  OBVIOUS
<1>9. o \in Seq(Vbufs) /\ ToSet(o) = sub /\ IsInjective(o)
  BY <1>4, <1>6, <1>8, OneList DEF Taken
<1>10. PICK u : u = Submit(t, o)
  OBVIOUS
<1>11. /\ Good(u, n, hand) /\ u.free = t.free /\ u.vc_of = t.vc_of
       /\ \A w \in VCs : u.vc[w].state = t.vc[w].state
  BY <1>7, <1>9, <1>10, SubmitOK
<1>12. SendAck(s, v) = u
  BY <1>1, <1>2, <1>8, <1>10 DEF SendAck
<1> QED
  BY <1>4, <1>5, <1>11, <1>12 DEF Taken

\* A packet that has arrived is kept for the application.
LEMMA KeepOK ==
    ASSUME NEW s, NEW n \in Nat, NEW b, Good(s, n, {b}), NEW v \in VCs,
           s.vc[v].state = "open", s.vc_of[b] = v
    PROVE  Good([s EXCEPT !.vc[v].recvwin = @ \cup {b}], n, {})
<1>1. PICK h, none : h = {b} /\ none = {}
  OBVIOUS
<1>2. Good(s, n, h) /\ n \in Nat /\ v \in VCs /\ s.vc[v].state = "open"
  BY <1>1
<1>3. /\ s.vc[v].extwin \in Seq(Vbufs) /\ IsInjective(s.vc[v].extwin)
      /\ s.vc[v].sendwin \in Seq(Vbufs) /\ Len(s.vc[v].sendwin) \in Nat
      /\ s.vc[v].recvwin \in SUBSET Vbufs /\ h \in SUBSET Vbufs
      /\ ToSet(s.vc[v].extwin) \cap s.vc[v].recvwin = {}
      /\ ToSet(s.vc[v].extwin) \cap h = {} /\ s.vc[v].recvwin \cap h = {}
      /\ \A c \in ToSet(s.vc[v].extwin) \cup s.vc[v].recvwin : s.vc_of[c] = v
  BY ONLY <1>2, ListsOf
<1>4. PICK recv : recv = s.vc[v].recvwin \cup {b}
  OBVIOUS
<1>5. PICK ext : ext = s.vc[v].extwin
  OBVIOUS
<1>6. Movable(s, v, ext, recv, h, none)
  BY <1>1, <1>3, <1>4, <1>5 DEF Movable
<1>7. PICK t : t = [s EXCEPT !.vc[v].recvwin = recv]
  OBVIOUS
<1>8. t = Queued(s, v, s.vc[v].extwin, recv)
  <2>1. MemType(s) /\ v \in VCs
    BY DEF Good, MemOK
  <2> QED
    BY ONLY <2>1, <1>7, QueuedRecv, Zenon
<1>9. LET q == Queued(s, v, ext, recv)
      IN  /\ Good(q, n, none) /\ q.free = s.free /\ q.vc_of = s.vc_of
          /\ q.vc[v].sendwin = s.vc[v].sendwin
          /\ \A w \in VCs : q.vc[w].state = s.vc[w].state
  BY <1>2, <1>6, QueuedOK
<1>10. [s EXCEPT !.vc[v].recvwin = @ \cup {b}] = t
  BY <1>4, <1>7
<1> QED
  BY <1>1, <1>5, <1>8, <1>9, <1>10

\* The application takes a packet.
LEMMA ReadOK ==
    ASSUME NEW s, NEW n \in Nat, Good(s, n, {}), NEW v \in VCs,
           s.vc[v].state = "open", NEW b \in s.vc[v].recvwin
    PROVE  Good(Release([s EXCEPT !.vc[v].recvwin = @ \ {b}], {b}), n, {})
<1>1. PICK h, none : h = {b} /\ none = {}
  OBVIOUS
<1>2. Good(s, n, none) /\ n \in Nat /\ v \in VCs /\ s.vc[v].state = "open"
  BY <1>1
<1>3. /\ s.vc[v].extwin \in Seq(Vbufs) /\ IsInjective(s.vc[v].extwin)
      /\ s.vc[v].sendwin \in Seq(Vbufs) /\ Len(s.vc[v].sendwin) \in Nat
      /\ s.vc[v].recvwin \in SUBSET Vbufs /\ none \in SUBSET Vbufs
      /\ ToSet(s.vc[v].extwin) \cap s.vc[v].recvwin = {}
      /\ ToSet(s.vc[v].extwin) \cap none = {} /\ s.vc[v].recvwin \cap none = {}
      /\ \A c \in ToSet(s.vc[v].extwin) \cup s.vc[v].recvwin : s.vc_of[c] = v
  BY ONLY <1>2, ListsOf
<1>4. PICK recv : recv = s.vc[v].recvwin \ {b}
  OBVIOUS
<1>5. PICK ext : ext = s.vc[v].extwin
  OBVIOUS
<1>6. Movable(s, v, ext, recv, none, h)
  BY <1>1, <1>3, <1>4, <1>5 DEF Movable
<1>7. PICK t : t = [s EXCEPT !.vc[v].recvwin = recv]
  OBVIOUS
<1>8. t = Queued(s, v, s.vc[v].extwin, recv)
  <2>1. MemType(s) /\ v \in VCs
    BY DEF Good, MemOK
  <2> QED
    BY ONLY <2>1, <1>7, QueuedRecv, Zenon
<1>9. LET q == Queued(s, v, ext, recv)
      IN  /\ Good(q, n, h) /\ q.free = s.free /\ q.vc_of = s.vc_of
          /\ q.vc[v].sendwin = s.vc[v].sendwin
          /\ \A w \in VCs : q.vc[w].state = s.vc[w].state
  BY <1>2, <1>6, QueuedOK
<1>10. [s EXCEPT !.vc[v].recvwin = @ \ {b}] = t
  BY <1>4, <1>7
<1>11. Good(t, n, h) /\ b \in h
  BY <1>1, <1>5, <1>8, <1>9
<1>12. PICK u, left : u = Release(t, {b}) /\ left = h \ {b}
  OBVIOUS
<1>13. Good(u, n, left)
  BY <1>11, <1>12, ReleaseHandOK
<1>14. left = {}
  BY <1>1, <1>12
<1> QED
  BY <1>10, <1>12, <1>13, <1>14

-----------------------------------------------------------------------------
(* Closing a VC.                                                              *)

\* One VC changes its state or its send window; the other fields stay.
SameBut(s, t, v) ==
    /\ MemType(t) /\ t.free = s.free /\ t.twice = s.twice
    /\ t.sends = s.sends /\ t.avail = s.avail /\ t.vc_of = s.vc_of /\ t.unack = s.unack
    /\ t.inprogress = s.inprogress /\ t.pending = s.pending
    /\ \A w \in VCs : w # v => t.vc[w] = s.vc[w]
    /\ t.vc[v].outstanding = s.vc[v].outstanding
    /\ t.vc[v].extwin = s.vc[v].extwin /\ t.vc[v].recvwin = s.vc[v].recvwin

\* v starts closing.
Closes(s, t, v) ==
    /\ SameBut(s, t, v) /\ t.ext_send_queue = s.ext_send_queue /\ t.cut = s.cut
    /\ t.vc[v].sendwin = s.vc[v].sendwin /\ t.vc[v].state = "closing"

LEMMA ClosingIs ==
    ASSUME NEW s, MemType(s), NEW v \in VCs,
           NEW t, t = [s EXCEPT !.vc[v].state = "closing"]
    PROVE  Closes(s, t, v)
<1>1. PICK x \in VCType : x = s.vc[v]
  BY DEF MemType
<1>2. PICK y : y = [x EXCEPT !.state = "closing"]
  OBVIOUS
<1>3. /\ y \in VCType /\ y.state = "closing" /\ y.outstanding = x.outstanding
      /\ y.sendwin = x.sendwin /\ y.extwin = x.extwin /\ y.recvwin = x.recvwin
  BY <1>2 DEF VCType, States
<1>4. s.vc \in [VCs -> VCType]
  BY DEF MemType
<1>5. PICK vc \in [VCs -> VCType] : vc = [s.vc EXCEPT ![v] = y]
  BY <1>3, <1>4
<1>6. vc[v] = y /\ \A w \in VCs : w # v => vc[w] = s.vc[w]
  BY <1>4, <1>5
<1>7. t = [s EXCEPT !.vc = vc]
  BY <1>1, <1>2, <1>5, Zenon
<1>8. MemType([s EXCEPT !.vc = vc])
  BY DEF MemType
<1>9. /\ t.vc = vc /\ t.free = s.free /\ t.twice = s.twice
      /\ t.sends = s.sends /\ t.avail = s.avail /\ t.vc_of = s.vc_of /\ t.unack = s.unack
      /\ t.inprogress = s.inprogress /\ t.pending = s.pending
      /\ t.ext_send_queue = s.ext_send_queue /\ t.cut = s.cut
  BY <1>7 DEF MemType
<1> QED
  BY <1>1, <1>3, <1>6, <1>7, <1>8, <1>9 DEF SameBut, Closes

\* The packets Q leave the extended send queue and the send window.
CutOff(s, v, Q) == [s EXCEPT !.ext_send_queue = Without(@, Q),
                             !.vc[v].sendwin = Without(@, Q),
                             !.cut = @ \cup Q]

LEMMA CutOffIs ==
    ASSUME NEW s, MemType(s), NEW v \in VCs, NEW Q \in SUBSET Vbufs,
           NEW t, t = CutOff(s, v, Q)
    PROVE  /\ SameBut(s, t, v) /\ t.cut = s.cut \cup Q /\ t.vc[v].state = s.vc[v].state
           /\ t.ext_send_queue = Without(s.ext_send_queue, Q)
           /\ t.vc[v].sendwin = Without(s.vc[v].sendwin, Q)
<1>1. PICK x \in VCType : x = s.vc[v]
  BY DEF MemType
<1>2. x.sendwin \in Seq(Vbufs) /\ s.ext_send_queue \in Seq(Vbufs)
  BY DEF VCType, MemType
<1>3. PICK win \in Seq(Vbufs) : win = Without(x.sendwin, Q)
  BY <1>2, WithoutIs
<1>4. PICK q \in Seq(Vbufs) : q = Without(s.ext_send_queue, Q)
  BY <1>2, WithoutIs
<1>5. PICK y : y = [x EXCEPT !.sendwin = win]
  OBVIOUS
<1>6. /\ y \in VCType /\ y.state = x.state /\ y.outstanding = x.outstanding
      /\ y.sendwin = win /\ y.extwin = x.extwin /\ y.recvwin = x.recvwin
  BY <1>5 DEF VCType
<1>7. s.vc \in [VCs -> VCType]
  BY DEF MemType
<1>8. PICK vc \in [VCs -> VCType] : vc = [s.vc EXCEPT ![v] = y]
  BY <1>6, <1>7
<1>9. vc[v] = y /\ \A w \in VCs : w # v => vc[w] = s.vc[w]
  BY <1>7, <1>8
<1>10. t = [s EXCEPT !.ext_send_queue = q, !.vc = vc, !.cut = @ \cup Q]
  <2>1. t = [s EXCEPT !.ext_send_queue = Without(@, Q),
                      !.vc = [s.vc EXCEPT ![v] = [s.vc[v] EXCEPT !.sendwin = Without(@, Q)]],
                      !.cut = @ \cup Q]
    BY DEF CutOff
  <2> QED
    BY <2>1, <1>1, <1>3, <1>4, <1>5, <1>8
<1>11. MemType([s EXCEPT !.ext_send_queue = q, !.vc = vc, !.cut = @ \cup Q])
  BY DEF MemType
<1>12. /\ t.vc = vc /\ t.free = s.free /\ t.twice = s.twice
       /\ t.sends = s.sends /\ t.avail = s.avail /\ t.vc_of = s.vc_of /\ t.unack = s.unack
       /\ t.inprogress = s.inprogress /\ t.pending = s.pending
       /\ t.ext_send_queue = q /\ t.cut = s.cut \cup Q
  BY <1>10 DEF MemType
<1> QED
  BY <1>1, <1>3, <1>4, <1>6, <1>9, <1>10, <1>11, <1>12 DEF SameBut

Freed(s, t, bufs) ==
    /\ MemType(t)
    /\ t.pending = s.pending \cup (bufs \cap s.inprogress)
    /\ t.free = s.free \cup (bufs \ s.inprogress)
    /\ t.twice = s.twice \cup ((bufs \ s.inprogress) \cap s.free)
    /\ \A b \in Vbufs : t.vc_of[b] = IF b \in bufs \ s.inprogress THEN None ELSE s.vc_of[b]
    /\ t.ext_send_queue = s.ext_send_queue
    /\ t.sends = s.sends /\ t.avail = s.avail /\ t.unack = s.unack
    /\ t.inprogress = s.inprogress /\ t.cut = s.cut /\ t.vc = s.vc

\* What vc_purge_queues does to the packets of v: those on the extended send
\* queue, Q, are cut off; of those sent, the ones in the hardware are marked; F are
\* freed.
Purged(s, t, v, Q, sent, F) ==
    /\ MemType(t) /\ t.sends = s.sends /\ t.avail = s.avail /\ t.inprogress = s.inprogress
    /\ t.ext_send_queue = Without(s.ext_send_queue, Q) /\ t.cut = s.cut \cup Q
    /\ t.unack = s.unack \ sent /\ t.pending = s.pending \cup (sent \cap s.inprogress)
    /\ t.free = s.free \cup F /\ t.twice = {}
    /\ \A b \in Vbufs : t.vc_of[b] = IF b \in F THEN None ELSE s.vc_of[b]
    /\ \A w \in VCs : w # v => t.vc[w] = s.vc[w]
    /\ t.vc[v].state = "closing" /\ t.vc[v].outstanding = s.vc[v].outstanding
    /\ Len(t.vc[v].sendwin) <= Window + 1

\* The packets of an open VC.
LEMMA PacketsOf ==
    ASSUME NEW s, NEW n \in Nat, Good(s, n, {}), NEW v \in VCs, s.vc[v].state = "open",
           NEW W, W = ToSet(s.vc[v].sendwin), NEW X, X = ToSet(s.vc[v].extwin),
           NEW R, R = s.vc[v].recvwin
    PROVE  /\ W \subseteq Vbufs /\ X \subseteq Vbufs /\ R \subseteq Vbufs
           /\ \A b \in W : s.vc_of[b] = v /\ b \in s.unack /\ b \notin s.cut /\ b \notin s.free
           /\ \A b \in X \cup R :
                 /\ s.vc_of[b] = v /\ b \notin Out(s, {}) /\ b \notin s.unack /\ b \notin s.cut
                 /\ b \notin s.free /\ b \notin s.inprogress
           /\ X \cap R = {} /\ W \cap X = {} /\ W \cap R = {}
<1>0. /\ MemType(s) /\ FreeOK(s) /\ FlagsOK(s, {}) /\ OwnerOK(s, {}) /\ WindowsOK(s, {})
      /\ None \notin VCs
  BY BuffersAssumption DEF MemOK, Good
<1>1. PICK x \in VCType : x = s.vc[v]
  BY <1>0 DEF MemType
<1>2. x.sendwin \in Seq(Vbufs) /\ x.extwin \in Seq(Vbufs) /\ R \subseteq Vbufs
  BY <1>1 DEF VCType
<1>3. W \subseteq Vbufs /\ X \subseteq Vbufs
  BY <1>1, <1>2, ToSetIn
<1>4. \A b \in Vbufs : s.vc_of[b] = v => b \notin s.free
  BY <1>0 DEF FreeOK
<1>5. \A b \in Vbufs : b \in s.cut => s.vc_of[b] # v
  BY <1>0 DEF OwnerOK
<1>6. \A b \in W : s.vc_of[b] = v /\ b \in s.unack
  BY <1>0, <1>3 DEF WindowsOK
<1>7. \A b \in X \cup R : s.vc_of[b] = v /\ b \notin Out(s, {}) /\ b \notin s.unack
  BY <1>0, <1>2, <1>3 DEF WindowsOK
<1>8. \A b \in X \cup R : b \notin s.inprogress
  BY <1>0, <1>2, <1>3, <1>5, <1>7 DEF FlagsOK
<1>9. X \cap R = {}
  BY <1>0, <1>2, <1>3 DEF WindowsOK
<1> QED
  BY <1>2, <1>3, <1>4, <1>5, <1>6, <1>7, <1>8, <1>9

LEMMA PurgeIs ==
    ASSUME NEW s, NEW n \in Nat, Good(s, n, {}), NEW v \in VCs, s.vc[v].state = "open",
           NEW Q, Q = {b \in ToSet(s.ext_send_queue) : s.vc_of[b] = v},
           NEW W, W = ToSet(s.vc[v].sendwin), NEW X, X = ToSet(s.vc[v].extwin),
           NEW R, R = s.vc[v].recvwin,
           NEW c, c = [s EXCEPT !.vc[v].state = "closing"],
           NEW t, t = PurgeQueues(c, v),
           NEW sent, sent = W \ Q, NEW F, F = (sent \ s.inprogress) \cup X \cup R
    PROVE  Purged(s, t, v, Q, sent, F)
<1>0. /\ MemType(s) /\ s.twice = {} /\ s.ext_send_queue \in Seq(Vbufs)
      /\ s.vc[v].sendwin \in Seq(Vbufs) /\ Len(s.vc[v].sendwin) <= Window + 1
  BY DEF MemOK, Good, FreeOK, MemType, VCType, WindowsOK
<1>1. /\ W \subseteq Vbufs /\ X \subseteq Vbufs /\ R \subseteq Vbufs
      /\ \A b \in W : s.vc_of[b] = v /\ b \in s.unack /\ b \notin s.cut /\ b \notin s.free
      /\ \A b \in X \cup R :
            /\ s.vc_of[b] = v /\ b \notin Out(s, {}) /\ b \notin s.unack /\ b \notin s.cut
            /\ b \notin s.free /\ b \notin s.inprogress
      /\ X \cap R = {} /\ W \cap X = {} /\ W \cap R = {}
  BY ONLY Good(s, n, {}), n \in Nat, v \in VCs, s.vc[v].state = "open",
          W = ToSet(s.vc[v].sendwin), X = ToSet(s.vc[v].extwin), R = s.vc[v].recvwin, PacketsOf
<1>2. Q \in SUBSET Vbufs /\ sent \in SUBSET Vbufs /\ sent \subseteq W
  BY <1>0, <1>1, ToSetIn
<1>3. /\ SameBut(s, c, v) /\ c.ext_send_queue = s.ext_send_queue /\ c.cut = s.cut
      /\ c.vc[v].sendwin = s.vc[v].sendwin /\ c.vc[v].state = "closing"
  <2>1. MemType(s)
    BY ONLY <1>0
  <2>2. Closes(s, c, v)
    BY ONLY <2>1, v \in VCs, c = [s EXCEPT !.vc[v].state = "closing"], ClosingIs, Zenon
  <2> QED
    BY ONLY <2>2 DEF Closes
<1>4. PICK s1 : s1 = CutOff(c, v, Q)
  OBVIOUS
<1>5. /\ SameBut(c, s1, v) /\ s1.cut = c.cut \cup Q /\ s1.vc[v].state = c.vc[v].state
      /\ s1.ext_send_queue = Without(c.ext_send_queue, Q)
      /\ s1.vc[v].sendwin = Without(c.vc[v].sendwin, Q)
  <2>1. MemType(c) /\ v \in VCs /\ Q \in SUBSET Vbufs
    BY <1>2, <1>3 DEF SameBut
  <2> QED
    BY ONLY <2>1, <1>4, CutOffIs
<1>6. PICK u : u = Unlink(s1, v, sent)
  OBVIOUS
<1>7. /\ MemType(u) /\ u.unack = s1.unack \ sent
      /\ u.vc[v].sendwin = Without(s1.vc[v].sendwin, sent)
      /\ u.vc[v].extwin = s1.vc[v].extwin /\ u.vc[v].recvwin = s1.vc[v].recvwin
      /\ \A w \in VCs : w # v => u.vc[w] = s1.vc[w]
      /\ \A w \in VCs : /\ u.vc[w].state = s1.vc[w].state
                        /\ u.vc[w].outstanding = s1.vc[w].outstanding
      /\ u.ext_send_queue = s1.ext_send_queue /\ u.free = s1.free /\ u.twice = s1.twice
      /\ u.sends = s1.sends /\ u.avail = s1.avail /\ u.vc_of = s1.vc_of
      /\ u.inprogress = s1.inprogress /\ u.cut = s1.cut /\ u.pending = s1.pending
  <2>1. MemType(s1)
    BY <1>5 DEF SameBut
  <2> QED
    BY ONLY <2>1, <1>6, v \in VCs, UnlinkIs
<1>8. PICK s2 : s2 = Release(u, sent)
  OBVIOUS
<1>9. Freed(u, s2, sent)
  <2>1. MemType(u) /\ sent \in SUBSET Vbufs
    BY ONLY <1>2, <1>7
  <2> QED
    BY ONLY <1>8, <2>1, ReleaseIs DEF Freed
<1>10. PICK s3 : s3 = Release(s2, X)
  OBVIOUS
<1>11. Freed(s2, s3, X)
  <2>1. MemType(s2) /\ X \in SUBSET Vbufs
    BY <1>1, <1>9 DEF Freed
  <2> QED
    BY <2>1, <1>10, ReleaseIs DEF Freed
<1>12. PICK s4 : s4 = Release(s3, R)
  OBVIOUS
<1>13. Freed(s3, s4, R)
  <2>1. MemType(s3) /\ R \in SUBSET Vbufs
    BY <1>1, <1>11 DEF Freed
  <2> QED
    BY <2>1, <1>12, ReleaseIs DEF Freed
<1>14. t = s4
  <2>1. c.vc_of = s.vc_of /\ c.vc[v].extwin = s.vc[v].extwin
        /\ c.vc[v].recvwin = s.vc[v].recvwin
    BY <1>3 DEF SameBut
  <2>2. {b \in ToSet(c.ext_send_queue) : c.vc_of[b] = v} = Q
    BY <2>1, <1>3
  <2>3. ToSet(c.vc[v].sendwin) \ Q = sent
    BY <1>3
  <2>4. PurgeQueues(c, v)
        = Release(Release(Release(Unlink(CutOff(c, v, Q), v, sent), sent),
                          ToSet(c.vc[v].extwin)), c.vc[v].recvwin)
    BY <2>2, <2>3, Zenon DEF PurgeQueues, CutOff
  <2> QED
    BY <2>1, <2>4, <1>4, <1>6, <1>8, <1>10, <1>12, Zenon
<1>15. u.inprogress = s.inprogress /\ u.free = s.free /\ u.twice = {} /\ u.vc_of = s.vc_of
       /\ u.pending = s.pending /\ u.unack = s.unack \ sent /\ u.cut = s.cut \cup Q
       /\ u.sends = s.sends /\ u.avail = s.avail
       /\ u.ext_send_queue = Without(s.ext_send_queue, Q)
       /\ u.vc[v].state = "closing" /\ u.vc[v].outstanding = s.vc[v].outstanding
       /\ \A w \in VCs : w # v => u.vc[w] = s.vc[w]
  BY <1>0, <1>3, <1>5, <1>7 DEF SameBut
<1>16. Len(u.vc[v].sendwin) <= Window + 1
  <2>1. PICK q \in Seq(Vbufs) : q = s.vc[v].sendwin
    BY <1>0
  <2>2. PICK q1 \in Seq(Vbufs) : q1 = Without(q, Q) /\ Len(q1) <= Len(q)
    BY WithoutIs
  <2>3. PICK q2 \in Seq(Vbufs) : q2 = Without(q1, sent) /\ Len(q2) <= Len(q1)
    BY WithoutIs
  <2>4. u.vc[v].sendwin = q2
    BY <2>1, <2>2, <2>3, <1>3, <1>5, <1>7
  <2>5. Len(q) <= Window + 1
    BY <2>1, <1>0
  <2> QED
    BY <2>2, <2>3, <2>4, <2>5, Sizes
<1>17. /\ s4.free = s.free \cup F /\ s4.twice = {}
       /\ s4.pending = s.pending \cup (sent \cap s.inprogress)
       /\ \A b \in Vbufs : s4.vc_of[b] = IF b \in F THEN None ELSE s.vc_of[b]
  <2>1. X \cap s.inprogress = {} /\ R \cap s.inprogress = {} /\ X \cap s.free = {}
        /\ R \cap s.free = {} /\ sent \cap s.free = {} /\ X \cap sent = {} /\ R \cap sent = {}
    BY <1>1, <1>2
  <2>2. /\ s2.free = s.free \cup (sent \ s.inprogress) /\ s2.twice = {}
        /\ s2.pending = s.pending \cup (sent \cap s.inprogress) /\ s2.inprogress = s.inprogress
        /\ \A b \in Vbufs : s2.vc_of[b] = IF b \in sent \ s.inprogress THEN None ELSE s.vc_of[b]
    BY <2>1, <1>9, <1>15 DEF Freed
  <2>3. /\ s3.free = s.free \cup (sent \ s.inprogress) \cup X /\ s3.twice = {}
        /\ s3.pending = s2.pending /\ s3.inprogress = s.inprogress
        /\ \A b \in Vbufs : s3.vc_of[b] = IF b \in X THEN None ELSE s2.vc_of[b]
    BY <2>1, <2>2, <1>11 DEF Freed
  <2>4. /\ s4.free = s.free \cup (sent \ s.inprogress) \cup X \cup R /\ s4.twice = {}
        /\ s4.pending = s3.pending
        /\ \A b \in Vbufs : s4.vc_of[b] = IF b \in R THEN None ELSE s3.vc_of[b]
    BY <1>1, <2>1, <2>3, <1>13 DEF Freed
  <2> QED
    BY <2>2, <2>3, <2>4
<1>18. /\ MemType(s4) /\ s4.sends = u.sends /\ s4.avail = u.avail
       /\ s4.inprogress = u.inprogress /\ s4.ext_send_queue = u.ext_send_queue
       /\ s4.cut = u.cut /\ s4.unack = u.unack /\ s4.vc = u.vc
  BY <1>9, <1>11, <1>13 DEF Freed
<1>19. Purged(s, s4, v, Q, sent, F)
  BY ONLY <1>15, <1>16, <1>17, <1>18 DEF Purged
<1> QED
  BY ONLY <1>14, <1>19

\* vc_purge_queues.
LEMMA PurgeOK ==
    ASSUME NEW s, NEW n \in Nat, Good(s, n, {}), NEW v \in VCs, s.vc[v].state = "open",
           NEW t, t = PurgeQueues([s EXCEPT !.vc[v].state = "closing"], v)
    PROVE  Good(t, n, {}) /\ t.vc[v].state = "closing"
<1>0. /\ MemType(s) /\ FreeOK(s) /\ OutOK(s, {}) /\ FlagsOK(s, {}) /\ OwnerOK(s, {})
      /\ WindowsOK(s, {}) /\ PlaceOK(s, {}, {}) /\ CreditOK(s, n) /\ Drained(s)
  BY DEF MemOK, Good
<1>1. PICK Q : Q = {b \in ToSet(s.ext_send_queue) : s.vc_of[b] = v}
  OBVIOUS
<1>2. PICK W, X, R : W = ToSet(s.vc[v].sendwin) /\ X = ToSet(s.vc[v].extwin)
                     /\ R = s.vc[v].recvwin
  OBVIOUS
<1>3. PICK sent : sent = W \ Q
  OBVIOUS
<1>4. PICK F : F = (sent \ s.inprogress) \cup X \cup R
  OBVIOUS
<1>5. Purged(s, t, v, Q, sent, F)
  <2>1. PICK c : c = [s EXCEPT !.vc[v].state = "closing"]
    OBVIOUS
  <2>2. t = PurgeQueues(c, v) /\ Good(s, n, {}) /\ n \in Nat /\ v \in VCs /\ s.vc[v].state = "open"
    BY <2>1, Zenon
  <2> QED
    BY ONLY <2>1, <2>2, <1>1, <1>2, <1>3, <1>4, PurgeIs
<1>6. /\ W \subseteq Vbufs /\ X \subseteq Vbufs /\ R \subseteq Vbufs
      /\ \A b \in W : s.vc_of[b] = v /\ b \in s.unack /\ b \notin s.cut /\ b \notin s.free
      /\ \A b \in X \cup R :
            /\ s.vc_of[b] = v /\ b \notin Out(s, {}) /\ b \notin s.unack /\ b \notin s.cut
            /\ b \notin s.free /\ b \notin s.inprogress
      /\ X \cap R = {} /\ W \cap X = {} /\ W \cap R = {}
  <2>1. Good(s, n, {}) /\ n \in Nat /\ v \in VCs /\ s.vc[v].state = "open"
    OBVIOUS
  <2> QED
    BY ONLY <2>1, <1>2, PacketsOf
<1>7. /\ MemType(t) /\ t.sends = s.sends /\ t.avail = s.avail /\ t.inprogress = s.inprogress
      /\ t.ext_send_queue = Without(s.ext_send_queue, Q) /\ t.cut = s.cut \cup Q
      /\ t.unack = s.unack \ sent /\ t.pending = s.pending \cup (sent \cap s.inprogress)
      /\ t.free = s.free \cup F /\ t.twice = {}
      /\ \A b \in Vbufs : t.vc_of[b] = IF b \in F THEN None ELSE s.vc_of[b]
      /\ \A w \in VCs : w # v => t.vc[w] = s.vc[w]
      /\ t.vc[v].state = "closing" /\ t.vc[v].outstanding = s.vc[v].outstanding
      /\ Len(t.vc[v].sendwin) <= Window + 1
  BY <1>5 DEF Purged
<1>8. /\ ToSet(t.ext_send_queue) = ToSet(s.ext_send_queue) \ Q /\ IsInjective(t.ext_send_queue)
      /\ s.ext_send_queue = << >> => t.ext_send_queue = << >>
  <2>1. s.ext_send_queue \in Seq(Vbufs) /\ IsInjective(s.ext_send_queue)
    BY <1>0 DEF MemType, OutOK
  <2>2. PICK q \in Seq(Vbufs) : q = s.ext_send_queue
    BY <2>1
  <2>3. PICK r \in Seq(Vbufs) : r = Without(q, Q) /\ ToSet(r) = ToSet(q) \ Q /\ IsInjective(r)
    BY <2>1, <2>2, WithoutIs
  <2>4. q = << >> => r = << >>
    BY <2>3, ToSetIn
  <2> QED
    BY <2>2, <2>3, <2>4, <1>7
<1>9. \A b \in F : /\ b \in Vbufs /\ s.vc_of[b] = v /\ b \notin s.free /\ b \notin s.cut
                   /\ b \notin Out(s, {}) /\ b \notin s.inprogress /\ b \notin Q
  <2>1. \A b \in sent : b \in Vbufs /\ b \in W /\ b \notin Q
    BY <1>3, <1>6
  <2>2. \A b \in sent \ s.inprogress : b \notin Out(s, {})
    BY <2>1, <1>0, <1>6 DEF FlagsOK
  <2>3. \A b \in X \cup R : b \notin Q
    BY <1>1, <1>6 DEF Out
  <2> QED
    BY <2>1, <2>2, <2>3, <1>4, <1>6
<1>10. /\ Q \subseteq ToSet(s.ext_send_queue) /\ Q \subseteq Vbufs
       /\ \A b \in Q : s.vc_of[b] = v /\ b \notin s.sends /\ b \notin F /\ b \in Out(s, {})
  <2>1. Q \subseteq ToSet(s.ext_send_queue) /\ \A b \in Q : s.vc_of[b] = v
    BY <1>1
  <2>2. ToSet(s.ext_send_queue) \subseteq Vbufs
    BY <1>0, ToSetIn DEF MemType
  <2> QED
    BY <2>1, <2>2, <1>0, <1>9 DEF OutOK, Out
<1>11. \A b \in sent : b \in Vbufs /\ b \in s.unack /\ s.vc_of[b] = v /\ b \notin Q
  BY <1>3, <1>6
<1>12. /\ Out(t, {}) = Out(s, {}) \ Q
       /\ Out(t, {}) \cup t.cut = Out(s, {}) \cup s.cut
  BY <1>7, <1>8, <1>10 DEF Out
<1>13. FreeOK(t)
  <2>1. /\ t.free = s.free \cup F /\ t.twice = {}
        /\ \A b \in Vbufs : t.vc_of[b] = IF b \in F THEN None ELSE s.vc_of[b]
    BY ONLY <1>7
  <2>2. \A b \in Vbufs : b \in s.free <=> s.vc_of[b] = None
    BY ONLY <1>0 DEF FreeOK
  <2> QED
    BY ONLY <2>1, <2>2 DEF FreeOK
<1>14. OutOK(t, {}) /\ Drained(t)
  <2>1. \A b \in Vbufs : /\ b \in t.sends => b \notin ToSet(t.ext_send_queue)
                         /\ b \in {} => b \notin t.sends \cup ToSet(t.ext_send_queue)
                         /\ b \in t.cut => b \notin Out(t, {})
    BY <1>0, <1>7, <1>8, <1>12 DEF OutOK
  <2>2. Drained(t)
    BY <1>0, <1>7, <1>8 DEF Drained
  <2> QED
    BY <2>1, <2>2, <1>8 DEF OutOK
<1>15. FlagsOK(t, {})
  <2> SUFFICES ASSUME NEW b \in Vbufs
               PROVE  /\ b \in t.inprogress => b \in Out(t, {}) \cup t.cut
                      /\ b \in t.inprogress => (b \in t.pending <=> b \notin t.unack)
                      /\ b \in t.pending => b \in t.inprogress
                      /\ b \in t.unack /\ b \in Out(t, {}) => b \in t.inprogress
    BY DEF FlagsOK
  <2>1. /\ b \in s.inprogress => b \in Out(s, {}) \cup s.cut
        /\ b \in s.inprogress => (b \in s.pending <=> b \notin s.unack)
        /\ b \in s.pending => b \in s.inprogress
        /\ b \in s.unack /\ b \in Out(s, {}) => b \in s.inprogress
    BY <1>0 DEF FlagsOK
  <2> QED
    BY <2>1, <1>7, <1>11, <1>12
<1>16. OwnerOK(t, {})
  <2> SUFFICES ASSUME NEW b \in Vbufs
               PROVE  LET state(S) == \E w \in VCs : t.vc_of[b] = w /\ t.vc[w].state \in S
                      IN  /\ b \in t.sends => state({"open", "closing"})
                          /\ b \in ToSet(t.ext_send_queue) \cup {} => state({"open"})
                          /\ b \in t.cut => state({"closing", "deleted"})
                          /\ b \in t.unack => state({"open"}) \/ b \in t.cut \cap t.inprogress
    BY DEF OwnerOK
  <2>0. LET state(S) == \E w \in VCs : s.vc_of[b] = w /\ s.vc[w].state \in S
        IN  /\ b \in s.sends => state({"open", "closing"})
            /\ b \in ToSet(s.ext_send_queue) \cup {} => state({"open"})
            /\ b \in s.cut => state({"closing", "deleted"})
            /\ b \in s.unack => state({"open"}) \/ b \in s.cut \cap s.inprogress
    BY <1>0 DEF OwnerOK
  <2>1. ASSUME b \in t.sends
        PROVE  \E w \in VCs : t.vc_of[b] = w /\ t.vc[w].state \in {"open", "closing"}
    <3>1. b \in s.sends /\ b \notin F
      BY <2>1, <1>7, <1>9 DEF Out
    <3>2. PICK w \in VCs : s.vc_of[b] = w /\ s.vc[w].state \in {"open", "closing"}
      BY <3>1, <2>0
    <3>3. t.vc_of[b] = w /\ t.vc[w].state \in {"open", "closing"}
      BY <3>1, <3>2, <1>7
    <3> QED
      BY <3>3
  <2>2. ASSUME b \in ToSet(t.ext_send_queue)
        PROVE  \E w \in VCs : t.vc_of[b] = w /\ t.vc[w].state \in {"open"}
    <3>1. b \in ToSet(s.ext_send_queue) /\ b \notin Q /\ b \notin F /\ s.vc_of[b] # v
      BY <2>2, <1>1, <1>8, <1>9 DEF Out
    <3>2. PICK w \in VCs : s.vc_of[b] = w /\ s.vc[w].state \in {"open"}
      BY <3>1, <2>0
    <3>3. t.vc_of[b] = w /\ t.vc[w].state \in {"open"}
      <4>1. t.vc_of[b] = s.vc_of[b] /\ w # v
        BY ONLY <3>1, <3>2, <1>7, b \in Vbufs
      <4> QED
        BY ONLY <3>2, <4>1, <1>7
    <3> QED
      BY <3>3
  <2>3. ASSUME b \in t.cut
        PROVE  \E w \in VCs : t.vc_of[b] = w /\ t.vc[w].state \in {"closing", "deleted"}
    <3>1. CASE b \in Q
      <4>1. t.vc_of[b] = v /\ t.vc[v].state = "closing"
        BY <3>1, <1>7, <1>10
      <4> QED
        BY <4>1
    <3>2. CASE b \in s.cut
      <4>1. PICK w \in VCs : s.vc_of[b] = w /\ s.vc[w].state \in {"closing", "deleted"}
        BY <3>2, <2>0
      <4>2. t.vc_of[b] = w /\ t.vc[w].state \in {"closing", "deleted"}
        BY <3>2, <4>1, <1>7, <1>9
      <4> QED
        BY <4>2
    <3> QED
      BY <2>3, <3>1, <3>2, <1>7
  <2>4. ASSUME b \in t.unack
        PROVE  (\E w \in VCs : t.vc_of[b] = w /\ t.vc[w].state \in {"open"})
               \/ b \in t.cut \cap t.inprogress
    <3>1. b \in s.unack /\ b \notin sent
      BY <2>4, <1>7
    <3>2. CASE b \in s.cut \cap s.inprogress
      BY <3>2, <1>7
    <3>3. CASE \E w \in VCs : s.vc_of[b] = w /\ s.vc[w].state \in {"open"}
      <4>1. PICK w \in VCs : s.vc_of[b] = w /\ s.vc[w].state \in {"open"}
        BY <3>3
      <4>2. CASE w = v
        <5>1. b \in W
          BY <3>1, <4>1, <4>2, <1>0, <1>2 DEF WindowsOK
        <5>2. b \in Q
          BY <3>1, <5>1, <1>3
        <5>3. b \in s.inprogress
          BY <3>1, <5>2, <1>0, <1>10 DEF FlagsOK
        <5> QED
          BY <5>2, <5>3, <1>7
      <4>3. CASE w # v
        <5>1. b \notin F
          BY <4>1, <4>3, <1>9
        <5>2. t.vc_of[b] = w /\ t.vc[w].state \in {"open"}
          BY <5>1, <4>1, <4>3, <1>7
        <5> QED
          BY <5>2
      <4> QED
        BY <4>2, <4>3
    <3> QED
      BY <3>1, <3>2, <3>3, <2>0
  <2> QED
    BY <2>1, <2>2, <2>3, <2>4
<1>17. WindowsOK(t, {})
  <2> SUFFICES ASSUME NEW w \in VCs
               PROVE  /\ Len(t.vc[w].sendwin) <= Window + 1
                      /\ t.vc[w].state = "open" =>
                           /\ IsInjective(t.vc[w].sendwin) /\ IsInjective(t.vc[w].extwin)
                           /\ \A b \in Vbufs :
                                /\ b \in ToSet(t.vc[w].sendwin) <=> b \in t.unack /\ t.vc_of[b] = w
                                /\ b \in ToSet(t.vc[w].extwin) \cup t.vc[w].recvwin =>
                                     t.vc_of[b] = w /\ b \notin Out(t, {}) \cup t.unack
                                /\ ~(b \in ToSet(t.vc[w].extwin) /\ b \in t.vc[w].recvwin)
    BY DEF WindowsOK
  <2>1. CASE w = v
    <3>1. t.vc[w].state = "closing" /\ Len(t.vc[w].sendwin) <= Window + 1
      BY ONLY <2>1, <1>7
    <3> QED
      BY ONLY <3>1
  <2>2. CASE w # v
    <3>0. t.vc[w] = s.vc[w]
      BY <2>2, <1>7
    <3>1. /\ Len(s.vc[w].sendwin) <= Window + 1
          /\ s.vc[w].state = "open" =>
               /\ IsInjective(s.vc[w].sendwin) /\ IsInjective(s.vc[w].extwin)
               /\ \A b \in Vbufs :
                    /\ b \in ToSet(s.vc[w].sendwin) <=> b \in s.unack /\ s.vc_of[b] = w
                    /\ b \in ToSet(s.vc[w].extwin) \cup s.vc[w].recvwin =>
                         s.vc_of[b] = w /\ b \notin Out(s, {}) \cup s.unack
                    /\ ~(b \in ToSet(s.vc[w].extwin) /\ b \in s.vc[w].recvwin)
      BY <1>0 DEF WindowsOK
    <3>2. \A b \in Vbufs : t.vc_of[b] = w <=> s.vc_of[b] = w
      <4>1. \A b \in Vbufs : t.vc_of[b] = IF b \in F THEN None ELSE s.vc_of[b]
        BY ONLY <1>7
      <4>2. None # w /\ \A b \in F : s.vc_of[b] = v
        BY ONLY <1>9, BuffersAssumption, w \in VCs
      <4> QED
        BY ONLY <2>2, <4>1, <4>2
    <3>3. \A b \in Vbufs : s.vc_of[b] = w => (b \in t.unack <=> b \in s.unack)
      BY <2>2, <1>7, <1>11
    <3>4. \A b : b \in Out(t, {}) \cup t.unack => b \in Out(s, {}) \cup s.unack
      BY <1>7, <1>12
    <3> QED
      BY <3>0, <3>1, <3>2, <3>3, <3>4
  <2> QED
    BY <2>1, <2>2
<1>18. PlaceOK(t, {}, {})
  <2> SUFFICES ASSUME NEW b \in Vbufs
               PROVE  b \in Out(t, {}) \cup t.unack \cup t.cut \/ Waiting(t, b) \/ b \in t.free
    BY DEF PlaceOK
  <2>0. b \in Out(s, {}) \cup s.unack \cup s.cut \/ Waiting(s, b) \/ b \in s.free
    BY <1>0 DEF PlaceOK
  <2>1. CASE b \in Out(s, {}) \cup s.cut
    BY <2>1, <1>12
  <2>2. CASE b \in s.unack
    <3>1. CASE b \in sent
      <4>1. CASE b \in s.inprogress
        BY <4>1, <1>0, <1>12 DEF FlagsOK
      <4>2. CASE b \notin s.inprogress
        BY <3>1, <4>2, <1>4, <1>7
      <4> QED
        BY <4>1, <4>2
    <3>2. CASE b \notin sent
      BY <2>2, <3>2, <1>7
    <3> QED
      BY <3>1, <3>2
  <2>3. CASE Waiting(s, b)
    <3>1. PICK w \in VCs : s.vc[w].state = "open" /\ b \in ToSet(s.vc[w].extwin) \cup s.vc[w].recvwin
      BY <2>3 DEF Waiting
    <3>2. CASE w = v
      BY <3>1, <3>2, <1>2, <1>4, <1>7
    <3>3. CASE w # v
      <4>1. t.vc[w] = s.vc[w]
        BY <3>3, <1>7
      <4> QED
        BY <3>1, <4>1 DEF Waiting
    <3> QED
      BY <3>2, <3>3
  <2>4. CASE b \in s.free
    BY <2>4, <1>7
  <2> QED
    BY <2>0, <2>1, <2>2, <2>3, <2>4
<1>19. CreditOK(t, n)
  <2>1. \A b \in s.sends : b \notin F /\ b \in Vbufs
    BY <1>0, <1>9 DEF Out, MemType
  <2>2. \A w \in VCs : {b \in t.sends : t.vc_of[b] = w} = {b \in s.sends : s.vc_of[b] = w}
    BY <2>1, <1>7
  <2>3. t.avail + Cardinality(t.sends) + n = MaxSends
    BY <1>0, <1>7 DEF CreditOK
  <2>4. ASSUME NEW w \in VCs, t.vc[w].state # "deleted"
        PROVE  t.vc[w].outstanding = Cardinality({b \in t.sends : t.vc_of[b] = w})
    <3>1. s.vc[w].state # "deleted" /\ t.vc[w].outstanding = s.vc[w].outstanding
      BY <2>4, <1>7
    <3> QED
      BY <3>1, <2>2, <1>0 DEF CreditOK
  <2> QED
    BY <2>3, <2>4 DEF CreditOK
<1>20. Good(t, n, {})
  BY <1>7, <1>13, <1>14, <1>15, <1>16, <1>17, <1>18, <1>19 DEF MemOK, Good
<1> QED
  BY <1>7, <1>20

\* vc_delete, once the hardware has none of the packets of the VC.
LEMMA DeleteOK ==
    ASSUME NEW s, NEW n \in Nat, Good(s, n, {}), NEW v \in VCs, s.vc[v].state = "closing",
           s.vc[v].outstanding = 0
    PROVE  Good(Delete(s, v), n, {})
<1>0. /\ MemType(s) /\ FreeOK(s) /\ OutOK(s, {}) /\ FlagsOK(s, {}) /\ OwnerOK(s, {})
      /\ WindowsOK(s, {}) /\ PlaceOK(s, {}, {}) /\ CreditOK(s, n) /\ Drained(s)
  BY DEF MemOK, Good
<1>1. DeletedVC \in VCType /\ DeletedVC.state = "deleted" /\ DeletedVC.sendwin = << >>
  <2>1. OpenVC \in VCType /\ OpenVC.sendwin = << >>
    BY EmptyList DEF OpenVC, VCType, States
  <2>2. PICK o \in VCType : o = OpenVC
    BY <2>1
  <2>3. DeletedVC = [o EXCEPT !.state = "deleted"]
    BY <2>2 DEF DeletedVC
  <2>4. [o EXCEPT !.state = "deleted"] \in VCType
        /\ [o EXCEPT !.state = "deleted"].state = "deleted"
        /\ [o EXCEPT !.state = "deleted"].sendwin = o.sendwin
    BY DEF VCType, States
  <2> QED
    BY <2>1, <2>2, <2>3, <2>4
<1>2. PICK d \in VCType : d = DeletedVC
  BY <1>1
<1>3. s.vc \in [VCs -> VCType]
  BY <1>0 DEF MemType
<1>4. PICK vc \in [VCs -> VCType] : vc = [s.vc EXCEPT ![v] = d]
  BY <1>3
<1>5. PICK t : t = [s EXCEPT !.vc = vc]
  OBVIOUS
<1>6. Delete(s, v) = t
  BY <1>2, <1>4, <1>5, Zenon DEF Delete
<1>7. /\ MemType(t) /\ t.sends = s.sends /\ t.avail = s.avail /\ t.inprogress = s.inprogress
      /\ t.ext_send_queue = s.ext_send_queue /\ t.cut = s.cut
      /\ t.unack = s.unack /\ t.pending = s.pending
      /\ t.free = s.free /\ t.twice = s.twice /\ t.vc_of = s.vc_of /\ t.vc = vc
  BY <1>0, <1>5 DEF MemType
<1>8. /\ t.vc[v] = d /\ \A w \in VCs : w # v => t.vc[w] = s.vc[w]
      /\ \A w \in VCs : t.vc[w].state = "open" <=> s.vc[w].state = "open"
  BY <1>1, <1>2, <1>3, <1>4, <1>7
<1>9. Out(t, {}) = Out(s, {}) /\ \A b : Waiting(t, b) <=> Waiting(s, b)
  <2>1. \A w \in VCs : t.vc[w].state = "open" => t.vc[w] = s.vc[w]
    BY <1>1, <1>2, <1>8
  <2>2. \A w \in VCs : s.vc[w].state = "open" => t.vc[w] = s.vc[w]
    BY <1>8
  <2> QED
    BY <2>1, <2>2, <1>7 DEF Out, Waiting
<1>10. \A b \in s.sends : s.vc_of[b] # v
  <2> DEFINE own == {b \in s.sends : s.vc_of[b] = v}
  <2>1. own \subseteq Vbufs /\ Cardinality(own) = 0
    BY <1>0 DEF MemType, CreditOK
  <2>2. IsFiniteSet(own)
    BY <2>1, BuffersAssumption, FS_Subset
  <2>3. own = {}
    BY <2>1, <2>2, FS_EmptySet
  <2> QED
    BY <2>3
<1>11. FreeOK(t) /\ OutOK(t, {}) /\ Drained(t)
  BY <1>0, <1>7, <1>9 DEF FreeOK, OutOK, Drained
<1>12. FlagsOK(t, {})
  BY <1>0, <1>7, <1>9 DEF FlagsOK
<1>13. OwnerOK(t, {})
  <2> SUFFICES ASSUME NEW b \in Vbufs
               PROVE  LET state(S) == \E w \in VCs : t.vc_of[b] = w /\ t.vc[w].state \in S
                      IN  /\ b \in t.sends => state({"open", "closing"})
                          /\ b \in ToSet(t.ext_send_queue) \cup {} => state({"open"})
                          /\ b \in t.cut => state({"closing", "deleted"})
                          /\ b \in t.unack => state({"open"}) \/ b \in t.cut \cap t.inprogress
    BY DEF OwnerOK
  <2>0. LET state(S) == \E w \in VCs : s.vc_of[b] = w /\ s.vc[w].state \in S
        IN  /\ b \in s.sends => state({"open", "closing"})
            /\ b \in ToSet(s.ext_send_queue) \cup {} => state({"open"})
            /\ b \in s.cut => state({"closing", "deleted"})
            /\ b \in s.unack => state({"open"}) \/ b \in s.cut \cap s.inprogress
    BY <1>0 DEF OwnerOK
  <2>1. ASSUME b \in t.sends
        PROVE  \E w \in VCs : t.vc_of[b] = w /\ t.vc[w].state \in {"open", "closing"}
    BY <2>0, <2>1, <1>7, <1>8, <1>10
  <2>2. (\E w \in VCs : t.vc_of[b] = w /\ t.vc[w].state \in {"open"})
        <=> (\E w \in VCs : s.vc_of[b] = w /\ s.vc[w].state \in {"open"})
    BY <1>7, <1>8
  <2>3. ASSUME b \in t.cut
        PROVE  \E w \in VCs : t.vc_of[b] = w /\ t.vc[w].state \in {"closing", "deleted"}
    <3>1. PICK w \in VCs : s.vc_of[b] = w /\ s.vc[w].state \in {"closing", "deleted"}
      BY <2>0, <2>3, <1>7
    <3>2. t.vc_of[b] = w /\ t.vc[w].state \in {"closing", "deleted"}
      BY <3>1, <1>1, <1>2, <1>7, <1>8
    <3> QED
      BY <3>2
  <2> QED
    BY <2>0, <2>1, <2>2, <2>3, <1>7
<1>14. WindowsOK(t, {})
  <2> SUFFICES ASSUME NEW w \in VCs
               PROVE  /\ Len(t.vc[w].sendwin) <= Window + 1
                      /\ t.vc[w].state = "open" =>
                           /\ IsInjective(t.vc[w].sendwin) /\ IsInjective(t.vc[w].extwin)
                           /\ \A b \in Vbufs :
                                /\ b \in ToSet(t.vc[w].sendwin) <=> b \in t.unack /\ t.vc_of[b] = w
                                /\ b \in ToSet(t.vc[w].extwin) \cup t.vc[w].recvwin =>
                                     t.vc_of[b] = w /\ b \notin Out(t, {}) \cup t.unack
                                /\ ~(b \in ToSet(t.vc[w].extwin) /\ b \in t.vc[w].recvwin)
    BY DEF WindowsOK
  <2>1. CASE w = v
    <3>1. t.vc[w].state = "deleted" /\ t.vc[w].sendwin = << >>
      BY <2>1, <1>1, <1>2, <1>8
    <3>2. Len(<< >>) <= Window + 1
      BY Sizes
    <3> QED
      BY <3>1, <3>2
  <2>2. CASE w # v
    <3>1. t.vc[w] = s.vc[w]
      BY <2>2, <1>8
    <3> QED
      BY <3>1, <1>0, <1>7, <1>9 DEF WindowsOK
  <2> QED
    BY <2>1, <2>2
<1>15. PlaceOK(t, {}, {})
  BY <1>0, <1>7, <1>9 DEF PlaceOK
<1>16. CreditOK(t, n)
  <2>1. ASSUME NEW w \in VCs, t.vc[w].state # "deleted"
        PROVE  t.vc[w].outstanding = Cardinality({b \in t.sends : t.vc_of[b] = w})
    <3>1. w # v
      BY <2>1, <1>1, <1>2, <1>8
    <3>2. t.vc[w] = s.vc[w]
      BY <3>1, <1>8
    <3> QED
      BY <2>1, <3>2, <1>0, <1>7 DEF CreditOK
  <2>2. t.avail + Cardinality(t.sends) + n = MaxSends
    BY <1>0, <1>7 DEF CreditOK
  <2> QED
    BY <2>1, <2>2 DEF CreditOK
<1>17. Good(t, n, {})
  BY <1>7, <1>11, <1>12, <1>13, <1>14, <1>15, <1>16 DEF MemOK, Good
<1> QED
  BY <1>6, <1>17

\* vc_free.
LEMMA VCFreeOK ==
    ASSUME NEW s, NEW n \in Nat, Good(s, n, {}), NEW v \in VCs, s.vc[v].state = "open"
    PROVE  Good(VCFree(s, v), n, {})
<1>1. PICK t : t = PurgeQueues([s EXCEPT !.vc[v].state = "closing"], v)
  OBVIOUS
<1>2. Good(t, n, {}) /\ t.vc[v].state = "closing"
  BY <1>1, PurgeOK
<1>3. t.vc[v].outstanding = 0 => Good(Delete(t, v), n, {})
  BY <1>2, DeleteOK
<1>4. VCFree(s, v) = (IF s.vc[v].localClosed /\ s.vc[v].remoteClosed
                      THEN IF t.vc[v].outstanding = 0 THEN Delete(t, v) ELSE t
                      ELSE s)
  BY <1>1, Zenon DEF VCFree
<1> QED
  BY <1>2, <1>3, <1>4

-----------------------------------------------------------------------------
(* Timers and completions.                                                    *)

\* A packet whose timer expired belongs to an open VC, and only the unacknowledged
\* queue and the send window refer to it.
LEMMA ExpiredIs ==
    ASSUME NEW s, NEW n \in Nat, Good(s, n, {}), NEW b \in s.unack \ s.inprogress
    PROVE  /\ b \in Vbufs /\ b \notin Out(s, {}) /\ b \notin s.cut /\ b \notin s.pending
           /\ s.vc_of[b] \in VCs /\ s.vc[s.vc_of[b]].state = "open"
           /\ b \in ToSet(s.vc[s.vc_of[b]].sendwin)
<1>0. /\ MemType(s) /\ FlagsOK(s, {}) /\ OwnerOK(s, {}) /\ WindowsOK(s, {})
  BY DEF MemOK, Good
<1>1. b \in Vbufs
  BY <1>0 DEF MemType
<1>2. b \notin Out(s, {}) /\ b \notin s.pending
  BY <1>0, <1>1 DEF FlagsOK
<1>3. PICK v \in VCs : s.vc_of[b] = v /\ s.vc[v].state = "open"
  BY <1>0, <1>1 DEF OwnerOK
<1>4. b \notin s.cut
  BY <1>0, <1>1, <1>3 DEF OwnerOK
<1>5. b \in ToSet(s.vc[v].sendwin)
  BY <1>0, <1>1, <1>3 DEF WindowsOK
<1> QED
  BY <1>1, <1>2, <1>3, <1>4, <1>5

\* ud_toss_packet.
LEMMA TossOK ==
    ASSUME NEW s, NEW n \in Nat, Good(s, n, {}), NEW b \in s.unack \ s.inprogress
    PROVE  Good(Release(Unlink(s, s.vc_of[b], {b}), {b}), n, {})
<1>1. /\ b \in Vbufs /\ b \notin Out(s, {}) /\ b \notin s.cut /\ b \notin s.pending
      /\ s.vc_of[b] \in VCs /\ s.vc[s.vc_of[b]].state = "open"
      /\ b \in ToSet(s.vc[s.vc_of[b]].sendwin)
  BY ExpiredIs
<1>2. PICK v \in VCs : v = s.vc_of[b]
  BY <1>1
<1>3. PICK D, none : D = {b} /\ none = {}
  OBVIOUS
<1>4. Covered(s, v, D) /\ Good(s, n, none)
  BY <1>1, <1>2, <1>3 DEF Covered
<1>5. Good(Release(Unlink(s, v, D), D), n, none)
  BY <1>4, AckedOK
<1> QED
  BY <1>2, <1>3, <1>5

\* ud_resend, up to the submission.
LEMMA MarkedOK ==
    ASSUME NEW s, NEW n \in Nat, Good(s, n, {}), NEW b \in s.unack \ s.inprogress,
           NEW t, t = [s EXCEPT !.inprogress = @ \cup {b}], NEW sub, sub = {b}
    PROVE  /\ MemOK(t, n, {}, sub) /\ t.avail = s.avail /\ t.ext_send_queue = s.ext_send_queue
           /\ b \in Vbufs /\ b \notin ToSet(s.ext_send_queue)
<1>0. /\ MemType(s) /\ FreeOK(s) /\ OutOK(s, {}) /\ FlagsOK(s, {}) /\ OwnerOK(s, {})
      /\ WindowsOK(s, {}) /\ PlaceOK(s, {}, {}) /\ CreditOK(s, n)
  BY DEF MemOK, Good
<1>1. /\ b \in Vbufs /\ b \notin Out(s, {}) /\ b \notin s.cut /\ b \notin s.pending
      /\ s.vc_of[b] \in VCs /\ s.vc[s.vc_of[b]].state = "open"
  BY ExpiredIs
<1>2. /\ MemType(t) /\ t.inprogress = s.inprogress \cup {b}
      /\ t.sends = s.sends /\ t.avail = s.avail /\ t.ext_send_queue = s.ext_send_queue
      /\ t.cut = s.cut /\ t.unack = s.unack /\ t.pending = s.pending
      /\ t.free = s.free /\ t.twice = s.twice /\ t.vc_of = s.vc_of /\ t.vc = s.vc
  BY <1>0, <1>1 DEF MemType
<1>3. Out(t, sub) = Out(s, {}) \cup {b} /\ \A c : Waiting(t, c) <=> Waiting(s, c)
  BY <1>2 DEF Out, Waiting
<1>4. FreeOK(t)
  BY <1>0, <1>2 DEF FreeOK
<1>5. OutOK(t, sub)
  <2>1. b \notin s.sends \cup ToSet(s.ext_send_queue)
    BY <1>1 DEF Out
  <2> QED
    BY <2>1, <1>0, <1>1, <1>2, <1>3 DEF OutOK
<1>6. FlagsOK(t, sub)
  BY <1>0, <1>1, <1>2, <1>3 DEF FlagsOK
<1>7. OwnerOK(t, sub)
  <2> SUFFICES ASSUME NEW c \in Vbufs
               PROVE  LET state(S) == \E w \in VCs : t.vc_of[c] = w /\ t.vc[w].state \in S
                      IN  /\ c \in t.sends => state({"open", "closing"})
                          /\ c \in ToSet(t.ext_send_queue) \cup sub => state({"open"})
                          /\ c \in t.cut => state({"closing", "deleted"})
                          /\ c \in t.unack => state({"open"}) \/ c \in t.cut \cap t.inprogress
    BY DEF OwnerOK
  <2>1. c = b => \E w \in VCs : s.vc_of[c] = w /\ s.vc[w].state \in {"open"}
    BY <1>1
  <2> QED
    BY <2>1, <1>0, <1>2 DEF OwnerOK
<1>8. WindowsOK(t, sub)
  <2> SUFFICES ASSUME NEW w \in VCs
               PROVE  /\ Len(t.vc[w].sendwin) <= Window + 1
                      /\ t.vc[w].state = "open" =>
                           /\ IsInjective(t.vc[w].sendwin) /\ IsInjective(t.vc[w].extwin)
                           /\ \A c \in Vbufs :
                                /\ c \in ToSet(t.vc[w].sendwin) <=> c \in t.unack /\ t.vc_of[c] = w
                                /\ c \in ToSet(t.vc[w].extwin) \cup t.vc[w].recvwin =>
                                     t.vc_of[c] = w /\ c \notin Out(t, sub) \cup t.unack
                                /\ ~(c \in ToSet(t.vc[w].extwin) /\ c \in t.vc[w].recvwin)
    BY DEF WindowsOK
  <2>1. ASSUME NEW c \in Vbufs, s.vc[w].state = "open",
               c \in ToSet(s.vc[w].extwin) \cup s.vc[w].recvwin
        PROVE  s.vc_of[c] = w /\ c \notin Out(t, sub) \cup t.unack
    <3>1. s.vc_of[c] = w /\ c \notin Out(s, {}) \cup s.unack
      BY <2>1, <1>0 DEF WindowsOK
    <3> QED
      BY <3>1, <1>2, <1>3
  <2>2. /\ Len(s.vc[w].sendwin) <= Window + 1
        /\ s.vc[w].state = "open" =>
             /\ IsInjective(s.vc[w].sendwin) /\ IsInjective(s.vc[w].extwin)
             /\ \A c \in Vbufs :
                  /\ c \in ToSet(s.vc[w].sendwin) <=> c \in s.unack /\ s.vc_of[c] = w
                  /\ ~(c \in ToSet(s.vc[w].extwin) /\ c \in s.vc[w].recvwin)
    BY <1>0 DEF WindowsOK
  <2>3. t.vc[w] = s.vc[w] /\ t.unack = s.unack /\ t.vc_of = s.vc_of
    BY <1>2
  <2> QED
    BY ONLY <2>1, <2>2, <2>3
<1>9. PlaceOK(t, {}, sub)
  BY <1>0, <1>1, <1>2, <1>3 DEF PlaceOK
<1>10. CreditOK(t, n)
  BY <1>0, <1>2 DEF CreditOK
<1>11. MemOK(t, n, {}, sub)
  BY <1>2, <1>4, <1>5, <1>6, <1>7, <1>8, <1>9, <1>10 DEF MemOK
<1> QED
  BY <1>1, <1>2, <1>11 DEF Out

\* ud_resend.
LEMMA ResendOK ==
    ASSUME NEW s, NEW n \in Nat, Good(s, n, {}), NEW b \in s.unack \ s.inprogress,
           NEW t, t = [s EXCEPT !.inprogress = @ \cup {b}]
    PROVE  /\ s.avail > 0 => Good(Post(t, << b >>), n, {})
           /\ ~(s.avail > 0) => Good([t EXCEPT !.ext_send_queue = Append(@, b)], n, {})
<1>1. PICK sub, none, o : sub = {b} /\ none = {} /\ o = << b >>
  OBVIOUS
<1>2. /\ MemOK(t, n, none, sub) /\ t.avail = s.avail /\ t.ext_send_queue = s.ext_send_queue
      /\ b \in Vbufs /\ b \notin ToSet(s.ext_send_queue)
  BY <1>1, MarkedOK
<1>3. o \in Seq(Vbufs) /\ ToSet(o) = sub /\ IsInjective(o) /\ Len(o) = 1
  BY <1>1, <1>2, OneList
<1>4. s.avail \in Nat /\ s.ext_send_queue \in Seq(Vbufs) /\ IsInjective(s.ext_send_queue)
      /\ Drained(s)
  BY DEF Good, MemOK, MemType, OutOK
<1>5. ASSUME s.avail > 0
      PROVE  Good(Post(t, << b >>), n, {})
  <2>1. Postable(t, o, sub, none)
    BY <1>1, <1>2, <1>3, <1>4, <1>5 DEF Postable
  <2>2. PICK p : p = Post(t, o)
    OBVIOUS
  <2>3. MemOK(p, n, none, none) /\ p.ext_send_queue = t.ext_send_queue
    <3>1. n \in Nat /\ MemOK(t, n, none, sub)
      BY <1>2
    <3>2. MemOK(Post(t, o), n, none, none) /\ Posted(t, Post(t, o), o)
      BY ONLY <3>1, <2>1, PostOK
    <3> QED
      BY <3>2, <2>2 DEF Posted
  <2>4. Drained(p)
    BY <2>3, <1>2, <1>4, <1>5 DEF Drained
  <2>5. Good(p, n, none)
    BY <2>3, <2>4, <1>1 DEF Good
  <2> QED
    BY <2>2, <2>5, <1>1
<1>6. ASSUME ~(s.avail > 0)
      PROVE  Good([t EXCEPT !.ext_send_queue = Append(@, b)], n, {})
  <2>1. PICK e \in Seq(Vbufs) : e = s.ext_send_queue
    BY <1>4
  <2>2. PICK q : q = e \o o
    OBVIOUS
  <2>3. q \in Seq(Vbufs) /\ ToSet(q) = ToSet(e) \cup ToSet(o) /\ IsInjective(q)
    <3>1. ToSet(e) \cap ToSet(o) = {} /\ IsInjective(e) /\ IsInjective(o) /\ o \in Seq(Vbufs)
      BY <1>1, <1>2, <1>3, <1>4, <2>1
    <3> QED
      BY <3>1, <2>2, JoinedLists
  <2>4. PICK u : u = [t EXCEPT !.ext_send_queue = q]
    OBVIOUS
  <2>5. MemOK(u, n, none, none) /\ u.avail = t.avail
    <3>1. /\ q \in Seq(Vbufs) /\ IsInjective(q) /\ none \in SUBSET Vbufs
          /\ ToSet(q) \cup none = ToSet(t.ext_send_queue) \cup sub /\ ToSet(q) \cap none = {}
      BY <1>1, <1>2, <1>3, <2>1, <2>3
    <3>2. LET x == [t EXCEPT !.ext_send_queue = q]
          IN  /\ MemOK(x, n, none, none)
              /\ x.free = t.free /\ x.ext_send_queue = q /\ x.avail = t.avail /\ x.vc_of = t.vc_of
              /\ \A v \in VCs : x.vc[v].state = t.vc[v].state
      <4>1. n \in Nat /\ MemOK(t, n, none, sub)
        BY <1>2
      <4> QED
        BY ONLY <4>1, <3>1, RequeueOK
    <3> QED
      BY <3>2, <2>4
  <2>6. Drained(u)
    BY <2>5, <1>2, <1>4, <1>6 DEF Drained
  <2>7. [t EXCEPT !.ext_send_queue = Append(@, b)] = u
    <3>1. Append(e, b) = q
      BY <1>1, <1>2, <2>2, AppendedList
    <3>2. Append(t.ext_send_queue, b) = q
      BY <3>1, <2>1, <1>2
    <3> QED
      BY <3>2, <2>4
  <2> QED
    BY <2>5, <2>6, <2>7, <1>1 DEF Good
<1> QED
  BY <1>5, <1>6

\* ud_update_send_credits.
LEMMA CreditsOK ==
    ASSUME NEW s, NEW n \in Nat, Good(s, n, {})
    PROVE  Good(UpdateSendCredits(s, n), 0, {})
<1>0. /\ MemType(s) /\ FreeOK(s) /\ OutOK(s, {}) /\ FlagsOK(s, {}) /\ OwnerOK(s, {})
      /\ WindowsOK(s, {}) /\ PlaceOK(s, {}, {}) /\ CreditOK(s, n)
  BY DEF MemOK, Good
<1>1. PICK a \in Nat : a = s.avail + n
  BY <1>0 DEF MemType
<1>2. PICK none : none = {}
  OBVIOUS
<1>3. PICK t : t = [s EXCEPT !.avail = a]
  OBVIOUS
<1>4. /\ MemType(t) /\ t.avail = a /\ t.inprogress = s.inprogress
      /\ t.sends = s.sends /\ t.ext_send_queue = s.ext_send_queue
      /\ t.cut = s.cut /\ t.unack = s.unack /\ t.pending = s.pending
      /\ t.free = s.free /\ t.twice = s.twice /\ t.vc_of = s.vc_of /\ t.vc = s.vc
  BY <1>0, <1>3 DEF MemType
<1>5. MemOK(t, 0, none, none)
  <2>1. Out(t, {}) = Out(s, {}) /\ \A c : Waiting(t, c) <=> Waiting(s, c)
    BY <1>4 DEF Out, Waiting
  <2>2. FreeOK(t) /\ OutOK(t, {}) /\ OwnerOK(t, {})
    BY <2>1, <1>0, <1>4 DEF FreeOK, OutOK, OwnerOK
  <2>3. FlagsOK(t, {}) /\ PlaceOK(t, {}, {})
    BY <2>1, <1>0, <1>4 DEF FlagsOK, PlaceOK
  <2>4. WindowsOK(t, {})
    BY <2>1, <1>0, <1>4 DEF WindowsOK
  <2>5. CreditOK(t, 0)
    <3>1. s.avail \in Nat /\ s.sends \subseteq Vbufs
      BY <1>0 DEF MemType
    <3>2. Cardinality(s.sends) \in Nat
      BY <3>1, BuffersAssumption, FS_Subset, FS_CardinalityType
    <3>3. s.avail + Cardinality(s.sends) + n = MaxSends
      BY <1>0 DEF CreditOK
    <3>4. t.avail + Cardinality(t.sends) + 0 = MaxSends
      BY <3>1, <3>2, <3>3, <1>1, <1>4
    <3> QED
      BY <3>4, <1>0, <1>4 DEF CreditOK
  <2> QED
    BY <2>2, <2>3, <2>4, <2>5, <1>2, <1>4 DEF MemOK
<1>6. PICK e \in Seq(Vbufs) : e = s.ext_send_queue
  BY <1>0 DEF MemType
<1>7. PICK first : first = FirstOf(e, a)
  OBVIOUS
<1>8. PICK rest : rest = AfterFirst(e, Len(first))
  OBVIOUS
<1>9. /\ first \in Seq(Vbufs) /\ rest \in Seq(Vbufs)
      /\ Len(first) = (IF a < Len(e) THEN a ELSE Len(e))
      /\ Len(rest) = Len(e) - Len(first)
      /\ ToSet(e) = ToSet(first) \cup ToSet(rest)
      /\ IsInjective(first) /\ IsInjective(rest) /\ ToSet(first) \cap ToSet(rest) = {}
  <2>1. IsInjective(e)
    BY <1>0, <1>6 DEF OutOK
  <2> QED
    BY <2>1, <1>7, <1>8, SplitList
<1>10. PICK sub : sub = ToSet(first)
  OBVIOUS
<1>11. PICK u : u = [t EXCEPT !.ext_send_queue = rest]
  OBVIOUS
<1>12. MemOK(u, 0, none, sub) /\ u.avail = a /\ u.ext_send_queue = rest
  <2>1. /\ rest \in Seq(Vbufs) /\ IsInjective(rest) /\ sub \in SUBSET Vbufs
        /\ ToSet(rest) \cup sub = ToSet(t.ext_send_queue) \cup none
        /\ ToSet(rest) \cap sub = {}
    BY <1>2, <1>4, <1>6, <1>9, <1>10, ToSetIn
  <2>2. PICK zero \in Nat : zero = 0
    OBVIOUS
  <2>3. LET x == [t EXCEPT !.ext_send_queue = rest]
        IN  /\ MemOK(x, zero, none, sub)
            /\ x.free = t.free /\ x.ext_send_queue = rest /\ x.avail = t.avail /\ x.vc_of = t.vc_of
            /\ \A v \in VCs : x.vc[v].state = t.vc[v].state
    <3>1. zero \in Nat /\ MemOK(t, zero, none, none)
      BY <2>2, <1>5
    <3> QED
      BY ONLY <3>1, <2>1, RequeueOK
  <2> QED
    BY <2>2, <2>3, <1>4, <1>11
<1>13. Postable(u, first, sub, none)
  BY <1>2, <1>9, <1>10, <1>12 DEF Postable
<1>14. PICK p : p = Post(u, first)
  OBVIOUS
<1>15. MemOK(p, 0, none, none) /\ Posted(u, p, first)
  <2>1. 0 \in Nat /\ MemOK(u, 0, none, sub)
    BY <1>12
  <2> QED
    BY ONLY <2>1, <1>13, <1>14, PostOK
<1>16. Drained(p)
  <2>1. p.ext_send_queue = rest /\ p.avail = a - Len(first)
    BY <1>12, <1>15 DEF Posted
  <2>2. ASSUME rest # << >>
        PROVE  a - Len(first) = 0
    <3>1. Len(rest) # 0 /\ Len(e) \in Nat
      BY <2>2, <1>9
    <3> QED
      BY <3>1, <1>9
  <2> QED
    BY <2>1, <2>2 DEF Drained
<1>17. UpdateSendCredits(s, n) = p
  <2>1. [s EXCEPT !.avail = s.avail + n] = t
    BY <1>1, <1>3
  <2>2. UpdateSendCredits(s, n)
        = Post([t EXCEPT !.ext_send_queue = AfterFirst(@, Len(FirstOf(s.ext_send_queue, t.avail)))],
               FirstOf(s.ext_send_queue, t.avail))
    BY <2>1, Zenon DEF UpdateSendCredits
  <2>3. FirstOf(s.ext_send_queue, t.avail) = first
    BY <1>4, <1>6, <1>7
  <2>4. AfterFirst(t.ext_send_queue, Len(first)) = rest
    BY <1>4, <1>6, <1>8
  <2> QED
    BY <2>2, <2>3, <2>4, <1>11, <1>14
<1> QED
  BY <1>2, <1>15, <1>16, <1>17 DEF Good

\* A send completion (PollSend), as far as the buffers are concerned: the last one
\* of a closing VC takes it along, and the vbuf is released when nobody needs it.
Dropped(x, v) ==
    IF x.vc[v].state = "closing" /\ x.vc[v].outstanding = 0 THEN Delete(x, v) ELSE x

Unmarked(x, b) == [x EXCEPT !.inprogress = @ \ {b}, !.pending = @ \ {b}]

Settled(s, b, x) == IF b \notin s.inprogress \/ b \in s.pending THEN Release(x, {b}) ELSE x

Spent(s, b, v) == [s EXCEPT !.sends = @ \ {b}, !.vc[v].outstanding = @ - 1]

Completed(s, b) ==
    Settled(s, b, Unmarked(Dropped(Spent(s, b, s.vc_of[b]), s.vc_of[b]), b))

\* The same without the last step of a VC, and with the VCs as they are then.
Returned(s, b, vc) ==
    [s EXCEPT !.sends = @ \ {b}, !.vc = vc, !.inprogress = @ \ {b}, !.pending = @ \ {b}]

LEMMA ReleaseKeepsVC ==
    ASSUME NEW s, NEW b \in s.sends, NEW vc, NEW d, MemType(s)
    PROVE  Settled(s, b, Returned(s, b, d)) = [Settled(s, b, Returned(s, b, vc)) EXCEPT !.vc = d]
<1>1. PICK S, I, P : S = s.sends \ {b} /\ I = s.inprogress \ {b} /\ P = s.pending \ {b}
  OBVIOUS
<1>2. PICK f, tw : f = s.free \cup {b} /\ tw = s.twice \cup ({b} \cap s.free)
  OBVIOUS
<1>3. PICK of : of = [c \in Vbufs |-> IF c \in {b} THEN None ELSE s.vc_of[c]]
  OBVIOUS
<1>4. ASSUME NEW e
      PROVE  /\ Returned(s, b, e) = [s EXCEPT !.sends = S, !.vc = e, !.inprogress = I, !.pending = P]
             /\ Release(Returned(s, b, e), {b})
                = [s EXCEPT !.sends = S, !.vc = e, !.inprogress = I, !.pending = P,
                            !.free = f, !.twice = tw, !.vc_of = of]
  <2>1. PICK r : r = Returned(s, b, e)
    OBVIOUS
  <2>2. r = [s EXCEPT !.sends = S, !.vc = e, !.inprogress = I, !.pending = P]
    BY <2>1, <1>1 DEF Returned
  <2>3. /\ r.inprogress = I /\ r.pending = P /\ r.free = s.free /\ r.twice = s.twice
        /\ r.vc_of = s.vc_of
    BY <2>2 DEF MemType
  <2>4. {b} \ r.inprogress = {b} /\ {b} \cap r.inprogress = {} /\ P \cup {} = P
    BY <2>3, <1>1
  <2>5. Release(r, {b}) = [r EXCEPT !.pending = P, !.free = f, !.twice = tw, !.vc_of = of]
    <3>1. Release(r, {b})
          = [r EXCEPT !.pending = r.pending \cup ({b} \cap r.inprogress),
                      !.free = r.free \cup ({b} \ r.inprogress),
                      !.twice = r.twice \cup (({b} \ r.inprogress) \cap r.free),
                      !.vc_of = [c \in Vbufs |-> IF c \in {b} \ r.inprogress THEN None
                                                 ELSE r.vc_of[c]]]
      BY DEF Release
    <3>2. /\ r.pending \cup ({b} \cap r.inprogress) = P
          /\ r.free \cup ({b} \ r.inprogress) = f
          /\ r.twice \cup (({b} \ r.inprogress) \cap r.free) = tw
      BY <2>3, <2>4, <1>2
    <3>3. [c \in Vbufs |-> IF c \in {b} \ r.inprogress THEN None ELSE r.vc_of[c]] = of
      BY <2>3, <2>4, <1>3
    <3> QED
      BY <3>1, <3>2, <3>3, Zenon
  <2>6. [r EXCEPT !.pending = P, !.free = f, !.twice = tw, !.vc_of = of]
        = [s EXCEPT !.sends = S, !.vc = e, !.inprogress = I, !.pending = P,
                    !.free = f, !.twice = tw, !.vc_of = of]
    BY <2>2 DEF MemType
  <2> QED
    BY <2>1, <2>2, <2>5, <2>6, Zenon
<1>5. [s EXCEPT !.sends = S, !.vc = d, !.inprogress = I, !.pending = P]
      = [[s EXCEPT !.sends = S, !.vc = vc, !.inprogress = I, !.pending = P] EXCEPT !.vc = d]
  BY DEF MemType
<1>6. [s EXCEPT !.sends = S, !.vc = d, !.inprogress = I, !.pending = P,
                !.free = f, !.twice = tw, !.vc_of = of]
      = [[s EXCEPT !.sends = S, !.vc = vc, !.inprogress = I, !.pending = P,
                   !.free = f, !.twice = tw, !.vc_of = of] EXCEPT !.vc = d]
  BY DEF MemType
<1>7. Returned(s, b, d) = [Returned(s, b, vc) EXCEPT !.vc = d]
  BY <1>4, <1>5, Zenon
<1>8. Release(Returned(s, b, d), {b}) = [Release(Returned(s, b, vc), {b}) EXCEPT !.vc = d]
  BY <1>4, <1>6, Zenon
<1> QED
  BY <1>7, <1>8, Zenon DEF Settled

Charged(s, v) == [s.vc EXCEPT ![v] = [s.vc[v] EXCEPT !.outstanding = @ - 1]]

LEMMA ChargedIs ==
    ASSUME NEW s, MemType(s), NEW v \in VCs, NEW vc, vc = Charged(s, v)
    PROVE  /\ vc \in [VCs -> VCType] /\ vc[v].outstanding = s.vc[v].outstanding - 1
           /\ \A w \in VCs : w # v => vc[w] = s.vc[w]
           /\ \A w \in VCs : /\ vc[w].state = s.vc[w].state /\ vc[w].sendwin = s.vc[w].sendwin
                             /\ vc[w].extwin = s.vc[w].extwin /\ vc[w].recvwin = s.vc[w].recvwin
<1>1. PICK x \in VCType : x = s.vc[v]
  BY DEF MemType
<1>2. PICK k \in Int : k = x.outstanding - 1
  BY DEF VCType
<1>3. PICK y : y = [x EXCEPT !.outstanding = k]
  OBVIOUS
<1>4. /\ y \in VCType /\ y.outstanding = k /\ y.state = x.state /\ y.sendwin = x.sendwin
      /\ y.extwin = x.extwin /\ y.recvwin = x.recvwin
  BY <1>3 DEF VCType
<1>5. s.vc \in [VCs -> VCType]
  BY DEF MemType
<1>6. vc = [s.vc EXCEPT ![v] = y]
  BY <1>1, <1>2, <1>3 DEF Charged
<1> QED
  BY <1>1, <1>2, <1>4, <1>5, <1>6

\* The completion of a send leaves the VC, or deletes it afterwards.
LEMMA CompletedIs ==
    ASSUME NEW s, MemType(s), NEW b \in s.sends, NEW v \in VCs, v = s.vc_of[b],
           NEW vc, vc = Charged(s, v),
           NEW u, u = Settled(s, b, Returned(s, b, vc)), u.vc = vc
    PROVE  Completed(s, b) = Dropped(u, v)
<1>1. PICK s1 : s1 = Spent(s, b, v)
  OBVIOUS
<1>2. PICK S : S = s.sends \ {b}
  OBVIOUS
<1>3. s1 = [s EXCEPT !.sends = S, !.vc = vc]
  BY <1>1, <1>2 DEF Charged, Spent
<1>4. s1.vc = vc
  BY <1>3 DEF MemType
<1>5. PICK d : d = [vc EXCEPT ![v] = DeletedVC]
  OBVIOUS
<1>6. Delete(s1, v) = [s1 EXCEPT !.vc = d]
  BY <1>4, <1>5 DEF Delete
<1>7. ASSUME NEW e
      PROVE  Unmarked([s1 EXCEPT !.vc = e], b) = Returned(s, b, e)
  BY <1>2, <1>3 DEF MemType, Returned, Unmarked
<1>8. s1 = [s1 EXCEPT !.vc = vc]
  BY <1>3 DEF MemType
<1>9. Delete(u, v) = [u EXCEPT !.vc = d]
  BY <1>5 DEF Delete
<1>10. Settled(s, b, Returned(s, b, d)) = [u EXCEPT !.vc = d]
  BY ReleaseKeepsVC
<1>11. Completed(s, b) = Settled(s, b, Unmarked(Dropped(s1, v), b))
  BY <1>1, Zenon DEF Completed
<1>13. CASE vc[v].state = "closing" /\ vc[v].outstanding = 0
  <2>1. Dropped(s1, v) = [s1 EXCEPT !.vc = d]
    BY <1>13, <1>4, <1>6, Zenon DEF Dropped
  <2>2. Unmarked(Dropped(s1, v), b) = Returned(s, b, d)
    BY <2>1, <1>7, Zenon
  <2>3. Dropped(u, v) = [u EXCEPT !.vc = d]
    BY <1>13, <1>9, Zenon DEF Dropped
  <2> QED
    BY <2>2, <2>3, <1>10, <1>11, Zenon
<1>14. CASE ~(vc[v].state = "closing" /\ vc[v].outstanding = 0)
  <2>1. Dropped(s1, v) = [s1 EXCEPT !.vc = vc]
    BY <1>14, <1>4, <1>8, Zenon DEF Dropped
  <2>2. Unmarked(Dropped(s1, v), b) = Returned(s, b, vc)
    BY <2>1, <1>7, Zenon
  <2>3. Dropped(u, v) = u
    BY <1>14, Zenon DEF Dropped
  <2> QED
    BY <2>2, <2>3, <1>11, Zenon
<1> QED
  BY <1>13, <1>14

LEMMA PolledIs ==
    ASSUME NEW b \in Vbufs, PollSend(b)
    PROVE  /\ b \in mem.sends /\ mem' = Completed(mem, b) /\ sendcnt' = sendcnt + 1
           /\ UNCHANGED <<strays, late>>
BY DEF PollSend, Completed, Settled, Unmarked, Dropped, Spent

\* A packet the hardware has.
LEMMA SentIs ==
    ASSUME NEW s, NEW n \in Nat, Good(s, n, {}), NEW b \in s.sends
    PROVE  /\ b \in Vbufs /\ b \notin ToSet(s.ext_send_queue) /\ b \notin s.cut /\ b \notin s.free
           /\ s.vc_of[b] \in VCs /\ s.vc[s.vc_of[b]].state \in {"open", "closing"}
           /\ b \in s.unack <=> ~(b \notin s.inprogress \/ b \in s.pending)
           /\ b \in s.unack => s.vc[s.vc_of[b]].state = "open"
           /\ ~Waiting(s, b)
<1>0. /\ MemType(s) /\ FreeOK(s) /\ OutOK(s, {}) /\ FlagsOK(s, {}) /\ OwnerOK(s, {})
      /\ WindowsOK(s, {}) /\ None \notin VCs
  BY BuffersAssumption DEF MemOK, Good
<1>1. b \in Vbufs /\ b \in Out(s, {})
  BY <1>0 DEF MemType, Out
<1>2. b \notin ToSet(s.ext_send_queue) /\ b \notin s.cut
  BY <1>0, <1>1 DEF OutOK
<1>3. PICK v \in VCs : s.vc_of[b] = v /\ s.vc[v].state \in {"open", "closing"}
  BY <1>0, <1>1 DEF OwnerOK
<1>4. b \notin s.free
  BY <1>0, <1>1, <1>3 DEF FreeOK
<1>5. b \in s.unack <=> ~(b \notin s.inprogress \/ b \in s.pending)
  BY <1>0, <1>1 DEF FlagsOK
<1>6. b \in s.unack => s.vc[v].state = "open"
  BY <1>0, <1>1, <1>2, <1>3 DEF OwnerOK
<1>7. ~Waiting(s, b)
  BY <1>0, <1>1 DEF WindowsOK, Waiting
<1> QED
  BY <1>1, <1>2, <1>3, <1>4, <1>5, <1>6, <1>7

\* What is left of the send once it is complete; F is the vbuf if it is released.
Ended(s, u, b, F) ==
    /\ MemType(u) /\ u.sends = s.sends \ {b} /\ u.avail = s.avail
    /\ u.inprogress = s.inprogress \ {b} /\ u.pending = s.pending \ {b}
    /\ u.ext_send_queue = s.ext_send_queue /\ u.cut = s.cut /\ u.unack = s.unack
    /\ u.free = s.free \cup F /\ u.twice = s.twice
    /\ \A c \in Vbufs : u.vc_of[c] = IF c \in F THEN None ELSE s.vc_of[c]

LEMMA EndedIs ==
    ASSUME NEW s, MemType(s), NEW b \in s.sends, b \notin s.free, NEW vc \in [VCs -> VCType],
           NEW F, F = IF b \notin s.inprogress \/ b \in s.pending THEN {b} ELSE {},
           NEW u, u = Settled(s, b, Returned(s, b, vc))
    PROVE  Ended(s, u, b, F) /\ u.vc = vc
<1>1. PICK r : r = Returned(s, b, vc)
  OBVIOUS
<1>2. /\ MemType(r) /\ r.sends = s.sends \ {b} /\ r.avail = s.avail
      /\ r.inprogress = s.inprogress \ {b} /\ r.pending = s.pending \ {b}
      /\ r.ext_send_queue = s.ext_send_queue /\ r.cut = s.cut /\ r.unack = s.unack
      /\ r.free = s.free /\ r.twice = s.twice /\ r.vc_of = s.vc_of /\ r.vc = vc
  BY <1>1 DEF MemType, Returned
<1>3. CASE b \notin s.inprogress \/ b \in s.pending
  <2>1. PICK B : B = {b}
    OBVIOUS
  <2>2. B \in SUBSET Vbufs
    BY <2>1 DEF MemType
  <2>3. u = Release(r, B) /\ F = B
    BY <1>1, <1>3, <2>1, Zenon DEF Settled
  <2>4. Freed(r, u, B)
    BY ONLY <2>2, <2>3, <1>2, ReleaseIs DEF Freed
  <2>5. B \ r.inprogress = B /\ B \cap r.inprogress = {} /\ B \cap r.free = {}
    BY <1>2, <2>1
  <2>6. /\ u.pending = r.pending /\ u.free = r.free \cup B /\ u.twice = r.twice
        /\ \A c \in Vbufs : u.vc_of[c] = IF c \in B THEN None ELSE r.vc_of[c]
    BY <2>4, <2>5 DEF Freed
  <2> QED
    BY <2>3, <2>4, <2>6, <1>2 DEF Freed, Ended
<1>4. CASE ~(b \notin s.inprogress \/ b \in s.pending)
  <2>1. u = r /\ F = {}
    BY <1>1, <1>4, Zenon DEF Settled
  <2> QED
    BY <2>1, <1>2 DEF Ended
<1> QED
  BY <1>3, <1>4

\* One send less.
LEMMA OneLess ==
    ASSUME NEW S, S \subseteq Vbufs, NEW b \in S
    PROVE  Cardinality(S \ {b}) = Cardinality(S) - 1 /\ Cardinality(S) \in Nat
<1>1. IsFiniteSet(S)
  BY BuffersAssumption, FS_Subset
<1> QED
  BY <1>1, FS_RemoveElement, FS_CardinalityType


\* cq_poll, a send completion.
LEMMA CompletedOK ==
    ASSUME NEW s, NEW n \in Nat, Good(s, n, {}), NEW b \in s.sends
    PROVE  Good(Completed(s, b), n + 1, {})
<1>0. /\ MemType(s) /\ FreeOK(s) /\ OutOK(s, {}) /\ FlagsOK(s, {}) /\ OwnerOK(s, {})
      /\ WindowsOK(s, {}) /\ PlaceOK(s, {}, {}) /\ CreditOK(s, n) /\ Drained(s)
      /\ None \notin VCs
  BY BuffersAssumption DEF MemOK, Good
<1>1. /\ b \in Vbufs /\ b \notin ToSet(s.ext_send_queue) /\ b \notin s.cut /\ b \notin s.free
      /\ s.vc_of[b] \in VCs /\ s.vc[s.vc_of[b]].state \in {"open", "closing"}
      /\ b \in s.unack <=> ~(b \notin s.inprogress \/ b \in s.pending)
      /\ b \in s.unack => s.vc[s.vc_of[b]].state = "open"
      /\ ~Waiting(s, b)
  BY SentIs
<1>2. PICK v \in VCs : v = s.vc_of[b]
  BY <1>1
<1>3. PICK vc : vc = Charged(s, v)
  OBVIOUS
<1>4. /\ vc \in [VCs -> VCType] /\ vc[v].outstanding = s.vc[v].outstanding - 1
      /\ \A w \in VCs : w # v => vc[w] = s.vc[w]
      /\ \A w \in VCs : /\ vc[w].state = s.vc[w].state /\ vc[w].sendwin = s.vc[w].sendwin
                        /\ vc[w].extwin = s.vc[w].extwin /\ vc[w].recvwin = s.vc[w].recvwin
  BY <1>0, <1>3, ChargedIs
<1>5. PICK u : u = Settled(s, b, Returned(s, b, vc))
  OBVIOUS
<1>6. PICK F : F = IF b \notin s.inprogress \/ b \in s.pending THEN {b} ELSE {}
  OBVIOUS
<1>7. Ended(s, u, b, F) /\ u.vc = vc
  BY ONLY <1>0, <1>1, <1>4, <1>5, <1>6, b \in s.sends, EndedIs
<1>8. /\ MemType(u) /\ u.sends = s.sends \ {b} /\ u.avail = s.avail
      /\ u.inprogress = s.inprogress \ {b} /\ u.pending = s.pending \ {b}
      /\ u.ext_send_queue = s.ext_send_queue /\ u.cut = s.cut /\ u.unack = s.unack
      /\ u.free = s.free \cup F /\ u.twice = s.twice
      /\ \A c \in Vbufs : u.vc_of[c] = IF c \in F THEN None ELSE s.vc_of[c]
  BY <1>7 DEF Ended
<1>9. Completed(s, b) = Dropped(u, v)
  BY ONLY <1>0, b \in s.sends, <1>2, <1>3, <1>5, <1>7, CompletedIs
<1>10. F \subseteq {b} /\ (b \in F <=> b \notin s.unack)
  BY <1>1, <1>6
<1>11. /\ \A c \in Vbufs : c # b => (c \in Out(u, {}) <=> c \in Out(s, {}))
       /\ b \in Out(s, {}) /\ b \notin Out(u, {})
       /\ \A c : Waiting(u, c) <=> Waiting(s, c)
  BY <1>1, <1>4, <1>7, <1>8 DEF Out, Waiting
<1>12. FreeOK(u)
  BY <1>0, <1>1, <1>8, <1>10 DEF FreeOK
<1>13. OutOK(u, {}) /\ Drained(u)
  BY <1>0, <1>1, <1>8, <1>11 DEF OutOK, Drained
<1>14. FlagsOK(u, {})
  BY <1>0, <1>1, <1>8, <1>11 DEF FlagsOK
<1>15. OwnerOK(u, {})
  <2> SUFFICES ASSUME NEW c \in Vbufs
               PROVE  LET state(S) == \E w \in VCs : u.vc_of[c] = w /\ u.vc[w].state \in S
                      IN  /\ c \in u.sends => state({"open", "closing"})
                          /\ c \in ToSet(u.ext_send_queue) \cup {} => state({"open"})
                          /\ c \in u.cut => state({"closing", "deleted"})
                          /\ c \in u.unack => state({"open"}) \/ c \in u.cut \cap u.inprogress
    BY DEF OwnerOK
  <2>1. LET state(S) == \E w \in VCs : s.vc_of[c] = w /\ s.vc[w].state \in S
        IN  /\ c \in s.sends => state({"open", "closing"})
            /\ c \in ToSet(s.ext_send_queue) \cup {} => state({"open"})
            /\ c \in s.cut => state({"closing", "deleted"})
            /\ c \in s.unack => state({"open"}) \/ c \in s.cut \cap s.inprogress
    BY <1>0 DEF OwnerOK
  <2>2. CASE c = b
    <3>1. c \notin u.sends /\ c \notin ToSet(u.ext_send_queue) \cup {} /\ c \notin u.cut
      BY <2>2, <1>1, <1>8
    <3>2. ASSUME c \in u.unack PROVE \E w \in VCs : u.vc_of[c] = w /\ u.vc[w].state \in {"open"}
      <4>0. c \in s.unack /\ c \notin F
        BY <2>2, <3>2, <1>8, <1>10
      <4>1. u.vc_of[c] = s.vc_of[c]
        BY <4>0, <1>8
      <4>2. s.vc[v].state = "open"
        BY <4>0, <2>2, <1>1, <1>2
      <4>3. u.vc_of[c] = v /\ u.vc[v].state = "open"
        BY <4>1, <4>2, <2>2, <1>2, <1>4, <1>7
      <4> QED
        BY <4>3
    <3> QED
      BY <3>1, <3>2
  <2>3. CASE c # b
    <3>0. c \notin F
      BY <2>3, <1>10
    <3>1. /\ u.vc_of[c] = s.vc_of[c] /\ (c \in u.inprogress <=> c \in s.inprogress)
          /\ (c \in u.sends <=> c \in s.sends)
      BY <2>3, <3>0, <1>8
    <3>2. \A S : (\E w \in VCs : u.vc_of[c] = w /\ u.vc[w].state \in S)
                 <=> (\E w \in VCs : s.vc_of[c] = w /\ s.vc[w].state \in S)
      BY <3>1, <1>4, <1>7
    <3> QED
      BY <2>1, <3>1, <3>2, <1>8
  <2> QED
    BY <2>2, <2>3
<1>16. WindowsOK(u, {})
  <2> SUFFICES ASSUME NEW w \in VCs
               PROVE  /\ Len(u.vc[w].sendwin) <= Window + 1
                      /\ u.vc[w].state = "open" =>
                           /\ IsInjective(u.vc[w].sendwin) /\ IsInjective(u.vc[w].extwin)
                           /\ \A c \in Vbufs :
                                /\ c \in ToSet(u.vc[w].sendwin) <=> c \in u.unack /\ u.vc_of[c] = w
                                /\ c \in ToSet(u.vc[w].extwin) \cup u.vc[w].recvwin =>
                                     u.vc_of[c] = w /\ c \notin Out(u, {}) \cup u.unack
                                /\ ~(c \in ToSet(u.vc[w].extwin) /\ c \in u.vc[w].recvwin)
    BY DEF WindowsOK
  <2>1. /\ u.vc[w].sendwin = s.vc[w].sendwin /\ u.vc[w].extwin = s.vc[w].extwin
        /\ u.vc[w].recvwin = s.vc[w].recvwin /\ u.vc[w].state = s.vc[w].state
    BY <1>4, <1>7
  <2>2. ASSUME NEW c \in Vbufs, s.vc[w].state = "open"
        PROVE  /\ c \in ToSet(u.vc[w].sendwin) <=> c \in u.unack /\ u.vc_of[c] = w
               /\ c \in ToSet(u.vc[w].extwin) \cup u.vc[w].recvwin =>
                    u.vc_of[c] = w /\ c \notin Out(u, {}) \cup u.unack
    <3>1. /\ c \in ToSet(s.vc[w].sendwin) <=> c \in s.unack /\ s.vc_of[c] = w
          /\ c \in ToSet(s.vc[w].extwin) \cup s.vc[w].recvwin =>
               s.vc_of[c] = w /\ c \notin Out(s, {}) \cup s.unack
      BY <2>2, <1>0 DEF WindowsOK
    <3>2. c \in F => c \notin s.unack /\ c \in Out(s, {})
      BY <1>10, <1>11
    <3>3. c \notin F => u.vc_of[c] = s.vc_of[c]
      BY <1>8
    <3>4. c \in F => u.vc_of[c] # w
      BY <1>0, <1>8
    <3>5. c \in Out(u, {}) => c \in Out(s, {})
      BY <1>11
    <3> QED
      BY <3>1, <3>2, <3>3, <3>4, <3>5, <2>1, <1>8
  <2> QED
    BY <2>1, <2>2, <1>0 DEF WindowsOK
<1>17. PlaceOK(u, {}, {})
  <2>1. ASSUME NEW c \in Vbufs
        PROVE  LET linked == c \in Out(u, {}) \cup u.unack \cup u.cut \/ Waiting(u, c)
               IN  /\ linked \/ c \in {} \cup u.free
                   /\ ~(linked /\ c \in {}) /\ ~(c \in {} /\ c \in u.free)
    <3>1. c \in Out(s, {}) \cup s.unack \cup s.cut \/ Waiting(s, c) \/ c \in s.free
      BY <1>0 DEF PlaceOK
    <3> QED
      BY <3>1, <1>8, <1>10, <1>11
  <2> QED
    BY <2>1 DEF PlaceOK
<1>18. CreditOK(u, n + 1)
  <2>1. s.sends \subseteq Vbufs /\ s.avail \in Nat
    BY <1>0 DEF MemType
  <2>2. Cardinality(s.sends \ {b}) = Cardinality(s.sends) - 1 /\ Cardinality(s.sends) \in Nat
    BY <2>1, OneLess
  <2>3. u.avail + Cardinality(u.sends) + (n + 1) = MaxSends
    <3>1. s.avail + Cardinality(s.sends) + n = MaxSends
      BY <1>0 DEF CreditOK
    <3>2. \A a, k, m \in Nat : a + (k - 1) + (m + 1) = a + k + m
      OBVIOUS
    <3> QED
      BY <3>1, <3>2, <2>1, <2>2, <1>8
  <2>4. ASSUME NEW w \in VCs, u.vc[w].state # "deleted"
        PROVE  u.vc[w].outstanding = Cardinality({c \in u.sends : u.vc_of[c] = w})
    <3>1. PICK S : S = {c \in s.sends : s.vc_of[c] = w}
      OBVIOUS
    <3>2. s.vc[w].outstanding = Cardinality(S)
      BY <2>4, <3>1, <1>0, <1>4, <1>7 DEF CreditOK
    <3>3. {c \in u.sends : u.vc_of[c] = w} = S \ {b}
      <4>1. \A c \in u.sends : c \in Vbufs /\ c \in s.sends /\ c # b /\ c \notin F
        BY <2>1, <1>8, <1>10
      <4>2. \A c \in u.sends : u.vc_of[c] = s.vc_of[c]
        BY <4>1, <1>8
      <4> QED
        BY <3>1, <4>1, <4>2, <1>8
    <3>4. CASE w = v
      <4>1. Cardinality(S \ {b}) = Cardinality(S) - 1
        BY <3>1, <3>4, <2>1, <1>2, OneLess
      <4> QED
        BY <3>2, <3>3, <3>4, <4>1, <1>4, <1>7
    <3>5. CASE w # v
      <4>1. S \ {b} = S
        BY <3>1, <3>5, <1>2
      <4> QED
        BY <3>2, <3>3, <3>5, <4>1, <1>4, <1>7
    <3> QED
      BY <3>4, <3>5
  <2> QED
    BY <2>3, <2>4 DEF CreditOK
<1>19. Good(u, n + 1, {})
  BY <1>8, <1>12, <1>13, <1>14, <1>15, <1>16, <1>17, <1>18 DEF MemOK, Good
<1>20. PICK k \in Nat : k = n + 1
  OBVIOUS
<1>21. CASE u.vc[v].state = "closing" /\ u.vc[v].outstanding = 0
  <2>1. Good(u, k, {})
    BY <1>19, <1>20
  <2>2. Good(Delete(u, v), k, {})
    BY <1>21, <2>1, DeleteOK
  <2> QED
    BY <2>2, <1>9, <1>20, <1>21 DEF Dropped
<1>22. CASE ~(u.vc[v].state = "closing" /\ u.vc[v].outstanding = 0)
  BY <1>9, <1>19, <1>22 DEF Dropped
<1> QED
  BY <1>21, <1>22

-----------------------------------------------------------------------------
(* The handlers.                                                              *)

LEMMA NotEmpty ==
    ASSUME NEW S, S \subseteq Vbufs
    PROVE  /\ Cardinality(S) >= 1 => S # {}
           /\ Cardinality(S) >= 2 => \A g \in S : S \ {g} # {}
<1>1. \A T : T = {} => ~(Cardinality(T) >= 1)
  BY FS_EmptySet
<1>2. ASSUME Cardinality(S) >= 2, NEW g \in S PROVE Cardinality(S \ {g}) >= 1
  BY <1>2, OneLess
<1> QED
  BY <1>1, <1>2

\* The call holds the vbuf b, for a packet of v.
Holds(s, t, n, v, b) ==
    /\ Good(t, n, {b}) /\ t.vc = s.vc /\ t.vc_of[b] = v
    /\ b \in s.free /\ t.free = s.free \ {b}

LEMMA GotOK ==
    ASSUME NEW s, NEW n \in Nat, Good(s, n, {}), s.free # {}, NEW v \in VCs,
           NEW t, t = Get(s, v), NEW b, b = Got(s)
    PROVE  Holds(s, t, n, v, b)
<1>0. PICK none : none = {}
  OBVIOUS
<1>1. PICK h : h = none \cup {Got(s)}
  OBVIOUS
<1>2. MemOK(s, n, none, none) /\ Drained(s)
  BY <1>0 DEF Good
<1>3. MemOK(t, n, h, none) /\ Taken(s, t, b, v)
  BY <1>1, <1>2, GetOK
<1>5. h = {b}
  BY <1>0, <1>1
<1>4. Drained(t)
  BY <1>2, <1>3 DEF Drained, Taken
<1> QED
  BY <1>0, <1>3, <1>4, <1>5 DEF Good, Taken, Holds

\* packet_send.
LEMMA SendOK ==
    ASSUME NEW s, NEW n \in Nat, Good(s, n, {}), s.free # {}, NEW v \in VCs,
           s.vc[v].state = "open", NEW t, t = PostSend(Get(s, v), v, Got(s))
    PROVE  Good(t, n, {}) /\ t.vc[v].state = "open"
<1>1. PICK g, b : g = Get(s, v) /\ b = Got(s)
  OBVIOUS
<1>2. Good(g, n, {b}) /\ g.vc = s.vc /\ g.vc_of[b] = v
  BY <1>1, GotOK DEF Holds
<1>3. Good(PostSend(g, v, b), n, {}) /\ Kept(g, PostSend(g, v, b))
  BY <1>2, PostSendOK
<1> QED
  BY <1>1, <1>2, <1>3 DEF Kept

\* spawn_net_disconnect_ib.
LEMMA LeaveOK ==
    ASSUME NEW s, NEW n \in Nat, Good(s, n, {}), s.free # {}, NEW v \in VCs,
           s.vc[v].state = "open", NEW t, t = PostSend(Get(s, v), v, Got(s))
    PROVE  Good(VCFree([t EXCEPT !.vc[v].localClosed = TRUE], v), n, {})
<1>1. Good(t, n, {}) /\ t.vc[v].state = "open"
  BY SendOK
<1>2. PICK none : none = {}
  OBVIOUS
<1>3. PICK u : u = [t EXCEPT !.vc[v].localClosed = TRUE]
  OBVIOUS
<1>4. Good(t, n, none)
  BY <1>1, <1>2
<1>5. Good(u, n, none) /\ u.vc[v].state = t.vc[v].state
  BY ONLY <1>3, <1>4, n \in Nat, v \in VCs, ClosedFlagsOK
<1>6. Good(VCFree(u, v), n, {})
  BY <1>1, <1>2, <1>5, VCFreeOK
<1> QED
  BY <1>3, <1>6

\* A packet arrives and its ack is processed.
Heard(s, a, n, v, b) ==
    /\ Good(a, n, {b}) /\ a.vc[v].state = "open" /\ a.vc_of[b] = v
    /\ b \in s.free /\ s.free \ {b} \subseteq a.free

LEMMA HeardOK ==
    ASSUME NEW s, NEW n \in Nat, Good(s, n, {}), s.free # {}, NEW v \in VCs,
           s.vc[v].state = "open", NEW k \in 0..Len(s.vc[v].sendwin),
           NEW b, b = Got(s), NEW a, a = ProcessAck(Arrived(s, v), v, k)
    PROVE  Heard(s, a, n, v, b)
<1>1. PICK g, h : g = Get(s, v) /\ h = {b}
  OBVIOUS
<1>2. Good(g, n, h) /\ g.vc = s.vc /\ g.vc_of[b] = v /\ b \in s.free /\ g.free = s.free \ {b}
  <2>1. Holds(s, g, n, v, b)
    BY <1>1, GotOK
  <2> QED
    BY <2>1, <1>1 DEF Holds
<1>3. g.posted \in Int /\ g.recvs \in Int /\ MemType(g)
  BY <1>2 DEF Good, MemOK, MemType
<1>4. PICK p \in Int, r \in Int : p = g.posted - 1 /\ r = g.recvs
  BY <1>3
<1>5. PICK c : c = Recounted(g, p, r)
  OBVIOUS
<1>6. Arrived(s, v) = c
  <2>1. [g EXCEPT !.posted = p] = [g EXCEPT !.posted = p, !.recvs = r]
    BY <1>3, <1>4 DEF MemType
  <2>2. Arrived(s, v) = [g EXCEPT !.posted = p]
    BY <1>1, <1>4 DEF Arrived
  <2> QED
    BY <2>1, <2>2, <1>5 DEF Recounted
<1>7. Good(c, n, h) /\ c.vc = g.vc /\ c.vc_of = g.vc_of /\ c.free = g.free
  BY ONLY n \in Nat, <1>2, <1>4, <1>5, CountersOK
<1>8. c.vc[v].state = "open" /\ k \in 0..Len(c.vc[v].sendwin)
  BY <1>2, <1>7
<1>9. Good(ProcessAck(c, v, k), n, h) /\ Grown(c, ProcessAck(c, v, k), h)
  BY <1>7, <1>8, ProcessAckOK
<1>10. a = ProcessAck(c, v, k) /\ b \in h
  BY <1>1, <1>6
<1>11. Good(a, n, h) /\ Grown(c, a, h)
  BY <1>9, <1>10
<1>12. a.vc[v].state = "open" /\ a.vc_of[b] = v /\ s.free \ {b} \subseteq a.free
  BY <1>2, <1>7, <1>8, <1>10, <1>11 DEF Grown
<1> QED
  BY <1>1, <1>2, <1>11, <1>12 DEF Heard

\* The vbuf in hand is released.
LEMMA DoneOK ==
    ASSUME NEW a, NEW n \in Nat, NEW b, Good(a, n, {b})
    PROVE  Good(Release(a, {b}), n, {}) /\ Release(a, {b}).vc = a.vc
<1>1. PICK h : h = {b}
  OBVIOUS
<1>2. Good(a, n, h) /\ b \in h
  BY <1>1
<1>3. Good(Release(a, {b}), n, h \ {b}) /\ Release(a, {b}).vc = a.vc
  BY <1>2, ReleaseHandOK
<1>4. h \ {b} = {}
  BY <1>1
<1> QED
  BY <1>3, <1>4

\* ud_process_recv of data: b is the vbuf of the packet.
LEMMA DataOK ==
    ASSUME NEW s, NEW n \in Nat, NEW v \in VCs, NEW a, NEW b, Heard(s, a, n, v, b),
           s.free \subseteq Vbufs, NEW due \in BOOLEAN, NEW new \in BOOLEAN,
           due => Cardinality(s.free) >= 2,
           NEW u, u = IF due THEN SendAck(a, v) ELSE a
    PROVE  Good(CountRecv(IF new THEN [u EXCEPT !.vc[v].recvwin = @ \cup {b}]
                          ELSE Release(u, {b})), n, {})
<1>0. /\ Good(a, n, {b}) /\ a.vc[v].state = "open" /\ a.vc_of[b] = v
      /\ b \in s.free /\ s.free \ {b} \subseteq a.free
  BY DEF Heard
<1>1. PICK h : h = {b}
  OBVIOUS
<1>2. Good(a, n, h) /\ b \in h
  BY <1>0, <1>1
<1>3. Good(u, n, h) /\ u.vc[v].state = "open" /\ u.vc_of[b] = v
  <2>1. CASE due
    <3>1. a.free # {}
      BY <2>1, <1>0, NotEmpty
    <3>2. PICK t : t = SendAck(a, v)
      OBVIOUS
    <3>3. /\ Good(t, n, h) /\ \A w \in VCs : t.vc[w].state = a.vc[w].state
          /\ \A c \in h : t.vc_of[c] = a.vc_of[c]
      BY <3>1, <3>2, <1>0, <1>2, SendAckOK
    <3>4. u = t
      BY <3>2, <2>1
    <3> QED
      BY <3>3, <3>4, <1>0, <1>2
  <2>2. CASE ~due
    BY <2>2, <1>0, <1>2
  <2> QED
    BY <2>1, <2>2
<1>4. Good(u, n, {b})
  BY <1>1, <1>3
<1>5. PICK x : x = [u EXCEPT !.vc[v].recvwin = @ \cup {b}]
  OBVIOUS
<1>6. Good(x, n, {})
  BY <1>3, <1>4, <1>5, KeepOK
<1>7. PICK y : y = Release(u, {b})
  OBVIOUS
<1>8. Good(y, n, {})
  BY <1>4, <1>7, DoneOK
<1>9. Good(CountRecv(x), n, {}) /\ Good(CountRecv(y), n, {})
  BY <1>6, <1>8, CountRecvOK
<1>10. CASE new
  BY <1>5, <1>9, <1>10
<1>11. CASE ~new
  BY <1>7, <1>9, <1>11
<1> QED
  BY <1>10, <1>11

\* ud_process_recv of an ACK, and of a DISCONNECT.
LEMMA AckOK ==
    ASSUME NEW s, NEW n \in Nat, NEW v \in VCs, NEW a, NEW b, Heard(s, a, n, v, b)
    PROVE  Good(CountRecv(Release(a, {b})), n, {})
<1>1. Good(a, n, {b})
  BY DEF Heard
<1>2. PICK t : t = Release(a, {b})
  OBVIOUS
<1>3. Good(t, n, {})
  BY <1>1, <1>2, DoneOK
<1>4. Good(CountRecv(t), n, {})
  BY <1>3, CountRecvOK
<1> QED
  BY <1>2, <1>4

LEMMA GoodbyeOK ==
    ASSUME NEW s, NEW n \in Nat, NEW v \in VCs, NEW a, NEW b, Heard(s, a, n, v, b),
           NEW t, t = Release(a, {b})
    PROVE  Good(CountRecv(VCFree([t EXCEPT !.vc[v].remoteClosed = TRUE], v)), n, {})
<1>1. Good(a, n, {b}) /\ a.vc[v].state = "open"
  BY DEF Heard
<1>2. PICK none : none = {}
  OBVIOUS
<1>3. Good(t, n, none) /\ t.vc = a.vc
  BY <1>1, <1>2, DoneOK
<1>4. PICK u : u = [t EXCEPT !.vc[v].remoteClosed = TRUE]
  OBVIOUS
<1>5. Good(u, n, none) /\ u.vc[v].state = t.vc[v].state
  BY ONLY <1>3, <1>4, n \in Nat, v \in VCs, ClosedFlagsOK
<1>6. Good(u, n, {}) /\ u.vc[v].state = "open"
  BY <1>1, <1>2, <1>3, <1>5
<1>7. PICK x : x = VCFree(u, v)
  OBVIOUS
<1>8. Good(x, n, {})
  BY <1>6, <1>7, VCFreeOK
<1>9. Good(CountRecv(x), n, {})
  BY <1>8, CountRecvOK
<1> QED
  BY <1>4, <1>7, <1>9

\* RecvConnect and RecvStray use up a posted receive.
LEMMA UsedUpOK ==
    ASSUME NEW s, NEW n \in Nat, Good(s, n, {}), NEW t, t = [s EXCEPT !.posted = @ - 1]
    PROVE  Good(t, n, {})
<1>1. MemType(s) /\ s.posted \in Int /\ s.recvs \in Int
  BY DEF Good, MemOK, MemType
<1>2. PICK p \in Int, r \in Int : p = s.posted - 1 /\ r = s.recvs
  BY <1>1
<1>3. [s EXCEPT !.posted = p] = [s EXCEPT !.posted = p, !.recvs = r]
  BY <1>1, <1>2 DEF MemType
<1>4. t = Recounted(s, p, r)
  BY <1>2, <1>3 DEF Recounted
<1>5. PICK none : none = {}
  OBVIOUS
<1>6. Good(s, n, none)
  BY <1>5
<1>7. Good(t, n, none)
  BY ONLY n \in Nat, <1>2, <1>4, <1>6, CountersOK
<1> QED
  BY <1>5, <1>7

LEMMA BuffersInit == Init => BuffersInv
<1> SUFFICES ASSUME Init PROVE BuffersInv
  OBVIOUS
<1>0. sendcnt = 0 /\ None \notin VCs
  BY BuffersAssumption DEF Init
<1>1. PICK o \in VCType : o = OpenVC
  <2>1. OpenVC \in VCType
    BY EmptyList DEF OpenVC, VCType, States
  <2> QED
    BY <2>1
<1>2. /\ o.state = "open" /\ o.outstanding = 0 /\ o.sendwin = << >> /\ o.extwin = << >>
      /\ o.recvwin = {}
  BY <1>1 DEF OpenVC
<1>3. PICK vc \in [VCs -> VCType], of \in [Vbufs -> VCs \cup {None}] :
         /\ vc = [v \in VCs |-> OpenVC] /\ of = [b \in Vbufs |-> None]
         /\ \A v \in VCs : vc[v] = o
         /\ \A b \in Vbufs : of[b] = None
  <2>1. PICK x : x = [v \in VCs |-> OpenVC]
    OBVIOUS
  <2>2. PICK y : y = [b \in Vbufs |-> None]
    OBVIOUS
  <2>3. x \in [VCs -> VCType] /\ \A v \in VCs : x[v] = o
    BY <2>1, <1>1
  <2>4. y \in [Vbufs -> VCs \cup {None}] /\ \A b \in Vbufs : y[b] = None
    BY <2>2
  <2> QED
    BY <2>1, <2>2, <2>3, <2>4, Zenon
<1>4. PICK e \in Seq(Vbufs) : e = << >> /\ ToSet(e) = {} /\ IsInjective(e) /\ Len(e) = 0
  <2>1. /\ << >> \in Seq(Vbufs) /\ ToSet(<< >>) = {} /\ IsInjective(<< >>)
        /\ Len(<< >>) = 0
    BY EmptyList
  <2> QED
    BY <2>1
<1>5. mem = [free |-> Vbufs, posted |-> MaxRecvs, recvs |-> MaxRecvs,
             sends |-> {}, avail |-> MaxSends, ext_send_queue |-> e, unack |-> {},
             inprogress |-> {}, pending |-> {}, vc_of |-> of, vc |-> vc,
             twice |-> {}, cut |-> {}]
  BY <1>3, <1>4 DEF Init
<1>6. MaxSends \in Nat /\ MaxRecvs \in Int
  BY BuffersAssumption
<1>7. MemType(mem)
  BY <1>3, <1>4, <1>5, <1>6 DEF MemType
<1>8. /\ mem.free = Vbufs /\ mem.sends = {} /\ mem.avail = MaxSends /\ mem.ext_send_queue = e
      /\ mem.unack = {} /\ mem.inprogress = {} /\ mem.pending = {} /\ mem.vc_of = of
      /\ mem.vc = vc /\ mem.twice = {} /\ mem.cut = {}
  BY <1>5
<1>9. Out(mem, {}) = {} /\ \A b : ~Waiting(mem, b)
  BY <1>2, <1>3, <1>4, <1>8 DEF Out, Waiting
<1>10. FreeOK(mem) /\ OutOK(mem, {}) /\ FlagsOK(mem, {})
  BY <1>3, <1>4, <1>8, <1>9 DEF FreeOK, OutOK, FlagsOK
<1>11. OwnerOK(mem, {})
  BY <1>4, <1>8 DEF OwnerOK
<1>12. WindowsOK(mem, {})
  <2>1. \A v \in VCs : mem.vc[v].sendwin = e /\ mem.vc[v].extwin = e /\ mem.vc[v].recvwin = {}
    BY <1>2, <1>3, <1>4, <1>8
  <2>2. 0 <= Window + 1
    BY Sizes
  <2> QED
    BY <2>1, <2>2, <1>4, <1>8 DEF WindowsOK
<1>13. PlaceOK(mem, {}, {})
  BY <1>8 DEF PlaceOK
<1>14. CreditOK(mem, 0)
  <2>1. Cardinality({}) = 0
    BY FS_EmptySet
  <2>2. \A v \in VCs : {b \in mem.sends : mem.vc_of[b] = v} = {} /\ mem.vc[v].outstanding = 0
    BY <1>2, <1>3, <1>8
  <2>3. MaxSends + 0 + 0 = MaxSends
    BY <1>6
  <2> QED
    BY <2>1, <2>2, <2>3, <1>8 DEF CreditOK
<1>15. Drained(mem)
  BY <1>4, <1>8 DEF Drained
<1>16. MemOK(mem, 0, {}, {})
  BY <1>7, <1>10, <1>11, <1>12, <1>13, <1>14 DEF MemOK
<1> QED
  BY <1>0, <1>15, <1>16 DEF BuffersInv

LEMMA BuffersStep == BuffersInv /\ [Next]_vars => BuffersInv'
<1> SUFFICES ASSUME BuffersInv, [Next]_vars, late' = {}
             PROVE  sendcnt' \in Nat /\ Good(mem', sendcnt', {})
  BY DEF BuffersInv, Good
<1>0. ASSUME late = {}
      PROVE  sendcnt \in Nat /\ Good(mem, sendcnt, {}) /\ mem.free \subseteq Vbufs
  BY <1>0 DEF BuffersInv, Good, MemOK, MemType
<1>1. ASSUME NEW k \in Nat, HasFree(k), mem.free \subseteq Vbufs, k > 0
      PROVE  mem.free # {}
  <2>1. IsFiniteSet(mem.free)
    BY <1>1, BuffersAssumption, FS_Subset
  <2>2. Cardinality(mem.free) \in Nat
    BY <2>1, FS_CardinalityType
  <2>3. Cardinality(mem.free) >= 1
    BY <2>2, <1>1 DEF HasFree
  <2> QED
    BY <2>3, <1>1, NotEmpty
<1>2. ASSUME NEW v \in VCs, Packet(v)
      PROVE  /\ sendcnt \in Nat /\ Good(mem, sendcnt, {}) /\ mem.free # {} /\ sendcnt' = sendcnt
             /\ mem.free \subseteq Vbufs /\ mem.vc[v].state = "open"
  <2>1. late = {} /\ mem.vc[v].state # "closing" /\ mem.vc[v].state # "deleted"
    BY <1>2 DEF Packet
  <2>2. sendcnt \in Nat /\ Good(mem, sendcnt, {}) /\ mem.free \subseteq Vbufs
    BY <2>1, <1>0
  <2>3. mem.vc[v].state \in States
    BY <2>2 DEF Good, MemOK, MemType, VCType
  <2>4. mem.free # {} /\ sendcnt' = sendcnt
    BY <2>2, <1>1, <1>2 DEF Packet
  <2> QED
    BY <2>1, <2>2, <2>3, <2>4 DEF States
<1>3. ASSUME NEW v \in VCs, Send(v)
      PROVE  sendcnt' \in Nat /\ Good(mem', sendcnt', {})
  <2>1. /\ late = {} /\ sendcnt' = sendcnt /\ HasFree(1) /\ mem.vc[v].state = "open"
        /\ mem' = PostSend(Get(mem, v), v, Got(mem))
    BY <1>3 DEF Send, InUse
  <2>2. sendcnt \in Nat /\ Good(mem, sendcnt, {}) /\ mem.free # {}
    BY <2>1, <1>0, <1>1
  <2>3. Good(mem', sendcnt, {})
    BY <2>1, <2>2, SendOK
  <2> QED
    BY <2>1, <2>2, <2>3
<1>4. ASSUME NEW v \in VCs, Disconnect(v)
      PROVE  sendcnt' \in Nat /\ Good(mem', sendcnt', {})
  <2>1. PICK t : t = PostSend(Get(mem, v), v, Got(mem))
    OBVIOUS
  <2>2. /\ late = {} /\ sendcnt' = sendcnt /\ HasFree(1) /\ mem.vc[v].state = "open"
        /\ mem' = VCFree([t EXCEPT !.vc[v].localClosed = TRUE], v)
    BY <1>4, <2>1 DEF Disconnect, InUse
  <2>3. sendcnt \in Nat /\ Good(mem, sendcnt, {}) /\ mem.free # {}
    BY <2>2, <1>0, <1>1
  <2>4. Good(VCFree([t EXCEPT !.vc[v].localClosed = TRUE], v), sendcnt, {})
    BY <2>1, <2>2, <2>3, LeaveOK
  <2> QED
    BY <2>2, <2>3, <2>4
<1>5. ASSUME NEW v \in VCs, Read(v)
      PROVE  sendcnt' \in Nat /\ Good(mem', sendcnt', {})
  <2>1. PICK b \in mem.vc[v].recvwin :
           mem' = Release([mem EXCEPT !.vc[v].recvwin = @ \ {b}], {b})
    BY <1>5 DEF Read
  <2>2. late = {} /\ sendcnt' = sendcnt /\ mem.vc[v].state = "open"
    BY <1>5 DEF Read, InUse
  <2>3. sendcnt \in Nat /\ Good(mem, sendcnt, {})
    BY <2>2, <1>0
  <2>4. Good(Release([mem EXCEPT !.vc[v].recvwin = @ \ {b}], {b}), sendcnt, {})
    BY <2>2, <2>3, ReadOK
  <2> QED
    BY <2>1, <2>2, <2>3, <2>4
<1>6. ASSUME NEW v \in VCs, CheckAcks(v)
      PROVE  sendcnt' \in Nat /\ Good(mem', sendcnt', {})
  <2>1. /\ late = {} /\ sendcnt' = sendcnt /\ HasFree(1) /\ mem.vc[v].state = "open"
        /\ mem' = SendAck(mem, v)
    BY <1>6 DEF CheckAcks
  <2>2. sendcnt \in Nat /\ Good(mem, sendcnt, {}) /\ mem.free # {}
    BY <2>1, <1>0, <1>1
  <2>3. PICK none : none = {}
    OBVIOUS
  <2>4. Good(mem, sendcnt, none)
    BY <2>2, <2>3
  <2>5. Good(SendAck(mem, v), sendcnt, none)
    BY <2>1, <2>2, <2>4, SendAckOK
  <2> QED
    BY <2>1, <2>2, <2>3, <2>5
<1>7. ASSUME NEW v \in VCs, RecvData(v)
      PROVE  sendcnt' \in Nat /\ Good(mem', sendcnt', {})
  <2>0. /\ sendcnt \in Nat /\ Good(mem, sendcnt, {}) /\ mem.free # {} /\ sendcnt' = sendcnt
        /\ mem.free \subseteq Vbufs /\ mem.vc[v].state = "open"
    BY <1>2, <1>7 DEF RecvData
  <2>1. PICK n \in 0..Len(mem.vc[v].sendwin), due \in {HasFree(2), FALSE}, new \in BOOLEAN :
          LET b == Got(mem)
              s1 == ProcessAck(Arrived(mem, v), v, n)
              s2 == IF due THEN SendAck(s1, v) ELSE s1
          IN  mem' = CountRecv(IF new THEN [s2 EXCEPT !.vc[v].recvwin = @ \cup {b}]
                               ELSE Release(s2, {b}))
    BY <1>7 DEF RecvData
  <2>2. due \in BOOLEAN /\ (due => Cardinality(mem.free) >= 2)
    <3>1. HasFree(2) \in BOOLEAN /\ (HasFree(2) => Cardinality(mem.free) >= 2)
      BY DEF HasFree
    <3> QED
      BY <3>1, <2>1, Zenon
  <2>3. PICK b, a : b = Got(mem) /\ a = ProcessAck(Arrived(mem, v), v, n)
    OBVIOUS
  <2>4. PICK u : u = IF due THEN SendAck(a, v) ELSE a
    OBVIOUS
  <2>5. mem' = CountRecv(IF new THEN [u EXCEPT !.vc[v].recvwin = @ \cup {b}]
                         ELSE Release(u, {b}))
    BY <2>1, <2>3, <2>4
  <2>6. Heard(mem, a, sendcnt, v, b)
    BY <2>0, <2>3, HeardOK
  <2>7. Good(CountRecv(IF new THEN [u EXCEPT !.vc[v].recvwin = @ \cup {b}]
                       ELSE Release(u, {b})), sendcnt, {})
    BY <2>0, <2>2, <2>4, <2>6, DataOK
  <2> QED
    BY <2>0, <2>5, <2>7
<1>8. ASSUME NEW v \in VCs, RecvAck(v)
      PROVE  sendcnt' \in Nat /\ Good(mem', sendcnt', {})
  <2>0. /\ sendcnt \in Nat /\ Good(mem, sendcnt, {}) /\ mem.free # {} /\ sendcnt' = sendcnt
        /\ mem.vc[v].state = "open"
    BY <1>2, <1>8 DEF RecvAck
  <2>1. PICK n \in 0..Len(mem.vc[v].sendwin) :
          mem' = CountRecv(Release(ProcessAck(Arrived(mem, v), v, n), {Got(mem)}))
    BY <1>8 DEF RecvAck
  <2>2. PICK b, a : b = Got(mem) /\ a = ProcessAck(Arrived(mem, v), v, n)
    OBVIOUS
  <2>3. Heard(mem, a, sendcnt, v, b)
    BY <2>0, <2>2, HeardOK
  <2>4. Good(CountRecv(Release(a, {b})), sendcnt, {})
    BY <2>0, <2>3, AckOK
  <2> QED
    BY <2>0, <2>1, <2>2, <2>4
<1>9. ASSUME NEW v \in VCs, RecvDisconnect(v)
      PROVE  sendcnt' \in Nat /\ Good(mem', sendcnt', {})
  <2>0. /\ sendcnt \in Nat /\ Good(mem, sendcnt, {}) /\ mem.free # {} /\ sendcnt' = sendcnt
        /\ mem.vc[v].state = "open"
    BY <1>2, <1>9 DEF RecvDisconnect
  <2>1. PICK n \in 0..Len(mem.vc[v].sendwin) :
          LET t == Release(ProcessAck(Arrived(mem, v), v, n), {Got(mem)})
          IN  mem' = CountRecv(VCFree([t EXCEPT !.vc[v].remoteClosed = TRUE], v))
    BY <1>9 DEF RecvDisconnect
  <2>2. PICK b, a : b = Got(mem) /\ a = ProcessAck(Arrived(mem, v), v, n)
    OBVIOUS
  <2>3. PICK t : t = Release(a, {b})
    OBVIOUS
  <2>4. mem' = CountRecv(VCFree([t EXCEPT !.vc[v].remoteClosed = TRUE], v))
    BY <2>1, <2>2, <2>3
  <2>5. Heard(mem, a, sendcnt, v, b)
    BY <2>0, <2>2, HeardOK
  <2>6. Good(CountRecv(VCFree([t EXCEPT !.vc[v].remoteClosed = TRUE], v)), sendcnt, {})
    BY <2>0, <2>3, <2>5, GoodbyeOK
  <2> QED
    BY <2>0, <2>4, <2>6
<1>10. ASSUME NEW b \in Vbufs, Resend(b)
       PROVE  sendcnt' \in Nat /\ Good(mem', sendcnt', {})
  <2>1. late = {} /\ sendcnt' = sendcnt /\ b \in mem.unack \ mem.inprogress
    BY <1>10 DEF Resend
  <2>2. PICK t : t = [mem EXCEPT !.inprogress = @ \cup {b}]
    OBVIOUS
  <2>3. mem' = IF mem.avail > 0 THEN Post(t, << b >>)
               ELSE [t EXCEPT !.ext_send_queue = Append(@, b)]
    BY <1>10, <2>2 DEF Resend
  <2>4. sendcnt \in Nat /\ Good(mem, sendcnt, {})
    BY <2>1, <1>0
  <2>5. /\ mem.avail > 0 => Good(Post(t, << b >>), sendcnt, {})
        /\ ~(mem.avail > 0) => Good([t EXCEPT !.ext_send_queue = Append(@, b)], sendcnt, {})
    BY <2>1, <2>2, <2>4, ResendOK
  <2>6. CASE mem.avail > 0
    BY <2>1, <2>3, <2>4, <2>5, <2>6
  <2>7. CASE ~(mem.avail > 0)
    BY <2>1, <2>3, <2>4, <2>5, <2>7
  <2> QED
    BY <2>6, <2>7
<1>11. ASSUME NEW b \in Vbufs, Toss(b)
       PROVE  sendcnt' \in Nat /\ Good(mem', sendcnt', {})
  <2>1. /\ late = {} /\ sendcnt' = sendcnt /\ b \in mem.unack \ mem.inprogress
        /\ mem' = Release(Unlink(mem, mem.vc_of[b], {b}), {b})
    BY <1>11 DEF Toss
  <2>2. sendcnt \in Nat /\ Good(mem, sendcnt, {})
    BY <2>1, <1>0
  <2>3. Good(Release(Unlink(mem, mem.vc_of[b], {b}), {b}), sendcnt, {})
    BY <2>1, <2>2, TossOK
  <2> QED
    BY <2>1, <2>2, <2>3
<1>12. ASSUME NEW b \in Vbufs, PollSend(b)
       PROVE  sendcnt' \in Nat /\ Good(mem', sendcnt', {})
  <2>1. /\ b \in mem.sends /\ mem' = Completed(mem, b) /\ sendcnt' = sendcnt + 1 /\ late' = late
    BY <1>12, PolledIs
  <2>2. sendcnt \in Nat /\ Good(mem, sendcnt, {})
    BY <2>1, <1>0
  <2>3. Good(Completed(mem, b), sendcnt + 1, {})
    BY <2>1, <2>2, CompletedOK
  <2> QED
    BY <2>1, <2>2, <2>3
<1>13. ASSUME RecvConnect
       PROVE  sendcnt' \in Nat /\ Good(mem', sendcnt', {})
  <2>1. PICK t : t = [mem EXCEPT !.posted = @ - 1]
    OBVIOUS
  <2>2. late = {} /\ sendcnt' = sendcnt /\ mem' = CountRecv(t)
    BY <1>13, <2>1 DEF RecvConnect
  <2>3. sendcnt \in Nat /\ Good(mem, sendcnt, {})
    BY <2>2, <1>0
  <2>4. Good(t, sendcnt, {})
    BY <2>1, <2>3, UsedUpOK
  <2>5. Good(CountRecv(t), sendcnt, {})
    BY <2>3, <2>4, CountRecvOK
  <2> QED
    BY <2>2, <2>3, <2>5
<1>14. ASSUME RecvStray
       PROVE  sendcnt' \in Nat /\ Good(mem', sendcnt', {})
  <2>1. late = {} /\ sendcnt' = sendcnt /\ mem' = [mem EXCEPT !.posted = @ - 1]
    BY <1>14 DEF RecvStray
  <2>2. sendcnt \in Nat /\ Good(mem, sendcnt, {})
    BY <2>1, <1>0
  <2>3. Good(mem', sendcnt, {})
    BY <2>1, <2>2, UsedUpOK
  <2> QED
    BY <2>1, <2>2, <2>3
<1>15. ASSUME EndPoll
       PROVE  sendcnt' \in Nat /\ Good(mem', sendcnt', {})
  <2>1. late = {} /\ sendcnt' = 0 /\ mem' = UpdateSendCredits(mem, sendcnt)
    BY <1>15 DEF EndPoll
  <2>2. sendcnt \in Nat /\ Good(mem, sendcnt, {})
    BY <2>1, <1>0
  <2>3. Good(UpdateSendCredits(mem, sendcnt), 0, {})
    BY <2>2, CreditsOK
  <2> QED
    BY <2>1, <2>3
<1>16. CASE UNCHANGED vars
  <2>1. late = {} /\ mem' = mem /\ sendcnt' = sendcnt
    BY <1>16 DEF vars
  <2> QED
    BY <2>1, <1>0
<1> QED
  BY <1>3, <1>4, <1>5, <1>6, <1>7, <1>8, <1>9, <1>10, <1>11, <1>12, <1>13, <1>14, <1>15,
     <1>16 DEF Next

\* The lists, flags and counters of the UD context agree with each other after
\* every call and every step of cq_poll, as long as no packet arrives for a VC
\* that vc_free has started to close.
THEOREM BuffersInvariant == Spec => []BuffersInv
BY BuffersInit, BuffersStep, PTL DEF Spec

LEMMA SendCounts ==
    ASSUME NEW s, NEW n \in Nat, MemOK(s, n, {}, {})
    PROVE  /\ s.avail \in 0..MaxSends /\ n \in 0..MaxSends
           /\ \A v \in VCs : s.vc[v].state # "deleted" => s.vc[v].outstanding \in 0..MaxSends
           /\ s.avail = 0 /\ n = 0 => s.sends # {}
<1>0. MemType(s) /\ CreditOK(s, n)
  BY DEF MemOK
<1>1. s.avail \in Nat /\ s.sends \subseteq Vbufs
  BY <1>0 DEF MemType
<1>2. PICK k \in Nat : k = Cardinality(s.sends)
  BY <1>1, BuffersAssumption, FS_Subset, FS_CardinalityType
<1>3. s.avail + k + n = MaxSends /\ MaxSends \in Nat /\ MaxSends > 0
  BY <1>0, <1>2, Sizes DEF CreditOK
<1>4. s.avail \in 0..MaxSends /\ n \in 0..MaxSends /\ k \in 0..MaxSends
  BY <1>1, <1>2, <1>3
<1>5. ASSUME NEW v \in VCs, s.vc[v].state # "deleted"
      PROVE  s.vc[v].outstanding \in 0..MaxSends
  <2>1. PICK S : S = {b \in s.sends : s.vc_of[b] = v}
    OBVIOUS
  <2>2. S \in SUBSET s.sends /\ IsFiniteSet(s.sends)
    BY <2>1, <1>1, BuffersAssumption, FS_Subset
  <2>3. Cardinality(S) <= k /\ Cardinality(S) \in Nat
    <3>1. IsFiniteSet(S) /\ Cardinality(S) <= Cardinality(s.sends)
      BY ONLY <2>2, FS_Subset
    <3>2. Cardinality(S) \in Nat
      BY <3>1, FS_CardinalityType
    <3> QED
      BY <3>1, <3>2, <1>2
  <2>4. s.vc[v].outstanding = Cardinality(S)
    BY <2>1, <1>0, <1>5 DEF CreditOK
  <2>5. \A c \in Nat : c <= k => c \in 0..MaxSends
    BY <1>3, <1>4
  <2> QED
    BY <2>3, <2>4, <2>5
<1>6. ASSUME s.avail = 0, n = 0
      PROVE  s.sends # {}
  <2>1. k # 0
    BY <1>2, <1>3, <1>6
  <2> QED
    BY <2>1, <1>2, FS_EmptySet
<1> QED
  BY <1>4, <1>5, <1>6

\* Where a vbuf is.
LEMMA LinkedIs ==
    ASSUME MemOK(mem, sendcnt, {}, {})
    PROVE  /\ Linked \subseteq Vbufs
           /\ \A b \in Vbufs : b \in Linked \cup mem.cut
                 <=> b \in Out(mem, {}) \cup mem.unack \cup mem.cut \/ Waiting(mem, b)
<1> DEFINE own(v) == ToSet(mem.vc[v].sendwin) \cup ToSet(mem.vc[v].extwin) \cup mem.vc[v].recvwin
<1>0. MemType(mem) /\ WindowsOK(mem, {})
  BY DEF MemOK
<1>1. \A b : b \in Linked <=> \/ b \in mem.sends \cup ToSet(mem.ext_send_queue) \cup mem.unack
                              \/ \E v \in VCs : IsOpen(v) /\ b \in own(v)
  BY DEF Linked
<1>2. ASSUME NEW v \in VCs
      PROVE  /\ ToSet(mem.vc[v].sendwin) \subseteq Vbufs /\ ToSet(mem.vc[v].extwin) \subseteq Vbufs
             /\ mem.vc[v].recvwin \subseteq Vbufs
  <2>1. PICK x \in VCType : x = mem.vc[v]
    BY <1>0 DEF MemType
  <2>2. x.sendwin \in Seq(Vbufs) /\ x.extwin \in Seq(Vbufs) /\ x.recvwin \subseteq Vbufs
    BY DEF VCType
  <2> QED
    BY <2>1, <2>2, ToSetIn
<1>3. mem.sends \cup ToSet(mem.ext_send_queue) \cup mem.unack \subseteq Vbufs
  <2>1. PICK q \in Seq(Vbufs) : q = mem.ext_send_queue
    BY <1>0 DEF MemType
  <2>2. ToSet(mem.ext_send_queue) \subseteq Vbufs
    BY <2>1, ToSetIn
  <2> QED
    BY <2>2, <1>0 DEF MemType
<1>4. ASSUME NEW b \in Vbufs, NEW v \in VCs, IsOpen(v), b \in ToSet(mem.vc[v].sendwin)
      PROVE  b \in mem.unack
  BY <1>4, <1>0 DEF WindowsOK, IsOpen
<1>5. ASSUME NEW b \in Vbufs
      PROVE  b \in Linked \cup mem.cut
             <=> b \in Out(mem, {}) \cup mem.unack \cup mem.cut \/ Waiting(mem, b)
  <2>1. b \in Out(mem, {}) <=> b \in mem.sends \cup ToSet(mem.ext_send_queue)
    BY DEF Out
  <2>2. Waiting(mem, b) <=> \E v \in VCs : IsOpen(v) /\ b \in ToSet(mem.vc[v].extwin) \cup mem.vc[v].recvwin
    BY DEF Waiting, IsOpen
  <2> QED
    BY <2>1, <2>2, <1>1, <1>4
<1>6. Linked \subseteq Vbufs
  BY <1>1, <1>2, <1>3
<1> QED
  BY <1>5, <1>6

\* Every vbuf is on the free list once, or in use, or one that vc_purge_queues
\* cut off: vbuf_release, vc_purge_queues and cq_poll never free a vbuf that a
\* queue or the hardware refers to, and lose none of the others.  Credits and
\* counts stay within the sizes of the queues.
THEOREM BuffersConserved == Spec => []VbufsAreConserved
<1>1. BuffersInv /\ RecvsInv => VbufsAreConserved
  <2> SUFFICES ASSUME BuffersInv, RecvsInv, late = {}
               PROVE  TypeOK /\ FreeIsFree /\ AllAccountedFor
    BY DEF VbufsAreConserved
  <2>0. sendcnt \in Nat /\ MemOK(mem, sendcnt, {}, {})
    BY DEF BuffersInv
  <2>1. /\ MemType(mem) /\ FreeOK(mem) /\ WindowsOK(mem, {}) /\ PlaceOK(mem, {}, {})
    BY <2>0 DEF MemOK
  <2>2. /\ Linked \subseteq Vbufs
        /\ \A b \in Vbufs : b \in Linked \cup mem.cut
              <=> b \in Out(mem, {}) \cup mem.unack \cup mem.cut \/ Waiting(mem, b)
    BY <2>0, LinkedIs
  <2>3. TypeOK
    <3>1. /\ mem.avail \in 0..MaxSends /\ sendcnt \in 0..MaxSends
          /\ \A v \in VCs : mem.vc[v].state # "deleted" => mem.vc[v].outstanding \in 0..MaxSends
      BY <2>0, SendCounts
    <3>2. mem.posted \in 0..MaxRecvs /\ mem.recvs \in 0..MaxRecvs /\ strays \in 0..MaxStrays
      BY BuffersAssumption DEF RecvsInv
    <3>3. /\ mem.free \subseteq Vbufs /\ mem.sends \subseteq Vbufs /\ mem.unack \subseteq Vbufs
          /\ mem.vc_of \in [Vbufs -> VCs \cup {None}]
      BY <2>1 DEF MemType
    <3>4. \A v \in VCs : mem.vc[v].state \in States /\ Len(mem.vc[v].sendwin) <= Window + 1
      BY <2>1 DEF MemType, VCType, WindowsOK
    <3> QED
      BY <3>1, <3>2, <3>3, <3>4 DEF TypeOK
  <2>4. FreeIsFree
    <3>1. ASSUME NEW b \in mem.free
          PROVE  b \notin Linked
      BY <2>0, <2>2, FreeUnused
    <3> QED
      BY <3>1, <2>1 DEF FreeIsFree, FreeOK
  <2>5. AllAccountedFor
    <3>1. ASSUME NEW b \in Vbufs
          PROVE  b \in mem.free \cup Linked \cup mem.cut
      BY <2>1, <2>2 DEF PlaceOK
    <3>2. mem.free \cup Linked \cup mem.cut \subseteq Vbufs
      BY <2>1, <2>2 DEF MemType
    <3> QED
      BY <3>1, <3>2 DEF AllAccountedFor
  <2> QED
    BY <2>3, <2>4, <2>5
<1> QED
  BY <1>1, BuffersInit, BuffersStep, RecvsInit, RecvsStep, PTL DEF Spec

\* A send completion, ud_update_send_credits and ud_resend find the VC of the
\* packet: vc_free deletes a VC only after its last completion, and
\* vc_purge_queues leaves none of its packets to the timer.
THEOREM PointersLive == Spec => []PointersAreLive
<1>1. BuffersInv => PointersAreLive
  <2> SUFFICES ASSUME BuffersInv, late = {}
               PROVE  /\ \A b \in mem.sends \cup ToSet(mem.ext_send_queue) :
                            mem.vc_of[b] # None /\ mem.vc[mem.vc_of[b]].state # "deleted"
                      /\ \A b \in mem.unack \ mem.inprogress :
                            mem.vc_of[b] # None /\ IsOpen(mem.vc_of[b])
                      /\ \A v \in VCs : IsOpen(v) =>
                            ToSet(mem.vc[v].sendwin) = {b \in mem.unack : mem.vc_of[b] = v}
    BY DEF PointersAreLive
  <2>0. sendcnt \in Nat /\ MemOK(mem, sendcnt, {}, {}) /\ Good(mem, sendcnt, {})
    BY DEF BuffersInv, Good
  <2>1. MemType(mem) /\ OwnerOK(mem, {}) /\ WindowsOK(mem, {}) /\ None \notin VCs
    BY <2>0, BuffersAssumption DEF MemOK
  <2>2. PICK q \in Seq(Vbufs) : q = mem.ext_send_queue
    BY <2>1 DEF MemType
  <2>3. mem.sends \subseteq Vbufs /\ ToSet(mem.ext_send_queue) \subseteq Vbufs
        /\ mem.unack \subseteq Vbufs
    BY <2>1, <2>2, ToSetIn DEF MemType
  <2>4. ASSUME NEW b \in mem.sends \cup ToSet(mem.ext_send_queue)
        PROVE  mem.vc_of[b] # None /\ mem.vc[mem.vc_of[b]].state # "deleted"
    <3>1. PICK v \in VCs : mem.vc_of[b] = v /\ mem.vc[v].state \in {"open", "closing"}
      BY <2>1, <2>3, <2>4 DEF OwnerOK
    <3> QED
      BY <3>1, <2>1
  <2>5. ASSUME NEW b \in mem.unack \ mem.inprogress
        PROVE  mem.vc_of[b] # None /\ IsOpen(mem.vc_of[b])
    BY <2>0, <2>1, ExpiredIs DEF IsOpen
  <2>6. ASSUME NEW v \in VCs, IsOpen(v)
        PROVE  ToSet(mem.vc[v].sendwin) = {b \in mem.unack : mem.vc_of[b] = v}
    <3>1. PICK x \in VCType : x = mem.vc[v]
      BY <2>1 DEF MemType
    <3>2. x.sendwin \in Seq(Vbufs)
      BY DEF VCType
    <3>3. ToSet(mem.vc[v].sendwin) \subseteq Vbufs
      BY <3>1, <3>2, ToSetIn
    <3>4. \A b \in Vbufs : b \in ToSet(mem.vc[v].sendwin) <=> b \in mem.unack /\ mem.vc_of[b] = v
      BY <2>1, <2>6 DEF WindowsOK, IsOpen
    <3> QED
      BY <3>3, <3>4, <2>3
  <2> QED
    BY <2>4, <2>5, <2>6
<1> QED
  BY <1>1, BuffersInit, BuffersStep, PTL DEF Spec

\* send_wqes_avail, the sends the hardware has and the completions this cq_poll
\* has counted add up to the size of the send queue, and a VC's
\* sends_outstanding is the number of its own sends, whichever of ud_post_sr,
\* ud_resend, cq_poll and ud_update_send_credits moved them.
THEOREM CreditsConserved == Spec => []CreditsAddUp
<1>1. BuffersInv => CreditsAddUp
  BY DEF BuffersInv, MemOK, CreditOK, CreditsAddUp
<1> QED
  BY <1>1, BuffersInit, BuffersStep, PTL DEF Spec

\* Between two cq_polls a packet waits on the extended send queue only with
\* every credit in use, so that a completion is still to come whose
\* ud_update_send_credits sends it.
THEOREM NoneStranded == Spec => []NothingStranded
<1>1. BuffersInv => NothingStranded
  <2> SUFFICES ASSUME BuffersInv, late = {}, ~polling, mem.ext_send_queue # << >>
               PROVE  mem.avail = 0 /\ mem.sends # {}
    BY DEF NothingStranded
  <2>1. sendcnt \in Nat /\ MemOK(mem, sendcnt, {}, {}) /\ Drained(mem) /\ sendcnt = 0
    BY DEF BuffersInv, polling
  <2>2. mem.avail = 0
    BY <2>1 DEF Drained
  <2> QED
    BY <2>1, <2>2, SendCounts
<1> QED
  BY <1>1, BuffersInit, BuffersStep, PTL DEF Spec
=============================================================================
