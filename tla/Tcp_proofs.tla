----------------------------- MODULE Tcp_proofs -----------------------------
(***************************************************************************)
(* Proofs about the TCP transport: however writes and reads are cut up,    *)
(* and whichever clients crash, each channel carries its messages whole,   *)
(* once and in order.                                                      *)
(*                                                                         *)
(* The argument: a socket holds a run of consecutive units that starts     *)
(* where the server stopped reading and ends where the client stopped      *)
(* writing (StreamOK, JoinOK), so that what the server has got is always   *)
(* the first part of one frame (ReaderOK).                                 *)
(***************************************************************************)
EXTENDS Tcp, SequenceTheorems, TLAPS

-----------------------------------------------------------------------------
(* Sequences.                                                              *)

Unit == Nat \X Nat

\* What a socket holds after a write of m units and after a read of n, and what
\* the read returns.
Wrote(s, f, a, m) == s \o Units(f, a, m)
Rest(s, n) == SubSeq(s, n + 1, Len(s))
Got(s, n) == SubSeq(s, 1, n)

LEMMA UnitIs == \A u \in Unit : u[1] \in Nat /\ u[2] \in Nat /\ u = <<u[1], u[2]>>
  BY DEF Unit

LEMMA UnitsAre ==
    ASSUME NEW f \in Nat, NEW a \in Nat, NEW n \in Nat
    PROVE  /\ Units(f, a, n) \in Seq(Unit) /\ Len(Units(f, a, n)) = n
           /\ \A i \in 1..n : Units(f, a, n)[i] = <<f, a + i>>
<1>1. \A i \in 1..n : <<f, a + i>> \in Unit
  BY DEF Unit
<1>2. Units(f, a, n) \in [1..n -> Unit]
  BY <1>1 DEF Units
<1>3. QED
  BY <1>1, <1>2 DEF Units

\* Two adjacent runs of units make one.
LEMMA UnitsJoin ==
    ASSUME NEW f \in Nat, NEW a \in Nat, NEW m \in Nat, NEW n \in Nat
    PROVE  Wrote(Units(f, a, m), f, a + m, n) = Units(f, a, m + n)
<1> DEFINE u == Units(f, a, m)
           v == Units(f, a + m, n)
           r == Units(f, a, m + n)
<1>0. a + m \in Nat /\ m + n \in Nat
  OBVIOUS
<1>1. u \in Seq(Unit) /\ Len(u) = m /\ \A i \in 1..m : u[i] = <<f, a + i>>
  BY UnitsAre
<1>2. v \in Seq(Unit) /\ Len(v) = n /\ \A i \in 1..n : v[i] = <<f, (a + m) + i>>
  BY <1>0, UnitsAre
<1>3. r \in Seq(Unit) /\ Len(r) = m + n /\ \A i \in 1..(m + n) : r[i] = <<f, a + i>>
  BY <1>0, UnitsAre
<1> HIDE DEF u, v, r
<1>4. PICK w : w = u \o v
  OBVIOUS
<1>5. /\ w \in Seq(Unit) /\ Len(w) = m + n
      /\ \A i \in 1..(m + n) : w[i] = IF i <= m THEN u[i] ELSE v[i - m]
  <2>1. /\ w \in Seq(Unit) /\ Len(w) = Len(u) + Len(v)
        /\ \A i \in 1..(Len(u) + Len(v)) : w[i] = IF i <= Len(u) THEN u[i] ELSE v[i - Len(u)]
    BY <1>1, <1>2, <1>4, ConcatProperties
  <2>2. QED
    BY <2>1, <1>1, <1>2
<1>6. ASSUME NEW i \in 1..(m + n) PROVE w[i] = r[i]
  <2>1. CASE i <= m
    <3>1. i \in 1..m
      BY <2>1
    <3>2. QED
      BY <1>1, <1>3, <1>5, <2>1, <3>1
  <2>2. CASE i > m
    <3>1. i - m \in 1..n /\ (a + m) + (i - m) = a + i /\ ~(i <= m)
      BY <2>2
    <3>2. QED
      BY <1>2, <1>3, <1>5, <3>1
  <2>3. QED
    BY <2>1, <2>2
<1>7. w = r
  BY <1>3, <1>5, <1>6, SeqEqual
<1>8. QED
  BY <1>4, <1>7 DEF Wrote, u, v, r

LEMMA RangeIs ==
    ASSUME NEW S, NEW s \in Seq(S)
    PROVE  /\ Range(s) \subseteq S
           /\ \A x : x \in Range(s) <=> \E i \in 1..Len(s) : s[i] = x
           /\ IsInjective(s) <=> \A i, j \in 1..Len(s) : s[i] = s[j] => i = j
  BY DEF Range, IsInjective

LEMMA RangeAppend ==
    ASSUME NEW S, NEW s \in Seq(S), NEW x \in S
    PROVE  /\ Range(Append(s, x)) = Range(s) \cup {x}
           /\ IsInjective(s) /\ x \notin Range(s) => IsInjective(Append(s, x))
<1> DEFINE t == Append(s, x)
<1>1. /\ t \in Seq(S) /\ Len(t) = Len(s) + 1 /\ t[Len(s) + 1] = x
      /\ \A i \in 1..Len(s) : t[i] = s[i]
  BY AppendProperties
<1>2. Len(s) \in Nat
  BY LenProperties
<1> HIDE DEF t
<1>3. Range(t) = Range(s) \cup {x}
  <2>1. ASSUME NEW y \in Range(t) PROVE y \in Range(s) \cup {x}
    BY <1>1, <1>2, RangeIs
  <2>2. ASSUME NEW y \in Range(s) PROVE y \in Range(t)
    BY <1>1, <1>2, RangeIs
  <2>3. x \in Range(t)
    BY <1>1, <1>2, RangeIs
  <2>4. QED
    BY <2>1, <2>2, <2>3
<1>4. ASSUME IsInjective(s), x \notin Range(s) PROVE IsInjective(t)
  BY <1>1, <1>2, <1>4, RangeIs
<1>5. QED
  BY <1>3, <1>4 DEF t

LEMMA RangeTail ==
    ASSUME NEW S, NEW s \in Seq(S), s # << >>
    PROVE  /\ Tail(s) \in Seq(S) /\ Head(s) \in Range(s) /\ Len(Tail(s)) = Len(s) - 1
           /\ Range(Tail(s)) \subseteq Range(s)
           /\ IsInjective(s) => IsInjective(Tail(s)) /\ Head(s) \notin Range(Tail(s))
           /\ Range(s) = Range(Tail(s)) \cup {Head(s)}
<1> DEFINE t == Tail(s)
<1>1. /\ t \in Seq(S) /\ Len(t) = Len(s) - 1 /\ Head(s) = s[1]
      /\ \A i \in 1..Len(t) : t[i] = s[i + 1]
  BY HeadTailProperties
<1>2. Len(s) \in Nat /\ Len(s) > 0
  BY LenProperties, EmptySeq
<1>3. Head(s) \in Range(s)
  BY <1>1, <1>2, RangeIs
<1> HIDE DEF t
<1>4. ASSUME NEW x \in Range(t) PROVE x \in Range(s)
  <2>1. PICK i \in 1..Len(t) : t[i] = x
    BY <1>1, RangeIs
  <2>2. i + 1 \in 1..Len(s) /\ s[i + 1] = x
    BY <1>1, <1>2, <2>1
  <2>3. QED
    BY <2>2, RangeIs
<1>5. ASSUME NEW x \in Range(s) PROVE x \in Range(t) \cup {Head(s)}
  <2>1. PICK i \in 1..Len(s) : s[i] = x
    BY RangeIs
  <2>2. CASE i = 1
    BY <2>1, <2>2, <1>1
  <2>3. CASE i # 1
    <3>1. i - 1 \in 1..Len(t) /\ t[i - 1] = x
      BY <1>1, <1>2, <2>1, <2>3
    <3>2. QED
      BY <1>1, <3>1, RangeIs
  <2>4. QED
    BY <2>2, <2>3
<1>6. ASSUME IsInjective(s) PROVE IsInjective(t) /\ Head(s) \notin Range(t)
  <2>1. \A i, j \in 1..Len(s) : s[i] = s[j] => i = j
    BY <1>6, RangeIs
  <2>2. \A i \in 1..Len(t) : i + 1 \in 1..Len(s) /\ t[i] = s[i + 1]
    BY <1>1, <1>2
  <2>3. \A i, j \in 1..Len(t) : t[i] = t[j] => i = j
    BY <2>1, <2>2
  <2>4. \A i \in 1..Len(t) : t[i] # Head(s)
    <3>1. 1 \in 1..Len(s)
      BY <1>2
    <3>2. QED
      BY <2>1, <2>2, <1>1, <3>1
  <2>5. QED
    BY <1>1, <2>3, <2>4, RangeIs
<1>7. QED
  BY <1>1, <1>3, <1>4, <1>5, <1>6 DEF t

LEMMA RangeRemove ==
    ASSUME NEW S, NEW s \in Seq(S), IsInjective(s), NEW i \in 1..Len(s)
    PROVE  /\ RemoveAt(s, i) \in Seq(S) /\ IsInjective(RemoveAt(s, i))
           /\ Range(RemoveAt(s, i)) = Range(s) \ {s[i]}
<1> DEFINE t == RemoveAt(s, i)
           old(k) == IF k < i THEN k ELSE k + 1
<1>1. Len(s) \in Nat /\ i \in Nat /\ 1 <= i /\ i <= Len(s)
  BY LenProperties
<1>2. /\ SubSeq(s, 1, i - 1) \in Seq(S) /\ Len(SubSeq(s, 1, i - 1)) = i - 1
      /\ \A k \in 1..(i - 1) : SubSeq(s, 1, i - 1)[k] = s[k]
  BY <1>1
<1>3. /\ SubSeq(s, i + 1, Len(s)) \in Seq(S) /\ Len(SubSeq(s, i + 1, Len(s))) = Len(s) - i
      /\ \A k \in 1..(Len(s) - i) : SubSeq(s, i + 1, Len(s))[k] = s[k + i]
  BY <1>1
<1>4. /\ t \in Seq(S) /\ Len(t) = Len(s) - 1
      /\ \A k \in 1..Len(t) : t[k] = s[old(k)]
  <2> DEFINE u == SubSeq(s, 1, i - 1)
             v == SubSeq(s, i + 1, Len(s))
  <2>1. t = u \o v
    BY DEF RemoveAt
  <2> HIDE DEF u, v, t
  <2>2. /\ u \o v \in Seq(S) /\ Len(u \o v) = Len(u) + Len(v)
        /\ \A k \in 1..(Len(u) + Len(v)) :
              (u \o v)[k] = IF k <= Len(u) THEN u[k] ELSE v[k - Len(u)]
    BY <1>2, <1>3, ConcatProperties DEF u, v
  <2>3. /\ Len(u) = i - 1 /\ \A k \in 1..(i - 1) : u[k] = s[k]
        /\ Len(v) = Len(s) - i /\ \A k \in 1..(Len(s) - i) : v[k] = s[k + i]
    BY <1>2, <1>3 DEF u, v
  <2>4. t \in Seq(S) /\ Len(t) = Len(s) - 1
    BY <2>1, <2>2, <2>3, <1>1
  <2>5. ASSUME NEW k \in 1..Len(t) PROVE t[k] = s[old(k)]
    <3>1. CASE k < i
      <4>1. k \in 1..(i - 1) /\ k <= Len(u) /\ k \in 1..(Len(u) + Len(v))
        BY <3>1, <2>3, <2>4, <1>1
      <4>2. QED
        BY <3>1, <4>1, <2>1, <2>2, <2>3
    <3>2. CASE k >= i
      <4>1. /\ k - Len(u) \in 1..(Len(s) - i) /\ ~(k <= Len(u)) /\ k \in 1..(Len(u) + Len(v))
            /\ (k - Len(u)) + i = k + 1 /\ ~(k < i)
        BY <3>2, <2>3, <2>4, <1>1
      <4>2. t[k] = v[k - Len(u)] /\ v[k - Len(u)] = s[k + 1]
        BY <4>1, <2>1, <2>2, <2>3
      <4>3. QED
        BY <4>1, <4>2
    <3>3. QED
      BY <3>1, <3>2, <1>1
  <2>6. QED
    BY <2>4, <2>5
<1>5. \A k, l \in 1..Len(s) : s[k] = s[l] => k = l
  BY RangeIs
<1> HIDE DEF t
<1>6. \A k \in 1..Len(t) : old(k) \in 1..Len(s) /\ old(k) # i
  BY <1>1, <1>4
<1>7. \A k, l \in 1..Len(t) : old(k) = old(l) => k = l
  BY <1>1, <1>4
<1>8. \A k \in 1..Len(s) : k # i => \E l \in 1..Len(t) : old(l) = k
  <2>1. SUFFICES ASSUME NEW k \in 1..Len(s), k # i PROVE \E l \in 1..Len(t) : old(l) = k
    OBVIOUS
  <2>2. CASE k < i
    BY <2>1, <2>2, <1>1, <1>4
  <2>3. CASE k > i
    <3>1. k - 1 \in 1..Len(t) /\ old(k - 1) = k
      BY <2>3, <1>1, <1>4
    <3>2. QED
      BY <3>1
  <2>4. QED
    BY <2>1, <2>2, <2>3, <1>1
<1> HIDE DEF old
<1>9. IsInjective(t)
  <2>1. ASSUME NEW k \in 1..Len(t), NEW l \in 1..Len(t), t[k] = t[l] PROVE k = l
    <3>1. s[old(k)] = s[old(l)] /\ old(k) \in 1..Len(s) /\ old(l) \in 1..Len(s)
      BY <2>1, <1>4, <1>6
    <3>2. old(k) = old(l)
      BY <3>1, <1>5
    <3>3. QED
      BY <3>2, <1>7
  <2>2. QED
    BY <2>1, <1>4, RangeIs
<1>10. ASSUME NEW x \in Range(t) PROVE x \in Range(s) \ {s[i]}
  BY <1>4, <1>5, <1>6, RangeIs
<1>11. ASSUME NEW x \in Range(s) \ {s[i]} PROVE x \in Range(t)
  <2>1. PICK k \in 1..Len(s) : s[k] = x
    BY RangeIs
  <2>2. PICK l \in 1..Len(t) : old(l) = k
    BY <2>1, <1>8
  <2>3. QED
    BY <2>1, <2>2, <1>4, RangeIs
<1>12. QED
  BY <1>4, <1>9, <1>10, <1>11 DEF t

-----------------------------------------------------------------------------
(* Runs of consecutive units.                                              *)

LEMMA NetConstants ==
    /\ Hdr \in Nat /\ Hdr > 0 /\ NameLen \in Nat /\ NameLen > 0
    /\ Cap \in Nat /\ Cap > 0 /\ Backlog \in Nat /\ Backlog > 0
    /\ \A c \in Clients : Messages[c] \in Seq(Nat)
  BY TcpAssumption

\* Every frame has a size.
LEMMA SizeIs ==
    ASSUME NEW c \in Clients, NEW f \in Nat, f <= Len(Messages[c])
    PROVE  /\ BodyLen(c, f) \in Nat /\ Size(c, f) \in Nat /\ Size(c, f) = Hdr + BodyLen(c, f)
           /\ Size(c, f) >= Hdr /\ Size(c, f) > 0
<1>1. BodyLen(c, f) \in Nat
  <2>1. CASE f = 0
    BY <2>1, NetConstants DEF BodyLen
  <2>2. CASE f # 0
    <3>1. Messages[c] \in Seq(Nat) /\ f \in 1..Len(Messages[c])
      BY <2>2, NetConstants
    <3>2. QED
      BY <3>1, <2>2 DEF BodyLen
  <2>3. QED
    BY <2>1, <2>2
<1>2. QED
  BY <1>1, NetConstants DEF Size

\* Starting another frame changes nothing in what is under way.
LEMMA ContiguousGrows ==
    ASSUME NEW c \in Clients, NEW s \in Seq(Unit), NEW f \in Nat, Contiguous(c, s, f)
    PROVE  Contiguous(c, s, f + 1)
<1>1. \A k \in 1..Len(s) : s[k][1] \in Nat
  BY DEF Unit
<1>2. InFrames(c, s, f + 1)
  BY <1>1 DEF Contiguous, InFrames
<1>3. QED
  BY <1>2 DEF Contiguous

LEMMA ContiguousEmpty ==
    ASSUME NEW c \in Clients, NEW f \in Nat
    PROVE  Contiguous(c, << >>, f)
  BY DEF Contiguous, InFrames, Consecutive

\* What is left after a read.
LEMMA ContiguousRest ==
    ASSUME NEW c \in Clients, NEW s \in Seq(Unit), NEW f \in Nat, Contiguous(c, s, f),
           NEW n \in 1..Len(s)
    PROVE  LET t == Rest(s, n)
           IN  /\ t \in Seq(Unit) /\ Len(t) = Len(s) - n /\ Contiguous(c, t, f)
               /\ n = Len(s) => t = << >>
               /\ n < Len(s) => t # << >> /\ t[1] = s[n + 1] /\ t[Len(t)] = s[Len(s)]
<1> DEFINE t == Rest(s, n)
<1>1. Len(s) \in Nat /\ n \in Nat /\ 1 <= n /\ n <= Len(s)
  BY LenProperties
<1>2. /\ t \in Seq(Unit) /\ Len(t) = Len(s) - n
      /\ \A k \in 1..(Len(s) - n) : t[k] = s[k + n]
  BY <1>1 DEF Rest
<1> HIDE DEF t
<1>3. \A k \in 1..Len(t) : k + n \in 1..Len(s) /\ t[k] = s[k + n]
  BY <1>1, <1>2
<1>4. \A j, k \in 1..Len(t) : /\ (k + n) - (j + n) = k - j
                              /\ j <= k => j + n <= k + n
                              /\ k = j + 1 => k + n = (j + n) + 1
  OBVIOUS
<1>5. Contiguous(c, t, f)
  <2>1. ASSUME NEW k \in 1..Len(t)
        PROVE  t[k][1] <= f /\ t[k][2] \in 1..Size(c, t[k][1])
    BY <1>3 DEF Contiguous, InFrames, Consecutive
  <2>2. ASSUME NEW j \in 1..Len(t), NEW k \in 1..Len(t),
               j <= k, t[j][2] + (k - j) <= Size(c, t[j][1])
        PROVE  t[k] = <<t[j][1], t[j][2] + (k - j)>>
    <3>1. \A x, y \in 1..Len(s) :
             x <= y /\ s[x][2] + (y - x) <= Size(c, s[x][1])
                => s[y] = <<s[x][1], s[x][2] + (y - x)>>
      BY DEF Contiguous, InFrames, Consecutive
    <3>2. /\ j + n \in 1..Len(s) /\ k + n \in 1..Len(s) /\ t[j] = s[j + n] /\ t[k] = s[k + n]
          /\ (k + n) - (j + n) = k - j /\ j + n <= k + n
      BY <1>3, <1>4, <2>2
    <3>3. QED
      BY <2>2, <3>1, <3>2
  <2>3. ASSUME NEW j \in 1..Len(t), NEW k \in 1..Len(t),
               k = j + 1, t[j][2] = Size(c, t[j][1])
        PROVE  t[k] = <<t[j][1] + 1, 1>>
    <3>1. /\ j + n \in 1..Len(s) /\ k + n \in 1..Len(s) /\ t[j] = s[j + n] /\ t[k] = s[k + n]
          /\ k + n = (j + n) + 1
      BY <1>3, <1>4, <2>3
    <3>2. QED
      BY <2>3, <3>1 DEF Contiguous, InFrames, Consecutive
  <2>4. QED
    BY <2>1, <2>2, <2>3 DEF Contiguous, InFrames, Consecutive
<1>6. n = Len(s) => t = << >>
  BY <1>1, <1>2, EmptySeq
<1>7. n < Len(s) => t # << >> /\ t[1] = s[n + 1] /\ t[Len(t)] = s[Len(s)]
  <2>1. ASSUME n < Len(s) PROVE 1 \in 1..Len(t) /\ Len(t) \in 1..Len(t) /\ Len(t) + n = Len(s)
    BY <2>1, <1>1, <1>2
  <2>2. QED
    BY SMTT(30), <2>1, <1>1, <1>2
<1>8. QED
  BY <1>2, <1>5, <1>6, <1>7 DEF t

\* What is read, if it stays within the frame that comes first, and what comes
\* next.
FirstRead(c, s, n, g, r) ==
    /\ Got(s, n) = Units(g, r, n) /\ s[n] = <<g, r + n>>
    /\ n < Len(s) => s[n + 1] = After(c, <<g, r + n>>)

LEMMA ContiguousRead ==
    ASSUME NEW c \in Clients, NEW s \in Seq(Unit), NEW f \in Nat, Contiguous(c, s, f),
           NEW n \in 1..Len(s), NEW g \in Nat, NEW r \in Nat, s[1] = <<g, r + 1>>,
           Size(c, g) \in Nat, r + n <= Size(c, g)
    PROVE  FirstRead(c, s, n, g, r)
<1>1. Len(s) \in Nat /\ n \in Nat /\ 1 <= n /\ n <= Len(s) /\ 1 \in 1..Len(s)
  BY LenProperties
<1>2. \A k \in 1..Len(s) : r + k <= Size(c, g) => s[k] = <<g, r + k>>
  <2>1. SUFFICES ASSUME NEW k \in 1..Len(s), r + k <= Size(c, g) PROVE s[k] = <<g, r + k>>
    OBVIOUS
  <2>2. s[1][1] = g /\ s[1][2] = r + 1 /\ (r + 1) + (k - 1) = r + k /\ 1 <= k
    OBVIOUS
  <2>3. s[k] = <<s[1][1], s[1][2] + (k - 1)>>
    BY <1>1, <2>1, <2>2 DEF Contiguous, InFrames, Consecutive
  <2>4. QED
    BY <2>2, <2>3
<1>3. s[n] = <<g, r + n>>
  BY <1>2
<1>5. ASSUME n < Len(s) PROVE s[n + 1] = After(c, <<g, r + n>>)
  <2>1. n + 1 \in 1..Len(s)
    BY <1>1, <1>5
  <2>2. CASE r + n < Size(c, g)
    <3>1. r + (n + 1) <= Size(c, g) /\ r + (n + 1) = (r + n) + 1
      BY <2>2, <1>1
    <3>2. QED
      BY <1>2, <2>1, <2>2, <3>1 DEF After
  <2>3. CASE r + n = Size(c, g)
    <3>1. s[n + 1] = <<g + 1, 1>>
      BY <1>3, <2>1, <2>3 DEF Contiguous, InFrames, Consecutive
    <3>2. QED
      BY <2>3, <3>1 DEF After
  <2>4. QED
    BY <2>2, <2>3, <1>1
<1>6. Got(s, n) = Units(g, r, n)
  <2>1. /\ Got(s, n) \in Seq(Unit) /\ Len(Got(s, n)) = n
        /\ \A k \in 1..n : Got(s, n)[k] = s[k]
    BY <1>1 DEF Got
  <2>2. /\ Units(g, r, n) \in Seq(Unit) /\ Len(Units(g, r, n)) = n
        /\ \A k \in 1..n : Units(g, r, n)[k] = <<g, r + k>>
    <3>1. n \in Nat
      BY <1>1
    <3>2. QED
      BY <3>1, UnitsAre
  <2>3. \A k \in 1..n : k \in 1..Len(s) /\ r + k <= Size(c, g)
    BY <1>1
  <2>4. QED
    <3>1. PICK x : x = Got(s, n)
      OBVIOUS
    <3>2. PICK y : y = Units(g, r, n)
      OBVIOUS
    <3>3. \A k \in 1..n : x[k] = y[k]
      BY <1>2, <2>1, <2>2, <2>3, <3>1, <3>2
    <3>4. x = y
      BY <2>1, <2>2, <3>1, <3>2, <3>3, SeqEqual
    <3>5. QED
      BY <3>1, <3>2, <3>4
<1>7. QED
  BY <1>3, <1>5, <1>6 DEF FirstRead

\* What there is after a write.
LEMMA ContiguousWrite ==
    ASSUME NEW c \in Clients, NEW s \in Seq(Unit), NEW f \in Nat, Contiguous(c, s, f),
           \A g \in 0..f : Size(c, g) \in Nat,
           NEW a \in Nat, NEW m \in Nat, m > 0, a + m <= Size(c, f),
           s # << >> => After(c, s[Len(s)]) = <<f, a + 1>>
    PROVE  LET t == Wrote(s, f, a, m)
           IN  /\ t \in Seq(Unit) /\ Len(t) = Len(s) + m /\ Contiguous(c, t, f)
               /\ t # << >> /\ t[Len(t)] = <<f, a + m>>
               /\ t[1] = IF s = << >> THEN <<f, a + 1>> ELSE s[1]
<1> DEFINE u == Units(f, a, m)
<1>0. PICK L \in Nat : L = Len(s)
  BY LenProperties
<1>1. /\ u \in Seq(Unit) /\ Len(u) = m
      /\ \A i \in 1..m : u[i] = <<f, a + i>>
  BY UnitsAre
<1>2. L \in Nat /\ m \in Nat /\ m > 0 /\ Len(s) = L
  BY <1>0
<1> HIDE DEF u
<1> DEFINE t == Wrote(s, f, a, m)
<1>20. t = s \o u
  BY DEF Wrote, u
<1> HIDE DEF t
<1>3. /\ t \in Seq(Unit) /\ Len(t) = L + m
      /\ \A k \in 1..L : t[k] = s[k]
      /\ \A k \in (L + 1)..(L + m) : t[k] = <<f, a + (k - L)>>
  <2>1. /\ t \in Seq(Unit) /\ Len(t) = L + m
        /\ \A k \in 1..(L + m) : t[k] = IF k <= L THEN s[k] ELSE u[k - L]
    <3>1. /\ t \in Seq(Unit) /\ Len(t) = Len(s) + Len(u)
          /\ \A k \in 1..(Len(s) + Len(u)) : t[k] = IF k <= Len(s) THEN s[k] ELSE u[k - Len(s)]
      BY <1>1, <1>20, ConcatProperties
    <3>2. QED
      BY <3>1, <1>1, <1>2
  <2>2. \A k \in (L + 1)..(L + m) : k - L \in 1..m /\ ~(k <= L) /\ k \in 1..(L + m)
    BY <1>2
  <2>3. \A k \in 1..L : k \in 1..(L + m)
    BY <1>2
  <2>4. ASSUME NEW k \in (L + 1)..(L + m) PROVE t[k] = <<f, a + (k - L)>>
    <3>1. t[k] = u[k - L] /\ k - L \in 1..m
      BY <2>1, <2>2
    <3>2. QED
      BY <1>1, <3>1
  <2>5. \A k \in 1..L : t[k] = s[k]
    BY <1>2, <2>1, <2>3
  <2>6. QED
    BY <2>1, <2>4, <2>5
<1>4. ASSUME s # << >>
      PROVE  /\ L > 0 /\ s[L] \in Unit /\ s[L][1] \in 0..f /\ s[L][2] \in 1..Size(c, s[L][1])
             /\ s[L][2] < Size(c, s[L][1]) => s[L] = <<f, a>>
             /\ s[L][2] = Size(c, s[L][1]) => a = 0 /\ s[L][1] + 1 = f
  <2>1. L \in 1..L /\ s[L] \in Unit
    <3>1. L \in 1..L
      BY <1>2, <1>4, EmptySeq
    <3>2. QED
      BY <3>1, <1>2, ElementOfSeq
  <2>2. s[L][1] \in 0..f /\ s[L][2] \in 1..Size(c, s[L][1])
    BY <1>2, <2>1 DEF Contiguous, InFrames, Unit
  <2>3. After(c, s[L]) = <<f, a + 1>>
    BY <1>2, <1>4
  <2>4. PICK x \in Nat, y \in Nat : s[L] = <<x, y>>
    BY <2>1, UnitIs
  <2>5. ASSUME y < Size(c, x) PROVE x = f /\ y = a
    <3>1. After(c, s[L]) = <<x, y + 1>>
      BY <2>4, <2>5 DEF After
    <3>2. x = f /\ y + 1 = a + 1
      BY <2>3, <3>1
    <3>3. QED
      BY <3>2
  <2>6. ASSUME y = Size(c, x) PROVE a = 0 /\ x + 1 = f
    <3>1. After(c, s[L]) = <<x + 1, 1>>
      BY <2>4, <2>6, <2>2 DEF After
    <3>2. x + 1 = f /\ 1 = a + 1
      BY <2>3, <3>1
    <3>3. QED
      BY <3>2
  <2>7. QED
    BY <1>2, <2>1, <2>2, <2>4, <2>5, <2>6
<1>5. Contiguous(c, t, f)
  <2>0. ASSUME NEW k \in 1..Len(t)
        PROVE  k \in Nat /\ k \in 1..(L + m) /\ (k > L => k \in (L + 1)..(L + m))
    BY <1>2, <1>3
  <2>1. ASSUME NEW k \in 1..Len(t)
        PROVE  t[k][1] <= f /\ t[k][2] \in 1..Size(c, t[k][1])
    <3>1. CASE k <= L
      BY <3>1, <1>2, <1>3 DEF Contiguous, InFrames, Consecutive
    <3>2. CASE k > L
      <4>1. k \in (L + 1)..(L + m)
        BY <3>2, <2>0
      <4>2. a + (k - L) \in 1..(a + m) /\ a + m \in Nat
        BY <1>2, <4>1
      <4>3. a + (k - L) \in 1..Size(c, f)
        BY <4>2
      <4>4. t[k] = <<f, a + (k - L)>>
        BY <4>1, <1>3
      <4>5. QED
        BY <4>3, <4>4
    <3>3. QED
      BY <3>1, <3>2, <1>2, <1>3
  <2>2. ASSUME NEW j \in 1..Len(t), NEW k \in 1..Len(t),
               j <= k, t[j][2] + (k - j) <= Size(c, t[j][1])
        PROVE  t[k] = <<t[j][1], t[j][2] + (k - j)>>
    <3>1. CASE k <= L
      <4>1. j \in 1..L /\ k \in 1..L /\ t[j] = s[j] /\ t[k] = s[k]
        BY <2>2, <3>1, <1>2, <1>3
      <4>2. QED
        BY <1>2, <2>2, <4>1 DEF Contiguous, InFrames, Consecutive
    <3>2. CASE j > L
      <4>0. j \in (L + 1)..(L + m) /\ k \in (L + 1)..(L + m)
        BY <2>0, <2>2, <3>2, <1>2
      <4>1. t[j] = <<f, a + (j - L)>> /\ t[k] = <<f, a + (k - L)>>
        BY <4>0, <1>3
      <4>2. a + (j - L) + (k - j) = a + (k - L)
        BY <4>0, <1>2
      <4>3. QED
        BY <4>1, <4>2
    <3>3. CASE j <= L /\ k > L
      <4>1. PICK x \in Nat, y \in Nat : s[j] = <<x, y>>
        <5>1. j \in 1..Len(s)
          BY <3>3, <1>2, <1>3
        <5>2. s[j] \in Unit
          BY <5>1, ElementOfSeq
        <5>3. QED
          BY SMTT(30), <5>2, UnitIs
      <4>20. j \in 1..L /\ L \in 1..L /\ k \in (L + 1)..(L + m)
        BY <3>3, <2>0, <1>2
      <4>2. j \in 1..L /\ L \in 1..L /\ s # << >> /\ t[j] = <<x, y>>
        BY SMTT(30), <4>20, <4>1, <1>2, <1>3, EmptySeq
      <4>3. x \in 0..f /\ Size(c, x) \in Nat
        BY <1>2, <4>1, <4>2 DEF Contiguous, InFrames, Consecutive
      <4>4. y + (k - j) <= Size(c, x)
        BY <2>2, <4>2
      <4>5. y + (L - j) < Size(c, x) /\ y + (L - j) \in Nat
        <5>1. PICK z \in Nat : z = Size(c, x)
          BY <4>3
        <5>2. y + (k - j) <= z
          BY <4>4, <5>1
        <5>3. L \in Nat /\ j \in 1..L /\ k \in Nat /\ k > L
          BY <4>20
        <5>4. y + (L - j) < z /\ y + (L - j) \in Nat
          BY <5>2, <5>3
        <5>5. QED
          BY <5>1, <5>4
      <4>6. s[L] = <<x, y + (L - j)>>
        <5>1. j <= L /\ s[j][2] + (L - j) <= Size(c, s[j][1])
          BY <4>1, <4>3, <4>5, <4>20, <1>2
        <5>2. s[L] = <<s[j][1], s[j][2] + (L - j)>>
          BY <1>2, <4>2, <5>1 DEF Contiguous, InFrames, Consecutive
        <5>3. QED
          BY <4>1, <5>2
      <4>7. x = f /\ y + (L - j) = a
        BY <1>4, <4>2, <4>5, <4>6
      <4>8. t[k] = <<f, a + (k - L)>> /\ a + (k - L) = y + (k - j)
        <5>1. t[k] = <<f, a + (k - L)>>
          BY <1>3, <4>20
        <5>2. L \in Nat /\ j \in Nat /\ k \in Nat
          BY <4>20
        <5>3. QED
          BY <4>7, <5>1, <5>2
      <4>9. QED
        BY <4>2, <4>7, <4>8
    <3>4. QED
      BY <3>1, <3>2, <3>3, <1>2, <1>3
  <2>3. ASSUME NEW j \in 1..Len(t), NEW k \in 1..Len(t),
               k = j + 1, t[j][2] = Size(c, t[j][1])
        PROVE  t[k] = <<t[j][1] + 1, 1>>
    <3>1. CASE k <= L
      <4>1. j \in 1..L /\ k \in 1..L /\ t[j] = s[j] /\ t[k] = s[k]
        BY <2>3, <3>1, <1>2, <1>3
      <4>2. QED
        BY <1>2, <2>3, <4>1 DEF Contiguous, InFrames, Consecutive
    <3>2. CASE j > L
      <4>0. j \in (L + 1)..(L + m) /\ k \in (L + 1)..(L + m)
        BY <2>0, <2>3, <3>2, <1>2
      <4>1. t[j] = <<f, a + (j - L)>> /\ a + (j - L) < a + m /\ a + (j - L) \in Nat
        BY <2>3, <4>0, <1>2, <1>3
      <4>2. a + (j - L) # Size(c, f)
        <5>1. PICK z \in Nat : z = Size(c, f)
          BY f \in 0..f
        <5>2. a + m <= z
          BY <5>1
        <5>3. PICK q \in Nat : q = a + (j - L) /\ q < a + m
          BY <4>1
        <5>4. QED
          BY <5>1, <5>2, <5>3
      <4>3. QED
        BY <2>3, <4>1, <4>2
    <3>3. CASE j = L
      <4>1. s # << >> /\ t[j] = s[L] /\ t[k] = <<f, a + 1>>
        BY <2>3, <3>3, <1>2, <1>3, EmptySeq
      <4>2. a = 0 /\ s[L][1] + 1 = f
        BY <1>4, <2>3, <4>1
      <4>3. a + 1 = 1
        BY <4>2
      <4>4. QED
        BY <4>1, <4>2, <4>3
    <3>4. QED
      BY <2>3, <3>1, <3>2, <3>3, <1>2, <1>3
  <2>4. QED
    BY <2>1, <2>2, <2>3 DEF Contiguous, InFrames, Consecutive
<1>6. t # << >> /\ t[Len(t)] = <<f, a + m>>
  <2>1. L + m \in (L + 1)..(L + m) /\ a + ((L + m) - L) = a + m
    BY <1>2
  <2>2. QED
    BY <2>1, <1>2, <1>3, EmptySeq
<1>7. t[1] = IF s = << >> THEN <<f, a + 1>> ELSE s[1]
  <2>1. CASE s = << >>
    BY <2>1, <1>2, <1>3
  <2>2. CASE s # << >>
    BY <2>2, <1>2, <1>3, <1>4
  <2>3. QED
    BY <2>1, <2>2
<1>8. QED
  BY <1>2, <1>3, <1>5, <1>6, <1>7 DEF t

-----------------------------------------------------------------------------
(* What the invariant says of one client, and what leaves it true.         *)

LEMMA ClientFacts ==
    ASSUME NetInv, NEW c \in Clients
    PROVE  /\ client[c] \in [at : {"start", "write", "open", "gone"}, frame : Nat, pos : Nat]
           /\ socket[c] \in Seq(Unit) /\ Len(socket[c]) \in Nat
           /\ written[c] \in Nat /\ written[c] <= Len(Messages[c]) /\ Len(Messages[c]) \in Nat
           /\ inbox[c] \in Seq(Nat) /\ Len(inbox[c]) \in Nat
           /\ \A g \in 0..written[c] : /\ Size(c, g) \in Nat /\ Size(c, g) > 0 /\ Size(c, g) >= Hdr
                                       /\ BodyLen(c, g) \in Nat /\ Size(c, g) = Hdr + BodyLen(c, g)
<1>1. /\ client[c] \in [at : {"start", "write", "open", "gone"}, frame : Nat, pos : Nat]
      /\ socket[c] \in Seq(Unit) /\ written[c] \in Nat /\ inbox[c] \in Seq(Nat)
  BY DEF NetInv, NetShape, Unit
<1>2. written[c] <= Len(Messages[c])
  BY DEF NetInv, WriterOK
<1>3. Len(Messages[c]) \in Nat /\ Len(socket[c]) \in Nat /\ Len(inbox[c]) \in Nat
  <2>1. Messages[c] \in Seq(Nat)
    BY NetConstants
  <2>2. QED
    BY <1>1, <2>1, LenProperties
<1>4. \A g \in 0..written[c] : g \in Nat /\ g <= Len(Messages[c])
  BY <1>1, <1>2, <1>3
<1>5. QED
  BY <1>1, <1>2, <1>3, <1>4, SizeIs

LEMMA ServerFacts ==
    ASSUME NetShape
    PROVE  \/ server.at = "wait" /\ server = Waiting
           \/ /\ server.at = "read" /\ server.from \in Clients /\ server.naming \in BOOLEAN
              /\ server.want \in Nat /\ server.got \in Seq(Unit) /\ server.header \in BOOLEAN
              /\ server \in [at : {"read"}, from : Clients, naming : BOOLEAN,
                             want : Nat, got : Seq(Unit), header : BOOLEAN]
<1>1. CASE server = Waiting
  BY <1>1 DEF Waiting
<1>2. CASE server \in [at : {"read"}, from : Clients, naming : BOOLEAN,
                       want : Nat, got : Seq(Unit), header : BOOLEAN]
  BY <1>2
<1>3. QED
  BY <1>1, <1>2 DEF NetShape, Unit

\* A client that a step leaves alone.
LEMMA Kept ==
    ASSUME NEW c \in Clients, WriterOK(c), StreamOK(c), JoinOK(c),
           client'[c] = client[c], socket'[c] = socket[c], written'[c] = written[c],
           hungup \subseteq hungup', c \notin hungup' => ToRead(c)' = ToRead(c)
    PROVE  WriterOK(c)' /\ StreamOK(c)' /\ JoinOK(c)'
<1>1. WriterOK(c)'
  BY DEF WriterOK
<1>2. ToWrite(c)' = ToWrite(c)
  BY DEF ToWrite
<1>3. StreamOK(c)'
  BY <1>2 DEF StreamOK
<1>4. JoinOK(c)'
  BY <1>2 DEF JoinOK
<1>5. QED
  BY <1>1, <1>3, <1>4

LEMMA ToReadKept ==
    ASSUME NEW c \in Clients, inbox' = inbox, server' = server,
           c \in Range(chs') <=> c \in Range(chs)
    PROVE  ToRead(c)' = ToRead(c)
  BY DEF ToRead, Frame, Base

LEMMA ToReadOther ==
    ASSUME NEW c \in Clients, inbox'[c] = inbox[c],
           server.at = "read" => server.from # c, server'.at = "read" => server'.from # c,
           c \in Range(chs') <=> c \in Range(chs)
    PROVE  ToRead(c)' = ToRead(c)
  BY DEF ToRead

-----------------------------------------------------------------------------
(* The steps of a client.                                                  *)

LEMMA NetInitInv == NetInit => NetInv
<1> SUFFICES ASSUME NetInit PROVE NetInv
  OBVIOUS
<1> USE DEF NetInit
<1>1. NetShape
  BY DEF NetShape, Waiting
<1>2. PlacesOK
  <2>1. Range(backlog) = {} /\ Range(chs) = {} /\ IsInjective(backlog) /\ IsInjective(chs)
    BY DEF Range, IsInjective
  <2>2. Len(backlog) <= Backlog
    BY NetConstants
  <2>3. server.at # "read"
    BY DEF Waiting
  <2>4. QED
    BY <2>1, <2>2, <2>3 DEF PlacesOK
<1>3. ReaderOK
  BY DEF ReaderOK, Waiting
<1>4. ASSUME NEW c \in Clients PROVE WriterOK(c) /\ StreamOK(c) /\ JoinOK(c)
  <2>1. 0 <= Len(Messages[c])
    <3>1. Messages[c] \in Seq(Nat)
      BY NetConstants
    <3>2. QED
      BY <3>1, LenProperties
  <2>2. Size(c, 0) \in Nat /\ Size(c, 0) > 0
    BY <2>1, SizeIs
  <2>3. WriterOK(c)
    BY <2>1, <2>2 DEF WriterOK
  <2>4. StreamOK(c)
    BY ContiguousEmpty, NetConstants DEF StreamOK
  <2>5. ToRead(c) = <<0, 1>>
    BY DEF ToRead, Waiting, Range
  <2>6. ToWrite(c) = <<0, 1>>
    BY <2>2 DEF ToWrite, After
  <2>7. QED
    BY <2>3, <2>4, <2>5, <2>6 DEF JoinOK
<1>5. QED
  BY <1>1, <1>2, <1>3, <1>4 DEF NetInv

\* Places are kept by a step that changes neither the queues nor the server, and
\* takes nobody back to the start.
LEMMA PlacesKept ==
    ASSUME NetInv, UNCHANGED <<backlog, chs, hungup, inbox, server>>, NetShape',
           \A c \in Clients : client'[c].at = "start" => client[c].at = "start"
    PROVE  PlacesOK'
<1>1. server.at = "read" => server.from \in Clients
  BY ServerFacts DEF NetInv
<1>2. QED
  BY <1>1 DEF NetInv, PlacesOK

LEMMA ConnectInv ==
    ASSUME NetInv, NEW c \in Clients, Connect(c)
    PROVE  NetInv'
<1>1. /\ client[c].at = "start" /\ Len(backlog) < Backlog
      /\ UNCHANGED <<socket, written, listening, hungup, chs, server, inbox>>
  BY DEF Connect
<1>2. \/ /\ client' = [client EXCEPT ![c].at = "write"] /\ backlog' = Append(backlog, c)
      \/ /\ client' = [client EXCEPT ![c].at = "gone"] /\ backlog' = backlog
  BY DEF Connect
<1>3. /\ client'[c].at \in {"write", "gone"} /\ client'[c].frame = client[c].frame
      /\ client'[c].pos = client[c].pos
      /\ \A d \in Clients : d # c => client'[d] = client[d]
  BY <1>2, ClientFacts DEF NetInv, NetShape
<1>4. NetShape'
  <2>1. client' \in [Clients -> [at : {"start", "write", "open", "gone"}, frame : Nat, pos : Nat]]
    <3>1. client \in [Clients -> [at : {"start", "write", "open", "gone"}, frame : Nat, pos : Nat]]
      BY DEF NetInv, NetShape
    <3>2. CASE client' = [client EXCEPT ![c].at = "write"]
      BY <3>1, <3>2
    <3>3. CASE client' = [client EXCEPT ![c].at = "gone"]
      BY <3>1, <3>3
    <3>4. QED
      BY <1>2, <3>2, <3>3
  <2>2. backlog' \in Seq(Clients)
    <3>1. backlog \in Seq(Clients)
      BY DEF NetInv, NetShape
    <3>2. Append(backlog, c) \in Seq(Clients)
      BY <3>1, AppendProperties
    <3>3. QED
      BY <1>2, <3>1, <3>2
  <2>3. QED
    BY <1>1, <2>1, <2>2 DEF NetInv, NetShape, Waiting
<1>5. PlacesOK'
  <2>1. CASE backlog' = backlog
    BY <1>1, <1>3, <1>4, <2>1, PlacesKept
  <2>2. CASE backlog' = Append(backlog, c)
    <3>1. backlog \in Seq(Clients) /\ Len(backlog) \in Nat
      BY LenProperties DEF NetInv, NetShape
    <3>2. c \notin hungup /\ c \notin Range(backlog) /\ c \notin Range(chs)
      BY <1>1 DEF NetInv, PlacesOK
    <3>3. /\ Range(backlog') = Range(backlog) \cup {c} /\ IsInjective(backlog')
          /\ Len(backlog') <= Backlog
      <4>1. IsInjective(backlog)
        BY DEF NetInv, PlacesOK
      <4>2. Range(Append(backlog, c)) = Range(backlog) \cup {c} /\ IsInjective(Append(backlog, c))
        BY <3>1, <3>2, <4>1, RangeAppend
      <4>3. Len(Append(backlog, c)) = Len(backlog) + 1
        BY <3>1, AppendProperties
      <4>4. QED
        BY <1>1, <2>2, <3>1, <4>2, <4>3, NetConstants
    <3>4. server.at = "read" => server.from \in Clients /\ server.from # c
      BY <1>1, ServerFacts DEF NetInv, PlacesOK
    <3>5. QED
      BY <1>1, <1>3, <3>2, <3>3, <3>4 DEF NetInv, PlacesOK
  <2>3. QED
    BY <1>2, <2>1, <2>2
<1>6. ReaderOK'
  BY <1>1 DEF NetInv, ReaderOK, Frame, Base
<1>7. ASSUME NEW d \in Clients PROVE WriterOK(d)' /\ StreamOK(d)' /\ JoinOK(d)'
  <2>1. ToRead(d)' = ToRead(d)
    BY <1>1, ToReadKept
  <2>2. CASE d # c
    BY <1>1, <1>3, <2>1, <2>2, Kept DEF NetInv
  <2>3. CASE d = c
    <3>1. ToWrite(c)' = ToWrite(c)
      BY <1>3 DEF ToWrite
    <3>2. WriterOK(c)'
      <4>1. client[c].pos = 0 /\ written[c] = 0
        BY <1>1 DEF NetInv, WriterOK
      <4>2. Size(c, 0) > 0
        BY <4>1, ClientFacts
      <4>3. WriterOK(c)
        BY DEF NetInv
      <4>4. QED
        BY <1>1, <1>3, <4>1, <4>2, <4>3 DEF WriterOK
    <3>3. StreamOK(c)' /\ JoinOK(c)'
      BY <1>1, <2>1, <2>3, <3>1 DEF NetInv, StreamOK, JoinOK
    <3>4. QED
      BY <2>3, <3>2, <3>3
  <2>4. QED
    BY <2>2, <2>3
<1>8. QED
  BY <1>4, <1>5, <1>6, <1>7 DEF NetInv

LEMMA LeaveInv ==
    ASSUME NetInv, NEW c \in Clients, client[c].at # "start", Leave(c)
    PROVE  NetInv'
<1>1. /\ client' = [client EXCEPT ![c].at = "gone"]
      /\ UNCHANGED <<socket, written, listening, backlog, hungup, chs, server, inbox>>
  BY DEF Leave
<1>2. /\ client'[c].at = "gone" /\ client'[c].frame = client[c].frame
      /\ client'[c].pos = client[c].pos
      /\ \A d \in Clients : d # c => client'[d] = client[d]
  BY <1>1, ClientFacts DEF NetInv, NetShape
<1>3. NetShape'
  BY <1>1 DEF NetInv, NetShape
<1>4. PlacesOK'
  BY <1>1, <1>2, <1>3, PlacesKept
<1>5. ReaderOK'
  BY <1>1 DEF NetInv, ReaderOK, Frame, Base
<1>6. ASSUME NEW d \in Clients PROVE WriterOK(d)' /\ StreamOK(d)' /\ JoinOK(d)'
  <2>1. ToRead(d)' = ToRead(d)
    BY <1>1, ToReadKept
  <2>2. CASE d # c
    BY <1>1, <1>2, <2>1, <2>2, Kept DEF NetInv
  <2>3. CASE d = c
    <3>1. ToWrite(c)' = ToWrite(c)
      BY <1>2 DEF ToWrite
    <3>2. WriterOK(c)'
      BY <1>1, <1>2 DEF NetInv, WriterOK
    <3>3. StreamOK(c)' /\ JoinOK(c)'
      BY <1>1, <2>1, <2>3, <3>1 DEF NetInv, StreamOK, JoinOK
    <3>4. QED
      BY <2>3, <3>2, <3>3
  <2>4. QED
    BY <2>2, <2>3
<1>7. QED
  BY <1>3, <1>4, <1>5, <1>6 DEF NetInv

LEMMA StartMessageInv ==
    ASSUME NetInv, NEW c \in Clients, StartMessage(c)
    PROVE  NetInv'
<1>1. /\ client[c].at = "open" /\ written[c] < Len(Messages[c])
      /\ written' = [written EXCEPT ![c] = @ + 1]
      /\ client' = [client EXCEPT ![c] = [at |-> "write", frame |-> written[c] + 1, pos |-> 0]]
      /\ UNCHANGED <<socket, listening, backlog, hungup, chs, server, inbox>>
  BY DEF StartMessage
<1>2. /\ client'[c].at = "write" /\ client'[c].frame = written[c] + 1 /\ client'[c].pos = 0
      /\ written'[c] = written[c] + 1
      /\ \A d \in Clients : d # c => client'[d] = client[d] /\ written'[d] = written[d]
  BY <1>1 DEF NetInv, NetShape
<1>3. NetShape'
  <2>1. written[c] + 1 \in Nat
    BY ClientFacts
  <2>2. client' \in [Clients -> [at : {"start", "write", "open", "gone"}, frame : Nat, pos : Nat]]
    BY <1>1, <2>1 DEF NetInv, NetShape
  <2>3. written' \in [Clients -> Nat]
    BY <1>1, <2>1 DEF NetInv, NetShape
  <2>4. QED
    BY <1>1, <2>2, <2>3 DEF NetInv, NetShape, Waiting
<1>4. PlacesOK'
  BY <1>1, <1>2, <1>3, PlacesKept
<1>5. ReaderOK'
  <2>1. \A d \in Clients : written[d] \in Nat /\ written'[d] >= written[d]
    BY <1>2, ClientFacts
  <2>2. server.at = "read" => server.from \in Clients /\ Frame \in Nat
    BY ServerFacts, ClientFacts DEF NetInv, Frame
  <2>3. Frame' = Frame /\ Base' = Base
    BY <1>1 DEF Frame, Base
  <2>4. \A d \in Clients : Frame \in Nat /\ Frame <= written[d] => Frame <= written'[d]
    BY SMTT(30), <1>2, ClientFacts
  <2>5. QED
    BY <1>1, <2>2, <2>3, <2>4 DEF NetInv, ReaderOK
<1>6. ASSUME NEW d \in Clients PROVE WriterOK(d)' /\ StreamOK(d)' /\ JoinOK(d)'
  <2>1. ToRead(d)' = ToRead(d)
    BY <1>1, ToReadKept
  <2>2. CASE d # c
    BY <1>1, <1>2, <2>1, <2>2, Kept DEF NetInv
  <2>3. CASE d = c
    <3>1. PICK f \in Nat : f = written[c] /\ f + 1 <= Len(Messages[c])
      BY <1>1, ClientFacts
    <3>2. /\ Size(c, f) \in Nat /\ Size(c, f) > 0
          /\ Size(c, f + 1) \in Nat /\ Size(c, f + 1) > 0
      <4>1. f + 1 \in Nat /\ f <= Len(Messages[c])
        BY <3>1, ClientFacts
      <4>2. Size(c, f) \in Nat /\ Size(c, f) > 0
        BY <4>1, SizeIs
      <4>3. Size(c, f + 1) \in Nat /\ Size(c, f + 1) > 0
        BY <3>1, <4>1, SizeIs
      <4>4. QED
        BY <4>2, <4>3
    <3>3. client[c].frame = f /\ client[c].pos = Size(c, f)
      BY <1>1, <3>1 DEF NetInv, WriterOK
    <3>4. ToWrite(c) = <<f + 1, 1>>
      BY <3>2, <3>3 DEF ToWrite, After
    <3>5. ToWrite(c)' = <<f + 1, 1>>
      BY <1>2, <3>1, <3>2 DEF ToWrite, After
    <3>6. WriterOK(c)'
      BY <1>1, <1>2, <3>1, <3>2 DEF WriterOK
    <3>7. Contiguous(c, socket[c], f + 1)
      <4>1. Contiguous(c, socket[c], f) /\ socket[c] \in Seq(Unit)
        BY <3>1, ClientFacts DEF NetInv, StreamOK
      <4>2. QED
        BY <4>1, ContiguousGrows
    <3>8. StreamOK(c)'
      BY <1>1, <1>2, <3>1, <3>4, <3>5, <3>7 DEF NetInv, StreamOK
    <3>9. JoinOK(c)'
      BY <1>1, <2>1, <2>3, <3>4, <3>5 DEF NetInv, JoinOK
    <3>10. QED
      BY <2>3, <3>6, <3>8, <3>9
  <2>4. QED
    BY <2>2, <2>3
<1>7. QED
  BY <1>3, <1>4, <1>5, <1>6 DEF NetInv

LEMMA WriteSomeInv ==
    ASSUME NetInv, NEW c \in Clients, WriteSome(c)
    PROVE  NetInv'
<1>1. PICK f \in Nat, a \in Nat : f = client[c].frame /\ a = client[c].pos /\ f = written[c]
  BY ClientFacts DEF NetInv, WriterOK
<1>2. PICK size \in Nat : size = Size(c, f) /\ size > 0 /\ size >= Hdr
  BY <1>1, ClientFacts
<1>3. PICK m \in 1..(Cap - Len(socket[c])) :
        /\ client[c].at = "write"
        /\ a + m <= size
        /\ socket' = [socket EXCEPT ![c] = @ \o Units(f, a, m)]
        /\ client' = [client EXCEPT ![c].pos = a + m,
                                    ![c].at = IF a + m = size THEN "open" ELSE "write"]
        /\ UNCHANGED <<written, listening, backlog, hungup, chs, server, inbox>>
  <2>1. PICK m \in 1..(Cap - Len(socket[c])) :
          /\ client[c].at = "write"
          /\ a + m <= IF a < Hdr THEN Hdr ELSE size
          /\ socket' = [socket EXCEPT ![c] = @ \o Units(f, a, m)]
          /\ client' = [client EXCEPT ![c].pos = a + m,
                                      ![c].at = IF a + m = size THEN "open" ELSE "write"]
          /\ UNCHANGED <<written, listening, backlog, hungup, chs, server, inbox>>
    BY <1>1, <1>2 DEF WriteSome, Size
  <2>2. a + m <= size
    <3>1. m \in Nat
      BY ClientFacts, NetConstants
    <3>2. QED
      BY <2>1, <3>1, <1>2, NetConstants
  <2>3. QED
    BY <2>1, <2>2
<1>31. UNCHANGED <<written, listening, backlog, hungup, chs, server, inbox>> /\ a + m <= size
  BY <1>3
<1>32. client' = [client EXCEPT ![c].pos = a + m,
                                ![c].at = IF a + m = size THEN "open" ELSE "write"]
  BY <1>3
<1>4. m \in Nat /\ m > 0 /\ Len(socket[c]) + m <= Cap
  BY ClientFacts, NetConstants
<1>5. /\ client'[c].pos = a + m /\ client'[c].frame = f
      /\ client'[c].at = IF a + m = size THEN "open" ELSE "write"
      /\ \A d \in Clients : d # c => client'[d] = client[d] /\ socket'[d] = socket[d]
  BY <1>1, <1>3, ClientFacts DEF NetInv, NetShape
<1>6. PICK s \in Seq(Unit) : s = socket[c]
  BY ClientFacts
<1> DEFINE t == Wrote(s, f, a, m)
<1>70. socket' = [socket EXCEPT ![c] = t]
  BY <1>3, <1>6 DEF Wrote
<1>8. socket'[c] = t /\ \A d \in Clients : socket'[d] = IF d = c THEN t ELSE socket[d]
  BY <1>70 DEF NetInv, NetShape
<1>9. ToWrite(c) = <<f, a + 1>>
  <2>1. a < size
    BY <1>1, <1>2, <1>3 DEF NetInv, WriterOK
  <2>2. QED
    BY <1>1, <1>2, <2>1 DEF ToWrite, After
<1>10. /\ t \in Seq(Unit) /\ Len(t) = Len(s) + m /\ Contiguous(c, t, f)
       /\ t # << >> /\ t[Len(t)] = <<f, a + m>>
       /\ t[1] = IF s = << >> THEN <<f, a + 1>> ELSE s[1]
  <2>1. Contiguous(c, s, f) /\ (s # << >> => After(c, s[Len(s)]) = <<f, a + 1>>)
    BY <1>1, <1>6, <1>9 DEF NetInv, StreamOK
  <2>2. \A g \in 0..f : Size(c, g) \in Nat
    BY <1>1, ClientFacts
  <2>3. a + m <= Size(c, f)
    BY <1>2, <1>3
  <2>4. QED
    <3>1. m \in Nat
      BY <1>4
    <3>2. m > 0
      BY <1>4
    <3>3. Contiguous(c, s, f)
      BY <2>1
    <3>4. s # << >> => After(c, s[Len(s)]) = <<f, a + 1>>
      BY <2>1
    <3>5. QED
      BY SMTT(30), <2>2, <2>3, <3>1, <3>2, <3>3, <3>4, ContiguousWrite
<1> HIDE DEF t
<1>11. NetShape'
  <2>1. client' \in [Clients -> [at : {"start", "write", "open", "gone"}, frame : Nat, pos : Nat]]
    <3>1. client \in [Clients -> [at : {"start", "write", "open", "gone"}, frame : Nat, pos : Nat]]
      BY DEF NetInv, NetShape
    <3>2. a + m \in Nat /\ (IF a + m = size THEN "open" ELSE "write") \in {"open", "write"}
      BY <1>4
    <3>3. QED
      BY <1>32, <3>1, <3>2
  <2>2. socket' \in [Clients -> Seq(Unit)]
    BY <1>70, <1>10 DEF NetInv, NetShape, Unit
  <2>3. QED
    BY <1>31, <2>1, <2>2 DEF NetInv, NetShape, Waiting, Unit
<1>12. PlacesOK'
  BY <1>31, <1>5, <1>11, PlacesKept
<1>13. ReaderOK'
  BY <1>31 DEF NetInv, ReaderOK, Frame, Base
<1>14. ASSUME NEW d \in Clients PROVE WriterOK(d)' /\ StreamOK(d)' /\ JoinOK(d)'
  <2>1. ToRead(d)' = ToRead(d)
    BY <1>31, ToReadKept
  <2>2. CASE d # c
    BY <1>31, <1>5, <2>1, <2>2, Kept DEF NetInv
  <2>3. CASE d = c
    <3>1. written'[c] = f /\ f <= Len(Messages[c])
      <4>1. written' = written
        BY <1>3
      <4>2. QED
        BY <1>1, <4>1, ClientFacts
    <3>2. WriterOK(c)'
      BY <1>2, <1>31, <1>4, <1>5, <3>1 DEF WriterOK
    <3>3. After(c, t[Len(t)]) = ToWrite(c)'
      BY <1>5, <1>10 DEF ToWrite
    <3>4. StreamOK(c)'
      BY <1>4, <1>6, <1>8, <1>10, <3>1, <3>3 DEF StreamOK
    <3>5. ToRead(c) = t[1] \/ c \in hungup
      BY <1>6, <1>9, <1>10 DEF NetInv, JoinOK
    <3>6. JoinOK(c)'
      BY <1>3, <1>8, <1>10, <2>1, <2>3, <3>5 DEF JoinOK
    <3>7. QED
      BY <2>3, <3>2, <3>4, <3>6
  <2>4. QED
    BY <2>2, <2>3
<1>15. QED
  BY <1>11, <1>12, <1>13, <1>14 DEF NetInv

-----------------------------------------------------------------------------
(* The steps of the server.                                                *)

\* The server turns to a channel, or to a connection that it accepts.
LEMMA ReadingStarts ==
    ASSUME NetInv, server.at = "wait", NEW c \in Clients, NEW naming \in BOOLEAN,
           server' = Reading(c, naming), chs' = chs, inbox' = inbox, written' = written,
           naming => c \notin Range(chs), ~naming => c \in Range(chs)
    PROVE  /\ ReaderOK' /\ \A d \in Clients : ToRead(d)' = ToRead(d)
           /\ server'.at = "read" /\ server'.from = c /\ server'.naming = naming
           /\ server' \in [at : {"read"}, from : Clients, naming : BOOLEAN,
                           want : Nat, got : Seq(Unit), header : BOOLEAN]
<1>1. /\ server'.at = "read" /\ server'.from = c /\ server'.naming = naming
      /\ server'.want = Hdr /\ server'.got = << >> /\ server'.header = TRUE
  BY DEF Reading
<1>2. PICK f \in Nat : f = Frame' /\ f = (IF naming THEN 0 ELSE Len(inbox[c]) + 1)
  BY <1>1, ClientFacts DEF Frame
<1>3. Base' = 0
  BY <1>1 DEF Base
<1>4. Units(f, 0, 0) = << >> /\ Len(<< >>) = 0
  BY UnitsAre, EmptySeq DEF Units
<1>5. ReaderOK'
  BY <1>1, <1>2, <1>3, <1>4, NetConstants DEF ReaderOK
<1>6. ASSUME NEW d \in Clients PROVE ToRead(d)' = ToRead(d)
  <2>1. CASE d # c
    BY <1>1, <2>1, ToReadOther
  <2>2. CASE d = c
    <3>1. ToRead(c)' = <<f, 1>>
      BY <1>1, <1>2, <1>3, <1>4 DEF ToRead
    <3>2. ToRead(c) = <<f, 1>>
      BY <1>2 DEF ToRead
    <3>3. QED
      BY <2>2, <3>1, <3>2
  <2>3. QED
    BY <2>1, <2>2
<1>7. server' \in [at : {"read"}, from : Clients, naming : BOOLEAN,
                   want : Nat, got : Seq(Unit), header : BOOLEAN]
  BY NetConstants, EmptySeq DEF Reading
<1>8. QED
  BY <1>1, <1>5, <1>6, <1>7

LEMMA WaitInv ==
    ASSUME NetInv, Wait
    PROVE  NetInv'
<1>1. /\ server.at = "wait"
      /\ UNCHANGED <<client, socket, written, listening, hungup, chs, inbox>>
  BY DEF Wait
<1>2. chs \in Seq(Clients) /\ backlog \in Seq(Clients)
  BY DEF NetInv, NetShape
<1>3. PICK c \in Clients, naming \in BOOLEAN :
        /\ server' = Reading(c, naming)
        /\ \/ ~naming /\ c \in Range(chs) /\ backlog' = backlog
           \/ naming /\ backlog # << >> /\ c = Head(backlog) /\ backlog' = Tail(backlog)
  <2>1. CASE Ready # {} /\ UNCHANGED backlog
    <3>1. PICK i \in Ready : server' = Reading(chs[i], FALSE)
      BY <2>1 DEF Wait
    <3>2. i \in 1..Len(chs)
      BY <3>1 DEF Ready
    <3>3. chs[i] \in Clients /\ chs[i] \in Range(chs)
      BY <1>2, <3>2, RangeIs, ElementOfSeq
    <3>4. QED
      BY <2>1, <3>1, <3>3
  <2>2. CASE backlog # << >> /\ server' = Reading(Head(backlog), TRUE) /\ backlog' = Tail(backlog)
    <3>1. Head(backlog) \in Clients
      BY <1>2, <2>2, RangeTail, RangeIs
    <3>2. QED
      BY <2>2, <3>1
  <2>3. QED
    BY <2>1, <2>2 DEF Wait
<1>4. /\ backlog' \in Seq(Clients) /\ IsInjective(backlog') /\ Len(backlog') <= Backlog
      /\ Range(backlog') \subseteq Range(backlog)
      /\ naming => c \in Range(backlog) /\ c \notin Range(backlog')
  <2>1. IsInjective(backlog) /\ Len(backlog) <= Backlog /\ Len(backlog) \in Nat
    BY <1>2, LenProperties DEF NetInv, PlacesOK
  <2>2. CASE backlog' = backlog /\ ~naming
    BY <1>2, <2>1, <2>2
  <2>3. CASE naming /\ backlog # << >> /\ c = Head(backlog) /\ backlog' = Tail(backlog)
    BY <1>2, <2>1, <2>3, RangeTail, NetConstants
  <2>4. QED
    BY <1>3, <2>2, <2>3
<1>5. naming => c \notin Range(chs)
  BY <1>4 DEF NetInv, PlacesOK
<1>6. /\ ReaderOK' /\ \A d \in Clients : ToRead(d)' = ToRead(d)
      /\ server'.at = "read" /\ server'.from = c /\ server'.naming = naming
      /\ server' \in [at : {"read"}, from : Clients, naming : BOOLEAN,
                      want : Nat, got : Seq(Unit), header : BOOLEAN]
  BY <1>1, <1>3, <1>5, ReadingStarts
<1>7. NetShape'
  BY <1>1, <1>4, <1>6 DEF NetInv, NetShape, Unit, Waiting
<1>8. PlacesOK'
  <2>1. c \notin hungup /\ client[c].at # "start"
    BY <1>3, <1>4 DEF NetInv, PlacesOK
  <2>2. QED
    BY <1>1, <1>3, <1>4, <1>5, <1>6, <2>1 DEF NetInv, PlacesOK
<1>9. ASSUME NEW d \in Clients PROVE WriterOK(d)' /\ StreamOK(d)' /\ JoinOK(d)'
  BY <1>1, <1>6, Kept DEF NetInv
<1>10. QED
  BY <1>6, <1>7, <1>8, <1>9 DEF NetInv

LEMMA CloseEndpointInv ==
    ASSUME NetInv, CloseEndpoint
    PROVE  NetInv'
<1>1. /\ server.at = "wait" /\ listening' = FALSE /\ hungup' = hungup \cup Range(backlog)
      /\ backlog' = << >> /\ UNCHANGED <<client, socket, written, chs, server, inbox>>
  BY DEF CloseEndpoint
<1>2. Range(backlog) \subseteq Clients
  BY RangeIs DEF NetInv, NetShape
<1>3. NetShape'
  BY <1>1, <1>2, EmptySeq DEF NetInv, NetShape, Waiting
<1>4. Range(backlog') = {} /\ IsInjective(backlog') /\ Len(backlog') <= Backlog
  BY <1>1, NetConstants DEF Range, IsInjective
<1>5. PlacesOK'
  BY <1>1, <1>4 DEF NetInv, PlacesOK
<1>6. ReaderOK'
  BY <1>1 DEF ReaderOK
<1>7. ASSUME NEW d \in Clients PROVE WriterOK(d)' /\ StreamOK(d)' /\ JoinOK(d)'
  <2>1. ToRead(d)' = ToRead(d)
    BY <1>1, ToReadKept
  <2>2. QED
    BY <1>1, <2>1, Kept DEF NetInv
<1>8. QED
  BY <1>3, <1>5, <1>6, <1>7 DEF NetInv

LEMMA ReadEOFInv ==
    ASSUME NetInv, ReadEOF
    PROVE  NetInv'
<1>1. PICK c \in Clients : c = server.from
  BY ServerFacts DEF NetInv, ReadEOF, Waiting
<1>2. /\ server.at = "read" /\ server' = Waiting /\ hungup' = hungup \cup {c}
      /\ UNCHANGED <<client, socket, written, listening, backlog, inbox>>
  BY <1>1 DEF ReadEOF
<1>3. server'.at = "wait"
  BY <1>2 DEF Waiting
<1>4. chs' \in Seq(Clients) /\ IsInjective(chs') /\ Range(chs') = Range(chs) \ {c}
  <2>1. chs \in Seq(Clients) /\ IsInjective(chs)
    BY DEF NetInv, NetShape, PlacesOK
  <2>2. CASE server.naming
    <3>1. chs' = chs /\ c \notin Range(chs)
      BY <1>1, <1>2, <2>2 DEF NetInv, PlacesOK, ReadEOF
    <3>2. QED
      BY <2>1, <3>1
  <2>3. CASE ~server.naming
    <3>1. PICK i \in 1..Len(chs) : chs[i] = c /\ chs' = RemoveAt(chs, i)
      BY <1>1, <2>3 DEF ReadEOF
    <3>2. QED
      BY <2>1, <3>1, RangeRemove
  <2>4. QED
    BY <2>2, <2>3
<1>5. NetShape'
  BY <1>2, <1>4 DEF NetInv, NetShape, Waiting
<1>6. PlacesOK'
  <2>1. c \notin Range(backlog) /\ client[c].at # "start"
    BY <1>1, <1>2 DEF NetInv, PlacesOK
  <2>2. QED
    BY <1>2, <1>3, <1>4, <2>1 DEF NetInv, PlacesOK
<1>7. ReaderOK'
  BY <1>3 DEF ReaderOK
<1>8. ASSUME NEW d \in Clients PROVE WriterOK(d)' /\ StreamOK(d)' /\ JoinOK(d)'
  <2>1. d \notin hungup' => ToRead(d)' = ToRead(d)
    BY <1>1, <1>2, <1>3, <1>4, ToReadOther
  <2>2. QED
    BY <1>2, <2>1, Kept DEF NetInv
<1>9. QED
  BY <1>5, <1>6, <1>7, <1>8 DEF NetInv

-----------------------------------------------------------------------------
(* One read().                                                             *)

\* A read takes n units from the socket of c, and next is the unit u.
Leaves(c, n, u) ==
    /\ socket' = [socket EXCEPT ![c] = Rest(@, n)]
    /\ u = IF Rest(socket[c], n) = << >> THEN ToWrite(c) ELSE Rest(socket[c], n)[1]

\* A read of n units from c, which come after the first k of the part at base of
\* frame f, makes got the first k + n of that part; want is the part's length.
ReadOf(c, n, f, base, k, want, got) ==
    /\ server.at = "read" /\ server.from = c /\ server.want = want
    /\ f = Frame /\ base = Base /\ k = Len(server.got)
    /\ k + n <= want /\ base + want <= Size(c, f) /\ f <= written[c]
    /\ got = Units(f, base, k + n) /\ GetAll(c, got)
    /\ Leaves(c, n, After(c, <<f, base + k + n>>))

LEMMA ReadSomeIs ==
    ASSUME NetInv, ReadSome
    PROVE  \E c \in Clients, n \in Nat, f \in Nat, base \in Nat, k \in Nat, want \in Nat :
              \E got \in Seq(Unit) :
                  n \in 1..Len(socket[c]) /\ ReadOf(c, n, f, base, k, want, got)
<1>1. PICK c \in Clients : c = server.from
  BY ServerFacts DEF NetInv, ReadSome, Waiting
<1>2. server.at = "read" /\ server.got \in Seq(Unit) /\ server.want \in Nat
  BY ServerFacts DEF NetInv, ReadSome, Waiting
<1>3. PICK s \in Seq(Unit) : s = socket[c]
  BY ClientFacts
<1>4. PICK k \in Nat : k = Len(server.got)
  BY <1>2, LenProperties
<1>5. PICK want \in Nat : want = server.want
  BY <1>2
<1>6. PICK n \in 1..Len(s) :
        /\ n <= want - k
        /\ socket' = [socket EXCEPT ![c] = Rest(@, n)]
        /\ GetAll(c, server.got \o Got(s, n))
  BY <1>1, <1>3, <1>4, <1>5 DEF ReadSome, Rest, Got
<1>7. n \in Nat /\ k + n <= want /\ Len(s) \in Nat /\ 1 \in 1..Len(s)
  BY <1>6, LenProperties
<1>8. PICK f \in Nat : f = Frame
  BY <1>1, ClientFacts DEF Frame
<1>9. PICK base \in Nat : base = Base
  BY NetConstants DEF Base
<1>10. s # << >> /\ s[1] = <<f, (base + k) + 1>>
  <2>1. s # << >>
    BY <1>7, EmptySeq
  <2>2. c \notin hungup
    BY <1>1, <1>2 DEF NetInv, PlacesOK
  <2>3. ToRead(c) = s[1]
    BY <1>3, <2>1, <2>2 DEF NetInv, JoinOK
  <2>4. ToRead(c) = <<f, base + k + 1>>
    BY <1>1, <1>2, <1>4, <1>8, <1>9 DEF ToRead
  <2>5. QED
    BY <2>1, <2>3, <2>4
<1>11. Contiguous(c, s, written[c]) /\ After(c, s[Len(s)]) = ToWrite(c)
  BY <1>3, <1>10 DEF NetInv, StreamOK
<1>12. f <= written[c]
  <2>1. s[1][1] <= written[c]
    BY <1>7, <1>11 DEF Contiguous, InFrames
  <2>2. QED
    BY <1>10, <2>1
<1>13. PICK size \in Nat : size = Size(c, f) /\ size = Hdr + BodyLen(c, f) /\ BodyLen(c, f) \in Nat
  <2>1. f \in 0..written[c]
    BY <1>12, ClientFacts
  <2>2. QED
    BY <2>1, ClientFacts
<1>14. base + want <= size
  BY <1>1, <1>2, <1>5, <1>8, <1>9, <1>13, NetConstants DEF NetInv, ReaderOK, Base
<1>15. PICK r \in Nat : r = base + k
  OBVIOUS
<1>16. /\ Got(s, n) = Units(f, r, n)
       /\ n < Len(s) => s[n + 1] = After(c, <<f, r + n>>)
       /\ s[n] = <<f, r + n>>
  <2>1. r + n <= Size(c, f) /\ Size(c, f) \in Nat
    BY <1>7, <1>13, <1>14, <1>15
  <2>2. s[1] = <<f, r + 1>>
    BY <1>10, <1>15
  <2>3. written[c] \in Nat
    BY ClientFacts
  <2>4. Contiguous(c, s, written[c])
    BY <1>11
  <2>5. r + n <= Size(c, f)
    BY <2>1
  <2>6. Size(c, f) \in Nat
    BY <2>1
  <2>7. FirstRead(c, s, n, f, r)
    BY <2>2, <2>3, <2>4, <2>5, <2>6, ContiguousRead
  <2>8. QED
    BY <2>7 DEF FirstRead
<1>17. /\ n = Len(s) => Rest(s, n) = << >>
       /\ n < Len(s) => Rest(s, n) # << >> /\ Rest(s, n)[1] = s[n + 1]
  <2>1. written[c] \in Nat
    BY ClientFacts
  <2>2. QED
    BY <1>11, <2>1, ContiguousRest
<1>18. After(c, <<f, base + k + n>>) = IF Rest(s, n) = << >> THEN ToWrite(c) ELSE Rest(s, n)[1]
  <2>1. <<f, base + k + n>> = <<f, r + n>>
    BY <1>15
  <2>2. CASE n = Len(s)
    BY <1>11, <1>16, <1>17, <2>1, <2>2
  <2>3. CASE n < Len(s)
    BY <1>16, <1>17, <2>1, <2>3
  <2>4. QED
    BY <1>7, <2>2, <2>3
<1>19. server.got = Units(f, base, k)
  BY <1>2, <1>4, <1>8, <1>9 DEF NetInv, ReaderOK
<1>20. server.got \o Got(s, n) = Units(f, base, k + n)
  <2>1. n \in Nat
    BY <1>7
  <2>2. Wrote(Units(f, base, k), f, base + k, n) = Units(f, base, k + n)
    BY <2>1, UnitsJoin
  <2>3. Got(s, n) = Units(f, base + k, n)
    BY <1>15, <1>16
  <2>4. QED
    BY <1>19, <2>2, <2>3, Zenon DEF Wrote
<1>21. PICK got \in Seq(Unit) : got = Units(f, base, k + n)
  BY <1>7, UnitsAre
<1>22. GetAll(c, got)
  BY <1>6, <1>20, <1>21
<1>23. /\ server.at = "read" /\ server.from = c /\ server.want = want
       /\ f = Frame /\ base = Base /\ k = Len(server.got)
  BY <1>1, <1>2, <1>4, <1>5, <1>8, <1>9
<1>24. k + n <= want /\ base + want <= Size(c, f) /\ f <= written[c]
  BY <1>7, <1>12, <1>13, <1>14
<1>25. socket' = [socket EXCEPT ![c] = Rest(@, n)]
  BY <1>6
<1>26. ReadOf(c, n, f, base, k, want, got)
  <2>1. Leaves(c, n, After(c, <<f, base + k + n>>))
    BY <1>3, <1>18, <1>25 DEF Leaves
  <2>2. QED
    BY <1>21, <1>22, <1>23, <1>24, <2>1 DEF ReadOf
<1>27. QED
  BY <1>3, <1>7, <1>26

\* What a read leaves of its channel, if the server reads on where it stopped.
LEMMA ReadLeaves ==
    ASSUME NetInv, NEW c \in Clients, NEW n \in 1..Len(socket[c]), NEW u, Leaves(c, n, u),
           UNCHANGED <<client, written, listening, backlog, hungup>>, ToRead(c)' = u,
           \A d \in Clients : d # c => ToRead(d)' = ToRead(d)
    PROVE  /\ socket' \in [Clients -> Seq(Unit)]
           /\ \A d \in Clients : WriterOK(d)' /\ StreamOK(d)' /\ JoinOK(d)'
<1>1. PICK s \in Seq(Unit) : s = socket[c]
  BY ClientFacts
<1> DEFINE t == Rest(s, n)
<1>2. n \in 1..Len(s) /\ Len(s) \in Nat
  BY <1>1, LenProperties
<1>3. /\ t \in Seq(Unit) /\ Len(t) = Len(s) - n /\ Contiguous(c, t, written[c])
      /\ n < Len(s) => t[Len(t)] = s[Len(s)]
      /\ n = Len(s) => t = << >>
  <2>1. written[c] \in Nat /\ Contiguous(c, s, written[c])
    BY <1>1, ClientFacts DEF NetInv, StreamOK
  <2>2. QED
    BY <1>2, <2>1, ContiguousRest
<1>4. socket \in [Clients -> Seq(Unit)]
  BY DEF NetInv, NetShape, Unit
<1>5. /\ socket' \in [Clients -> Seq(Unit)] /\ socket'[c] = t
      /\ \A d \in Clients : d # c => socket'[d] = socket[d]
  BY <1>1, <1>3, <1>4 DEF Leaves
<1>6. ToRead(c)' = IF t = << >> THEN ToWrite(c) ELSE t[1]
  BY <1>1 DEF Leaves
<1> HIDE DEF t
<1>7. ASSUME NEW d \in Clients PROVE WriterOK(d)' /\ StreamOK(d)' /\ JoinOK(d)'
  <2>1. CASE d # c
    BY <1>5, <2>1, Kept DEF NetInv
  <2>2. CASE d = c
    <3>1. ToWrite(c)' = ToWrite(c)
      BY DEF ToWrite
    <3>2. WriterOK(c)'
      <4>1. socket[c] # << >>
        BY <1>1, <1>2, EmptySeq
      <4>2. client[c].at # "start"
        BY <4>1 DEF NetInv, WriterOK
      <4>3. WriterOK(c)
        BY DEF NetInv
      <4>4. QED
        BY <4>2, <4>3 DEF WriterOK
    <3>3. Len(t) <= Cap
      <4>1. Len(s) <= Cap
        BY <1>1 DEF NetInv, StreamOK
      <4>2. QED
        BY <1>2, <1>3, <4>1, NetConstants
    <3>4. t # << >> => After(c, t[Len(t)]) = ToWrite(c)
      <4>1. n # Len(s) => n < Len(s)
        BY <1>2
      <4>2. s # << >> => After(c, s[Len(s)]) = ToWrite(c)
        BY <1>1 DEF NetInv, StreamOK
      <4>3. s # << >>
        BY <1>2, EmptySeq
      <4>4. QED
        BY <1>3, <4>1, <4>2, <4>3
    <3>5. StreamOK(c)'
      BY <1>3, <1>5, <3>1, <3>3, <3>4 DEF StreamOK
    <3>6. JoinOK(c)'
      BY <1>5, <1>6, <3>1 DEF JoinOK
    <3>7. QED
      BY <2>2, <3>2, <3>5, <3>6
  <2>3. QED
    BY <2>1, <2>2
<1>8. QED
  BY <1>5, <1>7

\* The message that a server makes of a whole frame is that frame, the one after
\* the messages that it has.
LEMMA MessageIs ==
    ASSUME NEW c \in Clients, NEW f \in Nat, f <= Len(Messages[c]), NEW base \in Nat, NEW n \in Nat,
           \/ base = 0 /\ n = Hdr /\ BodyLen(c, f) = 0
           \/ base = Hdr /\ n = BodyLen(c, f) /\ BodyLen(c, f) > 0
    PROVE  Message(c, Units(f, base, n)) = f
<1>1. BodyLen(c, f) \in Nat /\ Hdr \in Nat /\ Hdr > 0
  BY SizeIs, NetConstants
<1>2. n \in Nat /\ n > 0 /\ 1 \in 1..n
  BY <1>1
<1>3. Units(f, base, n)[1][1] = f
  <2>1. Units(f, base, n)[1] = <<f, base + 1>>
    BY <1>2, UnitsAre
  <2>2. QED
    BY <2>1
<1>4. QED
  BY <1>1, <1>3 DEF Message

\* A read keeps the invariant, and if it ends a call with a message, then it is
\* the next of its client.
LEMMA ReadSomeStep ==
    ASSUME NetInv, ReadSome
    PROVE  /\ NetInv'
           /\ \/ inbox' = inbox
              \/ \E c \in Clients :
                    /\ Len(inbox[c]) < written[c]
                    /\ inbox' = [inbox EXCEPT ![c] = Append(@, Len(@) + 1)]
<1>1. PICK c \in Clients, n \in Nat, f \in Nat, base \in Nat, k \in Nat, want \in Nat :
         \E got \in Seq(Unit) :
            n \in 1..Len(socket[c]) /\ ReadOf(c, n, f, base, k, want, got)
  BY ReadSomeIs
<1>2. PICK got \in Seq(Unit) : n \in 1..Len(socket[c]) /\ ReadOf(c, n, f, base, k, want, got)
  BY <1>1
<1>3. /\ server.at = "read" /\ server.from = c /\ server.want = want
      /\ f = Frame /\ base = Base /\ k = Len(server.got)
      /\ f <= written[c]
  BY <1>2 DEF ReadOf
<1>30. k + n <= want /\ base + want <= Size(c, f)
  BY <1>2 DEF ReadOf
<1>31. got = Units(f, base, k + n) /\ k + n \in Nat
  BY <1>2 DEF ReadOf
<1>32. GetAll(c, got)
  BY <1>2 DEF ReadOf
<1>33. PICK u : u = After(c, <<f, base + k + n>>) /\ Leaves(c, n, u)
  BY <1>2 DEF ReadOf
<1>34. n \in 1..Len(socket[c])
  BY <1>2
<1>4. UNCHANGED <<client, written, listening, backlog, hungup>>
  BY DEF ReadSome
<1>5. Len(got) = k + n /\ got[1][1] = f
  <2>1. n > 0
    BY <1>2, ClientFacts
  <2>2. k + n \in Nat /\ 1 \in 1..(k + n)
    BY <2>1
  <2>3. Len(got) = k + n /\ got[1] = <<f, base + 1>>
    <3>1. PICK m \in Nat : m = k + n
      BY <2>2
    <3>2. Len(Units(f, base, m)) = m /\ \A i \in 1..m : Units(f, base, m)[i] = <<f, base + i>>
      BY UnitsAre
    <3>3. QED
      BY <1>31, <2>2, <3>1, <3>2
  <2>4. QED
    BY <2>3
<1>6. PICK len \in Nat : len = BodyLen(c, f) /\ Size(c, f) = Hdr + len
  <2>1. f \in 0..written[c]
    BY <1>3, ClientFacts
  <2>2. QED
    BY <2>1, ClientFacts
<1>7. /\ server.header \in BOOLEAN /\ server.naming \in BOOLEAN
      /\ server \in [at : {"read"}, from : Clients, naming : BOOLEAN,
                     want : Nat, got : Seq(Unit), header : BOOLEAN]
  BY <1>3, ServerFacts DEF NetInv
<1>8. /\ server.header => base = 0 /\ want = Hdr
      /\ ~server.header => base = Hdr /\ want = len
      /\ server.naming => f = 0
      /\ ~server.naming => f = Len(inbox[c]) + 1
  BY <1>3, <1>6 DEF NetInv, ReaderOK, Base, Frame
<1>9. /\ c \notin hungup /\ client[c].at # "start"
      /\ server.naming => c \notin Range(backlog) /\ c \notin Range(chs)
      /\ ~server.naming => c \in Range(chs)
  BY <1>3 DEF NetInv, PlacesOK
<1>10. ASSUME UNCHANGED chs, UNCHANGED inbox, server'.at = "read" => server'.from = c
       PROVE  \A d \in Clients : d # c => ToRead(d)' = ToRead(d)
  BY <1>3, <1>10, ToReadOther
<1>11. Hdr \in Nat /\ Hdr > 0
  BY NetConstants
<1>12. CASE k + n < want
  <2>1. server' = [server EXCEPT !.got = got] /\ chs' = chs /\ inbox' = inbox
    BY <1>3, <1>32, <1>5, <1>12 DEF GetAll
  <2>2. /\ server' \in [at : {"read"}, from : Clients, naming : BOOLEAN,
                        want : Nat, got : Seq(Unit), header : BOOLEAN]
        /\ server'.at = "read" /\ server'.from = c /\ server'.naming = server.naming
        /\ server'.want = want /\ server'.got = got /\ server'.header = server.header
    BY <1>3, <1>7, <2>1
  <2>3. Frame' = f /\ Base' = base
    BY <1>3, <2>1, <2>2 DEF Frame, Base
  <2>4. ToRead(c)' = u
    <3>1. ToRead(c)' = <<f, base + (k + n) + 1>>
      BY <1>5, <2>2, <2>3 DEF ToRead
    <3>2. base + k + n < Size(c, f)
      BY <1>30, <1>6, <1>11, <1>12
    <3>3. After(c, <<f, base + k + n>>) = <<f, base + k + n + 1>>
      BY <3>2 DEF After
    <3>4. base + (k + n) + 1 = base + k + n + 1
      OBVIOUS
    <3>5. QED
      BY <1>33, <3>1, <3>3, <3>4
  <2>5. /\ socket' \in [Clients -> Seq(Unit)]
        /\ \A d \in Clients : WriterOK(d)' /\ StreamOK(d)' /\ JoinOK(d)'
    BY <1>33, <1>34, <1>4, <1>10, <2>1, <2>2, <2>4, ReadLeaves
  <2>6. NetShape'
    BY <1>4, <2>1, <2>2, <2>5 DEF NetInv, NetShape, Unit
  <2>7. PlacesOK'
    BY <1>4, <1>9, <2>1, <2>2 DEF NetInv, PlacesOK
  <2>8. ReaderOK'
    <3>1. written' = written
      BY <1>4
    <3>2. QED
      BY <1>3, <1>31, <1>5, <1>6, <1>7, <1>8, <1>12, <2>2, <2>3, <3>1 DEF ReaderOK
  <2>9. QED
    BY <2>1, <2>5, <2>6, <2>7, <2>8 DEF NetInv
<1>13. CASE k + n = want /\ server.header /\ len > 0
  <2>1. /\ server' = [server EXCEPT !.got = << >>, !.want = len, !.header = FALSE]
        /\ chs' = chs /\ inbox' = inbox
    <3>1. ~(Len(got) < server.want)
      BY <1>3, <1>5, <1>13
    <3>2. BodyLen(c, got[1][1]) = len
      BY <1>5, <1>6
    <3>3. QED
      BY <1>32, <1>13, <3>1, <3>2 DEF GetAll
  <2>2. /\ server' \in [at : {"read"}, from : Clients, naming : BOOLEAN,
                        want : Nat, got : Seq(Unit), header : BOOLEAN]
        /\ server'.at = "read" /\ server'.from = c /\ server'.naming = server.naming
        /\ server'.want = len /\ server'.got = << >> /\ server'.header = FALSE
    BY <1>3, <1>7, <2>1, EmptySeq
  <2>3. Frame' = f /\ Base' = Hdr
    BY <1>3, <2>1, <2>2 DEF Frame, Base
  <2>4. ToRead(c)' = u
    <3>1. ToRead(c)' = <<f, Hdr + 0 + 1>>
      BY <2>2, <2>3 DEF ToRead
    <3>2. base + k + n = Hdr /\ Hdr < Size(c, f)
      BY <1>6, <1>8, <1>11, <1>13
    <3>3. After(c, <<f, Hdr>>) = <<f, Hdr + 1>>
      BY <3>2 DEF After
    <3>4. Hdr + 0 + 1 = Hdr + 1
      BY <1>11
    <3>5. QED
      BY <1>33, <3>1, <3>2, <3>3, <3>4
  <2>5. /\ socket' \in [Clients -> Seq(Unit)]
        /\ \A d \in Clients : WriterOK(d)' /\ StreamOK(d)' /\ JoinOK(d)'
    BY <1>33, <1>34, <1>4, <1>10, <2>1, <2>2, <2>4, ReadLeaves
  <2>6. NetShape'
    BY <1>4, <2>1, <2>2, <2>5 DEF NetInv, NetShape, Unit
  <2>7. PlacesOK'
    BY <1>4, <1>9, <2>1, <2>2 DEF NetInv, PlacesOK
  <2>8. ReaderOK'
    <3>1. written' = written
      BY <1>4
    <3>2. Units(f, Hdr, 0) = << >> /\ Len(<< >>) = 0
      BY EmptySeq DEF Units
    <3>3. QED
      BY <1>3, <1>6, <1>13, <2>2, <2>3, <3>1, <3>2 DEF ReaderOK
  <2>9. QED
    BY <2>1, <2>5, <2>6, <2>7, <2>8 DEF NetInv
<1>14. ASSUME k + n = want, ~(server.header /\ len > 0)
       PROVE  /\ Deliver(c, got) /\ server' = Waiting /\ server'.at = "wait"
              /\ After(c, <<f, base + k + n>>) = <<f + 1, 1>>
              /\ \/ base = 0 /\ k + n = Hdr /\ len = 0
                 \/ base = Hdr /\ k + n = len /\ len > 0
  <2>1. Deliver(c, got)
    <3>1. ~(Len(got) < server.want)
      BY <1>3, <1>5, <1>14
    <3>2. BodyLen(c, got[1][1]) = len
      BY <1>5, <1>6
    <3>3. QED
      BY <1>32, <1>14, <3>1, <3>2 DEF GetAll
  <2>2. \/ base = 0 /\ k + n = Hdr /\ len = 0
        \/ base = Hdr /\ k + n = len
    BY <1>7, <1>8, <1>14
  <2>3. len > 0 \/ len = 0
    OBVIOUS
  <2>4. k + n > 0
    BY <1>2, ClientFacts
  <2>5. base + k + n = Size(c, f)
    BY <1>6, <1>11, <2>2
  <2>6. After(c, <<f, base + k + n>>) = <<f + 1, 1>>
    BY <1>6, <1>11, <2>5 DEF After
  <2>7. QED
    BY <2>1, <2>2, <2>3, <2>4, <2>6 DEF Deliver, Waiting
<1>15. CASE k + n = want /\ ~(server.header /\ len > 0) /\ server.naming
  <2>1. chs' = Append(chs, c) /\ inbox' = inbox /\ server' = Waiting /\ server'.at = "wait"
    BY <1>14, <1>15 DEF Deliver
  <2>2. chs \in Seq(Clients) /\ IsInjective(chs)
    BY DEF NetInv, NetShape, PlacesOK
  <2>3. chs' \in Seq(Clients) /\ IsInjective(chs') /\ Range(chs') = Range(chs) \cup {c}
    BY <1>9, <1>15, <2>1, <2>2, RangeAppend, AppendProperties
  <2>4. ToRead(c)' = u
    <3>1. inbox[c] = << >>
      BY <1>9, <1>15 DEF NetInv, PlacesOK
    <3>2. ToRead(c)' = <<Len(inbox[c]) + 1, 1>>
      BY <2>1, <2>3 DEF ToRead
    <3>3. f = 0 /\ Len(inbox[c]) = 0
      BY <1>8, <1>15, <3>1, EmptySeq
    <3>4. QED
      BY <1>33, <1>14, <1>15, <3>2, <3>3
  <2>5. \A d \in Clients : d # c => ToRead(d)' = ToRead(d)
    BY <1>3, <2>1, <2>3, ToReadOther
  <2>6. /\ socket' \in [Clients -> Seq(Unit)]
        /\ \A d \in Clients : WriterOK(d)' /\ StreamOK(d)' /\ JoinOK(d)'
    BY <1>33, <1>34, <1>4, <2>4, <2>5, ReadLeaves
  <2>7. NetShape'
    BY <1>4, <2>1, <2>3, <2>6 DEF NetInv, NetShape, Unit, Waiting
  <2>8. PlacesOK'
    BY <1>4, <1>9, <1>15, <2>1, <2>3 DEF NetInv, PlacesOK
  <2>9. ReaderOK'
    BY <2>1 DEF ReaderOK
  <2>10. QED
    BY <2>1, <2>6, <2>7, <2>8, <2>9 DEF NetInv
<1>16. CASE k + n = want /\ ~(server.header /\ len > 0) /\ ~server.naming
  <2>1. /\ inbox' = [inbox EXCEPT ![c] = Append(@, Message(c, got))]
        /\ chs' = chs /\ server' = Waiting /\ server'.at = "wait"
    BY <1>14, <1>16 DEF Deliver
  <2>2. Message(c, got) = f
    <3>1. f <= Len(Messages[c])
      BY <1>3, ClientFacts
    <3>2. k + n \in Nat /\ got = Units(f, base, k + n)
      BY <1>31
    <3>3. \/ base = 0 /\ k + n = Hdr /\ BodyLen(c, f) = 0
          \/ base = Hdr /\ k + n = BodyLen(c, f) /\ BodyLen(c, f) > 0
      BY <1>6, <1>14, <1>16
    <3>4. QED
      BY <3>1, <3>2, <3>3, MessageIs
  <2>3. f = Len(inbox[c]) + 1 /\ inbox[c] \in Seq(Nat) /\ Len(inbox[c]) \in Nat
    BY <1>8, <1>16, ClientFacts
  <2>4. inbox' = [inbox EXCEPT ![c] = Append(@, Len(@) + 1)] /\ Len(inbox[c]) < written[c]
    <3>1. inbox' = [inbox EXCEPT ![c] = Append(@, f)]
      BY <2>1, <2>2
    <3>2. Len(inbox[c]) < written[c]
      BY <1>3, <2>3, ClientFacts
    <3>3. QED
      BY <2>3, <3>1, <3>2
  <2>5. /\ inbox' \in [Clients -> Seq(Nat)]
        /\ Len(inbox'[c]) = f
        /\ \A d \in Clients : d # c => inbox'[d] = inbox[d]
    <3>1. Append(inbox[c], f) \in Seq(Nat) /\ Len(Append(inbox[c], f)) = f
      BY <2>3, AppendProperties
    <3>2. inbox \in [Clients -> Seq(Nat)] /\ inbox' = [inbox EXCEPT ![c] = Append(inbox[c], f)]
      BY <2>1, <2>2 DEF NetInv, NetShape
    <3>3. QED
      BY <3>1, <3>2
  <2>6. ToRead(c)' = u
    <3>1. ToRead(c)' = <<f + 1, 1>>
      BY <1>9, <1>16, <2>1, <2>5 DEF ToRead
    <3>2. QED
      BY <1>33, <1>14, <1>16, <3>1
  <2>7. \A d \in Clients : d # c => ToRead(d)' = ToRead(d)
    BY <1>3, <2>1, <2>5, ToReadOther
  <2>8. /\ socket' \in [Clients -> Seq(Unit)]
        /\ \A d \in Clients : WriterOK(d)' /\ StreamOK(d)' /\ JoinOK(d)'
    BY <1>33, <1>34, <1>4, <2>6, <2>7, ReadLeaves
  <2>9. NetShape'
    BY <1>4, <2>1, <2>5, <2>8 DEF NetInv, NetShape, Unit, Waiting
  <2>10. PlacesOK'
    BY <1>4, <1>9, <1>16, <2>1, <2>5 DEF NetInv, PlacesOK
  <2>11. ReaderOK'
    BY <2>1 DEF ReaderOK
  <2>12. QED
    <3>1. NetInv'
      BY <2>8, <2>9, <2>10, <2>11 DEF NetInv
    <3>2. QED
      BY <2>4, <3>1
<1>17. k + n < want \/ k + n = want
  BY <1>30, <1>31
<1>18. len > 0 \/ ~(len > 0)
  OBVIOUS
<1>19. QED
  BY <1>7, <1>12, <1>13, <1>15, <1>16, <1>17, <1>18

-----------------------------------------------------------------------------
(* Theorems.                                                               *)

LEMMA NetNextInv ==
    ASSUME NetInv, [NetNext]_netvars
    PROVE  NetInv'
<1>1. CASE UNCHANGED netvars
  <2>1. UNCHANGED <<client, socket, written, listening, backlog, hungup, chs, server, inbox>>
    BY <1>1 DEF netvars
  <2>2. NetShape' /\ PlacesOK' /\ ReaderOK'
    BY <2>1 DEF NetInv, NetShape, PlacesOK, ReaderOK, Frame, Base
  <2>3. ASSUME NEW c \in Clients PROVE WriterOK(c)' /\ StreamOK(c)' /\ JoinOK(c)'
    <3>1. ToRead(c)' = ToRead(c)
      BY <2>1, ToReadKept
    <3>2. QED
      BY <2>1, <3>1, Kept DEF NetInv
  <2>4. QED
    BY <2>2, <2>3 DEF NetInv
<1>2. CASE Server
  BY <1>2, WaitInv, ReadSomeStep, ReadEOFInv DEF Server
<1>3. CASE CloseEndpoint
  BY <1>3, CloseEndpointInv
<1>4. ASSUME NEW c \in Clients, Works(c) \/ Crash(c) PROVE NetInv'
  <2>1. CASE Connect(c)
    BY <2>1, ConnectInv
  <2>2. CASE StartMessage(c)
    BY <2>2, StartMessageInv
  <2>3. CASE WriteSome(c)
    BY <2>3, WriteSomeInv
  <2>4. CASE WriteBroken(c) \/ Disconnect(c) \/ Crash(c)
    <3>1. Leave(c) /\ client[c].at # "start"
      BY <2>4 DEF WriteBroken, Disconnect, Crash
    <3>2. QED
      BY <3>1, LeaveInv
  <2>5. QED
    BY <1>4, <2>1, <2>2, <2>3, <2>4 DEF Works
<1>5. QED
  BY <1>1, <1>2, <1>3, <1>4 DEF NetNext

\* In every reachable state of the TCP transport the invariant holds, for any
\* number of clients, any messages and any sizes of sockets and of the backlog.
THEOREM NetInvariant == NetSpec => []NetInv
<1>1. NetInit => NetInv
  BY NetInitInv
<1>2. NetInv /\ [NetNext]_netvars => NetInv'
  BY NetNextInv
<1>3. QED
  BY <1>1, <1>2, PTL DEF NetSpec

\* Type correctness: no write of reliable_write runs past its buffer, and no
\* socket or queue holds more than it has room for.
THEOREM NetTypeCorrect == NetSpec => []NetTypeOK
<1>1. NetInv => NetTypeOK
  <2> SUFFICES ASSUME NetInv PROVE NetTypeOK
    OBVIOUS
  <2>1. ASSUME NEW c \in Clients
        PROVE  /\ client[c].at \in {"start", "write", "open", "gone"}
               /\ client[c].pos \in 0..(Hdr + BodyLen(c, client[c].frame))
               /\ Len(socket[c]) <= Cap /\ written[c] <= Len(Messages[c])
    <3>1. client[c].frame = written[c] /\ client[c].pos <= Size(c, written[c])
      BY DEF NetInv, WriterOK
    <3>2. Size(c, written[c]) \in Nat /\ Size(c, written[c]) = Hdr + BodyLen(c, written[c])
      BY ClientFacts
    <3>3. client[c].pos \in 0..(Hdr + BodyLen(c, client[c].frame))
      BY <3>1, <3>2, ClientFacts
    <3>4. QED
      BY <3>3, ClientFacts DEF NetInv, StreamOK
  <2>2. /\ Len(backlog) <= Backlog /\ listening \in BOOLEAN
        /\ hungup \subseteq Clients /\ chs \in Seq(Clients)
    BY DEF NetInv, NetShape, PlacesOK
  <2>3. server.at \in {"wait", "read"}
    BY ServerFacts DEF NetInv
  <2>4. QED
    BY <2>1, <2>2, <2>3 DEF NetTypeOK
<1>2. QED
  BY <1>1, NetInvariant, PTL

\* However reliable_read and reliable_write are cut up by the sockets, and
\* whichever clients crash or are turned away, each channel delivers the messages
\* of its client whole, once and in order: the TCP transport implements the
\* abstract channel.
THEOREM TcpRefinement == NetSpec => TcpImplementsChannel
<1>1. NetInit => Channels!ChanInit
  BY DEF NetInit, Channels!ChanInit, EndsOf
<1>2. ASSUME NetInv, [NetNext]_netvars PROVE [Channels!ChanNext]_(Channels!cvars)
  <2> DEFINE W == [e \in EndsOf |-> IF e[2] = "client" THEN written[e[1]] ELSE 0]
             D == [e \in EndsOf |-> IF e[2] = "server" THEN inbox[e[1]] ELSE << >>]
  <2>0. SUFFICES Channels!ChanNext \/ (W' = W /\ D' = D)
    BY DEF Channels!cvars
  <2>1. CASE UNCHANGED <<written, inbox>>
    BY <2>1
  <2>2. ASSUME NEW c \in Clients, StartMessage(c) PROVE Channels!ChanNext
    <3>1. written' = [written EXCEPT ![c] = @ + 1] /\ inbox' = inbox
      BY <2>2 DEF StartMessage
    <3>2. written \in [Clients -> Nat]
      BY <1>2 DEF NetInv, NetShape
    <3>3. PICK x \in EndsOf : x = <<c, "client">>
      BY DEF EndsOf
    <3>4. W' = [W EXCEPT ![x] = @ + 1]
      <4>1. ASSUME NEW e \in EndsOf PROVE W'[e] = [W EXCEPT ![x] = @ + 1][e]
        <5>1. e[1] \in Clients /\ (e # x => e[1] # c \/ e[2] # "client")
          BY <3>3 DEF EndsOf
        <5>2. QED
          BY <3>1, <3>2, <3>3, <5>1
      <4>2. QED
        BY <4>1
    <3>5. D' = D
      BY <3>1
    <3>6. QED
      BY <3>3, <3>4, <3>5 DEF Channels!ChanNext, Channels!ChanWrite
  <2>3. ASSUME NEW c \in Clients, Len(inbox[c]) < written[c], written' = written,
               inbox' = [inbox EXCEPT ![c] = Append(@, Len(@) + 1)]
        PROVE  Channels!ChanNext
    <3>1. inbox \in [Clients -> Seq(Nat)]
      BY <1>2 DEF NetInv, NetShape
    <3>2. PICK x \in EndsOf : x = <<c, "server">>
      BY DEF EndsOf
    <3>3. D' = [D EXCEPT ![x] = Append(@, Len(@) + 1)]
      <4>1. ASSUME NEW e \in EndsOf PROVE D'[e] = [D EXCEPT ![x] = Append(@, Len(@) + 1)][e]
        <5>1. e[1] \in Clients /\ (e # x => e[1] # c \/ e[2] # "server")
          BY <3>2 DEF EndsOf
        <5>2. QED
          BY <2>3, <3>1, <3>2, <5>1
      <4>2. QED
        BY <4>1
    <3>4. Len(D[x]) < W[OtherEnd(x)]
      BY <2>3, <3>2 DEF EndsOf, OtherEnd
    <3>5. W' = W
      BY <2>3
    <3>6. QED
      BY <3>2, <3>3, <3>4, <3>5 DEF Channels!ChanNext, Channels!ChanRead
  <2>4. CASE ReadSome
    BY <1>2, <2>1, <2>3, <2>4, ReadSomeStep DEF ReadSome
  <2>5. CASE UNCHANGED netvars \/ Wait \/ ReadEOF \/ CloseEndpoint
    BY <2>1, <2>5 DEF netvars, Wait, ReadEOF, CloseEndpoint
  <2>6. ASSUME NEW c \in Clients,
               Connect(c) \/ WriteSome(c) \/ WriteBroken(c) \/ Disconnect(c) \/ Crash(c)
        PROVE  UNCHANGED <<written, inbox>>
    BY <2>6 DEF Connect, WriteSome, WriteBroken, Disconnect, Crash, Leave
  <2>7. QED
    BY <1>2, <2>1, <2>2, <2>4, <2>5, <2>6 DEF NetNext, Server, Works
<1>3. QED
  BY <1>1, <1>2, NetInvariant, PTL DEF NetSpec, TcpImplementsChannel, Channels!ChanSpec
=============================================================================
