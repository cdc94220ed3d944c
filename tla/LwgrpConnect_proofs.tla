------------------------ MODULE LwgrpConnect_proofs ------------------------
(***************************************************************************)
(* Proofs about LwgrpConnect, for any list of groups that are created in   *)
(* the order in which lwgrp_split creates them: the channel lists of every *)
(* member are right.                                                       *)
(***************************************************************************)
EXTENDS LwgrpConnect, SequenceTheorems, FiniteSetTheorems, WellFoundedInduction, TLAPS

-----------------------------------------------------------------------------
(* Distances and lists.                                                    *)

\* A set of numbers has a least one.
LEMMA LeastElement ==
    ASSUME NEW T \in SUBSET Nat, T # {}
    PROVE  \E x \in T : \A y \in T : x <= y
<1>1. PICK R : R = {ss \in Nat \X Nat : ss[1] < ss[2]}
  OBVIOUS
<1>2. IsWellFoundedOn(R, Nat)
  BY <1>1, NatLessThanWellFounded DEF OpToRel
<1>3. PICK x \in T : \A y \in T : ~(<<y, x>> \in R)
  BY <1>2, WFMin
<1>4. \A y \in T : ~(y < x)
  BY <1>1, <1>3
<1> QED
  BY <1>4

\* Induction, for a set of numbers.
LEMMA SetInduction ==
    ASSUME NEW S \in SUBSET Nat, 0 \in S, \A n \in S : n + 1 \in S
    PROVE  \A n \in Nat : n \in S
<1>1. SUFFICES ASSUME NEW k \in Nat, k \notin S PROVE FALSE
  OBVIOUS
<1>2. PICK x \in Nat \ S : \A y \in Nat \ S : x <= y
  BY <1>1, LeastElement
<1>3. x - 1 \in Nat /\ x - 1 \notin Nat \ S
  BY <1>2
<1>4. (x - 1) + 1 \in S
  BY <1>3
<1> QED
  BY <1>2, <1>4

\* The groups.
LEMMA GroupFacts ==
    /\ NumGroups \in Nat /\ DOMAIN Groups = 1..NumGroups
    /\ \A g \in DOMAIN Groups : Size(g) \in Nat /\ Size(g) > 0
    /\ \A g \in DOMAIN Groups : Members[g] \subseteq Procs
    /\ NoAddr \notin Procs
  BY GroupsAssumption DEF Procs, Members

\* The distance of a round exceeds its number, and grows with it.
LEMMA Distances ==
    ASSUME NEW g \in DOMAIN Groups
    PROVE  /\ \A d \in 0..(Size(g) + 1) : Dist(d) \in Nat /\ Dist(d) > d
           /\ \A d, e \in 0..(Size(g) + 1) : d < e => Dist(d) < Dist(e)
           /\ \A d \in 0..(Size(g) + 1) : Dist(d + 1) = 2 * Dist(d)
           /\ Dist(0) = 1
<1> DEFINE top == Size(g) + 1
<1>0. /\ top \in Nat /\ Dist(0) = 1 /\ \A d \in 0..top : Dist(d + 1) = 2 * Dist(d)
  BY GroupFacts, DistAssumption
<1> HIDE DEF top
<1>1. \A d \in Nat : d <= top => Dist(d) \in Nat /\ Dist(d) > d
  <2> DEFINE S == {d \in Nat : d <= top => Dist(d) \in Nat /\ Dist(d) > d}
  <2>1. 0 \in S
    BY <1>0
  <2>2. ASSUME NEW d \in S PROVE d + 1 \in S
    <3>1. CASE d + 1 <= top
      <4>1. d \in 0..top /\ Dist(d) \in Nat /\ Dist(d) > d
        BY <1>0, <3>1
      <4>2. Dist(d + 1) = 2 * Dist(d)
        BY <1>0, <4>1
      <4> QED
        BY <4>1, <4>2
    <3> QED
      BY <3>1
  <2> HIDE DEF S
  <2>3. \A d \in Nat : d \in S
    BY <2>1, <2>2, SetInduction DEF S
  <2> QED
    BY <2>3 DEF S
<1>2. \A e \in Nat : e <= top => \A d \in 0..top : d < e => Dist(d) < Dist(e)
  <2> DEFINE S == {e \in Nat : e <= top => \A d \in 0..top : d < e => Dist(d) < Dist(e)}
  <2>1. 0 \in S
    OBVIOUS
  <2>2. ASSUME NEW e \in S PROVE e + 1 \in S
    <3>1. ASSUME e + 1 <= top, NEW d \in 0..top, d < e + 1
          PROVE  Dist(d) < Dist(e + 1)
      <4>1. e \in 0..top /\ Dist(e) \in Nat /\ Dist(e) > 0
        BY <1>0, <1>1, <3>1
      <4>2. Dist(e + 1) = 2 * Dist(e)
        BY <1>0, <4>1
      <4>3. Dist(d) \in Nat /\ (d = e \/ Dist(d) < Dist(e))
        BY <1>0, <1>1, <3>1
      <4> QED
        BY <4>1, <4>2, <4>3
    <3> QED
      BY <3>1
  <2> HIDE DEF S
  <2>3. \A e \in Nat : e \in S
    BY <2>1, <2>2, SetInduction DEF S
  <2> QED
    BY <2>3 DEF S
<1> QED
  BY <1>0, <1>1, <1>2 DEF top

\* The rounds are the numbers below one at which the distance has reached the
\* size, and the lists have an entry for that one too.
LEMMA ListFacts ==
    ASSUME NEW g \in DOMAIN Groups
    PROVE  \E m \in 0..Size(g) :
               Rounds(g) = 0..(m - 1) /\ ListIndex(g) = 0..m /\ Dist(m) >= Size(g)
<1>0. Size(g) \in Nat /\ Size(g) > 0
  BY GroupFacts
<1> DEFINE T == {d \in 0..Size(g) : Dist(d) >= Size(g)}
<1>1. T # {} /\ T \in SUBSET Nat
  <2>1. Dist(Size(g)) \in Nat /\ Dist(Size(g)) > Size(g)
    BY <1>0, Distances
  <2>2. Size(g) \in T
    BY <1>0, <2>1
  <2> QED
    BY <1>0, <2>2
<1>2. PICK m \in T : \A y \in T : m <= y
  BY <1>1, LeastElement
<1>3. m \in 0..Size(g) /\ Dist(m) >= Size(g)
  OBVIOUS
<1>4. ASSUME NEW d \in 0..Size(g) PROVE Dist(d) < Size(g) <=> d \in 0..(m - 1)
  <2>1. d \in 0..(Size(g) + 1) /\ m \in 0..(Size(g) + 1)
    BY <1>0, <1>3
  <2>2. Dist(d) \in Nat /\ Dist(m) \in Nat /\ (m < d => Dist(m) < Dist(d))
    BY <2>1, Distances
  <2>3. ASSUME Dist(d) < Size(g) PROVE d < m
    BY <1>0, <1>3, <2>1, <2>2, <2>3
  <2>4. ASSUME d < m PROVE Dist(d) < Size(g)
    BY <1>0, <1>2, <1>3, <2>1, <2>2, <2>4
  <2> QED
    BY <1>3, <2>1, <2>3, <2>4
<1>5. Rounds(g) = 0..(m - 1)
  BY <1>0, <1>3, <1>4 DEF Rounds
<1>6. Cardinality(0..(m - 1)) = m
  <2>1. 0 \in Int /\ m - 1 \in Int /\ m \in Nat
    BY <1>0, <1>3
  <2> QED
    BY <2>1, FS_Interval
<1> QED
  BY <1>3, <1>5, <1>6 DEF ListIndex

\* The same, for one round.
LEMMA RoundFacts ==
    ASSUME NEW g \in DOMAIN Groups, NEW d \in Rounds(g)
    PROVE  /\ d \in Nat /\ d \in ListIndex(g) /\ d + 1 \in ListIndex(g)
           /\ Dist(d) \in Nat /\ Dist(d) > 0 /\ Dist(d) < Size(g) /\ Dist(d + 1) = 2 * Dist(d)
<1>1. d \in 0..Size(g) /\ Dist(d) < Size(g) /\ Size(g) \in Nat
  BY GroupFacts DEF Rounds
<1>2. d \in 0..(Size(g) + 1)
  BY <1>1
<1>3. Dist(d) \in Nat /\ Dist(d) > 0 /\ Dist(d + 1) = 2 * Dist(d)
  BY <1>2, Distances
<1>4. d \in ListIndex(g) /\ d + 1 \in ListIndex(g)
  BY <1>1, ListFacts
<1> QED
  BY <1>1, <1>3, <1>4

\* And for an entry that is not of a round.
LEMMA IndexFacts ==
    ASSUME NEW g \in DOMAIN Groups
    PROVE  /\ \A d \in ListIndex(g) : d \in Nat /\ Dist(d) \in Nat /\ Dist(d) > 0
           /\ \A d \in ListIndex(g) : d \notin Rounds(g) => Dist(d) >= Size(g)
           /\ 0 \in ListIndex(g)
           /\ \A d, e \in ListIndex(g) : d \notin Rounds(g) => e <= d
<1>1. PICK m \in 0..Size(g) :
               Rounds(g) = 0..(m - 1) /\ ListIndex(g) = 0..m /\ Dist(m) >= Size(g)
  BY ListFacts
<1>2. Size(g) \in Nat /\ \A d \in 0..(Size(g) + 1) : Dist(d) \in Nat /\ Dist(d) > d
  BY GroupFacts, Distances
<1>3. ASSUME NEW d \in ListIndex(g) PROVE d \in Nat /\ Dist(d) \in Nat /\ Dist(d) > 0
  BY <1>1, <1>2
<1>4. ASSUME NEW d \in ListIndex(g), d \notin Rounds(g) PROVE d = m
  BY <1>1, <1>2, <1>4
<1> QED
  BY <1>1, <1>2, <1>3, <1>4

-----------------------------------------------------------------------------
(* Members.                                                                *)

LEMMA RankFacts ==
    ASSUME NEW g \in DOMAIN Groups, NEW p \in Members[g]
    PROVE  Rank(g, p) \in 0..(Size(g) - 1) /\ Member(g, Rank(g, p)) = p
<1>1. Size(g) \in Nat /\ DOMAIN Groups[g] = 1..Size(g)
  BY GroupsAssumption
<1>2. PICK k \in 1..Size(g) : Groups[g][k] = p
  BY <1>1 DEF Members, Range
<1>3. k - 1 \in 0..(Size(g) - 1) /\ Groups[g][(k - 1) + 1] = p
  BY <1>1, <1>2
<1>4. \E r \in 0..(Size(g) - 1) : Groups[g][r + 1] = p
  BY <1>3
<1>5. Rank(g, p) = CHOOSE r \in 0..(Size(g) - 1) : Groups[g][r + 1] = p
  BY DEF Rank, RankOf
<1>6. Rank(g, p) \in 0..(Size(g) - 1) /\ Groups[g][Rank(g, p) + 1] = p
  BY <1>4, <1>5
<1> QED
  BY <1>6 DEF Member

LEMMA MemberFacts ==
    ASSUME NEW g \in DOMAIN Groups, NEW r \in Int
    PROVE  /\ r \in 0..(Size(g) - 1) => Member(g, r) \in Members[g] /\ Rank(g, Member(g, r)) = r
           /\ r \notin 0..(Size(g) - 1) => Member(g, r) = NoAddr
           /\ Member(g, r) \in Procs \cup {NoAddr}
           /\ Member(g, r) # NoAddr <=> r \in 0..(Size(g) - 1)
<1>1. Size(g) \in Nat /\ DOMAIN Groups[g] = 1..Size(g) /\ IsInjective(Groups[g])
  BY GroupsAssumption
<1>2. ASSUME r \in 0..(Size(g) - 1)
      PROVE  Member(g, r) \in Members[g] /\ Rank(g, Member(g, r)) = r
  <2>1. r + 1 \in 1..Size(g) /\ Member(g, r) = Groups[g][r + 1]
    BY <1>1, <1>2 DEF Member
  <2>2. Member(g, r) \in Members[g]
    BY <1>1, <2>1 DEF Members, Range
  <2> DEFINE s == Rank(g, Member(g, r))
  <2>3. s \in 0..(Size(g) - 1) /\ Member(g, s) = Member(g, r)
    BY <2>2, RankFacts
  <2>4. s + 1 \in 1..Size(g) /\ Groups[g][s + 1] = Groups[g][r + 1]
    BY <1>1, <1>2, <2>3 DEF Member
  <2> HIDE DEF s
  <2>5. s + 1 = r + 1
    BY <1>1, <2>1, <2>4 DEF IsInjective
  <2>6. s = r
    BY <1>1, <2>3, <2>5
  <2> QED
    BY <2>2, <2>6 DEF s
<1>3. r \notin 0..(Size(g) - 1) => Member(g, r) = NoAddr
  BY DEF Member
<1> QED
  BY <1>2, <1>3, GroupFacts

\* The neighbours of a member.
LEMMA NeighbourFacts ==
    ASSUME NEW g \in DOMAIN Groups, NEW p \in Members[g], NEW d \in Nat,
           Dist(d) \in Nat, Dist(d) > 0
    PROVE  /\ AtLeft(p, g, d) \in Members[g] \cup {NoAddr}
           /\ AtRight(p, g, d) \in Members[g] \cup {NoAddr}
           /\ AtLeft(p, g, d) # NoAddr <=> Rank(g, p) - Dist(d) >= 0
           /\ AtRight(p, g, d) # NoAddr <=> Rank(g, p) + Dist(d) < Size(g)
           /\ AtLeft(p, g, d) # NoAddr =>
                 /\ AtLeft(p, g, d) # p
                 /\ Rank(g, AtLeft(p, g, d)) = Rank(g, p) - Dist(d)
                 /\ AtRight(AtLeft(p, g, d), g, d) = p
           /\ AtRight(p, g, d) # NoAddr =>
                 /\ AtRight(p, g, d) # p
                 /\ Rank(g, AtRight(p, g, d)) = Rank(g, p) + Dist(d)
                 /\ AtLeft(AtRight(p, g, d), g, d) = p
<1>1. /\ Rank(g, p) \in 0..(Size(g) - 1) /\ Member(g, Rank(g, p)) = p
      /\ Size(g) \in Nat
  BY RankFacts, GroupFacts
<1> DEFINE a == Rank(g, p) - Dist(d)
           b == Rank(g, p) + Dist(d)
<1>2. a \in Int /\ b \in Int /\ a < Size(g) /\ b >= 0 /\ a # Rank(g, p) /\ b # Rank(g, p)
      /\ a + Dist(d) = Rank(g, p) /\ b - Dist(d) = Rank(g, p)
  BY <1>1
<1>3. AtLeft(p, g, d) = Member(g, a) /\ AtRight(p, g, d) = Member(g, b)
  BY DEF AtLeft, AtRight
<1>4. a \in 0..(Size(g) - 1) <=> a >= 0
  BY <1>1, <1>2
<1>5. b \in 0..(Size(g) - 1) <=> b < Size(g)
  BY <1>1, <1>2
<1> HIDE DEF a, b
<1>6. /\ a \in 0..(Size(g) - 1) => Member(g, a) \in Members[g] /\ Rank(g, Member(g, a)) = a
      /\ b \in 0..(Size(g) - 1) => Member(g, b) \in Members[g] /\ Rank(g, Member(g, b)) = b
      /\ Member(g, a) # NoAddr <=> a \in 0..(Size(g) - 1)
      /\ Member(g, b) # NoAddr <=> b \in 0..(Size(g) - 1)
  BY <1>2, MemberFacts
<1>7. a >= 0 => AtRight(Member(g, a), g, d) = p
  BY <1>1, <1>2, <1>4, <1>6 DEF AtRight
<1>8. b < Size(g) => AtLeft(Member(g, b), g, d) = p
  BY <1>1, <1>2, <1>5, <1>6 DEF AtLeft
<1>9. Member(g, a) # NoAddr => Member(g, a) # p
  BY <1>2, <1>6
<1>10. Member(g, b) # NoAddr => Member(g, b) # p
  BY <1>2, <1>6
<1> QED
  BY <1>3, <1>4, <1>5, <1>6, <1>7, <1>8, <1>9, <1>10 DEF a, b

\* What a neighbour hands on is the address of the next round.
LEMMA DoubleFacts ==
    ASSUME NEW g \in DOMAIN Groups, NEW p \in Members[g], NEW d \in Rounds(g)
    PROVE  /\ AtRight(p, g, d) = NoAddr => AtRight(p, g, d + 1) = NoAddr
           /\ AtRight(p, g, d) # NoAddr =>
                 AtRight(AtRight(p, g, d), g, d) = AtRight(p, g, d + 1)
           /\ AtLeft(p, g, d) = NoAddr => AtLeft(p, g, d + 1) = NoAddr
           /\ AtLeft(p, g, d) # NoAddr =>
                 AtLeft(AtLeft(p, g, d), g, d) = AtLeft(p, g, d + 1)
<1>1. /\ d \in Nat /\ d + 1 \in Nat /\ Dist(d) \in Nat /\ Dist(d) > 0
      /\ Dist(d + 1) = Dist(d) + Dist(d) /\ Dist(d + 1) \in Nat /\ Dist(d + 1) > 0
  BY RoundFacts
<1>2. Rank(g, p) \in Int /\ Size(g) \in Nat
  BY RankFacts, GroupFacts
<1>3. AtRight(p, g, d) = NoAddr => AtRight(p, g, d + 1) = NoAddr
  <2>1. /\ AtRight(p, g, d) # NoAddr <=> Rank(g, p) + Dist(d) < Size(g)
        /\ AtRight(p, g, d + 1) # NoAddr <=> Rank(g, p) + Dist(d + 1) < Size(g)
    BY <1>1, NeighbourFacts
  <2> QED
    BY <1>1, <1>2, <2>1
<1>4. AtLeft(p, g, d) = NoAddr => AtLeft(p, g, d + 1) = NoAddr
  <2>1. /\ AtLeft(p, g, d) # NoAddr <=> Rank(g, p) - Dist(d) >= 0
        /\ AtLeft(p, g, d + 1) # NoAddr <=> Rank(g, p) - Dist(d + 1) >= 0
    BY <1>1, NeighbourFacts
  <2> QED
    BY <1>1, <1>2, <2>1
<1>5. ASSUME AtRight(p, g, d) # NoAddr
      PROVE  AtRight(AtRight(p, g, d), g, d) = AtRight(p, g, d + 1)
  <2>1. Rank(g, AtRight(p, g, d)) = Rank(g, p) + Dist(d)
    BY <1>1, <1>5, NeighbourFacts
  <2>2. Rank(g, AtRight(p, g, d)) + Dist(d) = Rank(g, p) + Dist(d + 1)
    BY <1>1, <1>2, <2>1
  <2> QED
    BY <2>2 DEF AtRight
<1>6. ASSUME AtLeft(p, g, d) # NoAddr
      PROVE  AtLeft(AtLeft(p, g, d), g, d) = AtLeft(p, g, d + 1)
  <2>1. Rank(g, AtLeft(p, g, d)) = Rank(g, p) - Dist(d)
    BY <1>1, <1>6, NeighbourFacts
  <2>2. Rank(g, AtLeft(p, g, d)) - Dist(d) = Rank(g, p) - Dist(d + 1)
    BY <1>1, <1>2, <2>1
  <2> QED
    BY <2>2 DEF AtLeft
<1> QED
  BY <1>3, <1>4, <1>5, <1>6

\* The next group of a process.
LEMMA NextFacts ==
    ASSUME NEW p \in Procs, NEW g \in 0..NumGroups
    PROVE  /\ NextGroup(p, g) \in 1..(NumGroups + 1) /\ NextGroup(p, g) > g
           /\ NextGroup(p, g) <= NumGroups =>
                 NextGroup(p, g) \in DOMAIN Groups /\ p \in Members[NextGroup(p, g)]
           /\ \A h \in DOMAIN Groups : h > g /\ p \in Members[h] => NextGroup(p, g) <= h
<1> DEFINE T == {h \in DOMAIN Groups : h > g /\ p \in Members[h]} \cup {NumGroups + 1}
<1>0. NumGroups \in Nat /\ DOMAIN Groups = 1..NumGroups
  BY GroupFacts
<1>1. T \in SUBSET Nat /\ T # {}
  BY <1>0
<1>2. \E x \in T : \A y \in T : x <= y
  BY <1>1, LeastElement
<1>3. NextGroup(p, g) = CHOOSE x \in T : \A y \in T : x =< y
  BY DEF NextGroup, Min
<1>4. NextGroup(p, g) \in T /\ \A y \in T : NextGroup(p, g) <= y
  BY <1>2, <1>3
<1> QED
  BY <1>0, <1>4

\* The addresses a caller gives are those of round 0.
LEMMA GivenFacts ==
    ASSUME NEW p \in Procs, NEW g \in 1..(NumGroups + 1), g <= NumGroups => p \in Members[g]
    PROVE  /\ Given(p, g) \in [left : Procs \cup {NoAddr}, right : Procs \cup {NoAddr}]
           /\ g > NumGroups => Given(p, g).left = NoAddr /\ Given(p, g).right = NoAddr
           /\ g <= NumGroups =>
                 Given(p, g).left = AtLeft(p, g, 0) /\ Given(p, g).right = AtRight(p, g, 0)
<1>0. NumGroups \in Nat /\ DOMAIN Groups = 1..NumGroups
  BY GroupFacts
<1>1. CASE g > NumGroups
  BY <1>0, <1>1 DEF Given
<1>2. CASE g <= NumGroups
  <2>1. g \in DOMAIN Groups /\ p \in Members[g] /\ Dist(0) = 1
    BY <1>0, <1>2, DistAssumption
  <2>2. Rank(g, p) - 1 \in Int /\ Rank(g, p) + 1 \in Int
    BY <2>1, RankFacts, GroupFacts
  <2>3. /\ Member(g, Rank(g, p) - 1) \in Procs \cup {NoAddr}
        /\ Member(g, Rank(g, p) + 1) \in Procs \cup {NoAddr}
    BY <2>1, <2>2, MemberFacts
  <2>4. Given(p, g) = [left |-> Member(g, Rank(g, p) - 1), right |-> Member(g, Rank(g, p) + 1)]
    BY <1>0, <1>2 DEF Given
  <2> QED
    BY <1>0, <1>2, <2>1, <2>3, <2>4 DEF AtLeft, AtRight
<1> QED
  BY <1>0, <1>1, <1>2

-----------------------------------------------------------------------------
(* What a step leaves alone.                                               *)

Places == [g : 1..(NumGroups + 1), d : Nat, at : Steps, call : {"none", "wait"}]

\* Where a process in a round is.
LEMMA RoundPlace ==
    ASSUME ConnectInv, NEW p \in Procs, InRound(p)
    PROVE  /\ Group(p) \in DOMAIN Groups /\ p \in Members[Group(p)] /\ ~Finished(p)
           /\ pc[p].d \in Rounds(Group(p)) /\ pc[p] \in Places
           /\ HasLeft(p) <=> AtLeft(p, Group(p), pc[p].d) # NoAddr
           /\ HasRight(p) <=> AtRight(p, Group(p), pc[p].d) # NoAddr
           /\ AddrOK(p) /\ PlaceOK(p)
<1>1. pc[p] \in Places /\ pc[p].g \in 1..(NumGroups + 1) /\ AddrOK(p) /\ PlaceOK(p)
  BY DEF ConnectInv, ShapeOK, Places
<1>2. ~Finished(p) /\ pc[p].d \in Rounds(Group(p))
  BY DEF InRound
<1>3. Group(p) \in DOMAIN Groups /\ p \in Members[Group(p)]
  BY <1>1, <1>2, GroupFacts DEF PlaceOK, Finished, Group
<1>4. pc[p].d \in Nat /\ Dist(pc[p].d) \in Nat /\ Dist(pc[p].d) > 0
  BY <1>2, <1>3, RoundFacts
<1>5. /\ HasLeft(p) <=> AtLeft(p, Group(p), pc[p].d) # NoAddr
      /\ HasRight(p) <=> AtRight(p, Group(p), pc[p].d) # NoAddr
  BY <1>3, <1>4, NeighbourFacts DEF HasLeft, HasRight
<1> QED
  BY <1>1, <1>2, <1>3, <1>5

LEMMA PlaceKeeps ==
    ASSUME NEW x \in Procs, pc'[x] = pc[x], PlaceOK(x)
    PROVE  PlaceOK(x)'
  BY DEF PlaceOK, Finished, Group, InRound

LEMMA AddrKeeps ==
    ASSUME NEW x \in Procs, pc'[x] = pc[x], addr'[x] = addr[x], AddrOK(x)
    PROVE  AddrOK(x)'
  BY DEF AddrOK, Finished, Group

LEMMA EntriesKeep ==
    ASSUME NEW x \in Procs, NEW g, NEW d, pc'[x] = pc[x],
           listLeft'[x][g][d] = listLeft[x][g][d], listRight'[x][g][d] = listRight[x][g][d],
           EntriesOK(x, g, d)
    PROVE  EntriesOK(x, g, d)'
<1>1. /\ Accepted(x, g, d)' <=> Accepted(x, g, d)
      /\ Connected(x, g, d)' <=> Connected(x, g, d)
  BY DEF Accepted, Connected, Past, Here, InRound, Finished, Group, IsOdd
<1> QED
  BY <1>1 DEF EntriesOK

LEMMA RequestKeeps ==
    ASSUME NEW q, NEW ch, RequestOK(q, ch), pc'[ch[1]] = pc[ch[1]]
    PROVE  RequestOK(q, ch)'
  BY DEF RequestOK, Group, Connecting, InRound, Finished, Accepts, IsOdd, Waits, HasRight

\* A step within a group keeps what was created.
LEMMA SyncKeeps ==
    ASSUME SyncOK,
           \A x \in Procs : pc'[x].g = pc[x].g /\ (pc'[x].d = pc[x].d \/ InRound(x))
    PROVE  SyncOK'
<1>1. SUFFICES ASSUME NEW g \in DOMAIN Groups, NEW p \in Members[g], NEW q \in Members[g],
                      pc'[p].g > g
               PROVE  HasCreated(q, g)'
  BY DEF SyncOK
<1>2. p \in Procs /\ q \in Procs
  BY GroupFacts
<1>3. HasCreated(q, g)
  BY <1>1, <1>2 DEF SyncOK
<1> QED
  BY <1>2, <1>3 DEF HasCreated, InRound, Group

\* A process that is not in lwgrp_connect_right has no request.
LEMMA NoRequest ==
    ASSUME ConnectInv, NEW p \in Procs, ~(Connecting(p) /\ ~Accepts(p) /\ Waits(p)),
           NEW q \in Procs, NEW k \in 1..Len(reqs[q])
    PROVE  reqs[q][k][1] # p
  BY DEF ConnectInv, RequestsOK, RequestOK

\* The requests after a step, each by itself.
LEMMA RequestsIntro ==
    ASSUME NEW q \in Procs,
           \A k \in 1..Len(reqs'[q]) : \E ch : ch = reqs'[q][k] /\ RequestOK(q, ch)',
           \A k, l \in 1..Len(reqs'[q]) : reqs'[q][k] = reqs'[q][l] => k = l
    PROVE  RequestsOK(q)'
<1>1. ASSUME NEW k \in 1..Len(reqs'[q]) PROVE RequestOK(q, reqs[q][k])'
  <2>1. PICK ch : ch = reqs'[q][k] /\ RequestOK(q, ch)'
    OBVIOUS
  <2> QED
    BY <2>1 DEF RequestOK, Group, Connecting, InRound, Finished, Accepts, IsOdd, Waits,
               HasRight, AtRight
<1> QED
  BY <1>1 DEF RequestsOK

LEMMA RequestsKeep ==
    ASSUME ConnectInv, NEW p \in Procs, ~(Connecting(p) /\ ~Accepts(p) /\ Waits(p)),
           \A x \in Procs : x # p => pc'[x] = pc[x], reqs' = reqs, NEW q \in Procs
    PROVE  RequestsOK(q)'
<1>1. ASSUME NEW k \in 1..Len(reqs'[q]) PROVE \E ch : ch = reqs'[q][k] /\ RequestOK(q, ch)'
  <2>1. PICK ch : ch = reqs[q][k]
    OBVIOUS
  <2>2. RequestOK(q, ch) /\ ch[1] # p
    BY <2>1, NoRequest DEF ConnectInv, RequestsOK
  <2>3. pc'[ch[1]] = pc[ch[1]]
    BY <2>2 DEF RequestOK
  <2>4. RequestOK(q, ch)'
    BY <2>2, <2>3, RequestKeeps
  <2> QED
    BY <2>1, <2>4
<1>2. \A k, l \in 1..Len(reqs'[q]) : reqs'[q][k] = reqs'[q][l] => k = l
  BY DEF ConnectInv, RequestsOK
<1> QED
  BY <1>1, <1>2, RequestsIntro

Addresses == [left : Procs \cup {NoAddr}, right : Procs \cup {NoAddr}]

\* The lists keep their shape when they are not changed, or one entry is.
LEMMA ShapeIntro ==
    ASSUME pc' \in [Procs -> Places], addr' \in [Procs -> Addresses],
           reqs' \in [Procs -> Seq(Channels)], ShapeOK,
           DOMAIN listLeft' = Procs, DOMAIN listRight' = Procs,
           \A x \in Procs : /\ DOMAIN listLeft'[x] = DOMAIN listLeft[x]
                            /\ DOMAIN listRight'[x] = DOMAIN listRight[x],
           \A x \in Procs : \A g \in DOMAIN Groups :
               /\ DOMAIN listLeft'[x][g] = DOMAIN listLeft[x][g]
               /\ DOMAIN listRight'[x][g] = DOMAIN listRight[x][g]
    PROVE  ShapeOK'
  BY DEF ShapeOK, Places, Addresses

\* A step of one process in a round that does not touch the lists.
LEMMA LoneStep ==
    ASSUME ConnectInv, NEW p \in Procs, InRound(p),
           pc' \in [Procs -> Places], \A x \in Procs : x # p => pc'[x] = pc[x],
           pc'[p].g = pc[p].g,
           addr' \in [Procs -> Addresses], \A x \in Procs : x # p => addr'[x] = addr[x],
           listLeft' = listLeft, listRight' = listRight,
           reqs' \in [Procs -> Seq(Channels)], \A x \in Procs : RequestsOK(x)',
           PlaceOK(p)', AddrOK(p)',
           \A g \in DOMAIN Groups : \A d \in ListIndex(g) : p \in Members[g] =>
               /\ Accepted(p, g, d)' => listLeft[p][g][d] = LeftChannel(p, g, d)
               /\ Connected(p, g, d)' => listRight[p][g][d] = RightChannel(p, g, d),
           \A m \in wire' : MessageOK(m)
    PROVE  ConnectInv'
<1>1. ShapeOK'
  BY ShapeIntro DEF ConnectInv, ShapeOK
<1>2. ASSUME NEW x \in Procs PROVE PlaceOK(x)' /\ AddrOK(x)'
  <2>1. CASE x = p
    BY <2>1
  <2>2. CASE x # p
    BY <2>2, PlaceKeeps, AddrKeeps DEF ConnectInv
  <2> QED
    BY <2>1, <2>2
<1>3. ASSUME NEW x \in Procs, NEW g \in DOMAIN Groups, NEW d \in ListIndex(g)
      PROVE  EntriesOK(x, g, d)'
  <2>1. EntriesOK(x, g, d)
    BY DEF ConnectInv
  <2>2. CASE x = p
    BY <2>1, <2>2 DEF EntriesOK
  <2>3. CASE x # p
    BY <2>1, <2>3, EntriesKeep
  <2> QED
    BY <2>2, <2>3
<1>4. SyncOK'
  BY SyncKeeps DEF ConnectInv
<1> QED
  BY <1>1, <1>2, <1>3, <1>4 DEF ConnectInv

\* The same when it does not touch requests either.
LEMMA QuietStep ==
    ASSUME ConnectInv, NEW p \in Procs, InRound(p), ~(Connecting(p) /\ ~Accepts(p) /\ Waits(p)),
           pc' \in [Procs -> Places], \A x \in Procs : x # p => pc'[x] = pc[x],
           pc'[p].g = pc[p].g,
           addr' \in [Procs -> Addresses], \A x \in Procs : x # p => addr'[x] = addr[x],
           listLeft' = listLeft, listRight' = listRight, reqs' = reqs,
           PlaceOK(p)', AddrOK(p)',
           \A g \in DOMAIN Groups : \A d \in ListIndex(g) : p \in Members[g] =>
               /\ Accepted(p, g, d)' => listLeft[p][g][d] = LeftChannel(p, g, d)
               /\ Connected(p, g, d)' => listRight[p][g][d] = RightChannel(p, g, d),
           \A m \in wire' : MessageOK(m)
    PROVE  ConnectInv'
<1>1. reqs' \in [Procs -> Seq(Channels)]
  BY DEF ConnectInv, ShapeOK
<1>2. ASSUME NEW x \in Procs PROVE RequestsOK(x)'
  BY RequestsKeep
<1> QED
  BY <1>1, <1>2, LoneStep

\* A step to another place in the round.
LEMMA GotoFacts ==
    ASSUME ConnectInv, NEW p \in Procs, InRound(p), NEW step \in Steps, Goto(p, step)
    PROVE  /\ pc' \in [Procs -> Places] /\ \A x \in Procs : x # p => pc'[x] = pc[x]
           /\ pc'[p].g = pc[p].g /\ pc'[p].d = pc[p].d /\ pc'[p].at = step
           /\ pc'[p].call = "none" /\ InRound(p)' /\ PlaceOK(p)'
<1>1. pc \in [Procs -> Places]
  BY DEF ConnectInv, ShapeOK, Places
<1>2. pc' \in [Procs -> Places] /\ \A x \in Procs : x # p => pc'[x] = pc[x]
  BY <1>1 DEF Goto, Places
<1>3. pc'[p].g = pc[p].g /\ pc'[p].d = pc[p].d /\ pc'[p].at = step /\ pc'[p].call = "none"
  BY <1>1 DEF Goto, Places
<1>4. InRound(p)'
  BY <1>3 DEF InRound, Finished, Group
<1>5. PlaceOK(p)'
  BY <1>3, <1>4, RoundPlace DEF PlaceOK, Finished, Group
<1> QED
  BY <1>2, <1>3, <1>4, <1>5

\* Once both channels of the round are there, they stay.
LEMMA ConnectedStays ==
    ASSUME ConnectInv, NEW p \in Procs, InRound(p), pc[p].at \notin {FirstStep, "second"},
           pc'[p].g = pc[p].g, pc'[p].d = pc[p].d,
           NEW g \in DOMAIN Groups, NEW d \in ListIndex(g), p \in Members[g]
    PROVE  /\ Accepted(p, g, d)' => listLeft[p][g][d] = LeftChannel(p, g, d)
           /\ Connected(p, g, d)' => listRight[p][g][d] = RightChannel(p, g, d)
<1>1. EntriesOK(p, g, d)
  BY DEF ConnectInv
<1>2. (Accepted(p, g, d)' => Accepted(p, g, d)) /\ (Connected(p, g, d)' => Connected(p, g, d))
  BY DEF Accepted, Connected, Past, Here, InRound, Finished, Group
<1> QED
  BY <1>1, <1>2 DEF EntriesOK

\* The channels of the round.
LEMMA RoundChannels ==
    ASSUME ConnectInv, NEW p \in Procs, InRound(p), pc[p].at \notin {FirstStep, "second"}
    PROVE  LET g == Group(p)
               d == pc[p].d
           IN  /\ HasLeft(p) =>
                     /\ AtLeft(p, g, d) \in Members[g] /\ AtLeft(p, g, d) # p
                     /\ AtRight(AtLeft(p, g, d), g, d) = p
                     /\ listLeft[p][g][d] = Channel(AtLeft(p, g, d), p, g, d)
               /\ HasRight(p) =>
                     /\ AtRight(p, g, d) \in Members[g] /\ AtRight(p, g, d) # p
                     /\ listRight[p][g][d] = Channel(p, AtRight(p, g, d), g, d)
<1> DEFINE g == Group(p)
           d == pc[p].d
<1>1. /\ g \in DOMAIN Groups /\ p \in Members[g] /\ d \in Rounds(g)
      /\ HasLeft(p) <=> AtLeft(p, g, d) # NoAddr
      /\ HasRight(p) <=> AtRight(p, g, d) # NoAddr
  BY RoundPlace
<1>2. d \in ListIndex(g) /\ d \in Nat /\ Dist(d) \in Nat /\ Dist(d) > 0
  BY <1>1, RoundFacts
<1>3. EntriesOK(p, g, d)
  BY <1>1, <1>2 DEF ConnectInv
<1>4. Accepted(p, g, d) /\ Connected(p, g, d)
  BY DEF Accepted, Connected, Here, FirstStep
<1>5. listLeft[p][g][d] = LeftChannel(p, g, d) /\ listRight[p][g][d] = RightChannel(p, g, d)
  BY <1>1, <1>3, <1>4 DEF EntriesOK
<1> HIDE DEF g, d
<1>6. /\ AtLeft(p, g, d) # NoAddr =>
            /\ AtLeft(p, g, d) \in Members[g] /\ AtLeft(p, g, d) # p
            /\ AtRight(AtLeft(p, g, d), g, d) = p
      /\ AtRight(p, g, d) # NoAddr => AtRight(p, g, d) \in Members[g] /\ AtRight(p, g, d) # p
  BY <1>1, <1>2, NeighbourFacts
<1>7. /\ HasLeft(p) =>
            /\ AtLeft(p, g, d) \in Members[g] /\ AtLeft(p, g, d) # p
            /\ AtRight(AtLeft(p, g, d), g, d) = p
            /\ listLeft[p][g][d] = Channel(AtLeft(p, g, d), p, g, d)
      /\ HasRight(p) =>
            /\ AtRight(p, g, d) \in Members[g] /\ AtRight(p, g, d) # p
            /\ listRight[p][g][d] = Channel(p, AtRight(p, g, d), g, d)
  BY <1>1, <1>5, <1>6 DEF LeftChannel, RightChannel
<1> QED
  BY <1>7 DEF g, d

-----------------------------------------------------------------------------
(* The actions.                                                            *)

LEMMA SendLeftKeeps ==
    ASSUME ConnectInv, NEW p \in Procs, SendLeft(p)
    PROVE  ConnectInv'
<1> DEFINE g == Group(p)
           d == pc[p].d
<1>0. InRound(p) /\ pc[p].at = "sendLeft" /\ Goto(p, "sendRight") /\ "sendRight" \in Steps
      /\ listLeft' = listLeft /\ listRight' = listRight /\ reqs' = reqs /\ addr' = addr
  BY DEF SendLeft, At, Steps
<1>1. /\ pc' \in [Procs -> Places] /\ \A x \in Procs : x # p => pc'[x] = pc[x]
      /\ pc'[p].g = pc[p].g /\ pc'[p].d = pc[p].d /\ pc'[p].at = "sendRight"
      /\ PlaceOK(p)'
  BY <1>0, GotoFacts
<1>2. /\ g \in DOMAIN Groups /\ p \in Members[g] /\ ~Finished(p) /\ d \in Rounds(g) /\ AddrOK(p)
  BY <1>0, RoundPlace
<1>3. AddrOK(p)'
  BY <1>0, <1>1, <1>2 DEF AddrOK, Finished, Group
<1>4. addr' \in [Procs -> Addresses] /\ ~Connecting(p) /\ pc[p].at \notin {FirstStep, "second"}
  BY <1>0 DEF ConnectInv, ShapeOK, Addresses, Connecting, FirstStep
<1>5. ASSUME NEW h \in DOMAIN Groups, NEW e \in ListIndex(h), p \in Members[h]
      PROVE  /\ Accepted(p, h, e)' => listLeft[p][h][e] = LeftChannel(p, h, e)
             /\ Connected(p, h, e)' => listRight[p][h][e] = RightChannel(p, h, e)
  BY <1>0, <1>1, <1>4, <1>5, ConnectedStays
<1>6. ASSUME NEW m \in wire' PROVE MessageOK(m)
  <2>1. CASE m \in wire
    BY <2>1 DEF ConnectInv
  <2>2. CASE m \notin wire
    <3>1. /\ HasLeft(p)
          /\ m = Message(listLeft[p][g][d], PeerOn(p, listLeft[p][g][d]), NextFor(p, "left"))
      BY <2>2 DEF SendLeft
    <3> DEFINE l == AtLeft(p, g, d)
    <3>2. l \in Members[g] /\ l # p /\ AtRight(l, g, d) = p /\ listLeft[p][g][d] = Channel(l, p, g, d)
      BY <1>0, <1>4, <3>1, RoundChannels
    <3>3. addr[p].right = AtRight(p, g, d) /\ NextFor(p, "left") = addr[p].right
      BY <1>2 DEF AddrOK, NextFor
    <3> HIDE DEF l, g, d
    <3>4. m.ch = Channel(l, p, g, d) /\ m.to = l /\ m.text = AtRight(p, g, d)
      BY <3>1, <3>2, <3>3 DEF Message, PeerOn, Channel
    <3> QED
      BY <1>2, <3>2, <3>4 DEF MessageOK
  <2> QED
    BY <2>1, <2>2
<1> QED
  BY <1>0, <1>1, <1>3, <1>4, <1>5, <1>6, QuietStep

LEMMA SendRightKeeps ==
    ASSUME ConnectInv, NEW p \in Procs, SendRight(p)
    PROVE  ConnectInv'
<1> DEFINE g == Group(p)
           d == pc[p].d
<1>0. InRound(p) /\ pc[p].at = "sendRight" /\ Goto(p, "recvLeft") /\ "recvLeft" \in Steps
      /\ listLeft' = listLeft /\ listRight' = listRight /\ reqs' = reqs /\ addr' = addr
  BY DEF SendRight, At, Steps
<1>1. /\ pc' \in [Procs -> Places] /\ \A x \in Procs : x # p => pc'[x] = pc[x]
      /\ pc'[p].g = pc[p].g /\ pc'[p].d = pc[p].d /\ pc'[p].at = "recvLeft"
      /\ PlaceOK(p)'
  BY <1>0, GotoFacts
<1>2. /\ g \in DOMAIN Groups /\ p \in Members[g] /\ ~Finished(p) /\ d \in Rounds(g) /\ AddrOK(p)
  BY <1>0, RoundPlace
<1>3. AddrOK(p)'
  BY <1>0, <1>1, <1>2 DEF AddrOK, Finished, Group
<1>4. addr' \in [Procs -> Addresses] /\ ~Connecting(p) /\ pc[p].at \notin {FirstStep, "second"}
  BY <1>0 DEF ConnectInv, ShapeOK, Addresses, Connecting, FirstStep
<1>5. ASSUME NEW h \in DOMAIN Groups, NEW e \in ListIndex(h), p \in Members[h]
      PROVE  /\ Accepted(p, h, e)' => listLeft[p][h][e] = LeftChannel(p, h, e)
             /\ Connected(p, h, e)' => listRight[p][h][e] = RightChannel(p, h, e)
  BY <1>0, <1>1, <1>4, <1>5, ConnectedStays
<1>6. ASSUME NEW m \in wire' PROVE MessageOK(m)
  <2>1. CASE m \in wire
    BY <2>1 DEF ConnectInv
  <2>2. CASE m \notin wire
    <3>1. /\ HasRight(p)
          /\ m = Message(listRight[p][g][d], PeerOn(p, listRight[p][g][d]), NextFor(p, "right"))
      BY <2>2 DEF SendRight
    <3> DEFINE q == AtRight(p, g, d)
    <3>2. q \in Members[g] /\ q # p /\ listRight[p][g][d] = Channel(p, q, g, d)
      BY <1>0, <1>4, <3>1, RoundChannels
    <3>3. addr[p].left = AtLeft(p, g, d) /\ NextFor(p, "right") = addr[p].left
      BY <1>0, <1>2 DEF AddrOK, NextFor
    <3>4. m.ch = Channel(p, q, g, d) /\ m.to = q /\ m.text = AtLeft(p, g, d)
      <4> HIDE DEF q, g, d
      <4> QED
        BY <3>1, <3>2, <3>3 DEF Message, PeerOn, Channel
    <3> QED
      BY <1>2, <3>2, <3>4 DEF MessageOK
  <2> QED
    BY <2>1, <2>2
<1> QED
  BY <1>0, <1>1, <1>3, <1>4, <1>5, <1>6, QuietStep

\* What a message of the round says to its reader.
LEMMA MessageFromLeft ==
    ASSUME NEW m, MessageOK(m), NEW g \in DOMAIN Groups, NEW d \in Rounds(g),
           NEW p \in Members[g], AtLeft(p, g, d) # NoAddr, AtLeft(p, g, d) # p,
           m.ch = Channel(AtLeft(p, g, d), p, g, d), m.to = p
    PROVE  m.text = AtLeft(p, g, d + 1)
<1>1. PICK h \in DOMAIN Groups : \E e \in Rounds(h), a \in Members[h], b \in Members[h] :
        /\ b = AtRight(a, h, e) /\ m.ch = Channel(a, b, h, e)
        /\ \/ m.to = a /\ m.text = AtRight(b, h, e)
           \/ m.to = b /\ m.text = AtLeft(a, h, e)
  BY DEF MessageOK
<1>2. PICK e \in Rounds(h), a \in Members[h], b \in Members[h] :
        /\ b = AtRight(a, h, e) /\ m.ch = Channel(a, b, h, e)
        /\ \/ m.to = a /\ m.text = AtRight(b, h, e)
           \/ m.to = b /\ m.text = AtLeft(a, h, e)
  BY <1>1
<1>3. a = AtLeft(p, g, d) /\ b = p /\ h = g /\ e = d
  BY <1>2 DEF Channel
<1>4. m.text = AtLeft(AtLeft(p, g, d), g, d)
  BY <1>2, <1>3
<1> QED
  BY <1>4, DoubleFacts

LEMMA MessageFromRight ==
    ASSUME NEW m, MessageOK(m), NEW g \in DOMAIN Groups, NEW d \in Rounds(g),
           NEW p \in Members[g], AtRight(p, g, d) # NoAddr, AtRight(p, g, d) # p,
           m.ch = Channel(p, AtRight(p, g, d), g, d), m.to = p
    PROVE  m.text = AtRight(p, g, d + 1)
<1>1. PICK h \in DOMAIN Groups : \E e \in Rounds(h), a \in Members[h], b \in Members[h] :
        /\ b = AtRight(a, h, e) /\ m.ch = Channel(a, b, h, e)
        /\ \/ m.to = a /\ m.text = AtRight(b, h, e)
           \/ m.to = b /\ m.text = AtLeft(a, h, e)
  BY DEF MessageOK
<1>2. PICK e \in Rounds(h), a \in Members[h], b \in Members[h] :
        /\ b = AtRight(a, h, e) /\ m.ch = Channel(a, b, h, e)
        /\ \/ m.to = a /\ m.text = AtRight(b, h, e)
           \/ m.to = b /\ m.text = AtLeft(a, h, e)
  BY <1>1
<1>3. b = AtRight(p, g, d) /\ a = p /\ h = g /\ e = d
  BY <1>2 DEF Channel
<1>4. m.text = AtRight(AtRight(p, g, d), g, d)
  BY <1>2, <1>3
<1> QED
  BY <1>4, DoubleFacts

\* Addresses are processes.
LEMMA AddressType ==
    ASSUME NEW g \in DOMAIN Groups, NEW d \in Rounds(g), NEW p \in Members[g]
    PROVE  AtLeft(p, g, d + 1) \in Procs \cup {NoAddr} /\ AtRight(p, g, d + 1) \in Procs \cup {NoAddr}
<1>1. Dist(d + 1) \in Nat
  BY RoundFacts
<1>2. Rank(g, p) - Dist(d + 1) \in Int /\ Rank(g, p) + Dist(d + 1) \in Int
  BY <1>1, RankFacts, GroupFacts
<1> QED
  BY <1>2, MemberFacts DEF AtLeft, AtRight

LEMMA RecvLeftKeeps ==
    ASSUME ConnectInv, NEW p \in Procs, RecvLeft(p)
    PROVE  ConnectInv'
<1> DEFINE g == Group(p)
           d == pc[p].d
<1>0. InRound(p) /\ pc[p].at = "recvLeft" /\ Goto(p, "recvRight") /\ "recvRight" \in Steps
      /\ listLeft' = listLeft /\ listRight' = listRight /\ reqs' = reqs
  BY DEF RecvLeft, At, Steps
<1>1. /\ pc' \in [Procs -> Places] /\ \A x \in Procs : x # p => pc'[x] = pc[x]
      /\ pc'[p].g = pc[p].g /\ pc'[p].d = pc[p].d /\ pc'[p].at = "recvRight"
      /\ PlaceOK(p)'
  BY <1>0, GotoFacts
<1>2. /\ g \in DOMAIN Groups /\ p \in Members[g] /\ ~Finished(p) /\ d \in Rounds(g) /\ AddrOK(p)
      /\ HasLeft(p) <=> AtLeft(p, g, d) # NoAddr
  BY <1>0, RoundPlace
<1>3. addr \in [Procs -> Addresses] /\ ~Connecting(p) /\ pc[p].at \notin {FirstStep, "second"}
  BY <1>0 DEF ConnectInv, ShapeOK, Addresses, Connecting, FirstStep
<1>4. addr' = [addr EXCEPT ![p].left = AtLeft(p, g, d + 1)] /\ wire' \subseteq wire
  <2>1. CASE HasLeft(p)
    <3>1. PICK m \in wire :
             /\ m.ch = listLeft[p][g][d] /\ m.to = p
             /\ wire' = wire \ {m}
             /\ addr' = [addr EXCEPT ![p].left = m.text]
      BY <2>1 DEF RecvLeft
    <3>2. AtLeft(p, g, d) # p /\ listLeft[p][g][d] = Channel(AtLeft(p, g, d), p, g, d)
      BY <1>0, <1>3, <2>1, RoundChannels
    <3>3. MessageOK(m)
      BY DEF ConnectInv
    <3> HIDE DEF g, d
    <3>4. m.text = AtLeft(p, g, d + 1)
      BY <1>2, <2>1, <3>1, <3>2, <3>3, MessageFromLeft
    <3> QED
      BY <3>1, <3>4
  <2>2. CASE ~HasLeft(p)
    <3>1. AtLeft(p, g, d + 1) = NoAddr
      BY <1>2, <2>2, DoubleFacts
    <3> QED
      BY <2>2, <3>1 DEF RecvLeft
  <2> QED
    BY <2>1, <2>2
<1>5. addr' \in [Procs -> Addresses] /\ \A x \in Procs : x # p => addr'[x] = addr[x]
  <2>1. AtLeft(p, g, d + 1) \in Procs \cup {NoAddr}
    BY <1>2, AddressType
  <2> HIDE DEF g, d
  <2> QED
    BY <1>3, <1>4, <2>1 DEF Addresses
<1>6. AddrOK(p)'
  <2>1. addr'[p].left = AtLeft(p, g, d + 1) /\ addr'[p].right = addr[p].right
    BY <1>3, <1>4 DEF Addresses
  <2>2. addr[p].right = AtRight(p, g, d)
    BY <1>2 DEF AddrOK
  <2> QED
    BY <1>0, <1>1, <1>2, <2>1, <2>2 DEF AddrOK, Finished, Group
<1>7. ASSUME NEW h \in DOMAIN Groups, NEW e \in ListIndex(h), p \in Members[h]
      PROVE  /\ Accepted(p, h, e)' => listLeft[p][h][e] = LeftChannel(p, h, e)
             /\ Connected(p, h, e)' => listRight[p][h][e] = RightChannel(p, h, e)
  BY <1>0, <1>1, <1>3, <1>7, ConnectedStays
<1>8. \A m \in wire' : MessageOK(m)
  BY <1>4 DEF ConnectInv
<1> QED
  BY <1>0, <1>1, <1>3, <1>5, <1>6, <1>7, <1>8, QuietStep

LEMMA RecvRightKeeps ==
    ASSUME ConnectInv, NEW p \in Procs, RecvRight(p)
    PROVE  ConnectInv'
<1> DEFINE g == Group(p)
           d == pc[p].d
<1>0. InRound(p) /\ pc[p].at = "recvRight"
      /\ pc' = [pc EXCEPT ![p].d = @ + 1, ![p].at = FirstStep]
      /\ listLeft' = listLeft /\ listRight' = listRight /\ reqs' = reqs
  BY DEF RecvRight, At
<1>1. /\ g \in DOMAIN Groups /\ p \in Members[g] /\ ~Finished(p) /\ d \in Rounds(g) /\ AddrOK(p)
      /\ HasRight(p) <=> AtRight(p, g, d) # NoAddr
      /\ d \in Nat /\ d + 1 \in Nat /\ (d + 1) - 1 = d /\ d + 1 # 0
  BY <1>0, RoundPlace, RoundFacts
<1>2. /\ pc' \in [Procs -> Places] /\ \A x \in Procs : x # p => pc'[x] = pc[x]
      /\ pc'[p].g = pc[p].g /\ pc'[p].d = pc[p].d + 1 /\ pc'[p].at = FirstStep
  <2>1. pc \in [Procs -> Places] /\ FirstStep \in Steps
    BY DEF ConnectInv, ShapeOK, Places, Steps
  <2> QED
    BY <1>0, <1>1, <2>1 DEF Places
<1>3. PlaceOK(p)'
  BY <1>2, <1>1 DEF PlaceOK, Finished, Group, InRound
<1>4. addr \in [Procs -> Addresses] /\ ~Connecting(p) /\ pc[p].at \notin {FirstStep, "second"}
  BY <1>0 DEF ConnectInv, ShapeOK, Addresses, Connecting, FirstStep
<1>5. addr' = [addr EXCEPT ![p].right = AtRight(p, g, d + 1)] /\ wire' \subseteq wire
  <2>1. CASE HasRight(p)
    <3>1. PICK m \in wire :
             /\ m.ch = listRight[p][g][d] /\ m.to = p
             /\ wire' = wire \ {m}
             /\ addr' = [addr EXCEPT ![p].right = m.text]
      BY <2>1 DEF RecvRight
    <3>2. AtRight(p, g, d) # p /\ listRight[p][g][d] = Channel(p, AtRight(p, g, d), g, d)
      BY <1>0, <1>4, <2>1, RoundChannels
    <3>3. MessageOK(m)
      BY DEF ConnectInv
    <3> HIDE DEF g, d
    <3>4. m.text = AtRight(p, g, d + 1)
      BY <1>1, <2>1, <3>1, <3>2, <3>3, MessageFromRight
    <3> QED
      BY <3>1, <3>4
  <2>2. CASE ~HasRight(p)
    <3>1. AtRight(p, g, d + 1) = NoAddr
      BY <1>1, <2>2, DoubleFacts
    <3> QED
      BY <2>2, <3>1 DEF RecvRight
  <2> QED
    BY <2>1, <2>2
<1>6. addr' \in [Procs -> Addresses] /\ \A x \in Procs : x # p => addr'[x] = addr[x]
  <2>1. AtRight(p, g, d + 1) \in Procs \cup {NoAddr}
    BY <1>1, AddressType
  <2> HIDE DEF g, d
  <2> QED
    BY <1>4, <1>5, <2>1 DEF Addresses
<1>7. AddrOK(p)'
  <2>1. addr'[p].right = AtRight(p, g, d + 1) /\ addr'[p].left = addr[p].left
    BY <1>4, <1>5 DEF Addresses
  <2>2. addr[p].left = AtLeft(p, g, d + 1)
    BY <1>0, <1>1 DEF AddrOK
  <2> QED
    BY <1>2, <1>1, <2>1, <2>2 DEF AddrOK, Finished, Group, FirstStep
<1>8. ASSUME NEW h \in DOMAIN Groups, NEW e \in ListIndex(h), p \in Members[h]
      PROVE  /\ Accepted(p, h, e)' => listLeft[p][h][e] = LeftChannel(p, h, e)
             /\ Connected(p, h, e)' => listRight[p][h][e] = RightChannel(p, h, e)
  <2>1. EntriesOK(p, h, e) /\ e \in Nat
    BY IndexFacts DEF ConnectInv
  <2>2. /\ Accepted(p, h, e)' => Accepted(p, h, e)
        /\ Connected(p, h, e)' => Connected(p, h, e)
    BY <1>0, <1>2, <1>1, <1>4, <2>1
       DEF Accepted, Connected, Past, Here, InRound, Finished, Group
  <2> QED
    BY <1>8, <2>1, <2>2 DEF EntriesOK
<1>9. \A m \in wire' : MessageOK(m)
  BY <1>5 DEF ConnectInv
<1> QED
  BY <1>0, <1>2, <1>4, <1>6, <1>7, <1>8, <1>9, <1>3, QuietStep

\* The step after a connection is made: the other entry of the round is due only
\* if it was made before.
LEMMA AfterFacts ==
    ASSUME NEW x \in Procs, Connecting(x), pc'[x].g = pc[x].g, pc'[x].d = pc[x].d,
           pc'[x].at = AfterConnecting(x), NEW g, NEW d
    PROVE  /\ Accepts(x) => (Connected(x, g, d)' => Connected(x, g, d))
           /\ ~Accepts(x) => (Accepted(x, g, d)' => Accepted(x, g, d))
           /\ ~Here(x, g, d) => /\ Connected(x, g, d)' => Connected(x, g, d)
                                /\ Accepted(x, g, d)' => Accepted(x, g, d)
           /\ AfterConnecting(x) \in Steps /\ AfterConnecting(x) \notin {FirstStep, "recvRight"}
<1>1. AfterConnecting(x) = IF pc[x].at = FirstStep THEN "second" ELSE "sendLeft"
  BY DEF AfterConnecting
<1>2. pc[x].at \in {FirstStep, "second"} /\ FirstStep = "first"
  BY DEF Connecting, FirstStep
<1>3. IsOdd(x)' <=> IsOdd(x)
  BY DEF IsOdd, Group
<1>4. (Past(x, g, d)' <=> Past(x, g, d)) /\ (Here(x, g, d)' <=> Here(x, g, d))
  BY DEF Past, Here, InRound, Finished, Group
<1>5. Accepts(x) <=> ((pc[x].at = FirstStep) <=> IsOdd(x))
  BY DEF Accepts, IsOdd
<1>6. Accepts(x) => (Connected(x, g, d)' => Connected(x, g, d))
  BY <1>1, <1>2, <1>3, <1>4, <1>5 DEF Connected
<1>7. ~Accepts(x) => (Accepted(x, g, d)' => Accepted(x, g, d))
  BY <1>1, <1>2, <1>3, <1>4, <1>5 DEF Accepted
<1>8. ~Here(x, g, d) => /\ Connected(x, g, d)' => Connected(x, g, d)
                        /\ Accepted(x, g, d)' => Accepted(x, g, d)
  BY <1>4 DEF Accepted, Connected
<1> QED
  BY <1>1, <1>2, <1>6, <1>7, <1>8 DEF Steps

LEMMA SkipConnectKeeps ==
    ASSUME ConnectInv, NEW p \in Procs, SkipConnect(p)
    PROVE  ConnectInv'
<1> DEFINE g == Group(p)
           d == pc[p].d
           step == AfterConnecting(p)
<1>0. /\ Connecting(p) /\ InRound(p) /\ ~Waits(p) /\ NothingToDo(p) /\ Goto(p, step)
      /\ listLeft' = listLeft /\ listRight' = listRight /\ reqs' = reqs /\ addr' = addr
      /\ wire' = wire
  BY DEF SkipConnect, Connecting
<1>1. step \in Steps /\ step # FirstStep /\ step # "recvRight"
  BY DEF AfterConnecting, Steps, FirstStep
<1>2. /\ pc' \in [Procs -> Places] /\ \A x \in Procs : x # p => pc'[x] = pc[x]
      /\ pc'[p].g = pc[p].g /\ pc'[p].d = pc[p].d /\ pc'[p].at = AfterConnecting(p)
      /\ PlaceOK(p)'
  <2> HIDE DEF step
  <2>1. /\ pc' \in [Procs -> Places] /\ \A x \in Procs : x # p => pc'[x] = pc[x]
        /\ pc'[p].g = pc[p].g /\ pc'[p].d = pc[p].d /\ pc'[p].at = step
        /\ PlaceOK(p)'
    BY <1>0, <1>1, GotoFacts DEF step
  <2> QED
    BY <2>1 DEF step
<1>3. /\ g \in DOMAIN Groups /\ p \in Members[g] /\ ~Finished(p) /\ d \in Rounds(g) /\ AddrOK(p)
      /\ HasLeft(p) <=> AtLeft(p, g, d) # NoAddr
      /\ HasRight(p) <=> AtRight(p, g, d) # NoAddr
  BY <1>0, RoundPlace
<1>4. AddrOK(p)'
  <2>1. pc[p].at # "recvRight"
    BY <1>0 DEF Connecting, FirstStep
  <2> QED
    BY <1>0, <1>1, <1>2, <1>3, <2>1 DEF AddrOK, Finished, Group
<1>5. addr' \in [Procs -> Addresses]
  BY <1>0 DEF ConnectInv, ShapeOK, Addresses
<1>6. ASSUME NEW h \in DOMAIN Groups, NEW e \in ListIndex(h), p \in Members[h]
      PROVE  /\ Accepted(p, h, e)' => listLeft[p][h][e] = LeftChannel(p, h, e)
             /\ Connected(p, h, e)' => listRight[p][h][e] = RightChannel(p, h, e)
  <2>1. EntriesOK(p, h, e)
    BY DEF ConnectInv
  <2>2. CASE ~Here(p, h, e)
    BY <1>0, <1>2, <1>6, <2>1, <2>2, AfterFacts DEF EntriesOK
  <2>3. CASE Here(p, h, e)
    <3>1. h = g /\ e = d
      BY <2>3 DEF Here
    <3>2. CASE Accepts(p)
      <4>1. HasLeft(p) => listLeft[p][h][e] # NoChannel
        BY <1>0, <3>1, <3>2 DEF NothingToDo, IsAccepted
      <4>2. listLeft[p][h][e] = LeftChannel(p, h, e)
        BY <1>3, <1>6, <2>1, <3>1, <4>1 DEF EntriesOK, LeftChannel
      <4>3. Connected(p, h, e)' => Connected(p, h, e)
        BY <1>0, <1>2, <3>2, AfterFacts
      <4> QED
        BY <1>6, <2>1, <4>2, <4>3 DEF EntriesOK
    <3>3. CASE ~Accepts(p)
      <4>1. ~HasRight(p)
        BY <1>0, <3>3 DEF NothingToDo
      <4>2. listRight[p][h][e] = RightChannel(p, h, e)
        BY <1>3, <1>6, <2>1, <3>1, <4>1 DEF EntriesOK, RightChannel
      <4>3. Accepted(p, h, e)' => Accepted(p, h, e)
        BY <1>0, <1>2, <3>3, AfterFacts
      <4> QED
        BY <1>6, <2>1, <4>2, <4>3 DEF EntriesOK
    <3> QED
      BY <3>2, <3>3
  <2> QED
    BY <2>2, <2>3
<1>7. \A m \in wire' : MessageOK(m)
  BY <1>0 DEF ConnectInv
<1> QED
  BY <1>0, <1>2, <1>4, <1>5, <1>6, <1>7, QuietStep

\* A process that stays in its round.
LEMMA StaysInRound ==
    ASSUME ConnectInv, NEW x \in Procs, Connecting(x), pc'[x].g = pc[x].g, pc'[x].d = pc[x].d,
           pc'[x].at # "recvRight", addr'[x] = addr[x]
    PROVE  PlaceOK(x)' /\ AddrOK(x)'
<1>1. InRound(x) /\ pc[x].at # "recvRight" /\ PlaceOK(x) /\ AddrOK(x)
  BY DEF Connecting, FirstStep, ConnectInv
<1>2. PlaceOK(x)'
  BY <1>1 DEF PlaceOK, Finished, Group, InRound
<1>3. AddrOK(x)'
  BY <1>1 DEF AddrOK, Finished, Group
<1> QED
  BY <1>2, <1>3

LEMMA ConnectRightKeeps ==
    ASSUME ConnectInv, NEW p \in Procs, ConnectRight(p)
    PROVE  ConnectInv'
<1> DEFINE g == Group(p)
           d == pc[p].d
<1>0. /\ Connecting(p) /\ InRound(p) /\ ~Waits(p) /\ ~Accepts(p) /\ HasRight(p)
      /\ pc' = [pc EXCEPT ![p].call = "wait"]
      /\ listLeft' = listLeft /\ listRight' = listRight /\ addr' = addr /\ wire' = wire
  BY DEF ConnectRight, Connecting
<1>1. /\ pc' \in [Procs -> Places] /\ \A x \in Procs : x # p => pc'[x] = pc[x]
      /\ pc'[p].g = pc[p].g /\ pc'[p].d = pc[p].d /\ pc'[p].at = pc[p].at
      /\ pc'[p].call = "wait"
  <2>1. pc \in [Procs -> Places]
    BY DEF ConnectInv, ShapeOK, Places
  <2> QED
    BY <1>0, <2>1 DEF Places
<1>2. /\ g \in DOMAIN Groups /\ p \in Members[g] /\ ~Finished(p) /\ d \in Rounds(g) /\ AddrOK(p)
      /\ AtRight(p, g, d) # NoAddr /\ addr[p].right = AtRight(p, g, d)
  BY <1>0, RoundPlace DEF AddrOK
<1>3. d \in Nat /\ Dist(d) \in Nat /\ Dist(d) > 0
  BY <1>2, RoundFacts
<1>4. PICK q \in Procs : q = AtRight(p, g, d) /\ q = addr[p].right
  BY <1>2, <1>3, NeighbourFacts, GroupFacts
<1>5. PICK new : new = Channel(p, q, g, d)
  OBVIOUS
<1>6. reqs' = [reqs EXCEPT ![q] = Append(@, new)]
  BY <1>4, <1>5 DEF ConnectRight
<1>7. new \in Channels /\ reqs \in [Procs -> Seq(Channels)] /\ new[1] = p
  BY <1>2, <1>3, <1>5, GroupFacts DEF Channels, Channel, ConnectInv, ShapeOK
<1>8. reqs' \in [Procs -> Seq(Channels)]
  BY <1>6, <1>7
<1>9. RequestOK(q, new)'
  <2>1. new = Channel(p, q, Group(p)', pc'[p].d)
    BY <1>1, <1>5 DEF Group
  <2>2. Connecting(p)' /\ ~Accepts(p)' /\ Waits(p)' /\ HasRight(p)'
    BY <1>0, <1>1 DEF Connecting, InRound, Finished, Group, Accepts, IsOdd, Waits, HasRight
  <2>3. q = AtRight(p, Group(p)', pc'[p].d)
    BY <1>1, <1>4 DEF Group
  <2> HIDE DEF g, d
  <2> QED
    BY <1>7, <2>1, <2>2, <2>3 DEF RequestOK
<1>10. ASSUME NEW x \in Procs, NEW k \in 1..Len(reqs[x])
       PROVE  reqs[x][k][1] # p /\ \E ch : ch = reqs[x][k] /\ RequestOK(x, ch)'
  <2>1. PICK ch : ch = reqs[x][k]
    OBVIOUS
  <2>2. RequestOK(x, ch) /\ ch[1] # p
    BY <1>0, <2>1, NoRequest DEF ConnectInv, RequestsOK
  <2>3. pc'[ch[1]] = pc[ch[1]]
    BY <1>1, <2>2 DEF RequestOK
  <2>4. RequestOK(x, ch)'
    BY <2>2, <2>3, RequestKeeps
  <2> QED
    BY <2>1, <2>2, <2>4
<1>11. ASSUME NEW x \in Procs PROVE RequestsOK(x)'
  <2>1. \A k, l \in 1..Len(reqs[x]) : reqs[x][k] = reqs[x][l] => k = l
    BY DEF ConnectInv, RequestsOK
  <2>2. CASE x # q
    <3>1. reqs'[x] = reqs[x]
      BY <1>6, <1>7, <2>2
    <3> QED
      BY <1>10, <2>1, <3>1, RequestsIntro
  <2>3. CASE x = q
    <3>1. reqs'[x] = Append(reqs[x], new) /\ reqs[x] \in Seq(Channels)
      BY <1>6, <1>7, <2>3
    <3>2. /\ Len(reqs'[x]) = Len(reqs[x]) + 1 /\ Len(reqs[x]) \in Nat
          /\ reqs'[x][Len(reqs[x]) + 1] = new
          /\ \A k \in 1..Len(reqs[x]) : reqs'[x][k] = reqs[x][k]
      BY <1>7, <3>1
    <3>3. ASSUME NEW k \in 1..Len(reqs'[x]) PROVE k \in 1..Len(reqs[x]) \/ k = Len(reqs[x]) + 1
      BY <3>2
    <3>4. \A k \in 1..Len(reqs'[x]) : \E ch : ch = reqs'[x][k] /\ RequestOK(x, ch)'
      BY <1>9, <1>10, <2>3, <3>2, <3>3
    <3>5. ASSUME NEW k \in 1..Len(reqs'[x]), NEW l \in 1..Len(reqs'[x]),
                 reqs'[x][k] = reqs'[x][l]
          PROVE  k = l
      <4>1. CASE k \in 1..Len(reqs[x]) /\ l \in 1..Len(reqs[x])
        BY <2>1, <3>2, <3>5, <4>1
      <4>2. CASE k = Len(reqs[x]) + 1 /\ l \in 1..Len(reqs[x])
        BY <1>7, <1>10, <3>2, <3>5, <4>2
      <4>3. CASE l = Len(reqs[x]) + 1 /\ k \in 1..Len(reqs[x])
        BY <1>7, <1>10, <3>2, <3>5, <4>3
      <4> QED
        BY <3>3, <4>1, <4>2, <4>3
    <3> QED
      BY <3>4, <3>5, RequestsIntro
  <2> QED
    BY <2>2, <2>3
<1>12. PlaceOK(p)' /\ AddrOK(p)'
  <2>1. pc'[p].at # "recvRight" /\ addr'[p] = addr[p]
    BY <1>0, <1>1 DEF Connecting, FirstStep
  <2> QED
    BY <1>0, <1>1, <2>1, StaysInRound
<1>13. addr' \in [Procs -> Addresses]
  BY <1>0 DEF ConnectInv, ShapeOK, Addresses
<1>14. ASSUME NEW h \in DOMAIN Groups, NEW e \in ListIndex(h), p \in Members[h]
       PROVE  /\ Accepted(p, h, e)' => listLeft[p][h][e] = LeftChannel(p, h, e)
              /\ Connected(p, h, e)' => listRight[p][h][e] = RightChannel(p, h, e)
  <2>1. EntriesOK(p, h, e)
    BY DEF ConnectInv
  <2>2. /\ Accepted(p, h, e)' => Accepted(p, h, e)
        /\ Connected(p, h, e)' => Connected(p, h, e)
    BY <1>1 DEF Accepted, Connected, Past, Here, InRound, Finished, Group, IsOdd
  <2> QED
    BY <1>14, <2>1, <2>2 DEF EntriesOK
<1>15. \A m \in wire' : MessageOK(m)
  BY <1>0 DEF ConnectInv
<1> QED
  BY <1>0, <1>1, <1>8, <1>11, <1>12, <1>13, <1>14, <1>15, LoneStep

-----------------------------------------------------------------------------
(* Accepting.                                                              *)

\* A request that meets its accept is for the group the acceptor creates.
LEMMA SameGroup ==
    ASSUME ConnectInv, SplitOrder, NEW p \in Procs, InRound(p), NEW ch, RequestOK(p, ch)
    PROVE  /\ Group(ch[1]) = Group(p) /\ ch[1] \in Members[Group(p)] /\ ch[1] # p
           /\ pc[ch[1]].d \in Rounds(Group(p))
           /\ ch = LeftChannel(p, Group(p), pc[ch[1]].d)
           /\ ch = RightChannel(ch[1], Group(p), pc[ch[1]].d)
<1> DEFINE x == ch[1]
           h == Group(ch[1])
           g == Group(p)
           e == pc[ch[1]].d
<1>1. x \in Procs /\ InRound(x) /\ HasRight(x) /\ p = AtRight(x, h, e) /\ ch = Channel(x, p, h, e)
  BY DEF RequestOK, Connecting
<1>2. h \in DOMAIN Groups /\ x \in Members[h] /\ e \in Rounds(h) /\ p # NoAddr
  BY <1>1, RoundPlace
<1>3. e \in Nat /\ Dist(e) \in Nat /\ Dist(e) > 0
  BY <1>2, RoundFacts
<1>4. p \in Members[h] /\ p # x /\ AtLeft(p, h, e) = x
  <2> HIDE DEF x, h, e
  <2> QED
    BY <1>1, <1>2, <1>3, NeighbourFacts
<1>5. g \in DOMAIN Groups /\ p \in Members[g] /\ pc[p].d \in Rounds(g) /\ x # NoAddr
  BY <1>1, RoundPlace, GroupFacts
<1>6. pc[p].g = g /\ pc[x].g = h /\ pc[x].d = e
  BY DEF Group
<1>7. ~(h < g)
  <2>1. SUFFICES ASSUME h < g PROVE FALSE
    OBVIOUS
  <2>2. HasCreated(x, h)
    BY <1>2, <1>4, <1>5, <1>6, <2>1, GroupFacts DEF ConnectInv, SyncOK
  <2> QED
    BY <1>2, <1>6, <2>2, GroupFacts DEF HasCreated
<1>8. ~(g < h)
  <2>1. SUFFICES ASSUME g < h PROVE FALSE
    OBVIOUS
  <2>2. PICK k \in g..(h - 1) : p \in Members[k] /\ x \in Members[k]
    BY <1>2, <1>4, <1>5, <2>1 DEF SplitOrder
  <2>3. k \in DOMAIN Groups /\ pc[x].g > k
    BY <1>2, <1>5, <1>6, <2>2, GroupFacts
  <2>4. HasCreated(p, k)
    BY <2>2, <2>3 DEF ConnectInv, SyncOK
  <2> QED
    BY <1>5, <1>6, <2>2, <2>3, <2>4, GroupFacts DEF HasCreated
<1>9. g = h
  BY <1>2, <1>5, <1>7, <1>8, GroupFacts
<1>10. ch = LeftChannel(p, g, e) /\ ch = RightChannel(x, g, e)
  BY <1>1, <1>2, <1>4, <1>5, <1>9 DEF LeftChannel, RightChannel
<1> QED
  BY <1>2, <1>4, <1>9, <1>10

LEMMA AcceptLeftKeeps ==
    ASSUME ConnectInv, SplitOrder, NEW p \in Procs, AcceptLeft(p)
    PROVE  ConnectInv'
<1>0. /\ Connecting(p) /\ InRound(p) /\ Accepts(p) /\ reqs[p] # << >>
      /\ reqs' = [reqs EXCEPT ![p] = Tail(@)] /\ addr' = addr /\ wire' = wire
  BY DEF AcceptLeft, Connecting
<1>1. reqs[p] \in Seq(Channels) /\ reqs \in [Procs -> Seq(Channels)] /\ Len(reqs[p]) >= 1
      /\ Len(reqs[p]) \in Nat
  BY <1>0 DEF ConnectInv, ShapeOK
<1>2. PICK ch : ch = Head(reqs[p])
  OBVIOUS
<1>3. ch = reqs[p][1] /\ RequestOK(p, ch)
  BY <1>1, <1>2 DEF ConnectInv, RequestsOK
<1>4. PICK x, g, e : x = ch[1] /\ g = Group(p) /\ e = pc[ch[1]].d
  OBVIOUS
<1>5. /\ Group(x) = g /\ x \in Members[g] /\ x # p /\ e \in Rounds(g)
      /\ ch = LeftChannel(p, g, e) /\ ch = RightChannel(x, g, e)
  BY <1>0, <1>3, <1>4, SameGroup
<1>6. /\ x \in Procs /\ Connecting(x) /\ ~Accepts(x) /\ ch[4] = e /\ pc[x].d = e
      /\ ch = Channel(x, p, g, e)
  <2>1. /\ ch[1] \in Procs /\ ch = Channel(ch[1], p, Group(ch[1]), pc[ch[1]].d)
        /\ Connecting(ch[1]) /\ ~Accepts(ch[1])
    BY <1>3 DEF RequestOK
  <2>2. ch = Channel(x, p, g, e)
    BY <1>4, <1>5, <2>1
  <2>3. ch[4] = e
    BY <2>2 DEF Channel
  <2> QED
    BY <1>4, <2>1, <2>2, <2>3
<1>7. g \in DOMAIN Groups /\ p \in Members[g] /\ e \in ListIndex(g)
  BY <1>0, <1>4, <1>5, RoundPlace, RoundFacts
<1>8. /\ listLeft' = [listLeft EXCEPT ![p][g][e] = ch]
      /\ listRight' = [listRight EXCEPT ![x][g][e] = ch]
      /\ pc' = [pc EXCEPT ![p].at = IF ch[4] = pc[p].d THEN AfterConnecting(p) ELSE @,
                          ![p].call = IF ch[4] = pc[p].d THEN "none" ELSE "wait",
                          ![x].at = AfterConnecting(x),
                          ![x].call = "none"]
  BY <1>2, <1>4, <1>5, <1>6 DEF AcceptLeft, StoredRound
<1>9. AfterConnecting(p) \in Steps /\ AfterConnecting(x) \in Steps
      /\ AfterConnecting(p) # "recvRight" /\ AfterConnecting(x) # "recvRight"
  BY DEF AfterConnecting, Steps
<1>10. /\ pc' \in [Procs -> Places] /\ \A y \in Procs : y # p /\ y # x => pc'[y] = pc[y]
       /\ pc'[p].g = pc[p].g /\ pc'[p].d = pc[p].d
       /\ pc'[p].at = IF e = pc[p].d THEN AfterConnecting(p) ELSE pc[p].at
       /\ pc'[x].g = pc[x].g /\ pc'[x].d = pc[x].d /\ pc'[x].at = AfterConnecting(x)
  <2>1. pc \in [Procs -> Places]
    BY DEF ConnectInv, ShapeOK, Places
  <2>2. PICK s \in Steps : s = IF e = pc[p].d THEN AfterConnecting(p) ELSE pc[p].at
    BY <1>9, <2>1 DEF Places
  <2>3. PICK c \in {"none", "wait"} : c = IF e = pc[p].d THEN "none" ELSE "wait"
    OBVIOUS
  <2>4. PICK t \in Steps : t = AfterConnecting(x)
    BY <1>9
  <2>5. pc' = [pc EXCEPT ![p].at = s, ![p].call = c, ![x].at = t, ![x].call = "none"]
    BY <1>6, <1>8, <2>2, <2>3, <2>4
  <2>6. /\ pc'[p] = [pc[p] EXCEPT !.at = s, !.call = c]
        /\ pc'[x] = [pc[x] EXCEPT !.at = t, !.call = "none"]
        /\ \A y \in Procs : y # p /\ y # x => pc'[y] = pc[y]
        /\ DOMAIN pc' = Procs /\ pc' = [y \in Procs |-> pc'[y]]
    BY <1>5, <1>6, <2>1, <2>5
  <2>7. pc'[p] \in Places /\ pc'[x] \in Places
    BY <1>6, <2>1, <2>6 DEF Places
  <2>8. \A y \in Procs : pc'[y] \in Places
    BY <2>1, <2>6, <2>7
  <2>9. pc' \in [Procs -> Places]
    BY <2>6, <2>8
  <2>10. /\ pc'[p].g = pc[p].g /\ pc'[p].d = pc[p].d /\ pc'[p].at = s
         /\ pc'[x].g = pc[x].g /\ pc'[x].d = pc[x].d /\ pc'[x].at = t
    BY <1>6, <2>1, <2>6 DEF Places
  <2> QED
    BY <2>2, <2>4, <2>6, <2>9, <2>10
<1>11. ShapeOK'
  <2>1. ShapeOK
    BY DEF ConnectInv
  <2>2. addr' \in [Procs -> Addresses] /\ reqs' \in [Procs -> Seq(Channels)]
    BY <1>0, <1>1, <2>1 DEF ShapeOK, Addresses
  <2>3. DOMAIN listLeft' = Procs /\ DOMAIN listRight' = Procs
    BY <1>8, <2>1 DEF ShapeOK
  <2>4. ASSUME NEW y \in Procs
        PROVE  /\ DOMAIN listLeft'[y] = DOMAIN listLeft[y]
               /\ DOMAIN listRight'[y] = DOMAIN listRight[y]
    BY <1>8, <2>1 DEF ShapeOK
  <2>5. ASSUME NEW y \in Procs, NEW h \in DOMAIN Groups
        PROVE  /\ DOMAIN listLeft'[y][h] = DOMAIN listLeft[y][h]
               /\ DOMAIN listRight'[y][h] = DOMAIN listRight[y][h]
    BY <1>8, <2>1 DEF ShapeOK
  <2> QED
    BY <1>10, <2>1, <2>2, <2>3, <2>4, <2>5, ShapeIntro
<1>12. ASSUME NEW y \in Procs PROVE PlaceOK(y)' /\ AddrOK(y)'
  <2>1. CASE y = p
    <3>1. pc'[p].at # "recvRight"
      BY <1>0, <1>9, <1>10 DEF Connecting, FirstStep
    <3> QED
      BY <1>0, <1>10, <2>1, <3>1, StaysInRound
  <2>2. CASE y = x
    BY <1>0, <1>6, <1>9, <1>10, <2>2, StaysInRound
  <2>3. CASE y # p /\ y # x
    BY <1>0, <1>10, <2>3, PlaceKeeps, AddrKeeps DEF ConnectInv
  <2> QED
    BY <2>1, <2>2, <2>3
<1>13. ASSUME NEW y \in Procs, NEW k \in 1..Len(reqs[y]), y # p \/ k # 1
       PROVE  \E c : c = reqs[y][k] /\ RequestOK(y, c)'
  <2>1. PICK c : c = reqs[y][k]
    OBVIOUS
  <2>2. RequestOK(y, c) /\ c[1] # p
    BY <1>0, <2>1, NoRequest DEF ConnectInv, RequestsOK
  <2>3. c[1] # x
    <3>1. SUFFICES ASSUME c[1] = x PROVE FALSE
      OBVIOUS
    <3>2. y = p /\ c = ch
      BY <1>3, <1>4, <2>2, <3>1 DEF RequestOK
    <3>3. k = 1
      BY <1>1, <1>3, <2>1, <3>2 DEF ConnectInv, RequestsOK
    <3> QED
      BY <1>13, <3>2, <3>3
  <2>4. pc'[c[1]] = pc[c[1]]
    BY <1>10, <2>2, <2>3 DEF RequestOK
  <2>5. RequestOK(y, c)'
    BY <2>2, <2>4, RequestKeeps
  <2> QED
    BY <2>1, <2>5
<1>14. ASSUME NEW y \in Procs PROVE RequestsOK(y)'
  <2>1. \A k, l \in 1..Len(reqs[y]) : reqs[y][k] = reqs[y][l] => k = l
    BY DEF ConnectInv, RequestsOK
  <2>2. CASE y # p
    <3>1. reqs'[y] = reqs[y]
      BY <1>0, <1>1, <2>2
    <3> QED
      BY <1>13, <2>1, <2>2, <3>1, RequestsIntro
  <2>3. CASE y = p
    <3>1. reqs'[y] = Tail(reqs[y])
      BY <1>0, <1>1, <2>3
    <3>2. /\ Len(reqs'[y]) = Len(reqs[y]) - 1
          /\ \A k \in 1..Len(reqs'[y]) : reqs'[y][k] = reqs[y][k + 1]
      BY <1>0, <1>1, <2>3, <3>1
    <3>3. \A k \in 1..Len(reqs'[y]) : k + 1 \in 1..Len(reqs[y]) /\ k + 1 # 1
      BY <1>1, <2>3, <3>2
    <3>4. ASSUME NEW k \in 1..Len(reqs'[y]) PROVE \E c : c = reqs'[y][k] /\ RequestOK(y, c)'
      BY <1>13, <3>2, <3>3
    <3>5. ASSUME NEW k \in 1..Len(reqs'[y]), NEW l \in 1..Len(reqs'[y]),
                 reqs'[y][k] = reqs'[y][l]
          PROVE  k = l
      <4>1. k + 1 = l + 1
        BY <2>1, <3>2, <3>3, <3>5
      <4> QED
        BY <1>1, <2>3, <3>2, <4>1
    <3> QED
      BY <3>4, <3>5, RequestsIntro
  <2> QED
    BY <2>2, <2>3
<1>15. ASSUME NEW y \in Procs, NEW h \in DOMAIN Groups, NEW f \in ListIndex(h)
       PROVE  EntriesOK(y, h, f)'
  <2>1. EntriesOK(y, h, f) /\ ShapeOK
    BY DEF ConnectInv
  <2>2. /\ listLeft'[y][h][f] = IF y = p /\ h = g /\ f = e THEN ch ELSE listLeft[y][h][f]
        /\ listRight'[y][h][f] = IF y = x /\ h = g /\ f = e THEN ch ELSE listRight[y][h][f]
    BY <1>6, <1>7, <1>8, <2>1 DEF ShapeOK
  <2>3. CASE y = p
    <3>1. /\ Connected(y, h, f)' => Connected(y, h, f)
          /\ ~(h = g /\ f = e) => (Accepted(y, h, f)' => Accepted(y, h, f))
      <4>1. CASE e = pc[p].d
        <5>1. pc'[p].at = AfterConnecting(p)
          BY <1>10, <4>1
        <5>2. Here(p, h, f) => h = g /\ f = e
          BY <1>4, <4>1 DEF Here
        <5>3. Connected(p, h, f)' => Connected(p, h, f)
          BY <1>0, <1>10, <5>1, AfterFacts
        <5>4. ~Here(p, h, f) => (Accepted(p, h, f)' => Accepted(p, h, f))
          BY <1>0, <1>10, <5>1, AfterFacts
        <5> QED
          BY <2>3, <5>2, <5>3, <5>4
      <4>2. CASE e # pc[p].d
        <5>1. pc'[p].at = pc[p].at
          BY <1>10, <4>2
        <5> QED
          BY <1>10, <2>3, <5>1
             DEF Accepted, Connected, Past, Here, InRound, Finished, Group, IsOdd
      <4> QED
        BY <4>1, <4>2
    <3>2. listRight'[y][h][f] = listRight[y][h][f]
      BY <1>5, <2>2, <2>3
    <3>3. CASE h = g /\ f = e
      <4>1. listLeft'[y][h][f] = LeftChannel(y, h, f)
        BY <1>5, <2>2, <2>3, <3>3
      <4> QED
        BY <1>7, <2>1, <2>3, <3>1, <3>2, <3>3, <4>1 DEF EntriesOK
    <3>4. CASE ~(h = g /\ f = e)
      <4>1. listLeft'[y][h][f] = listLeft[y][h][f]
        BY <2>2, <3>4
      <4> QED
        BY <2>1, <3>1, <3>2, <3>4, <4>1 DEF EntriesOK
    <3> QED
      BY <3>3, <3>4
  <2>4. CASE y = x
    <3>1. /\ Accepted(y, h, f)' => Accepted(y, h, f)
          /\ ~(h = g /\ f = e) => (Connected(y, h, f)' => Connected(y, h, f))
      <4>1. Here(x, h, f) => h = g /\ f = e
        BY <1>5, <1>6 DEF Here
      <4>2. Accepted(x, h, f)' => Accepted(x, h, f)
        BY <1>6, <1>10, AfterFacts
      <4>3. ~Here(x, h, f) => (Connected(x, h, f)' => Connected(x, h, f))
        BY <1>6, <1>10, AfterFacts
      <4> QED
        BY <2>4, <4>1, <4>2, <4>3
    <3>2. listLeft'[y][h][f] = listLeft[y][h][f]
      BY <1>5, <2>2, <2>4
    <3>3. CASE h = g /\ f = e
      <4>1. listRight'[y][h][f] = RightChannel(y, h, f)
        BY <1>5, <2>2, <2>4, <3>3
      <4> QED
        BY <1>5, <2>1, <2>4, <3>1, <3>2, <3>3, <4>1 DEF EntriesOK
    <3>4. CASE ~(h = g /\ f = e)
      <4>1. listRight'[y][h][f] = listRight[y][h][f]
        BY <2>2, <3>4
      <4> QED
        BY <2>1, <3>1, <3>2, <3>4, <4>1 DEF EntriesOK
    <3> QED
      BY <3>3, <3>4
  <2>5. CASE y # p /\ y # x
    <3>1. listLeft'[y][h][f] = listLeft[y][h][f] /\ listRight'[y][h][f] = listRight[y][h][f]
      BY <2>2, <2>5
    <3>2. pc'[y] = pc[y]
      BY <1>10, <2>5
    <3> QED
      BY <2>1, <3>1, <3>2, EntriesKeep
  <2> QED
    BY <2>3, <2>4, <2>5
<1>16. SyncOK'
  <2>1. ASSUME NEW y \in Procs
        PROVE  pc'[y].g = pc[y].g /\ (pc'[y].d = pc[y].d \/ InRound(y))
    BY <1>10
  <2> QED
    BY <2>1, SyncKeeps DEF ConnectInv
<1>17. \A m \in wire' : MessageOK(m)
  BY <1>0 DEF ConnectInv
<1> QED
  BY <1>11, <1>12, <1>14, <1>15, <1>16, <1>17 DEF ConnectInv

-----------------------------------------------------------------------------
(* From one group to the next.                                             *)

LEMMA ReturnKeeps ==
    ASSUME ConnectInv, Synced, NEW p \in Procs, Return(p)
    PROVE  ConnectInv'
<1> DEFINE g == Group(p)
           n == NextGroup(p, Group(p))
<1>0. /\ ~Finished(p) /\ pc[p].d \notin Rounds(g)
      /\ \A q \in Members[g] : HasCreated(q, g)
      /\ pc' = [pc EXCEPT ![p].g = n, ![p].d = 0, ![p].at = FirstStep]
      /\ addr' = [addr EXCEPT ![p] = Given(p, n)]
      /\ listLeft' = listLeft /\ listRight' = listRight /\ reqs' = reqs /\ wire' = wire
  BY DEF Return
<1>1. pc \in [Procs -> Places] /\ addr \in [Procs -> Addresses] /\ PlaceOK(p) /\ ShapeOK
  BY DEF ConnectInv, ShapeOK, Places, Addresses
<1>2. g \in DOMAIN Groups /\ p \in Members[g] /\ g \in 1..NumGroups /\ g = pc[p].g
  <2>1. pc[p].g \in 1..(NumGroups + 1)
    BY <1>1 DEF Places
  <2> QED
    BY <1>0, <1>1, <2>1, GroupFacts DEF PlaceOK, Finished, Group
<1>3. /\ n \in 1..(NumGroups + 1) /\ n > g
      /\ n <= NumGroups => n \in DOMAIN Groups /\ p \in Members[n]
      /\ \A h \in DOMAIN Groups : h > g /\ p \in Members[h] => n <= h
  BY <1>2, NextFacts, GroupFacts
<1>4. /\ Given(p, n) \in Addresses
      /\ n > NumGroups => Given(p, n).left = NoAddr /\ Given(p, n).right = NoAddr
      /\ n <= NumGroups => Given(p, n).left = AtLeft(p, n, 0) /\ Given(p, n).right = AtRight(p, n, 0)
  BY <1>3, GivenFacts DEF Addresses
<1> HIDE DEF g, n
<1>5. /\ pc' \in [Procs -> Places] /\ \A x \in Procs : x # p => pc'[x] = pc[x]
      /\ pc'[p].g = n /\ pc'[p].d = 0 /\ pc'[p].at = FirstStep
  <2>1. FirstStep \in Steps
    BY DEF Steps
  <2> QED
    BY <1>0, <1>1, <1>3, <2>1 DEF Places
<1>6. /\ addr' \in [Procs -> Addresses] /\ \A x \in Procs : x # p => addr'[x] = addr[x]
      /\ addr'[p] = Given(p, n)
  BY <1>0, <1>1, <1>4
<1>7. ShapeOK'
  <2>1. reqs' \in [Procs -> Seq(Channels)]
    BY <1>0, <1>1 DEF ShapeOK
  <2> QED
    BY <1>0, <1>1, <1>5, <1>6, <2>1, ShapeIntro DEF ShapeOK
<1>8. PlaceOK(p)' /\ AddrOK(p)'
  <2>1. PlaceOK(p)'
    BY <1>3, <1>5, GroupFacts DEF PlaceOK, Finished, Group, InRound
  <2>2. AddrOK(p)'
    BY <1>3, <1>4, <1>5, <1>6, GroupFacts DEF AddrOK, Finished, Group, FirstStep
  <2> QED
    BY <2>1, <2>2
<1>9. ASSUME NEW x \in Procs PROVE PlaceOK(x)' /\ AddrOK(x)' /\ RequestsOK(x)'
  <2>1. ~Connecting(p)
    BY <1>0 DEF Connecting, InRound, g
  <2>2. RequestsOK(x)'
    BY <1>0, <1>5, <2>1, RequestsKeep
  <2>3. CASE x = p
    BY <1>8, <2>2, <2>3
  <2>4. CASE x # p
    BY <1>5, <1>6, <2>2, <2>4, PlaceKeeps, AddrKeeps DEF ConnectInv
  <2> QED
    BY <2>3, <2>4
<1>10. ASSUME NEW x \in Procs, NEW h \in DOMAIN Groups, NEW e \in ListIndex(h)
       PROVE  EntriesOK(x, h, e)'
  <2>1. EntriesOK(x, h, e) /\ e \in Nat
    BY IndexFacts DEF ConnectInv
  <2>2. CASE x # p
    BY <1>0, <1>5, <2>1, <2>2, EntriesKeep
  <2>3. CASE x = p /\ x \notin Members[h]
    BY <1>0, <2>1, <2>3 DEF EntriesOK
  <2>4. CASE x = p /\ x \in Members[h]
    <3>1. CASE h = g
      <4>1. listLeft[p][h][e] = LeftChannel(p, h, e) /\ listRight[p][h][e] = RightChannel(p, h, e)
        <5>1. CASE e < pc[p].d
          <6>1. Accepted(p, h, e) /\ Connected(p, h, e)
            BY <1>2, <3>1, <5>1 DEF Accepted, Connected, Past
          <6> QED
            BY <2>1, <2>4, <6>1 DEF EntriesOK
        <5>2. CASE ~(e < pc[p].d)
          <6>1. pc[p].d \in ListIndex(g) /\ pc[p].d \in Nat
            <7>1. CASE pc[p].d = 0
              BY <1>2, <7>1, IndexFacts
            <7>2. CASE pc[p].d # 0
              <8>1. pc[p].d - 1 \in Rounds(g) /\ pc[p].d \in Nat
                BY <1>1, <7>2 DEF PlaceOK, g, Places
              <8>2. (pc[p].d - 1) + 1 \in ListIndex(g)
                BY <1>2, <8>1, RoundFacts
              <8> QED
                BY <8>1, <8>2
            <7> QED
              BY <7>1, <7>2
          <6>2. e = pc[p].d
            BY <1>0, <1>2, <2>1, <3>1, <5>2, <6>1, IndexFacts
          <6>3. Dist(e) \in Nat /\ Dist(e) > 0 /\ Dist(e) >= Size(h)
            BY <1>0, <3>1, <6>2, IndexFacts
          <6>4. Rank(h, p) \in 0..(Size(h) - 1) /\ Size(h) \in Nat
            BY <2>4, RankFacts, GroupFacts
          <6>5. ~(Rank(h, p) - Dist(e) >= 0) /\ ~(Rank(h, p) + Dist(e) < Size(h))
            BY <6>3, <6>4
          <6>6. AtLeft(p, h, e) = NoAddr /\ AtRight(p, h, e) = NoAddr
            BY <2>1, <2>4, <6>3, <6>5, NeighbourFacts
          <6> QED
            BY <2>1, <2>4, <6>6 DEF EntriesOK, LeftChannel, RightChannel
        <5> QED
          BY <5>1, <5>2
      <4> QED
        BY <1>0, <2>1, <2>4, <4>1 DEF EntriesOK
    <3>2. CASE h # g
      <4>1. /\ Accepted(p, h, e)' => Accepted(p, h, e)
            /\ Connected(p, h, e)' => Connected(p, h, e)
        <5>1. Past(p, h, e)' => Past(p, h, e)
          BY <1>2, <1>3, <1>5, <2>1, <2>4, <3>2, GroupFacts DEF Past
        <5> QED
          BY <1>5, <5>1 DEF Accepted, Connected, Here
      <4> QED
        BY <1>0, <2>1, <2>4, <4>1 DEF EntriesOK
    <3> QED
      BY <3>1, <3>2
  <2> QED
    BY <2>2, <2>3, <2>4
<1>11. SyncOK'
  <2>1. SUFFICES ASSUME NEW h \in DOMAIN Groups, NEW x \in Members[h], NEW y \in Members[h],
                        pc'[x].g > h
                 PROVE  HasCreated(y, h)'
    BY DEF SyncOK
  <2>2. x \in Procs /\ y \in Procs /\ h \in Nat /\ n \in Nat /\ g \in Nat
    BY <1>2, <1>3, GroupFacts
  <2>3. HasCreated(y, h)
    <3>1. CASE pc[x].g > h
      BY <3>1 DEF ConnectInv, SyncOK
    <3>2. CASE ~(pc[x].g > h)
      <4>1. x = p
        BY <1>5, <2>1, <2>2, <3>2
      <4>2. h = g
        BY <1>2, <1>3, <1>5, <2>1, <2>2, <3>2, <4>1
      <4> QED
        BY <1>0, <4>2
    <3> QED
      BY <3>1, <3>2
  <2>4. CASE y = p
    BY <1>2, <1>3, <1>5, <2>2, <2>3, <2>4 DEF HasCreated
  <2>5. CASE y # p
    BY <1>5, <2>2, <2>3, <2>5 DEF HasCreated
  <2> QED
    BY <2>4, <2>5
<1>12. \A m \in wire' : MessageOK(m)
  BY <1>0 DEF ConnectInv
<1> QED
  BY <1>7, <1>9, <1>10, <1>11, <1>12 DEF ConnectInv

LEMMA InitHolds ==
    ASSUME Init
    PROVE  ConnectInv
<1>1. ASSUME NEW p \in Procs
      PROVE  /\ NextGroup(p, 0) \in 1..(NumGroups + 1)
             /\ NextGroup(p, 0) <= NumGroups => p \in Members[NextGroup(p, 0)]
             /\ \A h \in DOMAIN Groups : p \in Members[h] => NextGroup(p, 0) <= h
  BY NextFacts, GroupFacts
<1>2. ASSUME NEW p \in Procs
      PROVE  /\ Given(p, NextGroup(p, 0)) \in Addresses
             /\ NextGroup(p, 0) > NumGroups =>
                   /\ Given(p, NextGroup(p, 0)).left = NoAddr
                   /\ Given(p, NextGroup(p, 0)).right = NoAddr
             /\ NextGroup(p, 0) <= NumGroups =>
                   /\ Given(p, NextGroup(p, 0)).left = AtLeft(p, NextGroup(p, 0), 0)
                   /\ Given(p, NextGroup(p, 0)).right = AtRight(p, NextGroup(p, 0), 0)
  BY <1>1, GivenFacts DEF Addresses
<1>3. ASSUME NEW p \in Procs
      PROVE  /\ addr[p] = Given(p, NextGroup(p, 0)) /\ reqs[p] = << >>
             /\ pc[p].g = NextGroup(p, 0) /\ pc[p].d = 0 /\ pc[p].at = FirstStep
  BY DEF Init
<1>4. ASSUME NEW p \in Procs, NEW g \in DOMAIN Groups, NEW d \in ListIndex(g)
      PROVE  listLeft[p][g][d] = NoChannel /\ listRight[p][g][d] = NoChannel
  BY DEF Init
<1>5. ShapeOK
  <2>1. pc \in [Procs -> Places]
    <3>1. FirstStep \in Steps
      BY DEF Steps
    <3> QED
      BY <1>1, <3>1 DEF Init, Places
  <2>2. addr \in [Procs -> Addresses]
    BY <1>2 DEF Init
  <2>3. reqs \in [Procs -> Seq(Channels)]
    BY DEF Init
  <2> QED
    BY <2>1, <2>2, <2>3 DEF ShapeOK, Places, Addresses, Init
<1>6. ASSUME NEW p \in Procs PROVE PlaceOK(p) /\ AddrOK(p) /\ RequestsOK(p)
  <2>0. /\ pc[p].g = NextGroup(p, 0) /\ pc[p].d = 0 /\ pc[p].at = FirstStep /\ FirstStep = "first"
        /\ pc[p].g \in 1..(NumGroups + 1) /\ (pc[p].g <= NumGroups => p \in Members[pc[p].g])
        /\ addr[p] = Given(p, pc[p].g) /\ NumGroups \in Nat
    BY <1>1, <1>3, GroupFacts DEF FirstStep
  <2>1. PlaceOK(p)
    BY <2>0 DEF PlaceOK, Finished, Group
  <2>2. AddrOK(p)
    <3>1. CASE pc[p].g > NumGroups
      BY <1>2, <2>0, <3>1 DEF AddrOK, Finished
    <3>2. CASE pc[p].g <= NumGroups
      BY <1>2, <2>0, <3>2 DEF AddrOK, Finished, Group
    <3> QED
      BY <2>0, <3>1, <3>2
  <2>3. RequestsOK(p)
    BY <1>3 DEF RequestsOK
  <2> QED
    BY <2>1, <2>2, <2>3
<1>7. ASSUME NEW p \in Procs, NEW g \in DOMAIN Groups, NEW d \in ListIndex(g)
      PROVE  EntriesOK(p, g, d)
  <2>1. CASE p \notin Members[g]
    BY <1>4, <2>1 DEF EntriesOK
  <2>2. CASE p \in Members[g]
    <3>0. pc[p].g <= g /\ pc[p].d = 0 /\ pc[p].g \in Nat /\ g \in Nat /\ d \in Nat
      BY <1>1, <1>3, <2>2, GroupFacts, IndexFacts
    <3>1. ~Past(p, g, d)
      BY <3>0 DEF Past
    <3>2. ~Accepted(p, g, d) /\ ~Connected(p, g, d)
      BY <1>3, <3>1 DEF Accepted, Connected
    <3> QED
      BY <1>4, <2>2, <3>2 DEF EntriesOK
  <2> QED
    BY <2>1, <2>2
<1>8. \A m \in wire : MessageOK(m)
  BY DEF Init
<1>9. SyncOK
  <2>1. SUFFICES ASSUME NEW g \in DOMAIN Groups, NEW p \in Members[g], pc[p].g > g PROVE FALSE
    BY DEF SyncOK
  <2>2. p \in Procs /\ g \in Nat
    BY GroupFacts
  <2>3. pc[p].g <= g /\ pc[p].g \in Nat
    BY <1>1, <1>3, <2>1, <2>2, GroupFacts
  <2> QED
    BY <2>1, <2>2, <2>3
<1> QED
  BY <1>5, <1>6, <1>7, <1>8, <1>9 DEF ConnectInv

LEMMA NextKeeps ==
    ASSUME Synced, SplitOrder, ConnectInv, [Next]_vars
    PROVE  ConnectInv'
<1>1. CASE UNCHANGED vars
  BY <1>1 DEF vars, ConnectInv, ShapeOK, PlaceOK, AddrOK, RequestsOK, RequestOK, EntriesOK,
              SyncOK, HasCreated, Accepted, Connected, Past, Here, InRound, Finished, Group,
              Connecting, Accepts, IsOdd, Waits, HasRight
<1>2. ASSUME NEW p \in Procs, Progress(p) PROVE ConnectInv'
  <2>1. CASE SkipConnect(p)
    BY <2>1, SkipConnectKeeps
  <2>2. CASE ConnectRight(p)
    BY <2>2, ConnectRightKeeps
  <2>3. CASE AcceptLeft(p)
    BY <2>3, AcceptLeftKeeps
  <2>4. CASE SendLeft(p)
    BY <2>4, SendLeftKeeps
  <2>5. CASE SendRight(p)
    BY <2>5, SendRightKeeps
  <2>6. CASE RecvLeft(p)
    BY <2>6, RecvLeftKeeps
  <2>7. CASE RecvRight(p)
    BY <2>7, RecvRightKeeps
  <2>8. CASE Return(p)
    BY <2>8, ReturnKeeps
  <2> QED
    BY <1>2, <2>1, <2>2, <2>3, <2>4, <2>5, <2>6, <2>7, <2>8 DEF Progress
<1> QED
  BY <1>1, <1>2 DEF Next

-----------------------------------------------------------------------------
(* The theorems.                                                           *)

\* The distance of the round a process is in, or has just left, is less than
\* twice the size.
LEMMA RoundBound ==
    ASSUME ConnectInv, NEW p \in Procs, ~Finished(p)
    PROVE  /\ Group(p) \in DOMAIN Groups /\ p \in Members[Group(p)]
           /\ pc[p].d \in ListIndex(Group(p)) /\ Dist(pc[p].d) < 2 * Size(Group(p))
<1>1. pc[p].g \in 1..(NumGroups + 1) /\ pc[p].d \in Nat /\ PlaceOK(p)
  BY DEF ConnectInv, ShapeOK
<1>2. Group(p) \in DOMAIN Groups /\ p \in Members[Group(p)]
  BY <1>1, GroupFacts DEF PlaceOK, Finished, Group
<1>3. Size(Group(p)) \in Nat /\ Size(Group(p)) > 0
  BY <1>2, GroupFacts
<1>4. CASE pc[p].d = 0
  BY <1>2, <1>3, <1>4, IndexFacts, DistAssumption
<1>5. CASE pc[p].d # 0
  <2>1. pc[p].d - 1 \in Rounds(Group(p))
    BY <1>1, <1>5 DEF PlaceOK
  <2>2. /\ (pc[p].d - 1) + 1 \in ListIndex(Group(p)) /\ Dist(pc[p].d - 1) \in Nat
        /\ Dist((pc[p].d - 1) + 1) = 2 * Dist(pc[p].d - 1)
        /\ Dist(pc[p].d - 1) < Size(Group(p))
    BY <1>2, <2>1, RoundFacts
  <2>3. (pc[p].d - 1) + 1 = pc[p].d
    BY <1>1
  <2> QED
    BY <1>2, <1>3, <2>2, <2>3
<1> QED
  BY <1>2, <1>4, <1>5

\* When lwgrp_create has returned, each entry is due.
LEMMA CreatedEntries ==
    ASSUME ConnectInv, NEW p \in Procs, NEW g \in DOMAIN Groups, p \in Members[g],
           HasCreated(p, g), NEW d \in ListIndex(g)
    PROVE  listLeft[p][g][d] = LeftChannel(p, g, d) /\ listRight[p][g][d] = RightChannel(p, g, d)
<1>1. EntriesOK(p, g, d) /\ d \in Nat /\ Dist(d) \in Nat /\ Dist(d) > 0 /\ pc[p].d \in Nat
  BY IndexFacts DEF ConnectInv, ShapeOK
<1>2. CASE Past(p, g, d)
  BY <1>1, <1>2 DEF EntriesOK, Accepted, Connected
<1>3. CASE ~Past(p, g, d)
  <2>1. pc[p].g = g /\ pc[p].d \notin Rounds(g) /\ ~(pc[p].d > d)
    BY <1>3 DEF Past, HasCreated
  <2>2. pc[p].d \in ListIndex(g)
    <3>1. ~Finished(p) /\ Group(p) = g
      BY <2>1, GroupFacts DEF Finished, Group
    <3> QED
      BY <3>1, RoundBound
  <2>3. d = pc[p].d
    BY <1>1, <2>1, <2>2, IndexFacts
  <2>4. Dist(d) >= Size(g)
    BY <2>1, <2>3, IndexFacts
  <2>5. Rank(g, p) \in 0..(Size(g) - 1) /\ Size(g) \in Nat
    BY RankFacts, GroupFacts
  <2>6. ~(Rank(g, p) - Dist(d) >= 0) /\ ~(Rank(g, p) + Dist(d) < Size(g))
    BY <1>1, <2>4, <2>5
  <2>7. AtLeft(p, g, d) = NoAddr /\ AtRight(p, g, d) = NoAddr
    BY <1>1, <2>6, NeighbourFacts
  <2> QED
    BY <1>1, <2>7 DEF EntriesOK, LeftChannel, RightChannel
<1> QED
  BY <1>2, <1>3

LEMMA InvImpliesNeighbours == ConnectInv => NeighboursAreRight
<1> SUFFICES ASSUME ConnectInv PROVE NeighboursAreRight
  OBVIOUS
<1>1. TypeOK
  <2>1. SUFFICES ASSUME NEW p \in Procs
        PROVE  /\ pc[p].g \in 1..(NumGroups + 1) /\ pc[p].at \in Steps
               /\ ~Finished(p) => pc[p].d \in Nat /\ Dist(pc[p].d) < 2 * Size(Group(p))
               /\ addr[p].left \in Procs \cup {NoAddr} /\ addr[p].right \in Procs \cup {NoAddr}
               /\ \A g \in DOMAIN Groups : \A d \in ListIndex(g) :
                     {Len(listLeft[p][g][d]), Len(listRight[p][g][d])} \subseteq {0, 4}
    BY DEF TypeOK
  <2>2. /\ pc[p].g \in 1..(NumGroups + 1) /\ pc[p].at \in Steps /\ pc[p].d \in Nat
        /\ addr[p].left \in Procs \cup {NoAddr} /\ addr[p].right \in Procs \cup {NoAddr}
    BY <2>1 DEF ConnectInv, ShapeOK
  <2>3. ASSUME NEW g \in DOMAIN Groups, NEW d \in ListIndex(g)
        PROVE  {Len(listLeft[p][g][d]), Len(listRight[p][g][d])} \subseteq {0, 4}
    <3>1. EntriesOK(p, g, d)
      BY <2>1 DEF ConnectInv
    <3>2. \A a, b : Len(Channel(a, b, g, d)) = 4
      BY DEF Channel
    <3>3. Len(NoChannel) = 0
      BY DEF NoChannel
    <3>4. /\ listLeft[p][g][d] \in {NoChannel, Channel(AtLeft(p, g, d), p, g, d)}
          /\ listRight[p][g][d] \in {NoChannel, Channel(p, AtRight(p, g, d), g, d)}
      BY <3>1 DEF EntriesOK, LeftChannel, RightChannel
    <3> QED
      BY <3>2, <3>3, <3>4
  <2> QED
    BY <2>1, <2>2, <2>3, RoundBound
<1>2. AddressesAreRight
  <2>1. SUFFICES ASSUME NEW p \in Procs, InRound(p), pc[p].at = FirstStep
        PROVE  addr[p] = [left |-> AtLeft(p, Group(p), pc[p].d),
                          right |-> AtRight(p, Group(p), pc[p].d)]
    BY DEF AddressesAreRight
  <2>2. AddrOK(p) /\ ~Finished(p) /\ pc[p].at # "recvRight"
    BY <2>1, RoundPlace DEF FirstStep
  <2>3. /\ addr[p].left = AtLeft(p, Group(p), pc[p].d)
        /\ addr[p].right = AtRight(p, Group(p), pc[p].d)
    BY <2>2 DEF AddrOK
  <2>4. addr[p] \in [left : Procs \cup {NoAddr}, right : Procs \cup {NoAddr}]
    BY <2>1 DEF ConnectInv, ShapeOK
  <2> QED
    BY <2>3, <2>4
<1>3. ASSUME NEW p \in Procs, NEW g \in DOMAIN Groups, p \in Members[g], NEW d \in ListIndex(g)
      PROVE  /\ listLeft[p][g][d] \in {NoChannel, LeftChannel(p, g, d)}
             /\ listRight[p][g][d] \in {NoChannel, RightChannel(p, g, d)}
             /\ HasCreated(p, g) =>
                   /\ listLeft[p][g][d] = LeftChannel(p, g, d)
                   /\ listRight[p][g][d] = RightChannel(p, g, d)
  <2>1. EntriesOK(p, g, d)
    BY DEF ConnectInv
  <2> QED
    BY <1>3, <2>1, CreatedEntries DEF EntriesOK
<1> QED
  BY <1>1, <1>2, <1>3 DEF NeighboursAreRight

\* The parts of the invariant hold in every state, if members wait for each other
\* between groups and groups are those of lwgrp_split.
THEOREM ConnectInvariant ==
    ASSUME Synced, SplitOrder
    PROVE  Spec => []ConnectInv
<1>1. Init => ConnectInv
  BY InitHolds
<1>2. ConnectInv /\ [Next]_vars => ConnectInv'
  BY NextKeeps
<1> QED
  BY <1>1, <1>2, PTL DEF Spec

\* lwgrp_create builds the lists that lwgrp.h promises, for groups of any size:
\* entry d is the channel to the member 2^d away, and the addresses handed on
\* from round to round are right.
THEOREM NeighboursRight ==
    ASSUME Synced, SplitOrder
    PROVE  Spec => []NeighboursAreRight
<1>1. ConnectInv => NeighboursAreRight
  BY InvImpliesNeighbours
<1>2. Spec => []ConnectInv
  BY ConnectInvariant
<1> QED
  BY <1>1, <1>2, PTL
=============================================================================
