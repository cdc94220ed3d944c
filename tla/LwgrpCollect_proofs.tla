------------------------ MODULE LwgrpCollect_proofs ------------------------
(***************************************************************************)
(* Proofs about LwgrpCollect, for groups of any size and any sequence of   *)
(* operations: every operation returns the right value, nobody leaves an   *)
(* operation over all members early, and no message is taken for one of    *)
(* another operation or round.                                             *)
(***************************************************************************)
EXTENDS LwgrpCollect, SequenceTheorems, WellFoundedInduction, TLAPS

-----------------------------------------------------------------------------
(* Distances.                                                              *)

\* A set of numbers has a least one.
LEMMA LeastElement ==
    ASSUME NEW T \in SUBSET Nat, T # {}
    PROVE  \E x \in T : \A y \in T : x <= y
<1>1. PICK R : R = {ss \in Nat \X Nat : ss[1] < ss[2]}
  OBVIOUS
<1>2. IsWellFoundedOn(R, Nat)
  BY <1>1, NatLessThanWellFounded DEF OpToRel
<1>3. PICK x \in T : \A y \in T : ~(<<y, x>> \in R)
  BY <1>2, WFMin
<1>4. \A y \in T : ~(y < x)
  BY <1>1, <1>3
<1> QED
  BY <1>4

\* Induction, for a set of numbers.
LEMMA SetInduction ==
    ASSUME NEW S \in SUBSET Nat, 0 \in S, \A n \in S : n + 1 \in S
    PROVE  \A n \in Nat : n \in S
<1>1. SUFFICES ASSUME NEW k \in Nat, k \notin S PROVE FALSE
  OBVIOUS
<1>2. PICK x \in Nat \ S : \A y \in Nat \ S : x <= y
  BY <1>1, LeastElement
<1>3. x - 1 \in Nat /\ x - 1 \notin Nat \ S
  BY <1>2
<1>4. (x - 1) + 1 \in S
  BY <1>3
<1> QED
  BY <1>2, <1>4

Sizes == 0..(Size + 1)

\* The distance of a round exceeds its number, and grows with it.
LEMMA Distances ==
    /\ \A d \in Sizes : Dist(d) \in Nat /\ Dist(d) > d
    /\ \A d, e \in Sizes : d < e => Dist(d) < Dist(e)
<1>0. /\ Size \in Nat /\ Dist(0) = 1 /\ \A d \in Sizes : Dist(d + 1) = 2 * Dist(d)
  BY CollectAssumption, DistAssumption DEF Sizes
<1>1. \A d \in Nat : d <= Size + 1 => Dist(d) \in Nat /\ Dist(d) > d
  <2> DEFINE S == {d \in Nat : d <= Size + 1 => Dist(d) \in Nat /\ Dist(d) > d}
  <2>1. 0 \in S
    BY <1>0
  <2>2. ASSUME NEW d \in S PROVE d + 1 \in S
    <3>1. CASE d + 1 <= Size + 1
      <4>1. d \in Sizes /\ Dist(d) \in Nat /\ Dist(d) > d
        BY <1>0, <3>1 DEF Sizes
      <4>2. Dist(d + 1) = 2 * Dist(d)
        BY <1>0, <4>1
      <4> QED
        BY <4>1, <4>2
    <3> QED
      BY <3>1
  <2> HIDE DEF S
  <2>3. \A d \in Nat : d \in S
    BY <2>1, <2>2, SetInduction DEF S
  <2> QED
    BY <2>3 DEF S
<1>2. \A e \in Nat : e <= Size + 1 => \A d \in Sizes : d < e => Dist(d) < Dist(e)
  <2> DEFINE S == {e \in Nat : e <= Size + 1 => \A d \in Sizes : d < e => Dist(d) < Dist(e)}
  <2>1. 0 \in S
    BY DEF Sizes
  <2>2. ASSUME NEW e \in S PROVE e + 1 \in S
    <3>1. ASSUME e + 1 <= Size + 1, NEW d \in Sizes, d < e + 1
          PROVE  Dist(d) < Dist(e + 1)
      <4>1. e \in Sizes /\ Dist(e) \in Nat /\ Dist(e) > 0
        BY <1>0, <1>1, <3>1 DEF Sizes
      <4>2. Dist(e + 1) = 2 * Dist(e)
        BY <1>0, <4>1
      <4>3. Dist(d) \in Nat /\ (d = e \/ Dist(d) < Dist(e))
        BY <1>0, <1>1, <3>1 DEF Sizes
      <4> QED
        BY <4>1, <4>2, <4>3
    <3> QED
      BY <3>1
  <2> HIDE DEF S
  <2>3. \A e \in Nat : e \in S
    BY <2>1, <2>2, SetInduction DEF S
  <2> QED
    BY <2>3 DEF S
<1> QED
  BY <1>0, <1>1, <1>2 DEF Sizes

\* The sizes and the rounds of an operation.
LEMMA SizeFacts == Size \in Nat /\ Size > 0 /\ NumOps \in Nat /\ NumOps > 0
  BY CollectAssumption

LEMMA RoundFacts ==
    ASSUME NEW kind, NEW d \in Rounds(kind)
    PROVE  /\ d \in Sizes /\ d + 1 \in Sizes /\ d \in 0..Size
           /\ kind = "shift" => d = 0 /\ Size > 1
           /\ kind # "shift" => Dist(d) < Size
           /\ Dist(d + 1) = 2 * Dist(d)
<1>1. d \in 0..Size /\ (kind = "shift" => d = 0 /\ Size > 1) /\ (kind # "shift" => Dist(d) < Size)
  BY SizeFacts DEF Rounds
<1>2. d \in Sizes /\ d + 1 \in Sizes
  BY <1>1, SizeFacts DEF Sizes
<1> QED
  BY <1>1, <1>2, DistAssumption DEF Sizes

\* After the last round all members are near enough.
LEMMA LastRound ==
    ASSUME NEW kind, NEW d \in Sizes, d \notin Rounds(kind), d # 0 => d - 1 \in Rounds(kind)
    PROVE  /\ \A e \in Rounds(kind) : e < d
           /\ kind # "shift" => Dist(d) >= Size
           /\ kind = "shift" => d = IF Size > 1 THEN 1 ELSE 0
<1>1. CASE kind = "shift"
  BY <1>1, SizeFacts DEF Rounds, Sizes
<1>2. CASE kind # "shift"
  <2>1. Dist(d) >= Size
    <3>1. CASE d \in 0..Size
      BY <1>2, <3>1, SizeFacts, Distances DEF Rounds, Sizes
    <3>2. CASE d = Size + 1
      BY <3>2, SizeFacts, Distances DEF Sizes
    <3> QED
      BY <3>1, <3>2, SizeFacts DEF Sizes
  <2>2. ASSUME NEW e \in Rounds(kind) PROVE e < d
    <3>1. e \in Sizes /\ Dist(e) < Size /\ Dist(e) \in Nat /\ Dist(d) \in Nat
      BY <1>2, RoundFacts, Distances
    <3>2. ~(d = e) /\ ~(d < e)
      BY <2>1, <3>1, Distances, SizeFacts
    <3> QED
      BY <3>1, <3>2 DEF Sizes
  <2> QED
    BY <1>2, <2>1, <2>2
<1> QED
  BY <1>1, <1>2

-----------------------------------------------------------------------------
(* Partners and steps.                                                     *)

Steps == [do : {"send", "recv"}, side : Sides]

\* A round has every step once.
LEMMA ExchangeFacts ==
    ASSUME NEW f, NEW r, NEW d
    PROVE  /\ \A i \in 1..4 : Exchange(f, r, d)[i] \in Steps
           /\ \A i, j \in 1..4 : Exchange(f, r, d)[i] = Exchange(f, r, d)[j] => i = j
           /\ \A step \in Steps : \E i \in 1..4 : Exchange(f, r, d)[i] = step
<1> DEFINE a == Send("left")
           b == Send("right")
           x == Recv("left")
           y == Recv("right")
<1>1. /\ {a, b, x, y} \subseteq Steps
      /\ a # b /\ a # x /\ a # y /\ b # x /\ b # y /\ x # y
  BY DEF Steps, Sides, Send, Recv
<1>2. \A step \in Steps : step \in {a, b, x, y}
  <2> SUFFICES ASSUME NEW step \in Steps PROVE step \in {a, b, x, y}
    OBVIOUS
  <2>1. step = [do |-> step.do, side |-> step.side]
    BY DEF Steps
  <2>2. step.do \in {"send", "recv"} /\ step.side \in {"left", "right"}
    BY DEF Steps, Sides
  <2> QED
    BY <2>1, <2>2 DEF Send, Recv
<1>3. PICK e : e = Exchange(f, r, d)
  OBVIOUS
<1>4. \/ e = <<a, b, x, y>>
      \/ e = <<x, a, b, y>>
      \/ e = <<b, y, x, a>>
  BY <1>3 DEF Exchange, EagerExchange, BlockingExchange
<1> HIDE DEF a, b, x, y
<1>5. /\ \A i \in 1..4 : e[i] \in {a, b, x, y}
      /\ \A i, j \in 1..4 : e[i] = e[j] => i = j
      /\ \A step \in {a, b, x, y} : \E i \in 1..4 : e[i] = step
  <2>0. \A i \in 1..4 : i \in {1, 2, 3, 4}
    OBVIOUS
  <2>1. CASE e = <<a, b, x, y>>
    <3>1. e[1] = a /\ e[2] = b /\ e[3] = x /\ e[4] = y
      BY <2>1
    <3> QED
      BY <1>1, <2>0, <3>1
  <2>2. CASE e = <<x, a, b, y>>
    <3>1. e[1] = x /\ e[2] = a /\ e[3] = b /\ e[4] = y
      BY <2>2
    <3> QED
      BY <1>1, <2>0, <3>1
  <2>3. CASE e = <<b, y, x, a>>
    <3>1. e[1] = b /\ e[2] = y /\ e[3] = x /\ e[4] = a
      BY <2>3
    <3> QED
      BY <1>1, <2>0, <3>1
  <2> QED
    BY <1>4, <2>1, <2>2, <2>3
<1> QED
  BY <1>1, <1>2, <1>3, <1>5

LEMMA StepFacts ==
    /\ \A step \in Steps : step.side \in Sides /\ step = IF step.do = "send" THEN Send(step.side)
                                                         ELSE Recv(step.side)
    /\ \A side \in Sides : /\ Send(side) \in Steps /\ Recv(side) \in Steps
                           /\ Send(side).side = side /\ Recv(side).side = side
                           /\ Send(side).do = "send" /\ Recv(side).do = "recv"
                           /\ Other(side) \in Sides /\ Other(Other(side)) = side /\ Other(side) # side
    /\ \A a, b \in Sides : Send(a) # Recv(b)
    /\ \A a, b \in Sides : (Send(a) = Send(b) => a = b) /\ (Recv(a) = Recv(b) => a = b)
<1>1. ASSUME NEW step \in Steps
      PROVE  step.side \in Sides /\ step = IF step.do = "send" THEN Send(step.side)
                                           ELSE Recv(step.side)
  <2>1. step = [do |-> step.do, side |-> step.side]
    BY DEF Steps
  <2> QED
    BY <2>1 DEF Steps, Send, Recv
<1>2. \A side \in Sides : /\ Send(side) \in Steps /\ Recv(side) \in Steps
                          /\ Send(side).side = side /\ Recv(side).side = side
                          /\ Send(side).do = "send" /\ Recv(side).do = "recv"
  BY DEF Steps, Send, Recv
<1>3. \A side \in Sides : Other(side) \in Sides /\ Other(Other(side)) = side /\ Other(side) # side
  BY DEF Sides, Other
<1>4. /\ \A a, b \in Sides : Send(a) # Recv(b)
      /\ \A a, b \in Sides : (Send(a) = Send(b) => a = b) /\ (Recv(a) = Recv(b) => a = b)
  BY DEF Send, Recv
<1> QED
  BY <1>1, <1>2, <1>3, <1>4

\* A member is its partner's partner, and has another one for each round and side.
LEMMA PartnerFacts ==
    ASSUME NEW q \in Ranks, NEW side \in Sides, NEW d \in Sizes
    PROVE  /\ Partner(q, side, d) \in Int /\ Partner(q, side, d) # q
           /\ Partner(Partner(q, side, d), Other(side), d) = q
           /\ HasPartner(q, side, d) => /\ Partner(q, side, d) \in Ranks
                                        /\ HasPartner(Partner(q, side, d), Other(side), d)
           /\ \A other \in Sides, e \in Sizes :
                 Partner(q, side, d) = Partner(q, other, e) => side = other /\ d = e
<1>1. q \in Int /\ Dist(d) \in Nat /\ Dist(d) > 0
  BY SizeFacts, Distances DEF Ranks, Sizes
<1>2. Partner(Partner(q, side, d), Other(side), d) = q
  BY <1>1 DEF Partner, Other, Sides
<1>3. ASSUME NEW other \in Sides, NEW e \in Sizes, Partner(q, side, d) = Partner(q, other, e)
      PROVE  side = other /\ d = e
  <2>1. Dist(e) \in Nat /\ Dist(e) > 0
    BY Distances DEF Sizes
  <2>2. side = other /\ Dist(d) = Dist(e)
    BY <1>1, <1>3, <2>1 DEF Partner, Sides
  <2>3. ~(d < e) /\ ~(e < d)
    BY <1>1, <2>1, <2>2, Distances
  <2> QED
    BY <2>2, <2>3 DEF Sizes
<1>4. Partner(q, side, d) \in Int /\ Partner(q, side, d) # q
  BY <1>1 DEF Partner
<1> QED
  BY <1>2, <1>3, <1>4 DEF HasPartner

\* What one member sends in a round, its partner reads.
LEMMA DueFacts ==
    ASSUME NEW q \in Ranks, NEW side \in Sides, NEW d \in Sizes, HasPartner(q, side, d), NEW n
    PROVE  Due(q, Send(side), n, d) <=> Due(Partner(q, side, d), Recv(Other(side)), n, d)
<1>1. HasPartner(Partner(q, side, d), Other(side), d)
  BY PartnerFacts
<1>2. Moves(ops[n], Send(side)) <=> Moves(ops[n], Recv(Other(side)))
  BY StepFacts DEF Moves, Other, Sides
<1> QED
  BY <1>1, <1>2, StepFacts DEF Due

-----------------------------------------------------------------------------
(* How far a member is.                                                    *)

\* r goes on to step k of round d of operation n; the others stay.
MovesTo(r, n, d, k) ==
    /\ form' = form /\ ops' = ops
    /\ pc' \in [Ranks -> Positions]
    /\ pc'[r].n = n /\ pc'[r].d = d /\ pc'[r].at = k
    /\ \A q \in Ranks : q # r => pc'[q] = pc[q]

\* No step that is due changes its state ...
SameDone ==
    \A q \in Ranks, step \in Steps, n \in 1..NumOps, d \in Sizes :
        Due(q, step, n, d) => (Done(q, step, n, d)' <=> Done(q, step, n, d))

\* ... or only this one does.
OneMoreDone(r, did, m, e) ==
    /\ did \in Steps /\ m \in 1..NumOps /\ e \in Sizes
    /\ Due(r, did, m, e) /\ ~Done(r, did, m, e)
    /\ Done(r, did, m, e)'
    /\ \A q \in Ranks, step \in Steps, n \in 1..NumOps, d \in Sizes :
          Due(q, step, n, d) /\ ~(q = r /\ step = did /\ n = m /\ d = e)
              => (Done(q, step, n, d)' <=> Done(q, step, n, d))

LEMMA PositionFacts ==
    ASSUME ShapeOK, NEW r \in Ranks
    PROVE  /\ pc[r].n \in 1..(NumOps + 1) /\ pc[r].d \in Sizes /\ pc[r].at \in 1..5
           /\ pc[r].call \in {"none", "write"} /\ r \in Int
           /\ Finished(r) <=> pc[r].n = NumOps + 1
           /\ ~Finished(r) => pc[r].n \in 1..NumOps /\ Kind(r) \in Kinds
<1>1. pc[r] \in Positions /\ ops \in [1..NumOps -> Kinds]
  BY DEF ShapeOK
<1>2. /\ pc[r].n \in 1..(NumOps + 1) /\ pc[r].d \in Sizes /\ pc[r].at \in 1..5
      /\ pc[r].call \in {"none", "write"}
  BY <1>1 DEF Positions, Sizes
<1>3. Finished(r) <=> pc[r].n = NumOps + 1
  BY <1>2, SizeFacts DEF Finished
<1>4. ~Finished(r) => pc[r].n \in 1..NumOps
  BY <1>2, SizeFacts DEF Finished
<1> QED
  BY <1>1, <1>2, <1>3, <1>4, SizeFacts DEF Kind, Ranks

LEMMA OtherDone ==
    ASSUME NEW r, NEW m, NEW e, NEW k, MovesTo(r, m, e, k),
           NEW q \in Ranks, q # r, NEW step, NEW n, NEW d
    PROVE  Done(q, step, n, d)' <=> Done(q, step, n, d)
  BY DEF MovesTo, Done

LEMMA TakenIs ==
    ASSUME ShapeOK, NEW r \in Ranks, NEW i \in 1..4, NEW do, Now(r, i, do),
           MovesTo(r, pc[r].n, pc[r].d, i + 1)
    PROVE  OneMoreDone(r, Step(r, i), pc[r].n, pc[r].d) /\ Step(r, i).do = do
<1>1. PICK e : e = Exchange(form, r, pc[r].d)
  OBVIOUS
<1>2. PICK n0 \in 1..NumOps : n0 = pc[r].n
  BY PositionFacts DEF Now, InRound
<1>3. PICK d0 \in Sizes : d0 = pc[r].d
  BY PositionFacts
<1>4. PICK k \in 1..5 : k = pc[r].at
  BY PositionFacts
<1>5. /\ \A j \in 1..4 : e[j] \in Steps
      /\ \A j, l \in 1..4 : e[j] = e[l] => j = l
      /\ \A step \in Steps : \E j \in 1..4 : e[j] = step
  BY <1>1, ExchangeFacts
<1>6. PICK did \in Steps : did = Step(r, i) /\ did = e[i]
  BY <1>1, <1>5 DEF Step
<1>7. /\ d0 \in Rounds(ops[n0]) /\ i \in k..4 /\ did.do = do
      /\ \A j \in 1..4 : Takes(r, j) <=> Due(r, e[j], n0, d0)
      /\ Due(r, e[i], n0, d0)
      /\ \A j \in k..(i - 1) : ~Due(r, e[j], n0, d0)
  <2>1. d0 \in Rounds(ops[n0]) /\ i \in k..4 /\ did.do = do /\ Takes(r, i)
        /\ \A j \in k..(i - 1) : ~Takes(r, j)
    BY <1>2, <1>3, <1>4, <1>6 DEF Now, InRound, Kind
  <2>2. \A j \in 1..4 : Takes(r, j) <=> Due(r, e[j], n0, d0)
    BY <1>1, <1>2, <1>3, <2>1 DEF Takes, Step, Due, Kind
  <2>3. \A j \in k..(i - 1) : j \in 1..4
    OBVIOUS
  <2> QED
    BY <2>1, <2>2, <2>3
<1>8. \A step : Done(r, step, n0, d0) <=> \E j \in 1..(k - 1) : e[j] = step
  BY <1>1, <1>2, <1>3, <1>4 DEF Done, Sizes
<1>9. \A step : Done(r, step, n0, d0)' <=> \E j \in 1..i : e[j] = step
  <2>1. pc'[r].n = n0 /\ pc'[r].d = d0 /\ pc'[r].at = i + 1 /\ form' = form /\ (i + 1) - 1 = i
    BY <1>2, <1>3 DEF MovesTo
  <2>2. SUFFICES ASSUME NEW step
                 PROVE  Done(r, step, n0, d0)' <=> \E j \in 1..i : e[j] = step
    OBVIOUS
  <2>3. Exchange(form', r, d0) = e
    BY <1>1, <1>3, <2>1
  <2>4. Done(r, step, n0, d0)' <=> \E j \in 1..((i + 1) - 1) : e[j] = step
    BY <2>1, <2>3 DEF Done, Sizes
  <2> QED
    BY <2>1, <2>4
<1>10. ~Done(r, did, n0, d0) /\ Done(r, did, n0, d0)'
  BY <1>5, <1>6, <1>7, <1>8, <1>9
<1>11. ASSUME NEW step \in Steps, Due(r, step, n0, d0), step # did
       PROVE  Done(r, step, n0, d0)' <=> Done(r, step, n0, d0)
  <2>1. PICK j \in 1..4 : e[j] = step
    BY <1>5
  <2>2. j # i /\ j \notin k..(i - 1)
    BY <1>6, <1>7, <1>11, <2>1
  <2>3. j \in 1..i <=> j \in 1..(k - 1)
    BY <1>7, <2>2
  <2> QED
    BY <1>5, <1>7, <1>8, <1>9, <2>1, <2>3
<1>12. ASSUME NEW step, NEW n \in 1..NumOps, NEW d \in Sizes, ~(n = n0 /\ d = d0)
       PROVE  Done(r, step, n, d)' <=> Done(r, step, n, d)
  <2>1. pc'[r].n = n0 /\ pc'[r].d = d0
    BY <1>2, <1>3 DEF MovesTo
  <2> QED
    BY <1>2, <1>3, <1>12, <2>1 DEF Done
<1>13. ASSUME NEW q \in Ranks, NEW step \in Steps, NEW n \in 1..NumOps, NEW d \in Sizes,
              Due(q, step, n, d), ~(q = r /\ step = did /\ n = n0 /\ d = d0)
       PROVE  Done(q, step, n, d)' <=> Done(q, step, n, d)
  <2>1. CASE q # r
    BY <2>1, OtherDone
  <2>2. CASE q = r /\ ~(n = n0 /\ d = d0)
    BY <1>12, <2>2
  <2>3. CASE q = r /\ n = n0 /\ d = d0
    BY <1>11, <1>13, <2>3
  <2> QED
    BY <2>1, <2>2, <2>3
<1>14. OneMoreDone(r, did, n0, d0)
  BY ONLY <1>6, <1>7, <1>10, <1>13, n0 \in 1..NumOps, d0 \in Sizes DEF OneMoreDone
<1> QED
  BY ONLY <1>2, <1>3, <1>6, <1>7, <1>14, Zenon

LEMMA StaysIs ==
    ASSUME NEW r \in Ranks, MovesTo(r, pc[r].n, pc[r].d, pc[r].at)
    PROVE  SameDone
<1>1. ASSUME NEW q \in Ranks, NEW step, NEW n, NEW d
      PROVE  Done(q, step, n, d)' <=> Done(q, step, n, d)
  <2>1. CASE q # r
    BY <2>1, OtherDone
  <2>2. CASE q = r
    BY <2>2 DEF MovesTo, Done
  <2> QED
    BY <2>1, <2>2
<1> QED
  BY <1>1 DEF SameDone

\* The next round starts when no step of this one is left ...
LEMMA PassedIs ==
    ASSUME ShapeOK, NEW r \in Ranks, InRound(r), \A i \in pc[r].at..4 : ~Takes(r, i),
           MovesTo(r, pc[r].n, pc[r].d + 1, 1)
    PROVE  /\ SameDone
           /\ \A step \in Steps : Due(r, step, pc[r].n, pc[r].d) => Done(r, step, pc[r].n, pc[r].d)
<1>1. PICK e : e = Exchange(form, r, pc[r].d)
  OBVIOUS
<1>2. PICK n0 \in 1..NumOps : n0 = pc[r].n
  BY PositionFacts DEF InRound
<1>3. PICK d0 \in Sizes : d0 = pc[r].d
  BY PositionFacts
<1>4. PICK k \in 1..5 : k = pc[r].at
  BY PositionFacts
<1>5. \A j \in 1..4 : Takes(r, j) <=> Due(r, e[j], n0, d0)
  BY <1>1, <1>2, <1>3 DEF Takes, Step, Due, Kind, InRound
<1>6. ASSUME NEW step \in Steps, Due(r, step, n0, d0) PROVE Done(r, step, n0, d0)
  <2>1. PICK j \in 1..4 : e[j] = step
    BY <1>1, ExchangeFacts
  <2>2. j \notin k..4
    BY <1>4, <1>5, <1>6, <2>1
  <2>3. j \in 1..(k - 1)
    BY <2>2
  <2> QED
    BY <1>1, <1>2, <1>3, <1>4, <2>1, <2>3 DEF Done
<1>7. pc'[r].n = n0 /\ pc'[r].d = d0 + 1 /\ pc'[r].at = 1
  BY <1>2, <1>3 DEF MovesTo
<1>8. ASSUME NEW step \in Steps, NEW n \in 1..NumOps, NEW d \in Sizes, Due(r, step, n, d)
      PROVE  Done(r, step, n, d)' <=> Done(r, step, n, d)
  <2>1. Done(r, step, n, d)' <=> n0 > n \/ (n0 = n /\ d0 + 1 > d)
    BY <1>7 DEF Done
  <2>2. CASE n = n0 /\ d = d0
    BY <1>6, <1>8, <2>1, <2>2 DEF Sizes
  <2>3. CASE ~(n = n0 /\ d = d0)
    <3>1. Done(r, step, n, d) <=> n0 > n \/ (n0 = n /\ d0 > d)
      BY <1>2, <1>3, <2>3 DEF Done
    <3> QED
      BY <2>1, <2>3, <3>1 DEF Sizes
  <2> QED
    BY <2>2, <2>3
<1>9. SameDone
  <2> SUFFICES ASSUME NEW q \in Ranks, NEW step \in Steps, NEW n \in 1..NumOps, NEW d \in Sizes,
                      Due(q, step, n, d)
               PROVE  Done(q, step, n, d)' <=> Done(q, step, n, d)
    BY DEF SameDone
  <2>1. CASE q # r
    BY <2>1, OtherDone
  <2>2. CASE q = r
    BY <1>8, <2>2
  <2> QED
    BY <2>1, <2>2
<1> QED
  BY ONLY <1>2, <1>3, <1>6, <1>9, Zenon

\* ... and the next operation when no round is left.
LEMMA LeftIs ==
    ASSUME ShapeOK, NEW r \in Ranks, PlaceOK(r), ~Finished(r), pc[r].d \notin Rounds(Kind(r)),
           MovesTo(r, pc[r].n + 1, 0, 1)
    PROVE  SameDone
<1>1. PICK n0 \in 1..NumOps : n0 = pc[r].n
  BY PositionFacts
<1>2. PICK d0 \in Sizes : d0 = pc[r].d
  BY PositionFacts
<1>3. PICK kind \in Kinds : kind = ops[n0]
  BY <1>1, PositionFacts DEF Kind
<1>4. d0 \notin Rounds(kind) /\ (d0 # 0 => d0 - 1 \in Rounds(kind))
  BY <1>1, <1>2, <1>3 DEF PlaceOK, Kind
<1>5. \A e \in Rounds(kind) : e < d0
  BY <1>4, LastRound
<1>6. pc'[r].n = n0 + 1 /\ pc'[r].d = 0 /\ pc'[r].at = 1
  BY <1>1 DEF MovesTo
<1>7. ASSUME NEW step \in Steps, NEW n \in 1..NumOps, NEW d \in Sizes, Due(r, step, n, d)
      PROVE  Done(r, step, n, d)' <=> Done(r, step, n, d)
  <2>1. Done(r, step, n, d)' <=> n0 + 1 > n
    BY <1>6 DEF Done, Sizes
  <2>2. n = n0 => d < d0
    BY <1>3, <1>5, <1>7 DEF Due
  <2>3. Done(r, step, n, d) <=> n0 > n \/ n0 = n
    BY <1>1, <1>2, <2>2 DEF Done, Sizes
  <2> QED
    BY <2>1, <2>3
<1> SUFFICES ASSUME NEW q \in Ranks, NEW step \in Steps, NEW n \in 1..NumOps, NEW d \in Sizes,
                    Due(q, step, n, d)
             PROVE  Done(q, step, n, d)' <=> Done(q, step, n, d)
  BY DEF SameDone
<1>8. CASE q # r
  BY <1>8, OtherDone
<1>9. CASE q = r
  BY <1>7, <1>9
<1> QED
  BY <1>8, <1>9

-----------------------------------------------------------------------------
(* Messages.                                                               *)

LEMMA WindowType ==
    ASSUME NEW r, NEW kind, NEW side, NEW d
    PROVE  Window(r, kind, side, d) \in Counts
  BY DEF Window, Counts

LEMMA ListsAppend ==
    ASSUME NEW c \in Seq(Messages), NEW M, Lists(c, M), NEW x \in Messages,
           \A m \in M : m.n < x.n, NEW t, t = Append(c, x)
    PROVE  Lists(t, M \cup {x})
<1>1. /\ Len(c) \in Nat /\ Len(t) = Len(c) + 1 /\ t[Len(c) + 1] = x
      /\ \A k \in 1..Len(c) : t[k] = c[k]
  OBVIOUS
<1>2. \A k \in 1..Len(t) : k \in 1..Len(c) \/ k = Len(c) + 1
  BY <1>1
<1>3. \A k \in 1..Len(t) : t[k] \in M \cup {x}
  BY <1>1, <1>2 DEF Lists
<1>4. ASSUME NEW m \in M \cup {x} PROVE \E k \in 1..Len(t) : t[k] = m
  <2>1. CASE m \in M
    <3>1. PICK k \in 1..Len(c) : c[k] = m
      BY <2>1 DEF Lists
    <3>2. k \in 1..Len(t) /\ t[k] = m
      BY <1>1, <3>1
    <3> QED
      BY <3>2
  <2>2. CASE m = x
    <3>1. Len(c) + 1 \in 1..Len(t) /\ t[Len(c) + 1] = m
      BY <1>1, <2>2
    <3> QED
      BY <3>1
  <2> QED
    BY <2>1, <2>2
<1>5. ASSUME NEW k \in 1..Len(t), NEW l \in 1..Len(t), k < l PROVE t[k].n < t[l].n
  <2>1. k \in 1..Len(c) /\ t[k] = c[k] /\ c[k] \in M
    BY <1>1, <1>5 DEF Lists
  <2>2. CASE l \in 1..Len(c)
    BY <1>1, <1>5, <2>1, <2>2 DEF Lists
  <2>3. CASE l = Len(c) + 1
    BY <1>1, <2>1, <2>3
  <2> QED
    BY <1>2, <2>2, <2>3
<1> QED
  BY <1>3, <1>4, <1>5 DEF Lists

LEMMA ListsHead ==
    ASSUME NEW c \in Seq(Messages), NEW M, Lists(c, M), c # << >>
    PROVE  /\ Head(c) \in M /\ Head(c) \in Messages
           /\ \A m \in M : m = Head(c) \/ Head(c).n < m.n
           /\ Lists(Tail(c), M \ {Head(c)})
<1>1. PICK t \in Seq(Messages) : t = Tail(c)
  BY HeadTailProperties
<1>2. PICK h \in Messages : h = Head(c) /\ h = c[1]
  OBVIOUS
<1>3. /\ Len(c) \in Nat /\ Len(c) > 0 /\ Len(t) = Len(c) - 1
      /\ \A k \in 1..Len(t) : t[k] = c[k + 1]
  BY <1>1
<1>4. ASSUME NEW k \in 1..Len(c), k # 1 PROVE h.n < c[k].n /\ c[k] # h
  <2>1. 1 \in 1..Len(c) /\ 1 < k /\ h.n \in Int
    BY <1>3, <1>4 DEF Messages
  <2> QED
    BY <1>2, <2>1 DEF Lists
<1>5. h \in M
  BY <1>2, <1>3 DEF Lists
<1>6. \A m \in M : m = h \/ h.n < m.n
  <2> SUFFICES ASSUME NEW m \in M PROVE m = h \/ h.n < m.n
    OBVIOUS
  <2>1. PICK k \in 1..Len(c) : c[k] = m
    BY DEF Lists
  <2> QED
    BY <1>2, <1>4, <2>1
<1>7. \A k \in 1..Len(t) : t[k] \in M \ {h}
  <2> SUFFICES ASSUME NEW k \in 1..Len(t) PROVE t[k] \in M \ {h}
    OBVIOUS
  <2>1. k + 1 \in 1..Len(c) /\ k + 1 # 1 /\ t[k] = c[k + 1]
    BY <1>3
  <2> QED
    BY <1>4, <2>1 DEF Lists
<1>8. \A m \in M \ {h} : \E k \in 1..Len(t) : t[k] = m
  <2> SUFFICES ASSUME NEW m \in M \ {h} PROVE \E k \in 1..Len(t) : t[k] = m
    OBVIOUS
  <2>1. PICK k \in 1..Len(c) : c[k] = m
    BY DEF Lists
  <2>2. k - 1 \in 1..Len(t) /\ t[k - 1] = c[(k - 1) + 1] /\ (k - 1) + 1 = k
    BY <1>2, <1>3, <2>1
  <2>3. t[k - 1] = m
    BY <2>1, <2>2
  <2> QED
    BY <2>2, <2>3
<1>9. \A k, l \in 1..Len(t) : k < l => t[k].n < t[l].n
  <2> SUFFICES ASSUME NEW k \in 1..Len(t), NEW l \in 1..Len(t), k < l PROVE t[k].n < t[l].n
    OBVIOUS
  <2>1. k + 1 \in 1..Len(c) /\ l + 1 \in 1..Len(c) /\ k + 1 < l + 1
    BY <1>3
  <2> QED
    BY <1>3, <2>1 DEF Lists
<1>10. Lists(t, M \ {h})
  BY <1>7, <1>8, <1>9 DEF Lists
<1> QED
  BY <1>1, <1>2, <1>5, <1>6, <1>10

LEMMA MailFacts ==
    ASSUME ShapeOK, NEW q, NEW side, NEW d \in 0..Size
    PROVE  /\ \A n \in 1..NumOps : Pending(q, side, d, n) => Message(q, side, d, n) \in Mail(q, side, d)
           /\ \A m \in Mail(q, side, d) :
                 /\ m \in Messages /\ m.n \in 1..NumOps /\ Pending(q, side, d, m.n)
                 /\ m = Message(q, side, d, m.n)
           /\ \A n \in 1..NumOps : /\ Message(q, side, d, n) \in Messages
                                   /\ Message(q, side, d, n).n = n /\ Message(q, side, d, n).d = d
                                   /\ Message(q, side, d, n).data = Window(q, ops[n], side, d)
<1>1. \A n \in 1..NumOps : /\ Message(q, side, d, n) \in Messages
                           /\ Message(q, side, d, n).n = n /\ Message(q, side, d, n).d = d
                           /\ Message(q, side, d, n).data = Window(q, ops[n], side, d)
  BY WindowType DEF Message, Messages
<1>2. \A n \in 1..NumOps : Pending(q, side, d, n) => Message(q, side, d, n) \in Mail(q, side, d)
  BY DEF Mail
<1>3. ASSUME NEW m \in Mail(q, side, d)
      PROVE  /\ m \in Messages /\ m.n \in 1..NumOps /\ Pending(q, side, d, m.n)
             /\ m = Message(q, side, d, m.n)
  <2>1. PICK n \in 1..NumOps : Pending(q, side, d, n) /\ m = Message(q, side, d, n)
    BY DEF Mail
  <2> QED
    BY <1>1, <2>1
<1> QED
  BY <1>1, <1>2, <1>3

\* A step that is not about this direction of this channel.
Undisturbed(q, side, d) ==
    /\ ops' = ops
    /\ \A n \in 1..NumOps : Due(q, Send(side), n, d) =>
          /\ Done(q, Send(side), n, d)' <=> Done(q, Send(side), n, d)
          /\ Done(Partner(q, side, d), Recv(Other(side)), n, d)'
             <=> Done(Partner(q, side, d), Recv(Other(side)), n, d)

LEMMA UndisturbedKeeps ==
    ASSUME NEW q, NEW side, NEW d, Undisturbed(q, side, d)
    PROVE  /\ SentOK(q, side, d) => SentOK(q, side, d)'
           /\ Mail(q, side, d)' = Mail(q, side, d)
<1>0. \A n \in 1..NumOps : Due(q, Send(side), n, d)' <=> Due(q, Send(side), n, d)
  BY DEF Undisturbed, Due
<1>1. SentOK(q, side, d) => SentOK(q, side, d)'
  BY <1>0 DEF Undisturbed, SentOK
<1>2. \A n \in 1..NumOps : Pending(q, side, d, n)' <=> Pending(q, side, d, n)
  BY <1>0 DEF Undisturbed, Pending
<1>3. \A n \in 1..NumOps : Message(q, side, d, n)' = Message(q, side, d, n)
  BY DEF Undisturbed, Message
<1> QED
  BY <1>1, <1>2, <1>3 DEF Mail

ChannelsOK ==
    \A q \in Ranks, side \in Sides, d \in 0..Size :
        HasPartner(q, side, d) => ChanOK(q, side, d) /\ SentOK(q, side, d)

LEMMA RoundsAreSizes == \A d \in 0..Size : d \in Sizes
  BY SizeFacts DEF Sizes

LEMMA QuietChannels ==
    ASSUME ChannelsOK, SameDone, ops' = ops, chan' = chan
    PROVE  ChannelsOK'
<1> SUFFICES ASSUME NEW q \in Ranks, NEW side \in Sides, NEW d \in 0..Size, HasPartner(q, side, d)
             PROVE  ChanOK(q, side, d)' /\ SentOK(q, side, d)'
  BY DEF ChannelsOK
<1>1. d \in Sizes
  BY RoundsAreSizes
<1>2. PICK p \in Ranks : p = Partner(q, side, d)
  BY DEF HasPartner
<1>3. Send(side) \in Steps /\ Recv(Other(side)) \in Steps
  BY StepFacts
<1>4. \A n \in 1..NumOps : Due(q, Send(side), n, d) => Due(p, Recv(Other(side)), n, d)
  BY <1>1, <1>2, DueFacts
<1>5. Undisturbed(q, side, d)
  BY <1>1, <1>2, <1>3, <1>4 DEF Undisturbed, SameDone
<1> QED
  BY <1>5, UndisturbedKeeps DEF ChannelsOK, ChanOK

LEMMA OtherUndisturbed ==
    ASSUME NEW r, NEW did, NEW m, NEW e, OneMoreDone(r, did, m, e), ops' = ops,
           NEW q \in Ranks, NEW side \in Sides, NEW d \in 0..Size, HasPartner(q, side, d),
           ~(q = r /\ did = Send(side) /\ d = e),
           ~(Partner(q, side, d) = r /\ did = Recv(Other(side)) /\ d = e)
    PROVE  Undisturbed(q, side, d)
<1>1. d \in Sizes
  BY RoundsAreSizes
<1>2. PICK p \in Ranks : p = Partner(q, side, d)
  BY DEF HasPartner
<1>3. Send(side) \in Steps /\ Recv(Other(side)) \in Steps
  BY StepFacts
<1>4. \A n \in 1..NumOps : Due(q, Send(side), n, d) => Due(p, Recv(Other(side)), n, d)
  BY <1>1, <1>2, DueFacts
<1>5. \A n \in 1..NumOps : Due(q, Send(side), n, d) =>
          (Done(q, Send(side), n, d)' <=> Done(q, Send(side), n, d))
  BY <1>1, <1>3 DEF OneMoreDone
<1>6. \A n \in 1..NumOps : Due(q, Send(side), n, d) =>
          (Done(p, Recv(Other(side)), n, d)' <=> Done(p, Recv(Other(side)), n, d))
  BY <1>1, <1>2, <1>3, <1>4 DEF OneMoreDone
<1> QED
  BY <1>2, <1>5, <1>6 DEF Undisturbed

CanRead(r, s, m, e, p) ==
    /\ ShapeOK /\ ChannelsOK /\ r \in Ranks /\ s \in Sides /\ m = pc[r].n /\ e \in 0..Size
    /\ Due(r, Recv(s), m, e) /\ ~Done(r, Recv(s), m, e)
    /\ p = Partner(r, s, e) /\ chan[p][r] # << >>
ReadsOwn(r, s, m, e, p) ==
    /\ Pending(p, Other(s), e, m)
    /\ Head(chan[p][r]) = Message(p, Other(s), e, m)
    /\ Lists(Tail(chan[p][r]), Mail(p, Other(s), e) \ {Message(p, Other(s), e, m)})

\* The message a member is about to read is the one of its operation and round.
LEMMA HeadIs ==
    ASSUME NEW r, NEW s, NEW m, NEW e, NEW p, CanRead(r, s, m, e, p)
    PROVE  ReadsOwn(r, s, m, e, p)
<1>0. /\ ShapeOK /\ ChannelsOK /\ r \in Ranks /\ s \in Sides /\ m = pc[r].n /\ e \in 0..Size
      /\ Due(r, Recv(s), m, e) /\ ~Done(r, Recv(s), m, e)
      /\ p = Partner(r, s, e) /\ chan[p][r] # << >>
  BY DEF CanRead
<1> USE <1>0
<1>1. e \in Sizes /\ HasPartner(r, s, e) /\ m \in 1..NumOps /\ Other(s) \in Sides
      /\ Other(Other(s)) = s
  BY RoundsAreSizes, StepFacts DEF Due
<1>2. p \in Ranks /\ HasPartner(p, Other(s), e) /\ Partner(p, Other(s), e) = r
  BY <1>1, PartnerFacts
<1>3. PICK c \in Seq(Messages) : c = chan[p][r]
  BY <1>2 DEF ShapeOK
<1>4. PICK M : M = Mail(p, Other(s), e)
  OBVIOUS
<1>5. Lists(c, M)
  BY <1>1, <1>2, <1>3, <1>4 DEF ChannelsOK, ChanOK
<1>6. PICK h \in Messages : /\ h = Head(c) /\ h \in M /\ Lists(Tail(c), M \ {h})
                           /\ \A x \in M : x = h \/ h.n < x.n
  BY <1>3, <1>5, ListsHead
<1>7. h.n \in 1..NumOps /\ Pending(p, Other(s), e, h.n) /\ h = Message(p, Other(s), e, h.n)
  BY <1>4, <1>6, MailFacts
<1>8. PICK n1 \in 1..NumOps : n1 = h.n
  BY <1>7
<1>9. Done(p, Send(Other(s)), n1, e) /\ ~Done(r, Recv(s), n1, e)
  BY <1>1, <1>2, <1>7, <1>8 DEF Pending
<1>10. pc[r].n \in Int /\ pc[p].n \in Int
  BY <1>2, PositionFacts
<1>11. m <= n1 /\ pc[p].n >= n1
  BY <1>9, <1>10 DEF Done
<1>12. n1 = m
  <2>1. SUFFICES ASSUME n1 > m PROVE FALSE
    BY <1>1, <1>11
  <2>2. Done(p, Send(Other(s)), m, e)
    BY <1>1, <1>10, <1>11, <2>1 DEF Done
  <2>3. Due(p, Send(Other(s)), m, e)
    BY <1>1, <1>2, DueFacts
  <2>4. Pending(p, Other(s), e, m)
    BY <1>1, <1>2, <2>2, <2>3 DEF Pending
  <2>5. Message(p, Other(s), e, m) \in M /\ Message(p, Other(s), e, m).n = m
    BY <1>1, <1>4, <2>4, MailFacts
  <2>6. n1 < m \/ n1 = m
    BY <1>6, <1>8, <2>5
  <2> QED
    BY <1>1, <2>1, <2>6
<1> QED
  BY <1>1, <1>2, <1>3, <1>4, <1>6, <1>7, <1>8, <1>12 DEF ReadsOwn

Puts(r, p, x) == chan' = [chan EXCEPT ![r][p] = Append(@, x)]
Grows(r, p) ==
    /\ p \in Ranks /\ chan' \in [Ranks -> [Ranks -> Seq(Messages)]]
    /\ Len(chan'[r][p]) = Len(chan[r][p]) + 1
    /\ \A a, b \in Ranks : ~(a = r /\ b = p) => chan'[a][b] = chan[a][b]

\* A message is put behind those that are under way.
LEMMA WriteChannels ==
    ASSUME ShapeOK, ChannelsOK, NEW r \in Ranks, NEW s \in Sides, NEW m, m = pc[r].n, NEW e,
           OneMoreDone(r, Send(s), m, e), ops' = ops,
           NEW p, p = Partner(r, s, e), Puts(r, p, Message(r, s, e, m))
    PROVE  ChannelsOK' /\ Grows(r, p)
<1>1. /\ m \in 1..NumOps /\ HasPartner(r, s, e) /\ e \in 0..Size /\ e \in Sizes
      /\ Due(r, Send(s), m, e) /\ ~Done(r, Send(s), m, e) /\ Done(r, Send(s), m, e)'
  BY RoundFacts, StepFacts DEF OneMoreDone, Due
<1>2. p \in Ranks /\ p # r
  BY <1>1, PartnerFacts
<1>3. PICK c \in Seq(Messages) : c = chan[r][p]
  BY <1>2 DEF ShapeOK
<1>4. PICK x \in Messages : x = Message(r, s, e, m) /\ x.n = m
  <2>1. Message(r, s, e, m) \in Messages /\ Message(r, s, e, m).n = m
    BY ONLY <1>1, WindowType DEF Message, Messages
  <2> QED
    BY ONLY <2>1
<1>5. PICK t \in Seq(Messages) : t = Append(c, x) /\ Len(t) = Len(c) + 1
  BY ONLY c \in Seq(Messages), x \in Messages, AppendProperties
<1>6. chan \in [Ranks -> [Ranks -> Seq(Messages)]]
  BY DEF ShapeOK
<1>7. chan' = [chan EXCEPT ![r] = [chan[r] EXCEPT ![p] = t]]
  BY <1>3, <1>4, <1>5 DEF Puts
<1>8. /\ chan' \in [Ranks -> [Ranks -> Seq(Messages)]]
      /\ chan'[r][p] = t
      /\ \A a, b \in Ranks : ~(a = r /\ b = p) => chan'[a][b] = chan[a][b]
  BY <1>2, <1>6, <1>7
<1>9. ASSUME NEW q \in Ranks, NEW side \in Sides, NEW d \in 0..Size, HasPartner(q, side, d),
             ~(q = r /\ side = s /\ d = e)
      PROVE  ChanOK(q, side, d)' /\ SentOK(q, side, d)'
  <2>1. Send(s) # Recv(Other(side)) /\ (Send(s) = Send(side) => s = side)
    BY StepFacts
  <2>2. Undisturbed(q, side, d)
    BY <1>9, <2>1, OtherUndisturbed
  <2>3. d \in Sizes /\ Partner(q, side, d) \in Ranks
    BY <1>9, RoundsAreSizes DEF HasPartner
  <2>4. ~(q = r /\ Partner(q, side, d) = p)
    BY <1>1, <1>9, <2>3, PartnerFacts
  <2>5. chan'[q][Partner(q, side, d)] = chan[q][Partner(q, side, d)]
    BY <1>8, <2>3, <2>4
  <2>6. ChanOK(q, side, d) /\ SentOK(q, side, d)
    BY <1>9 DEF ChannelsOK
  <2> QED
    BY <2>2, <2>5, <2>6, UndisturbedKeeps DEF ChanOK
<1>10. ChanOK(r, s, e) /\ SentOK(r, s, e)
  BY <1>1 DEF ChannelsOK
<1>11. /\ Send(s) \in Steps /\ Recv(Other(s)) \in Steps /\ Send(s) # Recv(Other(s))
       /\ \A n \in 1..NumOps : Due(r, Send(s), n, e) => Due(p, Recv(Other(s)), n, e)
  BY <1>1, StepFacts, DueFacts
<1>12. ASSUME NEW n \in 1..NumOps, Due(r, Send(s), n, e)
       PROVE  /\ Done(r, Send(s), n, e)' <=> Done(r, Send(s), n, e) \/ n = m
              /\ Done(p, Recv(Other(s)), n, e)' <=> Done(p, Recv(Other(s)), n, e)
              /\ Due(r, Send(s), n, e)'
  <2>1. Due(p, Recv(Other(s)), n, e)
    BY <1>11, <1>12
  <2>2. Done(p, Recv(Other(s)), n, e)' <=> Done(p, Recv(Other(s)), n, e)
    BY <1>1, <1>2, <1>11, <2>1 DEF OneMoreDone
  <2>3. n # m => (Done(r, Send(s), n, e)' <=> Done(r, Send(s), n, e))
    BY <1>1, <1>11, <1>12 DEF OneMoreDone
  <2>4. Due(r, Send(s), n, e)'
    BY <1>12 DEF Due
  <2> QED
    BY <1>1, <2>2, <2>3, <2>4
<1>13. \A n \in 1..NumOps : Due(r, Send(s), n, e)' <=> Due(r, Send(s), n, e)
  BY DEF Due
<1>14. SentOK(r, s, e)'
  BY <1>1, <1>10, <1>12, <1>13 DEF SentOK
<1>15. ~Done(p, Recv(Other(s)), m, e)
  BY <1>1, <1>10 DEF SentOK
<1>16. \A n \in 1..NumOps : Pending(r, s, e, n)' <=> Pending(r, s, e, n) \/ n = m
  BY <1>1, <1>12, <1>13, <1>15 DEF Pending
<1>17. \A n \in 1..NumOps : Message(r, s, e, n)' = Message(r, s, e, n)
  BY DEF Message
<1>18. Mail(r, s, e)' = Mail(r, s, e) \cup {x}
  BY <1>1, <1>4, <1>16, <1>17 DEF Mail
<1>19. \A y \in Mail(r, s, e) : y.n < x.n
  <2> SUFFICES ASSUME NEW y \in Mail(r, s, e) PROVE y.n < m
    BY <1>4
  <2>1. y.n \in 1..NumOps /\ Pending(r, s, e, y.n)
    BY <1>1, MailFacts
  <2>2. PICK n \in 1..NumOps : n = y.n
    BY <2>1
  <2>3. Done(r, Send(s), n, e) /\ n # m
    BY <1>1, <2>1, <2>2 DEF Pending
  <2>4. pc[r].n \in Int /\ pc[r].n >= n
    BY <2>3, PositionFacts DEF Done
  <2> QED
    BY <2>2, <2>3, <2>4
<1>20. Lists(c, Mail(r, s, e))
  BY <1>3, <1>10 DEF ChanOK
<1>21. Lists(t, Mail(r, s, e) \cup {x})
  BY <1>5, <1>19, <1>20, ListsAppend
<1>22. ChanOK(r, s, e)'
  BY <1>8, <1>18, <1>21 DEF ChanOK
<1>23. ChannelsOK'
  BY <1>9, <1>14, <1>22 DEF ChannelsOK
<1> QED
  BY <1>2, <1>3, <1>5, <1>8, <1>23 DEF Grows

TakesHead(r, p) == chan' = [chan EXCEPT ![p][r] = Tail(@)]
Shrinks(r, p, x) ==
    /\ p \in Ranks /\ chan' \in [Ranks -> [Ranks -> Seq(Messages)]]
    /\ \A a, b \in Ranks : Len(chan'[a][b]) <= Len(chan[a][b])
    /\ Head(chan[p][r]) = x

\* The first message leaves.
LEMMA ReadChannels ==
    ASSUME ShapeOK, ChannelsOK, NEW r \in Ranks, NEW s \in Sides, NEW m, m = pc[r].n, NEW e,
           OneMoreDone(r, Recv(s), m, e), ops' = ops,
           NEW p, p = Partner(r, s, e), chan[p][r] # << >>, TakesHead(r, p)
    PROVE  ChannelsOK' /\ Shrinks(r, p, Message(p, Other(s), e, m))
<1>1. /\ m \in 1..NumOps /\ HasPartner(r, s, e) /\ e \in 0..Size /\ e \in Sizes
      /\ Due(r, Recv(s), m, e) /\ ~Done(r, Recv(s), m, e) /\ Done(r, Recv(s), m, e)'
  BY RoundFacts, StepFacts DEF OneMoreDone, Due
<1>2. PICK o \in Sides : o = Other(s) /\ Other(o) = s
  BY StepFacts
<1>3. /\ p \in Ranks /\ HasPartner(p, o, e) /\ Partner(p, o, e) = r
      /\ Pending(p, o, e, m) /\ Head(chan[p][r]) = Message(p, o, e, m)
      /\ Lists(Tail(chan[p][r]), Mail(p, o, e) \ {Message(p, o, e, m)})
  <2>1. p \in Ranks /\ HasPartner(p, o, e) /\ Partner(p, o, e) = r
    BY <1>1, <1>2, PartnerFacts
  <2>2. /\ Pending(p, Other(s), e, m) /\ Head(chan[p][r]) = Message(p, Other(s), e, m)
        /\ Lists(Tail(chan[p][r]), Mail(p, Other(s), e) \ {Message(p, Other(s), e, m)})
    <3>1. CanRead(r, s, m, e, p)
      BY ONLY ShapeOK, ChannelsOK, <1>1, r \in Ranks, s \in Sides, m = pc[r].n,
              p = Partner(r, s, e), chan[p][r] # << >> DEF CanRead
    <3>2. ReadsOwn(r, s, m, e, p)
      BY ONLY <3>1, HeadIs
    <3> QED
      BY ONLY <3>2 DEF ReadsOwn
  <2> QED
    BY ONLY <1>2, <2>1, <2>2, Zenon
<1>4. PICK c \in Seq(Messages) : c = chan[p][r] /\ c # << >>
  BY <1>3 DEF ShapeOK
<1>5. PICK t \in Seq(Messages) : t = Tail(c) /\ Len(t) <= Len(c)
  <2>1. Tail(c) \in Seq(Messages) /\ Len(Tail(c)) = Len(c) - 1 /\ Len(c) \in Nat
    <3>1. c \in Seq(Messages) /\ c # << >>
      BY ONLY c \in Seq(Messages), <1>4
    <3> HIDE DEF Messages
    <3> QED
      BY ONLY <3>1, HeadTailProperties, SMT
  <2>2. Len(Tail(c)) <= Len(c)
    <3>1. PICK k : k = Len(Tail(c))
      OBVIOUS
    <3> QED
      BY ONLY <2>1, <3>1
  <2> QED
    BY ONLY <2>1, <2>2, Zenon
<1>6. chan \in [Ranks -> [Ranks -> Seq(Messages)]]
  BY DEF ShapeOK
<1>7. chan' = [chan EXCEPT ![p] = [chan[p] EXCEPT ![r] = t]]
  BY <1>4, <1>5 DEF TakesHead
<1>8. /\ chan' \in [Ranks -> [Ranks -> Seq(Messages)]]
      /\ chan'[p][r] = t
      /\ \A a, b \in Ranks : ~(a = p /\ b = r) => chan'[a][b] = chan[a][b]
  BY <1>3, <1>6, <1>7
<1>9. ASSUME NEW q \in Ranks, NEW side \in Sides, NEW d \in 0..Size, HasPartner(q, side, d),
             ~(q = p /\ side = o /\ d = e)
      PROVE  ChanOK(q, side, d)' /\ SentOK(q, side, d)'
  <2>1. Send(side) # Recv(s) /\ (Recv(s) = Recv(Other(side)) => side = o)
    BY <1>2, StepFacts
  <2>2. d \in Sizes /\ Partner(q, side, d) \in Ranks /\ Partner(Partner(q, side, d), Other(side), d) = q
    BY <1>9, RoundsAreSizes, PartnerFacts DEF HasPartner
  <2>3. ~(Partner(q, side, d) = r /\ side = o /\ d = e)
    BY <1>2, <1>9, <2>2
  <2>4. Undisturbed(q, side, d)
    BY <1>9, <2>1, <2>3, OtherUndisturbed
  <2>5. ~(q = p /\ Partner(q, side, d) = r)
    BY <1>1, <1>3, <1>9, <2>2, PartnerFacts
  <2>6. chan'[q][Partner(q, side, d)] = chan[q][Partner(q, side, d)]
    BY <1>8, <2>2, <2>5
  <2>7. ChanOK(q, side, d) /\ SentOK(q, side, d)
    BY <1>9 DEF ChannelsOK
  <2> QED
    BY <2>4, <2>6, <2>7, UndisturbedKeeps DEF ChanOK
<1>10. ChanOK(p, o, e) /\ SentOK(p, o, e)
  BY <1>1, <1>3 DEF ChannelsOK
<1>11. /\ Send(o) \in Steps /\ Recv(s) \in Steps /\ Send(o) # Recv(s)
       /\ \A n \in 1..NumOps : Due(p, Send(o), n, e) => Due(r, Recv(s), n, e)
  BY <1>1, <1>2, <1>3, StepFacts, DueFacts
<1>12. ASSUME NEW n \in 1..NumOps, Due(p, Send(o), n, e)
       PROVE  /\ Done(p, Send(o), n, e)' <=> Done(p, Send(o), n, e)
              /\ Done(r, Recv(s), n, e)' <=> Done(r, Recv(s), n, e) \/ n = m
  <2>1. Due(r, Recv(s), n, e)
    BY <1>11, <1>12
  <2>2. Done(p, Send(o), n, e)' <=> Done(p, Send(o), n, e)
    BY <1>1, <1>3, <1>11, <1>12 DEF OneMoreDone
  <2>3. n # m => (Done(r, Recv(s), n, e)' <=> Done(r, Recv(s), n, e))
    BY <1>1, <1>11, <2>1 DEF OneMoreDone
  <2> QED
    BY <1>1, <2>2, <2>3
<1>13. \A n \in 1..NumOps : Due(p, Send(o), n, e)' <=> Due(p, Send(o), n, e)
  BY DEF Due
<1>14. SentOK(p, o, e)'
  <2>1. Done(p, Send(o), m, e)
    BY <1>3 DEF Pending
  <2> QED
    BY <1>2, <1>3, <1>10, <1>12, <1>13, <2>1 DEF SentOK
<1>15. \A n \in 1..NumOps : Pending(p, o, e, n)' <=> Pending(p, o, e, n) /\ n # m
  BY <1>2, <1>3, <1>12, <1>13 DEF Pending
<1>16. \A n \in 1..NumOps : Message(p, o, e, n)' = Message(p, o, e, n) /\ Message(p, o, e, n).n = n
  BY <1>1, MailFacts DEF Message
<1>17. Mail(p, o, e)' = Mail(p, o, e) \ {Message(p, o, e, m)}
  BY <1>1, <1>15, <1>16 DEF Mail
<1>18. ChanOK(p, o, e)'
  BY <1>3, <1>4, <1>5, <1>8, <1>17 DEF ChanOK
<1>19. ChannelsOK'
  BY <1>9, <1>14, <1>18 DEF ChannelsOK
<1>20. \A x, y \in Ranks : Len(chan'[x][y]) <= Len(chan[x][y])
  <2> SUFFICES ASSUME NEW x \in Ranks, NEW y \in Ranks PROVE Len(chan'[x][y]) <= Len(chan[x][y])
    OBVIOUS
  <2>1. CASE x = p /\ y = r
    BY <1>4, <1>5, <1>8, <2>1
  <2>2. CASE ~(x = p /\ y = r)
    <3>1. chan[x][y] \in Seq(Messages)
      BY <1>6
    <3> QED
      BY <1>8, <2>2, <3>1
  <2> QED
    BY <2>1, <2>2
<1> QED
  BY <1>1, <1>2, <1>3, <1>8, <1>19, <1>20 DEF Shrinks

-----------------------------------------------------------------------------
(* Values.                                                                 *)

LEMMA WindowStart ==
    ASSUME NEW r \in Ranks, NEW kind, NEW side
    PROVE  Window(r, kind, side, 0) = Only(r)
<1>1. \A q \in Ranks : Covers(r, kind, side, 0, q) <=> q = r
  BY DistAssumption DEF Covers, Ranks
<1> QED
  BY <1>1 DEF Window, Only

\* What r gets from a side in round d.
From(r, kind, side, d) ==
    IF HasPartner(r, side, d) THEN Window(Partner(r, side, d), kind, Other(side), d) ELSE Nothing

LEMMA FromIs ==
    ASSUME NEW r \in Ranks, NEW kind, NEW side \in Sides, NEW d \in Sizes, NEW q \in Ranks
    PROVE  /\ From(r, kind, side, d)[q] \in {0, 1}
           /\ From(r, kind, side, d)[q] = 1 <=>
                 /\ HasPartner(r, side, d)
                 /\ Covers(Partner(r, side, d), kind, Other(side), d, q)
  BY DEF From, Window, Nothing

LEMMA WindowIs ==
    ASSUME NEW r, NEW kind, NEW side, NEW d, NEW q \in Ranks
    PROVE  /\ Window(r, kind, side, d)[q] \in {0, 1}
           /\ Window(r, kind, side, d)[q] = 1 <=> Covers(r, kind, side, d, q)
  BY DEF Window

\* The distances in a round, as numbers.
LEMMA NearIs ==
    ASSUME NEW r \in Ranks, NEW d \in Sizes, Dist(d + 1) = 2 * Dist(d), NEW q \in Ranks
    PROVE  \E P \in Nat :
              /\ P > 0 /\ Dist(d) = P /\ Dist(d + 1) = 2 * P /\ r \in Int /\ q \in Int
              /\ Size \in Nat /\ 0 <= q /\ q < Size /\ 0 <= r /\ r < Size
              /\ Partner(r, "left", d) = r - P /\ Partner(r, "right", d) = r + P
              /\ HasPartner(r, "left", d) <=> r - P >= 0
              /\ HasPartner(r, "right", d) <=> r + P < Size
              /\ Other("left") = "right" /\ Other("right") = "left"
<1>1. Dist(d) \in Nat /\ Dist(d) > 0
  BY Distances DEF Sizes
<1>2. PICK P \in Nat : P = Dist(d) /\ P > 0
  BY <1>1
<1>3. r \in Int /\ q \in Int /\ Size \in Nat /\ 0 <= q /\ q < Size /\ 0 <= r /\ r < Size
  BY SizeFacts DEF Ranks
<1>4. Partner(r, "left", d) = r - P /\ Partner(r, "right", d) = r + P
  BY <1>2 DEF Partner
<1>5. /\ HasPartner(r, "left", d) <=> r - P >= 0
      /\ HasPartner(r, "right", d) <=> r + P < Size
  BY <1>2, <1>3, <1>4 DEF HasPartner, Ranks
<1> QED
  BY <1>2, <1>3, <1>4, <1>5 DEF Other

\* Prefix sums: what comes from the left adjoins what r has, and overlaps nothing.
LEMMA LeftJoins ==
    ASSUME NEW r \in Ranks, NEW kind, kind \in {"sum", "scan"}, NEW d \in Sizes,
           Dist(d + 1) = 2 * Dist(d)
    PROVE  Add(Window(r, kind, "right", d), From(r, kind, "left", d))
           = Window(r, kind, "right", d + 1)
<1>1. ASSUME NEW q \in Ranks
      PROVE  Window(r, kind, "right", d)[q] + From(r, kind, "left", d)[q]
             = IF Covers(r, kind, "right", d + 1, q) THEN 1 ELSE 0
  <2>1. PICK P \in Nat :
              /\ P > 0 /\ Dist(d) = P /\ Dist(d + 1) = 2 * P /\ r \in Int /\ q \in Int
              /\ Size \in Nat /\ 0 <= q /\ q < Size /\ 0 <= r /\ r < Size
              /\ Partner(r, "left", d) = r - P /\ Partner(r, "right", d) = r + P
              /\ HasPartner(r, "left", d) <=> r - P >= 0
              /\ HasPartner(r, "right", d) <=> r + P < Size
              /\ Other("left") = "right" /\ Other("right") = "left"
    BY NearIs
  <2>2. FromLeft(kind, "right") /\ ~FromRight(kind, "right")
    BY DEF FromLeft, FromRight, OverAll
  <2>3. /\ Covers(r, kind, "right", d, q) <=> r - P < q /\ q <= r
        /\ Covers(r, kind, "right", d + 1, q) <=> r - 2 * P < q /\ q <= r
        /\ Covers(r - P, kind, "right", d, q) <=> r - 2 * P < q /\ q <= r - P
    BY <2>1, <2>2 DEF Covers
  <2>4. /\ Window(r, kind, "right", d)[q] \in {0, 1}
        /\ Window(r, kind, "right", d)[q] = 1 <=> Covers(r, kind, "right", d, q)
    BY WindowIs
  <2>5. /\ From(r, kind, "left", d)[q] \in {0, 1}
        /\ From(r, kind, "left", d)[q] = 1 <=>
              r - P >= 0 /\ Covers(r - P, kind, "right", d, q)
    BY <2>1, FromIs DEF Sides
  <2> QED
    BY <2>1, <2>3, <2>4, <2>5
<1> QED
  BY <1>1 DEF Add, Window

LEMMA RightJoins ==
    ASSUME NEW r \in Ranks, NEW d \in Sizes, Dist(d + 1) = 2 * Dist(d)
    PROVE  Add(Window(r, "sum", "left", d), From(r, "sum", "right", d))
           = Window(r, "sum", "left", d + 1)
<1>1. ASSUME NEW q \in Ranks
      PROVE  Window(r, "sum", "left", d)[q] + From(r, "sum", "right", d)[q]
             = IF Covers(r, "sum", "left", d + 1, q) THEN 1 ELSE 0
  <2>1. PICK P \in Nat :
              /\ P > 0 /\ Dist(d) = P /\ Dist(d + 1) = 2 * P /\ r \in Int /\ q \in Int
              /\ Size \in Nat /\ 0 <= q /\ q < Size /\ 0 <= r /\ r < Size
              /\ Partner(r, "left", d) = r - P /\ Partner(r, "right", d) = r + P
              /\ HasPartner(r, "left", d) <=> r - P >= 0
              /\ HasPartner(r, "right", d) <=> r + P < Size
              /\ Other("left") = "right" /\ Other("right") = "left"
    BY NearIs
  <2>2. ~FromLeft("sum", "left") /\ FromRight("sum", "left")
    BY DEF FromLeft, FromRight, OverAll
  <2>3. /\ Covers(r, "sum", "left", d, q) <=> r <= q /\ q < r + P
        /\ Covers(r, "sum", "left", d + 1, q) <=> r <= q /\ q < r + 2 * P
        /\ Covers(r + P, "sum", "left", d, q) <=> r + P <= q /\ q < r + 2 * P
    BY <2>1, <2>2 DEF Covers
  <2>4. /\ Window(r, "sum", "left", d)[q] \in {0, 1}
        /\ Window(r, "sum", "left", d)[q] = 1 <=> Covers(r, "sum", "left", d, q)
    BY WindowIs
  <2>5. /\ From(r, "sum", "right", d)[q] \in {0, 1}
        /\ From(r, "sum", "right", d)[q] = 1 <=>
              r + P < Size /\ Covers(r + P, "sum", "left", d, q)
    BY <2>1, FromIs DEF Sides
  <2> QED
    BY <2>1, <2>3, <2>4, <2>5
<1> QED
  BY <1>1 DEF Add, Window

\* A maximum, a map or a barrier takes in both sides.
LEMMA BothJoin ==
    ASSUME NEW r \in Ranks, NEW kind \in {"max", "gather", "barrier"}, NEW side \in Sides,
           NEW other \in Sides, NEW d \in Sizes, Dist(d + 1) = 2 * Dist(d)
    PROVE  Union(Window(r, kind, other, d),
                 Union(From(r, kind, "left", d), From(r, kind, "right", d)))
           = Window(r, kind, side, d + 1)
<1>1. ASSUME NEW q \in Ranks
      PROVE  Union(Window(r, kind, other, d),
                   Union(From(r, kind, "left", d), From(r, kind, "right", d)))[q]
             = IF Covers(r, kind, side, d + 1, q) THEN 1 ELSE 0
  <2>1. PICK P \in Nat :
              /\ P > 0 /\ Dist(d) = P /\ Dist(d + 1) = 2 * P /\ r \in Int /\ q \in Int
              /\ Size \in Nat /\ 0 <= q /\ q < Size /\ 0 <= r /\ r < Size
              /\ Partner(r, "left", d) = r - P /\ Partner(r, "right", d) = r + P
              /\ HasPartner(r, "left", d) <=> r - P >= 0
              /\ HasPartner(r, "right", d) <=> r + P < Size
              /\ Other("left") = "right" /\ Other("right") = "left"
    BY NearIs
  <2>2. \A s \in Sides : FromLeft(kind, s) /\ FromRight(kind, s)
    BY DEF FromLeft, FromRight, OverAll
  <2>3. /\ Covers(r, kind, other, d, q) <=> r - P < q /\ q < r + P
        /\ Covers(r, kind, side, d + 1, q) <=> r - 2 * P < q /\ q < r + 2 * P
        /\ Covers(r - P, kind, "right", d, q) <=> r - 2 * P < q /\ q < r
        /\ Covers(r + P, kind, "left", d, q) <=> r < q /\ q < r + 2 * P
    BY <2>1, <2>2 DEF Covers, Sides
  <2>4. /\ Window(r, kind, other, d)[q] \in {0, 1}
        /\ Window(r, kind, other, d)[q] = 1 <=> Covers(r, kind, other, d, q)
    BY WindowIs
  <2>5. /\ From(r, kind, "left", d)[q] \in {0, 1}
        /\ From(r, kind, "left", d)[q] = 1 <=>
              r - P >= 0 /\ Covers(r - P, kind, "right", d, q)
    BY <2>1, FromIs DEF Sides
  <2>6. /\ From(r, kind, "right", d)[q] \in {0, 1}
        /\ From(r, kind, "right", d)[q] = 1 <=>
              r + P < Size /\ Covers(r + P, kind, "left", d, q)
    BY <2>1, FromIs DEF Sides
  <2>7. PICK a, b, c : a = Window(r, kind, other, d)[q] /\ b = From(r, kind, "left", d)[q]
                       /\ c = From(r, kind, "right", d)[q]
    OBVIOUS
  <2>8. Union(Window(r, kind, other, d),
              Union(From(r, kind, "left", d), From(r, kind, "right", d)))[q]
        = IF a > (IF b > c THEN b ELSE c) THEN a ELSE (IF b > c THEN b ELSE c)
    BY ONLY q \in Ranks, <2>7 DEF Union
  <2>9. (IF a > (IF b > c THEN b ELSE c) THEN a ELSE (IF b > c THEN b ELSE c))
        = (IF a = 1 \/ b = 1 \/ c = 1 THEN 1 ELSE 0)
    <3>1. a \in {0, 1} /\ b \in {0, 1} /\ c \in {0, 1}
      BY <2>4, <2>5, <2>6, <2>7
    <3> QED
      BY ONLY <3>1
  <2>10. (a = 1 \/ b = 1 \/ c = 1) <=> Covers(r, kind, side, d + 1, q)
    BY <2>1, <2>3, <2>4, <2>5, <2>6, <2>7
  <2> QED
    BY ONLY <2>8, <2>9, <2>10
<1> QED
  BY <1>1 DEF Union, Window

\* What a member has at the end of an operation.
LEMMA WindowEnds ==
    ASSUME NEW r \in Ranks, NEW kind \in {"max", "gather", "barrier", "scan"}, NEW d \in Sizes,
           Dist(d) >= Size
    PROVE  Window(r, kind, "right", d) = Expected(r, kind)
<1>1. PICK P \in Nat : P = Dist(d) /\ P >= Size
  BY Distances
<1>2. Size \in Nat /\ r \in Int /\ 0 <= r /\ r < Size
  BY SizeFacts DEF Ranks
<1>3. ASSUME NEW q \in Ranks
      PROVE  Covers(r, kind, "right", d, q) <=> (kind = "scan" => q <= r)
  <2>1. q \in Int /\ 0 <= q /\ q < Size
    BY SizeFacts DEF Ranks
  <2>2. FromLeft(kind, "right") /\ (FromRight(kind, "right") <=> kind # "scan")
    BY DEF FromLeft, FromRight, OverAll
  <2> QED
    BY <1>1, <1>2, <2>1, <2>2 DEF Covers
<1>4. \A q \in Ranks : Expected(r, kind)[q] = IF kind = "scan" => q <= r THEN 1 ELSE 0
  BY DEF Expected
<1> QED
  BY <1>3, <1>4 DEF Window, Expected

\* Our own input is in both scans.
LEMMA SumEnds ==
    ASSUME NEW r \in Ranks, NEW d \in Sizes, Dist(d) >= Size
    PROVE  Subtract(Add(Window(r, "sum", "left", d), Window(r, "sum", "right", d)), Only(r))
           = Expected(r, "sum")
<1>1. PICK P \in Nat : P = Dist(d) /\ P >= Size
  BY Distances
<1>2. Size \in Nat /\ r \in Int /\ 0 <= r /\ r < Size
  BY SizeFacts DEF Ranks
<1>3. ASSUME NEW q \in Ranks
      PROVE  (Window(r, "sum", "left", d)[q] + Window(r, "sum", "right", d)[q]) - Only(r)[q] = 1
  <2>1. q \in Int /\ 0 <= q /\ q < Size
    BY SizeFacts DEF Ranks
  <2>2. /\ ~FromLeft("sum", "left") /\ FromRight("sum", "left")
        /\ FromLeft("sum", "right") /\ ~FromRight("sum", "right")
    BY DEF FromLeft, FromRight, OverAll
  <2>3. /\ Covers(r, "sum", "left", d, q) <=> q >= r
        /\ Covers(r, "sum", "right", d, q) <=> q <= r
    BY <1>1, <1>2, <2>1, <2>2 DEF Covers
  <2>4. /\ Window(r, "sum", "left", d)[q] = IF q >= r THEN 1 ELSE 0
        /\ Window(r, "sum", "right", d)[q] = IF q <= r THEN 1 ELSE 0
        /\ Only(r)[q] = IF q = r THEN 1 ELSE 0
    BY <2>3 DEF Window, Only
  <2> QED
    BY <1>2, <2>1, <2>4
<1>4. \A q \in Ranks : Expected(r, "sum")[q] = 1
  BY DEF Expected
<1> QED
  BY <1>3, <1>4 DEF Subtract, Add, Expected

\* The two neighbours' inputs.
LEMMA ShiftEnds ==
    ASSUME NEW r \in Ranks,
           NEW g, \A side \in Sides :
               g[side] = IF HasPartner(r, side, 0)
                         THEN Window(Partner(r, side, 0), "shift", Other(side), 0) ELSE Nothing
    PROVE  Add(g.left, g.right) = Expected(r, "shift")
<1>1. Size \in Nat /\ r \in Int /\ 0 <= r /\ r < Size
  BY SizeFacts DEF Ranks
<1>2. /\ Partner(r, "left", 0) = r - 1 /\ Partner(r, "right", 0) = r + 1
      /\ HasPartner(r, "left", 0) <=> r - 1 >= 0
      /\ HasPartner(r, "right", 0) <=> r + 1 < Size
  BY <1>1, DistAssumption DEF Partner, HasPartner, Ranks
<1>3. /\ r - 1 >= 0 => g["left"] = Only(r - 1)
      /\ ~(r - 1 >= 0) => g["left"] = Nothing
  <2>1. "left" \in Sides
    BY DEF Sides
  <2>2. CASE r - 1 >= 0
    <3>1. r - 1 \in Ranks
      BY <1>1, <2>2 DEF Ranks
    <3> QED
      BY <1>2, <2>1, <2>2, <3>1, WindowStart
  <2> QED
    BY <1>2, <2>1, <2>2
<1>4. /\ r + 1 < Size => g["right"] = Only(r + 1)
      /\ ~(r + 1 < Size) => g["right"] = Nothing
  <2>1. "right" \in Sides
    BY DEF Sides
  <2>2. CASE r + 1 < Size
    <3>1. r + 1 \in Ranks
      BY <1>1, <2>2 DEF Ranks
    <3> QED
      BY <1>2, <2>1, <2>2, <3>1, WindowStart
  <2> QED
    BY <1>2, <2>1, <2>2
<1>5. ASSUME NEW q \in Ranks
      PROVE  g["left"][q] + g["right"][q] = IF q \in {r - 1, r + 1} THEN 1 ELSE 0
  <2>1. q \in Int /\ 0 <= q /\ q < Size
    BY SizeFacts DEF Ranks
  <2>2. g["left"][q] = IF q = r - 1 THEN 1 ELSE 0
    BY <1>1, <1>3, <2>1 DEF Only, Nothing
  <2>3. g["right"][q] = IF q = r + 1 THEN 1 ELSE 0
    BY <1>1, <1>4, <2>1 DEF Only, Nothing
  <2> QED
    BY <1>1, <2>1, <2>2, <2>3
<1>6. \A q \in Ranks : Expected(r, "shift")[q] = IF q \in {r - 1, r + 1} THEN 1 ELSE 0
  BY DEF Expected
<1> QED
  BY <1>5, <1>6 DEF Add, Expected

KindNames == {"barrier", "shift", "sum", "max", "scan", "gather"}

LEMMA OutcomeIs ==
    ASSUME ShapeOK, NEW r \in Ranks, PlaceOK(r), BufOK(r), GotOK(r),
           ~Finished(r), pc[r].d \notin Rounds(Kind(r))
    PROVE  Outcome(r) = Expected(r, Kind(r)) /\ Outcome(r) \in Counts
<1>1. PICK kind \in KindNames : kind = Kind(r)
  BY PositionFacts, CollectAssumption DEF KindNames
<1>2. PICK n0 \in 1..NumOps : n0 = pc[r].n
  BY PositionFacts
<1>3. PICK d0 \in Sizes : d0 = pc[r].d
  BY PositionFacts
<1>4. d0 \notin Rounds(kind) /\ (d0 # 0 => d0 - 1 \in Rounds(kind))
  BY <1>1, <1>3 DEF PlaceOK
<1>5. /\ kind # "shift" => Dist(d0) >= Size
      /\ kind = "shift" => d0 = IF Size > 1 THEN 1 ELSE 0
  BY <1>4, LastRound
<1>6. /\ buf[r].left = Window(r, kind, "left", d0)
      /\ buf[r].right = Window(r, kind, "right", d0)
  BY <1>1, <1>3 DEF BufOK, Sides
<1>7. Expected(r, kind) \in Counts
  <2>1. \A q \in Ranks : Expected(r, kind)[q] \in Nat
    BY DEF Expected
  <2> QED
    BY <2>1 DEF Counts, Expected
<1>8. CASE kind \in {"max", "gather", "barrier", "scan"}
  <2>1. Outcome(r) = buf[r].right
    BY <1>1, <1>8 DEF Outcome
  <2> QED
    BY <1>1, <1>5, <1>6, <1>7, <1>8, <2>1, WindowEnds
<1>9. CASE kind = "sum"
  <2>1. Outcome(r) = Subtract(Add(buf[r].left, buf[r].right), Only(r))
    BY <1>1, <1>9 DEF Outcome, AllreduceSum
  <2> QED
    BY <1>1, <1>5, <1>6, <1>7, <1>9, <2>1, SumEnds
<1>10. CASE kind = "shift"
  <2>1. Outcome(r) = Add(got[r].left, got[r].right)
    BY <1>1, <1>10 DEF Outcome
  <2> DEFINE got_it(side) == Due(r, Recv(side), n0, 0) /\ Done(r, Recv(side), n0, 0)
  <2>2. ASSUME NEW side \in Sides
        PROVE  got_it(side) <=> HasPartner(r, side, 0)
    <3>1. HasPartner(r, side, 0) => Size > 1
      <4>1. Partner(r, side, 0) \in Int /\ Partner(r, side, 0) # r /\ 0 \in Sizes
        BY PartnerFacts, SizeFacts DEF Sizes
      <4> QED
        BY <4>1, SizeFacts DEF HasPartner, Ranks
    <3>2. HasPartner(r, side, 0) => 0 \in Rounds(kind) /\ d0 > 0
      BY <1>5, <1>10, <3>1 DEF Rounds
    <3>3. Recv(side).side = side /\ ops[n0] = kind /\ Moves(kind, Recv(side))
      BY <1>1, <1>2, <1>10, StepFacts DEF Kind, Moves
    <3>4. Due(r, Recv(side), n0, 0) <=> HasPartner(r, side, 0)
      BY <3>2, <3>3 DEF Due
    <3>5. HasPartner(r, side, 0) => Done(r, Recv(side), n0, 0)
      BY <1>2, <1>3, <3>2 DEF Done
    <3> QED
      BY <3>4, <3>5
  <2>3. ASSUME NEW side \in Sides
        PROVE  got[r][side] = IF got_it(side) THEN Window(Partner(r, side, 0), "shift", Other(side), 0)
                              ELSE Nothing
    BY <1>1, <1>2, <1>10 DEF GotOK
  <2> HIDE DEF got_it
  <2>4. PICK g : g = got[r]
    OBVIOUS
  <2>5. \A side \in Sides : g[side] = IF HasPartner(r, side, 0)
                            THEN Window(Partner(r, side, 0), "shift", Other(side), 0) ELSE Nothing
    BY <2>2, <2>3, <2>4
  <2>6. Add(g.left, g.right) = Expected(r, "shift")
    BY <2>5, ShiftEnds
  <2> QED
    BY <1>1, <1>7, <1>10, <2>1, <2>4, <2>6
<1> QED
  BY <1>8, <1>9, <1>10 DEF KindNames

LEMMA MergedIs ==
    ASSUME ShapeOK, NEW r \in Ranks, InRound(r), BufOK(r), GotOK(r),
           \A step \in Steps : Due(r, step, pc[r].n, pc[r].d) => Done(r, step, pc[r].n, pc[r].d)
    PROVE  /\ Merged(r) \in [Sides -> Counts]
           /\ \A side \in Sides : Merged(r)[side] = Window(r, Kind(r), side, pc[r].d + 1)
<1>1. PICK kind \in KindNames : kind = Kind(r)
  BY PositionFacts, CollectAssumption DEF KindNames, InRound
<1>2. PICK n0 \in 1..NumOps : n0 = pc[r].n
  BY PositionFacts DEF InRound
<1>3. PICK d0 \in Sizes : d0 = pc[r].d /\ d0 \in Rounds(kind)
  BY <1>1, PositionFacts DEF InRound
<1>4. Dist(d0 + 1) = 2 * Dist(d0) /\ (kind = "shift" => d0 = 0) /\ d0 + 1 \in Sizes
  BY <1>3, RoundFacts
<1>5. PICK b : b = buf[r] /\ b \in [Sides -> Counts]
  BY DEF ShapeOK
<1>6. \A side \in Sides : b[side] = Window(r, kind, side, d0)
  BY <1>1, <1>3, <1>5 DEF BufOK, InRound
<1>7. ASSUME NEW side \in Sides, Moves(kind, Recv(side))
      PROVE  Received(r, side) = From(r, kind, side, d0)
  <2>1. CASE HasPartner(r, side, d0)
    <3>1. Recv(side).side = side /\ ops[n0] = kind /\ Recv(side) \in Steps
      BY <1>1, <1>2, StepFacts DEF Kind
    <3>2. Due(r, Recv(side), n0, d0)
      BY <1>3, <1>7, <2>1, <3>1 DEF Due
    <3>3. Done(r, Recv(side), n0, d0)
      BY <1>2, <1>3, <3>1, <3>2
    <3>4. got[r][side] = Window(Partner(r, side, d0), kind, Other(side), d0)
      BY <1>1, <1>2, <1>3, <3>2, <3>3 DEF GotOK
    <3> QED
      BY <1>3, <2>1, <3>4 DEF Received, From
  <2>2. CASE ~HasPartner(r, side, d0)
    BY <1>3, <2>2 DEF Received, From
  <2> QED
    BY <2>1, <2>2
<1>8. "left" \in Sides /\ "right" \in Sides /\ (\A s \in Sides : s = "left" \/ s = "right")
  BY DEF Sides
<1>9. /\ Moves(kind, Recv("left")) /\ (kind # "scan" => Moves(kind, Recv("right")))
  BY DEF Moves
<1>10. SUFFICES ASSUME TRUE
                PROVE  /\ DOMAIN Merged(r) = Sides /\ Merged(r) = [s \in Sides |-> Merged(r)[s]]
                       /\ Merged(r)["left"] = Window(r, kind, "left", d0 + 1)
                       /\ Merged(r)["right"] = Window(r, kind, "right", d0 + 1)
  <2>1. \A side \in Sides : Merged(r)[side] = Window(r, kind, side, d0 + 1)
    BY <1>8, <1>10
  <2>2. \A side \in Sides : Merged(r)[side] \in Counts
    BY <2>1, WindowType
  <2> QED
    BY <1>1, <1>3, <1>10, <2>1, <2>2
<1>11. CASE kind = "shift"
  <2>1. Merged(r) = b
    BY <1>1, <1>5, <1>11 DEF Merged
  <2>2. \A s \in Sides : Window(r, kind, s, d0 + 1) = Window(r, kind, s, d0)
    <3>1. \A s \in Sides, e \in Sizes, q \in Ranks : Covers(r, kind, s, e, q) <=> q = r
      BY <1>11 DEF Covers, FromLeft, FromRight, OverAll
    <3> QED
      BY <1>4, <3>1 DEF Window
  <2> QED
    BY <1>5, <1>6, <1>8, <2>1, <2>2
<1>12. CASE kind = "sum"
  <2>1. Merged(r) = [left |-> Add(b.left, Received(r, "right")),
                     right |-> Add(b.right, Received(r, "left"))]
    BY <1>1, <1>5, <1>12 DEF Merged, DoubleScanMerged
  <2>2. Received(r, "left") = From(r, kind, "left", d0) /\ Received(r, "right") = From(r, kind, "right", d0)
    BY <1>7, <1>8, <1>9, <1>12
  <2>3. /\ Add(b.left, Received(r, "right")) = Window(r, kind, "left", d0 + 1)
        /\ Add(b.right, Received(r, "left")) = Window(r, kind, "right", d0 + 1)
    BY <1>4, <1>6, <1>8, <1>12, <2>2, LeftJoins, RightJoins
  <2> QED
    BY <2>1, <2>3 DEF Sides
<1>13. CASE kind = "scan"
  <2>1. Merged(r) = [b EXCEPT !.right = Add(@, Received(r, "left"))]
    BY <1>1, <1>5, <1>13 DEF Merged, ScanMerged
  <2>2. Received(r, "left") = From(r, kind, "left", d0)
    BY <1>7, <1>8, <1>9, <1>13
  <2>3. Add(b.right, Received(r, "left")) = Window(r, kind, "right", d0 + 1)
    BY <1>4, <1>6, <1>8, <1>13, <2>2, LeftJoins
  <2>4. Window(r, kind, "left", d0 + 1) = Window(r, kind, "left", d0)
    <3>1. \A e \in Sizes, q \in Ranks : Covers(r, kind, "left", e, q) <=> q = r
      BY <1>13 DEF Covers, FromLeft, FromRight, OverAll
    <3> QED
      BY <1>4, <3>1 DEF Window
  <2>5. Merged(r) = [s \in Sides |-> IF s = "right" THEN Add(b["right"], Received(r, "left")) ELSE b[s]]
    BY <1>5, <2>1
  <2> QED
    BY <1>6, <1>8, <2>3, <2>4, <2>5
<1>14. CASE kind \in {"max", "gather", "barrier"}
  <2>1. PICK all : all = Union(b.left, Union(Received(r, "left"), Received(r, "right")))
    OBVIOUS
  <2>2. Merged(r) = [left |-> all, right |-> all]
    BY <1>1, <1>5, <1>14, <2>1 DEF Merged, MaxMerged, MapMerged, BarrierMerged, Everything
  <2>3. Received(r, "left") = From(r, kind, "left", d0) /\ Received(r, "right") = From(r, kind, "right", d0)
    BY <1>7, <1>8, <1>9, <1>14
  <2>4. b.left = Window(r, kind, "left", d0)
    BY <1>6, <1>8
  <2>5. \A s \in Sides : all = Window(r, kind, s, d0 + 1)
    BY <1>4, <1>8, <1>14, <2>1, <2>3, <2>4, BothJoin
  <2> QED
    BY <1>8, <2>2, <2>5 DEF Sides
<1> QED
  BY <1>11, <1>12, <1>13, <1>14 DEF KindNames

-----------------------------------------------------------------------------
(* What a step leaves alone.                                               *)

LEMMA NowIs ==
    ASSUME ShapeOK, NEW r \in Ranks, NEW i \in 1..4, NEW do, Now(r, i, do)
    PROVE  /\ Step(r, i) \in Steps /\ Step(r, i).do = do
           /\ pc[r].n \in 1..NumOps /\ pc[r].d \in 0..Size /\ pc[r].d \in Sizes
           /\ pc[r].d \in Rounds(Kind(r)) /\ pc[r].call = "none" /\ ~Finished(r)
           /\ Due(r, Step(r, i), pc[r].n, pc[r].d)
           /\ ~Done(r, Step(r, i), pc[r].n, pc[r].d)
<1>1. PICK e : e = Exchange(form, r, pc[r].d)
  OBVIOUS
<1>2. PICK n0 \in 1..NumOps : n0 = pc[r].n
  BY PositionFacts DEF Now, InRound
<1>3. PICK d0 \in Sizes : d0 = pc[r].d
  BY PositionFacts
<1>4. PICK k \in 1..5 : k = pc[r].at
  BY PositionFacts
<1>5. /\ \A j \in 1..4 : e[j] \in Steps
      /\ \A j, l \in 1..4 : e[j] = e[l] => j = l
  BY <1>1, ExchangeFacts
<1>6. PICK did \in Steps : did = Step(r, i) /\ did = e[i]
  BY <1>1, <1>5 DEF Step
<1>7. /\ d0 \in Rounds(ops[n0]) /\ i \in k..4 /\ did.do = do /\ Takes(r, i)
      /\ pc[r].call = "none" /\ ~Finished(r)
  BY <1>2, <1>3, <1>4, <1>6 DEF Now, InRound, Kind
<1>8. Due(r, did, n0, d0)
  BY <1>2, <1>3, <1>6, <1>7 DEF Takes, Due, Kind
<1>9. ~Done(r, did, n0, d0)
  <2>1. Done(r, did, n0, d0) <=> \E j \in 1..(k - 1) : e[j] = did
    BY <1>1, <1>2, <1>3, <1>4 DEF Done, Sizes
  <2>2. \A j \in 1..(k - 1) : j \in 1..4 /\ j # i
    BY <1>7
  <2> QED
    BY <1>5, <1>6, <2>1, <2>2
<1>10. d0 \in 0..Size
  BY <1>7, RoundFacts
<1> QED
  BY <1>2, <1>3, <1>6, <1>7, <1>8, <1>9, <1>10 DEF Kind

LEMMA OthersKeep ==
    ASSUME NEW q \in Ranks, form' = form, ops' = ops, pc'[q] = pc[q], buf'[q] = buf[q],
           got'[q] = got[q]
    PROVE  /\ PlaceOK(q) => PlaceOK(q)'
           /\ BufOK(q) => BufOK(q)'
           /\ GotOK(q) => GotOK(q)'
<1>1. PlaceOK(q) => PlaceOK(q)'
  BY DEF PlaceOK, InRound, Finished, Kind, Takes, Step
<1>2. BufOK(q) => BufOK(q)'
  BY DEF BufOK, Finished, Kind
<1>3. GotOK(q) => GotOK(q)'
  BY DEF GotOK, Finished, Kind, Due, Done
<1> QED
  BY <1>1, <1>2, <1>3

LEMMA EnteredKeeps ==
    ASSUME ShapeOK, NEW q \in Ranks, EnteredOK(q), ops' = ops,
           pc'[q].n = pc[q].n, pc'[q].d = pc[q].d,
           \A x \in Ranks : pc'[x].n \in Int /\ pc'[x].n >= pc[x].n
    PROVE  EnteredOK(q)'
<1>1. \A x \in Ranks : pc[x].n \in Int
  BY PositionFacts
<1>2. PICK n0, d0 : n0 = pc[q].n /\ d0 = pc[q].d
  OBVIOUS
<1>3. n0 \in Int
  BY <1>1, <1>2
<1>4. EnteredOK(q) <=> (~(n0 > NumOps) /\ OverAll(ops[n0]) =>
          \A x \in Ranks : q - Dist(d0) < x /\ x < q + Dist(d0) => pc[x].n >= n0)
  BY <1>2 DEF EnteredOK, Finished, Kind
<1>5. EnteredOK(q)' <=> (~(n0 > NumOps) /\ OverAll(ops[n0]) =>
          \A x \in Ranks : q - Dist(d0) < x /\ x < q + Dist(d0) => pc'[x].n >= n0)
  BY <1>2 DEF EnteredOK, Finished, Kind
<1>6. ASSUME NEW x \in Ranks, pc[x].n >= n0 PROVE pc'[x].n >= n0
  <2>1. PICK a, b : a = pc[x].n /\ b = pc'[x].n
    OBVIOUS
  <2>2. a \in Int /\ b \in Int /\ b >= a /\ a >= n0
    BY <1>1, <1>6, <2>1
  <2> QED
    BY ONLY <1>3, <2>1, <2>2
<1> QED
  BY <1>4, <1>5, <1>6

\* Steps within an operation change no result.
LEMMA ResultsKeep ==
    ASSUME ops' = ops, result' = result, \A q \in Ranks : pc'[q].n = pc[q].n
    PROVE  /\ ResultsAreRight => ResultsAreRight'
           /\ NobodyLeavesEarly => NobodyLeavesEarly'
  BY DEF ResultsAreRight, NobodyLeavesEarly

LEMMA RoomKeeps ==
    ASSUME NEW x \in Ranks, NEW y, form' = form, pc'[x] = pc[x], chan'[x][y] = chan[x][y]
    PROVE  RoomOK(x, y) => RoomOK(x, y)'
  BY DEF RoomOK, To, Step

LEMMA GotKeeps ==
    ASSUME ShapeOK, NEW r \in Ranks, ops' = ops, got'[r] = got[r],
           pc'[r].n = pc[r].n, pc'[r].d = pc[r].d,
           NEW n, n = pc[r].n,
           \A side \in Sides, d \in Sizes : Due(r, Recv(side), n, d) =>
               (Done(r, Recv(side), n, d)' <=> Done(r, Recv(side), n, d)),
           GotOK(r)
    PROVE  GotOK(r)'
<1>1. PICK d0 \in Sizes : d0 = pc[r].d
  BY PositionFacts
<1>2. 0 \in Sizes
  BY SizeFacts DEF Sizes
<1> DEFINE G(side, d) == Due(r, Recv(side), n, d) /\ Done(r, Recv(side), n, d)
           W(side, d) == Window(Partner(r, side, d), ops[n], Other(side), d)
           OK(side, g) == /\ G(side, d0) => g = W(side, d0)
                          /\ ~(n > NumOps) /\ ops[n] = "shift" =>
                                g = IF G(side, 0) THEN W(side, 0) ELSE Nothing
<1>3. \A side \in Sides, d \in Sizes : (Due(r, Recv(side), n, d) /\ Done(r, Recv(side), n, d))'
                                       <=> G(side, d)
  <2> SUFFICES ASSUME NEW side \in Sides, NEW d \in Sizes
               PROVE (Due(r, Recv(side), n, d) /\ Done(r, Recv(side), n, d))' <=> G(side, d)
    OBVIOUS
  <2>1. Due(r, Recv(side), n, d)' <=> Due(r, Recv(side), n, d)
    BY DEF Due
  <2> QED
    BY <2>1
<1>4. \A side \in Sides : OK(side, got[r][side])
  BY <1>1 DEF GotOK, Kind, Finished
<1>5. GotOK(r)' <=> \A side \in Sides :
          /\ (Due(r, Recv(side), n, d0) /\ Done(r, Recv(side), n, d0))' => got[r][side] = W(side, d0)
          /\ ~(n > NumOps) /\ ops[n] = "shift" =>
                got[r][side] = IF (Due(r, Recv(side), n, 0) /\ Done(r, Recv(side), n, 0))'
                               THEN W(side, 0) ELSE Nothing
  BY <1>1 DEF GotOK, Kind, Finished
<1> HIDE DEF G, W
<1> QED
  BY <1>1, <1>2, <1>3, <1>4, <1>5

-----------------------------------------------------------------------------
(* Steps.                                                                  *)

LocalOK(r) == PlaceOK(r) /\ BufOK(r) /\ GotOK(r) /\ EnteredOK(r)
RoomsOK == \A r, q \in Ranks : RoomOK(r, q)

LEMMA InvParts ==
    CollectInv <=> /\ ShapeOK /\ \A r \in Ranks : LocalOK(r)
                   /\ ChannelsOK /\ RoomsOK /\ ResultsAreRight /\ NobodyLeavesEarly
  BY DEF CollectInv, LocalOK, ChannelsOK, RoomsOK

\* A member takes a step of its round: what is left to show about it is where it
\* stands and what it has received.
LEMMA WithinRound ==
    ASSUME ShapeOK, ShapeOK', \A q \in Ranks : LocalOK(q), ResultsAreRight, NobodyLeavesEarly,
           NEW r \in Ranks, form' = form, ops' = ops, buf' = buf, result' = result,
           pc'[r].n = pc[r].n, pc'[r].d = pc[r].d,
           \A q \in Ranks : q # r => pc'[q] = pc[q] /\ got'[q] = got[q],
           PlaceOK(r)', GotOK(r)'
    PROVE  (\A q \in Ranks : LocalOK(q))' /\ ResultsAreRight' /\ NobodyLeavesEarly'
<1>1. \A q \in Ranks : pc'[q].n = pc[q].n /\ pc'[q].d = pc[q].d
  OBVIOUS
<1>2. \A q \in Ranks : pc'[q].n \in Int /\ pc'[q].n >= pc[q].n
  <2>1. \A q \in Ranks : pc[q].n \in Int
    BY PositionFacts
  <2> QED
    BY <1>1, <2>1
<1>3. ASSUME NEW q \in Ranks PROVE LocalOK(q)'
  <2>1. EnteredOK(q)'
    BY <1>1, <1>2, EnteredKeeps DEF LocalOK
  <2>2. PlaceOK(q)' /\ BufOK(q)' /\ GotOK(q)'
    <3>1. CASE q # r
      BY <3>1, OthersKeep DEF LocalOK
    <3>2. CASE q = r
      <4>1. BufOK(r)'
        BY DEF LocalOK, BufOK, Finished, Kind
      <4> QED
        BY <3>2, <4>1
    <3> QED
      BY <3>1, <3>2
  <2> QED
    BY <2>1, <2>2 DEF LocalOK
<1> QED
  BY <1>1, <1>3, ResultsKeep

Place(n, d, k, w) == [n |-> n, d |-> d, at |-> k, call |-> w]

LEMMA PlaceIs ==
    ASSUME NEW x \in Positions
    PROVE  /\ x = Place(x.n, x.d, x.at, x.call)
           /\ x.n \in 1..(NumOps + 1) /\ x.d \in 0..(Size + 1) /\ x.at \in 1..5
           /\ x.call \in {"none", "write"}
  BY DEF Place, Positions

LEMMA PlaceFields ==
    ASSUME NEW n, NEW d, NEW k, NEW w
    PROVE  /\ Place(n, d, k, w).n = n /\ Place(n, d, k, w).d = d
           /\ Place(n, d, k, w).at = k /\ Place(n, d, k, w).call = w
           /\ n \in 1..(NumOps + 1) /\ d \in 0..(Size + 1) /\ k \in 1..5 /\ w \in {"none", "write"}
                 => Place(n, d, k, w) \in Positions
  BY DEF Place, Positions

LEMMA OneField ==
    ASSUME NEW x, x = Place(x.n, x.d, x.at, x.call), NEW a
    PROVE  [x EXCEPT !.at = a] = Place(x.n, x.d, a, x.call)
  BY DEF Place

\* A member moves, and the others do not.
LEMMA PutIs ==
    ASSUME ShapeOK, NEW r \in Ranks, NEW y, y \in Positions, pc' = [pc EXCEPT ![r] = y]
    PROVE  /\ pc' \in [Ranks -> Positions] /\ pc'[r] = y
           /\ \A q \in Ranks : q # r => pc'[q] = pc[q]
  BY DEF ShapeOK

LEMMA PlaceNow ==
    ASSUME ShapeOK, NEW r \in Ranks
    PROVE  /\ pc[r] = Place(pc[r].n, pc[r].d, pc[r].at, pc[r].call)
           /\ pc[r] \in Positions
<1>1. pc[r] \in Positions
  BY DEF ShapeOK
<1> QED
  BY <1>1, PlaceIs

LEMMA WriteStep ==
    ASSUME CollectInv, NEW r \in Ranks, Write(r)
    PROVE  CollectInv'
<1>1. /\ ShapeOK /\ (\A q \in Ranks : LocalOK(q)) /\ ChannelsOK /\ RoomsOK
      /\ ResultsAreRight /\ NobodyLeavesEarly
  BY InvParts
<1>2. PICK i \in 1..4 :
        /\ Now(r, i, "send")
        /\ chan' = [chan EXCEPT ![r][To(r, i)] =
                       Append(@, [n |-> pc[r].n, d |-> pc[r].d,
                                  data |-> buf[r][Step(r, i).side]])]
        /\ pc' = [pc EXCEPT ![r].at = i + 1, ![r].call = "write"]
        /\ form' = form /\ ops' = ops /\ buf' = buf /\ got' = got /\ result' = result
  BY DEF Write
<1>3. PICK did \in Steps : did = Step(r, i)
  BY <1>1, <1>2, NowIs
<1>4. PICK m \in 1..NumOps : m = pc[r].n
  BY <1>1, <1>2, NowIs
<1>5. PICK e \in 0..Size : e = pc[r].d /\ e \in Sizes
  BY <1>1, <1>2, NowIs
<1>6. PICK s \in Sides : did = Send(s) /\ did.side = s
  BY <1>1, <1>2, <1>3, NowIs, StepFacts
<1>7. PICK p : p = Partner(r, s, e) /\ p = To(r, i)
  BY <1>3, <1>5, <1>6 DEF To
<1>8. PICK x : x = pc[r] /\ x = Place(x.n, x.d, x.at, x.call) /\ x \in Positions
  BY <1>1, PlaceNow
<1>9. PICK y : /\ y = Place(x.n, x.d, i + 1, "write") /\ y \in Positions
               /\ y.n = x.n /\ y.d = x.d /\ y.at = i + 1 /\ y.call = "write"
  <2>1. i + 1 \in 1..5 /\ x.n \in 1..(NumOps + 1) /\ x.d \in 0..(Size + 1)
    BY <1>8, PlaceIs
  <2>2. PICK z : z = Place(x.n, x.d, i + 1, "write")
    OBVIOUS
  <2>3. z \in Positions
    BY <2>1, <2>2 DEF Place, Positions
  <2>4. z.n = x.n /\ z.d = x.d /\ z.at = i + 1 /\ z.call = "write"
    BY <2>2 DEF Place
  <2> QED
    BY <2>2, <2>3, <2>4
<1>10. /\ pc' \in [Ranks -> Positions] /\ pc'[r] = y
       /\ \A q \in Ranks : q # r => pc'[q] = pc[q]
  <2>1. [x EXCEPT !.at = i + 1, !.call = "write"] = y
    <3>1. PICK z : z = [x EXCEPT !.at = i + 1]
      OBVIOUS
    <3>2. z = Place(x.n, x.d, i + 1, x.call)
      BY <1>8, <3>1 DEF Place
    <3>3. [z EXCEPT !.call = "write"] = y
      BY <1>9, <3>2 DEF Place
    <3> QED
      BY <3>1, <3>3, Zenon
  <2>2. pc' = [pc EXCEPT ![r] = y]
    BY <1>2, <1>8, <2>1
  <2> QED
    BY <1>1, <1>9, <2>2, PutIs
<1>11. MovesTo(r, pc[r].n, pc[r].d, i + 1)
  BY <1>2, <1>8, <1>9, <1>10 DEF MovesTo
<1>12. OneMoreDone(r, Send(s), m, e)
  BY <1>1, <1>2, <1>3, <1>4, <1>5, <1>6, <1>11, TakenIs
<1>13. buf[r][s] = Window(r, ops[m], s, e)
  <2>1. ~Finished(r)
    BY <1>2 DEF Now, InRound
  <2> QED
    BY <1>1, <1>4, <1>5, <2>1 DEF LocalOK, BufOK, Kind
<1>14. Puts(r, p, Message(r, s, e, m))
  BY <1>2, <1>3, <1>4, <1>5, <1>6, <1>7, <1>13 DEF Message, Puts
<1>15. /\ ChannelsOK' /\ p \in Ranks
       /\ chan' \in [Ranks -> [Ranks -> Seq(Messages)]]
       /\ Len(chan'[r][p]) = Len(chan[r][p]) + 1
       /\ \A a, b \in Ranks : ~(a = r /\ b = p) => chan'[a][b] = chan[a][b]
  <2>1. m = pc[r].n /\ ops' = ops /\ p = Partner(r, s, e) /\ ShapeOK /\ ChannelsOK
    BY ONLY <1>1, <1>2, <1>4, <1>7
  <2>2. ChannelsOK' /\ Grows(r, p)
    BY ONLY <2>1, <1>12, <1>14, r \in Ranks, s \in Sides, WriteChannels
  <2> QED
    BY <2>2 DEF Grows
<1>16. ShapeOK'
  BY <1>1, <1>2, <1>10, <1>15 DEF ShapeOK
<1>17. /\ InRound(r) /\ Takes(r, i) /\ pc[r].call = "none"
  BY <1>2 DEF Now
<1>18. PlaceOK(r)'
  <2>1. pc'[r].n = m /\ pc'[r].d = e /\ pc'[r].at = i + 1 /\ pc'[r].call = "write"
    BY <1>4, <1>5, <1>8, <1>9, <1>10
  <2>2. InRound(r)' /\ (Kind(r)' = Kind(r)) /\ (Finished(r)' <=> Finished(r))
    BY <1>2, <1>4, <1>5, <1>17, <2>1 DEF InRound, Finished, Kind
  <2>3. pc'[r].at > 1 /\ pc'[r].at - 1 = i
    BY <2>1
  <2>4. Takes(r, pc[r].at - 1)'
    BY <1>2, <1>4, <1>5, <1>17, <2>1, <2>2, <2>3 DEF Takes, Step
  <2>5. (pc[r].d # 0 => ~Finished(r) /\ pc[r].d - 1 \in Rounds(Kind(r)))'
    BY <1>1, <1>5, <2>1, <2>2 DEF LocalOK, PlaceOK
  <2> QED
    BY <2>2, <2>3, <2>4, <2>5 DEF PlaceOK
<1>19. GotOK(r)'
  <2>1. \A side \in Sides, d \in Sizes : Due(r, Recv(side), m, d) =>
            (Done(r, Recv(side), m, d)' <=> Done(r, Recv(side), m, d))
    BY <1>6, <1>12, StepFacts DEF OneMoreDone
  <2>2. pc'[r].n = pc[r].n /\ pc'[r].d = pc[r].d /\ got'[r] = got[r]
    BY <1>2, <1>8, <1>9, <1>10
  <2> QED
    BY <1>1, <1>2, <1>4, <2>1, <2>2, GotKeeps DEF LocalOK
<1>20. (\A q \in Ranks : LocalOK(q))' /\ ResultsAreRight' /\ NobodyLeavesEarly'
  <2>1. pc'[r].n = pc[r].n /\ pc'[r].d = pc[r].d /\ \A q \in Ranks : q # r => pc'[q] = pc[q] /\ got'[q] = got[q]
    BY <1>2, <1>8, <1>9, <1>10
  <2> QED
    BY <1>1, <1>2, <1>16, <1>18, <1>19, <2>1, WithinRound
<1>21. RoomsOK'
  <2> SUFFICES ASSUME NEW a \in Ranks, NEW b \in Ranks PROVE RoomOK(a, b)'
    BY DEF RoomsOK
  <2>1. CASE a # r
    BY <1>1, <1>2, <1>10, <1>15, <2>1, RoomKeeps DEF RoomsOK
  <2>2. CASE a = r
    <3>1. PICK c \in Nat : c = Cap[form]
      BY <1>1, CollectAssumption DEF ShapeOK
    <3>2. PICK l \in Nat : l = Len(chan[r][b]) /\ l <= c
      <4>1. Len(chan[r][b]) \in Nat
        BY <1>1 DEF ShapeOK
      <4>2. RoomOK(r, b)
        BY <1>1 DEF RoomsOK
      <4> QED
        BY ONLY <1>17, <3>1, <4>1, <4>2 DEF RoomOK
    <3>3. CASE b # p
      BY <1>2, <1>15, <2>2, <3>1, <3>2, <3>3 DEF RoomOK
    <3>4. CASE b = p
      <4>1. Len(chan'[r][p]) = l + 1 /\ l + 1 <= c + 1
        BY <1>15, <3>2, <3>4
      <4>2. pc'[r].call = "write" /\ pc'[r].at = i + 1 /\ pc'[r].d = e /\ (i + 1) - 1 = i
        <5>1. (i + 1) - 1 = i
          OBVIOUS
        <5>2. pc'[r] = y /\ y.d = e
          BY ONLY <1>5, <1>8, <1>9, <1>10
        <5>3. y.call = "write" /\ y.at = i + 1
          BY ONLY <1>9, Zenon
        <5> QED
          BY ONLY <5>1, <5>2, <5>3, Zenon
      <4>3. To(r, pc[r].at - 1)' = p
        BY <1>2, <1>5, <1>7, <4>2 DEF To, Step
      <4> QED
        BY <1>2, <2>2, <3>1, <3>4, <4>1, <4>2, <4>3 DEF RoomOK
    <3> QED
      BY <3>3, <3>4
  <2> QED
    BY <2>1, <2>2
<1> QED
  BY <1>15, <1>16, <1>20, <1>21, InvParts DEF CollectInv, LocalOK, ChannelsOK, RoomsOK

LEMMA ReturnsStep ==
    ASSUME CollectInv, NEW r \in Ranks, WriteReturns(r)
    PROVE  CollectInv'
<1>1. /\ ShapeOK /\ (\A q \in Ranks : LocalOK(q)) /\ ChannelsOK /\ RoomsOK
      /\ ResultsAreRight /\ NobodyLeavesEarly
  BY InvParts
<1>2. /\ pc[r].call = "write" /\ Len(chan[r][To(r, pc[r].at - 1)]) <= Cap[form]
      /\ pc' = [pc EXCEPT ![r].call = "none"]
      /\ form' = form /\ ops' = ops /\ buf' = buf /\ got' = got /\ chan' = chan /\ result' = result
  BY DEF WriteReturns
<1>3. PICK x : x = pc[r] /\ x = Place(x.n, x.d, x.at, x.call) /\ x \in Positions
  BY <1>1, PlaceNow
<1>4. PICK y : /\ y = Place(x.n, x.d, x.at, "none") /\ y \in Positions
               /\ y.n = x.n /\ y.d = x.d /\ y.at = x.at /\ y.call = "none"
  BY <1>3, PlaceIs, PlaceFields
<1>5. /\ pc' \in [Ranks -> Positions] /\ pc'[r] = y
      /\ \A q \in Ranks : q # r => pc'[q] = pc[q]
  <2>1. [x EXCEPT !.call = "none"] = y
    BY <1>3, <1>4 DEF Place
  <2>2. pc' = [pc EXCEPT ![r] = y]
    BY <1>2, <1>3, <2>1
  <2> QED
    BY <1>1, <1>4, <2>2, PutIs
<1>6. /\ pc'[r].n = pc[r].n /\ pc'[r].d = pc[r].d /\ pc'[r].at = pc[r].at
      /\ pc'[r].call = "none"
  BY <1>3, <1>4, <1>5
<1>7. SameDone
  <2>1. MovesTo(r, pc[r].n, pc[r].d, pc[r].at)
    BY <1>2, <1>5, <1>6 DEF MovesTo
  <2> QED
    BY <2>1, StaysIs
<1>8. ChannelsOK'
  BY <1>1, <1>2, <1>7, QuietChannels
<1>9. ShapeOK'
  BY <1>1, <1>2, <1>5 DEF ShapeOK
<1>10. PlaceOK(r)'
  <2>1. PlaceOK(r)
    BY <1>1 DEF LocalOK
  <2> QED
    BY <1>2, <1>6, <2>1 DEF PlaceOK, InRound, Finished, Kind
<1>11. GotOK(r)'
  <2>1. PICK m : m = pc[r].n
    OBVIOUS
  <2>2. \A side \in Sides, d \in Sizes : Due(r, Recv(side), m, d) =>
            (Done(r, Recv(side), m, d)' <=> Done(r, Recv(side), m, d))
    BY <1>7, StepFacts DEF SameDone, Due
  <2> QED
    BY <1>1, <1>2, <1>6, <2>1, <2>2, GotKeeps DEF LocalOK
<1>12. (\A q \in Ranks : LocalOK(q))' /\ ResultsAreRight' /\ NobodyLeavesEarly'
  BY <1>1, <1>2, <1>5, <1>6, <1>9, <1>10, <1>11, WithinRound
<1>13. RoomsOK'
  <2> SUFFICES ASSUME NEW a \in Ranks, NEW b \in Ranks PROVE RoomOK(a, b)'
    BY DEF RoomsOK
  <2>1. CASE a # r
    BY <1>1, <1>2, <1>5, <2>1, RoomKeeps DEF RoomsOK
  <2>2. CASE a = r
    <3>1. PICK c \in Nat : c = Cap[form]
      BY <1>1, CollectAssumption DEF ShapeOK
    <3>2. PICK l \in Nat : l = Len(chan[r][b])
      <4>1. Len(chan[r][b]) \in Nat
        BY <1>1 DEF ShapeOK
      <4> QED
        BY <4>1
    <3>3. l <= c
      <4>1. l > c => To(r, pc[r].at - 1) = b
        BY <1>1, <3>1, <3>2 DEF RoomsOK, RoomOK
      <4> QED
        BY <1>2, <3>1, <3>2, <4>1
    <3> QED
      BY <1>2, <2>2, <3>1, <3>2, <3>3 DEF RoomOK
  <2> QED
    BY <2>1, <2>2
<1> QED
  BY <1>8, <1>9, <1>12, <1>13, InvParts DEF CollectInv, LocalOK, ChannelsOK, RoomsOK

\* A message is read: it is the one of the member's round.
LEMMA GotOne ==
    ASSUME ShapeOK, NEW r \in Ranks, GotOK(r), NEW s \in Sides, NEW m, m = pc[r].n, NEW e, e = pc[r].d,
           OneMoreDone(r, Recv(s), m, e), ops' = ops,
           pc'[r].n = m, pc'[r].d = e,
           got'[r][s] = Window(Partner(r, s, e), ops[m], Other(s), e),
           \A side \in Sides : side # s => got'[r][side] = got[r][side]
    PROVE  GotOK(r)'
<1>1. m \in 1..NumOps /\ e \in Sizes /\ Due(r, Recv(s), m, e) /\ Done(r, Recv(s), m, e)'
  BY DEF OneMoreDone
<1>2. 0 \in Sizes /\ (ops[m] = "shift" => e = 0)
  <2>1. e \in Rounds(ops[m])
    BY <1>1 DEF Due
  <2> QED
    BY <2>1, RoundFacts, SizeFacts DEF Sizes
<1> DEFINE G(side, d) == Due(r, Recv(side), m, d) /\ Done(r, Recv(side), m, d)
           W(side, d) == Window(Partner(r, side, d), ops[m], Other(side), d)
<1>3. \A side \in Sides, d \in Sizes : Due(r, Recv(side), m, d)' <=> Due(r, Recv(side), m, d)
  BY DEF Due
<1>4. \A side \in Sides, d \in Sizes : side # s =>
          ((Due(r, Recv(side), m, d) /\ Done(r, Recv(side), m, d))' <=> G(side, d))
  <2> SUFFICES ASSUME NEW side \in Sides, NEW d \in Sizes, side # s
               PROVE  (Due(r, Recv(side), m, d) /\ Done(r, Recv(side), m, d))' <=> G(side, d)
    OBVIOUS
  <2>1. Recv(side) \in Steps /\ Recv(side) # Recv(s)
    BY StepFacts
  <2> QED
    BY <1>1, <1>3, <2>1 DEF OneMoreDone
<1>5. \A side \in Sides :
          /\ G(side, e) => got[r][side] = W(side, e)
          /\ ~(m > NumOps) /\ ops[m] = "shift" =>
                got[r][side] = IF G(side, 0) THEN W(side, 0) ELSE Nothing
  BY DEF GotOK, Kind, Finished
<1>6. GotOK(r)' <=> \A side \in Sides :
          /\ (Due(r, Recv(side), m, e) /\ Done(r, Recv(side), m, e))' => got'[r][side] = W(side, e)
          /\ ~(m > NumOps) /\ ops[m] = "shift" =>
                got'[r][side] = IF (Due(r, Recv(side), m, 0) /\ Done(r, Recv(side), m, 0))'
                                THEN W(side, 0) ELSE Nothing
  BY DEF GotOK, Kind, Finished
<1>7. ASSUME NEW side \in Sides
      PROVE  /\ (Due(r, Recv(side), m, e) /\ Done(r, Recv(side), m, e))' => got'[r][side] = W(side, e)
             /\ ~(m > NumOps) /\ ops[m] = "shift" =>
                   got'[r][side] = IF (Due(r, Recv(side), m, 0) /\ Done(r, Recv(side), m, 0))'
                                   THEN W(side, 0) ELSE Nothing
  <2>1. CASE side # s
    BY <1>1, <1>2, <1>4, <1>5, <2>1
  <2>2. CASE side = s
    <3>1. got'[r][s] = W(s, e) /\ (Due(r, Recv(s), m, e) /\ Done(r, Recv(s), m, e))'
      BY <1>1, <1>3
    <3> QED
      BY <1>2, <2>2, <3>1
  <2> QED
    BY <2>1, <2>2
<1> QED
  BY <1>6, <1>7

LEMMA ReadStep ==
    ASSUME CollectInv, NEW r \in Ranks, Read(r)
    PROVE  CollectInv'
<1>1. /\ ShapeOK /\ (\A q \in Ranks : LocalOK(q)) /\ ChannelsOK /\ RoomsOK
      /\ ResultsAreRight /\ NobodyLeavesEarly
  BY InvParts
<1>2. PICK i \in 1..4 :
        /\ Now(r, i, "recv")
        /\ chan[To(r, i)][r] # << >>
        /\ got' = [got EXCEPT ![r][Step(r, i).side] = Head(chan[To(r, i)][r]).data]
        /\ chan' = [chan EXCEPT ![To(r, i)][r] = Tail(@)]
        /\ pc' = [pc EXCEPT ![r].at = i + 1]
        /\ form' = form /\ ops' = ops /\ buf' = buf /\ result' = result
  BY DEF Read
<1>3. PICK did \in Steps : did = Step(r, i)
  BY <1>1, <1>2, NowIs
<1>4. PICK m \in 1..NumOps : m = pc[r].n
  BY <1>1, <1>2, NowIs
<1>5. PICK e \in 0..Size : e = pc[r].d /\ e \in Sizes
  BY <1>1, <1>2, NowIs
<1>6. PICK s \in Sides : did = Recv(s) /\ did.side = s
  <2>1. did.do = "recv" /\ did.side \in Sides
    BY <1>1, <1>2, <1>3, NowIs, StepFacts
  <2> QED
    BY <2>1, StepFacts
<1>7. PICK p : p = Partner(r, s, e) /\ p = To(r, i)
  BY <1>3, <1>5, <1>6 DEF To
<1>8. PICK x : x = pc[r] /\ x = Place(x.n, x.d, x.at, x.call) /\ x \in Positions
  BY <1>1, PlaceNow
<1>9. PICK y : /\ y = Place(x.n, x.d, i + 1, x.call) /\ y \in Positions
               /\ y.n = x.n /\ y.d = x.d /\ y.at = i + 1 /\ y.call = x.call
  <2>1. i + 1 \in 1..5
    OBVIOUS
  <2> QED
    BY <1>8, <2>1, PlaceIs, PlaceFields
<1>10. /\ pc' \in [Ranks -> Positions] /\ pc'[r] = y
       /\ \A q \in Ranks : q # r => pc'[q] = pc[q]
  <2>1. [x EXCEPT !.at = i + 1] = y
    BY <1>8, <1>9, OneField, Zenon
  <2>2. pc' = [pc EXCEPT ![r] = y]
    BY <1>2, <1>8, <2>1
  <2> QED
    BY <1>1, <1>9, <2>2, PutIs
<1>11. /\ pc'[r].n = m /\ pc'[r].d = e /\ pc'[r].at = i + 1 /\ pc'[r].call = "none"
       /\ pc[r].call = "none" /\ InRound(r)
  <2>1. pc[r].call = "none" /\ InRound(r)
    BY <1>2 DEF Now
  <2> QED
    BY <1>4, <1>5, <1>8, <1>9, <1>10, <2>1
<1>12. OneMoreDone(r, Recv(s), m, e)
  <2>1. MovesTo(r, pc[r].n, pc[r].d, i + 1)
    BY <1>2, <1>4, <1>5, <1>10, <1>11 DEF MovesTo
  <2> QED
    BY <1>1, <1>2, <1>3, <1>4, <1>5, <1>6, <2>1, TakenIs
<1>13. /\ ChannelsOK' /\ p \in Ranks
       /\ chan' \in [Ranks -> [Ranks -> Seq(Messages)]]
       /\ \A a, b \in Ranks : Len(chan'[a][b]) <= Len(chan[a][b])
       /\ Head(chan[p][r]) = Message(p, Other(s), e, m)
  <2>1. chan[p][r] # << >> /\ TakesHead(r, p)
    BY <1>2, <1>7 DEF TakesHead
  <2>2. ChannelsOK' /\ Shrinks(r, p, Message(p, Other(s), e, m))
    BY ONLY <1>1, <1>2, <1>4, <1>7, <1>12, <2>1, r \in Ranks, s \in Sides, ReadChannels
  <2> QED
    BY <2>2 DEF Shrinks
<1>14. PICK w \in Counts : w = Window(p, ops[m], Other(s), e) /\ w = Head(chan[p][r]).data
  BY <1>13, WindowType DEF Message
<1>15. /\ got' \in [Ranks -> [Sides -> Counts]] /\ got'[r][s] = w
       /\ \A side \in Sides : side # s => got'[r][side] = got[r][side]
       /\ \A q \in Ranks : q # r => got'[q] = got[q]
  <2>1. got' = [got EXCEPT ![r] = [got[r] EXCEPT ![s] = w]]
    BY <1>2, <1>3, <1>6, <1>7, <1>14
  <2>2. got \in [Ranks -> [Sides -> Counts]]
    BY <1>1 DEF ShapeOK
  <2> QED
    BY <2>1, <2>2
<1>16. ShapeOK'
  BY <1>1, <1>2, <1>10, <1>13, <1>15 DEF ShapeOK
<1>17. PlaceOK(r)'
  <2>1. InRound(r)' /\ (Kind(r)' = Kind(r)) /\ (Finished(r)' <=> Finished(r))
    BY <1>2, <1>4, <1>5, <1>11 DEF InRound, Finished, Kind
  <2>2. (pc[r].d # 0 => ~Finished(r) /\ pc[r].d - 1 \in Rounds(Kind(r)))'
    BY <1>1, <1>5, <1>11, <2>1 DEF LocalOK, PlaceOK
  <2> QED
    BY <1>11, <2>1, <2>2 DEF PlaceOK
<1>18. GotOK(r)'
  BY <1>1, <1>2, <1>4, <1>5, <1>7, <1>11, <1>12, <1>14, <1>15, GotOne DEF LocalOK
<1>19. (\A q \in Ranks : LocalOK(q))' /\ ResultsAreRight' /\ NobodyLeavesEarly'
  BY <1>1, <1>2, <1>4, <1>5, <1>10, <1>11, <1>15, <1>16, <1>17, <1>18, WithinRound
<1>20. RoomsOK'
  <2> SUFFICES ASSUME NEW a \in Ranks, NEW b \in Ranks PROVE RoomOK(a, b)'
    BY DEF RoomsOK
  <2>1. PICK c \in Nat : c = Cap[form]
    BY <1>1, CollectAssumption DEF ShapeOK
  <2>2. PICK l \in Nat : l = Len(chan[a][b])
    <3>1. Len(chan[a][b]) \in Nat
      BY <1>1 DEF ShapeOK
    <3> QED
      BY <3>1
  <2>3. PICK k \in Nat : k = Len(chan'[a][b]) /\ k <= l
    <3>1. Len(chan'[a][b]) \in Nat
      BY <1>13
    <3> QED
      BY <1>13, <2>2, <3>1
  <2>4. RoomOK(a, b)
    BY <1>1 DEF RoomsOK
  <2>5. CASE a # r
    <3>1. pc'[a] = pc[a] /\ To(a, pc[a].at - 1)' = To(a, pc[a].at - 1)
      BY <1>2, <1>10, <2>5 DEF To, Step
    <3>2. /\ l <= c + 1
          /\ l > c => pc[a].call = "write" /\ To(a, pc[a].at - 1) = b
      BY <2>1, <2>2, <2>4 DEF RoomOK
    <3>3. /\ k <= c + 1
          /\ k > c => pc[a].call = "write" /\ To(a, pc[a].at - 1) = b
      BY <2>3, <3>2
    <3> QED
      BY <1>2, <2>1, <2>3, <3>1, <3>3 DEF RoomOK
  <2>6. CASE a = r
    BY <1>2, <1>11, <2>1, <2>2, <2>3, <2>4, <2>6 DEF RoomOK
  <2> QED
    BY <2>5, <2>6
<1> QED
  BY <1>13, <1>16, <1>19, <1>20, InvParts DEF CollectInv, LocalOK, ChannelsOK, RoomsOK

\* Those who have been heard of through a partner have entered.
LEMMA HeardOf ==
    ASSUME ShapeOK, ChannelsOK, NobodyLeavesEarly, \A q \in Ranks : EnteredOK(q),
           NEW r \in Ranks, NEW n \in 1..NumOps, NEW d \in 0..Size, NEW s \in Sides,
           OverAll(ops[n]), Due(r, Recv(s), n, d), Done(r, Recv(s), n, d),
           NEW q \in Ranks, NEW p, p = Partner(r, s, d),
           p - Dist(d) < q, q < p + Dist(d)
    PROVE  pc[q].n >= n
<1>1. d \in Sizes /\ HasPartner(r, s, d) /\ Other(s) \in Sides /\ Other(Other(s)) = s
  BY RoundsAreSizes, StepFacts DEF Due
<1>2. p \in Ranks /\ HasPartner(p, Other(s), d) /\ Partner(p, Other(s), d) = r
  BY <1>1, PartnerFacts
<1>3. Due(p, Send(Other(s)), n, d)
  BY <1>1, <1>2, DueFacts
<1>4. Done(p, Send(Other(s)), n, d)
  BY <1>1, <1>2, <1>3 DEF ChannelsOK, SentOK
<1>5. pc[p].n \in Int /\ pc[p].d \in Sizes /\ pc[q].n \in Int
  BY <1>2, PositionFacts
<1>6. CASE pc[p].n > n
  BY <1>2, <1>6 DEF NobodyLeavesEarly, OverAll
<1>7. CASE pc[p].n = n /\ pc[p].d >= d
  <2>1. PICK e \in Sizes : e = pc[p].d /\ e >= d
    BY <1>5, <1>7
  <2>2. Dist(d) \in Nat /\ Dist(e) \in Nat /\ (d < e => Dist(d) < Dist(e))
    BY <1>1, Distances
  <2>3. Dist(e) >= Dist(d)
    BY <1>1, <2>1, <2>2 DEF Sizes
  <2>4. p \in Int /\ q \in Int
    BY <1>2 DEF Ranks
  <2>5. p - Dist(e) < q /\ q < p + Dist(e)
    BY <2>2, <2>3, <2>4
  <2>6. ~Finished(p) /\ OverAll(Kind(p))
    <3>1. ~(n > NumOps) /\ OverAll(ops[n])
      BY SizeFacts
    <3> QED
      BY ONLY <1>7, <3>1, Zenon DEF Finished, Kind
  <2>7. EnteredOK(p)
    BY <1>2
  <2>8. p - Dist(pc[p].d) < q /\ q < p + Dist(pc[p].d)
    BY <2>1, <2>5
  <2>9. pc[q].n >= pc[p].n
    BY ONLY <2>6, <2>7, <2>8, q \in Ranks DEF EnteredOK
  <2> QED
    BY <1>7, <2>9
<1> QED
  BY <1>1, <1>4, <1>5, <1>6, <1>7 DEF Done, Sizes

LEMMA EnteredMore ==
    ASSUME ShapeOK, ChannelsOK, NobodyLeavesEarly, \A q \in Ranks : EnteredOK(q),
           NEW r \in Ranks, InRound(r), OverAll(Kind(r)),
           \A step \in Steps : Due(r, step, pc[r].n, pc[r].d) => Done(r, step, pc[r].n, pc[r].d),
           NEW q \in Ranks, r - Dist(pc[r].d + 1) < q, q < r + Dist(pc[r].d + 1)
    PROVE  pc[q].n >= pc[r].n
<1>1. PICK n \in 1..NumOps : n = pc[r].n
  BY PositionFacts DEF InRound
<1>2. PICK d \in 0..Size : d = pc[r].d /\ d \in Sizes /\ d \in Rounds(ops[n]) /\ Dist(d + 1) = 2 * Dist(d)
  BY <1>1, RoundFacts DEF InRound, Kind
<1>3. ops[n] = Kind(r) /\ \A step : Moves(ops[n], step)
  BY <1>1 DEF Kind, Moves, OverAll
<1>4. PICK P \in Nat :
            /\ P > 0 /\ Dist(d) = P /\ Dist(d + 1) = 2 * P /\ r \in Int /\ q \in Int
            /\ Size \in Nat /\ 0 <= q /\ q < Size /\ 0 <= r /\ r < Size
            /\ Partner(r, "left", d) = r - P /\ Partner(r, "right", d) = r + P
            /\ HasPartner(r, "left", d) <=> r - P >= 0
            /\ HasPartner(r, "right", d) <=> r + P < Size
            /\ Other("left") = "right" /\ Other("right") = "left"
  BY <1>2, NearIs
<1>5. \A s \in Sides : HasPartner(r, s, d) =>
          Due(r, Recv(s), n, d) /\ Done(r, Recv(s), n, d)
  BY <1>1, <1>2, <1>3, StepFacts DEF Due
<1>6. r - 2 * P < q /\ q < r + 2 * P
  BY <1>2, <1>4
<1>7. CASE r - P < q /\ q < r + P
  BY <1>2, <1>4, <1>7 DEF EnteredOK, InRound
<1>8. CASE q <= r - P
  <2>1. PICK p : p = Partner(r, "left", d) /\ p - Dist(d) < q /\ q < p + Dist(d)
    BY <1>4, <1>6, <1>8
  <2>2. Due(r, Recv("left"), n, d) /\ Done(r, Recv("left"), n, d) /\ "left" \in Sides
    BY <1>4, <1>5, <1>8 DEF Sides
  <2>3. OverAll(ops[n])
    BY <1>3
  <2> QED
    BY <1>1, <2>1, <2>2, <2>3, HeardOf
<1>9. CASE q >= r + P
  <2>1. PICK p : p = Partner(r, "right", d) /\ p - Dist(d) < q /\ q < p + Dist(d)
    BY <1>4, <1>6, <1>9
  <2>2. Due(r, Recv("right"), n, d) /\ Done(r, Recv("right"), n, d) /\ "right" \in Sides
    BY <1>4, <1>5, <1>9 DEF Sides
  <2>3. OverAll(ops[n])
    BY <1>3
  <2> QED
    BY <1>1, <2>1, <2>2, <2>3, HeardOf
<1> QED
  BY <1>4, <1>7, <1>8, <1>9

LEMMA MergeStep ==
    ASSUME CollectInv, NEW r \in Ranks, Merge(r)
    PROVE  CollectInv'
<1>1. /\ ShapeOK /\ (\A q \in Ranks : LocalOK(q)) /\ ChannelsOK /\ RoomsOK
      /\ ResultsAreRight /\ NobodyLeavesEarly
  BY InvParts
<1>2. /\ InRound(r) /\ pc[r].call = "none" /\ \A i \in pc[r].at..4 : ~Takes(r, i)
      /\ buf' = [buf EXCEPT ![r] = Merged(r)]
      /\ pc' = [pc EXCEPT ![r].d = @ + 1, ![r].at = 1]
      /\ form' = form /\ ops' = ops /\ got' = got /\ chan' = chan /\ result' = result
  BY DEF Merge
<1>3. PICK m \in 1..NumOps : m = pc[r].n
  BY <1>1, <1>2, PositionFacts DEF InRound
<1>4. PICK e \in Sizes : e = pc[r].d /\ e \in Rounds(ops[m]) /\ e + 1 \in Sizes
  BY <1>2, <1>3, RoundFacts DEF InRound, Kind
<1>5. PICK x : x = pc[r] /\ x = Place(x.n, x.d, x.at, x.call) /\ x \in Positions
  BY <1>1, PlaceNow
<1>6. PICK y : /\ y = Place(x.n, e + 1, 1, x.call) /\ y \in Positions
               /\ y.n = x.n /\ y.d = e + 1 /\ y.at = 1 /\ y.call = x.call
  <2>1. e + 1 \in 0..(Size + 1) /\ 1 \in 1..5
    BY <1>4 DEF Sizes
  <2> QED
    BY <1>5, <2>1, PlaceIs, PlaceFields
<1>7. /\ pc' \in [Ranks -> Positions] /\ pc'[r] = y
      /\ \A q \in Ranks : q # r => pc'[q] = pc[q]
  <2>1. [x EXCEPT !.d = e + 1, !.at = 1] = y
    <3>1. PICK z : z = [x EXCEPT !.d = e + 1]
      OBVIOUS
    <3>2. z = Place(x.n, e + 1, x.at, x.call)
      BY <1>5, <3>1 DEF Place
    <3>3. [z EXCEPT !.at = 1] = y
      BY <1>6, <3>2 DEF Place
    <3> QED
      BY <3>1, <3>3, Zenon
  <2>2. pc' = [pc EXCEPT ![r] = y]
    BY <1>2, <1>4, <1>5, <2>1
  <2> QED
    BY <1>1, <1>6, <2>2, PutIs
<1>8. pc'[r].n = m /\ pc'[r].d = e + 1 /\ pc'[r].at = 1 /\ pc'[r].call = "none"
  BY <1>2, <1>3, <1>5, <1>6, <1>7
<1>9. /\ SameDone
      /\ \A step \in Steps : Due(r, step, pc[r].n, pc[r].d) => Done(r, step, pc[r].n, pc[r].d)
  <2>1. MovesTo(r, pc[r].n, pc[r].d + 1, 1)
    BY <1>2, <1>3, <1>4, <1>7, <1>8 DEF MovesTo
  <2> QED
    BY <1>1, <1>2, <2>1, PassedIs
<1>10. ChannelsOK'
  BY <1>1, <1>2, <1>9, QuietChannels
<1>11. /\ Merged(r) \in [Sides -> Counts]
       /\ \A side \in Sides : Merged(r)[side] = Window(r, ops[m], side, e + 1)
  BY <1>1, <1>2, <1>3, <1>4, <1>9, MergedIs DEF LocalOK, Kind
<1>12. /\ buf' \in [Ranks -> [Sides -> Counts]] /\ buf'[r] = Merged(r)
       /\ \A q \in Ranks : q # r => buf'[q] = buf[q]
  <2>1. buf \in [Ranks -> [Sides -> Counts]]
    BY <1>1 DEF ShapeOK
  <2>2. PICK b \in [Sides -> Counts] : b = Merged(r)
    BY <1>11
  <2>3. buf' = [buf EXCEPT ![r] = b]
    BY <1>2, <2>2
  <2> QED
    BY <2>1, <2>2, <2>3
<1>13. ShapeOK'
  BY <1>1, <1>2, <1>7, <1>12 DEF ShapeOK
<1>14. Kind(r)' = ops[m] /\ Kind(r) = ops[m] /\ ~Finished(r)' /\ ~Finished(r)
  BY <1>2, <1>3, <1>8 DEF Kind, Finished, InRound
<1>15. PlaceOK(r)'
  <2>1. (e + 1) - 1 = e
    BY <1>4 DEF Sizes
  <2> QED
    BY <1>4, <1>8, <1>14, <2>1 DEF PlaceOK
<1>16. BufOK(r)'
  BY <1>8, <1>11, <1>12, <1>14 DEF BufOK
<1>17. GotOK(r)'
  <2> SUFFICES ASSUME NEW side \in Sides
               PROVE  /\ ~(Due(r, Recv(side), m, e + 1) /\ Done(r, Recv(side), m, e + 1))'
                      /\ ops[m] = "shift" =>
                            got[r][side] = IF (Due(r, Recv(side), m, 0) /\ Done(r, Recv(side), m, 0))'
                                           THEN Window(Partner(r, side, 0), ops[m], Other(side), 0)
                                           ELSE Nothing
    BY <1>2, <1>8, <1>14 DEF GotOK
  <2>1. ~Done(r, Recv(side), m, e + 1)'
    BY <1>4, <1>8 DEF Done, Sizes
  <2>2. Recv(side) \in Steps /\ 0 \in Sizes
    BY StepFacts, SizeFacts DEF Sizes
  <2>3. Due(r, Recv(side), m, 0)' <=> Due(r, Recv(side), m, 0)
    BY <1>2 DEF Due
  <2>4. Due(r, Recv(side), m, 0) => (Done(r, Recv(side), m, 0)' <=> Done(r, Recv(side), m, 0))
    BY <1>9, <2>2 DEF SameDone
  <2>5. ops[m] = "shift" =>
            got[r][side] = IF Due(r, Recv(side), m, 0) /\ Done(r, Recv(side), m, 0)
                           THEN Window(Partner(r, side, 0), ops[m], Other(side), 0)
                           ELSE Nothing
    BY <1>1, <1>3, <1>14 DEF LocalOK, GotOK
  <2> QED
    BY <2>1, <2>3, <2>4, <2>5
<1>18. \A q \in Ranks : pc[q].n \in Int /\ pc'[q].n = pc[q].n
  <2>1. \A q \in Ranks : pc[q].n \in Int
    BY <1>1, PositionFacts
  <2> QED
    BY <1>3, <1>7, <1>8, <2>1
<1>19. EnteredOK(r)'
  <2> SUFFICES ASSUME OverAll(ops[m]), NEW q \in Ranks, r - Dist(e + 1) < q, q < r + Dist(e + 1)
               PROVE  pc'[q].n >= m
    BY <1>8, <1>14 DEF EnteredOK
  <2>1. r - Dist(pc[r].d + 1) < q /\ q < r + Dist(pc[r].d + 1) /\ OverAll(Kind(r))
    BY <1>4, <1>14
  <2>2. \A a \in Ranks : EnteredOK(a)
    BY <1>1 DEF LocalOK
  <2>3. pc[q].n >= pc[r].n
    BY <1>1, <1>2, <1>9, <2>1, <2>2, EnteredMore
  <2> QED
    BY <1>3, <1>18, <2>3
<1>20. ASSUME NEW q \in Ranks PROVE LocalOK(q)'
  <2>1. CASE q = r
    BY <1>15, <1>16, <1>17, <1>19, <2>1 DEF LocalOK
  <2>2. CASE q # r
    <3>1. pc'[q] = pc[q] /\ buf'[q] = buf[q] /\ got'[q] = got[q] /\ LocalOK(q)
      BY <1>1, <1>2, <1>7, <1>12, <2>2
    <3>2. PlaceOK(q)' /\ BufOK(q)' /\ GotOK(q)'
      BY <1>2, <3>1, OthersKeep DEF LocalOK
    <3>3. \A a \in Ranks : pc'[a].n \in Int /\ pc'[a].n >= pc[a].n
      BY <1>18
    <3>4. EnteredOK(q)'
      BY <1>1, <1>2, <3>1, <3>3, EnteredKeeps DEF LocalOK
    <3> QED
      BY <3>2, <3>4 DEF LocalOK
  <2> QED
    BY <2>1, <2>2
<1>21. ResultsAreRight' /\ NobodyLeavesEarly'
  BY <1>1, <1>2, <1>18, ResultsKeep
<1>22. RoomsOK'
  <2> SUFFICES ASSUME NEW a \in Ranks, NEW b \in Ranks PROVE RoomOK(a, b)'
    BY DEF RoomsOK
  <2>1. CASE a # r
    BY <1>1, <1>2, <1>7, <2>1, RoomKeeps DEF RoomsOK
  <2>2. CASE a = r
    BY <1>1, <1>2, <2>2 DEF RoomsOK, RoomOK
  <2> QED
    BY <2>1, <2>2
<1> QED
  BY <1>10, <1>13, <1>20, <1>21, <1>22, InvParts DEF CollectInv, LocalOK, ChannelsOK, RoomsOK

LEMMA ReturnStep ==
    ASSUME CollectInv, NEW r \in Ranks, Return(r)
    PROVE  CollectInv'
<1>1. /\ ShapeOK /\ (\A q \in Ranks : LocalOK(q)) /\ ChannelsOK /\ RoomsOK
      /\ ResultsAreRight /\ NobodyLeavesEarly
  BY InvParts
<1>2. /\ ~Finished(r) /\ pc[r].d \notin Rounds(Kind(r))
      /\ result' = [result EXCEPT ![r] = Outcome(r)]
      /\ pc' = [pc EXCEPT ![r].n = @ + 1, ![r].d = 0, ![r].at = 1]
      /\ buf' = [buf EXCEPT ![r] = [side \in Sides |-> Only(r)]]
      /\ got' = [got EXCEPT ![r] = [side \in Sides |-> Nothing]]
      /\ form' = form /\ ops' = ops /\ chan' = chan
  BY DEF Return
<1>3. PICK m \in 1..NumOps : m = pc[r].n /\ Kind(r) = ops[m]
  BY <1>1, <1>2, PositionFacts DEF Kind
<1>4. PICK e \in Sizes : e = pc[r].d /\ e \notin Rounds(ops[m])
  BY <1>1, <1>2, <1>3, PositionFacts
<1>5. PICK x : x = pc[r] /\ x = Place(x.n, x.d, x.at, x.call) /\ x \in Positions
  BY <1>1, PlaceNow
<1>6. PICK y : /\ y = Place(m + 1, 0, 1, x.call) /\ y \in Positions
               /\ y.n = m + 1 /\ y.d = 0 /\ y.at = 1 /\ y.call = x.call
  <2>1. m + 1 \in 1..(NumOps + 1) /\ 0 \in 0..(Size + 1) /\ 1 \in 1..5
    BY SizeFacts
  <2> QED
    BY <1>5, <2>1, PlaceIs, PlaceFields
<1>7. /\ pc' \in [Ranks -> Positions] /\ pc'[r] = y
      /\ \A q \in Ranks : q # r => pc'[q] = pc[q]
  <2>1. [x EXCEPT !.n = m + 1, !.d = 0, !.at = 1] = y
    <3>1. PICK u : u = [x EXCEPT !.n = m + 1]
      OBVIOUS
    <3>2. u = Place(m + 1, x.d, x.at, x.call)
      BY <1>5, <3>1 DEF Place
    <3>3. PICK z : z = [u EXCEPT !.d = 0]
      OBVIOUS
    <3>4. z = Place(m + 1, 0, x.at, x.call)
      BY <3>2, <3>3 DEF Place
    <3>5. [z EXCEPT !.at = 1] = y
      BY <1>6, <3>4 DEF Place
    <3> QED
      BY <3>1, <3>3, <3>5, Zenon
  <2>2. pc' = [pc EXCEPT ![r] = y]
    BY <1>2, <1>3, <1>5, <2>1
  <2> QED
    BY <1>1, <1>6, <2>2, PutIs
<1>8. pc[r].call = "none"
  BY <1>1, <1>2 DEF LocalOK, PlaceOK, InRound
<1>9. pc'[r].n = m + 1 /\ pc'[r].d = 0 /\ pc'[r].at = 1 /\ pc'[r].call = "none"
  BY <1>5, <1>6, <1>7, <1>8
<1>10. SameDone
  <2>1. MovesTo(r, pc[r].n + 1, 0, 1)
    BY <1>2, <1>3, <1>7, <1>9 DEF MovesTo
  <2> QED
    BY <1>1, <1>2, <2>1, LeftIs DEF LocalOK
<1>11. ChannelsOK'
  BY <1>1, <1>2, <1>10, QuietChannels
<1>12. /\ buf' \in [Ranks -> [Sides -> Counts]] /\ got' \in [Ranks -> [Sides -> Counts]]
       /\ \A side \in Sides : buf'[r][side] = Only(r) /\ got'[r][side] = Nothing
       /\ \A q \in Ranks : q # r => buf'[q] = buf[q] /\ got'[q] = got[q]
  <2>1. buf \in [Ranks -> [Sides -> Counts]] /\ got \in [Ranks -> [Sides -> Counts]]
    BY <1>1 DEF ShapeOK
  <2>2. Only(r) \in Counts /\ Nothing \in Counts
    BY DEF Only, Nothing, Counts
  <2> QED
    BY <1>2, <2>1, <2>2
<1>13. /\ Outcome(r) = Expected(r, ops[m]) /\ Outcome(r) \in Counts
  BY <1>1, <1>2, <1>3, OutcomeIs DEF LocalOK
<1>14. /\ result' \in [Ranks -> Counts] /\ result'[r] = Expected(r, ops[m])
       /\ \A q \in Ranks : q # r => result'[q] = result[q]
  <2>1. result \in [Ranks -> Counts]
    BY <1>1 DEF ShapeOK
  <2> QED
    BY <1>2, <1>13, <2>1
<1>15. ShapeOK'
  BY <1>1, <1>2, <1>7, <1>12, <1>14 DEF ShapeOK
<1>16. PlaceOK(r)'
  BY <1>9 DEF PlaceOK
<1>17. BufOK(r)'
  BY <1>9, <1>12, WindowStart DEF BufOK
<1>18. GotOK(r)'
  <2>1. \A step : ~Done(r, step, m + 1, 0)'
    BY <1>9 DEF Done
  <2> QED
    BY <1>9, <1>12, <2>1 DEF GotOK
<1>19. \A q \in Ranks : pc[q].n \in Int /\ pc'[q].n \in Int /\ pc'[q].n >= pc[q].n
  <2>1. \A q \in Ranks : pc[q].n \in Int
    BY <1>1, PositionFacts
  <2> QED
    BY <1>3, <1>7, <1>9, <2>1
<1>20. EnteredOK(r)'
  <2>1. \A q \in Ranks : r - Dist(0) < q /\ q < r + Dist(0) => q = r
    BY DistAssumption DEF Ranks
  <2> QED
    BY <1>9, <1>19, <2>1 DEF EnteredOK
<1>21. ASSUME NEW q \in Ranks PROVE LocalOK(q)'
  <2>1. CASE q = r
    BY <1>16, <1>17, <1>18, <1>20, <2>1 DEF LocalOK
  <2>2. CASE q # r
    <3>1. pc'[q] = pc[q] /\ buf'[q] = buf[q] /\ got'[q] = got[q] /\ LocalOK(q)
      BY <1>1, <1>7, <1>12, <2>2
    <3>2. PlaceOK(q)' /\ BufOK(q)' /\ GotOK(q)'
      BY <1>2, <3>1, OthersKeep DEF LocalOK
    <3>3. EnteredOK(q)'
      BY <1>1, <1>2, <1>19, <3>1, EnteredKeeps DEF LocalOK
    <3> QED
      BY <3>2, <3>3 DEF LocalOK
  <2> QED
    BY <2>1, <2>2
<1>22. ResultsAreRight'
  <2> SUFFICES ASSUME NEW q \in Ranks, pc'[q].n > 1
               PROVE  result'[q] = Expected(q, ops[pc'[q].n - 1])
    BY <1>2 DEF ResultsAreRight
  <2>1. CASE q = r
    BY <1>9, <1>14, <2>1
  <2>2. CASE q # r
    BY <1>1, <1>7, <1>14, <2>2 DEF ResultsAreRight
  <2> QED
    BY <2>1, <2>2
<1>23. NobodyLeavesEarly'
  <2> SUFFICES ASSUME NEW a \in Ranks, NEW q \in Ranks, NEW n \in 1..NumOps, pc'[a].n > n,
                      ops[n] \notin {"shift", "scan"}
               PROVE  pc'[q].n >= n
    BY <1>2 DEF NobodyLeavesEarly
  <2>1. SUFFICES pc[q].n >= n
    BY <1>19
  <2>2. CASE pc[a].n > n
    BY <1>1, <2>2 DEF NobodyLeavesEarly
  <2>3. CASE ~(pc[a].n > n)
    <3>1. a = r /\ n = m
      BY <1>3, <1>7, <1>9, <1>19, <2>3
    <3>2. PICK D \in Nat : D = Dist(e) /\ D >= Size
      <4>1. e # 0 => e - 1 \in Rounds(ops[m])
        BY <1>1, <1>3, <1>4 DEF LocalOK, PlaceOK
      <4>2. Dist(e) >= Size
        BY <1>4, <3>1, <4>1, LastRound
      <4> QED
        BY <4>2, Distances
    <3>3. r - D < q /\ q < r + D
      BY <3>2, SizeFacts DEF Ranks
    <3>4. OverAll(Kind(r)) /\ r - Dist(pc[r].d) < q /\ q < r + Dist(pc[r].d)
      BY <1>3, <1>4, <3>1, <3>2, <3>3 DEF OverAll
    <3>5. EnteredOK(r)
      BY <1>1 DEF LocalOK
    <3> QED
      BY <1>2, <1>3, <3>1, <3>4, <3>5 DEF EnteredOK
  <2> QED
    BY <2>2, <2>3
<1>24. RoomsOK'
  <2> SUFFICES ASSUME NEW a \in Ranks, NEW b \in Ranks PROVE RoomOK(a, b)'
    BY DEF RoomsOK
  <2>1. CASE a # r
    BY <1>1, <1>2, <1>7, <2>1, RoomKeeps DEF RoomsOK
  <2>2. CASE a = r
    BY <1>1, <1>2, <1>8, <2>2 DEF RoomsOK, RoomOK
  <2> QED
    BY <2>1, <2>2
<1> QED
  BY <1>11, <1>15, <1>21, <1>22, <1>23, <1>24, InvParts
     DEF CollectInv, LocalOK, ChannelsOK, RoomsOK

LEMMA InitInv == Init => CollectInv
<1> SUFFICES ASSUME Init PROVE CollectInv
  OBVIOUS
<1>1. /\ form \in DOMAIN Cap /\ ops \in [1..NumOps -> Kinds]
      /\ pc = [r \in Ranks |-> Place(1, 0, 1, "none")]
      /\ buf = [r \in Ranks |-> [side \in Sides |-> Only(r)]]
      /\ got = [r \in Ranks |-> [side \in Sides |-> Nothing]]
      /\ chan = [r \in Ranks |-> [q \in Ranks |-> << >>]]
      /\ result = [r \in Ranks |-> Nothing]
  BY DEF Init, Place
<1>2. Place(1, 0, 1, "none") \in Positions
  BY SizeFacts, PlaceFields
<1>3. \A r \in Ranks : pc[r].n = 1 /\ pc[r].d = 0 /\ pc[r].at = 1 /\ pc[r].call = "none"
  BY <1>1, PlaceFields
<1>4. \A r \in Ranks : Only(r) \in Counts
  BY DEF Only, Counts
<1>5. Nothing \in Counts
  BY DEF Nothing, Counts
<1>6. << >> \in Seq(Messages) /\ Len(<< >>) = 0
  OBVIOUS
<1>7. ShapeOK
  BY <1>1, <1>2, <1>4, <1>5, <1>6 DEF ShapeOK
<1>8. ASSUME NEW r \in Ranks PROVE LocalOK(r)
  <2>1. PlaceOK(r)
    BY <1>3 DEF PlaceOK
  <2>2. BufOK(r)
    BY <1>1, <1>3, WindowStart DEF BufOK
  <2>3. \A step : ~Done(r, step, 1, 0)
    BY <1>3 DEF Done
  <2>4. GotOK(r)
    BY <1>1, <1>3, <2>3 DEF GotOK
  <2>5. \A q \in Ranks : pc[q].n >= 1
    BY <1>3
  <2>6. EnteredOK(r)
    BY <1>3, <2>5 DEF EnteredOK
  <2> QED
    BY <2>1, <2>2, <2>4, <2>6 DEF LocalOK
<1>9. \A q \in Ranks, step \in Steps, n \in 1..NumOps, d \in Sizes : ~Done(q, step, n, d)
  BY <1>3 DEF Done, Sizes
<1>10. ChannelsOK
  <2> SUFFICES ASSUME NEW q \in Ranks, NEW side \in Sides, NEW d \in 0..Size, HasPartner(q, side, d)
               PROVE  ChanOK(q, side, d) /\ SentOK(q, side, d)
    BY DEF ChannelsOK
  <2>1. Partner(q, side, d) \in Ranks /\ d \in Sizes
    BY RoundsAreSizes DEF HasPartner
  <2>2. Mail(q, side, d) = {}
    <3>1. \A n \in 1..NumOps : ~Done(q, Send(side), n, d)
      BY <1>9, <2>1, StepFacts
    <3> QED
      BY <3>1 DEF Mail, Pending
  <2>3. chan[q][Partner(q, side, d)] = << >>
    BY <1>1, <2>1
  <2>4. ChanOK(q, side, d)
    BY <1>6, <2>2, <2>3 DEF ChanOK, Lists
  <2>5. SentOK(q, side, d)
    <3>1. \A n \in 1..NumOps : ~Done(Partner(q, side, d), Recv(Other(side)), n, d)
      BY <1>9, <2>1, StepFacts
    <3> QED
      BY <3>1 DEF SentOK
  <2> QED
    BY <2>4, <2>5
<1>11. RoomsOK
  <2> SUFFICES ASSUME NEW r \in Ranks, NEW q \in Ranks PROVE RoomOK(r, q)
    BY DEF RoomsOK
  <2>1. Len(chan[r][q]) = 0
    BY <1>1, <1>6
  <2>2. Cap[form] \in Nat
    BY <1>1, CollectAssumption
  <2> QED
    BY <2>1, <2>2 DEF RoomOK
<1>12. ResultsAreRight /\ NobodyLeavesEarly
  BY <1>3 DEF ResultsAreRight, NobodyLeavesEarly
<1> QED
  BY <1>7, <1>8, <1>10, <1>11, <1>12, InvParts

LEMMA NextInv == CollectInv /\ [Next]_vars => CollectInv'
<1> SUFFICES ASSUME CollectInv, [Next]_vars PROVE CollectInv'
  OBVIOUS
<1>1. CASE UNCHANGED vars
  <2>1. /\ form' = form /\ ops' = ops /\ pc' = pc /\ buf' = buf /\ got' = got /\ chan' = chan
        /\ result' = result
    BY <1>1 DEF vars
  <2>2. /\ ShapeOK /\ (\A q \in Ranks : LocalOK(q)) /\ ChannelsOK /\ RoomsOK
        /\ ResultsAreRight /\ NobodyLeavesEarly
    BY InvParts
  <2>3. ShapeOK' /\ ResultsAreRight' /\ NobodyLeavesEarly'
    BY <2>1, <2>2 DEF ShapeOK, ResultsAreRight, NobodyLeavesEarly
  <2>4. ASSUME NEW q \in Ranks PROVE LocalOK(q)'
    <3>1. PlaceOK(q)' /\ BufOK(q)' /\ GotOK(q)'
      BY <2>1, <2>2, OthersKeep DEF LocalOK
    <3>2. EnteredOK(q)'
      BY <2>1, <2>2 DEF LocalOK, EnteredOK, Finished, Kind
    <3> QED
      BY <3>1, <3>2 DEF LocalOK
  <2>5. SameDone
    BY <2>1 DEF SameDone, Done
  <2>6. ChannelsOK'
    BY <2>1, <2>2, <2>5, QuietChannels
  <2>7. RoomsOK'
    BY <2>1, <2>2, RoomKeeps DEF RoomsOK
  <2> QED
    BY <2>3, <2>4, <2>6, <2>7 DEF CollectInv, LocalOK, ChannelsOK, RoomsOK
<1>2. ASSUME NEW r \in Ranks, Progress(r) PROVE CollectInv'
  BY <1>2, WriteStep, ReturnsStep, ReadStep, MergeStep, ReturnStep DEF Progress
<1> QED
  BY <1>1, <1>2 DEF Next

-----------------------------------------------------------------------------
(* Theorems.                                                               *)

\* Everywhere in every operation: a member's values hold the inputs of the members
\* within the distance it has reached, the channels hold what has been sent and
\* not read, and whoever a member has heard of is in its operation.
THEOREM CollectInvariant == Spec => []CollectInv
  BY InitInv, NextInv, PTL DEF Spec

\* lwgrp_barrier to lwgrp_allgather_strmap: every operation returns the right value
\* to every member, for every size of the group, whatever operations come before.
THEOREM CollectivesAreRight == Spec => []ResultsAreRight
<1>1. CollectInv => ResultsAreRight
  BY DEF CollectInv
<1> QED
  BY <1>1, CollectInvariant, PTL

\* lwgrp_barrier, and the other operations over all members: nobody leaves before
\* everybody is in it.
THEOREM NobodyLeaves == Spec => []NobodyLeavesEarly
<1>1. CollectInv => NobodyLeavesEarly
  BY DEF CollectInv
<1> QED
  BY <1>1, CollectInvariant, PTL

LEMMA InvType == CollectInv => TypeOK
<1> SUFFICES ASSUME CollectInv PROVE TypeOK
  OBVIOUS
<1>1. ShapeOK /\ (\A r \in Ranks : LocalOK(r)) /\ RoomsOK
  BY InvParts
<1>2. ASSUME NEW r \in Ranks
      PROVE  /\ pc[r].n \in 1..(NumOps + 1) /\ Dist(pc[r].d) < 2 * Size /\ pc[r].at \in 1..5
             /\ buf[r].left \in Counts /\ buf[r].right \in Counts /\ result[r] \in Counts
  <2>1. pc[r].n \in 1..(NumOps + 1) /\ pc[r].at \in 1..5
    BY <1>1, PositionFacts
  <2>2. buf[r].left \in Counts /\ buf[r].right \in Counts /\ result[r] \in Counts
    BY <1>1 DEF ShapeOK, Sides
  <2>3. PICK d \in Sizes : d = pc[r].d
    BY <1>1, PositionFacts
  <2>4. Dist(d) < 2 * Size
    <3>1. CASE d = 0
      BY <3>1, SizeFacts, DistAssumption
    <3>2. CASE d # 0
      <4>1. PICK kind : kind = Kind(r) /\ d - 1 \in Rounds(kind)
        BY <1>1, <2>3, <3>2 DEF LocalOK, PlaceOK
      <4>2. PICK e \in Rounds(kind) : e = d - 1 /\ e + 1 = d /\ e \in Sizes
        BY <3>2, <4>1, RoundFacts DEF Sizes
      <4>3. Dist(d) = 2 * Dist(e) /\ Dist(e) \in Nat
        BY <4>2, RoundFacts, Distances
      <4>4. Dist(e) < Size
        <5>1. CASE kind = "shift"
          BY <4>2, <5>1, RoundFacts, DistAssumption
        <5>2. CASE kind # "shift"
          BY <4>2, <5>2, RoundFacts
        <5> QED
          BY <5>1, <5>2
      <4> QED
        BY <4>3, <4>4, SizeFacts
    <3> QED
      BY <3>1, <3>2
  <2> QED
    BY <2>1, <2>2, <2>3, <2>4
<1>3. \A r, q \in Ranks : Len(chan[r][q]) <= Cap[form] + 1
  BY <1>1 DEF RoomsOK, RoomOK
<1> QED
  BY <1>2, <1>3 DEF TypeOK

\* Every lwgrp operation: the message a member reads is the one its partner has sent
\* in the same round of the same operation, however far the partner has gone ahead,
\* and no direction of a channel holds more than the transport's room and the
\* message being written.
THEOREM MessagesNeverMix == Spec => []NoMixing
<1>1. CollectInv => NoMixing
  <2> SUFFICES ASSUME CollectInv, NEW r \in Ranks, NEW i \in 1..4, Now(r, i, "recv"),
                      chan[To(r, i)][r] # << >>
               PROVE  Head(chan[To(r, i)][r]).n = pc[r].n /\ Head(chan[To(r, i)][r]).d = pc[r].d
    BY InvType DEF NoMixing
  <2>1. ShapeOK /\ ChannelsOK
    BY InvParts
  <2>2. PICK did \in Steps : did = Step(r, i) /\ did.do = "recv"
    BY <2>1, NowIs, Zenon
  <2>3. PICK m \in 1..NumOps : m = pc[r].n
    BY <2>1, NowIs
  <2>4. PICK e \in 0..Size : e = pc[r].d
    BY <2>1, NowIs
  <2>5. PICK s \in Sides : did = Recv(s) /\ did.side = s
    BY <2>2, StepFacts
  <2>6. Due(r, Recv(s), m, e) /\ ~Done(r, Recv(s), m, e)
    BY <2>1, <2>2, <2>3, <2>4, <2>5, NowIs
  <2>7. PICK p : p = Partner(r, s, e) /\ p = To(r, i)
    BY <2>2, <2>4, <2>5 DEF To
  <2>8. Head(chan[p][r]) = Message(p, Other(s), e, m)
    <3>1. chan[p][r] # << >>
      BY <2>7
    <3>2. CanRead(r, s, m, e, p)
      BY ONLY <2>1, <2>3, <2>6, <2>7, <3>1, r \in Ranks, s \in Sides, e \in 0..Size DEF CanRead
    <3>3. ReadsOwn(r, s, m, e, p)
      BY ONLY <3>2, HeadIs
    <3> QED
      BY ONLY <3>3 DEF ReadsOwn
  <2> QED
    BY <2>3, <2>4, <2>7, <2>8 DEF Message
<1> QED
  BY <1>1, CollectInvariant, PTL
============================================================================
