---------------------------- MODULE LwgrpCollect ----------------------------
(***************************************************************************)
(* The collective operations of a group (lwgrp.c: lwgrp_barrier,           *)
(* lwgrp_shift, lwgrp_allreduce_uint64_sum and _max, lwgrp_scan_uint64_sum,*)
(* lwgrp_double_scan_uint64_sum, lwgrp_allgather_strmap), each in the form *)
(* the interface offers, which sends before it reads, and in the           *)
(* _blocking form, in which neighbours take turns.  The members run a      *)
(* sequence of operations over the channels that LwgrpConnect builds: in   *)
(* round d to the members 2^d to the left and right.                       *)
(*                                                                         *)
(* Data: what counts is whose input a value holds, and how often.  A sum   *)
(* is the count of each member's input in it; a maximum, a gathered map    *)
(* and the byte of a barrier are counts that a merge does not add up.      *)
(***************************************************************************)
EXTENDS Integers, Sequences

CONSTANTS
    Size,       \* members of the group
    Kinds,      \* the operations members may call
    NumOps,     \* how many they call, all in the same order
    Cap         \* Cap[form]: messages the transport holds per direction of a
                \* channel before a write waits for the reader, for the forms
                \* of the operations ("eager", "blocking") that are considered

ASSUME CollectAssumption ==
    /\ Size \in Nat \ {0} /\ NumOps \in Nat \ {0}
    /\ DOMAIN Cap \subseteq {"eager", "blocking"} /\ \A f \in DOMAIN Cap : Cap[f] \in Nat
    /\ Kinds \subseteq {"barrier", "shift", "sum", "max", "scan", "gather"}

Ranks == 0..(Size - 1)
Counts == [Ranks -> Nat]
Only(r) == [q \in Ranks |-> IF q = r THEN 1 ELSE 0]
Nothing == [q \in Ranks |-> 0]
Sides == {"left", "right"}

VARIABLES
    form,   \* the form in which the operations are called
    ops,    \* ops[n]: the n-th operation
    pc,     \* pc[r]: operation, round and next step of r; whether the write
            \* before it has yet to return
    buf,    \* buf[r]: the value r sends to the left and to the right
    got,    \* got[r]: the value r has last read from the left and the right
    chan,   \* chan[r][q]: messages from r that q has not read
    result  \* result[r]: what r's last operation returned

vars == <<form, ops, pc, buf, got, chan, result>>

\* The distance starts at 1 and doubles with every round.
Dist(d) == 2^d

\* What is used of 2^d: how it starts and goes on.
ASSUME DistAssumption == Dist(0) = 1 /\ \A d \in 0..(Size + 1) : Dist(d + 1) = 2 * Dist(d)

\* Faulty variant: the last round is missing.
Rounds_Short(kind) ==
    IF kind = "shift" THEN 0..(IF Size > 1 THEN 0 ELSE -1)
    ELSE {d \in 0..Size : 2 * Dist(d) < Size}

\* lwgrp_shift is one exchange with the nearest members; the others double the
\* distance until it reaches the size.
Rounds(kind) ==
    IF kind = "shift" THEN 0..(IF Size > 1 THEN 0 ELSE -1)
    ELSE {d \in 0..Size : Dist(d) < Size}

Partner(r, side, d) == IF side = "left" THEN r - Dist(d) ELSE r + Dist(d)
HasPartner(r, side, d) == Partner(r, side, d) \in Ranks
IsOdd(r, d) == (r \div Dist(d)) % 2 = 1

Send(side) == [do |-> "send", side |-> side]
Recv(side) == [do |-> "recv", side |-> side]

\* The interface's forms send to both sides and then read from both.
EagerExchange == <<Send("left"), Send("right"), Recv("left"), Recv("right")>>

\* Faulty variant: every member reads before it sends.
BlockingExchange_ReadFirst(r, d) ==
    <<Recv("left"), Send("left"), Recv("right"), Send("right")>>

\* In the _blocking forms a member that is odd in the round answers its left
\* partner first, an even one turns to its right partner first.
BlockingExchange(r, d) ==
    IF IsOdd(r, d)
    THEN <<Recv("left"), Send("left"), Send("right"), Recv("right")>>
    ELSE <<Send("right"), Recv("right"), Recv("left"), Send("left")>>

\* The order of the four writes and reads of a round.
Exchange(f, r, d) == IF f = "blocking" THEN BlockingExchange(r, d) ELSE EagerExchange

\* Faulty variant: a prefix sum is sent to both sides.
Moves_BothWays(kind, step) == kind = "scan" => step # Recv("right")

\* A prefix sum only moves to the right.
Moves(kind, step) == kind = "scan" => step \in {Send("right"), Recv("left")}

Init ==
    /\ form \in DOMAIN Cap
    /\ ops \in [1..NumOps -> Kinds]
    /\ pc = [r \in Ranks |-> [n |-> 1, d |-> 0, at |-> 1, call |-> "none"]]
    /\ buf = [r \in Ranks |-> [side \in Sides |-> Only(r)]]
    /\ got = [r \in Ranks |-> [side \in Sides |-> Nothing]]
    /\ chan = [r \in Ranks |-> [q \in Ranks |-> << >>]]
    /\ result = [r \in Ranks |-> Nothing]

Finished(r) == pc[r].n > NumOps
Kind(r) == ops[pc[r].n]
InRound(r) == ~Finished(r) /\ pc[r].d \in Rounds(Kind(r))

\* The i-th step of the round is made if there is a partner for it, and
\* otherwise skipped.
Step(r, i) == Exchange(form, r, pc[r].d)[i]
Takes(r, i) == HasPartner(r, Step(r, i).side, pc[r].d) /\ Moves(Kind(r), Step(r, i))
To(r, i) == Partner(r, Step(r, i).side, pc[r].d)

\* r is about to make step i, a send or a recv.
Now(r, i, do) ==
    /\ InRound(r) /\ pc[r].call = "none"
    /\ i \in pc[r].at..4 /\ Takes(r, i) /\ Step(r, i).do = do
    /\ \A j \in pc[r].at..(i - 1) : ~Takes(r, j)

\* spawn_net_write puts the message into the transport ...
Write(r) ==
    \E i \in 1..4 :
        /\ Now(r, i, "send")
        /\ chan' = [chan EXCEPT ![r][To(r, i)] =
                       Append(@, [n |-> pc[r].n, d |-> pc[r].d,
                                  data |-> buf[r][Step(r, i).side]])]
        /\ pc' = [pc EXCEPT ![r].at = i + 1, ![r].call = "write"]
        /\ UNCHANGED <<form, ops, buf, got, result>>

\* ... and returns when there is room for it.
WriteReturns(r) ==
    /\ pc[r].call = "write"
    /\ Len(chan[r][To(r, pc[r].at - 1)]) <= Cap[form]
    /\ pc' = [pc EXCEPT ![r].call = "none"]
    /\ UNCHANGED <<form, ops, buf, got, chan, result>>

Read(r) ==
    \E i \in 1..4 :
        /\ Now(r, i, "recv")
        /\ LET q == To(r, i)
           IN  /\ chan[q][r] # << >>
               /\ got' = [got EXCEPT ![r][Step(r, i).side] = Head(chan[q][r]).data]
               /\ chan' = [chan EXCEPT ![q][r] = Tail(@)]
        /\ pc' = [pc EXCEPT ![r].at = i + 1]
        /\ UNCHANGED <<form, ops, buf, result>>

Add(a, b) == [q \in Ranks |-> a[q] + b[q]]
Union(a, b) == [q \in Ranks |-> IF a[q] > b[q] THEN a[q] ELSE b[q]]

\* A member without a partner on that side merges nothing.
Received(r, side) == IF HasPartner(r, side, pc[r].d) THEN got[r][side] ELSE Nothing

\* One value that takes what came from both sides.
Everything(r) ==
    LET all == Union(buf[r].left, Union(Received(r, "left"), Received(r, "right")))
    IN  [left |-> all, right |-> all]

\* lwgrp_double_scan_uint64_sum: the sum sent to the right takes what came from
\* the left, and the other way round.
DoubleScanMerged(r) ==
    [left |-> Add(buf[r].left, Received(r, "right")),
     right |-> Add(buf[r].right, Received(r, "left"))]

\* lwgrp_scan_uint64_sum.
ScanMerged(r) == [buf[r] EXCEPT !.right = Add(@, Received(r, "left"))]

\* lwgrp_allreduce_uint64_max.
MaxMerged(r) == Everything(r)

\* lwgrp_allgather_strmap, for members with keys of their own: strmap_merge of
\* the map from the left, then of the one from the right.
MapMerged(r) == Everything(r)

\* lwgrp_barrier: the byte that comes replaces the byte that is sent; what it
\* tells is that its sender, and all the sender has heard of, have entered.
BarrierMerged(r) == Everything(r)

Merged(r) ==
    CASE Kind(r) = "shift" -> buf[r]
      [] Kind(r) = "sum" -> DoubleScanMerged(r)
      [] Kind(r) = "scan" -> ScanMerged(r)
      [] Kind(r) = "max" -> MaxMerged(r)
      [] Kind(r) = "gather" -> MapMerged(r)
      [] Kind(r) = "barrier" -> BarrierMerged(r)

Merge(r) ==
    /\ InRound(r) /\ pc[r].call = "none" /\ \A i \in pc[r].at..4 : ~Takes(r, i)
    /\ buf' = [buf EXCEPT ![r] = Merged(r)]
    /\ pc' = [pc EXCEPT ![r].d = @ + 1, ![r].at = 1]
    /\ UNCHANGED <<form, ops, got, chan, result>>

Subtract(a, b) == [q \in Ranks |-> a[q] - b[q]]

\* Faulty variant: a member's own input is counted on both sides.
AllreduceSum_OwnTwice(r) == Add(buf[r].left, buf[r].right)

\* lwgrp_allreduce_uint64_sum: the two scans, without our own input in one.
AllreduceSum(r) == Subtract(Add(buf[r].left, buf[r].right), Only(r))

\* What the operation returns to its caller.
Outcome(r) ==
    CASE Kind(r) = "shift" -> Add(got[r].left, got[r].right)
      [] Kind(r) = "sum" -> AllreduceSum(r)
      [] OTHER -> buf[r].right

Return(r) ==
    /\ ~Finished(r) /\ pc[r].d \notin Rounds(Kind(r))
    /\ result' = [result EXCEPT ![r] = Outcome(r)]
    /\ pc' = [pc EXCEPT ![r].n = @ + 1, ![r].d = 0, ![r].at = 1]
    /\ buf' = [buf EXCEPT ![r] = [side \in Sides |-> Only(r)]]
    /\ got' = [got EXCEPT ![r] = [side \in Sides |-> Nothing]]
    /\ UNCHANGED <<form, ops, chan>>

Progress(r) == Write(r) \/ WriteReturns(r) \/ Read(r) \/ Merge(r) \/ Return(r)

Next == \E r \in Ranks : Progress(r)

Spec == Init /\ [][Next]_vars

\* As long as some member can go on, one does.
FairSpec == Spec /\ WF_vars(Next)

-----------------------------------------------------------------------------
(* Properties.                                                             *)

\* Type invariant: every member is in an operation of the sequence or behind its
\* end, values count inputs, and no channel direction holds more than one
\* message more than the transport's room.
TypeOK ==
    /\ \A r \in Ranks :
          /\ pc[r].n \in 1..(NumOps + 1) /\ Dist(pc[r].d) < 2 * Size /\ pc[r].at \in 1..5
          /\ buf[r].left \in Counts /\ buf[r].right \in Counts
          /\ result[r] \in Counts
    /\ \A r, q \in Ranks : Len(chan[r][q]) <= Cap[form] + 1

\* The result of an operation for r: the sum over all members counts every input
\* once, a scan those up to r, a shift the two next to r, and a maximum or a
\* gathered map holds every input.
Expected(r, kind) ==
    [q \in Ranks |->
       IF CASE kind = "scan" -> q <= r
            [] kind = "shift" -> q \in {r - 1, r + 1}
            [] OTHER -> TRUE
       THEN 1 ELSE 0]

\* Every operation returns the right value to every member, for every size
\* (powers of two or not) and whatever operations come before it.
ResultsAreRight ==
    \A r \in Ranks : pc[r].n > 1 => result[r] = Expected(r, ops[pc[r].n - 1])

\* Nobody leaves a barrier, or another operation over all members, before
\* everybody is in it.
NobodyLeavesEarly ==
    \A r, q \in Ranks :
        \A n \in 1..NumOps :
            (pc[r].n > n /\ ops[n] \notin {"shift", "scan"}) => pc[q].n >= n

\* A member that runs ahead does not have its messages taken for those of the
\* operation or round that its neighbour is still in, and no more rounds are
\* made than the size needs (TypeOK).
NoMixing ==
    /\ TypeOK
    /\ \A r \in Ranks, i \in 1..4 : Now(r, i, "recv") =>
           LET q == To(r, i)
           IN  chan[q][r] # << >> =>
                  Head(chan[q][r]).n = pc[r].n /\ Head(chan[q][r]).d = pc[r].d

\* The operations end for every member: in the _blocking forms nobody waits in a
\* circle although every write waits for its reader.
OperationsEnd == <>(\A r \in Ranks : Finished(r))

-----------------------------------------------------------------------------
(* The inductive invariant behind these properties.                        *)

Other(side) == IF side = "left" THEN "right" ELSE "left"

\* r makes this step in round d of operation n, and has made it.
Due(r, step, n, d) ==
    /\ n \in 1..NumOps /\ d \in Rounds(ops[n])
    /\ HasPartner(r, step.side, d) /\ Moves(ops[n], step)
Done(r, step, n, d) ==
    \/ pc[r].n > n
    \/ pc[r].n = n /\ pc[r].d > d
    \/ /\ pc[r].n = n /\ pc[r].d = d
       /\ \E i \in 1..(pc[r].at - 1) : Exchange(form, r, d)[i] = step

\* Whose inputs are in the value that r sends to a side after d rounds.
OverAll(kind) == kind \notin {"shift", "scan"}
FromLeft(kind, side) == kind # "shift" /\ (kind \in {"sum", "scan"} => side = "right")
FromRight(kind, side) == OverAll(kind) /\ (kind = "sum" => side = "left")
Covers(r, kind, side, d, q) ==
    \/ q = r
    \/ FromLeft(kind, side) /\ r - Dist(d) < q /\ q < r
    \/ FromRight(kind, side) /\ r < q /\ q < r + Dist(d)
Window(r, kind, side, d) == [q \in Ranks |-> IF Covers(r, kind, side, d, q) THEN 1 ELSE 0]

\* Where in an operation a member can be.
Positions == [n : 1..(NumOps + 1), d : 0..(Size + 1), at : 1..5, call : {"none", "write"}]
PlaceOK(r) ==
    /\ pc[r].d # 0 => ~Finished(r) /\ pc[r].d - 1 \in Rounds(Kind(r))
    /\ ~InRound(r) => pc[r].at = 1 /\ pc[r].call = "none"
    /\ pc[r].call = "write" => pc[r].at > 1 /\ Takes(r, pc[r].at - 1)

\* What a member sends, and what it has received.
BufOK(r) ==
    \A side \in Sides :
        buf[r][side] = IF Finished(r) THEN Only(r) ELSE Window(r, Kind(r), side, pc[r].d)

GotOK(r) ==
    \A side \in Sides :
        LET got_it(d) == Due(r, Recv(side), pc[r].n, d) /\ Done(r, Recv(side), pc[r].n, d)
            sent(d) == Window(Partner(r, side, d), Kind(r), Other(side), d)
        IN  /\ got_it(pc[r].d) => got[r][side] = sent(pc[r].d)
            /\ ~Finished(r) /\ Kind(r) = "shift" =>
                  got[r][side] = IF got_it(0) THEN sent(0) ELSE Nothing

\* The messages from q to its partner are those that q has sent and the partner
\* has not read, in the order of the operations.
Messages == [n : 1..NumOps, d : 0..Size, data : Counts]
Message(q, side, d, n) == [n |-> n, d |-> d, data |-> Window(q, ops[n], side, d)]
Pending(q, side, d, n) ==
    /\ Due(q, Send(side), n, d) /\ Done(q, Send(side), n, d)
    /\ ~Done(Partner(q, side, d), Recv(Other(side)), n, d)
Mail(q, side, d) ==
    {Message(q, side, d, n) : n \in {m \in 1..NumOps : Pending(q, side, d, m)}}
Lists(c, M) ==
    /\ \A k \in 1..Len(c) : c[k] \in M
    /\ \A m \in M : \E k \in 1..Len(c) : c[k] = m
    /\ \A k, l \in 1..Len(c) : k < l => c[k].n < c[l].n
ChanOK(q, side, d) == Lists(chan[q][Partner(q, side, d)], Mail(q, side, d))

\* What was read was sent.
SentOK(q, side, d) ==
    \A n \in 1..NumOps :
        Due(q, Send(side), n, d) /\ Done(Partner(q, side, d), Recv(Other(side)), n, d)
            => Done(q, Send(side), n, d)

\* Only the message being written may exceed the transport's room.
RoomOK(r, q) ==
    /\ Len(chan[r][q]) <= Cap[form] + 1
    /\ Len(chan[r][q]) > Cap[form] => pc[r].call = "write" /\ To(r, pc[r].at - 1) = q

\* Those whom r has heard of are in r's operation.
EnteredOK(r) ==
    ~Finished(r) /\ OverAll(Kind(r)) =>
        \A q \in Ranks : r - Dist(pc[r].d) < q /\ q < r + Dist(pc[r].d) => pc[q].n >= pc[r].n

\* What the variables range over.
ShapeOK ==
    /\ form \in DOMAIN Cap /\ ops \in [1..NumOps -> Kinds]
    /\ pc \in [Ranks -> Positions]
    /\ buf \in [Ranks -> [Sides -> Counts]] /\ got \in [Ranks -> [Sides -> Counts]]
    /\ chan \in [Ranks -> [Ranks -> Seq(Messages)]] /\ result \in [Ranks -> Counts]

\* All of it together, which every step of every member keeps: what a member holds
\* and reads is right because the channels are, and these because what was sent is.
CollectInv ==
    /\ ShapeOK
    /\ \A r \in Ranks : PlaceOK(r) /\ BufOK(r) /\ GotOK(r) /\ EnteredOK(r)
    /\ \A q \in Ranks, side \in Sides, d \in 0..Size :
          HasPartner(q, side, d) => ChanOK(q, side, d) /\ SentOK(q, side, d)
    /\ \A r, q \in Ranks : RoomOK(r, q)
    /\ ResultsAreRight /\ NobodyLeavesEarly
=============================================================================
