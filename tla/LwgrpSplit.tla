----------------------------- MODULE LwgrpSplit -----------------------------
(***************************************************************************)
(* Splitting a group (lwgrp.c: lwgrp_split, lwgrp_split_str,               *)
(* lwgrp_sort_bitonic, lwgrp_split_sorted).  The members sort their        *)
(* (color, key, rank) items with a bitonic sort, so that member i holds    *)
(* the i-th smallest; each compares its item with those next to it to find *)
(* where a color begins and ends; a segmented scan in both directions      *)
(* counts the items of the color on either side; and a second sort takes   *)
(* the answers back to the members the items came from.                    *)
(*                                                                         *)
(* The members run a straight-line program of exchanges, each with the     *)
(* member 2^d away on one or both sides over the channels LwgrpConnect     *)
(* builds; writes do not block.  Strings (lwgrp_split_str) are colors with *)
(* one key for all.                                                        *)
(***************************************************************************)
EXTENDS Integers, Sequences, FiniteSets, SequencesExt, FiniteSetsExt

CONSTANTS
    Size,       \* members of the group
    Colors,     \* colors a member may give
    Keys        \* Keys[r]: keys member r may give

ASSUME SplitAssumption ==
    /\ Size \in Nat \ {0} /\ Colors \subseteq Int
    /\ Keys \in [0..(Size - 1) -> SUBSET Int]

Ranks == 0..(Size - 1)
AllKeys == UNION {Keys[r] : r \in Ranks}
Items == Colors \X AllKeys \X Ranks
Dist(d) == 2^d
Partner(r, side, d) == IF side = "left" THEN r - Dist(d) ELSE r + Dist(d)

\* cmp_three_ints: by color, then key, then rank.
Less(a, b) ==
    \/ a[1] < b[1]
    \/ a[1] = b[1] /\ a[2] < b[2]
    \/ a[1] = b[1] /\ a[2] = b[2] /\ a[3] < b[3]

-----------------------------------------------------------------------------
(* The program of a member.                                                *)

\* The largest power of two below num, for num > 1.
HalfCleanRound(num) == CHOOSE d \in 0..num : Dist(d) < num /\ Dist(d + 1) >= num

CompareExchange(side, d, small) == [do |-> "sort", sides |-> {side}, d |-> d, small |-> small]

\* lwgrp_sort_bitonic_merge: exchange with the partner in the other half, the
\* lower half keeps the smaller item when the order is ascending; then merge
\* our half.
RECURSIVE MergeSteps(_, _, _, _)
MergeSteps(r, start, num, ascending) ==
    IF num <= 1 THEN << >>
    ELSE LET d == HalfCleanRound(num)
             count == Dist(d)
         IN  IF r < start + count
             THEN (IF r + count < start + num
                   THEN <<CompareExchange("right", d, ascending)>> ELSE << >>)
                  \o MergeSteps(r, start, count, ascending)
             ELSE (IF r - count >= start
                   THEN <<CompareExchange("left", d, ~ascending)>> ELSE << >>)
                  \o MergeSteps(r, start + count, num - count, ascending)

\* The lower half is sorted the other way round.
LowerHalf(ascending) == ~ascending

\* lwgrp_sort_bitonic_sort: sort our half, then merge.
RECURSIVE SortSteps(_, _, _, _)
SortSteps(r, start, num, ascending) ==
    IF num <= 1 THEN << >>
    ELSE LET mid == num \div 2
         IN  (IF r < start + mid
              THEN SortSteps(r, start, mid, LowerHalf(ascending))
              ELSE SortSteps(r, start + mid, num - mid, ascending))
             \o MergeSteps(r, start, num, ascending)

Sides(r, d) == {side \in {"left", "right"} : Partner(r, side, d) \in Ranks}
Step(do, r, d) == [do |-> do, sides |-> Sides(r, d), d |-> d]

ScanRounds == Cardinality({d \in 0..Size : Dist(d) < Size})

\* lwgrp_split: sort, then lwgrp_split_sorted: find the edges, scan, note the
\* answer, sort it back.
Program == [r \in Ranks |->
    LET sort == SortSteps(r, 0, Size, TRUE)
    IN  sort \o <<Step("edges", r, 0)>>
             \o [k \in 1..ScanRounds |-> Step("scan", r, k - 1)]
             \o <<[do |-> "answer", sides |-> {}, d |-> 0]>>
             \o [k \in 1..Len(sort) |-> [sort[k] EXCEPT !.do = "back"]]]

-----------------------------------------------------------------------------
VARIABLES
    input,      \* input[r]: color and key of member r
    pc,         \* pc[r]: place in the program, and whether its writes are done
    item,       \* item[r]: the item r holds
    scan,       \* scan[r]: what r's scans send to the left and to the right
    chain,      \* chain[r]: the answer r holds
    chan        \* chan[r][q]: messages from r that q has not read

vars == <<input, pc, item, scan, chain, chan>>

NoName == -1
NoScan == [color |-> 0, flag |-> FALSE, count |-> 1]
NoAnswer == [src |-> 0, rank |-> 0, size |-> 0, id |-> 0, count |-> 0,
             left |-> NoName, right |-> NoName]

Init ==
    /\ input \in {f \in [Ranks -> Colors \X AllKeys] : \A r \in Ranks : f[r][2] \in Keys[r]}
    /\ pc = [r \in Ranks |-> [at |-> 1, sent |-> FALSE]]
    /\ item = [r \in Ranks |-> <<input[r][1], input[r][2], r>>]
    /\ scan = [r \in Ranks |-> [left |-> NoScan, right |-> NoScan]]
    /\ chain = [r \in Ranks |-> NoAnswer]
    /\ chan = [r \in Ranks |-> [q \in Ranks |-> << >>]]

Finished(r) == pc[r].at > Len(Program[r])
Here(r) == Program[r][pc[r].at]
At(r, do) == ~Finished(r) /\ Here(r).do = do

\* What an exchange sends to a side.
Outgoing(r, side) ==
    CASE Here(r).do \in {"sort", "edges"} -> item[r]
      [] Here(r).do = "scan" -> scan[r][side]
      [] Here(r).do = "back" -> chain[r]

\* The writes of an exchange.
Write(r) ==
    /\ ~Finished(r) /\ ~pc[r].sent
    /\ chan' = [chan EXCEPT ![r] = [q \in Ranks |->
          LET to == {side \in Here(r).sides : Partner(r, side, Here(r).d) = q}
          IN  IF to = {} THEN @[q]
              ELSE Append(@[q], Outgoing(r, CHOOSE side \in to : TRUE))]]
    /\ pc' = [pc EXCEPT ![r].sent = TRUE]
    /\ UNCHANGED <<input, item, scan, chain>>

\* The reads of an exchange wait for the messages of all its partners.
Arrived(r) ==
    /\ pc[r].sent
    /\ \A side \in Here(r).sides : chan[Partner(r, side, Here(r).d)][r] # << >>
In(r, side) == Head(chan[Partner(r, side, Here(r).d)][r])
Only(r) == CHOOSE side \in Here(r).sides : TRUE

Taken(r) ==
    /\ chan' = [q \in Ranks |->
          IF \E side \in Here(r).sides : Partner(r, side, Here(r).d) = q
          THEN [chan[q] EXCEPT ![r] = Tail(@)] ELSE chan[q]]
    /\ pc' = [pc EXCEPT ![r].at = @ + 1, ![r].sent = FALSE]

\* A step of the sort: keep the smaller or the greater of the two items.
Keeps(a, b, less, small) == IF less = small THEN a ELSE b

Sort(r) ==
    /\ At(r, "sort") /\ Arrived(r)
    /\ LET new == In(r, Only(r))
       IN  item' = [item EXCEPT ![r] = Keeps(new, @, Less(new, @), Here(r).small)]
    /\ Taken(r)
    /\ UNCHANGED <<input, scan, chain>>

\* The item begins or ends a color; the names of the processes next to it.
FindEdges(r) ==
    /\ At(r, "edges") /\ Arrived(r)
    /\ LET edge(side) == side \in Here(r).sides => In(r, side)[1] # item[r][1]
           name(side) == IF side \in Here(r).sides THEN In(r, side)[3] ELSE NoName
           start(side) == [color |-> IF edge(side) THEN 1 ELSE 0,
                           flag |-> edge(side), count |-> 1]
       IN  /\ scan' = [scan EXCEPT ![r] = [left |-> start("right"), right |-> start("left")]]
           /\ chain' = [chain EXCEPT ![r].src = item[r][3],
                                     ![r].left = name("left"), ![r].right = name("right")]
    /\ Taken(r)
    /\ UNCHANGED <<input, item>>

\* Faulty variant: the flag that stops the count is not handed on.
Accumulate_KeepsFlag(own, new) ==
    [own EXCEPT !.color = @ + new.color,
                !.count = IF own.flag THEN @ ELSE @ + new.count]

\* One step of a segmented scan.
Accumulate(own, new) ==
    [color |-> own.color + new.color,
     flag |-> own.flag \/ new.flag,
     count |-> IF own.flag THEN own.count ELSE own.count + new.count]

ScanRound(r) ==
    /\ At(r, "scan") /\ Arrived(r)
    /\ scan' = [scan EXCEPT
          ![r].right = IF "left" \in Here(r).sides THEN Accumulate(@, In(r, "left")) ELSE @,
          ![r].left = IF "right" \in Here(r).sides THEN Accumulate(@, In(r, "right")) ELSE @]
    /\ Taken(r)
    /\ UNCHANGED <<input, item, chain>>

GroupSize(r) == scan[r].right.count + scan[r].left.count - 1

\* Rank, size, and the number of the color and of all colors.
Answer(r) ==
    /\ At(r, "answer") /\ pc[r].sent
    /\ chain' = [chain EXCEPT
          ![r].rank = scan[r].right.count - 1,
          ![r].size = GroupSize(r),
          ![r].id = scan[r].right.color - 1,
          ![r].count = scan[r].right.color + scan[r].left.color - 1]
    /\ Taken(r)
    /\ UNCHANGED <<input, item, scan>>

\* The second sort, by the member the item came from (cmp_int).
SortBack(r) ==
    /\ At(r, "back") /\ Arrived(r)
    /\ LET new == In(r, Only(r))
       IN  chain' = [chain EXCEPT ![r] = Keeps(new, @, new.src < @.src, Here(r).small)]
    /\ Taken(r)
    /\ UNCHANGED <<input, item, scan>>

\* Every member has its answer and goes on to lwgrp_create.
AllFinished == (\A r \in Ranks : Finished(r)) /\ UNCHANGED vars

Next ==
    \/ \E r \in Ranks : \/ Write(r) \/ Sort(r) \/ FindEdges(r)
                        \/ ScanRound(r) \/ Answer(r) \/ SortBack(r)
    \/ AllFinished

Spec == Init /\ [][Next]_vars

-----------------------------------------------------------------------------
(* Properties.                                                             *)

\* The arguments of lwgrp_create: left and right count only where the new group
\* has a member on that side.
NewLeft(r) == IF chain[r].rank > 0 THEN chain[r].left ELSE NoName
NewRight(r) == IF chain[r].rank < chain[r].size - 1 THEN chain[r].right ELSE NoName

\* Type invariant: members hold items, and counts stay within the group.
TypeOK ==
    \A r \in Ranks :
        /\ item[r] \in Items
        /\ scan[r].left.count \in 1..Size /\ scan[r].right.count \in 1..Size
        /\ scan[r].left.color \in 0..Size /\ scan[r].right.color \in 0..Size
        /\ chain[r].src \in Ranks /\ chain[r].rank \in Ranks /\ chain[r].size \in 0..Size

\* "if rank_i < rank_j, item_i < item_j for all i and j": after the sort the
\* items of the members are in order, for any size; items differ by their rank,
\* so none is lost or held twice.
Sorted ==
    \A r, q \in Ranks :
        (r < q /\ \A x \in {r, q} : pc[x].at > Len(SelectSeq(Program[x], LAMBDA s : s.do = "sort")))
            => Less(item[r], item[q])

\* "split a group into groups consisting of all procs with the same color, order
\* by key and rank in comm": every member learns its rank and the size of its new
\* group, the processes next to it, and the number of its color; on the way
\* there the bitonic network has sorted the items.
SplitIsRight ==
    /\ TypeOK
    /\ Sorted
    /\ \A r \in Ranks : Finished(r) =>
           LET me == <<input[r][1], input[r][2], r>>
               own(q) == <<input[q][1], input[q][2], q>>
               group == {q \in Ranks : input[q][1] = input[r][1]}
               before == {q \in group : Less(own(q), me)}
               after == {q \in group : Less(me, own(q))}
           IN  /\ chain[r].src = r
               /\ chain[r].rank = Cardinality(before)
               /\ chain[r].size = Cardinality(group)
               /\ NewLeft(r) = (IF before = {} THEN NoName
                                ELSE CHOOSE q \in before : \A x \in before : ~Less(own(q), own(x)))
               /\ NewRight(r) = (IF after = {} THEN NoName
                                 ELSE CHOOSE q \in after : \A x \in after : ~Less(own(x), own(q)))
               /\ chain[r].id = Cardinality({input[q][1] : q \in {x \in Ranks : input[x][1] < input[r][1]}})
               /\ chain[r].count = Cardinality({input[q][1] : q \in Ranks})
=============================================================================
