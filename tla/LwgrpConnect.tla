---------------------------- MODULE LwgrpConnect ----------------------------
(***************************************************************************)
(* Building the channels of a group (lwgrp.c: lwgrp_create, lwgrp_connect, *)
(* lwgrp_accept_left, lwgrp_connect_right).  Member r of a group connects  *)
(* to member r + 2^d in round d and accepts a connection from member       *)
(* r - 2^d; it learns the address for the next round from its neighbours   *)
(* of this one.                                                            *)
(*                                                                         *)
(* Groups lists the groups in the order in which their members create      *)
(* them.  All channels of a process come in through one endpoint and carry *)
(* the number of their round, not the group they are for.                  *)
(***************************************************************************)
EXTENDS Integers, Sequences, FiniteSets, SequencesExt

CONSTANTS
    Groups,     \* Groups[g]: the members of group g, in rank order
    Synced      \* TRUE: a member starts the next group only when every member
                \* of its last one is connected, as the collective calls of
                \* lwgrp_split ensure

NumGroups == Len(Groups)
Size(g) == Len(Groups[g])
Members == [g \in DOMAIN Groups |-> Range(Groups[g])]
Procs == UNION {Members[g] : g \in DOMAIN Groups}
NoChannel == << >>
NoAddr == "none"

ASSUME GroupsAssumption ==
    /\ NumGroups \in Nat /\ DOMAIN Groups = 1..NumGroups
    /\ \A g \in DOMAIN Groups :
          /\ Size(g) \in Nat \ {0} /\ DOMAIN Groups[g] = 1..Size(g)
          /\ IsInjective(Groups[g])
    /\ NoAddr \notin Procs
    /\ Synced \in BOOLEAN

RankOf ==
    [g \in DOMAIN Groups |->
        [p \in Members[g] |-> CHOOSE r \in 0..(Size(g) - 1) : Groups[g][r + 1] = p]]
Rank(g, p) == RankOf[g][p]
Member(g, r) == IF r \in 0..(Size(g) - 1) THEN Groups[g][r + 1] ELSE NoAddr

\* lwgrp_create: the entries of the channel lists, ceiling(log2(size)) plus one
\* for NULL at the end.
Dist(d) == 2^d

ASSUME DistAssumption ==
    /\ Dist(0) = 1
    /\ \A g \in DOMAIN Groups : \A d \in 0..(Size(g) + 1) : Dist(d + 1) = 2 * Dist(d)

Rounds(g) == {d \in 0..Size(g) : Dist(d) < Size(g)}
ListIndex(g) == 0..Cardinality(Rounds(g))

\* The next group after g that p is a member of.
NextGroup(p, g) ==
    Min({h \in DOMAIN Groups : h > g /\ p \in Members[h]} \cup {NumGroups + 1})

VARIABLES
    pc,         \* pc[p]: group, round and step of p, and whether p waits in it
    listLeft,   \* listLeft[p][g][d]: channel to the member 2^d to the left
    listRight,  \* listRight[p][g][d]
    addr,       \* addr[p]: addresses of the left and right member this round
    reqs,       \* reqs[p]: connections that wait for accept at p
    wire        \* messages in channels

vars == <<pc, listLeft, listRight, addr, reqs, wire>>

\* A channel is named by who connected to whom, for which group and round.
Channel(p, q, g, d) == <<p, q, g, d>>

Group(p) == pc[p].g
Finished(p) == pc[p].g > NumGroups
HasLeft(p) == Rank(Group(p), p) - Dist(pc[p].d) >= 0
HasRight(p) == Rank(Group(p), p) + Dist(pc[p].d) < Size(Group(p))
IsOdd(p) == (Rank(Group(p), p) \div Dist(pc[p].d)) % 2 = 1

FirstStep == "first"
Steps == {FirstStep, "second", "sendLeft", "sendRight", "recvLeft", "recvRight"}

\* The addresses of the nearest members, which the caller gives.
Given(p, g) ==
    IF g > NumGroups THEN [left |-> NoAddr, right |-> NoAddr]
    ELSE [left |-> Member(g, Rank(g, p) - 1), right |-> Member(g, Rank(g, p) + 1)]

Init ==
    /\ pc = [p \in Procs |-> [g |-> NextGroup(p, 0), d |-> 0, at |-> FirstStep, call |-> "none"]]
    /\ listLeft = [p \in Procs |-> [g \in DOMAIN Groups |-> [d \in ListIndex(g) |-> NoChannel]]]
    /\ listRight = [p \in Procs |-> [g \in DOMAIN Groups |-> [d \in ListIndex(g) |-> NoChannel]]]
    /\ addr = [p \in Procs |-> Given(p, NextGroup(p, 0))]
    /\ reqs = [p \in Procs |-> << >>]
    /\ wire = {}

\* The loop of lwgrp_connect is in a round of the group.
InRound(p) == ~Finished(p) /\ pc[p].d \in Rounds(Group(p))
At(p, step) == InRound(p) /\ pc[p].at = step
Waits(p) == pc[p].call = "wait"
Goto(p, step) == pc' = [pc EXCEPT ![p].at = step, ![p].call = "none"]

\* Odd members accept from the left first, even members connect to the right
\* first.
Accepts(p) == (pc[p].at = FirstStep) = IsOdd(p)
Connecting(p) == InRound(p) /\ pc[p].at \in {FirstStep, "second"}
AfterConnecting(p) == IF pc[p].at = FirstStep THEN "second" ELSE "sendLeft"

\* A member at the end of the row has nobody to connect to, or to accept; and
\* lwgrp_accept_left returns at once when the channel is there already.
IsAccepted(p) == listLeft[p][Group(p)][pc[p].d] # NoChannel
NothingToDo(p) == IF Accepts(p) THEN HasLeft(p) => IsAccepted(p) ELSE ~HasRight(p)

SkipConnect(p) ==
    /\ Connecting(p) /\ ~Waits(p)
    /\ NothingToDo(p)
    /\ Goto(p, AfterConnecting(p))
    /\ UNCHANGED <<listLeft, listRight, addr, reqs, wire>>

\* lwgrp_connect_right: spawn_net_connect sends the request and waits.
ConnectRight(p) ==
    /\ Connecting(p) /\ ~Accepts(p) /\ HasRight(p) /\ ~Waits(p)
    /\ reqs' = [reqs EXCEPT ![addr[p].right] =
                   Append(@, Channel(p, addr[p].right, Group(p), pc[p].d))]
    /\ pc' = [pc EXCEPT ![p].call = "wait"]
    /\ UNCHANGED <<listLeft, listRight, addr, wire>>

\* Faulty variant: rounds are counted from one.
StoredRound_OffByOne(p, ch) == ch[4] + 1

\* lwgrp_accept_left accepts connections and files each under the round it
\* names, until the one for this round has come; the peer's connect returns.
StoredRound(p, ch) == ch[4]

AcceptLeft(p) ==
    /\ Connecting(p) /\ Accepts(p) /\ HasLeft(p)
    /\ ~IsAccepted(p) \/ Waits(p)
    /\ reqs[p] # << >>
    /\ LET ch == Head(reqs[p])
           g  == Group(p)
           d  == StoredRound(p, ch)
           peer == ch[1]
       IN  /\ listLeft' = [listLeft EXCEPT ![p][g][d] = ch]
           /\ listRight' = [listRight EXCEPT ![peer][Group(peer)][pc[peer].d] = ch]
           /\ pc' = [pc EXCEPT
                        ![p].at = IF ch[4] = pc[p].d THEN AfterConnecting(p) ELSE @,
                        ![p].call = IF ch[4] = pc[p].d THEN "none" ELSE "wait",
                        ![peer].at = AfterConnecting(peer),
                        ![peer].call = "none"]
    /\ reqs' = [reqs EXCEPT ![p] = Tail(@)]
    /\ UNCHANGED <<addr, wire>>

\* The exchange of addresses: spawn_net_write_str does not block.
Message(ch, to, text) == [ch |-> ch, to |-> to, text |-> text]
PeerOn(p, ch) == IF ch[1] = p THEN ch[2] ELSE ch[1]

\* Faulty variant: each side gets back the address it handed over.
NextFor_SameSide(p, side) == addr[p][side]

\* What a member tells the neighbour on a side: its neighbour on the other.
NextFor(p, side) == addr[p][IF side = "left" THEN "right" ELSE "left"]

SendLeft(p) ==
    /\ At(p, "sendLeft")
    /\ wire' = IF HasLeft(p)
               THEN LET ch == listLeft[p][Group(p)][pc[p].d]
                    IN  wire \cup {Message(ch, PeerOn(p, ch), NextFor(p, "left"))}
               ELSE wire
    /\ Goto(p, "sendRight")
    /\ UNCHANGED <<listLeft, listRight, addr, reqs>>

SendRight(p) ==
    /\ At(p, "sendRight")
    /\ wire' = IF HasRight(p)
               THEN LET ch == listRight[p][Group(p)][pc[p].d]
                    IN  wire \cup {Message(ch, PeerOn(p, ch), NextFor(p, "right"))}
               ELSE wire
    /\ Goto(p, "recvLeft")
    /\ UNCHANGED <<listLeft, listRight, addr, reqs>>

\* next_left comes from the left member, or is NULL.
RecvLeft(p) ==
    /\ At(p, "recvLeft")
    /\ IF HasLeft(p)
       THEN \E m \in wire :
               /\ m.ch = listLeft[p][Group(p)][pc[p].d] /\ m.to = p
               /\ wire' = wire \ {m}
               /\ addr' = [addr EXCEPT ![p].left = m.text]
       ELSE addr' = [addr EXCEPT ![p].left = NoAddr] /\ UNCHANGED wire
    /\ Goto(p, "recvRight")
    /\ UNCHANGED <<listLeft, listRight, reqs>>

RecvRight(p) ==
    /\ At(p, "recvRight")
    /\ IF HasRight(p)
       THEN \E m \in wire :
               /\ m.ch = listRight[p][Group(p)][pc[p].d] /\ m.to = p
               /\ wire' = wire \ {m}
               /\ addr' = [addr EXCEPT ![p].right = m.text]
       ELSE addr' = [addr EXCEPT ![p].right = NoAddr] /\ UNCHANGED wire
    /\ pc' = [pc EXCEPT ![p].d = @ + 1, ![p].at = FirstStep]
    /\ UNCHANGED <<listLeft, listRight, reqs>>

\* lwgrp_create returns; the process goes on to its next group.
HasCreated(p, g) ==
    p \in Members[g] /\ (pc[p].g > g \/ (pc[p].g = g /\ pc[p].d \notin Rounds(g)))

Return(p) ==
    /\ ~Finished(p) /\ pc[p].d \notin Rounds(Group(p))
    /\ Synced => \A q \in Members[Group(p)] : HasCreated(q, Group(p))
    /\ LET g == NextGroup(p, Group(p))
       IN  /\ pc' = [pc EXCEPT ![p].g = g, ![p].d = 0, ![p].at = FirstStep]
           /\ addr' = [addr EXCEPT ![p] = Given(p, g)]
    /\ UNCHANGED <<listLeft, listRight, reqs, wire>>

Progress(p) ==
    \/ SkipConnect(p) \/ ConnectRight(p) \/ AcceptLeft(p)
    \/ SendLeft(p) \/ SendRight(p) \/ RecvLeft(p) \/ RecvRight(p) \/ Return(p)

Next == \E p \in Procs : Progress(p)

Spec == Init /\ [][Next]_vars

\* As long as some process can go on, one does.
FairSpec == Spec /\ WF_vars(Next)

-----------------------------------------------------------------------------
(* Properties.                                                             *)

\* Type invariant: positions, lists, addresses and requests have values of their
\* kind, and the rounds end when the distance reaches the size of the group.
TypeOK ==
    \A p \in Procs :
        /\ pc[p].g \in 1..(NumGroups + 1) /\ pc[p].at \in Steps
        /\ ~Finished(p) => pc[p].d \in Nat /\ Dist(pc[p].d) < 2 * Size(Group(p))
        /\ addr[p].left \in Procs \cup {NoAddr} /\ addr[p].right \in Procs \cup {NoAddr}
        /\ \A g \in DOMAIN Groups : \A d \in ListIndex(g) :
              {Len(listLeft[p][g][d]), Len(listRight[p][g][d])} \subseteq {0, 4}

\* The channels to the members 2^d away, where there are such members.
AtLeft(p, g, d) == Member(g, Rank(g, p) - Dist(d))
AtRight(p, g, d) == Member(g, Rank(g, p) + Dist(d))
LeftChannel(p, g, d) ==
    IF AtLeft(p, g, d) = NoAddr THEN NoChannel ELSE Channel(AtLeft(p, g, d), p, g, d)
RightChannel(p, g, d) ==
    IF AtRight(p, g, d) = NoAddr THEN NoChannel ELSE Channel(p, AtRight(p, g, d), g, d)

\* A process only ever connects to the member 2^d to its right: the addresses
\* handed on by the neighbours are those of the next round.
AddressesAreRight ==
    \A p \in Procs : (InRound(p) /\ pc[p].at = FirstStep) =>
        addr[p] = [left |-> AtLeft(p, Group(p), pc[p].d), right |-> AtRight(p, Group(p), pc[p].d)]

\* "keeps list of connections to procs 2^d hops away on left and right sides":
\* entry d of the lists of a group holds nothing but the channel to the member
\* 2^d away on that side, the same channel at both ends, and holds it when
\* lwgrp_create is done; the entry after the last round stays NULL.  On the way
\* there the addresses handed on are right.
NeighboursAreRight ==
    /\ TypeOK
    /\ AddressesAreRight
    /\ \A p \in Procs : \A g \in DOMAIN Groups : p \in Members[g] =>
           \A d \in ListIndex(g) :
               LET left  == LeftChannel(p, g, d)
                   right == RightChannel(p, g, d)
               IN  /\ listLeft[p][g][d] \in {NoChannel, left}
                   /\ listRight[p][g][d] \in {NoChannel, right}
                   /\ HasCreated(p, g) => listLeft[p][g][d] = left /\ listRight[p][g][d] = right

\* Creating the groups ends for every member: no cycle of processes that wait for
\* each other's accept, for any size.
CreationEnds == <>(\A p \in Procs : Finished(p))

-----------------------------------------------------------------------------
(* The inductive invariant behind NeighboursAreRight.                      *)

\* How lwgrp_split makes groups: the group p was in last contains all members of
\* its next one.
SplitOrder ==
    \A g, h \in DOMAIN Groups : \A p \in Members[g] \cap Members[h], q \in Members[h] :
        g < h => \E k \in g..(h - 1) : {p, q} \subseteq Members[k]

\* Where in its groups a process can be.
PlaceOK(p) ==
    /\ ~Finished(p) => p \in Members[Group(p)]
    /\ pc[p].d # 0 => ~Finished(p) /\ pc[p].d - 1 \in Rounds(Group(p))
    /\ ~InRound(p) => pc[p].at = FirstStep

\* The addresses of the round, and those of the next as they are learned.
AddrOK(p) ==
    IF Finished(p) THEN addr[p].left = NoAddr /\ addr[p].right = NoAddr
    ELSE /\ addr[p].left =
              AtLeft(p, Group(p), IF pc[p].at = "recvRight" THEN pc[p].d + 1 ELSE pc[p].d)
         /\ addr[p].right = AtRight(p, Group(p), pc[p].d)

\* An entry is empty or right, and right once its step is made.
Past(p, g, d) == pc[p].g > g \/ (pc[p].g = g /\ pc[p].d > d)
Here(p, g, d) == InRound(p) /\ Group(p) = g /\ pc[p].d = d
Accepted(p, g, d) ==
    \/ Past(p, g, d)
    \/ Here(p, g, d) /\ pc[p].at # FirstStep /\ (pc[p].at = "second" => IsOdd(p))
Connected(p, g, d) ==
    \/ Past(p, g, d)
    \/ Here(p, g, d) /\ pc[p].at # FirstStep /\ (pc[p].at = "second" => ~IsOdd(p))
EntriesOK(p, g, d) ==
    IF p \in Members[g]
    THEN /\ listLeft[p][g][d] \in {NoChannel, LeftChannel(p, g, d)}
         /\ listRight[p][g][d] \in {NoChannel, RightChannel(p, g, d)}
         /\ Accepted(p, g, d) => listLeft[p][g][d] = LeftChannel(p, g, d)
         /\ Connected(p, g, d) => listRight[p][g][d] = RightChannel(p, g, d)
    ELSE listLeft[p][g][d] = NoChannel /\ listRight[p][g][d] = NoChannel

\* A request belongs to a process that waits in lwgrp_connect_right.
RequestOK(q, ch) ==
    /\ ch[1] \in Procs
    /\ ch = Channel(ch[1], q, Group(ch[1]), pc[ch[1]].d)
    /\ Connecting(ch[1]) /\ ~Accepts(ch[1]) /\ Waits(ch[1])
    /\ HasRight(ch[1]) /\ q = AtRight(ch[1], Group(ch[1]), pc[ch[1]].d)
RequestsOK(q) ==
    /\ \A k \in 1..Len(reqs[q]) : RequestOK(q, reqs[q][k])
    /\ \A k, l \in 1..Len(reqs[q]) : reqs[q][k] = reqs[q][l] => k = l

\* A message tells its reader who is twice as far away.
MessageOK(m) ==
    \E g \in DOMAIN Groups : \E d \in Rounds(g), p \in Members[g], q \in Members[g] :
        /\ q = AtRight(p, g, d) /\ m.ch = Channel(p, q, g, d)
        /\ \/ m.to = p /\ m.text = AtRight(q, g, d)
           \/ m.to = q /\ m.text = AtLeft(p, g, d)

\* Nobody is past a group that a member of it still creates.
SyncOK ==
    \A g \in DOMAIN Groups : \A p, q \in Members[g] : pc[p].g > g => HasCreated(q, g)

\* What the variables range over.
Channels == Procs \X Procs \X (1..NumGroups) \X Nat
ShapeOK ==
    /\ pc \in [Procs -> [g : 1..(NumGroups + 1), d : Nat, at : Steps, call : {"none", "wait"}]]
    /\ addr \in [Procs -> [left : Procs \cup {NoAddr}, right : Procs \cup {NoAddr}]]
    /\ reqs \in [Procs -> Seq(Channels)]
    /\ \A list \in {listLeft, listRight} :
          /\ DOMAIN list = Procs
          /\ \A p \in Procs : DOMAIN list[p] = DOMAIN Groups
          /\ \A p \in Procs : \A g \in DOMAIN Groups : DOMAIN list[p][g] = ListIndex(g)

\* All of it together: the lists are right because the requests are, these because
\* the addresses are, these because the messages are; and these come from the
\* lists.
ConnectInv ==
    /\ ShapeOK
    /\ \A p \in Procs : PlaceOK(p) /\ AddrOK(p) /\ RequestsOK(p)
    /\ \A p \in Procs : \A g \in DOMAIN Groups : \A d \in ListIndex(g) : EntriesOK(p, g, d)
    /\ \A m \in wire : MessageOK(m)
    /\ SyncOK
=============================================================================
