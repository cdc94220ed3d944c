------------------------------- MODULE Strmap -------------------------------
(***************************************************************************)
(* The string map (strmap.c): an AVL tree with parent pointers, a stored   *)
(* height per node and the packed size of all entries in the root object.  *)
(*                                                                         *)
(* A node is named by its key: unset relinks nodes and never copies a key. *)
(* A tree is a record of the fields of all nodes, so that a stale height   *)
(* or a parent pointer that was not updated is a state of the model.  A    *)
(* string is reduced to its length: keys are numbers in strcmp order, of   *)
(* KeyLen bytes each, and the value v has v bytes, both with their '\0'.   *)
(***************************************************************************)
EXTENDS Integers, Sequences, FiniteSets, SequencesExt

CONSTANTS
    Keys,       \* keys, in the order of strcmp
    Values,     \* Values[k]: lengths of the values k may be given
    KeyLen,     \* length of a key
    Other       \* keys of the map that MergeOverlays merges into

ASSUME StrmapAssumption ==
    /\ Keys \subseteq Nat \ {0} /\ IsFiniteSet(Keys)
    /\ Values \in [Keys -> SUBSET (Nat \ {0})]
    /\ KeyLen \in Nat \ {0}
    /\ Other \subseteq Keys

VARIABLE map    \* the map of the application

Nil == 0        \* the NULL pointer
NoValue == 0    \* a node that is not allocated
AllValues == UNION {Values[k] : k \in Keys}

\* strmap_new.
New == [root |-> Nil, len |-> 0,
        left |-> [k \in Keys |-> Nil], right |-> [k \in Keys |-> Nil],
        parent |-> [k \in Keys |-> Nil], height |-> [k \in Keys |-> 0],
        value |-> [k \in Keys |-> NoValue]]

Nodes(t) == {k \in Keys : t.value[k] # NoValue}

Mirror(s) == IF s = "left" THEN "right" ELSE "left"

\* Pointers that may be NULL.
Height(t, n) == IF n = Nil THEN 0 ELSE t.height[n]
SetParent(t, n, p) == IF n = Nil THEN t ELSE [t EXCEPT !.parent[n] = p]
SetChild(t, p, s, n) == IF p = Nil THEN t ELSE [t EXCEPT ![s][p] = n]
SideOf(t, p, n) == IF p # Nil /\ t.left[p] = n THEN "left" ELSE "right"

-----------------------------------------------------------------------------
(* Rebalancing.                                                            *)

\* strmap_node_set_height.
SetHeight(t, n) ==
    LET l == Height(t, t.left[n])
        r == Height(t, t.right[n])
    IN  IF n = Nil THEN t ELSE [t EXCEPT !.height[n] = 1 + IF r > l THEN r ELSE l]

\* Faulty variant: the subtree between the two nodes is not handed over.
RotateDropsInner(t, n, side) ==
    LET away == Mirror(side)
        target == t[away][n]
        parent == t.parent[n]
        down == SetHeight([t EXCEPT ![away][n] = Nil, !.parent[n] = target], n)
        up == SetHeight([down EXCEPT ![side][target] = n, !.parent[target] = parent], target)
    IN  IF target = Nil THEN t
        ELSE IF parent = Nil THEN up
        ELSE SetHeight(SetChild(up, parent, SideOf(up, parent, n), target), parent)

\* strmap_node_rotate_left (side is "left") and its mirror image: the child on
\* the other side takes the place of n, and n becomes its child on this side.
Rotate(t, n, side) ==
    LET away == Mirror(side)
        target == t[away][n]
        parent == t.parent[n]
        inner == t[side][target]
        down == SetHeight(SetParent([t EXCEPT ![away][n] = inner, !.parent[n] = target],
                                    inner, n), n)
        up == SetHeight([down EXCEPT ![side][target] = n, !.parent[target] = parent], target)
    IN  IF target = Nil THEN t
        ELSE IF parent = Nil THEN up
        ELSE SetHeight(SetChild(up, parent, SideOf(up, parent, n), target), parent)

\* strmap_node_balance_factor, as the weight on one side of n.
Lean(t, n, side) == Height(t, t[side][n]) - Height(t, t[Mirror(side)][n])

\* One level of strmap_node_rebalance: [tree, top], the node now in n's place.
Level(t, n) ==
    LET heavy == IF Lean(t, n, "right") > 1 THEN "right" ELSE "left"
        child == t[heavy][n]
        ready == IF Lean(t, child, Mirror(heavy)) > 0 THEN Rotate(t, child, heavy) ELSE t
    IN  IF Lean(t, n, heavy) > 1
        THEN [tree |-> Rotate(ready, n, Mirror(heavy)), top |-> ready[heavy][n]]
        ELSE [tree |-> SetHeight(t, n), top |-> n]

\* strmap_node_rebalance: from n up to the root, which the tree records.
RECURSIVE Rebalance(_, _)
Rebalance(t, n) ==
    LET parent == t.parent[n]
        level == Level(t, n)
    IN  IF parent = Nil THEN [level.tree EXCEPT !.root = level.top]
        ELSE Rebalance(level.tree, parent)

-----------------------------------------------------------------------------
(* Searching and iterating.                                                *)

\* strmap_node_search from n, reached from parent on the given side: the node
\* (or Nil), its parent or the one it would have, and the side.
RECURSIVE Search(_, _, _, _, _)
Search(t, n, parent, side, k) ==
    IF n = Nil \/ n = k THEN [node |-> n, parent |-> parent, side |-> side]
    ELSE LET s == IF k < n THEN "left" ELSE "right"
         IN  Search(t, t[s][n], n, s, k)

Find(t, k) == Search(t, t.root, Nil, "left", k)

\* strmap_node_leftmost and strmap_node_rightmost.
RECURSIVE Outermost(_, _, _)
Outermost(t, n, side) ==
    IF n = Nil \/ t[side][n] = Nil THEN n ELSE Outermost(t, t[side][n], side)

\* The ancestor of n for which n is in the subtree on the given side.
RECURSIVE Ancestor(_, _, _)
Ancestor(t, n, side) ==
    LET parent == t.parent[n]
    IN  IF parent = Nil \/ t[side][parent] = n THEN parent ELSE Ancestor(t, parent, side)

\* strmap_node_next (side is "right") and strmap_node_previous.
Step(t, n, side) ==
    IF t[side][n] # Nil THEN Outermost(t, t[side][n], Mirror(side))
    ELSE Ancestor(t, n, Mirror(side))

\* The loop over strmap_node_first and strmap_node_next (side is "right"), or
\* over strmap_node_last and strmap_node_previous.
RECURSIVE From(_, _, _)
From(t, n, side) == IF n = Nil THEN << >> ELSE <<n>> \o From(t, Step(t, n, side), side)

Iterate(t, side) == From(t, Outermost(t, t.root, Mirror(side)), side)

\* strmap_get.
Get(t, k) == LET n == Find(t, k).node IN IF n = Nil THEN NoValue ELSE t.value[n]

-----------------------------------------------------------------------------
(* Changing the map.                                                       *)

\* strmap_set of a new key: the node is linked below its parent.
Insert(t, at, k, v) ==
    LET t1 == [t EXCEPT !.value[k] = v, !.height[k] = 1, !.len = @ + KeyLen + v]
        t2 == SetChild([t1 EXCEPT !.parent[k] = at.parent], at.parent, at.side, k)
    IN  IF at.parent = Nil THEN [t1 EXCEPT !.root = k] ELSE Rebalance(t2, at.parent)

\* Faulty variant: the length of the value that is replaced is kept.
SetKeepsLen(t, k, v) ==
    LET at == Find(t, k)
    IN  IF at.node = Nil THEN Insert(t, at, k, v)
        ELSE [t EXCEPT !.value[k] = v, !.len = @ + v]

\* strmap_set.
Set(t, k, v) ==
    LET at == Find(t, k)
    IN  IF at.node = Nil THEN Insert(t, at, k, v)
        ELSE [t EXCEPT !.value[k] = v, !.len = @ - t.value[k] + v]

\* strmap_node_extract_single: n, with at most one child, is spliced out.
Extract(t, n) ==
    LET child == IF t.left[n] # Nil THEN t.left[n] ELSE t.right[n]
        parent == t.parent[n]
    IN  SetChild(SetParent(t, child, parent), parent, SideOf(t, parent, n), child)

\* Faulty variant: rebalancing starts at the replacement in both cases.
PromoteHigh(t, at) ==
    LET n == at.node
        r == Outermost(t, t.left[n], "right")
        near == r = t.left[n]
        t1 == IF near THEN t
              ELSE LET x == Extract(t, r)
                   IN  SetParent([x EXCEPT !.left[r] = x.left[n]], x.left[n], r)
        t2 == SetParent([t1 EXCEPT !.right[r] = t1.right[n]], t1.right[n], r)
        t3 == SetChild([t2 EXCEPT !.parent[r] = at.parent], at.parent, at.side, r)
    IN  Rebalance(t3, r)

\* strmap_unset of a node with two children: the rightmost node of the left
\* subtree takes its place.
Promote(t, at) ==
    LET n == at.node
        r == Outermost(t, t.left[n], "right")
        near == r = t.left[n]
        t1 == IF near THEN t
              ELSE LET x == Extract(t, r)
                   IN  SetParent([x EXCEPT !.left[r] = x.left[n]], x.left[n], r)
        t2 == SetParent([t1 EXCEPT !.right[r] = t1.right[n]], t1.right[n], r)
        t3 == SetChild([t2 EXCEPT !.parent[r] = at.parent], at.parent, at.side, r)
    IN  Rebalance(t3, IF near THEN r ELSE t2.parent[r])

RECURSIVE Subtree(_, _)
Subtree(t, n) ==
    IF n = Nil THEN {} ELSE {n} \cup Subtree(t, t.left[n]) \cup Subtree(t, t.right[n])


\* The links of the node are cleared, and strmap_node_delete frees it alone.
Free(t, n) ==
    [t EXCEPT !.value[n] = NoValue, !.height[n] = 0, !.parent[n] = Nil,
              !.left[n] = Nil, !.right[n] = Nil]

\* strmap_unset.
Unset(t, k) ==
    LET at == Find(t, k)
        t1 == [t EXCEPT !.len = @ - KeyLen - t.value[k]]
        x == Extract(t1, k)
    IN  IF at.node = Nil THEN t
        ELSE Free(IF t.left[k] # Nil /\ t.right[k] # Nil THEN Promote(t1, at)
                  ELSE IF at.parent # Nil THEN Rebalance(x, at.parent)
                  ELSE [x EXCEPT !.root = IF t.left[k] # Nil THEN t.left[k] ELSE t.right[k]],
                  k)

-----------------------------------------------------------------------------
(* Packing.                                                                *)

\* strmap_pack: the size, with its own 8 bytes, and the strings one after
\* another.
SizeBytes == 8

Pack(t) ==
    LET keys == Iterate(t, "right")
    IN  [size |-> SizeBytes + t.len,
         strings |-> FlattenSeq([i \in 1..Len(keys) |->
                        <<[str |-> keys[i], len |-> KeyLen],
                          [str |-> t.value[keys[i]], len |-> t.value[keys[i]]]>>])]

\* strmap_unpack of what is left of the strings into t, up to size bytes.
\* Overrun stands for reading past the end of the buffer.
Overrun == [New EXCEPT !.len = -1]

RECURSIVE UnpackFrom(_, _, _)
UnpackFrom(strings, size, t) ==
    IF size <= 0 THEN t
    ELSE IF Len(strings) < 2 THEN Overrun
    ELSE UnpackFrom(SubSeq(strings, 3, Len(strings)),
                    size - strings[1].len - strings[2].len,
                    Set(t, strings[1].str, strings[2].str))

Unpack(buf, t) == UnpackFrom(buf.strings, buf.size - SizeBytes, t)

\* strmap_merge.
Merge(dst, src) ==
    FoldLeft(LAMBDA t, k : Set(t, k, src.value[k]), dst, Iterate(src, "right"))

-----------------------------------------------------------------------------
(* The application changes one map.                                        *)

TreeInit == map = New

SetKey(k, v) == map' = Set(map, k, v)
UnsetKey(k) == map' = Unset(map, k)

\* strmap_delete, and a new map.
Delete == map' = New

TreeNext ==
    \/ \E k \in Keys : \E v \in Values[k] : SetKey(k, v)
    \/ \E k \in Keys : UnsetKey(k)
    \/ Delete

TreeSpec == TreeInit /\ [][TreeNext]_map

-----------------------------------------------------------------------------
(* Properties.                                                             *)

Contents(t) == [k \in Nodes(t) |-> t.value[k]]

Pointers == Keys \cup {Nil}

\* Type invariant: pointers lead to nodes, heights and sizes are counts.
TreeTypeOK ==
    /\ map.root \in Pointers /\ map.len \in Nat
    /\ {map.left, map.right, map.parent} \subseteq [Keys -> Pointers]
    /\ map.height \in [Keys -> Nat]
    /\ map.value \in [Keys -> AllValues \cup {NoValue}]

\* After every rotation, splice and promotion the nodes form one AVL tree:
\* children and parent pointers agree, the root has no parent, stored heights
\* are one more than the higher child's, and no node leans by more than one.
\* No pointer leads out of the nodes (TreeTypeOK).
IsAVL ==
    /\ TreeTypeOK
    /\ (map.root = Nil) <=> (Nodes(map) = {})
    /\ \A n \in Nodes(map) :
          /\ (map.parent[n] = Nil) <=> (map.root = n)
          /\ \A s \in {"left", "right"} :
                LET c == map[s][n]
                IN  /\ c # Nil => c \in Nodes(map) /\ map.parent[c] = n
                    /\ Height(map, c) < map.height[n]
                    /\ Lean(map, n, s) \in -1..1
          /\ \E s \in {"left", "right"} : map.height[n] = 1 + Height(map, map[s][n])

\* Searching finds exactly the keys that were set and not unset, with the value
\* set last: the order of the tree survives rebalancing (strmap_get).
FindsEveryKey ==
    \A k \in Keys : Get(map, k) = IF k \in Nodes(map) THEN map.value[k] ELSE NoValue

\* strmap_node_next from the first node visits every key once in increasing
\* order, and strmap_node_previous from the last node in decreasing order.
IteratesInOrder ==
    LET forward == Iterate(map, "right")
    IN  /\ ToSet(forward) = Nodes(map)
        /\ \A i \in 1..(Len(forward) - 1) : forward[i] < forward[i + 1]
        /\ Iterate(map, "left") = Reverse(forward)

\* A map packed and unpacked into an empty map is the same map: tree->len,
\* which set and unset keep up incrementally, is what strmap_pack writes, and
\* strmap_unpack stops exactly there.
PackRoundTrip ==
    LET copy == Unpack(Pack(map), New)
    IN  copy # Overrun /\ Contents(copy) = Contents(map) /\ copy.len = map.len

\* strmap_merge into a map with other entries: entries of the source win, those
\* of the destination that the source lacks stay.
Destination == FoldLeft(LAMBDA t, k : Set(t, k, CHOOSE v \in Values[k] : TRUE),
                        New, SetToSortSeq(Other, <))

MergeOverlays ==
    LET merged == Contents(Merge(Destination, map))
    IN  /\ DOMAIN merged = Nodes(map) \cup Other
        /\ \A k \in DOMAIN merged :
              merged[k] = IF k \in Nodes(map) THEN map.value[k] ELSE Destination.value[k]

\* The tree answers like the map it stands for: a search finds every entry,
\* an iteration visits all of them in order both ways, and a merge takes them
\* all over.
ReadsAreRight == FindsEveryKey /\ IteratesInOrder /\ MergeOverlays

Abstract == INSTANCE StringMap
                WITH Values <- AllValues, None <- NoValue, entries <- map.value

=============================================================================
