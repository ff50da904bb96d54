----------------------------- MODULE TinyOctree -----------------------------
(***************************************************************************)
(* The octree that keeps its nodes in one block of memory                  *)
(* (Util/TinyOctree.h).  An octree of one item has no block: the item and  *)
(* its position are members.  Otherwise the root is at offset 0, and a     *)
(* branch holds the offset of each child relative to itself, so that a new *)
(* root can be put in front of everything.  The root covers only part of   *)
(* the space: the positions that agree with the mask in their upper bits.     *)
(*                                                                         *)
(* The module defines the operations on an octree; Utilities checks them. *)
(***************************************************************************)
EXTENDS Integers, Sequences, FiniteSets, SequencesExt

CONSTANTS
    Item,           \* the items an octree may hold
    InvalidItem,    \* k_invalid_item
    Depth,          \* k_depth
    OffsetSize,     \* sizeof(OffsetNode)
    ItemSize        \* sizeof(ItemNode)

ASSUME OctreeAssumption ==
    /\ InvalidItem \notin Item
    /\ Depth \in Nat \ {0, 1}
    /\ OffsetSize \in Nat \ {0} /\ ItemSize \in Nat \ {0}

InvalidOffset == -1     \* UINT16_MAX, which is the offset of no node

(* The index of a child or an item in a node, and the nodes as they are made. *)
Index == (0 .. 1) \X (0 .. 1) \X (0 .. 1)
OffsetNode == [i \in Index |-> InvalidOffset]
ItemNode   == [i \in Index |-> InvalidItem]

(* m_data maps the offset of a node to the node; size is the size of the block. *)
NewOctree == [start |-> Depth, mask |-> <<0, 0, 0>>, single |-> InvalidItem, m_data |-> <<>>, size |-> 0]

InOctree(pos) == \A a \in 1 .. 3 : pos[a] \in 0 .. 2^Depth - 1

Cut(pos, bits) == [a \in 1 .. 3 |-> (pos[a] \div 2^bits) * 2^bits]

(* The index of the child that has a position, in a node at a depth. *)
IndexAt(pos, depth) == [a \in 1 .. 3 |-> (pos[a] \div 2^(Depth - depth - 1)) % 2]

PosInBounds(t, pos) == Cut(pos, Depth - t.start) = t.mask

-----------------------------------------------------------------------------

(* Mutant: the mask is cut before the old root is put under the new one. *)
AddNewRootCutFirst(t) ==
    LET start == t.start - 1
        mask  == Cut(t.mask, Depth - start)
        moved == {a + OffsetSize : a \in DOMAIN t.m_data}
        nodes == IF start = Depth - 1
                   THEN [a \in {0} |-> [ItemNode EXCEPT ![IndexAt(t.mask, start)] = t.single]]
                   ELSE [a \in {0} \union moved |->
                           IF a = 0 THEN [OffsetNode EXCEPT ![IndexAt(mask, start)] = OffsetSize]
                                    ELSE t.m_data[a - OffsetSize]]
    IN  [t EXCEPT !.start = start, !.mask = mask, !.m_data = nodes,
                  !.size = IF start = Depth - 1 THEN ItemSize ELSE @ + OffsetSize]

(* The first root is a leaf with the single item; a later one is put in     *)
(* front of the block, with the old root as the child the mask tells.       *)
AddNewRoot(t) ==
    LET start == t.start - 1
        moved == {a + OffsetSize : a \in DOMAIN t.m_data}
        nodes == IF start = Depth - 1
                   THEN [a \in {0} |-> [ItemNode EXCEPT ![IndexAt(t.mask, start)] = t.single]]
                   ELSE [a \in {0} \union moved |->
                           IF a = 0 THEN [OffsetNode EXCEPT ![IndexAt(t.mask, start)] = OffsetSize]
                                    ELSE t.m_data[a - OffsetSize]]
    IN  [t EXCEPT !.start = start, !.mask = Cut(t.mask, Depth - start), !.m_data = nodes,
                  !.size = IF start = Depth - 1 THEN ItemSize ELSE @ + OffsetSize]

(* New roots until the octree covers the position. *)
Grown(t, pos) ==
    LET roots[n \in 0 .. t.start] == IF n = 0 THEN t ELSE AddNewRoot(roots[n - 1])
    IN  roots[CHOOSE n \in 0 .. t.start :
                PosInBounds(roots[n], pos) /\ \A k \in 0 .. n - 1 : ~PosInBounds(roots[k], pos)]

(* EmplaceNode: a new node at the end of the block, as a child of the node   *)
(* at an offset.                                                            *)
EmplaceNode(t, offset, i, node, node_size) ==
    [t EXCEPT !.m_data = [a \in DOMAIN @ \union {t.size} |->
                            IF a = t.size THEN node
                            ELSE IF a = offset THEN [@[a] EXCEPT ![i] = t.size - offset] ELSE @[a]],
              !.size = @ + node_size]

(* One level of the way down; a missing child is only made for an item. *)
Descend(s, depth, pos, value) ==
    LET i     == IndexAt(pos, depth)
        child == s.tree.m_data[s.offset][i]
        leaf  == depth = Depth - 2
    IN  IF s.stopped THEN s
        ELSE IF child # InvalidOffset THEN [s EXCEPT !.offset = @ + child]
        ELSE IF value = InvalidItem THEN [s EXCEPT !.stopped = TRUE]
        ELSE [s EXCEPT !.tree = IF leaf THEN EmplaceNode(@, s.offset, i, ItemNode, ItemSize)
                                        ELSE EmplaceNode(@, s.offset, i, OffsetNode, OffsetSize),
                       !.offset = s.tree.size]

(* The depths of the branches, from the root down. *)
BranchDepths(t) == [n \in 1 .. Depth - 1 - t.start |-> t.start + n - 1]

WayDown(t, pos, value) ==
    FoldLeft(LAMBDA s, depth : Descend(s, depth, pos, value),
             [tree |-> t, offset |-> 0, stopped |-> FALSE], BranchDepths(t))

SetInNodes(t, pos, value) ==
    LET s == WayDown(t, pos, value)
    IN  IF s.stopped THEN s.tree
        ELSE [s.tree EXCEPT !.m_data[s.offset][IndexAt(pos, Depth - 1)] = value]

(* Set: the first item, the single item cleared, the single item changed, or *)
(* an item in a node.                                                        *)
Set(t, pos, value) ==
    IF ~InOctree(pos) THEN t
    ELSE IF t.start = Depth /\ t.single = InvalidItem
           THEN [t EXCEPT !.single = value, !.mask = pos]
    ELSE IF t.start = Depth /\ value = InvalidItem /\ PosInBounds(t, pos)
           THEN [t EXCEPT !.single = InvalidItem, !.mask = <<0, 0, 0>>]
    ELSE LET g == Grown(t, pos)
         IN  IF g.start = Depth THEN [g EXCEPT !.single = value] ELSE SetInNodes(g, pos, value)

(* Get follows the same way, and makes nothing. *)
Get(t, pos) ==
    IF ~InOctree(pos) \/ ~PosInBounds(t, pos) THEN InvalidItem
    ELSE IF t.start = Depth THEN t.single
    ELSE LET s == WayDown(t, pos, InvalidItem)
         IN  IF s.stopped THEN InvalidItem ELSE s.tree.m_data[s.offset][IndexAt(pos, Depth - 1)]

-----------------------------------------------------------------------------

(* The children of a node, in the order of the three loops. *)
Order == [n \in 1 .. 8 |-> <<(n - 1) \div 4, ((n - 1) \div 2) % 2, (n - 1) % 2>>]

Moved(pos, i, step) == [a \in 1 .. 3 |-> pos[a] + i[a] * step]

IterateBranch(t, depth, at) ==
    LET node     == t.m_data[at.offset]
        children == SelectSeq(Order, LAMBDA i : node[i] # InvalidOffset)
    IN  [n \in DOMAIN children |->
           [offset |-> at.offset + node[children[n]],
            pos |-> Moved(at.pos, children[n], 2^(Depth - depth - 1))]]

IterateLeaf(t, at) ==
    LET node  == t.m_data[at.offset]
        items == SelectSeq(Order, LAMBDA i : node[i] # InvalidItem)
    IN  [n \in DOMAIN items |-> [pos |-> Moved(at.pos, items[n], 1), item |-> node[items[n]]]]

(* Iterate: the calls of the callback, in their order. *)
Iterate(t) ==
    LET root   == <<[offset |-> 0, pos |-> t.mask]>>
        leaves == FoldLeft(LAMBDA level, depth :
                             FlattenSeq([n \in DOMAIN level |-> IterateBranch(t, depth, level[n])]),
                           root, BranchDepths(t))
    IN  IF t.start < Depth
          THEN FlattenSeq([n \in DOMAIN leaves |-> IterateLeaf(t, leaves[n])])
        ELSE IF t.single # InvalidItem THEN <<[pos |-> t.mask, item |-> t.single]>>
        ELSE <<>>

(* ShrinkToFit: the items are set in a new octree, whose members are taken   *)
(* over, all but the single item.                                            *)
ShrinkToFit(t) ==
    LET new == FoldLeft(LAMBDA n, call : Set(n, call.pos, call.item), NewOctree, Iterate(t))
    IN  IF t.size = 0 THEN t ELSE [new EXCEPT !.single = t.single]

-----------------------------------------------------------------------------
(* What an octree must be like. *)

Depths(t) == t.start .. Depth - 1

(* The offsets of the nodes at each depth that can be reached from the root. *)
Reached(t) ==
    LET at[d \in Depths(t)] ==
          IF d = t.start THEN {0}
          ELSE UNION {{o + t.m_data[o][i] : i \in {j \in Index : t.m_data[o][j] # InvalidOffset}} : o \in at[d - 1]}
    IN  at

(* Every node of the block is reached once, and the nodes fill the block. *)
BlockExact(t) ==
    IF t.start = Depth THEN t.m_data = <<>> /\ t.size = 0
    ELSE LET at == Reached(t)
         IN  /\ UNION {at[d] : d \in Depths(t)} = DOMAIN t.m_data
             /\ \A d, e \in Depths(t) : d # e => at[d] \intersect at[e] = {}
             /\ \A o \in DOMAIN t.m_data :
                  o + (IF o \in at[Depth - 1] THEN ItemSize ELSE OffsetSize) \in DOMAIN t.m_data \union {t.size}
             /\ t.size < 65535

(* No node is empty, and the root is needed. *)
Minimal(t) ==
    t.start < Depth =>
        LET filled(o) == {i \in Index : t.m_data[o][i] \notin {InvalidOffset, InvalidItem}}
        IN  /\ \A o \in DOMAIN t.m_data : filled(o) # {}
            /\ Cardinality(filled(0)) >= 2
=============================================================================
