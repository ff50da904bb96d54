----------------------------- MODULE SmallVector ----------------------------
(***************************************************************************)
(* GrowingSmallVector (Util/SmallVector.h): a vector that keeps its items  *)
(* in itself until they do not fit any more, and then on the heap.         *)
(*                                                                         *)
(* The operations the code calls: reserve, push_back and emplace_back,     *)
(* pop_back, erase of a range, clear, and unordered_erase on a vector.     *)
(* Insertion in the middle, resize, swap and the copy constructors have no *)
(* caller.  A cell that was never written has the value Garbage; an item   *)
(* needs no destructor.                                                    *)
(***************************************************************************)
EXTENDS Integers, Sequences

CONSTANTS
    Value,      \* what a vector may hold
    Garbage,    \* what uninitialised or destroyed memory holds
    Capacity    \* k_capacity

ASSUME VectorAssumption == Garbage \notin Value /\ Capacity \in Nat \ {0}

Memory(n) == [i \in 1 .. n |-> Garbage]

(* m_buffer points to the vector's own cells or to a block on the heap. *)
NewVector == [m_size |-> 0, m_capacity |-> Capacity, heap |-> FALSE, cells |-> Memory(Capacity)]

Contents(v) == SubSeq(v.cells, 1, v.m_size)

(* Mutant: the items stay in the old block. *)
reserveEmpty(v, new_capacity) ==
    IF new_capacity <= v.m_capacity THEN v
    ELSE [v EXCEPT !.cells = Memory(new_capacity), !.heap = TRUE, !.m_capacity = new_capacity]

(* A larger block; the items are moved to it if they were on the heap, and   *)
(* stay behind if they were in the vector's own cells.                       *)
reserve(v, new_capacity) ==
    IF new_capacity <= v.m_capacity THEN v
    ELSE [v EXCEPT !.cells = [i \in 1 .. new_capacity |->
                                IF v.heap /\ i <= v.m_size THEN v.cells[i] ELSE Garbage],
                   !.heap = TRUE,
                   !.m_capacity = new_capacity]

grow(v, new_size) == IF new_size > v.m_capacity THEN reserve(v, v.m_capacity * 2) ELSE v

Written(v, value) ==
    [v EXCEPT !.cells = IF v.m_size + 1 \in DOMAIN @ THEN [@ EXCEPT ![v.m_size + 1] = value] ELSE @,
              !.m_size = @ + 1]

(* The item is put behind the last one, in a larger block if it is full.     *)
emplace_back(v, value) == Written(grow(v, v.m_size + 1), value)

(* Before that emplace shifts what lies between the position it was called   *)
(* with, the old end, and the end.  When grow has replaced the block they    *)
(* are in two blocks: if the new one lies behind the old one, everything     *)
(* between them is overwritten, and if it lies before it, nothing is.        *)
ShiftsOutside(v) == grow(v, v.m_size + 1) # v

pop_back(v) ==
    IF v.m_size = 0 THEN v
    ELSE [v EXCEPT !.cells[v.m_size] = Garbage, !.m_size = @ - 1]

(* The items first .. last - 1 are destroyed and the rest moved down. *)
erase(v, first, last) ==
    [v EXCEPT !.cells = [i \in DOMAIN @ |->
                           IF i < first \/ i > v.m_size THEN @[i]
                           ELSE IF i + (last - first) <= v.m_size THEN @[i + (last - first)]
                           ELSE Garbage],
              !.m_size = @ - (last - first)]

(* The last item takes the place of the erased one. *)
unordered_erase_it(v, i) == pop_back([v EXCEPT !.cells[i] = v.cells[v.m_size]])

clear(v) == [v EXCEPT !.cells = [i \in DOMAIN @ |-> IF i <= v.m_size THEN Garbage ELSE @[i]],
                      !.m_size = 0]
=============================================================================
