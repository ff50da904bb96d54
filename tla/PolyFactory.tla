----------------------------- MODULE PolyFactory ----------------------------
(***************************************************************************)
(* The factory of entities (Util/PolyFactory.h, Util/Poly.h).  A poly is   *)
(* one block of memory with a set of components; all polys with the same   *)
(* set share an archetype, which also has the callbacks that listen to a   *)
(* subset of its components.  An entry ties the id of a poly to its block  *)
(* and counts the Refs to it.                                              *)
(*                                                                         *)
(* The module defines what each operation makes of a factory; Simulation   *)
(* says which threads call them, and when.  Every operation but the        *)
(* counting of Refs runs under m_mutex and is one step.                    *)
(*                                                                         *)
(* Abstractions.  A set of components stands for the bit set TypeID, which *)
(* always has the bit of Header too.  Component offsets inside a block and *)
(* the list of created blocks of the debug build are left out.             *)
(***************************************************************************)
EXTENDS Integers, Sequences, FiniteSets, SequencesExt

CONSTANTS
    Component,      \* the component types
    Listener,       \* the callbacks
    ListensTo       \* the components each callback asks for

ASSUME FactoryAssumption == ListensTo \in [Listener -> SUBSET Component]

TypeID == SUBSET Component

(* m_entries, m_archetypes and heap are functions on the ids, sets of       *)
(* components and addresses that are in use.                                *)
NewFactory == [m_entries |-> <<>>, m_archetypes |-> <<>>, m_callbacks |-> {}, heap |-> <<>>]

(* The value of a component that was constructed and not written. *)
Default == 0

Entry(f, id)  == f.m_entries[id]
Exists(f, id) == id \in DOMAIN f.m_entries
PolyOf(f, id) == f.heap[f.m_entries[id].header]

Put(fn, k, v) == [x \in DOMAIN fn \union {k} |-> IF x = k THEN v ELSE fn[x]]
Without(fn, S) == [x \in DOMAIN fn \ S |-> fn[x]]

-----------------------------------------------------------------------------
(* Archetypes *)

(* InitType: the callbacks of a new archetype, in the order of a hash map. *)
InitType(f, type_id) == SetToSeq({l \in f.m_callbacks : ListensTo[l] \subseteq type_id})

NewAddress(f) == CHOOSE a \in 1 .. Cardinality(DOMAIN f.heap) + 1 : a \notin DOMAIN f.heap

(* AllocatePoly: a block that belongs to the archetype of its components,   *)
(* which is made with its first poly.                                       *)
AllocatePoly(f, type_id, components) ==
    LET a   == NewAddress(f)
        old == IF type_id \in DOMAIN f.m_archetypes
                 THEN f.m_archetypes[type_id]
                 ELSE [refcount |-> 0, polys |-> {}, callbacks |-> InitType(f, type_id)]
    IN  [f EXCEPT !.heap = Put(@, a, [archetype |-> type_id, components |-> components]),
                  !.m_archetypes = Put(@, type_id, [old EXCEPT !.refcount = @ + 1,
                                                               !.polys = @ \union {a}])]

(* Mutant: the block is freed but its archetype keeps counting it. *)
DeallocatePolyUncounted(f, type_id, a) ==
    [f EXCEPT !.heap = Without(@, {a}),
              !.m_archetypes[type_id].polys = @ \ {a}]

(* DeallocatePoly: the last poly takes its archetype with it. *)
DeallocatePoly(f, type_id, a) ==
    LET old == f.m_archetypes[type_id]
    IN  [f EXCEPT !.heap = Without(@, {a}),
                  !.m_archetypes =
                      IF old.refcount = 1
                        THEN Without(@, {type_id})
                        ELSE Put(@, type_id, [old EXCEPT !.refcount = @ - 1, !.polys = @ \ {a}])]

(* AddCallback: for the archetypes to come and for those there are. *)
AddCallback(f, l) ==
    [f EXCEPT !.m_callbacks = @ \union {l},
              !.m_archetypes = [t \in DOMAIN f.m_archetypes |->
                  IF ListensTo[l] \subseteq t
                    THEN [f.m_archetypes[t] EXCEPT !.callbacks = Append(@, l)] ELSE f.m_archetypes[t]]]

-----------------------------------------------------------------------------
(* Entries *)

(* Ref(WeakRef), ~Ref: the count of an entry changes by n. *)
Count(f, id, n) == [f EXCEPT !.m_entries[id].refcount = @ + n]

(* Mutant: the Ref that is returned is not counted for a poly that is found. *)
GetPolyUncounted(f, id, initial_types) ==
    IF Exists(f, id)
      THEN f
      ELSE LET g == AllocatePoly(f, initial_types, [c \in initial_types |-> Default])
           IN  [g EXCEPT !.m_entries = Put(@, id, [type_id |-> initial_types, header |-> NewAddress(f),
                                                   refcount |-> 1])]

(* GetPoly: the entry of an id, which is made if there is none; the Ref that *)
(* is returned is counted before the lock is let go.                         *)
GetPoly(f, id, initial_types) ==
    IF Exists(f, id)
      THEN Count(f, id, 1)
      ELSE LET g == AllocatePoly(f, initial_types, [c \in initial_types |-> Default])
           IN  [g EXCEPT !.m_entries = Put(@, id, [type_id |-> initial_types, header |-> NewAddress(f),
                                                   refcount |-> 1])]

(* Mutant: the components of the new block are all new. *)
MovedComponentsNew(old, new_type_id) == [c \in new_type_id |-> Default]

(* The components of the new block: those in both sets are moved, the other *)
(* ones of the new set constructed, and of the old set destructed.          *)
MovedComponents(old, new_type_id) ==
    [c \in new_type_id |-> IF c \in DOMAIN old THEN old[c] ELSE Default]

UpdatePolyType(f, id, new_type_id) ==
    LET old == Entry(f, id)
        g   == AllocatePoly(f, new_type_id, MovedComponents(PolyOf(f, id).components, new_type_id))
        h   == DeallocatePoly(g, old.type_id, old.header)
    IN  IF new_type_id = old.type_id
          THEN f
          ELSE [h EXCEPT !.m_entries[id].type_id = new_type_id,
                         !.m_entries[id].header = NewAddress(f)]

AddTypes(f, id, new_types) ==
    IF Exists(f, id) THEN UpdatePolyType(f, id, Entry(f, id).type_id \union new_types) ELSE f

SetComponent(f, id, c, v) == [f EXCEPT !.heap[f.m_entries[id].header].components[c] = v]

(* Entries without Refs go, with their polys, and archetypes with their      *)
(* last poly.                                                              *)
DestroyPolys(f, gone) ==
    LET freed   == {Entry(f, id).header : id \in gone}
        Left(t) == f.m_archetypes[t].refcount - Cardinality(f.m_archetypes[t].polys \intersect freed)
    IN  [f EXCEPT !.m_entries = Without(@, gone),
                  !.heap = Without(@, freed),
                  !.m_archetypes = [t \in {u \in DOMAIN f.m_archetypes : Left(u) > 0} |->
                      [f.m_archetypes[t] EXCEPT !.refcount = Left(t), !.polys = @ \ freed]]]

Unreferenced(f) == {id \in DOMAIN f.m_entries : Entry(f, id).refcount = 0}

(* Mutant: the first entry without Refs ends the loop. *)
CleanupOne(f) ==
    IF Unreferenced(f) = {} THEN f ELSE DestroyPolys(f, {CHOOSE id \in Unreferenced(f) : TRUE})

(* Cleanup: every entry without Refs.  No component holds a Ref, so one     *)
(* removal does not change which entries are removed.                       *)
Cleanup(f) == DestroyPolys(f, Unreferenced(f))

(* DoEvent: the callbacks that are called. *)
Called(f, id) == Range(f.m_archetypes[Entry(f, id).type_id].callbacks)

-----------------------------------------------------------------------------
(* Properties of a factory. *)

EntryType     == [type_id : TypeID, header : Nat, refcount : Nat]
ArchetypeType == [refcount : Nat, polys : SUBSET Nat, callbacks : Seq(Listener)]

FactoryType(f) ==
    /\ f = [m_entries |-> f.m_entries, m_archetypes |-> f.m_archetypes,
            m_callbacks |-> f.m_callbacks, heap |-> f.heap]
    /\ f.m_entries \in [DOMAIN f.m_entries -> EntryType]
    /\ f.m_archetypes \in [DOMAIN f.m_archetypes -> ArchetypeType]
    /\ f.m_callbacks \subseteq Listener
    /\ DOMAIN f.m_archetypes \subseteq TypeID
    /\ DOMAIN f.heap \subseteq Nat /\ IsFiniteSet(DOMAIN f.heap)
    /\ f.heap = [a \in DOMAIN f.heap |-> [archetype |-> f.heap[a].archetype, components |-> f.heap[a].components]]

(* A block has the components of its archetype and is listed by it; an       *)
(* archetype counts its polys, and there is none without polys.             *)
BlocksListed(f) ==
    /\ \A a \in DOMAIN f.heap :
         /\ f.heap[a].archetype \in DOMAIN f.m_archetypes
         /\ f.heap[a].components \in [f.heap[a].archetype -> Nat]
    /\ \A t \in DOMAIN f.m_archetypes :
         /\ f.m_archetypes[t].polys = {a \in DOMAIN f.heap : f.heap[a].archetype = t}
         /\ f.m_archetypes[t].refcount = Cardinality(f.m_archetypes[t].polys)
         /\ f.m_archetypes[t].refcount > 0

(* Every block belongs to one entry, whose type is its archetype.           *)
BlocksOwned(f) ==
    /\ \A id \in DOMAIN f.m_entries :
         /\ Entry(f, id).header \in DOMAIN f.heap
         /\ PolyOf(f, id).archetype = Entry(f, id).type_id
    /\ \A i, j \in DOMAIN f.m_entries : i # j => Entry(f, i).header # Entry(f, j).header
    /\ DOMAIN f.heap = {Entry(f, id).header : id \in DOMAIN f.m_entries}

Consistent(f) == BlocksListed(f) /\ BlocksOwned(f)

(* An archetype calls each registered callback whose components it has, once. *)
CallsAll(f) ==
    \A t \in DOMAIN f.m_archetypes :
        LET callbacks == f.m_archetypes[t].callbacks
        IN  /\ Range(callbacks) = {l \in f.m_callbacks : ListensTo[l] \subseteq t}
            /\ IsInjective(callbacks)
=============================================================================
