----------------------------- MODULE Utilities ------------------------------
(***************************************************************************)
(* The containers under any sequence of calls, beside what they should     *)
(* hold: a function from positions to items for the octree, a sequence for *)
(* the vector; threads that use an object under the thread checker, a spin *)
(* lock, or the file of the database; a loader that moves; the settings    *)
(* over several runs of the program.  A behaviour is about one of these.   *)
(*                                                                         *)
(* One thing the code loses is kept apart: an octree that ShrinkToFit      *)
(* brings back to one item or none takes over everything but that item.    *)
(***************************************************************************)
EXTENDS TinyOctree, SmallVector, ThreadChecker, SpinLocks, MappedFile, SpatialTraverse, Config

CONSTANTS
    Position,       \* the positions that are set
    MaxLen,         \* bound on the length of the vector
    LoaderPosition, \* where a loader goes
    DistPerLod,     \* CLoader::dist_per_lod, 3 for the loader of a galaxy
    MaxNested       \* bound on the checkers a thread has at a time

ASSUME UtilitiesAssumption ==
    /\ \A p \in Position : InOctree(p)
    /\ MaxLen \in Nat /\ MaxNested \in Nat
    /\ DistPerLod \in Nat \ {0}
    /\ NoThread \notin Thread

VARIABLES
    kind,       \* what the behaviour is about
    octree, items, shrunk, calm,
    vector,
    list,       \* what was pushed and not removed; Garbage for what was in the
                \* vector's own cells when it left them
    undefined,  \* a shift has overwritten memory of others
    entry,      \* the entry of the object in the map, if inMap
    inMap,
    held,       \* the checkers on each thread's stack
    alarm,      \* an assertion of the checker failed
    raced,      \* a thread began to use the object that another one wrote,
                \* or to write what another one used
    doubled,    \* two threads wrote the object at a time
    loader,     \* where a loader is
    touched     \* the nodes it touches from there

octreeVars == <<octree, items, shrunk, calm>>
vectorVars == <<vector, list, undefined>>
checkVars == <<entry, inMap, held, alarm, raced, doubled>>
loaderVars == <<loader, touched>>
sharedVars == <<spinVars, mapVars, loaderVars, configVars>>
vars == <<kind, octreeVars, vectorVars, checkVars, sharedVars>>

(* shrunk: ShrinkToFit has ended without nodes; calm: it was the last call. *)
SetItem(pos, value) ==
    /\ kind = "octree"
    /\ octree' = Set(octree, pos, value)
    /\ items' = [items EXCEPT ![pos] = value]
    /\ calm' = FALSE
    /\ UNCHANGED <<kind, sharedVars, shrunk, vectorVars, checkVars>>

Shrink ==
    /\ kind = "octree"
    /\ octree' = ShrinkToFit(octree)
    /\ shrunk' = (shrunk \/ (octree.start < Depth /\ octree'.start = Depth))
    /\ calm' = TRUE
    /\ UNCHANGED <<kind, sharedVars, items, vectorVars, checkVars>>

ClearItems ==
    /\ kind = "octree"
    /\ octree' = NewOctree
    /\ items' = [p \in Position |-> InvalidItem]
    /\ shrunk' = FALSE /\ calm' = FALSE
    /\ UNCHANGED <<kind, sharedVars, vectorVars, checkVars>>

(* A call on the vector that makes it new and the list result. *)
Call(new, result) ==
    /\ kind = "vector" /\ ~undefined
    /\ vector' = new /\ list' = result
    /\ UNCHANGED <<kind, sharedVars, octreeVars, checkVars, undefined>>

(* The list, when the vector becomes new. *)
ListIn(new) == IF new.heap /\ ~vector.heap THEN [i \in DOMAIN list |-> Garbage] ELSE list

Reserve(n) == LET new == reserve(vector, n) IN Call(new, ListIn(new))

PushBack(value) ==
    /\ Len(list) < MaxLen
    /\ LET new == emplace_back(vector, value) IN Call(new, Append(ListIn(new), value))

(* The new block lies behind the old one: from here on nothing is known. *)
PushOutside ==
    /\ kind = "vector" /\ ~undefined
    /\ Len(list) < MaxLen /\ ShiftsOutside(vector)
    /\ undefined' = TRUE
    /\ UNCHANGED <<kind, sharedVars, octreeVars, checkVars, vector, list>>

PopBack == list # <<>> /\ Call(pop_back(vector), Front(list))

Erase(first, last) ==
    Call(erase(vector, first, last), SubSeq(list, 1, first - 1) \o SubSeq(list, last, Len(list)))

UnorderedErase(i) ==
    Call(unordered_erase_it(vector, i), Front([list EXCEPT ![i] = Last(list)]))

ClearVector == Call(clear(vector), <<>>)

Holds(t, write) == \E i \in DOMAIN held[t] : write => held[t][i].write

OthersHold(thread, write) == \E t \in Thread \ {thread} : Holds(t, write)

(* A thread enters a function that reads or writes the object, ... *)
BeginCheck(thread, write) ==
    LET o  == IF inMap THEN entry ELSE ThreadObject
        ok == Asserted(o, thread, write)
    IN  /\ kind = "checker" /\ ~alarm
        /\ Len(held[thread]) < MaxNested
        /\ alarm' = ~ok
        /\ entry' = IF ok THEN Construct(o, thread, write) ELSE o
        /\ inMap' = TRUE
        /\ held' = IF ok THEN [held EXCEPT ![thread] =
                                 Append(@, [write |-> write, m_write |-> CountsAsWrite(o, thread, write)])]
                         ELSE held
        /\ raced' = (raced \/ OthersHold(thread, ~write))
        /\ doubled' = (doubled \/ (write /\ OthersHold(thread, TRUE)))
        /\ UNCHANGED <<kind, sharedVars, octreeVars, vectorVars>>

(* ... and leaves the one it entered last. *)
EndCheck(thread) ==
    /\ kind = "checker" /\ ~alarm
    /\ held[thread] # <<>>
    /\ entry' = Destruct(entry, thread, Last(held[thread]).m_write)
    /\ inMap' = Kept(entry')
    /\ held' = [held EXCEPT ![thread] = Front(@)]
    /\ UNCHANGED <<kind, sharedVars, octreeVars, vectorVars, alarm, raced, doubled>>

(* A thread uses the spin lock. *)
UseLock(t) ==
    /\ kind = "lock"
    /\ SpinThread(t)
    /\ UNCHANGED <<kind, octreeVars, vectorVars, checkVars, mapVars, loaderVars, configVars>>

(* A thread uses the mapped file, or it is opened, closed or cut. *)
UseFile ==
    /\ kind = "file"
    /\ MapNext
    /\ UNCHANGED <<kind, octreeVars, vectorVars, checkVars, spinVars, loaderVars, configVars>>

(* LoaderLoadNodes, with the loader a quarter of a node further. *)
MoveLoader(a, d) ==
    /\ kind = "loader"
    /\ loader' = [loader EXCEPT ![a] = @ + d] /\ loader' \in LoaderPosition
    /\ touched' = ForEachCoordInSphere(loader', DistPerLod)
    /\ UNCHANGED <<kind, octreeVars, vectorVars, checkVars, spinVars, mapVars, configVars>>

UseConfig ==
    /\ kind = "config"
    /\ ConfigNext
    /\ UNCHANGED <<kind, octreeVars, vectorVars, checkVars, spinVars, mapVars, loaderVars>>

Kind == {"octree", "vector", "checker", "lock", "file", "loader", "config"}

Init ==
    /\ kind \in Kind
    /\ octree = NewOctree /\ items = [p \in Position |-> InvalidItem]
    /\ shrunk = FALSE /\ calm = FALSE
    /\ vector = NewVector /\ list = <<>> /\ undefined = FALSE
    /\ entry = ThreadObject /\ inMap = FALSE
    /\ held = [t \in Thread |-> <<>>]
    /\ alarm = FALSE /\ raced = FALSE /\ doubled = FALSE
    /\ SpinInit /\ MapInit /\ ConfigInit
    /\ loader = <<0, 0, 0>> /\ touched = ForEachCoordInSphere(loader, DistPerLod)

Next ==
    \/ \E p \in Position, v \in Item \union {InvalidItem} : SetItem(p, v)
    \/ Shrink
    \/ ClearItems
    \/ \E n \in 1 .. MaxLen : Reserve(n)
    \/ \E v \in Value : PushBack(v)
    \/ PushOutside
    \/ PopBack
    \/ \E first, last \in 1 .. Len(list) + 1 : first < last /\ Erase(first, last)
    \/ \E i \in DOMAIN list : UnorderedErase(i)
    \/ ClearVector
    \/ \E t \in Thread, write \in BOOLEAN : BeginCheck(t, write)
    \/ \E t \in Thread : EndCheck(t)
    \/ \E t \in Owner : UseLock(t)
    \/ UseFile
    \/ \E a \in Axis, d \in {-1, 1} : MoveLoader(a, d)
    \/ UseConfig

Spec == Init /\ [][Next]_vars

-----------------------------------------------------------------------------
(* Properties *)

TypeOK ==
    /\ kind \in Kind
    /\ SpinTypeOK /\ MapTypeOK
    /\ octree.start \in 0 .. Depth /\ InOctree(octree.mask)
    /\ octree.single \in Item \union {InvalidItem}
    /\ vector.m_size \in Nat /\ vector.m_capacity \in Nat /\ vector.heap \in BOOLEAN
    /\ entry.write \in Thread \union {NoThread} /\ entry.write_recursion \in Nat
    /\ {inMap, alarm, raced, doubled} \subseteq BOOLEAN

(* Get returns what was set last at a position. *)
GetExact == \A p \in Position : Get(octree, p) = items[p]

(* Iterate calls the callback once for each item, with its position. *)
IterateExact ==
    LET seen == Iterate(octree)
    IN  /\ Range(seen) = {[pos |-> p, item |-> items[p]] : p \in {q \in Position : items[q] # InvalidItem}}
        /\ IsInjective(seen)

(* Through all the roots that are put in front and all rebuilding the octree *)
(* finds and iterates what was set, unless it was shrunk to a single item;   *)
(* its nodes fill the block and are all linked.  ShrinkToFit leaves no empty *)
(* node and no superfluous root: "Rebuild the octree by rebalancing the tree *)
(* and removing all empty items and branches".                               *)
OctreeExact ==
    /\ TypeOK
    /\ ~shrunk => GetExact /\ IterateExact
    /\ BlockExact(octree)
    /\ calm => Minimal(octree)

(* Through every sequence of calls, and on the heap through every larger     *)
(* block, the vector holds what was pushed and not removed, in order; only   *)
(* the items that were in its own cells when it left them are not known any  *)
(* more, and they keep their number.  It stays inside of its memory, as long *)
(* as no shift left it.                                                      *)
VectorHolds ==
    /\ Contents(vector) = list
    /\ Len(vector.cells) = vector.m_capacity
    /\ vector.m_size = Len(list) /\ vector.m_size <= vector.m_capacity

VectorExact == ~undefined => VectorHolds

(* "Uses a static buffer until its filled": a vector that has grown still    *)
(* holds its items.                                                          *)
VectorGrows == Garbage \notin Range(Contents(vector))

(* "No other thread should be writing if we want to read", "No other thread  *)
(* should be reading if we want to write": while the program runs no thread  *)
(* uses what another one writes, as long as no two threads wrote together,   *)
(* which the checker lets pass.                                              *)
ReadersAlone ==
    ~doubled => \A r, w \in Thread : r # w /\ Holds(w, TRUE) => ~Holds(r, FALSE)

(* "No other thread should be reading if we want to write": no thread writes *)
(* beside another one that reads.  The read of a thread that writes as well  *)
(* is not in the list of readers, and a second writer is only counted.       *)
NoOtherWriter ==
    ~alarm =>
        \A r, w \in Thread :
            r # w /\ Holds(w, TRUE) => \A i \in DOMAIN held[r] : held[r][i].write

(* The checkers on all stacks that count as writers, or that do not.          *)
OnStacks(b) ==
    {c \in Thread \X (1 .. MaxNested) : c[2] \in DOMAIN held[c[1]] /\ held[c[1]][c[2]].m_write = b}

(* The map has an entry as long as a checker is on some stack, and the entry *)
(* counts them.                                                              *)
EntryExact ==
    ~alarm =>
        /\ inMap <=> \E t \in Thread : held[t] # <<>>
        /\ inMap => /\ entry.write_recursion = Cardinality(OnStacks(TRUE))
                    /\ Len(entry.read) = Cardinality(OnStacks(FALSE))

(* In whatever order threads come and go, the checker misses no reader beside *)
(* a writer, its entries are exact, and an assertion only fails when two      *)
(* threads have used the object at a time and one of them wrote it.           *)
CheckerExact == ReadersAlone /\ EntryExact /\ (alarm => raced)

(* A loader touches the node it is in, no node whose middle is outside of    *)
(* its sphere, and every other one that lies within the cube around the      *)
(* sphere: on both sides of the origin, where the numbers are cut upwards,   *)
(* the only nodes it misses are some that stick out of that cube.            *)
SphereCovered ==
    kind = "loader" =>
        /\ NodeOf(loader) \in touched
        /\ touched \subseteq Inside(loader, DistPerLod)
        /\ \A it \in Inside(loader, DistPerLod) \ touched :
             \E a \in Axis : SticksOut(loader, DistPerLod, it, a)

(* "Run a callback for all the nodes in a sphere": the loops reach all nodes *)
(* that their own comparison of distances accepts.                           *)
SphereAll == kind = "loader" => Inside(loader, DistPerLod) \subseteq touched

-----------------------------------------------------------------------------
(* What keeps VectorExact and CheckerExact true.                             *)

(* Of the vector after an undefined shift there are no states to speak of.   *)
VectorInv ==
    /\ vector \in [m_size : Nat, m_capacity : Nat \ {0}, heap : BOOLEAN,
                   cells : Seq(Value \union {Garbage})]
    /\ list \in Seq(Value \union {Garbage})
    /\ VectorHolds

(* Every checker that does not count as a writer has its own place in the    *)
(* list of readers, with its thread, and there are no other places.          *)
ReadersListed ==
    \E place \in Bijection(OnStacks(FALSE), DOMAIN entry.read) :
        \A c \in OnStacks(FALSE) : entry.read[place[c]] = c[1]

(* The checkers that count as writers are counted, and there is a writer as   *)
(* long as there are some.                                                   *)
WritersCounted ==
    /\ IsFiniteSet(OnStacks(TRUE)) /\ entry.write_recursion = Cardinality(OnStacks(TRUE))
    /\ entry.write = NoThread <=> entry.write_recursion = 0

(* As long as no two threads wrote together, the writer that is noted is the  *)
(* only one, is the only reader too, and wrote before it read.               *)
OneWriter ==
    ~doubled =>
        /\ \A c \in OnStacks(TRUE) : c[1] = entry.write
        /\ \A c \in OnStacks(TRUE) : \E i \in 1 .. c[2] : held[c[1]][i].write
        /\ entry.write # NoThread => OnlyPresent(entry.read, entry.write)

CheckTypeOK ==
    /\ held \in [Thread -> Seq([write : BOOLEAN, m_write : BOOLEAN])]
    /\ \A t \in Thread : Len(held[t]) <= MaxNested
    /\ \A t \in Thread : \A i \in DOMAIN held[t] : held[t][i].write => held[t][i].m_write
    /\ entry \in [write : Thread \union {NoThread}, write_recursion : Nat, read : Seq(Thread)]
    /\ {inMap, alarm, raced, doubled} \subseteq BOOLEAN

CheckInv ==
    /\ CheckTypeOK /\ ReadersListed /\ WritersCounted /\ OneWriter
    /\ inMap <=> \E t \in Thread : held[t] # <<>>
    /\ (alarm \/ doubled) => raced
=============================================================================
