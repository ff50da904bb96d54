---------------------------- MODULE ThreadChecker ---------------------------
(***************************************************************************)
(* The debug build's check that an object is not written while another     *)
(* thread uses it (Util/Debug.cpp).  Every function that uses an object    *)
(* has a DebugThreadChecker on its stack; the constructor and the          *)
(* destructor change the object's entry in a map, under a lock.            *)
(*                                                                         *)
(* The module defines what the two do to an entry; Utilities lets threads  *)
(* call them.  The list of readers is a GrowingSmallVector that is kept    *)
(* within its own cells, where SmallVector shows that it is exact.         *)
(***************************************************************************)
EXTENDS Integers, Sequences, SequencesExt

CONSTANTS
    Thread,         \* the threads that use the object
    NoThread        \* std::thread::id{}

(* The entry of an object that is not in the map. *)
ThreadObject == [write |-> NoThread, write_recursion |-> 0, read |-> <<>>]

OnlyPresent(storage, target) == \A i \in DOMAIN storage : storage[i] = target

(* What the constructor asserts; a failed assertion ends the program. *)
Asserted(o, thread, write) ==
    IF write THEN OnlyPresent(o.read, thread) ELSE o.write \in {thread, NoThread}

(* Whether the checker counts as a writer: a reader that writes already does. *)
CountsAsWrite(o, thread, write) == write \/ o.write = thread

(* The constructor: the first writer is noted, a reader is put in the list. *)
Construct(o, thread, write) ==
    IF CountsAsWrite(o, thread, write)
      THEN [o EXCEPT !.write = IF o.write_recursion = 0 THEN thread ELSE @,
                     !.write_recursion = @ + 1]
      ELSE [o EXCEPT !.read = Append(@, thread)]

(* The first entry equal to the thread is overwritten by the last. *)
EraseReader(read, thread) ==
    LET found == {i \in DOMAIN read : read[i] = thread}
        first == CHOOSE i \in found : \A j \in found : i <= j
    IN  IF found = {} THEN read ELSE Front([read EXCEPT ![first] = Last(read)])

(* Mutant: the writer is forgotten when one of its writes ends. *)
DestructForgets(o, thread, m_write) ==
    IF m_write THEN [o EXCEPT !.write_recursion = @ - 1, !.write = NoThread]
               ELSE [o EXCEPT !.read = EraseReader(@, thread)]

(* The destructor of a checker. *)
Destruct(o, thread, m_write) ==
    IF m_write
      THEN [o EXCEPT !.write_recursion = @ - 1,
                     !.write = IF o.write_recursion = 1 THEN NoThread ELSE @]
      ELSE [o EXCEPT !.read = EraseReader(@, thread)]

(* Whether the destructor leaves the entry in the map. *)
Kept(o) == o.read # <<>> \/ o.write # NoThread
=============================================================================
