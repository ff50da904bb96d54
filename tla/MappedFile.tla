----------------------------- MODULE MappedFile -----------------------------
(***************************************************************************)
(* The file that the region database is in (MemoryMapParallelFile): the    *)
(* threads of the pool read, write and append to it at a time.  file_size_ *)
(* and map_size_ are atomic numbers that are read and changed without the  *)
(* lock; the lock only keeps the mapping from moving while a thread has a  *)
(* zone of it.                                                             *)
(*                                                                         *)
(* The lock is a SpinSharedMutex: what SpinLocks shows of it is used here, *)
(* a thread has it for itself or shares it.  What is done under the whole  *)
(* lock is one step, because map_size_ is stored last.                     *)
(*                                                                         *)
(* Synchronize, which makes the mapping smaller, has no caller in this     *)
(* program, and the database would call it alone.                          *)
(***************************************************************************)
EXTENDS Integers

CONSTANTS
    Caller,         \* the threads that use the file
    MaxFile,        \* bound on the size of the file
    ZoneSize,       \* the sizes of what is appended, written and read
    MaxMap,         \* bound on the size of the mapping
    AllocInit,      \* alloc_init_size_
    PageSize        \* PAGE_SIZE

ASSUME MappedAssumption ==
    /\ MaxFile \in Nat /\ MaxMap \in Nat /\ AllocInit \in Nat
    /\ PageSize \in Nat \ {0}
    /\ ZoneSize \subseteq 1 .. MaxFile
    /\ MaxFile <= MaxMap /\ AllocInit <= MaxMap

VARIABLES
    disk,       \* the size the file system has for the file
    isOpen,     \* fd_ >= 0
    fileSize,   \* file_size_
    mapSize,    \* map_size_
    address,    \* map_: 0 is null; 1 and 2 take turns when it may have moved
    call,       \* what each thread does with the file
    given       \* how many calls were given each place of the file

mapVars == <<disk, isOpen, fileSize, mapSize, address, call, given>>

Place == 0 .. MaxFile - 1

(* append: the zone is at the end of the file, wherever that is by then.    *)
FileCall == [pc : {"idle", "allocate", "remap", "reserve", "share", "hold"},
         off : 0 .. MaxFile, size : 0 .. MaxFile, append : BOOLEAN, base : 0 .. 2]

NoCall == [pc |-> "idle", off |-> 0, size |-> 0, append |-> FALSE, base |-> 0]

EndOf(t) == call[t].off + call[t].size

AllIdle == \A t \in Caller : call[t] = NoCall

Larger(a, b) == IF a >= b THEN a ELSE b

(* AlignNumber.                                                             *)
Aligned(n) == IF (n % PageSize) > 0 THEN n + (PageSize - (n % PageSize)) ELSE n

(* What a mapping is made for a file of a size.                             *)
MapFor(size) == Aligned(Larger(Larger(size, AllocInit), 1))

Counted(first, last) == [p \in Place |-> IF p \in first .. last THEN given[p] + 1 ELSE given[p]]

Goes(t, c) == call' = [call EXCEPT ![t] = c]

To(t, pc) == Goes(t, [call[t] EXCEPT !.pc = pc])

-----------------------------------------------------------------------------
(* One thread, before or after all the others.                              *)

(* The file is made as large as the mapping.                                *)
Open ==
    /\ ~isOpen /\ AllIdle
    /\ MapFor(disk) <= MaxMap /\ disk <= MaxFile
    /\ isOpen' = TRUE
    /\ fileSize' = disk
    /\ mapSize' = MapFor(disk) /\ disk' = MapFor(disk)
    /\ address' = 1
    /\ given' = [p \in Place |-> IF p < disk THEN 1 ELSE 0]
    /\ UNCHANGED call

(* And gets its own size back.                                              *)
Close ==
    /\ isOpen /\ AllIdle
    /\ isOpen' = FALSE
    /\ disk' = fileSize
    /\ fileSize' = 0 /\ mapSize' = 0 /\ address' = 0
    /\ UNCHANGED <<call, given>>

(* The mapping is changed first, then the file.                             *)
Truncate(size) ==
    /\ isOpen /\ AllIdle
    /\ MapFor(size) <= MaxMap
    /\ mapSize' = MapFor(size) /\ disk' = MapFor(size)
    /\ address' = 3 - address
    /\ fileSize' = size
    /\ given' = [p \in Place |-> IF p < size THEN 1 ELSE 0]
    /\ UNCHANGED <<isOpen, call>>

(* The process is killed: the file keeps the size of the mapping.           *)
Kill ==
    /\ isOpen
    /\ isOpen' = FALSE
    /\ fileSize' = 0 /\ mapSize' = 0 /\ address' = 0
    /\ call' = [t \in Caller |-> NoCall]
    /\ UNCHANGED <<disk, given>>

-----------------------------------------------------------------------------
(* A zone of the file: to append, to write or to read.                      *)

BeginAppend(t, size) ==
    /\ isOpen /\ call[t] = NoCall
    /\ fileSize + size <= MaxFile
    /\ Goes(t, [NoCall EXCEPT !.pc = "allocate", !.off = fileSize, !.size = size, !.append = TRUE])
    /\ UNCHANGED <<disk, isOpen, fileSize, mapSize, address, given>>

BeginWrite(t, off, size) ==
    /\ isOpen /\ call[t] = NoCall
    /\ off + size <= MaxFile
    /\ Goes(t, [NoCall EXCEPT !.pc = "allocate", !.off = off, !.size = size])
    /\ UNCHANGED <<disk, isOpen, fileSize, mapSize, address, given>>

(* A read is cut at the end of the file.                                    *)
BeginRead(t, off, size) ==
    /\ isOpen /\ call[t] = NoCall
    /\ off <= fileSize
    /\ Goes(t, [NoCall EXCEPT !.pc = "share", !.off = off,
                              !.size = IF off + size <= fileSize THEN size ELSE fileSize - off])
    /\ UNCHANGED <<disk, isOpen, fileSize, mapSize, address, given>>

(* AllocateSpace without the lock, ...                                      *)
CheckSpace(t) ==
    /\ call[t].pc = "allocate"
    /\ To(t, IF EndOf(t) <= mapSize THEN "reserve" ELSE "remap")
    /\ UNCHANGED <<disk, isOpen, fileSize, mapSize, address, given>>

NewMapSize(t) == Aligned(Larger(Larger(EndOf(t), 2 * mapSize), PageSize))

(* ... and with it, when no thread has a zone: another one may have made    *)
(* the mapping large enough.                                                *)
Remap(t) ==
    /\ call[t].pc = "remap"
    /\ \A u \in Caller : call[u].pc # "hold"
    /\ IF EndOf(t) <= mapSize
       THEN UNCHANGED <<mapSize, disk, address>>
       ELSE /\ NewMapSize(t) <= MaxMap
            /\ disk' = NewMapSize(t) /\ mapSize' = NewMapSize(t)
            /\ address' = 3 - address
    /\ To(t, "reserve")
    /\ UNCHANGED <<isOpen, fileSize, given>>

(* The file system has no more space: the call fails and leaves everything   *)
(* as it was.                                                               *)
RemapFails(t) ==
    /\ call[t].pc = "remap" /\ EndOf(t) > mapSize
    /\ \A u \in Caller : call[u].pc # "hold"
    /\ Goes(t, NoCall)
    /\ UNCHANGED <<disk, isOpen, fileSize, mapSize, address, given>>

(* Mutant: the new size is stored without a comparison. *)
TakeEnd_Stores(t) ==
    /\ call[t].pc = "reserve"
    /\ fileSize' = EndOf(t)
    /\ given' = Counted(IF call[t].append THEN call[t].off ELSE fileSize, EndOf(t) - 1)
    /\ To(t, "share")
    /\ UNCHANGED <<disk, isOpen, mapSize, address>>

(* The end of the file is where it was when this thread looked, and it is    *)
(* moved behind the zone; or the thread looks again.                        *)
TakeEnd(t) ==
    /\ call[t].pc = "reserve"
    /\ \/ /\ call[t].append /\ fileSize = call[t].off
          /\ fileSize' = EndOf(t)
          /\ given' = Counted(call[t].off, EndOf(t) - 1)
          /\ To(t, "share")
       \/ /\ call[t].append /\ fileSize + call[t].size <= MaxFile
          /\ Goes(t, [call[t] EXCEPT !.pc = "allocate", !.off = fileSize])
          /\ UNCHANGED <<fileSize, given>>
       \/ /\ ~call[t].append
          /\ fileSize' = Larger(fileSize, EndOf(t))
          /\ given' = Counted(fileSize, EndOf(t) - 1)
          /\ To(t, "share")
    /\ UNCHANGED <<disk, isOpen, mapSize, address>>

(* The zone has the lock from here on, and the pointer is made.             *)
Share(t) ==
    /\ call[t].pc = "share"
    /\ Goes(t, [call[t] EXCEPT !.pc = "hold", !.base = address])
    /\ UNCHANGED <<disk, isOpen, fileSize, mapSize, address, given>>

Release(t) ==
    /\ call[t].pc = "hold"
    /\ Goes(t, NoCall)
    /\ UNCHANGED <<disk, isOpen, fileSize, mapSize, address, given>>

MapInit ==
    /\ disk = 0 /\ isOpen = FALSE
    /\ fileSize = 0 /\ mapSize = 0 /\ address = 0
    /\ call = [t \in Caller |-> NoCall]
    /\ given = [p \in Place |-> 0]

MapThread(t) ==
    \/ \E n \in ZoneSize : BeginAppend(t, n)
    \/ \E o \in 0 .. MaxFile, n \in ZoneSize : BeginWrite(t, o, n) \/ BeginRead(t, o, n)
    \/ CheckSpace(t) \/ Remap(t) \/ RemapFails(t) \/ TakeEnd(t) \/ Share(t) \/ Release(t)

MapNext ==
    \/ Open \/ Close \/ Kill
    \/ \E size \in 0 .. MaxFile : Truncate(size)
    \/ \E t \in Caller : MapThread(t)

MapSpec == MapInit /\ [][MapNext]_mapVars

-----------------------------------------------------------------------------
(* Properties *)

MapTypeOK ==
    /\ disk \in 0 .. MaxMap /\ isOpen \in BOOLEAN
    /\ fileSize \in 0 .. MaxFile /\ mapSize \in 0 .. MaxMap /\ address \in 0 .. 2
    /\ call \in [Caller -> FileCall]
    /\ given \in [Place -> Nat]

(* A thread that has a zone may use every place of it: the mapping has not   *)
(* moved since the pointer was made, covers the zone, and so does the file,   *)
(* although neither file_size_ nor map_size_ is read under the lock.          *)
ZonesMapped ==
    \A t \in Caller : call[t].pc = "hold" =>
        /\ isOpen /\ call[t].base = address
        /\ EndOf(t) <= mapSize /\ mapSize <= disk
        /\ EndOf(t) <= fileSize

(* Every place of the file was given out once, however many threads append   *)
(* at a time: no two records overlap, and no place is lost between them.      *)
PlacesGivenOnce ==
    isOpen => \A p \in Place : given[p] = IF p < fileSize THEN 1 ELSE 0

FileShared == ZonesMapped /\ PlacesGivenOnce
=============================================================================
