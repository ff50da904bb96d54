---------------------------- MODULE HashDatabase ----------------------------
(***************************************************************************)
(* One shard of the region database (ShardDBM of HashDBM, as LoadWorld     *)
(* opens it: in place, no CRC, automatic restoration), with the threads of *)
(* the pool that call Set and a process that may be killed at any step.    *)
(*                                                                         *)
(* The file is mapped, so what a killed process has written stays.  It     *)
(* holds metadata, the buckets, the saved pool of free blocks, and records *)
(* one behind the other; every record names the next one of its bucket.    *)
(* Sizes and offsets are in units of the alignment.  Records never split   *)
(* or merge.  A record whose writing was cut is torn: its checksum does    *)
(* not match.  An offset of four bytes is written as a whole.              *)
(*                                                                         *)
(* Remove, Rebuild, iterators, appending mode, compression and the update  *)
(* log have no caller in this program.                                     *)
(***************************************************************************)
EXTENDS Integers, Sequences, FiniteSets, FiniteSetsExt, Functions

CONSTANTS
    Key, Value, None,
    Size,               \* the size of a record with each value
    Bucket, BucketOf,   \* the bucket of every key
    Thread,
    MaxSize,            \* bound on the size of the file
    PoolCapacity,       \* fbp_capacity
    ValidationCount,    \* VALIDATION_COUNT of FindNextOffset
    MaxShiftTries       \* MAX_SHIFT_TRIES of FindNextOffset

ASSUME DatabaseAssumption ==
    /\ MaxSize \in Nat \ {0}
    /\ Size \in [Value -> 1 .. MaxSize]
    /\ BucketOf \in [Key -> Bucket]
    /\ None \notin Key \union Value
    /\ PoolCapacity \in Nat \ {0} /\ ValidationCount \in Nat \ {0} /\ MaxShiftTries \in Nat

(* A Set that a thread is in. *)
OpenSet == [pc : {"place", "write", "link", "void", "free"}, key : Key, val : Value,
            cur : 0 .. MaxSize, par : 0 .. MaxSize, child : 0 .. MaxSize,
            dest : 0 .. MaxSize, size : 1 .. MaxSize, was : Value \union {None}]

ASSUME NoneAssumption == None \notin OpenSet /\ None \notin [key : Key, val : Value]

VARIABLES
    file,       \* the file on the disk
    tmp,        \* the file path.tmp.restore, or None
    phase,      \* what the process is doing; "down": there is none, or it
                \* has the database closed
    end,        \* file_size_ of the mapped file
    pool,       \* fbp_
    op,         \* the Set that each thread is in, or None
    cutClose,   \* the process was killed between the last two writes of Close,
                \* and the saved pool has been used since
    broken,     \* a Set has begun while the pool had a block that was in use
    content     \* Visible: what a Get of every key returns

vars == <<file, tmp, phase, end, pool, op, cutClose, broken, content>>

Base == 1

Block == [offset : Base .. MaxSize, size : 1 .. MaxSize]

Void(size) == [size |-> size, type |-> "void", key |-> None, val |-> None, child |-> 0]
Torn(size) == [size |-> size, type |-> "torn", key |-> None, val |-> None, child |-> 0]

(* meta: absent, bare (no magic data yet), closed (with CLOSURE_FLAG_CLOSE), *)
(* open (without), torn (the two cyclic magics differ); synced: the size of  *)
(* the file that the metadata has; saved: the section of the pool.           *)
NewFile(meta) ==
    [meta |-> meta, synced |-> Base, saved |-> {},
     bucket |-> [b \in Bucket |-> 0], recs |-> <<>>]

(* The records of new in front of those of recs. *)
Over(new, recs) ==
    [o \in DOMAIN recs \union DOMAIN new |-> IF o \in DOMAIN new THEN new[o] ELSE recs[o]]

WriteRecord(f, o, rec) == [f EXCEPT !.recs = Over([p \in {o} |-> rec], @)]

-----------------------------------------------------------------------------
(* The chains of records.                                                   *)

Child(f, o) == IF o \in DOMAIN f.recs THEN f.recs[o].child ELSE 0

(* What a walk of at most n records finds from the one at o.                *)
Walk(f) ==
    LET from[n \in 0 .. MaxSize] ==
            [o \in 0 .. MaxSize |-> IF n = 0 \/ o = 0 THEN <<>> ELSE <<o>> \o from[n - 1][Child(f, o)]]
    IN  from

Chain(f, b) == Walk(f)[MaxSize][f.bucket[b]]

(* Where the record of a key is, and the one in front of it.                *)
Find(f, k) ==
    LET chain == Chain(f, BucketOf[k])
        hits  == {i \in DOMAIN chain : chain[i] \in DOMAIN f.recs /\ f.recs[chain[i]].key = k}
    IN  IF hits = {} THEN [cur |-> 0, par |-> 0]
        ELSE LET i == Min(hits)
             IN  [cur |-> chain[i], par |-> IF i = 1 THEN 0 ELSE chain[i - 1]]

(* Get.                                                                     *)
Lookup(f, k) == LET o == Find(f, k).cur IN IF o = 0 THEN None ELSE f.recs[o].val

-----------------------------------------------------------------------------
(* The pool of free blocks, ordered by size and then by offset.             *)

Before(b, c) == b.size < c.size \/ (b.size = c.size /\ b.offset < c.offset)
First(blocks) == CHOOSE b \in blocks : \A c \in blocks \ {b} : Before(b, c)

InsertFreeBlock(blocks, b) ==
    IF Cardinality(blocks) < PoolCapacity THEN blocks \union {b}
    ELSE IF b.size <= First(blocks).size THEN blocks
    ELSE (blocks \ {First(blocks)}) \union {b}

FetchFreeBlock(blocks, size) ==
    LET fit == {b \in blocks : b.size >= size}
    IN  IF fit = {} THEN {} ELSE {First(fit)}

-----------------------------------------------------------------------------
(* The steps of Set.  A db has a file, the end of it and a pool.            *)

(* A record that is large enough is written over; otherwise a new one is    *)
(* needed.                                                                  *)
Started(f, k, v) ==
    LET at   == Find(f, k)
        fits == at.cur # 0 /\ Size[v] <= f.recs[at.cur].size
    IN  [pc |-> IF fits THEN "write" ELSE "place", key |-> k, val |-> v,
         cur |-> at.cur, par |-> at.par,
         child |-> IF at.cur # 0 THEN f.recs[at.cur].child ELSE f.bucket[BucketOf[k]],
         dest |-> IF fits THEN at.cur ELSE 0,
         size |-> IF fits THEN f.recs[at.cur].size ELSE Size[v],
         was |-> Lookup(f, k)]

(* Mutant: a free block stays in the pool when it is taken. *)
Placed_Kept(db, s) ==
    LET free == FetchFreeBlock(db.pool, s.size)
        b    == CHOOSE b \in free : TRUE
    IN  IF free = {}
        THEN [db |-> [db EXCEPT !.end = @ + s.size], s |-> [s EXCEPT !.pc = "write", !.dest = db.end]]
        ELSE [db |-> db, s |-> [s EXCEPT !.pc = "write", !.dest = b.offset, !.size = b.size]]

(* The smallest free block that is large enough, or the end of the file.    *)
Placed(db, s) ==
    LET free == FetchFreeBlock(db.pool, s.size)
        b    == CHOOSE b \in free : TRUE
    IN  IF free = {}
        THEN [db |-> [db EXCEPT !.end = @ + s.size], s |-> [s EXCEPT !.pc = "write", !.dest = db.end]]
        ELSE [db |-> [db EXCEPT !.pool = @ \ free],
              s  |-> [s EXCEPT !.pc = "write", !.dest = b.offset, !.size = b.size]]

Written(f, s) ==
    WriteRecord(f, s.dest, [size |-> s.size, type |-> "live", key |-> s.key, val |-> s.val, child |-> s.child])

(* Mutant: the bucket is set although another record is in front. *)
Linked_Bucket(f, s) == [f EXCEPT !.bucket[BucketOf[s.key]] = s.dest]

Linked(f, s) ==
    IF s.par # 0 THEN [f EXCEPT !.recs[s.par].child = s.dest]
                 ELSE [f EXCEPT !.bucket[BucketOf[s.key]] = s.dest]

(* Mutant: the old record stays as it is. *)
Voided_Skipped(f, s) == f

Voided(f, s) == WriteRecord(f, s.cur, Void(f.recs[s.cur].size))

Freed(f, blocks, s) == InsertFreeBlock(blocks, [offset |-> s.cur, size |-> f.recs[s.cur].size])

(* What is left to do when the record is written and when it is linked.     *)
AfterWrite(s) == IF s.dest = s.cur THEN None ELSE [s EXCEPT !.pc = "link"]
AfterLink(s)  == IF s.cur = 0 THEN None ELSE [s EXCEPT !.pc = "void"]

(* The next step of a thread that is alone, and all of them.                *)
At(d, pc) == d.s # None /\ d.s.pc = pc
InFile(d, f, s) == [db |-> [d.db EXCEPT !.file = f], s |-> s]
InPool(d, blocks) == [db |-> [d.db EXCEPT !.pool = blocks], s |-> None]

Stepped(d) ==
    IF      At(d, "place") THEN Placed(d.db, d.s)
    ELSE IF At(d, "write") THEN InFile(d, Written(d.db.file, d.s), AfterWrite(d.s))
    ELSE IF At(d, "link")  THEN InFile(d, Linked(d.db.file, d.s), AfterLink(d.s))
    ELSE IF At(d, "void")  THEN InFile(d, Voided(d.db.file, d.s), [d.s EXCEPT !.pc = "free"])
    ELSE IF At(d, "free")  THEN InPool(d, Freed(d.db.file, d.db.pool, d.s))
    ELSE d

Twice(d) == Stepped(Stepped(d))

Set(db, k, v) == Twice(Twice(Stepped([db |-> db, s |-> Started(db.file, k, v)]))).db

-----------------------------------------------------------------------------
(* What Open finds in a file that was not closed.                           *)

Readable(f, o) == o \in DOMAIN f.recs /\ f.recs[o].type # "torn"

EndOf(f) == Max({Base} \union {o + f.recs[o].size : o \in DOMAIN f.recs})

(* How many records can be read one behind the other from each offset.      *)
RunFrom(f) ==
    LET run[o \in Base .. 3 * MaxSize] == IF Readable(f, o) THEN 1 + run[o + f.recs[o].size] ELSE 0
    IN  run

ValidateHashBuckets(f) ==
    \A b \in Bucket : f.bucket[b] # 0 =>
        /\ Readable(f, f.bucket[b])
        /\ f.recs[f.bucket[b]].type = "live"
        /\ BucketOf[f.recs[f.bucket[b]].key] = b

(* A record that is not in the chain of its bucket is an error, and so is   *)
(* what cannot be read, unless there are only zeros from there on.          *)
Checked(f) ==
    LET seen[o \in Base .. 3 * MaxSize] ==
            IF Readable(f, o)
            THEN /\ f.recs[o].type = "live" => o \in Range(Chain(f, BucketOf[f.recs[o].key]))
                 /\ f.recs[o].type = "live" /\ f.recs[o].child # 0 =>
                        /\ Readable(f, f.recs[o].child)
                        /\ f.recs[f.recs[o].child].type = "live"
                        /\ BucketOf[f.recs[f.recs[o].child].key] = BucketOf[f.recs[o].key]
                 /\ seen[o + f.recs[o].size]
            ELSE \A p \in DOMAIN f.recs : p < o
    IN  seen

ValidateRecords(f) == Checked(f)[Base]

Shortcut(f) == f.meta = "open" /\ ValidateHashBuckets(f) /\ ValidateRecords(f)

(* OpenImpl has cut the zeros behind the last synchronized size off if there *)
(* was nothing else there.                                                  *)
ZeroTail(f) == f.meta = "torn" \/ \E o \in DOMAIN f.recs : o >= f.synced

(* The next offset from which enough records follow, or the records up to   *)
(* the end of the file.                                                     *)
FindNextOffset(f, o) ==
    LET run   == RunFrom(f)
        ToEnd(p) ==
            LET to[q \in Base .. 3 * MaxSize] == IF Readable(f, q) THEN to[q + f.recs[q].size] ELSE q
            IN  to[p] = EndOf(f)
        found == {p \in o + 1 .. Min({EndOf(f), o + MaxShiftTries}) :
                    /\ run[p] > 0
                    /\ \/ run[p] > ValidationCount
                       \/ ~ZeroTail(f) /\ run[p] > 1 /\ ToEnd(p)}
    IN  IF found = {} THEN 0 ELSE Min(found)

(* Mutant: the records before the last synchronized size are not read. *)
Replayed_Synced(f) ==
    LET from[o \in Base .. 3 * MaxSize] ==
            IF Readable(f, o) THEN <<o>> \o from[o + f.recs[o].size]
            ELSE IF o >= EndOf(f) \/ FindNextOffset(f, o) = 0 THEN <<>>
            ELSE from[FindNextOffset(f, o)]
    IN  from[f.synced]

(* The offsets of the records that ReplayOperations reads, from each offset. *)
ReplayedFrom(f) ==
    LET from[o \in Base .. 3 * MaxSize] ==
            IF Readable(f, o) THEN <<o>> \o from[o + f.recs[o].size]
            ELSE IF o >= EndOf(f) \/ FindNextOffset(f, o) = 0 THEN <<>>
            ELSE from[FindNextOffset(f, o)]
    IN  from

Replayed(f) == ReplayedFrom(f)[Base]

(* RestoreDatabase sets them in this order in a new database and closes it. *)
Replay(f, db, o) ==
    IF f.recs[o].type = "live" THEN Set(db, f.recs[o].key, f.recs[o].val) ELSE db

Rebuilt(f) ==
    LET db[i \in 0 .. Len(Replayed(f))] ==
            IF i = 0 THEN [file |-> NewFile("closed"), end |-> Base, pool |-> {}]
            ELSE Replay(f, db[i - 1], Replayed(f)[i])
    IN  db

RestoreDatabase(f) ==
    LET db == Rebuilt(f)[Len(Replayed(f))]
    IN  [db.file EXCEPT !.synced = db.end, !.saved = db.pool]

-----------------------------------------------------------------------------
(* Open.                                                                    *)

To(new) == phase' = new

(* A new file is filled with zeros and a header, and gets its metadata last. *)
CreateFile ==
    /\ phase = "down" /\ file.meta = "absent"
    /\ file' = NewFile("bare")
    /\ To("create")
    /\ UNCHANGED <<tmp, end, pool, op, cutClose>>

CreateMetadata ==
    /\ phase = "create"
    /\ file' = NewFile("closed")
    /\ To("mark")
    /\ UNCHANGED <<tmp, end, pool, op, cutClose>>

(* A file that was closed: it is marked as open, and its pool is loaded.    *)
OpenClosed ==
    /\ phase = "down" /\ file.meta = "closed"
    /\ To("mark")
    /\ UNCHANGED <<file, tmp, end, pool, op, cutClose>>

MarkOpen ==
    /\ phase = "mark"
    /\ file' = [file EXCEPT !.meta = "open"]
    /\ To("load")
    /\ UNCHANGED <<tmp, end, pool, op, cutClose>>

LoadPool ==
    /\ phase = "load"
    /\ pool' = file.saved
    /\ end' = file.synced
    /\ To("open")
    /\ UNCHANGED <<file, tmp, op, cutClose>>

(* Mutant: the saved pool is loaded as well. *)
OpenSound_Pool ==
    /\ phase = "down" /\ Shortcut(file)
    /\ pool' = file.saved
    /\ end' = EndOf(file)
    /\ cutClose' = FALSE
    /\ To("open")
    /\ UNCHANGED <<file, tmp, op>>

(* One that was not and is found sound: its pool is left where it is.       *)
OpenSound ==
    /\ phase = "down" /\ Shortcut(file)
    /\ pool' = {}
    /\ end' = EndOf(file)
    /\ cutClose' = FALSE
    /\ To("open")
    /\ UNCHANGED <<file, tmp, op>>

(* One that is not: what can be read is set again in another file, which    *)
(* then takes the name of this one.                                         *)
Restore ==
    /\ phase = "down" /\ file.meta \in {"open", "torn"} /\ ~Shortcut(file)
    /\ tmp' = RestoreDatabase(file)
    /\ To("rename")
    /\ UNCHANGED <<file, end, pool, op, cutClose>>

Rename ==
    /\ phase = "rename"
    /\ file' = tmp /\ tmp' = None
    /\ cutClose' = FALSE
    /\ To("mark")
    /\ UNCHANGED <<end, pool, op>>

-----------------------------------------------------------------------------
(* Set, by the threads of the pool.                                         *)

Busy == {t \in Thread : op[t] # None}

PoolSound == \A b \in pool : b.offset \in DOMAIN file.recs /\ file.recs[b.offset] = Void(b.size)

Goes(t, s) == op' = [op EXCEPT ![t] = s] /\ UNCHANGED <<tmp, phase, cutClose>>

(* A chain that leads back into itself, and not to the key, is walked for    *)
(* ever.                                                                    *)
WalkEnds(f, k) == Find(f, k).cur # 0 \/ IsInjective(Chain(f, BucketOf[k]))

(* The bucket of the key is locked.                                         *)
BeginSet(t, k, v) ==
    /\ phase = "open" /\ op[t] = None
    /\ WalkEnds(file, k)
    /\ \A u \in Busy : BucketOf[op[u].key] # BucketOf[k]
    /\ Goes(t, Started(file, k, v))
    /\ UNCHANGED <<file, end, pool>>

PlaceRecord(t) ==
    LET p == Placed([file |-> file, end |-> end, pool |-> pool], op[t])
    IN  /\ t \in Busy /\ op[t].pc = "place"
        /\ p.db.end <= MaxSize + 1
        /\ end' = p.db.end /\ pool' = p.db.pool
        /\ Goes(t, p.s)
        /\ UNCHANGED file

WriteNew(t) ==
    /\ t \in Busy /\ op[t].pc = "write"
    /\ file' = Written(file, op[t])
    /\ Goes(t, AfterWrite(op[t]))
    /\ UNCHANGED <<end, pool>>

LinkNew(t) ==
    /\ t \in Busy /\ op[t].pc = "link"
    /\ file' = Linked(file, op[t])
    /\ Goes(t, AfterLink(op[t]))
    /\ UNCHANGED <<end, pool>>

VoidOld(t) ==
    /\ t \in Busy /\ op[t].pc = "void"
    /\ file' = Voided(file, op[t])
    /\ Goes(t, [op[t] EXCEPT !.pc = "free"])
    /\ UNCHANGED <<end, pool>>

FreeOld(t) ==
    /\ t \in Busy /\ op[t].pc = "free"
    /\ pool' = Freed(file, pool, op[t])
    /\ Goes(t, None)
    /\ UNCHANGED <<file, end>>

-----------------------------------------------------------------------------
(* Close, when no thread is in a call: the metadata first, then the pool.   *)

CloseMetadata ==
    /\ phase = "open" /\ Busy = {}
    /\ file' = [file EXCEPT !.meta = "closed", !.synced = end]
    /\ To("save")
    /\ UNCHANGED <<tmp, end, pool, op, cutClose>>

ClosePool ==
    /\ phase = "save"
    /\ file' = [file EXCEPT !.saved = pool]
    /\ pool' = {} /\ end' = Base
    /\ To("down")
    /\ UNCHANGED <<tmp, op, cutClose>>

-----------------------------------------------------------------------------
(* The process is killed.  A record that is being written may be torn, and  *)
(* so may the metadata.                                                     *)

Place(s) == IF s.pc = "void" THEN s.cur ELSE s.dest

Cut(f, ops, torn) ==
    LET at(o) == CHOOSE t \in torn : Place(ops[t]) = o
    IN  [o \in {Place(ops[t]) : t \in torn} |->
            Torn(IF ops[at(o)].pc = "void" THEN f.recs[o].size ELSE ops[at(o)].size)]

Crash ==
    /\ phase # "down"
    /\ \E torn \in SUBSET {t \in Busy : op[t].pc \in {"write", "void"}},
          meta \in {file.meta} \union (IF phase \in {"create", "mark"} \/ (phase = "open" /\ Busy = {}) THEN {"torn"} ELSE {}) :
            file' = [file EXCEPT !.recs = Over(Cut(file, op, torn), @), !.meta = meta]
    /\ cutClose' = (cutClose \/ phase = "save")
    /\ pool' = {} /\ end' = Base /\ tmp' = None
    /\ op' = [t \in Thread |-> None]
    /\ To("down")

-----------------------------------------------------------------------------
(* What a Get returns: in the file as the next Open makes it, if there is no *)
(* process; the value from before while a thread is in a Set of the key.     *)

Opened(f) ==
    IF f.meta = "closed" \/ Shortcut(f) THEN f
    ELSE IF f.meta \in {"open", "torn"} THEN RestoreDatabase(f)
    ELSE NewFile(f.meta)

Visible(ph, f, t, ops) ==
    LET g == IF ph = "down" THEN Opened(f) ELSE IF ph = "rename" THEN t ELSE f
        sets == {ops[u] : u \in Thread} \ {None}
    IN  [k \in Key |-> IF \E s \in sets : s.key = k THEN (CHOOSE s \in sets : s.key = k).was
                                                   ELSE Lookup(g, k)]

Init ==
    /\ file = NewFile("absent") /\ tmp = None
    /\ phase = "down"
    /\ end = Base /\ pool = {}
    /\ op = [t \in Thread |-> None]
    /\ cutClose = FALSE /\ broken = FALSE
    /\ content = Visible(phase, file, tmp, op)

(* Bound: a file in which a Set has taken a block that was in use is not     *)
(* followed into another session.                                           *)
Open == ~broken /\ (CreateFile \/ OpenClosed \/ OpenSound \/ Restore)

Step ==
    \/ Open \/ CreateMetadata \/ MarkOpen \/ LoadPool \/ Rename
    \/ \E t \in Thread, k \in Key, v \in Value : BeginSet(t, k, v)
    \/ \E t \in Thread : PlaceRecord(t) \/ WriteNew(t) \/ LinkNew(t) \/ VoidOld(t) \/ FreeOld(t)
    \/ CloseMetadata \/ ClosePool
    \/ Crash

Begins == \E t \in Thread, k \in Key, v \in Value : BeginSet(t, k, v)

Next ==
    /\ Step
    /\ broken' = (broken \/ (~PoolSound /\ Begins))
    /\ content' = Visible(phase', file', tmp', op')

Spec == Init /\ [][Next]_vars

-----------------------------------------------------------------------------
(* Properties *)

TypeOK ==
    /\ file.meta \in {"absent", "bare", "closed", "open", "torn"}
    /\ phase \in {"down", "create", "mark", "load", "rename", "open", "save"}
    /\ end \in Base .. MaxSize + 1 /\ pool \subseteq Block
    /\ DOMAIN file.recs \subseteq Base .. MaxSize
    /\ \A t \in Thread : op[t] # None =>
            /\ op[t].pc \in {"place", "write", "link", "void", "free"}
            /\ op[t].dest \in 0 .. MaxSize /\ op[t].size \in 1 .. MaxSize

(* The records of one file that the chains of it reach. *)
Linking(f) == [b \in Bucket |-> Range(Chain(f, b))]

(* Every chain ends, has live records of its bucket, and no key twice, and   *)
(* no record is in two chains.                                              *)
Sound(f) ==
    /\ \A b \in Bucket :
         /\ IsInjective(Chain(f, b))
         /\ \A o \in Linking(f)[b] : /\ o \in DOMAIN f.recs /\ f.recs[o].type = "live"
                                     /\ BucketOf[f.recs[o].key] = b
         /\ \A o, p \in Linking(f)[b] : f.recs[o].key = f.recs[p].key => o = p
    /\ \A b, c \in Bucket : b # c => Linking(f)[b] \intersect Linking(f)[c] = {}

(* The blocks that threads have taken for new records or still have to free. *)
Taken == {op[t].dest : t \in {u \in Busy : op[u].pc \in {"write", "link"} /\ op[u].dest # op[u].cur}}
         \union {op[t].cur : t \in {u \in Busy : op[u].pc \in {"void", "free"}}}

(* Whatever the threads do at a time in different buckets, with one pool and *)
(* one end of the file between them: at every step a Get in a bucket that no *)
(* thread has locked finds sound chains, and no two threads, no chain and no *)
(* free block share a place in the file.  A restored file is as sound.       *)
(* This is so up to the first Set that has a stale pool to take from.        *)
ChainsSound ==
    broken \/
    /\ TypeOK
    /\ phase \in {"open", "save"} =>
         /\ Sound(file)
         /\ (UNION Range(Linking(file))) \intersect Taken = {}
         /\ {b.offset : b \in pool} \intersect Taken = {}
         /\ \A t, u \in Busy : t # u /\ op[t].dest # 0 => op[t].dest # op[u].dest
    /\ phase = "rename" => Sound(tmp)

(* A block in the pool is free, after every sequence of sessions and crashes, *)
(* as long as no Close was cut between its two writes: then the next Open     *)
(* takes the file for a closed one and loads the pool of an earlier session,  *)
(* whose blocks may have records by now.  Nothing else lets a Set begin with  *)
(* such a pool.                                                               *)
FreeBlocksFree == cutClose \/ (PoolSound /\ ~broken)

(* A process that is killed between two Sets leaves a file that Open finds   *)
(* sound: nothing has to be restored, and nothing can be lost, unless a Set  *)
(* has begun with a stale pool.                                              *)
QuietImageSound == phase = "open" /\ Busy = {} /\ ~broken => Shortcut(file)

Store == INSTANCE RegionStore WITH
    store <- content,
    pending <- [t \in Thread |-> IF op[t] = None THEN None ELSE [key |-> op[t].key, val |-> op[t].val]]

(* The file with its chains, its pool and its restoration behaves as a map   *)
(* that survives the process, up to the first Set that has a stale pool to   *)
(* take from, which needs a Close that was cut between its two writes: a Set *)
(* that has returned is lost only in a crash that interrupts another one, an *)
(* older value never comes back, and opening, restoring and being killed     *)
(* while doing so change nothing.                                            *)
Durable == Store!Spec

(* Nor is everything lost then: what is lost is a key that was being set, or *)
(* one whose record lies behind a record that was being written, as long as  *)
(* no Set has begun with a stale pool.                                       *)
LostOnlyBehind ==
    [][ phase = "open" /\ phase' = "down" /\ ~broken =>
          \A k \in Key :
            LET o == Find(file, k).cur
            IN  o # 0 /\ content'[k] = None =>
                  \E t \in Busy : op[t].key = k \/ (op[t].pc \in {"write", "void"} /\ Place(op[t]) < o)
      ]_vars

(* "If the database file is not closed properly, when you open the file next *)
(* time, it is considered broken.": as a cut Close would be found out then,  *)
(* a key keeps its value for as long as the process runs and sets others.    *)
(* The code does not find it out, and a Set overwrites other records.        *)
KeysStay ==
    [][ phase = "open" /\ phase' = "open" =>
          \A k \in Key : (\A t \in Busy : op[t].key # k) => content'[k] = content[k] ]_vars

-----------------------------------------------------------------------------
(* What keeps the chains, the pool and every image of the file sound.       *)

Record == [size : 1 .. MaxSize, type : {"live", "void", "torn"},
           key : Key \union {None}, val : Value \union {None}, child : 0 .. MaxSize]

IsFile(f) ==
    /\ f = [meta |-> f.meta, synced |-> f.synced, saved |-> f.saved, bucket |-> f.bucket, recs |-> f.recs]
    /\ f.meta \in {"absent", "bare", "closed", "open", "torn"}
    /\ f.synced \in Base .. MaxSize + 1 /\ f.saved \subseteq Block
    /\ f.bucket \in [Bucket -> 0 .. MaxSize]
    /\ DOMAIN f.recs \subseteq Base .. MaxSize /\ f.recs \in [DOMAIN f.recs -> Record]

Live(f, o) == o \in DOMAIN f.recs /\ f.recs[o].type = "live"

Live_Fit(f) ==
    \A o \in DOMAIN f.recs : Live(f, o) =>
        f.recs[o].key \in Key /\ f.recs[o].val \in Value /\ Size[f.recs[o].val] <= f.recs[o].size

NoneTorn(f) == \A o \in DOMAIN f.recs : f.recs[o].type # "torn"

(* c is the whole chain of bucket b. *)
Chained(f, b, c) ==
    /\ c \in Seq(DOMAIN f.recs) /\ IsInjective(c)
    /\ f.bucket[b] = IF c = <<>> THEN 0 ELSE c[1]
    /\ \A i \in DOMAIN c : /\ Live(f, c[i]) /\ f.recs[c[i]].key \in Key /\ BucketOf[f.recs[c[i]].key] = b
                           /\ f.recs[c[i]].child = IF i = Len(c) THEN 0 ELSE c[i + 1]
    /\ \A i, j \in DOMAIN c : f.recs[c[i]].key = f.recs[c[j]].key => i = j

AllChained(f) == \A b \in Bucket : Chained(f, b, Chain(f, b))

(* What the records take of the file, and what threads are about to write.  *)
Places(f) == {[offset |-> o, size |-> f.recs[o].size] : o \in DOMAIN f.recs}

Extents(T, f, ops) ==
    Places(f) \union {[offset |-> ops[t].dest, size |-> ops[t].size] :
                         t \in {u \in T : ops[u] # None /\ ops[u].pc = "write"}}

Apart(blocks) ==
    /\ blocks \subseteq Block
    /\ \A x \in blocks : x.offset + x.size <= MaxSize + 1
    /\ \A x, y \in blocks : /\ x.offset = y.offset => x = y
                            /\ x.offset < y.offset => x.offset + x.size <= y.offset

(* One behind the other up to e. *)
Tiled(blocks, e) ==
    /\ Apart(blocks)
    /\ e \in Base .. MaxSize + 1
    /\ e = Base \/ \E x \in blocks : x.offset = Base
    /\ \A x \in blocks : /\ x.offset + x.size <= e
                         /\ x.offset + x.size = e \/ \E y \in blocks : y.offset = x.offset + x.size

(* What survives a crash. *)
Image(f) ==
    /\ IsFile(f)
    /\ Live_Fit(f)
    /\ Apart(Places(f))
    /\ NoneTorn(f) => AllChained(f)

(* The place that a Set has for itself. *)
Owned(s) ==
    IF s.pc \in {"write", "link"} /\ s.dest # s.cur THEN {s.dest}
    ELSE IF s.pc \in {"void", "free"} THEN {s.cur} ELSE {}

InChain(f, k, o) == o \in Range(Chain(f, BucketOf[k]))

Underway(f, s) ==
    /\ s \in OpenSet
    /\ s.pc \in {"place", "write", "link"} =>
         /\ Find(f, s.key) = [cur |-> s.cur, par |-> s.par]
         /\ s.child = IF s.cur # 0 THEN f.recs[s.cur].child ELSE f.bucket[BucketOf[s.key]]
         /\ s.was = Lookup(f, s.key)
    /\ s.pc \in {"place", "write", "link"} => Size[s.val] <= s.size
    /\ s.pc = "place" => s.dest = 0
    /\ s.pc \in {"write", "link"} => s.dest # 0
    /\ s.pc = "write" =>
         IF s.dest = s.cur THEN s.size = f.recs[s.cur].size
         ELSE s.dest \in DOMAIN f.recs => f.recs[s.dest] = Void(s.size)
    /\ s.pc = "link" =>
         /\ s.dest # s.cur /\ s.dest \in DOMAIN f.recs /\ ~InChain(f, s.key, s.dest)
         /\ f.recs[s.dest] = [size |-> s.size, type |-> "live", key |-> s.key, val |-> s.val, child |-> s.child]
    /\ s.pc \in {"void", "free"} =>
         /\ s.cur # 0 /\ s.cur \in DOMAIN f.recs /\ s.dest # 0
         /\ Find(f, s.key).cur = s.dest /\ f.recs[s.dest].val = s.val
    /\ s.pc = "void" =>
         /\ Live(f, s.cur) /\ ~InChain(f, s.key, s.cur)
         /\ f.recs[s.cur].key = s.key /\ f.recs[s.cur].val = s.was
    /\ s.pc = "free" => f.recs[s.cur] = Void(f.recs[s.cur].size)

(* A file with the Sets of the threads T in it: every live record is in its  *)
(* chain, but for the new one that is not linked and the old one that is.    *)
Orderly(T, f, e, ops) ==
    /\ IsFile(f)
    /\ Live_Fit(f)
    /\ NoneTorn(f)
    /\ AllChained(f)
    /\ Tiled(Extents(T, f, ops), e)
    /\ \A t \in T : ops[t] # None => Underway(f, ops[t])
    /\ \A t, u \in T : t # u /\ ops[t] # None /\ ops[u] # None =>
         /\ BucketOf[ops[t].key] # BucketOf[ops[u].key]
         /\ Owned(ops[t]) \intersect Owned(ops[u]) = {}
    /\ \A o \in DOMAIN f.recs : Live(f, o) =>
         \/ InChain(f, f.recs[o].key, o)
         \/ \E t \in T : ops[t] # None /\ (\/ ops[t].pc = "link" /\ o = ops[t].dest
                                           \/ ops[t].pc = "void" /\ o = ops[t].cur)

AllFree(T, f, blocks, ops) ==
    \A b \in blocks : /\ b \in Block
                      /\ b.offset \in DOMAIN f.recs /\ f.recs[b.offset] = Void(b.size)
                      /\ \A t \in T : ops[t] # None => b.offset \notin Owned(ops[t])

NoSets == [t \in Thread |-> None]

Settled(f, e) == Orderly(Thread, f, e, NoSets)
PoolFree(f, blocks) == cutClose \/ AllFree(Thread, f, blocks, NoSets)

PhaseInv ==
    /\ phase = "down" =>
         /\ file.meta \in {"absent", "bare"} => file = NewFile(file.meta)
         /\ file.meta = "closed" => Settled(file, file.synced) /\ PoolFree(file, file.saved)
    /\ phase = "create" => file = NewFile("bare")
    /\ phase = "mark" => file.meta = "closed" /\ Settled(file, file.synced) /\ PoolFree(file, file.saved)
    /\ phase = "load" => file.meta = "open" /\ Settled(file, file.synced) /\ PoolFree(file, file.saved)
    /\ phase = "open" => file.meta = "open" /\ Orderly(Thread, file, end, op)
    /\ phase = "save" => file.meta = "closed" /\ file.synced = end /\ Settled(file, end)
    /\ phase = "rename" =>
         /\ file.meta \in {"open", "torn"} /\ ~Shortcut(file)
         /\ tmp = RestoreDatabase(file) /\ tmp.meta = "closed"
         /\ Settled(tmp, tmp.synced) /\ AllFree(Thread, tmp, tmp.saved, NoSets)

Kept ==
    /\ phase \in {"down", "create", "mark", "load", "rename", "open", "save"}
    /\ Image(file)
    /\ cutClose \in BOOLEAN
    /\ pool \subseteq Block /\ end \in Base .. MaxSize + 1
    /\ op \in [Thread -> OpenSet \union {None}]
    /\ phase # "open" => op = NoSets
    /\ phase \notin {"open", "save"} => pool = {} /\ end = Base
    /\ PhaseInv
    /\ (Busy = {} /\ cutClose) \/ AllFree(Thread, file, pool, op)

(* What is left when a Set has begun with a stale pool. *)
Spoiled == cutClose /\ phase \in {"open", "save", "down"}

IInv ==
    /\ broken \in BOOLEAN
    /\ broken => Spoiled
    /\ ~broken => Kept /\ content = Visible(phase, file, tmp, op)
=============================================================================
