# Cosmic Architect: models and proofs

Cosmic Architect is a Godot extension: a simulation of a universe of octree
worlds that runs on the main thread or on a thread of its own, stores its nodes
in a database, and talks to scripts and to the rendering server through buffers
of commands. This directory holds TLA+ specifications of the parts in which
threads, a thread pool, a database and the render thread meet, of the database
itself and the locks and the mapped file under it, the TLC configurations that check
them on small instances, and TLAPS proofs for every instance. Paths below are relative to the repository; its own code is in
`src/`, its vendored libraries are in `lib/`.

## 1. Inventory

| Component | State | Operations | Interacts with |
|---|---|---|---|
| Spatial3D world (`src/Spatial3D`) | nodes per scale, their state, links, load and unload lists, an IO task per node, a database | create, touch, load, unload, link, unlink, read, write, destroy | pool threads run its database tasks; the simulation drives it once per frame |
| SimulationServer / UniverseServer (`src/Simulation`, `src/UniverseServer`) | `m_state`, `m_thread`, deferred commands and signals, `m_simulation` | start, stop, wait, progress, thread loop, defer command, queue signal | owner thread and worker thread; signals go through the CommandServer |
| CommandServer, CommandWriter (`src/Commands`) | two queues of command buffers, the buffer in progress, counters | add command, flush writer, flush queue in slices | any thread writes; main thread and render thread flush |
| UniverseCache, SwapBuffer (`src/UniverseServer/UniverseCache.cpp`, `src/Util/PerThread.h`) | updates being written, published, read; the cache | update, publish, retrieve, apply | simulation thread writes, main thread reads, no lock |
| Render allocator (`src/Render`) | pools of RIDs, `m_requests`, the RIDs of each thread context | request, take, give back, refill, delete | simulation thread, render thread |
| Command buffers (`src/Commands/GodotCommandBuffer.cpp`, `TypedCommandBuffer.cpp`) | bytes of encoded commands, where they begin, how many there are | add command, run a slice, clear, hand over | the writer fills them, the CommandServer runs or clears them |
| Simulation (`src/UniverseSimulation.cpp`) | modules, thread contexts, entities, worlds per type | the phases of a frame, unload loop, create and unload entity | all of the above |
| Entities (`src/Util/Poly*.h`, `src/Entity`) | archetypes, polys, entries with reference counts, callbacks | get, change of type, count, clean up, events | modules, tasks on the pool |
| Debug renderer (`src/DebugRender`) | a Ref to the universe whose world it draws | update, uninitialize | the list of universes |
| Containers (`src/Util`) | octree in one block, small vector | set, get, iterate, shrink; reserve, push, pop, erase | entities of voxels, lists of readers, render instances |
| Thread checker (`src/Util/Debug.cpp`) | readers and writers per object | constructor and destructor of a checker | every function that declares its access |
| Region database (`lib/TKRZW/tkrzw_dbm_hash*`, opened by `CreateWorld`) | metadata, buckets, records, a pool of free blocks, in a mapped file | open with validation and restoration, get, set, close | tasks of the pool read and write nodes; a killed process leaves the file as it is |
| Mapped file (`lib/TKRZW/tkrzw_file_mmap.cc`) | size of the file and of the mapping, its address | open, close, truncate, read, write, append | threads of the database, mostly without a lock |
| Spin lock (`lib/TKRZW/tkrzw_thread_util.h`) | one counter | lock, lock shared, upgrade, downgrade, unlock | the database; `CommandServer`, `PolyFactory` and others of the own code |
| Configuration (`src/Simulation/Config.cpp`) | a dictionary and its file | load, defaults, save | `SimulationSetPath`, the update of the simulation module |
| Sphere traversal (`src/Spatial3D/SpatialTraverse.h`) | none | nodes around a loader | `LoaderLoadNodes` |
| Other pure code (`src/Voxel`, `src/Util`) | look-ups, unused containers | | |
| Stubs (`Networking`, `Physics3D`, `Player`, `GalaxyRender`, `VoxelRender`, `Being`, `Planet`) | data only | none yet | |

What is hard here, and hardly reached by a test: a node's load command visited
while a pool thread still reads the node; nodes of three scales loading and
unloading in any order while their pointers must agree; a world destroyed under a
pool thread; a server stopped while its thread loads; a command sent in the
window between the last pass of the loop and the end of the thread; buffers
interrupted by a time limit while their object is deleted; a lock-free swap
between two threads; a counter that is decremented by the render thread before
it is incremented; an argument that must be destroyed once whether its command
runs or not; an entity that is unloaded while a task, a node and the renderer hold
references to it; a block of nodes that moves under relative offsets; a process
killed between two of the writes that replace a record, restore a file or close it;
a file that grows and moves under threads that have read its size. `PROJECT.json` lists each of these at its line, with the
property that would catch it.

What makes each component correct:

* **World.** Commands match node states; links agree at both ends and never
  dangle; no pool task outlives its node; saved content is never replaced; loads
  and writes finish; a destroyed world leaves nothing behind.
* **SimulationServer.** `m_simulation` has one user; the server is not deleted
  under its thread; commands and signals arrive once, in order; join returns.
* **CommandServer.** Every command runs once, in order, on an object that exists,
  or is dropped with its object; nothing starves.
* **UniverseCache.** Scripts see every update once, in order.
* **Render allocator.** Every RID has one owner; the server outlives the calls
  made on it; pools are refilled.
* **Command buffers.** What is run is what was written, argument by argument; the
  count agrees with the bytes; every object in a buffer is destroyed once, before the
  memory goes, unless the whole server goes (section 6).
* **Simulation and entities.** Counts are the references there are; no callback and no
  component is missed or lost when types change; the worlds of entities are alive;
  nothing is left at the end but entities whose commands were not run (section 6).
* **Containers.** They hold what was put into them, inside their memory.
* **Region database.** What was set is there in the next session; a crash loses at most
  what was being set and what restoration cannot find behind it; no block has two users.
* **Mapped file.** A zone is inside the mapping for as long as it is held; appends get
  different places.
* **Spin lock.** One writer or readers; it becomes free again.
* **Configuration.** What the user has written stays, from one loss of the file to the
  next; every setting has a value.
* **Sphere traversal.** No node beyond the radius, and every node inside of it that does not
  stick out of the cube the loops go through.
* **Thread checker.** It misses no reader beside a writer and raises no false alarm.

## 2. Modules

| Module | Models | Composes / used by |
|---|---|---|
| `SpatialWorld` | `SpatialWorld.cpp`, the spatial part of `SpatialModule.cpp` and of `SimulationUpdate` | `MCSpatialWorld`, `SpatialWorldProofs` |
| `SimulationServer` | `SimulationServer.cpp/.h` as derived by `UniverseServer.cpp` | `MCSimulationServer`, `SimulationServerProofs` |
| `CommandServer` | `CommandServer.cpp`, `CommandWriter.cpp`, `ProcessCommands` of the buffers | `MCCommandServer`, `CommandServerProofs` |
| `UpdateLog` | abstract: what the cache promises, a growing prefix of a log | instance in `UniverseCache` |
| `UniverseCache` | `UniverseCache.cpp`, `SwapBuffer` | `MCUniverseCache`, `HandoverProofs` |
| `RenderAllocator` | `RenderAllocator.cpp`, its use in `RenderModule.cpp` | `MCRenderAllocator`, `RenderAllocatorProofs` |
| `CommandBuffer` | `GodotCommandBuffer.cpp`, `TypedCommandBuffer.cpp`, `CommandBufferEntry.h` | `MCCommandBuffer`, `HandoverProofs` |
| `PolyFactory` | `PolyFactory.h`, `Poly.h`, as operators on a factory | extended by `Simulation` |
| `Simulation` | `UniverseSimulation.cpp`, the entity callbacks of the modules, `StartLocalUniverse` and `DisconnectFromUniverse` | composes `PolyFactory`; `MCSimulation`, `SimulationProofs` |
| `RegionStore` | abstract: what the database promises, a map that survives the process | instance in `HashDatabase` |
| `HashDatabase` | `HashDBMImpl`, `HashRecord`, `FreeBlockPool`, as `CreateWorld` opens them | `MCHashDatabase`, `HashDatabaseProofs` |
| `SpinLocks` | `SpinSharedMutex` | extended by `Utilities` |
| `MappedFile` | `MemoryMapParallelFile` and its zones | extended by `Utilities` |
| `Config` | `Config.cpp`, its use in `SimulationSetPath` and `Update` | extended by `Utilities` |
| `SpatialTraverse` | `ForEachCoordInSphere`, and a reference definition | extended by `Utilities` |
| `TinyOctree`, `SmallVector`, `ThreadChecker` | `TinyOctree.h`, `GrowingSmallVector`, `DebugThreadChecker`, as operators on their state | extended by `Utilities` |
| `Utilities` | any sequence of calls on one object: an octree, a vector, a checker, a lock, a file, a loader or a configuration | `MCUtilities`, `UtilitiesProofs` |

Operators named `...Early`, `...Always`, `...Copies` and so on with a comment
beginning "Mutant" are wrong versions of the definition that follows them. They
are used by no specification; each shows that one property notices one plausible
mistake (`PROJECT.json`, "mutants").

### SpatialWorld

A node is its coordinate (scale, x, y, z). `state`, `age`, `loading`,
`unloading` are `Node::state`, the time since `last_update_time`, and the number
of entries of a coordinate in `loading_nodes` and `unloading_nodes`. `taskState`,
`task` are the fields of `LocalNode`, `jobs` what was given to the
`WorkerThreadPool` and has not run. `content` is what the callbacks of the
universe module keep in a node, `db` the database, which starts with whatever an
earlier session left. `neighbours`, `parent`, `parentIndex`, `children` are the
pointers; the bit masks beside them are left out because each bit is written by
the statement after its pointer.

A frame is `SimulationUpdate`: `VisitUnloadCommand` and `VisitLoadCommand` are
one iteration of `ScaleDoNodeCommands` each, with all the callback does
(`ProgressNodeWriteTask`, `UnlinkNode`, destroying the node; `ProgressNodeReadTask`,
`LinkNode`); `ScaleUpdate` is one scale task; `ModulesUpdate` is the
single-threaded end of a frame, where worlds are destroyed, the clock advances and
an unload may begin. `RunJob` is a pool thread, at any moment. The order inside a
list is abstracted: entries are visited in any order, which includes the code's.
`IOTask::finished` is a plain `bool` written by the pool thread; a late view of
it is the same as the job running later. Loaders are the set of coordinates they
want in a frame, chosen freely. `DEBUG_ASSERT` and `DEBUG_CRASH` do nothing, as in
the release build; what they assert is stated as invariants.

A node that becomes Loaded while its read is under way keeps the `IOTask` of the read
(`ReadLeft`). `ProgressNodeWriteTask` then has no branch for it, in the code as in
`VisitUnloadCommand`: the node stays Unloading and in the map.

### SimulationServer

`owner` is where the owning thread is inside a method, `worker` where `ThreadLoop`
is, `joinable` is `m_thread.joinable()`. Every call of a method is split at the
points where the other thread can act: reading and writing `m_state`, loading and
unloading the simulation, assigning `m_thread` after the thread has started, join.
Commands and signals are numbered in the order of the calls. `executed`, `emitted` and
`flushed` are histories: what has run and in which session, the signals emitted at once, and
those the CommandServer has emitted. `WorkerUnload` and `OwnerUnload` are the end of the
unload loop of the simulation, which may never come (section 6): nothing is assumed about
when these steps are taken.

### CommandServer

A buffer is an object and a sequence of commands. `FlushState` is split at each
access to the shared queue, each slice and each command. The clock is two
questions: is the time of this flush over (either answer), is the buffer older
than 5 s (eventually yes). Objects are deleted by the main thread, not while it
runs a command on them; that a command deletes its own object is not modelled.

### UpdateLog and UniverseCache

`Publish` and `Retrieve` are three steps each: test the flag, swap, store the
flag. `UpdateLog` knows a log, a number of updates shown and the cache they give;
`UniverseCache` implements it with the identity on `log`, `shown` and `cache`.

### RenderAllocator

One thread runs the simulation and fills the allocators of all thread contexts;
the render thread makes the calls given to it in order. `RequestRIDs` makes the
call first and increments `m_requests` after it, in a step of its own (`Count`).
`m_requests` is an unsigned number and wraps around (`Wrap`).

### CommandBuffer

A cell of the buffer stands for the bytes of one object: the header of a command, the
tag of an argument, its value. Integers are written in the smallest width that holds
them; the widths are a parameter (`Half`), which a run gives small values so that every edge of
every width is met. The arguments of a command are written one after the other (`WriteArgs`). The owner writes with `AddCommand`, hands the
buffer over with `AddCommands`, and the entry is then run in slices or cleared, one
cell per step. Reading a cell destroys it, as `ReadVariant` and the tuple's destructor
do. A buffer whose object is gone is cleared (`Clear`).

An entry is deleted as a `CommandBufferEntryBase`, whose destructor is not virtual, so neither
`~GodotCommandBuffer` nor its `Clear` runs, and what is in the buffer then stays as it is:
`DropEntry` is what happens to an entry that was run or cleared to its end, `DeleteServer` to
whatever the server has when it is deleted. (The memory of `m_data` is not given back in either
case; only objects are followed.) The buffers that `CommandWriter` and `SimulationServer` own
themselves are deleted with their own type; those are not in this module.

### PolyFactory and Simulation

`PolyFactory` says what each operation makes of a factory: entries by id with a count
and the address of a block, archetypes by their set of components with the callbacks
that ask for a subset, blocks with their components. `Cleanup` is said of the set of entries
without Refs (`DestroyPolys`), because no component holds a Ref and the loop cannot make more
of them. `Simulation` has the thread that
runs frames and script commands, and the tasks of the pool that create and unload
the entities of nodes. `SimulationCreateEntity` in a task is three steps (`TaskGetPoly`,
`TaskPushLoad`, `TaskPushNode`), because another task may act between them. A world
is the address `OnLoadSpatialEntity` put into `CWorld` and whether it is unloading; what
it does until it is gone is `SpatialWorld`. `unordered_erase` on a list of `WeakRef`s
compares both sides as `bool` and so erases the first one (`EraseFirst`). An access
through a null pointer ends the behaviour (`Crash`).

### RegionStore and HashDatabase

One shard of the four (keys do not cross shards). `file` is what is on the disk: the
state of the metadata (`meta`), the size it has noted (`synced`), the section of the
saved pool (`saved`), the buckets, and the records by their offset. `end` and `pool` are
`file_size_` and `fbp_` of the running process, `op` is the Set each thread is in. The
steps of `ProcessImpl` are the points at which the process can be killed or another
thread can act: look the key up under the lock of its bucket (`BeginSet`), take a place
from the pool or from the end (`PlaceRecord`), write the record (`WriteNew`), set the
bucket or the record in front (`LinkNew`), make the old record void (`VoidOld`), give its
block to the pool (`FreeOld`). A record that is large enough is written over at once. `Open` goes
one of four ways: create, a closed file, an open one that `ValidateHashBuckets` and
`ValidateRecords` find sound (`OpenSound`), and restoration into another file that is
then renamed (`Restore`, `Rename`). `Close` writes the metadata and then the pool.
What walks through the file (`Walk` along a chain, `RunFrom`, `Checked` and `ReplayedFrom`
along the records, `Rebuilt` through what is replayed) is a recursive function of an offset or a
number, so that it can be reasoned about.

`RegionStore` is the promise: a map, Sets that begin and end, and kills. The refinement
mapping is `content`, what a Get of every key would return, as the next Open would make it when
no process runs; while a thread is in a Set of a key, the value from before.

Assumed: a kill ends the process but not the machine, so the page cache survives
(loss of power is not modelled, and `Set` asks for no synchronization); the
checksum of a record finds a torn one; an offset of four bytes is written whole; the
window of 128 KiB of `CheckZeroRegion` is larger than any hole; a void record, whose key
is empty, does not belong to the bucket that is looked at.

Once a close was cut (`cutClose`), a session may begin with a pool that has a block in use. Every
Set is followed there like everywhere else, and `broken` notes that one has begun; what such
Sets do to other keys is in the states up to the end of that session (`KeysStay`, section 6). Two
bounds: a file that is `broken` is not opened again, and a walk along a chain that leads back into
itself is a Set that never begins (`WalkEnds`: the thread keeps the lock for ever).
The promise of `RegionStore` ends with `broken`; `FreeBlocksFree` says that only a cut close leads
there.

### SpinLocks

`count` is `count_`; a failed compare and exchange of a loop leaves no trace and is no
step. `Exclusive` is INT32MAX, `MaxCount` the largest value of the counter: a reader that
spins adds one in each round and may be overtaken before it resets the counter, and
the assumption is that this stays below 2^32.

### MappedFile

`call` is where a thread is in the constructor of a zone: it has read a size
(`BeginAppend`, `BeginWrite`, `BeginRead`), checks the mapping without the lock
(`CheckSpace`), makes it larger under the lock (`Remap`, or `RemapFails` when the file
system has no space), moves the end (`TakeEnd`: a weak compare and exchange for an append), takes the lock shared (`Share`) and
releases it (`Release`). `address` alternates when the mapping may have moved. `given`
counts how often each place was given to an append or a write behind the end. `Truncate`,
`Open` and `Close` are called by the database under its exclusive lock, so no thread is
in a call. A kill leaves the file as large as the mapping.

### Utilities

`TinyOctree` keeps the code's layout: nodes by their offset in the block, branches with
offsets relative to themselves, a mask for the part of the space the root covers.
`Utilities` compares it after every call with a function from positions to items.
`SmallVector` has the cells of the block the vector points to; `Utilities` compares it with
a sequence. `reserve` moves the items of a heap block and leaves those of the vector's own
cells behind. A push that finds the block full lets `emplace` shift memory between the old block
and the new one (`ShiftsOutside`): which memory it overwrites depends on where the two lie, so
that the behaviour is undefined from there on (`PushOutside` sets `undefined`, and no call follows). `ThreadChecker` says what the constructor and the destructor of a checker do
to the entry of an object; in `Utilities` threads nest checkers in every order. `Config`
has a user who edits the file while the program does not run; opening to write empties it,
and writing may then fail or stop half-way without anybody noticing (`StoreFails`), with the
program going on. `chosen` is what the user has written since the settings were last lost.
`SpatialTraverse` computes in quarters of a node, and `Utilities` compares the nodes a loader
touches at every position with the reference, all nodes whose middle is inside of the sphere
(`Inside`): the loader's own node is touched, none beyond the reference, and what is missed sticks
out of the cube around the sphere (`SticksOut`). A failed
assertion ends the program there, so this run does not check for deadlock.

## 3. Runs

| Run | Instance | Shows |
|---|---|---|
| `spatial_pair` | two neighbours across the origin, the database may fail for one, two contents | commands, tasks, saved content and destruction are right in every interleaving with the pool; a node is stuck only Unloading with the task of its read left, or Loading while the simulation unloads |
| `spatial_family` | two neighbours with negative positions and their parent, two scales | links agree, do not dangle and are complete, in every order of loading and unloading |
| `spatial_early_load` | one node | a disagreement with a comment, see section 6 |
| `server_sessions` | three sessions in either mode, two commands | one user of the simulation, clean destruction, commands and signals once and in order, a thread that was told to stop comes to its unload and its join returns with it, commands run, signals arrive |
| `commands_order` | two writers, each for an object or for the rendering server, two commands each, slices of one | order, counting, objects, no starvation |
| `cache_swap` | four updates, a type that is an info and a map and one that is only an info | exclusion of the two threads, everything shown, refinement of `UpdateLog` |
| `allocator_pool` | two sessions, two contexts, pools of 1 and 2 RIDs | ownership, bounds, counting, deletion, refilling unless a request is lost |
| `command_buffer` | two commands in either kind of buffer, argument lists with every kind of tag, integers at the edges of the widths, slices of one | what runs is what was written, counts, one destruction of every object and every command consumed while the server is there |
| `simulation_entities` | the universe and two entities of nodes, two tasks, two contexts | counts, callbacks, components, worlds, what is left at the end, removal of what nobody uses |
| `simulation_ends` | the universe, one task, one context | a disagreement with an assertion, see section 6 |
| `utilities` | an octree of the code's depth with five positions and two items; a vector of one own cell and up to four items; three threads with up to three nested checks; three threads on a lock; two threads on a file of four places; a loader at 729 positions around the origin; three settings | the containers hold what was put in and stay in their memory; the checker is exact; the lock excludes and is not leaked; zones are mapped and given once; the sphere is covered but for nodes that stick out of its cube; settings stay between two losses |
| `database_crash` | three keys in two buckets, small and large values, two threads, a pool of one block, a file of five units, any number of sessions and kills | up to the first Set with a stale pool: chains and free blocks are sound, an idle process leaves a sound file, refinement of `RegionStore`, what a crash can lose |

Types. The type invariants of `SpatialWorld`, `SimulationServer`, `UniverseCache`,
`SpinLocks` and `MappedFile` are proved (section 4), and so are those of `CommandServer`,
`RenderAllocator` and `Simulation` as a conjunct of `QueuesExact`, `RIDsExact` and
`FactoryConsistent`, that of `HashDatabase` as one of `ChainsSound` and that of `CommandBuffer`
as one of `BufferExact`; what the octree keeps is a conjunct of `OctreeExact`.

Several properties of the runs are conjunctions of parts that have names and comments of
their own: `NothingOutlived` is `PoolTasksAlive` and `DestroyedClean`, `NodesFinish` is
`LoadingFinishes` and `UnloadingFinishes`, `LinksExact` is `LinksAgree` and `LoadedNodesLinked`,
`SimulationGuarded` is `SimulationHasOneUser` and `DestroyedStopped`, `MessagesArrive` is
`CommandsRun` and `SignalsArrive`, `BufferConsumed` is `DestroyedBeforeFreed` and
`CommandsConsumed`, `RIDsExact` is `RIDsOwnedOnce` and `AllocatorsBounded`, `RequestsExact` is
`RequestsCounted` and `DeletedQuiet`, `RefsExact` is `RefsCounted` and `LeftOnlyQueued`, `LockSound` is
`LockExclusive` and `CountExact`, `FileShared` is `ZonesMapped` and `PlacesGivenOnce`.

Bounds. Two nodes are enough for the command lists and the database, which do not
relate different nodes except through the world; three nodes of two scales are the
smallest set with every kind of link, and include one link of each kind being
removed while another stays. `Keepalive = 0` with steps of 0 or 1 makes a node both
touched in time and too late. Three sessions let what one session leaves (commands,
threads) meet a session in each mode. A slice of one command in a buffer of two is
interrupted; two writers for one object interleave. Four updates fill all three
buffers of the swap and leave one to wait. Two simulations are needed to overfill a
pool, and two pools of different sizes to have one that is short and one that is
not. Three entities give the factory archetypes that differ, share a component and are
reused, and let one be created again while its unload is queued. Five positions of the
octree share a leaf, a branch, and nothing but the root, so every number of new roots
occurs. Two keys share a bucket, so there is a chain with a front and an end, and a third one
is set at the same time; a large value does not fit the place of a small one, and a small one is written over a large
one; a file of five units is full after some replacements, so blocks are used again.
`ValidationCount = 1` and `MaxShiftTries = 3` let restoration both find and miss records
behind a hole, as 3 and 1000 do in a large file. Three threads on the lock are a writer, a
reader that spins and one that resets late. Two threads on the file are one that has read
a size and one that changes it. Counters of calls (`MaxCreated`, `MaxUnloads`, `MaxLen`, `MaxNested`, `MaxCommands`, `MaxSessions`, `MaxUpdates`, `MaxUsed`) only bound
what is sent, never how often threads run. The argument lists of `command_buffer` are written
through `CommandWriter`, whose limit is below that of the buffer: the branch for too many arguments,
which only builds with `DEBUG_ENABLED` have, is not reached.

Deadlock is checked in all passing runs but `utilities` and `database_crash`: a failed assertion
and an undefined shift end the behaviour there, and a file whose creation was cut, or in which a
stale pool was used, is not opened again (section 6). A destroyed world, a deleted
server, a destructor that waits for a lost request, a consumed buffer and an ended
simulation stutter explicitly (`Destroyed`, `Deleted`, `Stopped`, `Done`, `Ended`).

Fairness. The simulation loops over frames without end, so one step of a frame is
always taken (`WF` of `FrameStep`); the pool runs every task it is given; the owner
goes on inside a method it has called, but is never assumed to call one; the worker
thread runs; of neither is it assumed that the unload of the simulation ends, which is a premise
of the properties where they need it (`JoinReturns`); the main thread flushes the CommandServer in every frame, which is
strong fairness in `SimulationServer` because between frames it may be inside
methods; both flushing threads flush in every frame and time passes; both threads of
the cache publish and retrieve in every frame; an entry that is being run or cleared
goes on; the simulation thread goes on with a frame and begins another one, and tasks
of the pool end.

## 4. Proofs

All proofs are for arbitrary constants that satisfy the named `ASSUME` of the module. Every
theorem `Spec => []P` goes the same way: an invariant that is inductive (`Init => Inv`,
`Inv /\ [Next]_vars => Inv'`, one step of the proof for each action) and implies `P`. The
inductive invariants stand at the end of the module they are about, under "What keeps ...
true", so that TLC can check them too.

* `SpatialWorldProofs`. Inductive invariant `LifecycleInv`: types, `CommandsMatchState`,
  `TasksMatchState` (which task states go with which node states), `JobsMatchTasks`
  (what a job on the pool may assume of its node), `DestroyedEmpty`. The safety
  properties alone are not inductive: that no job points to a dead node needs to know
  that a write ends before its node is removed, which is a fact about tasks, and
  `DestroyedClean` needs the match of commands and states. Proved: `TypeOK`,
  `CommandsMatchState`, `PoolTasksAlive`, `DestroyedClean`, `NothingOutlived`, for every set of
  coordinates, every database behaviour and every keepalive.
  On top of it `ContentInv`, for the coordinates where the database does not fail: where the
  content of a node is in each state of its task, and that a finished read holds what the
  database held then and still holds. `SavedContentKept` alone is not inductive, because a
  read that ends late could bring back anything. Proved: `SavedContentKept` and, as an action
  property, `SavedContentFinal`.
  `LinksExact` is inductive with the states of `LifecycleInv`. It rests on lemmas about the
  tables of the code for all integers: `node_neighbour_offsets[5 - i]` is the opposite of
  `node_neighbour_offsets[i]` (`NeighbourOpposite`), and the index `GetNodeParentIndex`
  computes is the child offset that leads back, for negative positions too (`ChildOfParent`).
* `SimulationServerProofs`. Inductive invariant `ServerInv`: types, and where the state,
  `m_thread` and `m_simulation` are for each position of the worker (`WorkerInv`) and
  of the owner (`ThreadInv`, `OwnerInv`). The state alone does not say whether the
  simulation exists: between unloading it and storing `Unloaded` it does not. Proved:
  `TypeOK`, `SimulationHasOneUser`, `DestroyedStopped`.
  On top of it `DeliveryInv`: the thread's buffer is older than the server's and both
  are in order (`BuffersInv`), and what has run is in neither and, in the session of the thread,
  came before both (`ExecutedInv`). The session matters: a command that runs on the owner
  overtakes what an earlier session left in the buffer, which then runs in a later one. Proved:
  `DeliveredInOrder`.
* `HandoverProofs`, about what two threads hand over. Of `UniverseCache`, inductive invariant
  `CacheInv`: `Ownership` (which thread may
  touch `m_value`, which buffers are empty) and `Placement` (where in the log each
  buffer begins). Proved: `CacheTypeOK`, `SwapExclusive`, and `Refinement`: the cache
  implements `UpdateLog`.
  Of `CommandBuffer`, inductive invariant `BufferInv`: `RunAsWritten`, the types, and four parts.
  `HistoryInv` has the calls accepted, with their arguments, and those made. `WriterInv` and `ReaderInv` say that the cells
  of the writer, and those of the entry from the reader on, are exactly the commands that are
  not consumed, in their order (`Holds`), that the objects of these cells are alive and all before
  them destroyed (`LiveBehind`), and how far the numbers of commands, of the slice and of the entry
  agree. `ArgsInv` is the reader between two arguments: those it has read are the first of the
  command, the others are in the cells before it (`ArgsLeft`, `TupleLeft`).
  Neither `RunAsWritten` nor `BufferExact` is inductive: both are about what was read and counted
  and do not say what the unread cells hold. Where a command begins is a sum of the cells of all commands before
  it; the invariant says instead that there is a rising function from the numbers of the commands to
  positions, with the cells of a command between two of its values, so that no sum is ever taken.
  The lemmas: whatever `WriteGenericVariant` writes `ReadVariant` reads back, for any four
  widths of which each is wider than the one before (`ReadBack`, with `WidthHolds` and
  `IntReadBack` for the integers); the cells
  of a list of arguments (`WriteArgsIs`); cells that another operation leaves alone still hold the same
  (`ArgSame` to `CommandsSame`); a command added at the end or taken from the front (`HeldGrows`, `FirstHeld`,
  `NoneHeld`); then one lemma for each action. TLC has checked `BufferInv` as an invariant
  of the instance of `command_buffer` (the same 115986 states). Proved: `RunAsWritten`, `BufferExact` and
  the action property `DestroyedBeforeFreed`, the safety half of `BufferConsumed`, for either kind of buffer, any names,
  widths, lists of arguments, limits and slices. `DestroyedBeforeFreed` is about an entry that goes while the server is there:
  no destructor clears it, so it has to be consumed to its last byte when `m_num_commands` becomes zero. `ArgsAssumption` says only that lists of arguments
  are of variants and that the types stored as an object are none of those with a tag of their own.
* `CommandServerProofs`. Inductive invariant `CommandInv`: the properties themselves, that every
  buffer that waits is for the object its commands were written for and in the queue of that
  object (`EntriesInv`), that what was dropped belongs to objects that are gone (`DroppedInv`: an
  object does not come back, so nothing of a writer is run after something of it was
  dropped), and that between two flushes nothing is left to be subtracted (`IdleInv`). Counting
  what waits needs it finite, which is part of `DroppedInv`. Proved: `QueuesExact`, `RunInOrder` and, as an
  action property, `ObjectsRespected`, for any writers, objects and slices.
* `RenderAllocatorProofs`. `RIDsExact` is inductive alone: each operation moves RIDs from the end of
  one list to another, and lemmas say so of the lists (`OwnedOnce`). `RequestsExact` is not. The
  invariant is `AllocatorInv`: which calls can wait for the render thread in which phase, and that the
  difference between requests and calls is 0, 1 or, when the render thread was faster than
  the count, the whole width (`RequestsInv`); and where RIDs are when the server ends
  (`QuietInv`), which needs `RIDsExact`: with nothing in an allocator and nothing in the pool,
  every RID is freed or in use. Proved: `RIDsExact`, `RequestsExact`, for any contexts, types
  and sizes of pools and any width of `m_requests`.
* `SimulationProofs`. Inductive invariant `SimulationInv`: `FactoryConsistent`, `RefsExact`,
  `WorldsLive` and three parts that these need. `UniverseInv`: all callbacks are registered before
  the first entity (an entity created earlier would not be called for), only the universe is called
  for as one, and while it is in a list the server holds a Ref to it; the list has `WeakRef`s, which
  rest on that Ref. `NodesInv`: tasks run only inside a frame that has a world, so the counts are
  complete when `Cleanup` removes entries. `WorldsApart`: no two entities share a world,
  otherwise the unloading of one would leave the other with a dead pointer. Lemmas first say how
  many places a list has for an entity after an append, a removal or a clear, then what each operation
  of the factory does to counts, polys, archetypes and callbacks. Proved: `FactoryConsistent`,
  `RefsExact`, `WorldsLive` and, as an action property, `ComponentsKept`, for any entities, thread
  contexts and tasks. `SimulationAssumption` fixes what the modules register in `Initialize` and
  that only the universe has `CUniverse`, and takes contexts and tasks as finite.
* `UtilitiesProofs`. A behaviour of `Utilities` is about one kind of object. `StepsApart` says
  that every step is a step of one part and leaves the variables of the others alone, so each part
  has an invariant of its own.
  The lock, `SpinInv`: with a writer the counter is at least INT32MAX (`WriterCounts`), without
  one it is the number of readers (`CountExact`), and a reader about to reset it has seen more
  than INT32MAX (`StepsSound`), so it can only hit a counter that a writer owns. Exclusion alone
  is not inductive. Proved: `LockExclusive`, `CountExact`, `LockSound`, for any finite set of
  threads smaller than INT32MAX.
  The mapped file, `MapInv`: the file is inside the mapping and the mapping inside the disk file
  (`SizeInv`), and what each thread has established at its step still holds (`CallInv`), because
  sizes only grow while a call is under way and the address only changes while no zone is held.
  Proved: `FileShared`, for any number of threads and all sizes.
  The thread checker, `CheckInv`: every checker that counts as a reader has a place of its own in
  the list, with its thread (`ReadersListed`, a bijection, because a thread is in the list once for
  each of its checkers and a destructor may free the place of another one); the writers are
  counted (`WritersCounted`); and as long as no two threads wrote together, all writers are of the
  thread that is noted, which is alone in the list (`OneWriter`). `ReadersAlone` does not say that an
  erased entry was the right one, so it is not inductive. Proved: `CheckerExact`, for any threads
  and any depth.
  The vector, `VectorInv`: `VectorExact` with the types of cells and list; one lemma for each
  operation. Proved: `VectorExact`, for any own capacity and any items: what holds up to the first push
  that finds the block full, with the items known that were pushed since the vector left its own cells.
  The settings, `SettingsInv`: `SettingsKept`, and that what the user wrote since the last loss is among the
  values of the program while it runs and in the file unless it is cut, which a reading or a
  saving rests on. Proved: `SettingsKept`, for any settings and defaults and with saves that fail
  half-way.
  The loader needs only where it is. `SphereCovered` is then a theorem about
  `ForEachCoordInSphere`, on the integers and with their division, for every place and every
  radius from one node on.
* `HashDatabaseProofs`. Inductive invariant `IInv`: as long as no Set has begun with a stale pool
  (`~broken`), `Kept`, and that `content` is what a Get of every key returns; after that, no more than that a
  close was cut (`Spoiled`). `Kept` has three layers, because the file is in one of three conditions:
  * what survives a kill at any step (`Image`): records do not overlap, a live one has a key and a
    value that fits, and when no record is torn every chain is whole;
  * what holds while the threads are in their Sets (`Orderly`): the records and the places that
    threads have taken lie one behind the other up to the end of the file (`Tiled`), the threads are in
    different buckets and own different places, what each of them has read is still so at its
    step (`Underway`), and every live record is in the chain of its bucket, but for a new one that is
    not linked yet and an old one that no longer is. With no thread in a Set this is what a closed file and
    a restored one satisfy (`Settled`);
  * that the blocks of the pool are void records nobody owns (`AllFree`), in the running process and,
    until a Close was cut, in the saved section (`PoolFree`).

  `ChainsSound` is not inductive, since it does not say that a thread's record still hangs where its
  Set has read it, nor that what lies between the records of a chain is tiled: both are needed as soon as a
  block is used again. `QuietImageSound` needs the tiling and that every live record is in a chain, and
  a restoration needs that no two readable records overlap. TLC has checked `IInv` as an
  invariant of the instance of `database_crash` (the same 285185 states).

  The lemmas go from small to large: a chain is the sequence of a walk and a walk is determined by
  its records (so writing outside of a chain leaves it alone); one lemma for each write of `Set` and each kind
  of place (new at the front, new at the end, in place of an old one, over an old one); the pool as a set of blocks; what
  validation accepts; what `ReplayedFrom` reads (every offset once, each of them readable), and by
  induction over it that the file a restoration builds is settled, and what a Get of each key in it
  returns (`OpenedIs`). The library's induction theorems need an operator as a parameter, so the lemmas
  `Upwards` and `Downwards` say it with a set of numbers instead. Proved: `ChainsSound`, `FreeBlocksFree`,
  `QuietImageSound`, the action property `LostOnlyBehind`, and `Durable`: the database
  implements `RegionStore`, one lemma for what each action does to the store (`BeginSet` begins a Set, or breaks the store
  when the pool is stale, the last step of a Set ends it, `Crash` kills, the others stutter), for any keys, values and sizes, buckets, threads,
  size of the file and of the pool, and any two limits of the search of a restoration. All but `FreeBlocksFree` are
  statements up to the first Set with a stale pool; `FreeBlocksFree` says that without a cut close there is none.

Only model-checked:

* liveness under fairness (`NodesFinish`, `MessagesArrive`, `CommandsFinish`,
  `UnreferencedRemoved` and the others), which is outside what the prover can do;
* `OctreeExact`: a path through the octree is followed, and its block of nodes is walked, cut and built
  again, by recursion over the depth and by folds over the eight children of a node, so each of its lemmas
  is an induction over data. TLC checks it at the depth the code has.

## 5. Not modelled

* Loader entities as entities: at their load `parent_world` is null and is dereferenced
  (`StartLocalUniverse` asks for the world of a universe that is not loaded yet), so no
  state after it is defined. `SpatialWorld` has loaders as the set of nodes they want.
* The list of galaxies, which nobody reads.
* `SetTypes`, `Iterate` and `WorkerIterate` of the factory, which have no caller; the
  aliasing of thread contexts, whose pushes are one step each.
* Entity lists of nodes (`ScaleUpdateEntityNodes`, `WorldUpdateEntityScales`): the first erased
  entry makes the loop use an iterator past the end, and the division by `1 >> index` is by zero, so
  most states after the first call are undefined (section 6).
* In the database: `Remove`, `Rebuild`, `Synchronize`, iterators, appending mode, compression,
  update logs, which this program never calls; loss of power. In the mapped file: a failing
  `mremap`, which closes the file and leaves a null mapping; `TruncateFakely`, which only a
  database opened to read uses.
* The other vendored libraries (`fmt`, `robin_hood`, `easy_profiler`, the other databases of TKRZW and
  its bindings): most of the lines of the repository, third-party code that is called for
  formatting, hashing and profiling or not at all.
* Bytes below an object: endianness, alignment, hashing, UUIDs.
* `CircularBuffer`, `DirtyTracker`, `StackAllocator`, which have no caller; the other
  traversals and voxel look-ups.
* Networking, physics, players, voxel rendering: empty in the source.
* The engine, the file system and the thread pool are external; they are modelled by what
  the code relies on.

## 6. Disagreements found

| Run | The code | The comment |
|---|---|---|
| `spatial_early_load` | `ProgressNodeReadTask` returns true while the read is in progress | "When it returns true it means a read was done." (`src/Spatial3D/SpatialWorld.cpp:398`) |
| `simulation_ends` | `SimulationUnload` runs no frame when there is no world to wait for: the unload commands it has queued, and load commands that were pending, keep their entities to the end | "We should have destroyed all entities" (`src/UniverseSimulation.cpp:277`) |

The modules state ten more such promises beside the properties they bound. No run is given to them, but each is refuted by
TLC on the instance of the run that is named, when it takes the place of the properties in its `.cfg` (`NothingLeft`, `VectorGrows`,
`SphereAll` and `NoOtherWriter` as an `INVARIANT`, the others as a `PROPERTY`):

| Promise | Instance | The code | The comment |
|---|---|---|---|
| `UnloadFinishes` | `spatial_pair` | a node that became Loaded before its read was consumed has, when it unloads, `task_state` Idle and a task: `ProgressNodeWriteTask` starts no write and returns false for ever, and the node stays in the map | "Keep calling this function on a node until it returns true. When it returns true it means a write was done." (`src/Spatial3D/SpatialWorld.cpp:460`) |
| `LoadingNodesUnload` | `spatial_pair` | load commands are skipped while the simulation unloads, and only Loaded nodes get an unload command: a node that is Loading then stays so, and its world with it | "Setting this flag means that all nodes in the world should be unloaded." (`src/Spatial3D/SpatialWorld.h:167`) |
| `WaitReturns` | `server_sessions` | a stop while the thread is loading is ignored, and `WaitUntilStopped` joins a thread that nobody told to stop | "Join the thread just in case it hasn't stopped just yet" (`src/Simulation/SimulationServer.cpp:78`) |
| `Refilled` | `allocator_pool` | a request that finds nothing required is never finished | "Any taken render objects will automatically be refilled" (`src/Render/RenderAllocator.h:69`) |
| `NothingLeft` | `command_buffer` | an entry is deleted through a base class without a virtual destructor, so a command that is in it when the server is deleted is never destroyed | "Destroy all remaining commands and arguments" (`src/Commands/GodotCommandBuffer.h:107`) |
| `EntitiesUnload` | `simulation_entities` | a load command that was pending adds its entity in a frame of the unload loop, after the unloads were queued: the loop waits for it for ever | "Unload all entities in the world." (`src/UniverseSimulation.cpp:248`) |
| `VectorGrows` | `utilities` | `reserve` leaves the items in the vector's own cells behind | "Uses a static buffer until its filled." (`src/Util/SmallVector.h:384`) |
| `SphereAll` | `utilities` | the loops are cut towards zero and end one node early, before nodes that their own comparison would accept | "Run a callback for all the nodes in a sphere" (`src/Spatial3D/SpatialTraverse.h:45`) |
| `NoOtherWriter` | `utilities` | the read of a thread that also writes is not in the list of readers, and a second writer is only counted: it writes beside the read, and no assertion fails | "No other thread should be reading if we want to write" (`src/Util/Debug.cpp:57`) |
| `KeysStay` | `database_crash` | `Close` writes that the file was closed before it writes the pool; killed in between, the file passes for a closed one, the next session uses the pool saved before that, and a Set writes over the records of other keys | "If the database file is not closed properly, when you open the file next time, it is considered broken." (`lib/TKRZW/tkrzw_dbm_hash.h:279`) |

The trace of `KeysStay`: a pool with a free block is saved with the file. The next session sets
a key there and is killed between the two writes of its close. The one after it loads the saved pool, in which
the block is still free, and a Set puts another record there: the key is gone, and no kill has interrupted
anything since.

The properties of the passing runs say what is true beside these, and each names the exception: `NodesFinish` has the
two ways in which a node is stuck, `JoinReturns` is about a thread that was told to stop, `RefilledUnlessLost` about
requests that are not lost, `BufferConsumed` about a server that is there, `RefsExact` allows entities with a command that
was not run at the end, `VectorExact` ends with the first undefined shift, `SphereCovered` allows nodes
that stick out of the cube to be missed, `CheckerExact` ends with two writers (`doubled`), and the properties of the database
end with the first Set that has a stale pool (`broken`).

Other consequences the models have and no statement isolates; each is a hazard of
`PROJECT.json`, or follows from one:

* whole records behind a torn one are lost when too few of them follow it, although the mode is
  "to restore as many records as possible" (`lib/TKRZW/tkrzw_dbm_hash.h:220`); `LostOnlyBehind` says which;
* a process killed while a region file is created leaves one that no open accepts: `CreateWorld` then
  returns a null pointer, which `OnLoadSpatialEntity` uses;
* the settings are lost when the program ends while its file is cut, because a save was under way or failed half-way,
  or cannot open the file to read;
* a push beyond the block of a small vector shifts memory between two blocks (`undefined`);
* `m_data` of every entry of the CommandServer leaks with its destructor;
* `HasCommandsLeft` does not look at the buffer in progress;
* the renderer may use a world that is gone (`Crash`);
* `ShrinkToFit` to one item brings back an old one (`shrunk`; it has no caller).

Seen while reading, in no model yet:

* `m_simulation` is null when the server is used while unloaded (`src/Simulation/SimulationServer.h:129`);
* a pool thread keeps the context of its last worker update, which another thread may be
  given in the next frame, so two threads can push to one context (`src/UniverseSimulation.cpp:208`);
* an entity's position is divided by `1 >> index`, which is zero for every index above
  zero (`src/Spatial3D/SpatialWorld.cpp:759`), the function returns at the first entity that stays, and an
  entity that was read has position zero and moves to the node at the origin;
* `ForEachCoordInRegion` does not start `y` and `z` again for the next `x`;
* a loader that is unloaded after its world holds a pointer to it;
* a reference-counted object among the arguments of a command is kept as a plain pointer.

## 7. Plan

1. Done: all modules of section 2 with their runs, and every safety property of these runs
   proved but `OctreeExact`; `UniverseCache` and `HashDatabase` proved to implement their abstract
   specifications.
2. Proofs next: `OctreeExact`, with the ancestors of each position in place of the path that a
   call follows, and with a place for each node that the block must agree with; the lemma `Upwards`
   of `HandoverProofs`, which says induction with a set of numbers, is what its recursion needs.
3. Models, when the source changes: entity lists of nodes once their loop is defined; loaders as
   entities; the circular buffer and the dirty trackers once they have callers; an abstract
   world (alive, unloading, gone) that both `Simulation` and `SpatialWorld` implement.
