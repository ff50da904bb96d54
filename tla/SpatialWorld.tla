---------------------------- MODULE SpatialWorld ----------------------------
(***************************************************************************)
(* One spatial world (Spatial3D/SpatialWorld.cpp) as the simulation drives *)
(* it: the octree nodes of every scale, the lists of load and unload       *)
(* commands, the database tasks that run on the worker thread pool, and    *)
(* the flags that unload the world.  One frame is one SimulationUpdate:    *)
(* the unload commands, the load commands, the update of every scale, the  *)
(* module updates.  Pool threads run database tasks at any moment of it.   *)
(*                                                                         *)
(* Abstractions.  A node is named by its coordinate; a pointer to a node   *)
(* is that coordinate or Null.  The bit masks next to the pointer arrays   *)
(* are left out: each bit is written by the statement after the pointer it *)
(* stands for.  The order inside a command list is abstracted to a count   *)
(* per coordinate, and the entries of a list are visited in any order.     *)
(* The time since a node was last touched is counted in ticks and stops at *)
(* Keepalive + 1, which is as good as any larger value.                    *)
(* DEBUG_CRASH and DEBUG_ASSERT have the meaning of the release build,     *)
(* where they are empty; what they assert is stated as invariants.         *)
(***************************************************************************)
EXTENDS Integers

CONSTANTS
    MaxScale,   \* World::max_scale, the number of scales
    Coord,      \* the node coordinates loaders can reach
    Keepalive,  \* PartialWorld::node_keepalive in ticks
    MaxStep,    \* bound on the ticks between two frames
    Data,       \* what a node can contain once generated or read
    Empty,      \* the content of a node without galaxies
    NoData,     \* a node that was neither generated nor read, or an absent record
    Null,       \* the null pointer
    Failing     \* the coordinates whose database operations may fail

ScaleIndex == 0 .. (MaxScale - 1)

Status == {"SUCCESS", "NOT_FOUND_ERROR", "OTHER_ERROR"}
IOTask == [finished : BOOLEAN, status : Status, data : Data \union {NoData}]

ASSUME WorldAssumption ==
    /\ MaxScale \in Nat \ {0}
    /\ Coord \subseteq [scale : ScaleIndex, x : Int, y : Int, z : Int]
    /\ Keepalive \in Nat
    /\ MaxStep \in Nat
    /\ Empty \in Data
    /\ NoData \notin Data
    /\ Null \notin Coord /\ Null \notin IOTask
    /\ Failing \subseteq Coord

VARIABLES
    phase,          \* where SimulationUpdate is: "unload", "load", "scales", "modules"
    visit,          \* entries of the current command list not visited yet
    scalesLeft,     \* scale tasks of this frame that have not run
    simUnloading,   \* Simulation::unloading
    worldUnloading, \* World::unloading
    alive,          \* the world has not been destroyed
    state,          \* Node::state; "Invalid" when the node map has no such node
    age,            \* frame_start_time - PartialNode::last_update_time
    loading,        \* occurrences in PartialScale::loading_nodes
    unloading,      \* occurrences in PartialScale::unloading_nodes
    taskState,      \* LocalNode::task_state
    task,           \* LocalNode::task
    jobs,           \* native tasks given to the thread pool that have not run
    content,        \* what the (de)serialize and generate callbacks keep in a node
    db,             \* LocalWorld::database
    neighbours,     \* Node::neighbours
    parent,         \* Node::parent
    parentIndex,    \* Node::parent_index
    children        \* Node::children

frameVars == <<phase, visit, scalesLeft>>
flagVars  == <<simUnloading, worldUnloading, alive>>
nodeVars  == <<state, age, loading, unloading>>
ioVars    == <<taskState, task, jobs, content, db>>
linkVars  == <<neighbours, parent, parentIndex, children>>
vars      == <<frameVars, flagVars, nodeVars, ioVars, linkVars>>

NodeState == {"Invalid", "Loading", "Loaded", "Unloading"}
TaskState == {"Idle", "ReadInProgress", "WriteInProgress", "ReadDone", "WriteDone"}
IOJob     == [coord : Coord, op : {"read", "write"}]

NoParent == 255   \* k_node_no_parent

(* The keys of Scale::nodes, over all scales. *)
nodes == {c \in Coord : state[c] # "Invalid"}

-----------------------------------------------------------------------------
(* Geometry of the octree. *)

NeighbourIndex == 0 .. 5
ChildIndex     == 0 .. 7

(* node_neighbour_offsets, one table per axis. *)
OffsetX(i) == IF i = 0 THEN -1 ELSE IF i = 5 THEN 1 ELSE 0
OffsetY(i) == IF i = 1 THEN -1 ELSE IF i = 4 THEN 1 ELSE 0
OffsetZ(i) == IF i = 2 THEN -1 ELSE IF i = 3 THEN 1 ELSE 0

NeighbourOf(c, i) ==
    [scale |-> c.scale,
     x |-> c.x + OffsetX(i), y |-> c.y + OffsetY(i), z |-> c.z + OffsetZ(i)]

(* position >> 1 in the scale above. *)
ParentOf(c) ==
    [scale |-> c.scale + 1, x |-> c.x \div 2, y |-> c.y \div 2, z |-> c.z \div 2]

(* position << 1 plus node_child_offsets[i], in the scale below. *)
ChildOf(c, i) ==
    [scale |-> c.scale - 1,
     x |-> 2 * c.x + (i % 2),
     y |-> 2 * c.y + ((i \div 2) % 2),
     z |-> 2 * c.z + (i \div 4)]

GetNodeParentIndex(c) == (c.x % 2) + 2 * (c.y % 2) + 4 * (c.z % 2)

-----------------------------------------------------------------------------
(* The pointers written when a node is linked or unlinked. *)

(* The scale loops of LinkNode skip the scale above the last and below 0,  *)
(* where the node map has no coordinate either.                            *)
LinkNode(c) ==
    /\ neighbours' =
         [d \in Coord |-> [i \in NeighbourIndex |->
            IF d = c /\ NeighbourOf(c, i) \in nodes
              THEN NeighbourOf(c, i)
            ELSE IF d \in nodes /\ d = NeighbourOf(c, 5 - i)
              THEN c
            ELSE neighbours[d][i]]]
    /\ parent' =
         [d \in Coord |->
            IF d = c /\ ParentOf(c) \in nodes
              THEN ParentOf(c)
            ELSE IF d \in nodes /\ \E i \in ChildIndex : d = ChildOf(c, i)
              THEN c
            ELSE parent[d]]
    /\ parentIndex' =
         [d \in Coord |->
            IF d = c /\ ParentOf(c) \in nodes
              THEN GetNodeParentIndex(c)
            ELSE IF d \in nodes /\ \E i \in ChildIndex : d = ChildOf(c, i)
              THEN CHOOSE i \in ChildIndex : d = ChildOf(c, i)
            ELSE parentIndex[d]]
    /\ children' =
         [d \in Coord |-> [i \in ChildIndex |->
            IF d = c /\ ChildOf(c, i) \in nodes
              THEN ChildOf(c, i)
            ELSE IF d \in nodes /\ d = ParentOf(c) /\ i = GetNodeParentIndex(c)
              THEN c
            ELSE children[d][i]]]

(* Mutant: the neighbour's pointer is cleared at index i instead of 5 - i. *)
UnlinkNodeSameIndex(c) ==
    /\ neighbours' =
         [d \in Coord |-> [i \in NeighbourIndex |->
            IF d = c \/ d = neighbours[c][i] THEN Null ELSE neighbours[d][i]]]
    /\ parent' =
         [d \in Coord |->
            IF d = c \/ \E i \in ChildIndex : d = children[c][i] THEN Null ELSE parent[d]]
    /\ parentIndex' =
         [d \in Coord |->
            IF d = c \/ \E i \in ChildIndex : d = children[c][i]
              THEN NoParent ELSE parentIndex[d]]
    /\ children' =
         [d \in Coord |-> [i \in ChildIndex |->
            IF d = c \/ (d = parent[c] /\ i = parentIndex[c])
              THEN Null ELSE children[d][i]]]

(* The other ends of c's pointers are cleared; c's own pointers disappear   *)
(* with the node, which is destroyed next, and start as Null in a new node. *)
UnlinkNode(c) ==
    /\ neighbours' =
         [d \in Coord |-> [i \in NeighbourIndex |->
            IF d = c \/ d = neighbours[c][5 - i] THEN Null ELSE neighbours[d][i]]]
    /\ parent' =
         [d \in Coord |->
            IF d = c \/ \E i \in ChildIndex : d = children[c][i] THEN Null ELSE parent[d]]
    /\ parentIndex' =
         [d \in Coord |->
            IF d = c \/ \E i \in ChildIndex : d = children[c][i]
              THEN NoParent ELSE parentIndex[d]]
    /\ children' =
         [d \in Coord |-> [i \in ChildIndex |->
            IF d = c \/ (d = parent[c] /\ i = parentIndex[c])
              THEN Null ELSE children[d][i]]]

-----------------------------------------------------------------------------
(* Database tasks.  NodeReadIOTask and NodeWriteIOTask run on a pool thread. *)

NewTask(d) == [finished |-> FALSE, status |-> "SUCCESS", data |-> d]

NodeReadIOTask(c) ==
    /\ \/ task' = [task EXCEPT ![c] =
                     [finished |-> TRUE,
                      status   |-> IF db[c] = NoData THEN "NOT_FOUND_ERROR" ELSE "SUCCESS",
                      data     |-> db[c]]]
       \/ /\ c \in Failing
          /\ task' = [task EXCEPT ![c] = [finished |-> TRUE, status |-> "OTHER_ERROR", data |-> NoData]]
    /\ UNCHANGED db

NodeWriteIOTask(c) ==
    \/ /\ task' = [task EXCEPT ![c].finished = TRUE]
       /\ db' = [db EXCEPT ![c] = task[c].data]
    \/ /\ c \in Failing
       /\ task' = [task EXCEPT ![c].finished = TRUE, ![c].status = "OTHER_ERROR"]
       /\ UNCHANGED db

RunJob(j) ==
    /\ j \in jobs
    /\ jobs' = jobs \ {j}
    /\ IF j.op = "read" THEN NodeReadIOTask(j.coord) ELSE NodeWriteIOTask(j.coord)
    /\ UNCHANGED <<frameVars, flagVars, nodeVars, linkVars, taskState, content>>

(* ProgressNodeReadTask returns TRUE in these states, without a side effect. *)
ReadReturnsTrue(c) ==
    \/ taskState[c] = "ReadInProgress" /\ ~task[c].finished
    \/ taskState[c] = "ReadDone"

(* Mutant: the node is generated again although a record was read. *)
ProgressNodeReadTaskGenerates(c) ==
    \/ /\ taskState[c] = "Idle"
       /\ task' = [task EXCEPT ![c] = NewTask(NoData)]
       /\ jobs' = jobs \union {[coord |-> c, op |-> "read"]}
       /\ taskState' = [taskState EXCEPT ![c] = "ReadInProgress"]
       /\ UNCHANGED <<content, db>>
    \/ /\ taskState[c] = "ReadInProgress" /\ task[c].finished
       /\ \E d \in Data : content' = [content EXCEPT ![c] = d]
       /\ taskState' = [taskState EXCEPT ![c] = "ReadDone"]
       /\ task' = [task EXCEPT ![c] = Null]
       /\ UNCHANGED <<jobs, db>>

(* ProgressNodeReadTask when it returns FALSE. *)
ProgressNodeReadTask(c) ==
    \/ /\ taskState[c] = "Idle"
       /\ IF task[c] = Null
            THEN /\ task' = [task EXCEPT ![c] = NewTask(NoData)]
                 /\ jobs' = jobs \union {[coord |-> c, op |-> "read"]}
                 /\ taskState' = [taskState EXCEPT ![c] = "ReadInProgress"]
            ELSE UNCHANGED <<task, jobs, taskState>>
       /\ UNCHANGED <<content, db>>
    \/ /\ taskState[c] = "ReadInProgress" /\ task[c].finished
       /\ \/ /\ task[c].status = "SUCCESS"           \* deserialize_callbacks
             /\ content' = [content EXCEPT ![c] = task[c].data]
          \/ /\ task[c].status = "NOT_FOUND_ERROR"   \* generate_callbacks
             /\ \E d \in Data : content' = [content EXCEPT ![c] = d]
          \/ /\ task[c].status = "OTHER_ERROR"
             /\ UNCHANGED content
       /\ taskState' = [taskState EXCEPT ![c] = "ReadDone"]
       /\ task' = [task EXCEPT ![c] = Null]
       /\ UNCHANGED <<jobs, db>>

(* Mutant: the write is not waited for. *)
WriteReturnsTrueEarly(c) == taskState[c] \in {"WriteInProgress", "WriteDone"}

(* Mutant: a failed write is waited for. *)
WriteReturnsTrueOnSuccess(c) ==
    \/ taskState[c] = "WriteInProgress" /\ task[c].finished /\ task[c].status = "SUCCESS"
    \/ taskState[c] = "WriteDone"

(* ProgressNodeWriteTask returns TRUE in these states, its task freed. *)
WriteReturnsTrue(c) ==
    \/ taskState[c] = "WriteInProgress" /\ task[c].finished
    \/ taskState[c] = "WriteDone"

(* serialize_callbacks: a node without content is written as an empty one. *)
Serialized(c) == IF content[c] = NoData THEN Empty ELSE content[c]

(* Mutant: the check for a task that is still there is missing. *)
ProgressNodeWriteTaskAlways(c) ==
    /\ IF taskState[c] = "Idle"
         THEN /\ task' = [task EXCEPT ![c] = NewTask(Serialized(c))]
              /\ jobs' = jobs \union {[coord |-> c, op |-> "write"]}
              /\ taskState' = [taskState EXCEPT ![c] = "WriteInProgress"]
         ELSE UNCHANGED <<task, jobs, taskState>>
    /\ UNCHANGED <<content, db>>

(* ProgressNodeWriteTask when it returns FALSE: a task left over from a     *)
(* read keeps the node waiting.                                            *)
ProgressNodeWriteTask(c) ==
    /\ IF taskState[c] = "Idle" /\ task[c] = Null
         THEN /\ task' = [task EXCEPT ![c] = NewTask(Serialized(c))]
              /\ jobs' = jobs \union {[coord |-> c, op |-> "write"]}
              /\ taskState' = [taskState EXCEPT ![c] = "WriteInProgress"]
         ELSE UNCHANGED <<task, jobs, taskState>>
    /\ UNCHANGED <<content, db>>

-----------------------------------------------------------------------------
(* WorldUpdate, first part: WorldDoNodeUnloadCommands visits every entry of *)
(* unloading_nodes.                                                        *)

UnloadNode(c) ==
    /\ WriteReturnsTrue(c)
    /\ UnlinkNode(c)
    /\ state' = [state EXCEPT ![c] = "Invalid"]
    /\ age' = [age EXCEPT ![c] = 0]
    /\ unloading' = [unloading EXCEPT ![c] = @ - 1]
    /\ taskState' = [taskState EXCEPT ![c] = "Idle"]
    /\ task' = [task EXCEPT ![c] = Null]
    /\ content' = [content EXCEPT ![c] = NoData]
    /\ UNCHANGED <<loading, jobs, db>>

WaitForWrite(c) ==
    /\ ~WriteReturnsTrue(c)
    /\ ProgressNodeWriteTask(c)
    /\ UNCHANGED <<nodeVars, linkVars>>

VisitUnloadCommand(c) ==
    /\ phase = "unload" /\ visit[c] > 0
    /\ visit' = [visit EXCEPT ![c] = @ - 1]
    /\ UnloadNode(c) \/ WaitForWrite(c)
    /\ UNCHANGED <<phase, scalesLeft, flagVars>>

(* WorldUpdate, second part, unless the simulation is unloading:            *)
(* WorldDoNodeLoadCommands visits every entry of loading_nodes.            *)

LoadNode(c) ==
    /\ ReadReturnsTrue(c)
    /\ taskState' = [taskState EXCEPT ![c] = "Idle"]
    /\ state' = [state EXCEPT ![c] = "Loaded"]
    /\ age' = [age EXCEPT ![c] = 0]
    /\ loading' = [loading EXCEPT ![c] = @ - 1]
    /\ LinkNode(c)
    /\ UNCHANGED <<unloading, task, jobs, content, db>>

WaitForRead(c) ==
    /\ ~ReadReturnsTrue(c)
    /\ ProgressNodeReadTask(c)
    /\ UNCHANGED <<nodeVars, linkVars>>

VisitLoadCommand(c) ==
    /\ phase = "load" /\ visit[c] > 0
    /\ visit' = [visit EXCEPT ![c] = @ - 1]
    /\ LoadNode(c) \/ WaitForRead(c)
    /\ UNCHANGED <<phase, scalesLeft, flagVars>>

AllVisited == \A c \in Coord : visit[c] = 0

EndUnloadCommands ==
    /\ phase = "unload" /\ AllVisited
    /\ IF simUnloading
         THEN /\ phase' = "scales"
              /\ scalesLeft' = ScaleIndex
              /\ UNCHANGED visit
         ELSE /\ phase' = "load"
              /\ visit' = loading
              /\ UNCHANGED scalesLeft
    /\ UNCHANGED <<flagVars, nodeVars, ioVars, linkVars>>

EndLoadCommands ==
    /\ phase = "load" /\ AllVisited
    /\ phase' = "scales"
    /\ scalesLeft' = ScaleIndex
    /\ UNCHANGED <<visit, flagVars, nodeVars, ioVars, linkVars>>

-----------------------------------------------------------------------------
(* ScaleUpdate: ScaleUnloadUnutilizedNodes, then, unless the simulation is  *)
(* unloading, TouchNode for every coordinate inside a loader's sphere.      *)
(* Loaders come, go and move between frames, so the coordinates they want   *)
(* in this scale are an input.                                             *)

(* Mutant: the state of the node is not looked at. *)
UnutilizedAnyState(s) ==
    {c \in nodes : c.scale = s /\ (worldUnloading \/ age[c] > Keepalive)}

Unutilized(s) ==
    {c \in nodes : /\ c.scale = s
                   /\ state[c] = "Loaded"
                   /\ worldUnloading \/ age[c] > Keepalive}

ScaleCoords(s) == {c \in Coord : c.scale = s}

ScaleUpdate(s, wanted) ==
    /\ phase = "scales" /\ s \in scalesLeft
    /\ simUnloading => wanted = {}
    /\ scalesLeft' = scalesLeft \ {s}
    /\ state' = [c \in Coord |->
                   IF c \in Unutilized(s) THEN "Unloading"
                   ELSE IF c \in wanted \ nodes THEN "Loading"
                   ELSE state[c]]
    /\ unloading' = [c \in Coord |->
                       IF c \in Unutilized(s) THEN unloading[c] + 1 ELSE unloading[c]]
    /\ loading' = [c \in Coord |->
                     IF c \in wanted \ nodes THEN loading[c] + 1 ELSE loading[c]]
    /\ age' = [c \in Coord |-> IF c \in wanted THEN 0 ELSE age[c]]
    /\ UNCHANGED <<phase, visit, flagVars, ioVars, linkVars>>

EndScales ==
    /\ phase = "scales" /\ scalesLeft = {}
    /\ phase' = "modules"
    /\ UNCHANGED <<visit, scalesLeft, flagVars, nodeVars, ioVars, linkVars>>

-----------------------------------------------------------------------------
(* The single-threaded end of a frame and what may happen before the next   *)
(* one: the clock advances, the world is destroyed once it is unloading and *)
(* empty, the unload command of the world's entity may unload the world,    *)
(* SimulationUnload may be called.  It queues the unload of every entity,   *)
(* so the first update after it unloads the world.                         *)

Advance(a, d) == IF a + d > Keepalive THEN Keepalive + 1 ELSE a + d

ModulesUpdate(d) ==
    /\ phase = "modules" /\ alive
    /\ phase' = "unload"
    /\ visit' = unloading
    /\ age' = [c \in Coord |-> IF c \in nodes THEN Advance(age[c], d) ELSE 0]
    /\ alive' = ~(worldUnloading /\ nodes = {})
    /\ simUnloading' \in {simUnloading, TRUE}
    /\ worldUnloading' \in {worldUnloading \/ simUnloading, TRUE}
    /\ UNCHANGED <<scalesLeft, state, loading, unloading, ioVars, linkVars>>

(* Nothing happens to a destroyed world. *)
Destroyed == ~alive /\ UNCHANGED vars

-----------------------------------------------------------------------------

(* CreateWorld: an empty world on the database an earlier session left. *)
Init ==
    /\ phase = "unload"
    /\ visit = [c \in Coord |-> 0]
    /\ scalesLeft = {}
    /\ simUnloading = FALSE
    /\ worldUnloading = FALSE
    /\ alive = TRUE
    /\ state = [c \in Coord |-> "Invalid"]
    /\ age = [c \in Coord |-> 0]
    /\ loading = [c \in Coord |-> 0]
    /\ unloading = [c \in Coord |-> 0]
    /\ taskState = [c \in Coord |-> "Idle"]
    /\ task = [c \in Coord |-> Null]
    /\ jobs = {}
    /\ content = [c \in Coord |-> NoData]
    /\ db \in [Coord -> Data \union {NoData}]
    /\ neighbours = [c \in Coord |-> [i \in NeighbourIndex |-> Null]]
    /\ parent = [c \in Coord |-> Null]
    /\ parentIndex = [c \in Coord |-> NoParent]
    /\ children = [c \in Coord |-> [i \in ChildIndex |-> Null]]

(* One step of the thread that runs the simulation. *)
FrameStep ==
    /\ alive
    /\ \/ \E c \in Coord : VisitUnloadCommand(c)
       \/ EndUnloadCommands
       \/ \E c \in Coord : VisitLoadCommand(c)
       \/ EndLoadCommands
       \/ \E s \in ScaleIndex : \E w \in SUBSET ScaleCoords(s) : ScaleUpdate(s, w)
       \/ EndScales
       \/ \E d \in 0 .. MaxStep : ModulesUpdate(d)

Next ==
    \/ FrameStep
    \/ \E j \in IOJob : RunJob(j)
    \/ Destroyed

Spec == Init /\ [][Next]_vars

(* The simulation thread loops without end and the pool runs every task it  *)
(* was given; nothing else is assumed to happen.                           *)
Fairness ==
    /\ WF_vars(FrameStep)
    /\ \A j \in IOJob : WF_vars(RunJob(j))

FairSpec == Spec /\ Fairness

-----------------------------------------------------------------------------
(* Properties. *)

FrameTypeOK ==
    /\ phase \in {"unload", "load", "scales", "modules"}
    /\ visit \in [Coord -> Nat]
    /\ scalesLeft \subseteq ScaleIndex

FlagTypeOK ==
    /\ simUnloading \in BOOLEAN
    /\ worldUnloading \in BOOLEAN
    /\ alive \in BOOLEAN

NodeTypeOK ==
    /\ state \in [Coord -> NodeState]
    /\ age \in [Coord -> 0 .. (Keepalive + 1)]
    /\ loading \in [Coord -> Nat]
    /\ unloading \in [Coord -> Nat]

IOTypeOK ==
    /\ taskState \in [Coord -> TaskState]
    /\ task \in [Coord -> IOTask \union {Null}]
    /\ jobs \subseteq IOJob
    /\ content \in [Coord -> Data \union {NoData}]
    /\ db \in [Coord -> Data \union {NoData}]

LinkTypeOK ==
    /\ neighbours \in [Coord -> [NeighbourIndex -> Coord \union {Null}]]
    /\ parent \in [Coord -> Coord \union {Null}]
    /\ parentIndex \in [Coord -> ChildIndex \union {NoParent}]
    /\ children \in [Coord -> [ChildIndex -> Coord \union {Null}]]

(* Every variable keeps its type. *)
TypeOK == FrameTypeOK /\ FlagTypeOK /\ NodeTypeOK /\ IOTypeOK /\ LinkTypeOK

(* A node has one load command while it is Loading, one unload command while *)
(* it is Unloading, and none otherwise, and the loops only visit such       *)
(* commands.  The callbacks of WorldDoNodeLoadCommands and                  *)
(* WorldDoNodeUnloadCommands look the node up in the map and assert its     *)
(* state: a command too many would touch a destroyed node.                 *)
CommandsMatchState ==
    \A c \in Coord :
        /\ loading[c] = IF state[c] = "Loading" THEN 1 ELSE 0
        /\ unloading[c] = IF state[c] = "Unloading" THEN 1 ELSE 0
        /\ phase = "unload" => visit[c] <= unloading[c]
        /\ phase = "load" => visit[c] <= loading[c]

(* The neighbour pointers of two nodes agree and no pointer outlives the    *)
(* node it points to: what LinkNode writes with 5 - i is what UnlinkNode    *)
(* clears, whatever loaded or unloaded in between.                         *)
NeighboursAgree ==
    \A c \in Coord : \A i \in NeighbourIndex :
        neighbours[c][i] # Null =>
            /\ c \in nodes
            /\ neighbours[c][i] \in nodes
            /\ neighbours[c][i] = NeighbourOf(c, i)
            /\ neighbours[neighbours[c][i]][5 - i] = c

(* A parent pointer, its index and the child pointer of the parent agree,   *)
(* and none of them outlives the node it points to.  Both ends are written  *)
(* by whichever of the two nodes loads last, one with GetNodeParentIndex,   *)
(* the other with node_child_offsets.                                      *)
ParentsAgree ==
    \A c \in Coord :
        /\ parent[c] # Null =>
             /\ c \in nodes
             /\ parent[c] \in nodes
             /\ parentIndex[c] \in ChildIndex
             /\ children[parent[c]][parentIndex[c]] = c
        /\ \A i \in ChildIndex : children[c][i] # Null =>
             /\ c \in nodes
             /\ children[c][i] \in nodes
             /\ children[c][i] = ChildOf(c, i)
             /\ parent[children[c][i]] = c
             /\ parentIndex[children[c][i]] = i

(* Links agree at both ends and none dangles, after any order of LinkNode    *)
(* and UnlinkNode.                                                           *)
LinksAgree == NeighboursAgree /\ ParentsAgree

(* Two nodes that finished loading and touch each other are linked, in      *)
(* whichever order they loaded and whatever was unloaded and loaded again   *)
(* between them.                                                           *)
HasLoaded(c) == state[c] \in {"Loaded", "Unloading"}

LoadedNodesLinked ==
    \A c \in Coord : HasLoaded(c) =>
        /\ \A i \in NeighbourIndex :
             NeighbourOf(c, i) \in Coord /\ HasLoaded(NeighbourOf(c, i))
                => neighbours[c][i] = NeighbourOf(c, i)
        /\ ParentOf(c) \in Coord /\ HasLoaded(ParentOf(c)) => parent[c] = ParentOf(c)

(* Links are what LinkNode and UnlinkNode promise each other in every order  *)
(* of loading and unloading: equal at both ends, to nodes that exist, and    *)
(* none is missing.                                                          *)
LinksExact == LinksAgree /\ LoadedNodesLinked

(* A task the pool has still to run points into a living node's IOTask and  *)
(* at the database of a living world: neither a node nor the world is       *)
(* destroyed under a pool thread, even when a node became Loaded while its  *)
(* read was in progress.                                                   *)
PoolTasksAlive ==
    \A j \in jobs :
        /\ alive
        /\ state[j.coord] # "Invalid"
        /\ task[j.coord] # Null
        /\ ~task[j.coord].finished
        /\ j.op = "write" <=> taskState[j.coord] = "WriteInProgress"

(* Unless its database operations fail, what was saved for a coordinate is never      *)
(* replaced by something else, and a node with content holds what is saved. *)
(* Generating draws new random ids every time, so this is also: a saved     *)
(* node is never generated again, and a node that became Loaded without its *)
(* content never overwrites the saved one.                                 *)
SavedContentKept ==
    \A c \in Coord \ Failing :
        db[c] # NoData /\ content[c] # NoData => content[c] = db[c]

SavedContentFinal ==
    [][\A c \in Coord \ Failing : db[c] # NoData => db'[c] = db[c]]_vars

(* A destroyed world leaves nothing behind: what DestroyWorld asserts about *)
(* the node maps and the command lists, and no pool task on its database.  *)
DestroyedClean ==
    ~alive => /\ nodes = {} /\ jobs = {}
              /\ \A c \in Coord : loading[c] = 0 /\ unloading[c] = 0 /\ task[c] = Null

(* No pool thread is left with a pointer into what was destroyed, and        *)
(* nothing is left that nobody will destroy: neither a node nor the world    *)
(* goes under its database task, and nothing of a world outlives it.         *)
NothingOutlived == PoolTasksAlive /\ DestroyedClean

(* A node marked Loaded before its read was consumed keeps the IOTask of the *)
(* read; ProgressNodeWriteTask then never starts a write for it.             *)
ReadLeft(c) == taskState[c] = "Idle" /\ task[c] # Null

(* Unless the simulation starts to unload, a node that starts loading       *)
(* becomes Loaded.                                                         *)
LoadingFinishes ==
    \A c \in Coord : state[c] = "Loading" ~> (state[c] = "Loaded" \/ simUnloading)

(* A node that unloads is written, successfully or not, and leaves the map,  *)
(* and so does every node of an unloading world, unless its read was left    *)
(* behind or the simulation unloads while it is Loading.                     *)
UnloadingFinishes ==
    \A c \in Coord :
        (state[c] = "Unloading" \/ worldUnloading)
            ~> \/ state[c] = "Invalid"
               \/ state[c] = "Unloading" /\ ReadLeft(c)
               \/ state[c] = "Loading" /\ simUnloading

(* However the pool delays its tasks and whichever of them fail, a node is    *)
(* stuck in two ways only: Unloading with the task of a read that was not     *)
(* consumed, and Loading when the simulation unloads.  UnloadFinishes and     *)
(* LoadingNodesUnload say that the code does get stuck in both.               *)
NodesFinish == LoadingFinishes /\ UnloadingFinishes

(* "Keep calling this function on a node until it returns true. When it     *)
(* returns true it means a write was done.": a node that unloads is removed. *)
(* ProgressNodeWriteTask returns false for ever when the node still has the  *)
(* task of its read.                                                         *)
UnloadFinishes ==
    \A c \in Coord : state[c] = "Unloading" ~> state[c] = "Invalid"

(* "Setting this flag means that all nodes in the world should be            *)
(* unloaded.": a node that is Loading when the flag is set does not stay so. *)
(* Load commands are skipped while the simulation unloads, and only Loaded   *)
(* nodes are given an unload command.                                        *)
LoadingNodesUnload ==
    \A c \in Coord :
        worldUnloading /\ state[c] = "Loading" ~> state[c] # "Loading"

(* "When it returns true it means a read was done": a node that became      *)
(* Loaded has its content.  The code returns true while a read is running.  *)
LoadedMeansRead ==
    \A c \in Coord : state[c] = "Loaded" => content[c] # NoData

-----------------------------------------------------------------------------
(* What the safety invariants rest on: how a node's state and its task go   *)
(* together, which tasks the pool still holds, and what they carry.        *)

TasksMatchState ==
    \A c \in Coord :
        /\ state[c] = "Invalid" => taskState[c] = "Idle" /\ task[c] = Null
        /\ state[c] = "Loading" =>
             \/ taskState[c] = "Idle" /\ task[c] = Null
             \/ taskState[c] = "ReadInProgress" /\ task[c] # Null
             \/ taskState[c] = "ReadDone" /\ task[c] = Null
        /\ state[c] = "Loaded" => taskState[c] = "Idle"
        /\ state[c] = "Unloading" =>
             \/ taskState[c] = "Idle"
             \/ taskState[c] = "WriteInProgress" /\ task[c] # Null

JobsMatchTasks ==
    \A j \in jobs :
        /\ task[j.coord] # Null
        /\ ~task[j.coord].finished
        /\ j.op = "write" <=> taskState[j.coord] = "WriteInProgress"

DestroyedEmpty == ~alive => \A c \in Coord : state[c] = "Invalid"

LifecycleInv ==
    /\ TypeOK
    /\ CommandsMatchState
    /\ TasksMatchState
    /\ JobsMatchTasks
    /\ DestroyedEmpty

(* Where the database does not fail: where the content of a node is, and where it  *)
(* is on its way.                                                          *)
ContentAt(c) ==
    /\ state[c] = "Invalid" => content[c] = NoData
    /\ state[c] = "Loading" /\ taskState[c] # "ReadDone" => content[c] = NoData
    /\ taskState[c] = "ReadDone" => content[c] # NoData
    /\ HasLoaded(c) /\ task[c] = Null => content[c] # NoData
    /\ taskState[c] = "WriteInProgress" =>
         content[c] # NoData /\ task[c].data = content[c]
    /\ taskState[c] = "ReadInProgress" /\ task[c].finished =>
         \/ task[c].status = "SUCCESS" /\ task[c].data = db[c] /\ db[c] # NoData
         \/ task[c].status = "NOT_FOUND_ERROR" /\ db[c] = NoData
    /\ db[c] # NoData /\ content[c] # NoData => content[c] = db[c]

ContentInv == \A c \in Coord \ Failing : ContentAt(c)

=============================================================================
