------------------------- MODULE SpatialWorldProofs -------------------------
(* Proofs that the invariants of SpatialWorld hold for every world. *)
EXTENDS SpatialWorld, TLAPS

(* The initial state of a new world satisfies the lifecycle invariant. *)
LEMMA LifecycleInit == Init => LifecycleInv
<1> SUFFICES ASSUME Init PROVE LifecycleInv
  OBVIOUS
<1>1. TypeOK
  <2>1. FrameTypeOK
    BY DEF Init, FrameTypeOK
  <2>2. FlagTypeOK
    BY DEF Init, FlagTypeOK
  <2>3. NodeTypeOK
    BY WorldAssumption DEF WorldAssumption, Init, NodeTypeOK, NodeState
  <2>4. IOTypeOK
    BY DEF Init, IOTypeOK, TaskState
  <2>5. LinkTypeOK
    BY DEF Init, LinkTypeOK, NeighbourIndex, ChildIndex, NoParent
  <2> QED
    BY <2>1, <2>2, <2>3, <2>4, <2>5 DEF TypeOK
<1>2. CommandsMatchState /\ TasksMatchState /\ JobsMatchTasks /\ DestroyedEmpty
  BY DEF Init, CommandsMatchState, TasksMatchState, JobsMatchTasks, DestroyedEmpty
<1> QED
  BY <1>1, <1>2 DEF LifecycleInv

(* Pool threads: running a database task only fills in the IOTask it was    *)
(* given, which belongs to a living node.                                  *)
LEMMA LifecycleRunJob ==
  ASSUME LifecycleInv, NEW j \in IOJob, RunJob(j)
  PROVE  LifecycleInv'
<1> USE DEF LifecycleInv
<1>1. PICK c \in Coord : c = j.coord
  BY DEF IOJob
<1>2. /\ task[c] \in IOTask /\ ~task[c].finished
      /\ db[c] \in Data \union {NoData}
  BY <1>1 DEF RunJob, JobsMatchTasks, TypeOK, IOTypeOK
<1>3. \E t \in IOTask : t.finished /\ task' = [task EXCEPT ![c] = t]
  <2>1. CASE j.op = "read"
    <3>1. CASE task' = [task EXCEPT ![c] =
                     [finished |-> TRUE,
                      status   |-> IF db[c] = NoData THEN "NOT_FOUND_ERROR" ELSE "SUCCESS",
                      data     |-> db[c]]]
      <4> DEFINE st == IF db[c] = NoData THEN "NOT_FOUND_ERROR" ELSE "SUCCESS"
      <4>1. st \in Status
        BY DEF Status
      <4>2. [finished |-> TRUE, status |-> st, data |-> db[c]] \in IOTask
        BY <1>2, <4>1 DEF IOTask
      <4> QED
        BY <3>1, <4>2
    <3>2. CASE task' = [task EXCEPT ![c] = [finished |-> TRUE, status |-> "OTHER_ERROR", data |-> NoData]]
      BY <3>2 DEF IOTask, Status
    <3> QED
      BY <1>1, <2>1, <3>1, <3>2 DEF RunJob, NodeReadIOTask
  <2>2. CASE j.op # "read"
    <3>1. CASE task' = [task EXCEPT ![c].finished = TRUE]
      <4>1. [task[c] EXCEPT !.finished = TRUE] \in IOTask
        BY <1>2 DEF IOTask
      <4>2. [task[c] EXCEPT !.finished = TRUE].finished
        BY <1>2 DEF IOTask
      <4> QED
        BY <3>1, <4>1, <4>2
    <3>2. CASE task' = [task EXCEPT ![c].finished = TRUE, ![c].status = "OTHER_ERROR"]
      <4> DEFINE t == [[task[c] EXCEPT !.finished = TRUE] EXCEPT !.status = "OTHER_ERROR"]
      <4>1. t \in IOTask /\ t.finished
        BY <1>2 DEF IOTask, Status
      <4>2. task' = [task EXCEPT ![c] = t]
        BY <3>2, <1>2 DEF TypeOK, IOTypeOK
      <4> QED
        BY <4>1, <4>2
    <3> QED
      BY <1>1, <2>2, <3>1, <3>2 DEF RunJob, NodeWriteIOTask
  <2> QED
    BY <2>1, <2>2
<1>4. PICK t \in IOTask : t.finished /\ task' = [task EXCEPT ![c] = t]
  BY <1>3
<1>5. db' \in [Coord -> Data \union {NoData}]
  BY <1>1, <1>2 DEF RunJob, NodeReadIOTask, NodeWriteIOTask, TypeOK, IOTypeOK, IOTask
<1>6. /\ jobs' = jobs \ {j} /\ j \in jobs
      /\ UNCHANGED <<phase, visit, scalesLeft, simUnloading, worldUnloading, alive,
                     state, age, loading, unloading, taskState, content,
                     neighbours, parent, parentIndex, children>>
  BY DEF RunJob, frameVars, flagVars, nodeVars, linkVars
<1>7. TypeOK'
  <2>1. IOTypeOK'
    BY <1>4, <1>5, <1>6 DEF TypeOK, IOTypeOK
  <2> QED
    BY <1>6, <2>1 DEF TypeOK, FrameTypeOK, FlagTypeOK, NodeTypeOK, LinkTypeOK
<1>8. CommandsMatchState' /\ DestroyedEmpty'
  BY <1>6 DEF CommandsMatchState, DestroyedEmpty
<1>9. TasksMatchState'
  BY <1>2, <1>4, <1>6, WorldAssumption DEF TasksMatchState, TypeOK, IOTypeOK, WorldAssumption
<1>10. JobsMatchTasks'
  <2> SUFFICES ASSUME NEW k \in jobs'
               PROVE  /\ task'[k.coord] # Null
                      /\ ~task'[k.coord].finished
                      /\ k.op = "write" <=> taskState'[k.coord] = "WriteInProgress"
    BY DEF JobsMatchTasks
  <2>1. k.coord # c
    BY <1>1, <1>6 DEF JobsMatchTasks, TypeOK, IOTypeOK, IOJob
  <2> QED
    BY <2>1, <1>4, <1>6 DEF JobsMatchTasks, TypeOK, IOTypeOK, IOJob
<1> QED
  BY <1>7, <1>8, <1>9, <1>10

(* Reading LifecycleInv in the shape the proofs use it. *)
LEMMA LifecycleTypes ==
  ASSUME LifecycleInv
  PROVE  FrameTypeOK /\ FlagTypeOK /\ NodeTypeOK /\ IOTypeOK /\ LinkTypeOK
BY DEF LifecycleInv, TypeOK

(* A coordinate has a scale of the world and integer positions. *)
LEMMA CoordTypes ==
  ASSUME NEW c \in Coord
  PROVE  /\ c.scale \in ScaleIndex /\ c.scale \in Int
         /\ c.x \in Int /\ c.y \in Int /\ c.z \in Int
         /\ c = [scale |-> c.scale, x |-> c.x, y |-> c.y, z |-> c.z]
BY WorldAssumption DEF WorldAssumption, ScaleIndex

(* GetNodeParentIndex is an index into the children of a node. *)
LEMMA ParentIndexType ==
  ASSUME NEW c \in Coord
  PROVE  GetNodeParentIndex(c) \in ChildIndex
<1>1. ASSUME NEW n \in Int PROVE n % 2 \in {0, 1}
  OBVIOUS
<1>2. c.x % 2 \in {0, 1} /\ c.y % 2 \in {0, 1} /\ c.z % 2 \in {0, 1}
  BY <1>1, CoordTypes
<1> QED
  BY <1>2 DEF GetNodeParentIndex, ChildIndex

(* LinkNode and UnlinkNode write node pointers and child indices only. *)
LEMMA LinkTypes ==
  ASSUME LinkTypeOK, NEW c \in Coord, LinkNode(c)
  PROVE  LinkTypeOK'
<1>1. neighbours' \in [Coord -> [NeighbourIndex -> Coord \union {Null}]]
  BY DEF LinkTypeOK, LinkNode, nodes
<1>2. parent' \in [Coord -> Coord \union {Null}]
  BY DEF LinkTypeOK, LinkNode, nodes
<1>3. parentIndex' \in [Coord -> ChildIndex \union {NoParent}]
  <2>1. GetNodeParentIndex(c) \in ChildIndex
    BY ParentIndexType
  <2>2. ASSUME NEW d, \E i \in ChildIndex : d = ChildOf(c, i)
        PROVE  (CHOOSE i \in ChildIndex : d = ChildOf(c, i)) \in ChildIndex
    BY <2>2
  <2> QED
    BY <2>1, <2>2 DEF LinkTypeOK, LinkNode
<1>4. children' \in [Coord -> [ChildIndex -> Coord \union {Null}]]
  BY DEF LinkTypeOK, LinkNode, nodes
<1> QED
  BY <1>1, <1>2, <1>3, <1>4 DEF LinkTypeOK

(* Unlinking a node leaves every node one. *)
LEMMA UnlinkTypes ==
  ASSUME LinkTypeOK, NEW c \in Coord, UnlinkNode(c)
  PROVE  LinkTypeOK'
BY DEF LinkTypeOK, UnlinkNode

(* A visited unload command names an Unloading node; it is removed when its *)
(* write is done, and by then the pool holds no task of it.                *)
LEMMA LifecycleVisitUnload ==
  ASSUME LifecycleInv, alive, NEW c \in Coord, VisitUnloadCommand(c)
  PROVE  LifecycleInv'
<1> USE LifecycleTypes
<1>1. /\ phase = "unload" /\ visit[c] = 1 /\ unloading[c] = 1 /\ loading[c] = 0
      /\ state[c] = "Unloading"
  BY DEF LifecycleInv, VisitUnloadCommand, CommandsMatchState, FrameTypeOK, NodeTypeOK
<1>2. /\ visit' = [visit EXCEPT ![c] = 0]
      /\ UNCHANGED <<phase, scalesLeft, simUnloading, worldUnloading, alive>>
  BY <1>1 DEF VisitUnloadCommand, flagVars
<1>3. FrameTypeOK' /\ FlagTypeOK'
  BY <1>2 DEF FrameTypeOK, FlagTypeOK
<1>4. CASE UnloadNode(c)
  <2>1. /\ state' = [state EXCEPT ![c] = "Invalid"]
        /\ age' = [age EXCEPT ![c] = 0]
        /\ unloading' = [unloading EXCEPT ![c] = 0]
        /\ taskState' = [taskState EXCEPT ![c] = "Idle"]
        /\ task' = [task EXCEPT ![c] = Null]
        /\ content' = [content EXCEPT ![c] = NoData]
        /\ UNCHANGED <<loading, jobs, db>>
    BY <1>1, <1>4 DEF UnloadNode
  <2>2. task[c].finished /\ taskState[c] = "WriteInProgress"
    BY <1>1, <1>4 DEF UnloadNode, WriteReturnsTrue, LifecycleInv, TasksMatchState
  <2>3. \A j \in jobs : j.coord # c
    BY <2>2 DEF LifecycleInv, JobsMatchTasks
  <2>4. LinkTypeOK'
    BY <1>4, UnlinkTypes DEF UnloadNode
  <2>5. NodeTypeOK'
    BY <2>1, WorldAssumption DEF NodeTypeOK, NodeState, WorldAssumption
  <2>6. IOTypeOK'
    BY <2>1 DEF IOTypeOK, TaskState
  <2>7. CommandsMatchState'
    BY <1>1, <1>2, <2>1 DEF LifecycleInv, CommandsMatchState, FrameTypeOK, NodeTypeOK
  <2>8. TasksMatchState'
    BY <2>1 DEF LifecycleInv, TasksMatchState, NodeTypeOK, IOTypeOK
  <2>9. JobsMatchTasks'
    BY <2>1, <2>3 DEF LifecycleInv, JobsMatchTasks, IOTypeOK, IOJob
  <2>10. DestroyedEmpty'
    BY <1>2 DEF DestroyedEmpty
  <2> QED
    BY <1>3, <2>4, <2>5, <2>6, <2>7, <2>8, <2>9, <2>10 DEF LifecycleInv, TypeOK
<1>5. CASE WaitForWrite(c)
  <2>1. UNCHANGED <<state, age, loading, unloading, neighbours, parent, parentIndex, children,
                    content, db>>
    BY <1>5 DEF WaitForWrite, nodeVars, linkVars, ProgressNodeWriteTask
  <2>2. NodeTypeOK' /\ LinkTypeOK' /\ CommandsMatchState' /\ DestroyedEmpty'
    BY <1>1, <1>2, <2>1
       DEF NodeTypeOK, LinkTypeOK, LifecycleInv, CommandsMatchState, DestroyedEmpty, FrameTypeOK
  <2>3. CASE taskState[c] = "Idle" /\ task[c] = Null
    <3>1. /\ task' = [task EXCEPT ![c] = NewTask(Serialized(c))]
          /\ jobs' = jobs \union {[coord |-> c, op |-> "write"]}
          /\ taskState' = [taskState EXCEPT ![c] = "WriteInProgress"]
      BY <1>5, <2>3 DEF WaitForWrite, ProgressNodeWriteTask
    <3>2. NewTask(Serialized(c)) \in IOTask /\ ~NewTask(Serialized(c)).finished
      BY WorldAssumption DEF NewTask, IOTask, Status, IOTypeOK, Serialized, WorldAssumption
    <3>3. [coord |-> c, op |-> "write"] \in IOJob
      BY DEF IOJob
    <3>4. IOTypeOK'
      BY <2>1, <3>1, <3>2, <3>3 DEF IOTypeOK, TaskState
    <3>5. TasksMatchState'
      BY <1>1, <2>1, <3>1, <3>2, WorldAssumption
         DEF LifecycleInv, TasksMatchState, NodeTypeOK, IOTypeOK, WorldAssumption
    <3>6. \A j \in jobs : j.coord # c
      BY <2>3 DEF LifecycleInv, JobsMatchTasks
    <3>7. JobsMatchTasks'
      BY <3>1, <3>2, <3>6, WorldAssumption
         DEF LifecycleInv, JobsMatchTasks, IOTypeOK, IOJob, WorldAssumption
    <3> QED
      BY <1>3, <2>2, <3>4, <3>5, <3>7 DEF LifecycleInv, TypeOK
  <2>4. CASE ~(taskState[c] = "Idle" /\ task[c] = Null)
    <3>1. UNCHANGED <<task, jobs, taskState>>
      BY <1>5, <2>4 DEF WaitForWrite, ProgressNodeWriteTask
    <3>2. IOTypeOK' /\ TasksMatchState' /\ JobsMatchTasks'
      BY <2>1, <3>1 DEF IOTypeOK, LifecycleInv, TasksMatchState, JobsMatchTasks
    <3> QED
      BY <1>3, <2>2, <3>2 DEF LifecycleInv, TypeOK
  <2> QED
    BY <2>3, <2>4
<1> QED
  BY <1>4, <1>5 DEF VisitUnloadCommand

(* A visited load command names a Loading node; whichever way               *)
(* ProgressNodeReadTask goes, the node's state, command and task agree.    *)
LEMMA LifecycleVisitLoad ==
  ASSUME LifecycleInv, alive, NEW c \in Coord, VisitLoadCommand(c)
  PROVE  LifecycleInv'
<1> USE LifecycleTypes
<1>1. /\ phase = "load" /\ visit[c] = 1 /\ loading[c] = 1 /\ unloading[c] = 0
      /\ state[c] = "Loading"
  BY DEF LifecycleInv, VisitLoadCommand, CommandsMatchState, FrameTypeOK, NodeTypeOK
<1>2. /\ visit' = [visit EXCEPT ![c] = 0]
      /\ UNCHANGED <<phase, scalesLeft, simUnloading, worldUnloading, alive>>
  BY <1>1 DEF VisitLoadCommand, flagVars
<1>3. FrameTypeOK' /\ FlagTypeOK'
  BY <1>2 DEF FrameTypeOK, FlagTypeOK
<1>4. CASE LoadNode(c)
  <2>1. /\ state' = [state EXCEPT ![c] = "Loaded"]
        /\ age' = [age EXCEPT ![c] = 0]
        /\ loading' = [loading EXCEPT ![c] = 0]
        /\ taskState' = [taskState EXCEPT ![c] = "Idle"]
        /\ UNCHANGED <<unloading, task, jobs, content, db>>
    BY <1>1, <1>4 DEF LoadNode
  <2>2. taskState[c] \in {"ReadInProgress", "ReadDone"}
    BY <1>4 DEF LoadNode, ReadReturnsTrue
  <2>3. LinkTypeOK'
    BY <1>4, LinkTypes DEF LoadNode
  <2>4. NodeTypeOK'
    BY <2>1, WorldAssumption DEF NodeTypeOK, NodeState, WorldAssumption
  <2>5. IOTypeOK'
    BY <2>1 DEF IOTypeOK, TaskState
  <2>6. CommandsMatchState'
    BY <1>1, <1>2, <2>1 DEF LifecycleInv, CommandsMatchState, FrameTypeOK, NodeTypeOK
  <2>7. TasksMatchState'
    BY <2>1 DEF LifecycleInv, TasksMatchState, NodeTypeOK, IOTypeOK
  <2>8. JobsMatchTasks'
    BY <2>1, <2>2 DEF LifecycleInv, JobsMatchTasks, IOTypeOK, IOJob
  <2>9. DestroyedEmpty'
    BY <1>2 DEF DestroyedEmpty
  <2> QED
    BY <1>3, <2>3, <2>4, <2>5, <2>6, <2>7, <2>8, <2>9 DEF LifecycleInv, TypeOK
<1>5. CASE WaitForRead(c)
  <2>1. UNCHANGED <<state, age, loading, unloading, neighbours, parent, parentIndex, children>>
    BY <1>5 DEF WaitForRead, nodeVars, linkVars
  <2>2. NodeTypeOK' /\ LinkTypeOK' /\ CommandsMatchState' /\ DestroyedEmpty'
    BY <1>1, <1>2, <2>1
       DEF NodeTypeOK, LinkTypeOK, LifecycleInv, CommandsMatchState, DestroyedEmpty, FrameTypeOK
  <2>3. CASE taskState[c] = "Idle"
    <3>1. /\ task' = [task EXCEPT ![c] = NewTask(NoData)]
          /\ jobs' = jobs \union {[coord |-> c, op |-> "read"]}
          /\ taskState' = [taskState EXCEPT ![c] = "ReadInProgress"]
          /\ UNCHANGED <<content, db>>
      BY <1>1, <1>5, <2>3 DEF WaitForRead, ProgressNodeReadTask, LifecycleInv, TasksMatchState
    <3>2. NewTask(NoData) \in IOTask /\ ~NewTask(NoData).finished
      BY DEF NewTask, IOTask, Status
    <3>3. [coord |-> c, op |-> "read"] \in IOJob
      BY DEF IOJob
    <3>4. IOTypeOK'
      BY <3>1, <3>2, <3>3 DEF IOTypeOK, TaskState
    <3>5. TasksMatchState'
      BY <1>1, <2>1, <3>1, <3>2, WorldAssumption
         DEF LifecycleInv, TasksMatchState, NodeTypeOK, IOTypeOK, WorldAssumption
    <3>6. \A j \in jobs : j.coord # c
      BY <1>1, <2>3 DEF LifecycleInv, JobsMatchTasks, TasksMatchState
    <3>7. JobsMatchTasks'
      BY <3>1, <3>2, <3>6, WorldAssumption
         DEF LifecycleInv, JobsMatchTasks, IOTypeOK, IOJob, WorldAssumption
    <3> QED
      BY <1>3, <2>2, <3>4, <3>5, <3>7 DEF LifecycleInv, TypeOK
  <2>4. CASE taskState[c] # "Idle"
    <3>1. /\ taskState[c] = "ReadInProgress" /\ task[c].finished
          /\ taskState' = [taskState EXCEPT ![c] = "ReadDone"]
          /\ task' = [task EXCEPT ![c] = Null]
          /\ UNCHANGED <<jobs, db>>
      BY <1>5, <2>4 DEF WaitForRead, ProgressNodeReadTask
    <3>2. task[c] \in IOTask
      BY <1>1, <3>1 DEF LifecycleInv, TasksMatchState, IOTypeOK
    <3>3. \E d \in Data \union {NoData} : content' = [content EXCEPT ![c] = d]
      <4>1. CASE \E d \in Data : content' = [content EXCEPT ![c] = d]
        BY <4>1
      <4>2. CASE content' = [content EXCEPT ![c] = task[c].data]
        BY <4>2, <3>2 DEF IOTask
      <4>3. CASE content' = content
        BY <4>3 DEF IOTypeOK
      <4> QED
        BY <4>1, <4>2, <4>3, <1>5, <2>4 DEF WaitForRead, ProgressNodeReadTask
    <3>4. IOTypeOK'
      BY <3>1, <3>3 DEF IOTypeOK, TaskState
    <3>5. TasksMatchState'
      BY <1>1, <2>1, <3>1 DEF LifecycleInv, TasksMatchState, NodeTypeOK, IOTypeOK
    <3>6. \A j \in jobs : j.coord # c
      BY <3>1 DEF LifecycleInv, JobsMatchTasks
    <3>7. JobsMatchTasks'
      BY <3>1, <3>6 DEF LifecycleInv, JobsMatchTasks, IOTypeOK, IOJob
    <3> QED
      BY <1>3, <2>2, <3>4, <3>5, <3>7 DEF LifecycleInv, TypeOK
  <2> QED
    BY <2>3, <2>4
<1> QED
  BY <1>4, <1>5 DEF VisitLoadCommand

(* A scale update queues each Loaded node it unloads and each node it       *)
(* creates exactly once.                                                   *)
LEMMA LifecycleScaleUpdate ==
  ASSUME LifecycleInv, alive, NEW s \in ScaleIndex, NEW w \in SUBSET ScaleCoords(s),
         ScaleUpdate(s, w)
  PROVE  LifecycleInv'
<1> USE LifecycleTypes
<1>1. /\ phase = "scales"
      /\ scalesLeft' = scalesLeft \ {s}
      /\ UNCHANGED <<phase, visit, simUnloading, worldUnloading, alive,
                     taskState, task, jobs, content, db,
                     neighbours, parent, parentIndex, children>>
  BY DEF ScaleUpdate, flagVars, ioVars, linkVars
<1>2. FrameTypeOK' /\ FlagTypeOK' /\ IOTypeOK' /\ LinkTypeOK'
  BY <1>1 DEF FrameTypeOK, FlagTypeOK, IOTypeOK, LinkTypeOK
<1>3. NodeTypeOK'
  BY WorldAssumption DEF ScaleUpdate, NodeTypeOK, NodeState, WorldAssumption
<1>4. \A c \in Coord :
        /\ c \in Unutilized(s) => state[c] = "Loaded"
        /\ c \in w \ nodes <=> (c \in w /\ state[c] = "Invalid")
  BY DEF Unutilized, nodes
<1>5. CommandsMatchState'
  BY <1>1, <1>4 DEF ScaleUpdate, LifecycleInv, CommandsMatchState, NodeTypeOK
<1>6. TasksMatchState'
  BY <1>1, <1>4 DEF ScaleUpdate, LifecycleInv, TasksMatchState, NodeTypeOK
<1>7. JobsMatchTasks' /\ DestroyedEmpty'
  BY <1>1 DEF LifecycleInv, JobsMatchTasks, DestroyedEmpty
<1> QED
  BY <1>2, <1>3, <1>5, <1>6, <1>7 DEF LifecycleInv, TypeOK

(* The steps between the loops and the end of the frame only move the       *)
(* frame forward; the world is destroyed only when it has no node.         *)
LEMMA LifecycleFrameEnds ==
  ASSUME LifecycleInv, alive,
         \/ EndUnloadCommands
         \/ EndLoadCommands
         \/ EndScales
         \/ \E d \in 0 .. MaxStep : ModulesUpdate(d)
  PROVE  LifecycleInv'
<1> USE LifecycleTypes
<1>1. UNCHANGED <<state, loading, unloading, taskState, task, jobs, content, db,
                 neighbours, parent, parentIndex, children>>
  BY DEF EndUnloadCommands, EndLoadCommands, EndScales, ModulesUpdate, nodeVars, ioVars, linkVars
<1>2. IOTypeOK' /\ LinkTypeOK' /\ TasksMatchState' /\ JobsMatchTasks'
  BY <1>1 DEF IOTypeOK, LinkTypeOK, LifecycleInv, TasksMatchState, JobsMatchTasks
<1>3. FrameTypeOK'
  BY DEF EndUnloadCommands, EndLoadCommands, EndScales, ModulesUpdate, FrameTypeOK, NodeTypeOK
<1>4. FlagTypeOK'
  BY DEF EndUnloadCommands, EndLoadCommands, EndScales, ModulesUpdate, FlagTypeOK, flagVars
<1>5. NodeTypeOK'
  <2>1. CASE \E d \in 0 .. MaxStep : ModulesUpdate(d)
    <3> PICK d \in 0 .. MaxStep : ModulesUpdate(d)
      BY <2>1
    <3>1. ASSUME NEW a \in 0 .. (Keepalive + 1)
          PROVE  Advance(a, d) \in 0 .. (Keepalive + 1)
      BY WorldAssumption DEF WorldAssumption, Advance
    <3>2. 0 \in 0 .. (Keepalive + 1)
      BY WorldAssumption DEF WorldAssumption
    <3>3. age' \in [Coord -> 0 .. (Keepalive + 1)]
      BY <3>1, <3>2 DEF ModulesUpdate, NodeTypeOK
    <3> QED
      BY <1>1, <3>3 DEF NodeTypeOK
  <2>2. CASE UNCHANGED age
    BY <1>1, <2>2 DEF NodeTypeOK
  <2> QED
    BY <2>1, <2>2 DEF EndUnloadCommands, EndLoadCommands, EndScales, nodeVars
<1>6. CommandsMatchState'
  <2>1. /\ phase' = "unload" => visit' = unloading
        /\ phase' = "load" => visit' = loading
    BY DEF EndUnloadCommands, EndLoadCommands, EndScales, ModulesUpdate
  <2> QED
    BY <1>1, <2>1 DEF LifecycleInv, CommandsMatchState, NodeTypeOK
<1>7. DestroyedEmpty'
  <2>1. ~alive' => nodes = {}
    BY DEF EndUnloadCommands, EndLoadCommands, EndScales, ModulesUpdate, flagVars
  <2> QED
    BY <1>1, <2>1 DEF DestroyedEmpty, nodes
<1> QED
  BY <1>2, <1>3, <1>4, <1>5, <1>6, <1>7 DEF LifecycleInv, TypeOK

(* Every step of the specification preserves the lifecycle invariant. *)
LEMMA LifecycleNext == LifecycleInv /\ [Next]_vars => LifecycleInv'
<1> SUFFICES ASSUME LifecycleInv, [Next]_vars PROVE LifecycleInv'
  OBVIOUS
<1>1. CASE FrameStep
  BY <1>1, LifecycleVisitUnload, LifecycleVisitLoad, LifecycleScaleUpdate, LifecycleFrameEnds
     DEF FrameStep
<1>2. CASE \E j \in IOJob : RunJob(j)
  BY <1>2, LifecycleRunJob
<1>3. CASE UNCHANGED vars
  BY <1>3 DEF vars, frameVars, flagVars, nodeVars, ioVars, linkVars,
              LifecycleInv, TypeOK, FrameTypeOK, FlagTypeOK, NodeTypeOK, IOTypeOK, LinkTypeOK,
              CommandsMatchState, TasksMatchState, JobsMatchTasks, DestroyedEmpty
<1> QED
  BY <1>1, <1>2, <1>3 DEF Next, Destroyed

(* Type correctness, the agreement of node states, commands, tasks and pool *)
(* jobs: always, for every world.                                          *)
THEOREM LifecycleInvariant == Spec => []LifecycleInv
BY LifecycleInit, LifecycleNext, PTL DEF Spec

(* Every variable keeps its type. *)
THEOREM TypeCorrect == Spec => []TypeOK
<1>1. LifecycleInv => TypeOK
  BY DEF LifecycleInv
<1> QED
  BY <1>1, LifecycleInvariant, PTL

(* A command names a node in the state the command is for, exactly once:    *)
(* the assertions in the callbacks of WorldDoNodeLoadCommands and           *)
(* WorldDoNodeUnloadCommands hold.                                         *)
THEOREM CommandsAlwaysMatch == Spec => []CommandsMatchState
<1>1. LifecycleInv => CommandsMatchState
  BY DEF LifecycleInv
<1> QED
  BY <1>1, LifecycleInvariant, PTL

(* No node and no world is destroyed while the pool has a task of it. *)
THEOREM PoolTasksAlwaysAlive == Spec => []PoolTasksAlive
<1>1. LifecycleInv => PoolTasksAlive
  BY LifecycleTypes DEF LifecycleInv, PoolTasksAlive, JobsMatchTasks, TasksMatchState,
     DestroyedEmpty, IOTypeOK, IOJob
<1> QED
  BY <1>1, LifecycleInvariant, PTL

(* What DestroyWorld asserts holds when the world is destroyed. *)
THEOREM DestroyedAlwaysClean == Spec => []DestroyedClean
<1>1. LifecycleInv => DestroyedClean
  <2> SUFFICES ASSUME LifecycleInv, ~alive PROVE DestroyedClean
    BY DEF DestroyedClean
  <2>1. \A c \in Coord : state[c] = "Invalid" /\ task[c] = Null
    BY DEF LifecycleInv, DestroyedEmpty, TasksMatchState
  <2>2. jobs = {}
    BY <2>1, LifecycleTypes DEF LifecycleInv, JobsMatchTasks, IOTypeOK, IOJob
  <2> QED
    BY <2>1, <2>2 DEF DestroyedClean, LifecycleInv, CommandsMatchState, nodes
<1> QED
  BY <1>1, LifecycleInvariant, PTL

(* Nodes, worlds and the tasks of the pool never outlive one another. *)
THEOREM NothingEverOutlived == Spec => []NothingOutlived
BY PoolTasksAlwaysAlive, DestroyedAlwaysClean, PTL DEF NothingOutlived

-----------------------------------------------------------------------------
(* Content.  Where the database does not fail, what was saved stays saved.  *)

(* A step that leaves a node's state, task, content and record alone leaves *)
(* what is known of its content alone.                                     *)
LEMMA ContentSame ==
  ASSUME NEW c \in Coord, ContentAt(c),
         state'[c] = state[c], taskState'[c] = taskState[c], task'[c] = task[c],
         content'[c] = content[c], db'[c] = db[c]
  PROVE  ContentAt(c)'
BY DEF ContentAt, HasLoaded

(* A pool task reads the record into the IOTask or writes to the record     *)
(* what the node holds.                                                    *)
LEMMA ContentRunJob ==
  ASSUME LifecycleInv, NEW j \in IOJob, RunJob(j),
         NEW c \in Coord \ Failing, ContentAt(c)
  PROVE  ContentAt(c)' /\ (db[c] # NoData => db'[c] = db[c])
<1> USE LifecycleTypes
<1>1. /\ j.coord \in Coord /\ j.op \in {"read", "write"} /\ j \in jobs
      /\ state' = state /\ taskState' = taskState /\ content' = content
  BY DEF RunJob, IOJob, nodeVars
<1>2. CASE j.coord # c
  <2>1. task'[c] = task[c] /\ db'[c] = db[c]
    BY <1>1, <1>2 DEF RunJob, NodeReadIOTask, NodeWriteIOTask, IOTypeOK
  <2> QED
    BY <1>1, <2>1, ContentSame
<1>3. CASE j.coord = c /\ j.op = "read"
  <2>1. /\ db' = db
        /\ task' = [task EXCEPT ![c] =
                     [finished |-> TRUE,
                      status   |-> IF db[c] = NoData THEN "NOT_FOUND_ERROR" ELSE "SUCCESS",
                      data     |-> db[c]]]
    BY <1>3 DEF RunJob, NodeReadIOTask
  <2>2. task[c] \in IOTask /\ taskState[c] # "WriteInProgress"
    BY <1>1, <1>3 DEF LifecycleInv, JobsMatchTasks, IOTypeOK
  <2>3. /\ task'[c].finished /\ task'[c].data = db[c]
        /\ db[c] = NoData => task'[c].status = "NOT_FOUND_ERROR"
        /\ db[c] # NoData => task'[c].status = "SUCCESS"
    BY <2>1 DEF IOTypeOK
  <2>4. task'[c] # Null
    <3> DEFINE st == IF db[c] = NoData THEN "NOT_FOUND_ERROR" ELSE "SUCCESS"
    <3>1. st \in Status /\ db[c] \in Data \union {NoData}
      BY DEF Status, IOTypeOK
    <3>2. [finished |-> TRUE, status |-> st, data |-> db[c]] \in IOTask
      BY <3>1 DEF IOTask
    <3>3. task'[c] = [finished |-> TRUE, status |-> st, data |-> db[c]]
      BY <2>1 DEF IOTypeOK
    <3> QED
      BY <3>2, <3>3, WorldAssumption DEF WorldAssumption
  <2> QED
    BY <1>1, <2>1, <2>2, <2>3, <2>4 DEF ContentAt, HasLoaded
<1>4. CASE j.coord = c /\ j.op = "write"
  <2>1. task[c] \in IOTask /\ taskState[c] = "WriteInProgress"
    BY <1>1, <1>4 DEF LifecycleInv, JobsMatchTasks, IOTypeOK
  <2>2. /\ task' = [task EXCEPT ![c].finished = TRUE]
        /\ db' = [db EXCEPT ![c] = task[c].data]
    BY <1>4 DEF RunJob, NodeWriteIOTask
  <2>3. content[c] # NoData /\ task[c].data = content[c]
    BY <2>1 DEF ContentAt
  <2>4. task'[c].data = task[c].data /\ db'[c] = content[c]
    BY <2>1, <2>2, <2>3 DEF IOTypeOK, IOTask
  <2>5. state[c] = "Unloading"
    BY <2>1 DEF LifecycleInv, TasksMatchState, NodeTypeOK, NodeState
  <2> QED
    BY <1>1, <2>1, <2>3, <2>4, <2>5 DEF ContentAt, HasLoaded
<1> QED
  BY <1>1, <1>2, <1>3, <1>4

(* The visit of a command moves content between the node and its IOTask; it *)
(* never touches the record.                                               *)
LEMMA ContentVisits ==
  ASSUME LifecycleInv, LifecycleInv', NEW e \in Coord,
         VisitUnloadCommand(e) \/ VisitLoadCommand(e),
         NEW c \in Coord \ Failing, ContentAt(c)
  PROVE  ContentAt(c)' /\ db' = db
<1> USE LifecycleTypes
<1>1. db' = db
  BY DEF VisitUnloadCommand, VisitLoadCommand, UnloadNode, WaitForWrite, ProgressNodeWriteTask,
         LoadNode, WaitForRead, ProgressNodeReadTask
<1>2. CASE e # c
  <2>1. /\ state'[c] = state[c] /\ taskState'[c] = taskState[c] /\ task'[c] = task[c]
        /\ content'[c] = content[c]
    BY <1>2 DEF VisitUnloadCommand, VisitLoadCommand, UnloadNode, WaitForWrite,
       ProgressNodeWriteTask, LoadNode, WaitForRead, ProgressNodeReadTask, nodeVars,
       NodeTypeOK, IOTypeOK
  <2> QED
    BY <1>1, <2>1, ContentSame
<1>3. CASE e = c /\ VisitUnloadCommand(c)
  <2>1. state[c] = "Unloading"
    BY <1>3 DEF LifecycleInv, VisitUnloadCommand, CommandsMatchState, FrameTypeOK, NodeTypeOK
  <2>2. CASE UnloadNode(c)
    BY <1>1, <2>2 DEF UnloadNode, ContentAt, HasLoaded, NodeTypeOK, IOTypeOK
  <2>3. CASE WaitForWrite(c) /\ taskState[c] = "Idle" /\ task[c] = Null
    <3>1. content[c] # NoData
      BY <2>1, <2>3 DEF ContentAt, HasLoaded
    <3>2. /\ task'[c].data = content[c] /\ taskState'[c] = "WriteInProgress"
          /\ content' = content /\ state' = state
      BY <2>3, <3>1 DEF WaitForWrite, ProgressNodeWriteTask, NewTask, Serialized, nodeVars, IOTypeOK
    <3> QED
      BY <1>1, <2>1, <3>1, <3>2 DEF ContentAt, HasLoaded
  <2>4. CASE WaitForWrite(c) /\ ~(taskState[c] = "Idle" /\ task[c] = Null)
    <3>1. UNCHANGED <<state, taskState, task, content>>
      BY <2>4 DEF WaitForWrite, ProgressNodeWriteTask, nodeVars
    <3> QED
      BY <1>1, <3>1, ContentSame
  <2> QED
    BY <1>1, <1>3, <2>2, <2>3, <2>4 DEF VisitUnloadCommand
<1>4. CASE e = c /\ VisitLoadCommand(c)
  <2>1. state[c] = "Loading"
    BY <1>4 DEF LifecycleInv, VisitLoadCommand, CommandsMatchState, FrameTypeOK, NodeTypeOK
  <2>2. CASE LoadNode(c)
    <3>1. /\ state'[c] = "Loaded" /\ taskState'[c] = "Idle"
          /\ task' = task /\ content' = content
      BY <2>2 DEF LoadNode, NodeTypeOK, IOTypeOK
    <3>2. task[c] = Null => content[c] # NoData
      BY <2>1, <2>2 DEF LoadNode, ReadReturnsTrue, LifecycleInv, TasksMatchState, ContentAt
    <3> QED
      BY <1>1, <3>1, <3>2 DEF ContentAt, HasLoaded
  <2>3. CASE WaitForRead(c) /\ taskState[c] = "Idle"
    <3>1. task[c] = Null /\ content[c] = NoData
      BY <2>1, <2>3 DEF LifecycleInv, TasksMatchState, ContentAt
    <3>2. /\ taskState'[c] = "ReadInProgress" /\ ~task'[c].finished
          /\ content' = content /\ state' = state
      BY <2>3, <3>1 DEF WaitForRead, ProgressNodeReadTask, NewTask, nodeVars, IOTypeOK
    <3> QED
      BY <1>1, <2>1, <3>1, <3>2 DEF ContentAt, HasLoaded
  <2>4. CASE WaitForRead(c) /\ taskState[c] # "Idle"
    <3>1. /\ taskState[c] = "ReadInProgress" /\ task[c].finished
          /\ taskState'[c] = "ReadDone" /\ state' = state
      BY <2>4 DEF WaitForRead, ProgressNodeReadTask, nodeVars, IOTypeOK
    <3>2. content'[c] # NoData /\ (db[c] # NoData => content'[c] = db[c])
      <4>1. CASE task[c].status = "SUCCESS" /\ task[c].data = db[c] /\ db[c] # NoData
        BY <2>4, <4>1 DEF WaitForRead, ProgressNodeReadTask, IOTypeOK
      <4>2. CASE task[c].status = "NOT_FOUND_ERROR" /\ db[c] = NoData
        BY <2>4, <4>2, WorldAssumption
           DEF WaitForRead, ProgressNodeReadTask, IOTypeOK, WorldAssumption
      <4> QED
        BY <3>1, <4>1, <4>2 DEF ContentAt
    <3> QED
      BY <1>1, <2>1, <3>1, <3>2 DEF ContentAt, HasLoaded
  <2> QED
    BY <1>1, <1>4, <2>2, <2>3, <2>4 DEF VisitLoadCommand
<1> QED
  BY <1>2, <1>3, <1>4

(* Every step keeps the content of a node together with its record, and no  *)
(* step replaces a record that is there.                                   *)
LEMMA ContentNext ==
  ASSUME LifecycleInv, ContentInv, [Next]_vars, NEW c \in Coord \ Failing
  PROVE  ContentAt(c)' /\ (db[c] # NoData => db'[c] = db[c])
<1>1. ContentAt(c) /\ LifecycleInv'
  BY LifecycleNext DEF ContentInv
<1>2. CASE \E e \in Coord : VisitUnloadCommand(e) \/ VisitLoadCommand(e)
  BY <1>1, <1>2, ContentVisits
<1>3. CASE \E s \in ScaleIndex : \E w \in SUBSET ScaleCoords(s) : ScaleUpdate(s, w)
  <2> PICK s \in ScaleIndex : \E w \in SUBSET ScaleCoords(s) : ScaleUpdate(s, w)
    BY <1>3
  <2> PICK w \in SUBSET ScaleCoords(s) : ScaleUpdate(s, w)
    OBVIOUS
  <2>1. UNCHANGED <<taskState, task, content, db>>
    BY DEF ScaleUpdate, ioVars
  <2>2. \/ state'[c] = state[c]
        \/ state[c] = "Loaded" /\ state'[c] = "Unloading"
        \/ state[c] = "Invalid" /\ state'[c] = "Loading"
    BY LifecycleTypes DEF ScaleUpdate, Unutilized, nodes
  <2>3. state[c] = "Invalid" => taskState[c] = "Idle"
    BY DEF LifecycleInv, TasksMatchState
  <2> QED
    BY <1>1, <2>1, <2>2, <2>3 DEF ContentAt, HasLoaded
<1>4. CASE \/ EndUnloadCommands \/ EndLoadCommands \/ EndScales
           \/ \E d \in 0 .. MaxStep : ModulesUpdate(d)
           \/ UNCHANGED vars
  <2>1. UNCHANGED <<state, taskState, task, content, db>>
    BY <1>4 DEF EndUnloadCommands, EndLoadCommands, EndScales, ModulesUpdate,
                nodeVars, ioVars, vars
  <2> QED
    BY <1>1, <2>1, ContentSame
<1>5. CASE \E j \in IOJob : RunJob(j)
  BY <1>1, <1>5, ContentRunJob
<1> QED
  BY <1>2, <1>3, <1>4, <1>5 DEF Next, FrameStep, Destroyed

(* Where the content of a node is: in the node, in its task or in its       *)
(* record, whatever the pool and the frame do to it.                       *)
THEOREM ContentInvariant == Spec => []ContentInv
<1>1. Init => ContentInv
  BY DEF Init, ContentInv, ContentAt, HasLoaded
<1>2. LifecycleInv /\ ContentInv /\ [Next]_vars => ContentInv'
  BY ContentNext DEF ContentInv
<1> QED
  BY <1>1, <1>2, LifecycleInvariant, PTL DEF Spec

(* A node with content holds what the database has for it: a saved node is  *)
(* not generated again, and one that became Loaded before its read finished *)
(* does not get other content.                                             *)
THEOREM SavedContentAlwaysKept == Spec => []SavedContentKept
<1>1. ContentInv => SavedContentKept
  BY DEF ContentInv, ContentAt, SavedContentKept
<1> QED
  BY <1>1, ContentInvariant, PTL

(* NodeWriteIOTask never replaces a record by different content, unless the *)
(* database operations of that node fail.                                  *)
THEOREM SavedContentAlwaysFinal == Spec => SavedContentFinal
<1> DEFINE Keeps == \A c \in Coord \ Failing : db[c] # NoData => db'[c] = db[c]
<1>1. LifecycleInv /\ ContentInv /\ [Next]_vars => [Keeps]_vars
  BY ContentNext
<1>2. SavedContentFinal <=> [][Keeps]_vars
  BY DEF SavedContentFinal
<1> HIDE DEF Keeps
<1> QED
  BY <1>1, <1>2, LifecycleInvariant, ContentInvariant, PTL DEF Spec

-----------------------------------------------------------------------------
(* Geometry.  The two ends of a link are written from different tables; the *)
(* lemmas say that the tables are inverse to each other.                   *)

(* node_neighbour_offsets[5 - i] is the opposite of                         *)
(* node_neighbour_offsets[i].                                              *)
LEMMA NeighbourOpposite ==
  ASSUME NEW c \in Coord, NEW d \in Coord, NEW i \in NeighbourIndex
  PROVE  /\ 5 - i \in NeighbourIndex /\ 5 - (5 - i) = i
         /\ d = NeighbourOf(c, 5 - i) <=> c = NeighbourOf(d, i)
<1>1. i \in {0, 1, 2, 3, 4, 5} /\ 5 - i \in NeighbourIndex /\ 5 - (5 - i) = i
  BY DEF NeighbourIndex
<1>2. /\ OffsetX(i) \in Int /\ OffsetY(i) \in Int /\ OffsetZ(i) \in Int
      /\ OffsetX(5 - i) = -OffsetX(i)
      /\ OffsetY(5 - i) = -OffsetY(i)
      /\ OffsetZ(5 - i) = -OffsetZ(i)
  BY <1>1 DEF OffsetX, OffsetY, OffsetZ
<1>3. ASSUME NEW a \in Int, NEW b \in Int, NEW o \in Int
      PROVE  a = b + (-o) <=> b = a + o
  OBVIOUS
<1>4. d = NeighbourOf(c, 5 - i) <=>
        /\ d.scale = c.scale /\ d.x = c.x + OffsetX(5 - i)
        /\ d.y = c.y + OffsetY(5 - i) /\ d.z = c.z + OffsetZ(5 - i)
  BY CoordTypes DEF NeighbourOf
<1>5. c = NeighbourOf(d, i) <=>
        /\ c.scale = d.scale /\ c.x = d.x + OffsetX(i)
        /\ c.y = d.y + OffsetY(i) /\ c.z = d.z + OffsetZ(i)
  BY CoordTypes DEF NeighbourOf
<1>6. d = NeighbourOf(c, 5 - i) <=> c = NeighbourOf(d, i)
  BY <1>2, <1>3, <1>4, <1>5, CoordTypes
<1> QED
  BY <1>1, <1>6

(* node_child_offsets and GetNodeParentIndex: d is child i of p exactly     *)
(* when p is the parent of d and i the index GetNodeParentIndex computes,   *)
(* for negative positions too.                                             *)
LEMMA ChildOfParent ==
  ASSUME NEW p \in Coord, NEW d \in Coord, NEW i \in ChildIndex
  PROVE  d = ChildOf(p, i) <=> (p = ParentOf(d) /\ i = GetNodeParentIndex(d))
<1>1. ASSUME NEW n \in Int, NEW m \in Int, NEW b \in {0, 1}
      PROVE  n = 2 * m + b <=> (m = n \div 2 /\ b = n % 2)
  OBVIOUS
<1>2. /\ i % 2 \in {0, 1} /\ (i \div 2) % 2 \in {0, 1} /\ i \div 4 \in {0, 1}
      /\ i = (i % 2) + 2 * ((i \div 2) % 2) + 4 * (i \div 4)
  BY DEF ChildIndex
<1>3. d = ChildOf(p, i) <=>
        /\ d.scale = p.scale - 1 /\ d.x = 2 * p.x + (i % 2)
        /\ d.y = 2 * p.y + ((i \div 2) % 2) /\ d.z = 2 * p.z + (i \div 4)
  BY CoordTypes DEF ChildOf
<1>4. p = ParentOf(d) <=>
        /\ p.scale = d.scale + 1 /\ p.x = d.x \div 2
        /\ p.y = d.y \div 2 /\ p.z = d.z \div 2
  BY CoordTypes DEF ParentOf
<1>5. d.scale = p.scale - 1 <=> p.scale = d.scale + 1
  BY CoordTypes
<1>6. i = GetNodeParentIndex(d) <=>
        i % 2 = d.x % 2 /\ (i \div 2) % 2 = d.y % 2 /\ i \div 4 = d.z % 2
  <2>1. ASSUME NEW n \in Int PROVE n % 2 \in {0, 1}
    OBVIOUS
  <2>2. d.x % 2 \in {0, 1} /\ d.y % 2 \in {0, 1} /\ d.z % 2 \in {0, 1}
    BY <2>1, CoordTypes
  <2>3. ASSUME NEW a1 \in {0, 1}, NEW a2 \in {0, 1}, NEW a4 \in {0, 1},
               NEW b1 \in {0, 1}, NEW b2 \in {0, 1}, NEW b4 \in {0, 1},
               a1 + 2 * a2 + 4 * a4 = b1 + 2 * b2 + 4 * b4
        PROVE  a1 = b1 /\ a2 = b2 /\ a4 = b4
    BY <2>3
  <2> QED
    BY <1>2, <2>2, <2>3 DEF GetNodeParentIndex
<1>7. /\ d.x = 2 * p.x + (i % 2) <=> (p.x = d.x \div 2 /\ i % 2 = d.x % 2)
      /\ d.y = 2 * p.y + ((i \div 2) % 2) <=> (p.y = d.y \div 2 /\ (i \div 2) % 2 = d.y % 2)
      /\ d.z = 2 * p.z + (i \div 4) <=> (p.z = d.z \div 2 /\ i \div 4 = d.z % 2)
  <2> DEFINE b1 == i % 2   b2 == (i \div 2) % 2   b4 == i \div 4
  <2>1. /\ b1 \in {0, 1} /\ b2 \in {0, 1} /\ b4 \in {0, 1}
        /\ p.x \in Int /\ p.y \in Int /\ p.z \in Int
        /\ d.x \in Int /\ d.y \in Int /\ d.z \in Int
    BY <1>2, CoordTypes
  <2> HIDE DEF b1, b2, b4
  <2>2. d.x = 2 * p.x + b1 <=> (p.x = d.x \div 2 /\ b1 = d.x % 2)
    BY ZenonT(60), <1>1, <2>1
  <2>3. d.y = 2 * p.y + b2 <=> (p.y = d.y \div 2 /\ b2 = d.y % 2)
    BY <1>1, <2>1
  <2>4. d.z = 2 * p.z + b4 <=> (p.z = d.z \div 2 /\ b4 = d.z % 2)
    BY <1>1, <2>1
  <2> QED
    BY <2>2, <2>3, <2>4 DEF b1, b2, b4
<1> QED
  BY <1>3, <1>4, <1>5, <1>6, <1>7

-----------------------------------------------------------------------------
(* Links.  What LinkNode and UnlinkNode do to every pointer, said in terms  *)
(* of the place the pointer is for.                                        *)

(* ParentsAgree, with the place of the parent named by ParentOf. *)
ParentsExact ==
    \A d \in Coord :
        /\ parent[d] # Null =>
             /\ d \in nodes
             /\ ParentOf(d) \in nodes
             /\ parent[d] = ParentOf(d)
             /\ parentIndex[d] = GetNodeParentIndex(d)
             /\ children[ParentOf(d)][GetNodeParentIndex(d)] = d
        /\ \A i \in ChildIndex : children[d][i] # Null =>
             /\ d \in nodes
             /\ ChildOf(d, i) \in nodes
             /\ children[d][i] = ChildOf(d, i)
             /\ parent[ChildOf(d, i)] = d
             /\ parentIndex[ChildOf(d, i)] = i

(* The two ways to say that a node is the parent of another agree. *)
LEMMA ParentsSameThing ==
  ASSUME LinkTypeOK
  PROVE  ParentsAgree <=> ParentsExact
<1>1. ASSUME ParentsAgree PROVE ParentsExact
  <2> SUFFICES ASSUME NEW d \in Coord, parent[d] # Null
               PROVE  /\ parent[d] = ParentOf(d)
                      /\ parentIndex[d] = GetNodeParentIndex(d)
    BY <1>1 DEF ParentsAgree, ParentsExact
  <2>1. /\ parent[d] \in Coord /\ parentIndex[d] \in ChildIndex
        /\ children[parent[d]][parentIndex[d]] = d
    BY <1>1 DEF ParentsAgree, LinkTypeOK
  <2>2. d = ChildOf(parent[d], parentIndex[d])
    BY <1>1, <2>1, WorldAssumption DEF ParentsAgree, WorldAssumption
  <2> QED
    BY <2>1, <2>2, ChildOfParent
<1>2. ASSUME ParentsExact PROVE ParentsAgree
  BY <1>2, ParentIndexType DEF ParentsAgree, ParentsExact
<1> QED
  BY <1>1, <1>2

(* LinkNode(c) points the two ends of every link that c takes part in at    *)
(* each other when both nodes exist, and writes nothing else.              *)
LEMMA LinkedPointers ==
  ASSUME LinkTypeOK, NEW c \in nodes, LinkNode(c)
  PROVE  /\ \A d \in Coord : \A i \in NeighbourIndex :
              neighbours'[d][i] =
                IF d \in nodes /\ NeighbourOf(d, i) \in nodes /\ (d = c \/ NeighbourOf(d, i) = c)
                  THEN NeighbourOf(d, i) ELSE neighbours[d][i]
         /\ \A d \in Coord :
              IF d \in nodes /\ ParentOf(d) \in nodes /\ (d = c \/ ParentOf(d) = c)
                THEN parent'[d] = ParentOf(d) /\ parentIndex'[d] = GetNodeParentIndex(d)
                ELSE parent'[d] = parent[d] /\ parentIndex'[d] = parentIndex[d]
         /\ \A d \in Coord : \A i \in ChildIndex :
              children'[d][i] =
                IF d \in nodes /\ ChildOf(d, i) \in nodes /\ (d = c \/ ChildOf(d, i) = c)
                  THEN ChildOf(d, i) ELSE children[d][i]
<1>1. c \in Coord /\ nodes \subseteq Coord
  BY DEF nodes
<1>2. ASSUME NEW d \in Coord, NEW i \in NeighbourIndex
      PROVE  neighbours'[d][i] =
                IF d \in nodes /\ NeighbourOf(d, i) \in nodes /\ (d = c \/ NeighbourOf(d, i) = c)
                  THEN NeighbourOf(d, i) ELSE neighbours[d][i]
  <2>1. neighbours'[d][i] =
            IF d = c /\ NeighbourOf(c, i) \in nodes
              THEN NeighbourOf(c, i)
            ELSE IF d \in nodes /\ d = NeighbourOf(c, 5 - i)
              THEN c
            ELSE neighbours[d][i]
    BY DEF LinkNode
  <2>2. d = NeighbourOf(c, 5 - i) <=> c = NeighbourOf(d, i)
    BY <1>1, NeighbourOpposite
  <2> QED
    BY <2>1, <2>2
<1>3. ASSUME NEW d \in Coord
      PROVE  IF d \in nodes /\ ParentOf(d) \in nodes /\ (d = c \/ ParentOf(d) = c)
                THEN parent'[d] = ParentOf(d) /\ parentIndex'[d] = GetNodeParentIndex(d)
                ELSE parent'[d] = parent[d] /\ parentIndex'[d] = parentIndex[d]
  <2>1. (\E i \in ChildIndex : d = ChildOf(c, i)) <=> c = ParentOf(d)
    BY <1>1, ChildOfParent, ParentIndexType
  <2>2. c = ParentOf(d) => (CHOOSE i \in ChildIndex : d = ChildOf(c, i)) = GetNodeParentIndex(d)
    <3> SUFFICES ASSUME c = ParentOf(d)
                 PROVE  (CHOOSE i \in ChildIndex : d = ChildOf(c, i)) = GetNodeParentIndex(d)
      OBVIOUS
    <3> DEFINE k == CHOOSE i \in ChildIndex : d = ChildOf(c, i)
    <3>1. k \in ChildIndex /\ d = ChildOf(c, k)
      BY <2>1
    <3> HIDE DEF k
    <3>2. k = GetNodeParentIndex(d)
      BY <1>1, <3>1, ChildOfParent
    <3> QED
      BY <3>2 DEF k
  <2>3. parent'[d] =
            IF d = c /\ ParentOf(c) \in nodes
              THEN ParentOf(c)
            ELSE IF d \in nodes /\ \E i \in ChildIndex : d = ChildOf(c, i)
              THEN c
            ELSE parent[d]
    BY DEF LinkNode
  <2>4. parentIndex'[d] =
            IF d = c /\ ParentOf(c) \in nodes
              THEN GetNodeParentIndex(c)
            ELSE IF d \in nodes /\ \E i \in ChildIndex : d = ChildOf(c, i)
              THEN CHOOSE i \in ChildIndex : d = ChildOf(c, i)
            ELSE parentIndex[d]
    BY DEF LinkNode
  <2> DEFINE k == CHOOSE i \in ChildIndex : d = ChildOf(c, i)
             isChild == \E i \in ChildIndex : d = ChildOf(c, i)
  <2>5. /\ isChild <=> c = ParentOf(d)
        /\ c = ParentOf(d) => k = GetNodeParentIndex(d)
        /\ parent'[d] = IF d = c /\ ParentOf(c) \in nodes THEN ParentOf(c)
                        ELSE IF d \in nodes /\ isChild THEN c ELSE parent[d]
        /\ parentIndex'[d] = IF d = c /\ ParentOf(c) \in nodes THEN GetNodeParentIndex(c)
                             ELSE IF d \in nodes /\ isChild THEN k ELSE parentIndex[d]
    BY <2>1, <2>2, <2>3, <2>4
  <2> HIDE DEF k, isChild
  <2> QED
    BY <2>5
<1>4. ASSUME NEW d \in Coord, NEW i \in ChildIndex
      PROVE  children'[d][i] =
                IF d \in nodes /\ ChildOf(d, i) \in nodes /\ (d = c \/ ChildOf(d, i) = c)
                  THEN ChildOf(d, i) ELSE children[d][i]
  <2>1. children'[d][i] =
            IF d = c /\ ChildOf(c, i) \in nodes
              THEN ChildOf(c, i)
            ELSE IF d \in nodes /\ d = ParentOf(c) /\ i = GetNodeParentIndex(c)
              THEN c
            ELSE children[d][i]
    BY DEF LinkNode
  <2>2. c = ChildOf(d, i) <=> (d = ParentOf(c) /\ i = GetNodeParentIndex(c))
    BY <1>1, ChildOfParent
  <2> QED
    BY <2>1, <2>2
<1> QED
  BY <1>2, <1>3, <1>4

(* UnlinkNode(c) clears every pointer that c takes part in and nothing      *)
(* else: it finds the other ends through c's own pointers, which is enough  *)
(* because the ends agree.                                                 *)
LEMMA UnlinkedPointers ==
  ASSUME LinkTypeOK, NeighboursAgree, ParentsExact, NEW c \in Coord, UnlinkNode(c)
  PROVE  /\ \A d \in Coord : \A i \in NeighbourIndex :
              neighbours'[d][i] =
                IF d = c \/ NeighbourOf(d, i) = c THEN Null ELSE neighbours[d][i]
         /\ \A d \in Coord :
              IF d = c \/ ParentOf(d) = c
                THEN parent'[d] = Null
                ELSE parent'[d] = parent[d] /\ parentIndex'[d] = parentIndex[d]
         /\ \A d \in Coord : \A i \in ChildIndex :
              children'[d][i] =
                IF d = c \/ ChildOf(d, i) = c THEN Null ELSE children[d][i]
<1>0. nodes \subseteq Coord /\ Null \notin Coord
  BY WorldAssumption DEF nodes, WorldAssumption
<1>1. ASSUME NEW d \in Coord, NEW i \in NeighbourIndex
      PROVE  neighbours'[d][i] =
               IF d = c \/ NeighbourOf(d, i) = c THEN Null ELSE neighbours[d][i]
  <2>1. neighbours'[d][i] =
          IF d = c \/ d = neighbours[c][5 - i] THEN Null ELSE neighbours[d][i]
    BY DEF UnlinkNode
  <2>2. /\ d = NeighbourOf(c, 5 - i) <=> c = NeighbourOf(d, i)
        /\ 5 - i \in NeighbourIndex
    BY NeighbourOpposite
  <2>3. d = neighbours[c][5 - i] => c = NeighbourOf(d, i)
    BY <1>0, <2>2 DEF NeighboursAgree
  <2>4. c = NeighbourOf(d, i) /\ neighbours[d][i] # Null => d = neighbours[c][5 - i]
    BY <1>0, <2>2 DEF NeighboursAgree
  <2> QED
    BY <2>1, <2>3, <2>4
<1>2. ASSUME NEW d \in Coord
      PROVE  IF d = c \/ ParentOf(d) = c
               THEN parent'[d] = Null
               ELSE parent'[d] = parent[d] /\ parentIndex'[d] = parentIndex[d]
  <2> DEFINE isChild == \E i \in ChildIndex : d = children[c][i]
  <2>1. /\ parent'[d] = IF d = c \/ isChild THEN Null ELSE parent[d]
        /\ parentIndex'[d] = IF d = c \/ isChild THEN NoParent ELSE parentIndex[d]
    BY DEF UnlinkNode
  <2>2. isChild => ParentOf(d) = c
    <3> SUFFICES ASSUME NEW i \in ChildIndex, d = children[c][i] PROVE ParentOf(d) = c
      OBVIOUS
    <3>1. d = ChildOf(c, i)
      BY <1>0 DEF ParentsExact
    <3> QED
      BY <3>1, ChildOfParent
  <2>3. ParentOf(d) = c /\ parent[d] # Null => isChild
    BY ParentIndexType DEF ParentsExact
  <2> HIDE DEF isChild
  <2> QED
    BY <2>1, <2>2, <2>3
<1>3. ASSUME NEW d \in Coord, NEW i \in ChildIndex
      PROVE  children'[d][i] =
               IF d = c \/ ChildOf(d, i) = c THEN Null ELSE children[d][i]
  <2>1. children'[d][i] =
          IF d = c \/ (d = parent[c] /\ i = parentIndex[c]) THEN Null ELSE children[d][i]
    BY DEF UnlinkNode
  <2>2. d = parent[c] /\ i = parentIndex[c] => c = ChildOf(d, i)
    BY <1>0, ChildOfParent DEF ParentsExact
  <2>3. c = ChildOf(d, i) /\ children[d][i] # Null => d = parent[c] /\ i = parentIndex[c]
    BY DEF ParentsExact
  <2> QED
    BY <2>1, <2>2, <2>3
<1> QED
  BY <1>1, <1>2, <1>3

(* The last step of a load: the node becomes Loaded and is linked to every  *)
(* node around it, Loading ones included.                                  *)
LEMMA LinksAfterLoad ==
  ASSUME LifecycleInv, LinksExact, NEW c \in nodes, LinkNode(c),
         state' = [state EXCEPT ![c] = "Loaded"]
  PROVE  LinksExact'
<1> USE LifecycleTypes
<1>1. c \in Coord /\ nodes' = nodes
  BY DEF nodes, NodeTypeOK
<1>2. nodes \subseteq Coord /\ Null \notin nodes
  BY WorldAssumption DEF nodes, WorldAssumption
<1>3. NeighboursAgree /\ ParentsExact /\ LoadedNodesLinked
  BY ParentsSameThing DEF LinksExact, LinksAgree
<1>4. \A d \in Coord : HasLoaded(d)' <=> (HasLoaded(d) \/ d = c)
  BY <1>1 DEF HasLoaded, NodeTypeOK
<1>5. NeighboursAgree'
  <2> SUFFICES ASSUME NEW d \in Coord, NEW i \in NeighbourIndex, neighbours'[d][i] # Null
               PROVE  /\ d \in nodes /\ neighbours'[d][i] \in nodes
                      /\ neighbours'[d][i] = NeighbourOf(d, i)
                      /\ neighbours'[NeighbourOf(d, i)][5 - i] = d
    BY <1>1 DEF NeighboursAgree
  <2>1. /\ d \in nodes /\ NeighbourOf(d, i) \in nodes
        /\ neighbours'[d][i] = NeighbourOf(d, i)
        /\ d = c \/ NeighbourOf(d, i) = c \/ neighbours[NeighbourOf(d, i)][5 - i] = d
    BY <1>3, LinkedPointers DEF NeighboursAgree
  <2>2. 5 - i \in NeighbourIndex /\ NeighbourOf(NeighbourOf(d, i), 5 - i) = d
    <3>1. NeighbourOf(d, i) \in Coord /\ 5 - i \in NeighbourIndex /\ 5 - (5 - i) = i
      BY <1>2, <2>1, NeighbourOpposite
    <3> QED
      BY <3>1, NeighbourOpposite
  <2>3. neighbours'[NeighbourOf(d, i)][5 - i] = d
    BY <1>2, <2>1, <2>2, LinkedPointers
  <2> QED
    BY <2>1, <2>3
<1>6. ParentsExact'
  <2>1. ASSUME NEW d \in Coord, parent'[d] # Null
        PROVE  /\ d \in nodes /\ ParentOf(d) \in nodes
               /\ parent'[d] = ParentOf(d)
               /\ parentIndex'[d] = GetNodeParentIndex(d)
               /\ children'[ParentOf(d)][GetNodeParentIndex(d)] = d
    <3>1. /\ d \in nodes /\ ParentOf(d) \in nodes
          /\ parent'[d] = ParentOf(d)
          /\ parentIndex'[d] = GetNodeParentIndex(d)
          /\ d = c \/ ParentOf(d) = c \/ children[ParentOf(d)][GetNodeParentIndex(d)] = d
      BY <1>3, <2>1, LinkedPointers DEF ParentsExact
    <3>2. GetNodeParentIndex(d) \in ChildIndex /\ ParentOf(d) \in Coord
      BY <1>2, <3>1, ParentIndexType
    <3>3. ChildOf(ParentOf(d), GetNodeParentIndex(d)) = d
      BY <3>2, ChildOfParent
    <3> QED
      BY <3>1, <3>2, <3>3, LinkedPointers
  <2>2. ASSUME NEW d \in Coord, NEW i \in ChildIndex, children'[d][i] # Null
        PROVE  /\ d \in nodes /\ ChildOf(d, i) \in nodes
               /\ children'[d][i] = ChildOf(d, i)
               /\ parent'[ChildOf(d, i)] = d
               /\ parentIndex'[ChildOf(d, i)] = i
    <3>1. /\ d \in nodes /\ ChildOf(d, i) \in nodes
          /\ children'[d][i] = ChildOf(d, i)
          /\ \/ d = c
             \/ ChildOf(d, i) = c
             \/ parent[ChildOf(d, i)] = d /\ parentIndex[ChildOf(d, i)] = i
      BY <1>3, <2>2, LinkedPointers DEF ParentsExact
    <3>2. ChildOf(d, i) \in Coord
      BY <1>2, <3>1
    <3>3. ParentOf(ChildOf(d, i)) = d /\ GetNodeParentIndex(ChildOf(d, i)) = i
      BY <3>2, ChildOfParent
    <3> QED
      BY <3>1, <3>2, <3>3, LinkedPointers
  <2> QED
    BY <1>1, <2>1, <2>2 DEF ParentsExact
<1>7. LoadedNodesLinked'
  <2> SUFFICES ASSUME NEW d \in Coord, HasLoaded(d)'
               PROVE  /\ \A i \in NeighbourIndex :
                           NeighbourOf(d, i) \in Coord /\ HasLoaded(NeighbourOf(d, i))'
                              => neighbours'[d][i] = NeighbourOf(d, i)
                      /\ ParentOf(d) \in Coord /\ HasLoaded(ParentOf(d))'
                           => parent'[d] = ParentOf(d)
    BY DEF LoadedNodesLinked, HasLoaded
  <2>1. \A e \in Coord : HasLoaded(e)' => e \in nodes
    BY <1>1, <1>4 DEF HasLoaded, nodes
  <2>2. ASSUME NEW i \in NeighbourIndex, NeighbourOf(d, i) \in Coord, HasLoaded(NeighbourOf(d, i))'
        PROVE  neighbours'[d][i] = NeighbourOf(d, i)
    <3>1. CASE d = c \/ NeighbourOf(d, i) = c
      BY <2>1, <2>2, <3>1, LinkedPointers
    <3>2. CASE d # c /\ NeighbourOf(d, i) # c
      <4>1. HasLoaded(d) /\ HasLoaded(NeighbourOf(d, i))
        BY <1>4, <2>2, <3>2
      <4>2. neighbours[d][i] = NeighbourOf(d, i)
        BY <1>3, <2>2, <4>1 DEF LoadedNodesLinked
      <4> QED
        BY <3>2, <4>2, LinkedPointers
    <3> QED
      BY <3>1, <3>2
  <2>3. ASSUME ParentOf(d) \in Coord, HasLoaded(ParentOf(d))'
        PROVE  parent'[d] = ParentOf(d)
    <3>1. CASE d = c \/ ParentOf(d) = c
      BY <2>1, <2>3, <3>1, LinkedPointers
    <3>2. CASE d # c /\ ParentOf(d) # c
      <4>1. HasLoaded(d) /\ HasLoaded(ParentOf(d))
        BY <1>4, <2>3, <3>2
      <4>2. parent[d] = ParentOf(d)
        BY <1>3, <2>3, <4>1 DEF LoadedNodesLinked
      <4> QED
        BY <3>2, <4>2, LinkedPointers
    <3> QED
      BY <3>1, <3>2
  <2> QED
    BY <2>2, <2>3
<1>8. LinkTypeOK'
  BY <1>1, LinkTypes
<1>9. ParentsAgree'
  <2>1. ParentsExact' => ParentsAgree'
    BY <1>8, ParentIndexType DEF ParentsAgree, ParentsExact
  <2> QED
    BY <1>6, <2>1
<1> QED
  BY <1>5, <1>7, <1>9 DEF LinksExact, LinksAgree

(* The last step of an unload: no pointer to the node is left. *)
LEMMA LinksAfterUnload ==
  ASSUME LifecycleInv, LinksExact, NEW c \in Coord, UnlinkNode(c),
         state' = [state EXCEPT ![c] = "Invalid"]
  PROVE  LinksExact'
<1> USE LifecycleTypes
<1>1. nodes' = nodes \ {c}
  BY DEF nodes, NodeTypeOK
<1>2. nodes \subseteq Coord /\ Null \notin nodes
  BY WorldAssumption DEF nodes, WorldAssumption
<1>3. NeighboursAgree /\ ParentsExact /\ LoadedNodesLinked
  BY ParentsSameThing DEF LinksExact, LinksAgree
<1>4. \A d \in Coord : HasLoaded(d)' <=> (HasLoaded(d) /\ d # c)
  BY DEF HasLoaded, NodeTypeOK
<1>5. NeighboursAgree'
  <2> SUFFICES ASSUME NEW d \in Coord, NEW i \in NeighbourIndex, neighbours'[d][i] # Null
               PROVE  /\ d \in nodes \ {c} /\ neighbours'[d][i] \in nodes \ {c}
                      /\ neighbours'[d][i] = NeighbourOf(d, i)
                      /\ neighbours'[NeighbourOf(d, i)][5 - i] = d
    BY <1>1 DEF NeighboursAgree
  <2>1. /\ d # c /\ NeighbourOf(d, i) # c
        /\ d \in nodes /\ NeighbourOf(d, i) \in nodes
        /\ neighbours'[d][i] = NeighbourOf(d, i)
        /\ neighbours[NeighbourOf(d, i)][5 - i] = d
    BY <1>3, UnlinkedPointers DEF NeighboursAgree
  <2>2. 5 - i \in NeighbourIndex /\ NeighbourOf(NeighbourOf(d, i), 5 - i) = d
    <3>1. NeighbourOf(d, i) \in Coord /\ 5 - i \in NeighbourIndex /\ 5 - (5 - i) = i
      BY <1>2, <2>1, NeighbourOpposite
    <3> QED
      BY <3>1, NeighbourOpposite
  <2>3. neighbours'[NeighbourOf(d, i)][5 - i] = d
    BY <1>2, <1>3, <2>1, <2>2, UnlinkedPointers
  <2> QED
    BY <2>1, <2>3
<1>6. ParentsAgree'
  <2>1. ASSUME NEW d \in Coord, parent'[d] # Null
        PROVE  /\ d \in nodes \ {c} /\ parent'[d] \in nodes \ {c}
               /\ parentIndex'[d] \in ChildIndex
               /\ children'[parent'[d]][parentIndex'[d]] = d
    <3>1. /\ d # c /\ ParentOf(d) # c
          /\ d \in nodes /\ ParentOf(d) \in nodes
          /\ parent'[d] = ParentOf(d)
          /\ parentIndex'[d] = GetNodeParentIndex(d)
          /\ children[ParentOf(d)][GetNodeParentIndex(d)] = d
      BY <1>3, <2>1, UnlinkedPointers DEF ParentsExact
    <3>2. GetNodeParentIndex(d) \in ChildIndex /\ ParentOf(d) \in Coord
      BY <1>2, <3>1, ParentIndexType
    <3>3. ChildOf(ParentOf(d), GetNodeParentIndex(d)) = d
      BY <3>2, ChildOfParent
    <3> QED
      BY <1>3, <3>1, <3>2, <3>3, UnlinkedPointers
  <2>2. ASSUME NEW d \in Coord, NEW i \in ChildIndex, children'[d][i] # Null
        PROVE  /\ d \in nodes \ {c} /\ children'[d][i] \in nodes \ {c}
               /\ children'[d][i] = ChildOf(d, i)
               /\ parent'[children'[d][i]] = d
               /\ parentIndex'[children'[d][i]] = i
    <3>1. /\ d # c /\ ChildOf(d, i) # c
          /\ d \in nodes /\ ChildOf(d, i) \in nodes
          /\ children'[d][i] = ChildOf(d, i)
          /\ parent[ChildOf(d, i)] = d /\ parentIndex[ChildOf(d, i)] = i
      BY <1>3, <2>2, UnlinkedPointers DEF ParentsExact
    <3>2. ChildOf(d, i) \in Coord
      BY <1>2, <3>1
    <3>3. ParentOf(ChildOf(d, i)) = d
      BY <3>2, ChildOfParent
    <3> QED
      BY <1>3, <3>1, <3>2, <3>3, UnlinkedPointers
  <2> QED
    BY <1>1, <2>1, <2>2 DEF ParentsAgree
<1>7. LoadedNodesLinked'
  <2> SUFFICES ASSUME NEW d \in Coord, HasLoaded(d)'
               PROVE  /\ \A i \in NeighbourIndex :
                           NeighbourOf(d, i) \in Coord /\ HasLoaded(NeighbourOf(d, i))'
                              => neighbours'[d][i] = NeighbourOf(d, i)
                      /\ ParentOf(d) \in Coord /\ HasLoaded(ParentOf(d))'
                           => parent'[d] = ParentOf(d)
    BY DEF LoadedNodesLinked, HasLoaded
  <2>1. d # c /\ HasLoaded(d)
    BY <1>4
  <2>2. ASSUME NEW i \in NeighbourIndex, NeighbourOf(d, i) \in Coord, HasLoaded(NeighbourOf(d, i))'
        PROVE  neighbours'[d][i] = NeighbourOf(d, i)
    <3>1. NeighbourOf(d, i) # c /\ HasLoaded(NeighbourOf(d, i))
      BY <1>4, <2>2
    <3>2. neighbours[d][i] = NeighbourOf(d, i)
      BY <1>3, <2>1, <2>2, <3>1 DEF LoadedNodesLinked
    <3> QED
      BY <1>3, <2>1, <3>1, <3>2, UnlinkedPointers
  <2>3. ASSUME ParentOf(d) \in Coord, HasLoaded(ParentOf(d))'
        PROVE  parent'[d] = ParentOf(d)
    <3>1. ParentOf(d) # c /\ HasLoaded(ParentOf(d))
      BY <1>4, <2>3
    <3>2. parent[d] = ParentOf(d)
      BY <1>3, <2>1, <2>3, <3>1 DEF LoadedNodesLinked
    <3> QED
      BY <1>3, <2>1, <3>1, <3>2, UnlinkedPointers
  <2> QED
    BY <2>2, <2>3
<1> QED
  BY <1>5, <1>6, <1>7 DEF LinksExact, LinksAgree

(* A step that writes no pointer, removes no node and finishes no load      *)
(* keeps the links exact.                                                  *)
LEMMA LinksSame ==
  ASSUME LinksExact, UNCHANGED linkVars, nodes \subseteq nodes',
         \A d \in Coord : HasLoaded(d)' => HasLoaded(d)
  PROVE  LinksExact'
<1>1. UNCHANGED <<neighbours, parent, parentIndex, children>>
  BY DEF linkVars
<1>2. NeighboursAgree'
  BY <1>1 DEF LinksExact, LinksAgree, NeighboursAgree
<1>3. ParentsAgree'
  BY <1>1 DEF LinksExact, LinksAgree, ParentsAgree
<1>4. LoadedNodesLinked'
  <2> SUFFICES ASSUME NEW d \in Coord, HasLoaded(d)'
               PROVE  /\ \A i \in NeighbourIndex :
                           NeighbourOf(d, i) \in Coord /\ HasLoaded(NeighbourOf(d, i))'
                              => neighbours[d][i] = NeighbourOf(d, i)
                      /\ ParentOf(d) \in Coord /\ HasLoaded(ParentOf(d))'
                           => parent[d] = ParentOf(d)
    BY <1>1 DEF LoadedNodesLinked, HasLoaded
  <2> QED
    BY DEF LinksExact, LoadedNodesLinked
<1> QED
  BY <1>2, <1>3, <1>4 DEF LinksExact, LinksAgree

(* Every step keeps the links exact. *)
LEMMA LinksNext == LifecycleInv /\ LinksExact /\ [Next]_vars => LinksExact'
<1> SUFFICES ASSUME LifecycleInv, LinksExact, [Next]_vars PROVE LinksExact'
  OBVIOUS
<1> USE LifecycleTypes
<1>1. CASE \E c \in Coord : VisitUnloadCommand(c)
  <2> PICK c \in Coord : VisitUnloadCommand(c)
    BY <1>1
  <2>1. CASE UnloadNode(c)
    BY <2>1, LinksAfterUnload DEF UnloadNode
  <2>2. CASE WaitForWrite(c)
    BY <2>2, LinksSame DEF WaitForWrite, nodeVars, nodes, HasLoaded
  <2> QED
    BY <2>1, <2>2 DEF VisitUnloadCommand
<1>2. CASE \E c \in Coord : VisitLoadCommand(c)
  <2> PICK c \in Coord : VisitLoadCommand(c)
    BY <1>2
  <2>1. c \in nodes
    BY DEF LifecycleInv, VisitLoadCommand, CommandsMatchState, FrameTypeOK, NodeTypeOK, nodes
  <2>2. CASE LoadNode(c)
    BY <2>1, <2>2, LinksAfterLoad DEF LoadNode
  <2>3. CASE WaitForRead(c)
    BY <2>3, LinksSame DEF WaitForRead, nodeVars, nodes, HasLoaded
  <2> QED
    BY <2>2, <2>3 DEF VisitLoadCommand
<1>3. CASE \E s \in ScaleIndex : \E w \in SUBSET ScaleCoords(s) : ScaleUpdate(s, w)
  <2> PICK s \in ScaleIndex : \E w \in SUBSET ScaleCoords(s) : ScaleUpdate(s, w)
    BY <1>3
  <2> PICK w \in SUBSET ScaleCoords(s) : ScaleUpdate(s, w)
    OBVIOUS
  <2>1. UNCHANGED linkVars
    BY DEF ScaleUpdate
  <2>2. \A c \in Coord : \/ state'[c] = state[c]
                         \/ state[c] = "Loaded" /\ state'[c] = "Unloading"
                         \/ state[c] = "Invalid" /\ state'[c] = "Loading"
    BY DEF ScaleUpdate, Unutilized, nodes
  <2>3. nodes \subseteq nodes' /\ \A d \in Coord : HasLoaded(d)' => HasLoaded(d)
    BY <2>2 DEF nodes, HasLoaded
  <2> QED
    BY <2>1, <2>3, LinksSame
<1>4. CASE \/ EndUnloadCommands \/ EndLoadCommands \/ EndScales
           \/ \E d \in 0 .. MaxStep : ModulesUpdate(d)
           \/ \E j \in IOJob : RunJob(j)
           \/ UNCHANGED vars
  <2>1. UNCHANGED linkVars /\ state' = state
    BY <1>4 DEF EndUnloadCommands, EndLoadCommands, EndScales, ModulesUpdate, RunJob,
                nodeVars, vars
  <2>2. nodes \subseteq nodes' /\ \A d \in Coord : HasLoaded(d)' => HasLoaded(d)
    BY <2>1 DEF nodes, HasLoaded
  <2> QED
    BY <2>1, <2>2, LinksSame
<1> QED
  BY <1>1, <1>2, <1>3, <1>4 DEF Next, FrameStep, Destroyed

(* The octree's pointers are exact in every world: whichever of two nodes   *)
(* loads last writes both ends of their link, whichever unloads first       *)
(* clears both, and no link between loaded nodes is missing.               *)
THEOREM LinksAlwaysExact == Spec => []LinksExact
<1>1. Init => LinksExact
  BY DEF Init, LinksExact, LinksAgree, NeighboursAgree, ParentsAgree, LoadedNodesLinked,
         HasLoaded
<1> QED
  BY <1>1, LinksNext, LifecycleInvariant, PTL DEF Spec

=============================================================================
