----------------------------- MODULE Simulation -----------------------------
(***************************************************************************)
(* The life of entities in a simulation (UniverseSimulation.cpp,           *)
(* Simulation/SimulationModule.cpp and the entity callbacks of the spatial *)
(* module).  The simulation thread repeats a frame: tasks on the pool, the *)
(* update of the modules, the load and unload commands of each thread      *)
(* context, the clean-up of the factory.  Between frames it runs the       *)
(* commands of scripts.  The tasks are the load and unload of nodes, which *)
(* hold Refs to their entities.                                            *)
(*                                                                         *)
(* unordered_erase compares two references by their conversion to bool,    *)
(* WeakRef has no other comparison: it erases the first element.           *)
(*                                                                         *)
(* Abstractions.  What a world does between its creation and the end of    *)
(* its unloading is in SpatialWorld.  Loader entities are left out.  Pool  *)
(* threads use any context, a push to it is one step.                      *)
(***************************************************************************)
EXTENDS PolyFactory

CONSTANTS
    UUID,           \* ids of entities
    Universe,       \* the id of the universe, UUID{0, 0}
    TypesOf,        \* the components each entity is created with
    Context,        \* thread_contexts
    MainContext,    \* the context of the simulation thread
    Task,           \* threads of the pool
    Null,           \* a null reference
    MaxCreated,     \* bound on the calls of SimulationCreateEntity
    MaxUnloads      \* bound on the calls of DisconnectFromUniverse

ASSUME SimulationAssumption ==
    /\ Universe \in UUID /\ MainContext \in Context /\ Null \notin UUID
    /\ TypesOf \in [UUID -> TypeID]
    /\ Component = {"CName", "CRelationship", "CUniverse", "CWorld"}
    /\ Listener = {"OnLoadEntity", "OnUnloadEntity", "OnLoadSpatialEntity", "OnUnloadSpatialEntity",
                   "OnLoadUniverseEntity", "OnUnloadUniverseEntity"}
    /\ ListensTo["OnLoadEntity"] = {} /\ ListensTo["OnUnloadEntity"] = {}
    /\ ListensTo["OnLoadSpatialEntity"] = {"CWorld"} /\ ListensTo["OnUnloadSpatialEntity"] = {"CWorld"}
    /\ ListensTo["OnLoadUniverseEntity"] = {"CUniverse"} /\ ListensTo["OnUnloadUniverseEntity"] = {"CUniverse"}
    /\ \A id \in UUID : "CUniverse" \in TypesOf[id] <=> id = Universe
    /\ IsFiniteSet(Context) /\ IsFiniteSet(Task)
    /\ MaxCreated \in Nat /\ MaxUnloads \in Nat

VARIABLES
    phase,              \* where the simulation thread is
    factory,            \* entity_factory
    load_commands,      \* of each context
    unload_commands,
    updating_entities,
    universes,          \* WeakRefs to the loaded universes
    entity,             \* m_universe_entity of the server
    debug,              \* debug_world->entity
    nodes,              \* number of Refs that nodes hold to each entity
    task,               \* what each task is doing
    worlds,             \* the worlds there are, by address
    unloading,          \* Simulation::unloading
    created, unloads    \* calls so far

lists == <<load_commands, unload_commands, updating_entities, universes>>
refs == <<entity, debug>>
calls == <<created, unloads>>
vars == <<phase, factory, lists, refs, nodes, task, worlds, unloading, calls>>

IdleTask == [at |-> "idle", id |-> Null]

-----------------------------------------------------------------------------
(* The simulation thread between frames *)

(* The Initialize of a module adds its callbacks to the factory. *)
Initialize(l) ==
    /\ phase = "initialize" /\ l \notin factory.m_callbacks
    /\ factory' = AddCallback(factory, l)
    /\ phase' = IF factory'.m_callbacks = Listener THEN "commands" ELSE phase
    /\ UNCHANGED <<lists, refs, nodes, task, worlds, unloading, calls>>

(* StartLocalUniverse: SimulationCreateEntity, and m_universe_entity takes   *)
(* the Ref, which ends the one it had.                                       *)
StartLocalUniverse ==
    /\ phase = "commands" /\ created < MaxCreated
    /\ LET f == Count(GetPoly(factory, Universe, TypesOf[Universe]), Universe, 1)
       IN  factory' = IF entity = Null THEN f ELSE Count(f, entity, -1)
    /\ load_commands' = [load_commands EXCEPT ![MainContext] = Append(@, Universe)]
    /\ entity' = Universe
    /\ created' = created + 1
    /\ UNCHANGED <<phase, unload_commands, updating_entities, universes, debug, nodes, task, worlds, unloading, unloads>>

(* SimulationUnloadEntity with a Ref made from a WRef that may be null. *)
DisconnectFromUniverse ==
    /\ phase = "commands" /\ unloads < MaxUnloads
    /\ factory' = IF entity = Null THEN factory ELSE Count(factory, entity, 1)
    /\ unload_commands' = [unload_commands EXCEPT ![MainContext] = Append(@, entity)]
    /\ unloads' = unloads + 1
    /\ UNCHANGED <<phase, load_commands, updating_entities, universes, refs, nodes, task, worlds, unloading, created>>

(* entity::SetDebugName *)
SetDebugName ==
    /\ phase = "commands" /\ entity # Null
    /\ "CName" \notin Entry(factory, entity).type_id
    /\ factory' = SetComponent(AddTypes(factory, entity, {"CName"}), entity, "CName", 1)
    /\ UNCHANGED <<phase, lists, refs, nodes, task, worlds, unloading, calls>>

BeginFrame ==
    /\ phase = "commands"
    /\ phase' = "tasks"
    /\ UNCHANGED <<factory, lists, refs, nodes, task, worlds, unloading, calls>>

(* SimulationUnload: the entities are moved out of updating_entities, every  *)
(* one is given an unload command, and then their Refs end.                  *)
SimulationUnload ==
    /\ phase = "commands" /\ ~unloading
    /\ unloading' = TRUE
    /\ unload_commands' = [unload_commands EXCEPT ![MainContext] = @ \o updating_entities]
    /\ updating_entities' = <<>>
    /\ phase' = "check"
    /\ UNCHANGED <<factory, load_commands, universes, refs, nodes, task, worlds, calls>>

(* IsSimulationUnloadDone, before every frame of the unload. *)
IsSimulationUnloadDone == updating_entities = <<>> /\ worlds = <<>>

CheckUnload ==
    /\ phase = "check"
    /\ phase' = IF IsSimulationUnloadDone THEN "uninitialize" ELSE "tasks"
    /\ unloading' = ~IsSimulationUnloadDone
    /\ UNCHANGED <<factory, lists, refs, nodes, task, worlds, calls>>

(* DoSimulationUnload after SimulationUnload: the server's Ref ends, then    *)
(* that of the debug renderer, and the factory is cleaned up a last time.    *)
SimulationUninitialize ==
    /\ phase = "uninitialize"
    /\ LET f == IF entity = Null THEN factory ELSE Count(factory, entity, -1)
       IN  factory' = Cleanup(IF debug = Null THEN f ELSE Count(f, debug, -1))
    /\ entity' = Null /\ debug' = Null
    /\ universes' = <<>>
    /\ phase' = "done"
    /\ UNCHANGED <<load_commands, unload_commands, updating_entities, nodes, task, worlds, unloading, calls>>

-----------------------------------------------------------------------------
(* The tasks of a frame *)

(* DeserializeUniverseNode, GenerateUniverseNode: SimulationCreateEntity in  *)
(* a task, step by step; only a world has nodes, and it loads none while the *)
(* simulation unloads.                                                       *)
TaskGetPoly(t, id) ==
    /\ phase = "tasks" /\ task[t].at = "idle" /\ created < MaxCreated
    /\ worlds # <<>> /\ ~unloading
    /\ factory' = GetPoly(factory, id, TypesOf[id])
    /\ task' = [task EXCEPT ![t] = [at |-> "load", id |-> id]]
    /\ created' = created + 1
    /\ UNCHANGED <<phase, lists, refs, nodes, worlds, unloading, unloads>>

TaskPushLoad(t, c) ==
    /\ task[t].at = "load"
    /\ factory' = Count(factory, task[t].id, 1)
    /\ load_commands' = [load_commands EXCEPT ![c] = Append(@, task[t].id)]
    /\ task' = [task EXCEPT ![t].at = "node"]
    /\ UNCHANGED <<phase, unload_commands, updating_entities, universes, refs, nodes, worlds, unloading, calls>>

(* node.entities.push_back(entity.Reference()), then the end of the task's   *)
(* own Ref.                                                                  *)
TaskPushNode(t) ==
    /\ task[t].at = "node"
    /\ factory' = Count(factory, task[t].id, 1)
    /\ nodes' = [nodes EXCEPT ![task[t].id] = @ + 1]
    /\ task' = [task EXCEPT ![t].at = "end"]
    /\ UNCHANGED <<phase, lists, refs, worlds, unloading, calls>>

TaskEnd(t) ==
    /\ task[t].at = "end"
    /\ factory' = Count(factory, task[t].id, -1)
    /\ task' = [task EXCEPT ![t] = IdleTask]
    /\ UNCHANGED <<phase, lists, refs, nodes, worlds, unloading, calls>>

(* The node that holds a Ref is unloaded. *)
TaskUnloadNode(id) ==
    /\ phase = "tasks" /\ nodes[id] > 0
    /\ factory' = Count(factory, id, -1)
    /\ nodes' = [nodes EXCEPT ![id] = @ - 1]
    /\ UNCHANGED <<phase, lists, refs, task, worlds, unloading, calls>>

(* wait_for_group_task_completion *)
EndTasks ==
    /\ phase = "tasks" /\ \A t \in Task : task[t] = IdleTask
    /\ phase' = "modules"
    /\ UNCHANGED <<factory, lists, refs, nodes, task, worlds, unloading, calls>>

-----------------------------------------------------------------------------
(* The single-threaded part of a frame *)

WorldOf(id) == PolyOf(factory, id).components["CWorld"]

(* debugrender::Update in every 100th frame: it takes a Ref to the first     *)
(* universe, and from then on draws the nodes of its world.  The list of     *)
(* universes and the pointer to the world are not tested.                    *)
Draw ==
    LET shown == IF debug = Null /\ universes # <<>> THEN Head(universes) ELSE debug
    IN  /\ factory' = IF shown # debug THEN Count(factory, shown, 1) ELSE factory
        /\ debug' = shown
        /\ phase' = IF shown # Null /\ (universes = <<>> \/ WorldOf(shown) = Default)
                      THEN "crashed" ELSE "spatial"

DebugRenderUpdate ==
    /\ phase = "modules"
    /\ \/ Draw
       \/ phase' = "spatial" /\ UNCHANGED <<factory, debug>>
    /\ UNCHANGED <<lists, entity, nodes, task, worlds, unloading, calls>>

(* spatial3d::Update destroys worlds that have unloaded all their nodes;     *)
(* the nodes of the last world are gone with it.                             *)
SpatialUpdate(gone) ==
    /\ phase = "spatial"
    /\ gone \subseteq {w \in DOMAIN worlds : worlds[w].unloading}
    /\ DOMAIN worlds = gone => \A id \in UUID : nodes[id] = 0
    /\ worlds' = Without(worlds, gone)
    /\ phase' = "load"
    /\ UNCHANGED <<factory, lists, refs, nodes, task, unloading, calls>>

(* The contexts are visited in order, the simulation thread's first. *)
Busy(c) == load_commands[c] # <<>> \/ unload_commands[c] # <<>>
Current == CHOOSE c \in Context : Busy(c) /\ (Busy(MainContext) => c = MainContext)

NewWorld == CHOOSE w \in 1 .. Cardinality(DOMAIN worlds) + 1 : w \notin DOMAIN worlds

(* OnLoadEntity and OnLoadSpatialEntity. *)
OnLoad(f, id) ==
    LET g == IF "OnLoadEntity" \in Called(f, id) THEN Count(f, id, 1) ELSE f
    IN  IF "OnLoadSpatialEntity" \in Called(f, id) THEN SetComponent(g, id, "CWorld", NewWorld) ELSE g

(* BeginLoad of the next entity, whose command is then cleared. *)
BeginLoad ==
    /\ phase = "load" /\ \E c \in Context : Busy(c)
    /\ load_commands[Current] # <<>>
    /\ LET id == Head(load_commands[Current])
       IN  /\ factory' = Count(OnLoad(factory, id), id, -1)
           /\ updating_entities' = IF "OnLoadEntity" \in Called(factory, id)
                                     THEN Append(updating_entities, id) ELSE updating_entities
           /\ worlds' = IF "OnLoadSpatialEntity" \in Called(factory, id)
                          THEN Put(worlds, NewWorld, [unloading |-> FALSE]) ELSE worlds
           /\ universes' = IF "OnLoadUniverseEntity" \in Called(factory, id)
                             THEN Append(universes, id) ELSE universes
    /\ load_commands' = [load_commands EXCEPT ![Current] = Tail(@)]
    /\ UNCHANGED <<phase, unload_commands, refs, nodes, task, unloading, calls>>

(* unordered_erase_it on the first element. *)
EraseFirst(s) == IF Len(s) <= 1 THEN <<>> ELSE <<Last(s)>> \o SubSeq(s, 2, Len(s) - 1)

OnUnloadUniverseEntity(id) ==
    IF "OnUnloadUniverseEntity" \in Called(factory, id) THEN EraseFirst(universes) ELSE universes

(* Mutant: OnUnloadSpatialEntity keeps the pointer to the world. *)
OnUnloadKeepsWorld(f, id) ==
    IF updating_entities = <<>> THEN f ELSE Count(f, Head(updating_entities), -1)

(* OnUnloadEntity ends the Ref it erases; OnUnloadSpatialEntity forgets the  *)
(* world.                                                                    *)
OnUnload(f, id) ==
    LET g == IF updating_entities = <<>> THEN f ELSE Count(f, Head(updating_entities), -1)
    IN  IF "OnUnloadSpatialEntity" \in Called(f, id)
          THEN SetComponent(g, id, "CWorld", Default) ELSE g

(* A null entity, or an entity whose world is null, ends the program. *)
UnloadCrashes(id) ==
    id # Null => "OnUnloadSpatialEntity" \in Called(factory, id) /\ WorldOf(id) = Default

BeginUnload ==
    /\ phase = "load" /\ \E c \in Context : Busy(c)
    /\ load_commands[Current] = <<>>
    /\ LET id == Head(unload_commands[Current])
       IN  /\ ~UnloadCrashes(id)
           /\ factory' = Count(OnUnload(factory, id), id, -1)
           /\ updating_entities' = EraseFirst(updating_entities)
           /\ universes' = OnUnloadUniverseEntity(id)
           /\ worlds' = IF "OnUnloadSpatialEntity" \in Called(factory, id)
                          THEN [worlds EXCEPT ![WorldOf(id)].unloading = TRUE] ELSE worlds
    /\ unload_commands' = [unload_commands EXCEPT ![Current] = Tail(@)]
    /\ UNCHANGED <<phase, load_commands, refs, nodes, task, unloading, calls>>

Crash ==
    /\ phase = "load" /\ \E c \in Context : Busy(c)
    /\ load_commands[Current] = <<>> /\ UnloadCrashes(Head(unload_commands[Current]))
    /\ phase' = "crashed"
    /\ UNCHANGED <<factory, lists, refs, nodes, task, worlds, unloading, calls>>

(* The clean-up at the end of a frame. *)
EndFrame ==
    /\ phase = "load" /\ \A c \in Context : ~Busy(c)
    /\ factory' = Cleanup(factory)
    /\ phase' = IF unloading THEN "check" ELSE "commands"
    /\ UNCHANGED <<lists, refs, nodes, task, worlds, unloading, calls>>

-----------------------------------------------------------------------------

Init ==
    /\ phase = "initialize"
    /\ factory = NewFactory
    /\ load_commands = [c \in Context |-> <<>>] /\ unload_commands = [c \in Context |-> <<>>]
    /\ updating_entities = <<>> /\ universes = <<>>
    /\ entity = Null /\ debug = Null
    /\ nodes = [id \in UUID |-> 0]
    /\ task = [t \in Task |-> IdleTask]
    /\ worlds = <<>>
    /\ unloading = FALSE
    /\ created = 0 /\ unloads = 0

(* The simulation was deleted, or the program has ended. *)
Ended == phase \in {"done", "crashed"} /\ UNCHANGED vars

TaskStep ==
    \/ \E t \in Task, id \in UUID \ {Universe} : TaskGetPoly(t, id)
    \/ \E t \in Task, c \in Context : TaskPushLoad(t, c)
    \/ \E t \in Task : TaskPushNode(t)
    \/ \E t \in Task : TaskEnd(t)

FrameStep ==
    \/ EndTasks
    \/ DebugRenderUpdate
    \/ \E gone \in SUBSET DOMAIN worlds : SpatialUpdate(gone)
    \/ BeginLoad
    \/ BeginUnload
    \/ Crash
    \/ EndFrame
    \/ CheckUnload
    \/ SimulationUninitialize

CommandStep ==
    \/ \E l \in Listener : Initialize(l)
    \/ StartLocalUniverse
    \/ DisconnectFromUniverse
    \/ SetDebugName
    \/ SimulationUnload
    \/ BeginFrame

Next == CommandStep \/ TaskStep \/ (\E id \in UUID : TaskUnloadNode(id)) \/ FrameStep \/ Ended

Spec == Init /\ [][Next]_vars

(* The simulation thread goes on with a frame and begins another one, and    *)
(* tasks end.                                                                *)
FairSpec ==
    /\ Spec
    /\ WF_vars(FrameStep)
    /\ WF_vars(BeginFrame)
    /\ WF_vars(\E t \in Task, c \in Context : TaskPushLoad(t, c))
    /\ WF_vars(\E t \in Task : TaskPushNode(t))
    /\ WF_vars(\E t \in Task : TaskEnd(t))

-----------------------------------------------------------------------------
(* Properties *)

Phase == {"initialize", "commands", "tasks", "modules", "spatial", "load", "check", "uninitialize", "done", "crashed"}

(* Types; the count of an entry is unsigned. *)
TypeOK ==
    /\ phase \in Phase
    /\ FactoryType(factory) /\ DOMAIN factory.m_entries \subseteq UUID
    /\ load_commands \in [Context -> Seq(UUID)]
    /\ unload_commands \in [Context -> Seq(UUID \union {Null})]
    /\ updating_entities \in Seq(UUID)
    /\ universes \in Seq(UUID)
    /\ entity \in {Null, Universe} /\ debug \in {Null, Universe}
    /\ nodes \in [UUID -> Nat]
    /\ task \in [Task -> {IdleTask} \union [at : {"load", "node", "end"}, id : UUID \ {Universe}]]
    /\ worlds \in [DOMAIN worlds -> [unloading : BOOLEAN]]
    /\ DOMAIN worlds \subseteq Nat \ {Default} /\ IsFiniteSet(DOMAIN worlds)
    /\ unloading \in BOOLEAN

(* Polys, archetypes and entries agree after every operation on them, and no *)
(* event is missed by a callback that registered for it.                     *)
FactoryConsistent == TypeOK /\ Consistent(factory) /\ CallsAll(factory)

Places(s, id) == {i \in DOMAIN s : s[i] = id}
Listed(lists_of, id) == UNION {{c} \X Places(lists_of[c], id) : c \in Context}
One(b) == IF b THEN 1 ELSE 0

(* The Refs to an entity in lists, nodes, tasks, the server and the renderer. *)
RefsTo(id) ==
    Cardinality(Listed(load_commands, id)) + Cardinality(Listed(unload_commands, id))
    + Cardinality(Places(updating_entities, id)) + One(entity = id) + One(debug = id) + nodes[id]
    + Cardinality({t \in Task : task[t].id = id})

(* The count of every entity is the number of Refs there are to it: Cleanup  *)
(* removes no entity that a list, a node, a task or the server still uses,   *)
(* and keeps none that nobody uses.                                          *)
RefsCounted ==
    \A id \in UUID :
        IF Exists(factory, id) THEN Entry(factory, id).refcount = RefsTo(id) ELSE RefsTo(id) = 0

HasWorld(id) == "CWorld" \in Entry(factory, id).type_id /\ WorldOf(id) # Default

(* The world of an entity exists and is not unloading: the pointer is set    *)
(* to null before spatial3d::Update can destroy the world.                   *)
WorldsLive ==
    \A id \in DOMAIN factory.m_entries :
        HasWorld(id) => WorldOf(id) \in DOMAIN worlds /\ ~worlds[WorldOf(id)].unloading

(* A change of type keeps the components that are in both types.             *)
KeepsComponents ==
    \A id \in DOMAIN factory.m_entries :
        Exists(factory', id) /\ Entry(factory', id).type_id # Entry(factory, id).type_id =>
            \A c \in Entry(factory, id).type_id \intersect Entry(factory', id).type_id :
                PolyOf(factory', id).components[c] = PolyOf(factory, id).components[c]

ComponentsKept == [][KeepsComponents]_vars

(* What is left when the simulation is deleted has a load or unload command  *)
(* that was never run, and nothing else refers to it: every other Ref was    *)
(* given back and every count followed.  EntitiesDestroyed says that the     *)
(* code does leave such entities.                                            *)
LeftOnlyQueued ==
    phase = "done" =>
        \A id \in DOMAIN factory.m_entries : \E c \in Context :
            id \in Range(load_commands[c]) \union Range(unload_commands[c])

(* The counts of entities are right in every state: nothing in use is        *)
(* removed, and nothing is kept but by a Ref that there is.                  *)
RefsExact == RefsCounted /\ LeftOnlyQueued

(* "We should have destroyed all entities", which SimulationUninitialize     *)
(* asserts.  SimulationUnload runs no frame after it has queued the unloads  *)
(* when there is nothing to wait for, and their commands keep Refs.          *)
EntitiesDestroyed == phase = "done" => factory.m_entries = <<>>

(* "Unload all entities in the world.": while the simulation unloads it does *)
(* not come to have entities for good.  A load command that was pending adds *)
(* its entity after the unloads were queued, and nothing unloads that one.   *)
EntitiesUnload ==
    []<>(~unloading \/ updating_entities = <<>> \/ phase = "crashed")

(* An entity that nobody refers to is removed, unless it is asked for again  *)
(* or the program ends.                                                      *)
UnreferencedRemoved ==
    \A id \in UUID :
        (Exists(factory, id) /\ Entry(factory, id).refcount = 0)
            ~> (\/ ~Exists(factory, id)
                \/ Entry(factory, id).refcount > 0
                \/ phase = "crashed")

-----------------------------------------------------------------------------
(* What keeps these properties true.                                         *)

(* All callbacks are there before the first entity; only the universe is     *)
(* called for as one, and while it is in a list the server has a Ref to it,  *)
(* which the WeakRefs of the list rest on.                                   *)
UniverseInv ==
    /\ phase # "initialize" => factory.m_callbacks = Listener
    /\ \A id \in DOMAIN factory.m_entries : "CUniverse" \in Entry(factory, id).type_id <=> id = Universe
    /\ \A i \in DOMAIN universes : universes[i] = Universe
    /\ phase # "done" /\ (universes # <<>> \/ Listed(load_commands, Universe) # {}) => entity = Universe

(* Tasks run within a frame and for a world; without worlds there are no     *)
(* nodes, and the simulation ends without worlds and entities to update.     *)
NodesInv ==
    /\ (\E t \in Task : task[t] # IdleTask) => phase = "tasks" /\ worlds # <<>>
    /\ worlds = <<>> => \A id \in UUID : nodes[id] = 0
    /\ phase \in {"uninitialize", "done"} => worlds = <<>> /\ updating_entities = <<>>

(* No two entities share a world. *)
WorldsApart ==
    \A i, j \in DOMAIN factory.m_entries :
        HasWorld(i) /\ HasWorld(j) /\ i # j => WorldOf(i) # WorldOf(j)

SimulationInv == FactoryConsistent /\ RefsExact /\ WorldsLive /\ UniverseInv /\ NodesInv /\ WorldsApart
=============================================================================
