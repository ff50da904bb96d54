-------------------------- MODULE SimulationServer --------------------------
(***************************************************************************)
(* The life of a SimulationServer (Simulation/SimulationServer.cpp) as     *)
(* UniverseServer derives it: the thread that owns the server starts and   *)
(* stops it, in single- or multi-threaded mode, and sends it commands; in  *)
(* multi-threaded mode ThreadLoop runs the commands and hands the signals  *)
(* they queue to the CommandServer, which emits them on the owning thread. *)
(*                                                                         *)
(* Abstractions.  A command is its number in the order of the calls, and   *)
(* queues one signal, which has the same number (StartLocalUniverse,       *)
(* DisconnectFromUniverse); the update_debug_info signal of every frame is *)
(* left out.  What a simulation holds is reduced to whether it exists.     *)
(* CanSimulationStart is TRUE, as in UniverseServer.  Progress in threaded *)
(* mode only retrieves cache updates, see UniverseCache.                   *)
(***************************************************************************)
EXTENDS Integers, Sequences

CONSTANTS
    MaxCommands,    \* bound on the commands sent
    MaxSessions     \* bound on the calls of StartSimulation

ASSUME ServerAssumption == MaxCommands \in Nat /\ MaxSessions \in Nat

VARIABLES
    owner,      \* where the owning thread is
    call,       \* the method it is in
    state,      \* m_state
    joinable,   \* m_thread.joinable(), which is IsThreaded()
    worker,     \* where ThreadLoop is; "none" before a thread exists
    simulation, \* m_simulation is not null
    deferred,   \* m_deferred_commands
    local,      \* command_buffer of ThreadLoop
    signals,    \* m_deferred_signals
    pending,    \* signals given to the CommandServer that it has not emitted
    emitted,    \* history: the signals emitted at once, and the thread that did
    flushed,    \* history: the signals the CommandServer has emitted
    executed,   \* history: the commands run, the thread and the session
    issued,     \* number of commands sent
    session     \* number of simulations started

ownerVars   == <<owner, call>>
threadVars  == <<state, joinable, worker, simulation>>
commandVars == <<deferred, local, executed, issued>>
signalVars  == <<signals, pending, emitted, flushed>>
vars == <<ownerVars, threadVars, commandVars, signalVars, session>>

Command == 1 .. MaxCommands
State   == {"Unloaded", "Loading", "Loaded", "Unloading"}
Method  == {"none", "stop", "wait", "start_single", "start_multi", "destroy"}
Start   == {"start_single", "start_multi"}

-----------------------------------------------------------------------------
(* The owning thread. *)

(* Mutant: the simulation is unloaded by the caller in threaded mode too. *)
StopSimulationUnloads ==
    IF state # "Loaded"
      THEN owner' = "stopped" /\ UNCHANGED state
      ELSE state' = "Unloading" /\ owner' = "unload"

(* The part of StopSimulation before DoSimulationUnload. *)
StopSimulation ==
    IF state # "Loaded"
      THEN owner' = "stopped" /\ UNCHANGED state
      ELSE /\ state' = "Unloading"
           /\ owner' = IF joinable THEN "stopped" ELSE "unload"

(* Every one of these methods begins with StopSimulation. *)
Call(m) ==
    /\ owner = "idle"
    /\ m \in Start => session < MaxSessions
    /\ call' = m
    /\ StopSimulation
    /\ UNCHANGED <<joinable, worker, simulation, commandVars, signalVars, session>>

(* DoSimulationUnload of a simulation without a thread, as WorkerUnload. *)
OwnerUnload ==
    /\ owner = "unload"
    /\ simulation' = FALSE
    /\ state' = "Unloaded"
    /\ owner' = "stopped"
    /\ UNCHANGED <<call, joinable, worker, commandVars, signalVars, session>>

(* Return from StopSimulation, to the caller or into WaitUntilStopped. *)
WaitUntilStopped ==
    /\ owner = "stopped"
    /\ owner' = IF call = "stop" THEN "idle"
                ELSE IF joinable THEN "join" ELSE "joined"
    /\ UNCHANGED <<call, threadVars, commandVars, signalVars, session>>

(* m_thread.join() returns once the thread has returned. *)
Join ==
    /\ owner = "join" /\ worker = "done"
    /\ worker' = "none"
    /\ joinable' = FALSE
    /\ owner' = "joined"
    /\ UNCHANGED <<call, state, simulation, commandVars, signalVars, session>>

(* What follows WaitUntilStopped in the method that called it. *)
StartSimulation ==
    /\ owner = "joined" /\ call \in Start
    /\ state' = "Loading"
    /\ session' = session + 1
    /\ IF call = "start_multi"
         THEN owner' = "assign" /\ worker' = "load"
         ELSE owner' = "load" /\ UNCHANGED worker
    /\ UNCHANGED <<call, joinable, simulation, commandVars, signalVars>>

Return ==
    /\ owner = "joined" /\ call \notin Start
    /\ owner' = IF call = "destroy" THEN "destroyed" ELSE "idle"
    /\ UNCHANGED <<call, threadVars, commandVars, signalVars, session>>

(* The new thread runs before its std::thread is moved into m_thread. *)
AssignThread ==
    /\ owner = "assign"
    /\ joinable' = TRUE
    /\ owner' = "idle"
    /\ UNCHANGED <<call, state, worker, simulation, commandVars, signalVars, session>>

OwnerLoad ==
    /\ owner = "load"
    /\ simulation' = TRUE
    /\ state' = "Loaded"
    /\ owner' = "idle"
    /\ UNCHANGED <<call, joinable, worker, commandVars, signalVars, session>>

(* Progress, and SimulationUpdate inside it when there is no thread. *)
Progress ==
    /\ owner = "idle"
    /\ state = "Loaded" /\ ~joinable
    /\ owner' = "update"
    /\ UNCHANGED <<call, threadVars, commandVars, signalVars, session>>

EndProgress ==
    /\ owner = "update"
    /\ owner' = "idle"
    /\ UNCHANGED <<call, threadVars, commandVars, signalVars, session>>

Executed(c, thread) == Append(executed, [command |-> c, by |-> thread, session |-> session])

(* QueueSignal, called on the given thread. *)
QueueSignal(c, thread) ==
    IF joinable
      THEN signals' = Append(signals, c) /\ UNCHANGED <<pending, emitted, flushed>>
      ELSE /\ emitted' = Append(emitted, [signal |-> c, by |-> thread])
           /\ UNCHANGED <<signals, pending, flushed>>

(* A method of the server: DeferCommand, or its body when that is FALSE. *)
DeferCommand ==
    /\ owner = "idle"
    /\ issued < MaxCommands
    /\ issued' = issued + 1
    /\ IF joinable
         THEN /\ deferred' = Append(deferred, issued + 1)
              /\ UNCHANGED <<executed, signalVars>>
         ELSE /\ executed' = Executed(issued + 1, "owner")
              /\ QueueSignal(issued + 1, "owner")
              /\ UNCHANGED deferred
    /\ UNCHANGED <<ownerVars, threadVars, local, session>>

(* CommandServer::Flush on the owning thread, one signal at a time. *)
EmitSignal ==
    /\ owner = "idle"
    /\ pending # <<>>
    /\ flushed' = Append(flushed, Head(pending))
    /\ pending' = Tail(pending)
    /\ UNCHANGED <<ownerVars, threadVars, commandVars, signals, emitted, session>>

-----------------------------------------------------------------------------
(* ThreadLoop. *)

WorkerLoad ==
    /\ worker = "load"
    /\ simulation' = TRUE
    /\ worker' = "loaded"
    /\ UNCHANGED <<ownerVars, state, joinable, commandVars, signalVars, session>>

WorkerLoaded ==
    /\ worker = "loaded"
    /\ state' = "Loaded"
    /\ worker' = "check"
    /\ UNCHANGED <<ownerVars, joinable, simulation, commandVars, signalVars, session>>

(* Mutant: the loop only stops for Unloaded. *)
WorkerCheckUnloaded ==
    /\ worker = "check"
    /\ worker' = IF state # "Unloaded" THEN "drain" ELSE "unload"
    /\ UNCHANGED <<ownerVars, state, joinable, simulation, commandVars, signalVars, session>>

WorkerCheck ==
    /\ worker = "check"
    /\ worker' = IF state = "Loaded" THEN "drain" ELSE "unload"
    /\ UNCHANGED <<ownerVars, state, joinable, simulation, commandVars, signalVars, session>>

(* Mutant: the buffer is copied instead of moved. *)
WorkerDrainCopies ==
    /\ worker = "drain"
    /\ local' = deferred
    /\ worker' = "process"
    /\ UNCHANGED <<ownerVars, state, joinable, simulation, deferred, executed, issued, signalVars, session>>

WorkerDrain ==
    /\ worker = "drain"
    /\ local' = deferred
    /\ deferred' = <<>>
    /\ worker' = "process"
    /\ UNCHANGED <<ownerVars, state, joinable, simulation, executed, issued, signalVars, session>>

WorkerProcess ==
    /\ worker = "process"
    /\ IF local = <<>>
         THEN /\ worker' = "progress"
              /\ UNCHANGED <<local, executed, signalVars>>
         ELSE /\ local' = Tail(local)
              /\ executed' = Executed(Head(local), "worker")
              /\ QueueSignal(Head(local), "worker")
              /\ UNCHANGED worker
    /\ UNCHANGED <<ownerVars, state, joinable, simulation, deferred, issued, session>>

WorkerProgress ==
    /\ worker = "progress"
    /\ worker' = "flush"
    /\ UNCHANGED <<ownerVars, state, joinable, simulation, commandVars, signalVars, session>>

(* Mutant: the signals are only flushed while the state is Loaded. *)
WorkerFlushLoaded ==
    /\ worker = "flush"
    /\ IF state = "Loaded"
         THEN pending' = pending \o signals /\ signals' = <<>>
         ELSE UNCHANGED <<pending, signals>>
    /\ worker' = "check"
    /\ UNCHANGED <<ownerVars, state, joinable, simulation, commandVars, emitted, flushed, session>>

(* An empty buffer of signals is not flushed, to the same effect. *)
WorkerFlush ==
    /\ worker = "flush"
    /\ pending' = pending \o signals
    /\ signals' = <<>>
    /\ worker' = "check"
    /\ UNCHANGED <<ownerVars, state, joinable, simulation, commandVars, emitted, flushed, session>>

(* DoSimulationUnload; UniverseSimulation waits in a loop for everything to *)
(* be unloaded.  The step is the end of that loop, which may never come.    *)
WorkerUnload ==
    /\ worker = "unload"
    /\ simulation' = FALSE
    /\ worker' = "unloaded"
    /\ UNCHANGED <<ownerVars, state, joinable, commandVars, signalVars, session>>

WorkerUnloaded ==
    /\ worker = "unloaded"
    /\ state' = "Unloaded"
    /\ worker' = "done"
    /\ UNCHANGED <<ownerVars, joinable, simulation, commandVars, signalVars, session>>

-----------------------------------------------------------------------------

Init ==
    /\ owner = "idle" /\ call = "none"
    /\ state = "Unloaded" /\ joinable = FALSE /\ worker = "none" /\ simulation = FALSE
    /\ deferred = <<>> /\ local = <<>> /\ executed = <<>> /\ issued = 0
    /\ signals = <<>> /\ pending = <<>> /\ emitted = <<>> /\ flushed = <<>>
    /\ session = 0

(* Inside a method the owning thread goes on by itself. *)
OwnerStep ==
    \/ OwnerUnload \/ WaitUntilStopped \/ Join
    \/ StartSimulation \/ Return \/ AssignThread
    \/ OwnerLoad \/ EndProgress

WorkerStep ==
    \/ WorkerLoad \/ WorkerLoaded
    \/ WorkerCheck \/ WorkerDrain \/ WorkerProcess \/ WorkerProgress \/ WorkerFlush
    \/ WorkerUnload \/ WorkerUnloaded

(* The server has been deleted. *)
Deleted == owner = "destroyed" /\ UNCHANGED vars

Next ==
    \/ \E m \in Method \ {"none"} : Call(m)
    \/ Progress \/ DeferCommand \/ EmitSignal
    \/ OwnerStep
    \/ WorkerStep
    \/ Deleted

Spec == Init /\ [][Next]_vars

(* Both threads keep running, but for the loop of DoSimulationUnload, which *)
(* nothing in the code brings to an end; and the owner, when it is in no     *)
(* method again and again, flushes the CommandServer in one of its frames.   *)
(* No method is ever assumed to be called.                                   *)
Fairness ==
    /\ WF_vars(OwnerStep /\ owner # "unload")
    /\ WF_vars(WorkerStep /\ worker # "unload")
    /\ SF_vars(EmitSignal)

FairSpec == Spec /\ Fairness

-----------------------------------------------------------------------------
(* Properties. *)

Owner  == {"idle", "unload", "stopped", "join", "joined", "assign", "load", "update", "destroyed"}
Worker == {"none", "load", "loaded", "check", "drain", "process", "progress", "flush",
           "unload", "unloaded", "done"}

ThreadTypeOK ==
    /\ owner \in Owner /\ call \in Method
    /\ state \in State /\ joinable \in BOOLEAN
    /\ worker \in Worker /\ simulation \in BOOLEAN

BufferTypeOK ==
    /\ deferred \in Seq(Command) /\ local \in Seq(Command)
    /\ executed \in Seq([command : Command, by : {"owner", "worker"}, session : Nat])
    /\ issued \in 0 .. MaxCommands
    /\ signals \in Seq(Command) /\ pending \in Seq(Command)
    /\ emitted \in Seq([signal : Command, by : {"owner", "worker"}])
    /\ flushed \in Seq(Command)
    /\ session \in Nat

(* Every variable keeps its type. *)
TypeOK == ThreadTypeOK /\ BufferTypeOK

(* m_simulation has one user at a time: while the worker thread may touch   *)
(* it the owner is in none of the calls that load, update or unload it, and *)
(* each of them finds it in the state it needs.                            *)
SimulationHasOneUser ==
    /\ owner \in {"load", "unload", "update"} => worker = "none"
    /\ owner \in {"unload", "update"} => simulation
    /\ owner = "load" => ~simulation
    /\ worker = "load" => ~simulation
    /\ worker \in {"loaded", "check", "drain", "process", "progress", "flush", "unload"} =>
         simulation

(* "The worker thread is using our memory so make sure its stopped before   *)
(* we are deleted": the server is only destroyed when no thread is left,    *)
(* the simulation is unloaded, and m_thread is not joinable.               *)
DestroyedStopped ==
    owner = "destroyed" => worker = "none" /\ ~joinable /\ ~simulation /\ state = "Unloaded"

(* Through starts, stops and destruction in any order against the worker     *)
(* thread, nobody touches a simulation or a server that is gone.             *)
SimulationGuarded == SimulationHasOneUser /\ DestroyedStopped

(* Within one session commands run in the order they were sent, whichever   *)
(* thread runs them, and no command is run twice, even when it was left in  *)
(* the buffer by one session and found there by the next.                  *)
CommandsInOrder ==
    \A i, j \in 1 .. Len(executed) : i < j =>
        /\ executed[i].command # executed[j].command
        /\ executed[i].session = executed[j].session =>
             executed[i].command < executed[j].command

Sent(seq, n) == \E i \in 1 .. Len(seq) : seq[i] = n
Ran(c)       == \E i \in 1 .. Len(executed) : executed[i].command = c
Emitted(c)   == \E i \in 1 .. Len(emitted) : emitted[i].signal = c

(* A command is never lost: until it ran it is in the buffer of the server  *)
(* or in that of the thread.                                               *)
NoCommandLost ==
    \A c \in 1 .. issued : Sent(deferred, c) \/ Sent(local, c) \/ Ran(c)

(* The deferred signals, in the order the owner gets them: what Flush has   *)
(* emitted, what waits in the CommandServer and what waits in the thread.   *)
Queued == (flushed \o pending) \o signals

(* The signal of a command is emitted at once or deferred, never both and   *)
(* never neither.  The deferred ones come from the thread and keep, through *)
(* two buffers of two threads, the order in which it ran the commands.     *)
SignalsInOrder ==
    /\ \A p \in 1 .. Len(executed) :
         Sent(Queued, executed[p].command) <=> ~Emitted(executed[p].command)
    /\ \A i \in 1 .. Len(Queued) : \E p \in 1 .. Len(executed) :
         executed[p].command = Queued[i] /\ executed[p].by = "worker"
    /\ \A i, j \in 1 .. Len(Queued) : i < j =>
         \E p, q \in 1 .. Len(executed) :
            p < q /\ executed[p].command = Queued[i] /\ executed[q].command = Queued[j]

(* Commands and signals pass between the threads once, in order, and are     *)
(* never lost, over all sessions and thread modes.                           *)
DeliveredInOrder == CommandsInOrder /\ NoCommandLost /\ SignalsInOrder

(* Joining a thread that was told to stop: the thread leaves its loop and    *)
(* comes to DoSimulationUnload, and when that ends the join returns.  Only   *)
(* the endless unload loop of UniverseSimulation can hold the caller.        *)
Stopped == state \in {"Unloading", "Unloaded"}

JoinReturns ==
    /\ owner = "join" /\ Stopped ~> owner # "join" \/ worker = "unload"
    /\ (worker = "unload" ~> worker # "unload") =>
         (owner = "join" /\ Stopped ~> owner # "join")

(* WaitUntilStopped: "Join the thread just in case it hasn't stopped just    *)
(* yet".  It hasn't stopped and never will when it was still loading, since  *)
(* StopSimulation then changed nothing.                                      *)
WaitReturns == owner = "join" ~> owner # "join" \/ worker = "unload"

(* A command that is deferred to a thread is run, unless the simulation is  *)
(* told to stop: nothing between two passes of ThreadLoop can starve it.    *)
CommandsRun ==
    \A c \in Command :
        Sent(deferred, c) /\ joinable /\ state \in {"Loading", "Loaded"} ~>
            Ran(c) \/ state \in {"Unloading", "Unloaded"}

(* A signal the thread has queued reaches the CommandServer, also when the  *)
(* simulation stops meanwhile: the last pass of the loop still flushes.     *)
(* From there the owner emits it, if it is ever outside a method again.     *)
SignalsArrive ==
    \A c \in Command :
        /\ Sent(signals, c) ~> Sent(pending, c) \/ Sent(flushed, c)
        /\ []<>(owner = "idle") => (Sent(pending, c) ~> Sent(flushed, c))

(* What one thread gives to the other arrives: commands are run and signals  *)
(* are emitted, while sessions start and stop.                               *)
MessagesArrive == CommandsRun /\ SignalsArrive

-----------------------------------------------------------------------------
(* What the safety properties rest on: when a thread exists, m_thread is    *)
(* joinable except while it is being assigned, and the state and the        *)
(* simulation follow the thread that is responsible for them.              *)

InLoop == {"check", "drain", "process", "progress", "flush"}

ThreadInv ==
    /\ joinable <=> worker # "none" /\ owner # "assign"
    /\ owner = "assign" => worker # "none"
    /\ owner \in {"load", "unload", "update", "joined", "destroyed"} => worker = "none"

WorkerInv ==
    /\ worker = "load" => state = "Loading" /\ ~simulation
    /\ worker = "loaded" => state = "Loading" /\ simulation
    /\ worker \in InLoop => state \in {"Loaded", "Unloading"} /\ simulation
    /\ worker = "unload" => state = "Unloading" /\ simulation
    /\ worker = "unloaded" => state = "Unloading" /\ ~simulation
    /\ worker = "done" => state = "Unloaded" /\ ~simulation

OwnerInv ==
    worker = "none" =>
        /\ owner \in {"stopped", "joined", "destroyed"} => state = "Unloaded"
        /\ owner = "idle" => state \in {"Unloaded", "Loaded"}
        /\ owner = "load" => state = "Loading"
        /\ owner = "unload" => state = "Unloading"
        /\ owner = "update" => state = "Loaded"
        /\ simulation <=> state \in {"Loaded", "Unloading"}

ServerInv == TypeOK /\ ThreadInv /\ WorkerInv /\ OwnerInv

(* Why the commands stay in order: a buffer holds commands that have not    *)
(* run, oldest first, the thread's before the server's.  A command that     *)
(* runs on the owner overtakes what an earlier session left behind; the     *)
(* thread that finds it there runs in a later session.                     *)
Increasing(seq) == \A i, j \in 1 .. Len(seq) : i < j => seq[i] < seq[j]

BuffersInv ==
    /\ local # <<>> => worker = "process"
    /\ Increasing(local) /\ Increasing(deferred)
    /\ \A i \in 1 .. Len(local), j \in 1 .. Len(deferred) : local[i] < deferred[j]
    /\ \A i \in 1 .. Len(deferred) : deferred[i] <= issued

Before(p, seq) ==
    \A i \in 1 .. Len(seq) :
        /\ executed[p].command # seq[i]
        /\ worker # "none" /\ executed[p].session = session => executed[p].command < seq[i]

EmittedRan == \A i \in 1 .. Len(emitted) : Ran(emitted[i].signal)

ExecutedInv ==
    /\ \A i \in 1 .. Len(local) : local[i] <= issued
    /\ \A p \in 1 .. Len(executed) :
         /\ executed[p].command <= issued /\ executed[p].session <= session
         /\ Before(p, local) /\ Before(p, deferred)
    /\ EmittedRan

DeliveryInv == BuffersInv /\ ExecutedInv /\ DeliveredInOrder
=============================================================================
