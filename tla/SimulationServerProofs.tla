----------------------- MODULE SimulationServerProofs -----------------------
(***************************************************************************)
(* Proofs about SimulationServer, for any number of commands and sessions: *)
(* the simulation has one user at a time, the server is never destroyed    *)
(* under its thread, and commands and signals are delivered once and in    *)
(* order.                                                                  *)
(***************************************************************************)
EXTENDS SimulationServer, TLAPS, SequenceTheorems

(* The invariant holds of a new server. *)
LEMMA ServerInitially == Init => ServerInv
<1> SUFFICES ASSUME Init
             PROVE  ServerInv
  OBVIOUS
<1>1. ThreadTypeOK
  BY Zenon DEF Init, ThreadTypeOK, Owner, Method, State, Worker
<1>2. BufferTypeOK
  BY ServerAssumption DEF Init, BufferTypeOK, ServerAssumption
<1>3. ThreadInv /\ WorkerInv /\ OwnerInv
  BY DEF Init, ThreadInv, WorkerInv, OwnerInv, InLoop
<1> QED BY <1>1, <1>2, <1>3 DEF ServerInv, TypeOK

(* The methods of the owning thread, outside ThreadLoop. *)
LEMMA OwnerPreserves ==
    ASSUME ServerInv, (\E m \in Method \ {"none"} : Call(m)) \/ Progress \/ OwnerStep
    PROVE  ServerInv'
<1> USE DEF ServerInv, TypeOK
<1>1. ASSUME NEW m \in Method \ {"none"}, Call(m)
      PROVE  ServerInv'
  <2>1. ThreadTypeOK'
    BY <1>1 DEF Call, StopSimulation, ThreadTypeOK, Owner, State
  <2>2. BufferTypeOK'
    BY <1>1 DEF Call, commandVars, signalVars, BufferTypeOK
  <2>3. ThreadInv' /\ WorkerInv' /\ OwnerInv'
    BY <1>1 DEF Call, StopSimulation, ThreadInv, WorkerInv, OwnerInv, InLoop, ThreadTypeOK, Worker
  <2> QED BY <2>1, <2>2, <2>3
<1>2. ASSUME Progress \/ EndProgress \/ WaitUntilStopped \/ Return
      PROVE  ServerInv'
  <2>1. ThreadTypeOK'
    BY <1>2 DEF Progress, EndProgress, WaitUntilStopped, Return, threadVars, ThreadTypeOK, Owner
  <2>2. BufferTypeOK'
    BY <1>2 DEF Progress, EndProgress, WaitUntilStopped, Return, commandVars, signalVars, BufferTypeOK
  <2>3. ThreadInv' /\ WorkerInv' /\ OwnerInv'
    BY <1>2 DEF Progress, EndProgress, WaitUntilStopped, Return, threadVars,
                ThreadInv, WorkerInv, OwnerInv, InLoop, ThreadTypeOK, Worker
  <2> QED BY <2>1, <2>2, <2>3
<1>3. ASSUME OwnerUnload \/ OwnerLoad \/ Join \/ AssignThread
      PROVE  ServerInv'
  <2>1. ThreadTypeOK'
    BY <1>3 DEF OwnerUnload, OwnerLoad, Join, AssignThread, ThreadTypeOK, Owner, State, Worker
  <2>2. BufferTypeOK'
    BY <1>3 DEF OwnerUnload, OwnerLoad, Join, AssignThread, commandVars, signalVars, BufferTypeOK
  <2>3. ThreadInv' /\ WorkerInv' /\ OwnerInv'
    BY <1>3 DEF OwnerUnload, OwnerLoad, Join, AssignThread,
                ThreadInv, WorkerInv, OwnerInv, InLoop, ThreadTypeOK, Worker
  <2> QED BY <2>1, <2>2, <2>3
<1>4. ASSUME StartSimulation
      PROVE  ServerInv'
  <2>1. ThreadTypeOK'
    BY <1>4 DEF StartSimulation, ThreadTypeOK, Owner, State, Worker
  <2>2. BufferTypeOK'
    BY <1>4 DEF StartSimulation, commandVars, signalVars, BufferTypeOK
  <2>3. ThreadInv' /\ WorkerInv' /\ OwnerInv'
    BY <1>4 DEF StartSimulation, ThreadInv, WorkerInv, OwnerInv, InLoop, ThreadTypeOK, Worker
  <2> QED BY <2>1, <2>2, <2>3
<1> QED BY <1>1, <1>2, <1>3, <1>4 DEF OwnerStep

(* A command sent, a command run and a signal emitted only move numbers     *)
(* between buffers.                                                        *)
LEMMA BuffersPreserve ==
    ASSUME ServerInv, DeferCommand \/ EmitSignal \/ WorkerProcess \/ WorkerDrain \/ WorkerFlush
    PROVE  BufferTypeOK'
<1> USE DEF ServerInv, TypeOK, BufferTypeOK
<1>1. ASSUME NEW c \in Command, NEW thread \in {"owner", "worker"}
      PROVE  Executed(c, thread) \in Seq([command : Command, by : {"owner", "worker"}, session : Nat])
  BY <1>1 DEF Executed
<1>2. ASSUME NEW c \in Command, NEW thread \in {"owner", "worker"}, QueueSignal(c, thread)
      PROVE  /\ signals' \in Seq(Command) /\ pending' \in Seq(Command)
             /\ emitted' \in Seq([signal : Command, by : {"owner", "worker"}])
             /\ flushed' \in Seq(Command)
  <2>1. [signal |-> c, by |-> thread] \in [signal : Command, by : {"owner", "worker"}]
    BY <1>2
  <2>2. CASE joinable
    <3>1. signals' = Append(signals, c) /\ UNCHANGED <<pending, emitted, flushed>>
      BY <1>2, <2>2, Zenon DEF QueueSignal
    <3> QED BY <3>1
  <2>3. CASE ~joinable
    <3>1. /\ emitted' = Append(emitted, [signal |-> c, by |-> thread])
          /\ UNCHANGED <<signals, pending, flushed>>
      BY <1>2, <2>3, Zenon DEF QueueSignal
    <3> QED BY <2>1, <3>1
  <2> QED BY <2>2, <2>3
<1>3. CASE DeferCommand
  <2>1. issued + 1 \in Command /\ issued' \in 0 .. MaxCommands
    BY <1>3, ServerAssumption DEF DeferCommand, Command, ServerAssumption
  <2>2. CASE joinable
    <3>1. deferred' = Append(deferred, issued + 1) /\ UNCHANGED <<executed, signalVars>>
      BY <1>3, <2>2, Zenon DEF DeferCommand
    <3>2. deferred' \in Seq(Command)
      BY <2>1, <3>1
    <3> QED BY <1>3, <2>1, <3>1, <3>2 DEF DeferCommand, signalVars
  <2>3. CASE ~joinable
    BY <1>1, <1>2, <1>3, <2>1, <2>3 DEF DeferCommand
  <2> QED BY <2>2, <2>3
<1>4. CASE EmitSignal
  <2>1. Head(pending) \in Command /\ Tail(pending) \in Seq(Command)
    BY <1>4 DEF EmitSignal
  <2> QED BY <1>4, <2>1 DEF EmitSignal, commandVars
<1>5. CASE WorkerProcess
  <2>1. CASE local = <<>>
    BY <1>5, <2>1 DEF WorkerProcess, signalVars
  <2>2. CASE local # <<>>
    <3>1. Head(local) \in Command /\ Tail(local) \in Seq(Command)
      BY <2>2
    <3> QED BY <1>1, <1>2, <1>5, <2>2, <3>1 DEF WorkerProcess
  <2> QED BY <2>1, <2>2
<1>6. CASE WorkerDrain
  BY <1>6 DEF WorkerDrain, signalVars
<1>7. CASE WorkerFlush
  BY <1>7, ConcatProperties DEF WorkerFlush, commandVars
<1> QED BY <1>3, <1>4, <1>5, <1>6, <1>7

(* ThreadLoop. *)
LEMMA WorkerPreserves ==
    ASSUME ServerInv, WorkerStep
    PROVE  ServerInv'
<1> USE DEF ServerInv, TypeOK
<1>1. ASSUME WorkerLoad \/ WorkerLoaded \/ WorkerCheck
      PROVE  ServerInv'
  <2>1. ThreadTypeOK'
    BY <1>1 DEF WorkerLoad, WorkerLoaded, WorkerCheck, ownerVars, ThreadTypeOK, State, Worker
  <2>2. BufferTypeOK'
    BY <1>1 DEF WorkerLoad, WorkerLoaded, WorkerCheck, commandVars, signalVars, BufferTypeOK
  <2>3. ThreadInv' /\ WorkerInv' /\ OwnerInv'
    BY <1>1 DEF WorkerLoad, WorkerLoaded, WorkerCheck, ownerVars,
                ThreadInv, WorkerInv, OwnerInv, InLoop, ThreadTypeOK
  <2> QED BY <2>1, <2>2, <2>3
<1>2. ASSUME WorkerDrain \/ WorkerProcess \/ WorkerFlush
      PROVE  ServerInv'
  <2>1. ThreadTypeOK'
    BY <1>2 DEF WorkerDrain, WorkerProcess, WorkerFlush, ownerVars, ThreadTypeOK, Worker
  <2>2. ThreadInv' /\ WorkerInv' /\ OwnerInv'
    BY <1>2 DEF WorkerDrain, WorkerProcess, WorkerFlush, ownerVars,
                ThreadInv, WorkerInv, OwnerInv, InLoop, ThreadTypeOK
  <2> QED BY <1>2, <2>1, <2>2, BuffersPreserve
<1>3. ASSUME WorkerProgress \/ WorkerUnload \/ WorkerUnloaded
      PROVE  ServerInv'
  <2>1. ThreadTypeOK'
    BY <1>3 DEF WorkerProgress, WorkerUnload, WorkerUnloaded, ownerVars, ThreadTypeOK, State, Worker
  <2>2. BufferTypeOK'
    BY <1>3 DEF WorkerProgress, WorkerUnload, WorkerUnloaded, commandVars, signalVars, BufferTypeOK
  <2>3. ThreadInv' /\ WorkerInv' /\ OwnerInv'
    BY <1>3 DEF WorkerProgress, WorkerUnload, WorkerUnloaded, ownerVars,
                ThreadInv, WorkerInv, OwnerInv, InLoop, ThreadTypeOK
  <2> QED BY <2>1, <2>2, <2>3
<1> QED BY <1>1, <1>2, <1>3 DEF WorkerStep

(* Every step preserves the invariant. *)
LEMMA ServerStep == ServerInv /\ [Next]_vars => ServerInv'
<1> SUFFICES ASSUME ServerInv, [Next]_vars
             PROVE  ServerInv'
  OBVIOUS
<1>1. CASE DeferCommand \/ EmitSignal
  <2>1. UNCHANGED <<ownerVars, threadVars>>
    BY <1>1 DEF DeferCommand, EmitSignal
  <2> QED BY <1>1, <2>1, BuffersPreserve
      DEF ownerVars, threadVars, ServerInv, TypeOK, ThreadTypeOK, ThreadInv, WorkerInv, OwnerInv
<1>2. CASE UNCHANGED vars
  BY <1>2 DEF vars, ownerVars, threadVars, commandVars, signalVars, ServerInv, TypeOK,
              ThreadTypeOK, BufferTypeOK, ThreadInv, WorkerInv, OwnerInv
<1> QED BY <1>1, <1>2, OwnerPreserves, WorkerPreserves DEF Next, Deleted

(* The state, m_thread and the simulation always agree with where the two   *)
(* threads are.                                                            *)
THEOREM ServerInvariant == Spec => []ServerInv
BY ServerInitially, ServerStep, PTL DEF Spec

(* Every variable keeps its type. *)
THEOREM TypeCorrect == Spec => []TypeOK
<1>1. ServerInv => TypeOK
  BY DEF ServerInv
<1> QED BY <1>1, ServerInvariant, PTL

(* The owner and the worker thread never use m_simulation at the same time, *)
(* and whoever uses it finds it loaded.                                    *)
THEOREM SimulationAlwaysHasOneUser == Spec => []SimulationHasOneUser
<1>1. ServerInv => SimulationHasOneUser
  BY DEF ServerInv, ThreadInv, WorkerInv, OwnerInv, InLoop, SimulationHasOneUser
<1> QED BY <1>1, ServerInvariant, PTL

(* The destructor only returns when the thread has ended and the simulation *)
(* is unloaded.                                                            *)
THEOREM DestroyedAlwaysStopped == Spec => []DestroyedStopped
<1>1. ServerInv => DestroyedStopped
  BY DEF ServerInv, ThreadInv, OwnerInv, DestroyedStopped
<1> QED BY <1>1, ServerInvariant, PTL

(* Neither the simulation nor the server is used when it is gone. *)
THEOREM SimulationAlwaysGuarded == Spec => []SimulationGuarded
BY SimulationAlwaysHasOneUser, DestroyedAlwaysStopped, PTL DEF SimulationGuarded
-----------------------------------------------------------------------------
(* Delivery.  Commands keep their order on the way to the thread, signals   *)
(* on the way back.                                                        *)

(* Concatenation does not care where one buffer ends and the next begins:   *)
(* the head of the second may move to the end of the first, and an element  *)
(* appended to the last is appended to all.                                *)
LEMMA HeadMoves ==
  ASSUME NEW S, NEW f \in Seq(S), NEW p \in Seq(S), p # <<>>
  PROVE  Append(f, Head(p)) \o Tail(p) = f \o p
<1>1. Head(p) \in S /\ Tail(p) \in Seq(S) /\ <<Head(p)>> \in Seq(S)
  BY HeadTailProperties
<1>2. Append(f, Head(p)) = f \o <<Head(p)>>
  BY <1>1, AppendIsConcat
<1>3. (f \o <<Head(p)>>) \o Tail(p) = f \o (<<Head(p)>> \o Tail(p))
  BY <1>1, ConcatAssociative
<1>4. <<Head(p)>> \o Tail(p) = p
  BY <1>1
<1> QED BY <1>2, <1>3, <1>4

(* An element appended is at the end, the others where they were. *)
LEMMA AppendMoves ==
  ASSUME NEW S, NEW f \in Seq(S), NEW p \in Seq(S), NEW c \in S
  PROVE  f \o Append(p, c) = Append(f \o p, c)
<1>1. <<c>> \in Seq(S) /\ f \o p \in Seq(S)
  BY ConcatProperties
<1>2. Append(p, c) = p \o <<c>> /\ Append(f \o p, c) = (f \o p) \o <<c>>
  BY <1>1, AppendIsConcat
<1>3. (f \o p) \o <<c>> = f \o (p \o <<c>>)
  BY <1>1, ConcatAssociative
<1> QED BY <1>2, <1>3

(* Two lists one after the other keep the order of each. *)
LEMMA ConcatMoves ==
  ASSUME NEW S, NEW f \in Seq(S), NEW p \in Seq(S), NEW s \in Seq(S)
  PROVE  (f \o (p \o s)) \o <<>> = (f \o p) \o s
<1>1. f \o (p \o s) = (f \o p) \o s
  BY SMTT(30), ConcatAssociative
<1>2. (f \o p) \o s \in Seq(S)
  BY ConcatProperties
<1> QED BY <1>1, <1>2, ConcatEmptySeq

(* Reading the types of the buffers. *)
LEMMA BufferTypes ==
  ASSUME ServerInv
  PROVE  /\ deferred \in Seq(Command) /\ local \in Seq(Command) /\ signals \in Seq(Command)
         /\ pending \in Seq(Command) /\ flushed \in Seq(Command)
         /\ executed \in Seq([command : Command, by : {"owner", "worker"}, session : Nat])
         /\ emitted \in Seq([signal : Command, by : {"owner", "worker"}])
         /\ issued \in Nat /\ session \in Nat /\ Queued \in Seq(Command)
<1>1. BufferTypeOK
  BY DEF ServerInv, TypeOK
<1>2. Queued \in Seq(Command)
  BY <1>1, ConcatProperties DEF BufferTypeOK, Queued
<1> QED BY <1>1, <1>2, ServerAssumption DEF BufferTypeOK, ServerAssumption

(* The elements of a buffer are commands. *)
LEMMA BufferElements ==
  ASSUME ServerInv
  PROVE  /\ \A i \in 1 .. Len(local) : local[i] \in Command
         /\ \A i \in 1 .. Len(deferred) : deferred[i] \in Command
         /\ \A p \in 1 .. Len(executed) :
              /\ executed[p].command \in Command
              /\ executed[p].session \in Nat
         /\ Command \subseteq Int
<1>1. /\ \A i \in 1 .. Len(local) : local[i] \in Command
      /\ \A i \in 1 .. Len(deferred) : deferred[i] \in Command
  BY BufferTypes, ElementOfSeq
<1>2. \A p \in 1 .. Len(executed) :
        executed[p] \in [command : Command, by : {"owner", "worker"}, session : Nat]
  BY BufferTypes, ElementOfSeq
<1> QED BY <1>1, <1>2 DEF Command

(* Handing signals over is no change to what is queued; QueueSignal adds a  *)
(* signal at the end.                                                      *)
LEMMA QueuedSteps ==
  ASSUME ServerInv
  PROVE  /\ EmitSignal \/ WorkerFlush => Queued' = Queued
         /\ \A c \in Command, thread \in {"owner", "worker"} :
              QueueSignal(c, thread) =>
                IF joinable
                  THEN Queued' = Append(Queued, c) /\ emitted' = emitted
                  ELSE /\ Queued' = Queued
                       /\ emitted' = Append(emitted, [signal |-> c, by |-> thread])
<1>1. /\ flushed \in Seq(Command) /\ pending \in Seq(Command) /\ signals \in Seq(Command)
      /\ flushed \o pending \in Seq(Command)
  BY BufferTypes, ConcatProperties
<1>2. ASSUME EmitSignal PROVE Queued' = Queued
  <2>1. /\ pending # <<>> /\ signals' = signals
        /\ flushed' = Append(flushed, Head(pending)) /\ pending' = Tail(pending)
    BY <1>2 DEF EmitSignal
  <2>2. flushed' \o pending' = flushed \o pending
    BY <1>1, <2>1, HeadMoves
  <2> QED BY <2>1, <2>2 DEF Queued
<1>3. ASSUME WorkerFlush PROVE Queued' = Queued
  <2>1. flushed' = flushed /\ pending' = pending \o signals /\ signals' = <<>>
    BY <1>3 DEF WorkerFlush
  <2>2. (flushed \o (pending \o signals)) \o <<>> = (flushed \o pending) \o signals
    BY <1>1, ConcatMoves
  <2> QED BY <2>1, <2>2, Zenon DEF Queued
<1>4. ASSUME NEW c \in Command, NEW thread \in {"owner", "worker"}, QueueSignal(c, thread)
      PROVE  IF joinable
               THEN Queued' = Append(Queued, c) /\ emitted' = emitted
               ELSE /\ Queued' = Queued
                    /\ emitted' = Append(emitted, [signal |-> c, by |-> thread])
  <2>1. CASE joinable
    <3>1. signals' = Append(signals, c) /\ pending' = pending /\ flushed' = flushed /\ emitted' = emitted
      BY <1>4, <2>1, Zenon DEF QueueSignal
    <3>2. (flushed \o pending) \o Append(signals, c) = Append((flushed \o pending) \o signals, c)
      BY <1>1, AppendMoves
    <3> QED BY <2>1, <3>1, <3>2, Zenon DEF Queued
  <2>2. CASE ~joinable
    BY <1>4, <2>2, Zenon DEF QueueSignal, Queued
  <2> QED BY <2>1, <2>2
<1> QED BY <1>2, <1>3, <1>4

(* The order of commands and signals, as a statement about histories. *)
CommandOrder(ran) ==
    \A i, j \in 1 .. Len(ran) : i < j =>
        /\ ran[i].command # ran[j].command
        /\ ran[i].session = ran[j].session => ran[i].command < ran[j].command

SignalOrder(ran, atOnce, queue) ==
    /\ \A p \in 1 .. Len(ran) :
         (\E i \in 1 .. Len(queue) : queue[i] = ran[p].command)
            <=> ~(\E i \in 1 .. Len(atOnce) : atOnce[i].signal = ran[p].command)
    /\ \A i \in 1 .. Len(queue) : \E p \in 1 .. Len(ran) :
         ran[p].command = queue[i] /\ ran[p].by = "worker"
    /\ \A i, j \in 1 .. Len(queue) : i < j =>
         \E p, q \in 1 .. Len(ran) :
            p < q /\ ran[p].command = queue[i] /\ ran[q].command = queue[j]

(* The order of delivery, stated of positions. *)
LEMMA OrderStates ==
  /\ CommandsInOrder <=> CommandOrder(executed)
  /\ SignalsInOrder <=> SignalOrder(executed, emitted, Queued)
BY DEF CommandsInOrder, SignalsInOrder, CommandOrder, SignalOrder, Sent, Emitted

(* What Append does, by position. *)
Grown(t, s, x) ==
    /\ Len(s) \in Nat /\ Len(t) = Len(s) + 1
    /\ \A i \in 1 .. Len(s) : t[i] = s[i]
    /\ t[Len(s) + 1] = x

(* A list that is appended to has the old one as its beginning. *)
LEMMA AppendGrows ==
  ASSUME NEW S, NEW s \in Seq(S), NEW x \in S
  PROVE  Grown(Append(s, x), s, x)
BY AppendProperties, LenProperties DEF Grown

(* A history that grows by a new command, larger than those of its session. *)
LEMMA CommandOrderGrows ==
  ASSUME NEW ran, NEW after, NEW r, CommandOrder(ran), Grown(after, ran, r),
         \A p \in 1 .. Len(ran) :
            /\ ran[p].command # r.command
            /\ ran[p].session = r.session => ran[p].command < r.command
  PROVE  CommandOrder(after)
<1> SUFFICES ASSUME NEW i \in 1 .. Len(after), NEW j \in 1 .. Len(after), i < j
             PROVE  /\ after[i].command # after[j].command
                    /\ after[i].session = after[j].session => after[i].command < after[j].command
  BY DEF CommandOrder
<1>1. i \in 1 .. Len(ran) /\ after[i] = ran[i]
  BY DEF Grown
<1>2. CASE j \in 1 .. Len(ran)
  BY <1>1, <1>2 DEF Grown, CommandOrder
<1>3. CASE j = Len(ran) + 1
  BY <1>1, <1>3 DEF Grown
<1> QED BY <1>2, <1>3 DEF Grown

(* The signal of a new command is queued after all others. *)
LEMMA SignalOrderQueued ==
  ASSUME NEW ran, NEW ran2, NEW r, NEW atOnce, NEW queue, NEW queue2,
         SignalOrder(ran, atOnce, queue), Grown(ran2, ran, r), Grown(queue2, queue, r.command),
         r.by = "worker",
         \A p \in 1 .. Len(ran) : ran[p].command # r.command,
         \A i \in 1 .. Len(atOnce) : atOnce[i].signal # r.command
  PROVE  SignalOrder(ran2, atOnce, queue2)
<1> DEFINE n == Len(ran)   m == Len(queue)   c == r.command
<1>1. /\ n \in Nat /\ Len(ran2) = n + 1 /\ ran2[n + 1] = r
      /\ \A p \in 1 .. n : ran2[p] = ran[p]
      /\ m \in Nat /\ Len(queue2) = m + 1 /\ queue2[m + 1] = c
      /\ \A i \in 1 .. m : queue2[i] = queue[i]
  BY DEF Grown
<1>2. /\ \A p \in 1 .. (n + 1) : p \in 1 .. n \/ p = n + 1
      /\ \A i \in 1 .. (m + 1) : i \in 1 .. m \/ i = m + 1
      /\ \A p \in 1 .. n : p \in 1 .. (n + 1) /\ p < n + 1
      /\ \A i \in 1 .. m : i \in 1 .. (m + 1) /\ ~(m + 1 < i)
      /\ n + 1 \in 1 .. (n + 1) /\ m + 1 \in 1 .. (m + 1) /\ ~(m + 1 < m + 1)
  BY <1>1
<1> HIDE DEF n, m, c
<1>3. ASSUME NEW p \in 1 .. (n + 1)
      PROVE  (\E i \in 1 .. (m + 1) : queue2[i] = ran2[p].command)
               <=> ~(\E i \in 1 .. Len(atOnce) : atOnce[i].signal = ran2[p].command)
  <2>1. CASE p \in 1 .. n
    <3>1. (\E i \in 1 .. m : queue[i] = ran[p].command)
            <=> ~(\E i \in 1 .. Len(atOnce) : atOnce[i].signal = ran[p].command)
      BY <2>1 DEF SignalOrder, n, m
    <3>2. ran2[p] = ran[p] /\ ran[p].command # c
      BY <1>1, <2>1 DEF n, c
    <3>3. (\E i \in 1 .. (m + 1) : queue2[i] = ran[p].command)
            <=> (\E i \in 1 .. m : queue[i] = ran[p].command)
      BY <1>1, <1>2, <3>2
    <3> QED BY <3>1, <3>2, <3>3
  <2>2. CASE p = n + 1
    BY <1>1, <1>2, <2>2 DEF c
  <2> QED BY <1>2, <2>1, <2>2
<1>4. ASSUME NEW i \in 1 .. (m + 1)
      PROVE  \E p \in 1 .. (n + 1) : ran2[p].command = queue2[i] /\ ran2[p].by = "worker"
  <2>1. CASE i \in 1 .. m
    <3>1. PICK p \in 1 .. n : ran[p].command = queue[i] /\ ran[p].by = "worker"
      BY <2>1 DEF SignalOrder, n, m
    <3>2. ran2[p] = ran[p] /\ queue2[i] = queue[i]
      BY <1>1, <2>1
    <3> QED BY <1>2, <3>1, <3>2
  <2>2. CASE i = m + 1
    BY <1>1, <1>2, <2>2 DEF c
  <2> QED BY <1>2, <2>1, <2>2
<1>5. ASSUME NEW i \in 1 .. (m + 1), NEW j \in 1 .. (m + 1), i < j
      PROVE  \E p, q \in 1 .. (n + 1) :
                p < q /\ ran2[p].command = queue2[i] /\ ran2[q].command = queue2[j]
  <2>1. i \in 1 .. m
    BY <1>1, <1>5
  <2>2. CASE j \in 1 .. m
    <3>1. PICK p \in 1 .. n, q \in 1 .. n :
            p < q /\ ran[p].command = queue[i] /\ ran[q].command = queue[j]
      BY <1>5, <2>1, <2>2 DEF SignalOrder, n, m
    <3>2. /\ ran2[p] = ran[p] /\ ran2[q] = ran[q]
          /\ queue2[i] = queue[i] /\ queue2[j] = queue[j]
      BY <1>1, <2>1, <2>2
    <3> QED BY <1>2, <3>1, <3>2
  <2>3. CASE j = m + 1
    <3>1. PICK p \in 1 .. n : ran[p].command = queue[i]
      BY <2>1 DEF SignalOrder, n, m
    <3>2. ran2[p].command = queue2[i] /\ ran2[n + 1].command = queue2[j]
      BY <1>1, <2>1, <2>3, <3>1 DEF c
    <3> QED BY <1>2, <3>1, <3>2
  <2> QED BY <1>2, <2>2, <2>3
<1> QED BY <1>1, <1>3, <1>4, <1>5 DEF SignalOrder

(* The signal of a new command is emitted at once. *)
LEMMA SignalOrderEmitted ==
  ASSUME NEW ran, NEW ran2, NEW r, NEW atOnce, NEW atOnce2, NEW e, NEW queue,
         SignalOrder(ran, atOnce, queue), Grown(ran2, ran, r), Grown(atOnce2, atOnce, e),
         e.signal = r.command,
         \A p \in 1 .. Len(ran) : ran[p].command # r.command
  PROVE  SignalOrder(ran2, atOnce2, queue)
<1> DEFINE n == Len(ran)   m == Len(atOnce)   c == r.command
<1>1. /\ n \in Nat /\ Len(ran2) = n + 1 /\ ran2[n + 1] = r
      /\ \A p \in 1 .. n : ran2[p] = ran[p]
      /\ m \in Nat /\ Len(atOnce2) = m + 1 /\ atOnce2[m + 1].signal = c
      /\ \A i \in 1 .. m : atOnce2[i] = atOnce[i]
  BY DEF Grown
<1>2. /\ \A p \in 1 .. (n + 1) : p \in 1 .. n \/ p = n + 1
      /\ \A i \in 1 .. (m + 1) : i \in 1 .. m \/ i = m + 1
      /\ \A p \in 1 .. n : p \in 1 .. (n + 1)
      /\ \A i \in 1 .. m : i \in 1 .. (m + 1)
      /\ n + 1 \in 1 .. (n + 1) /\ m + 1 \in 1 .. (m + 1)
  BY <1>1
<1> HIDE DEF n, m, c
<1>3. ASSUME NEW p \in 1 .. (n + 1)
      PROVE  (\E i \in 1 .. Len(queue) : queue[i] = ran2[p].command)
               <=> ~(\E i \in 1 .. (m + 1) : atOnce2[i].signal = ran2[p].command)
  <2>1. CASE p \in 1 .. n
    <3>1. (\E i \in 1 .. Len(queue) : queue[i] = ran[p].command)
            <=> ~(\E i \in 1 .. m : atOnce[i].signal = ran[p].command)
      BY <2>1 DEF SignalOrder, n, m
    <3>2. ran2[p] = ran[p] /\ ran[p].command # c
      BY <1>1, <2>1 DEF n, c
    <3>3. (\E i \in 1 .. (m + 1) : atOnce2[i].signal = ran[p].command)
            <=> (\E i \in 1 .. m : atOnce[i].signal = ran[p].command)
      BY <1>1, <1>2, <3>2
    <3> QED BY <3>1, <3>2, <3>3
  <2>2. CASE p = n + 1
    <3>1. \A i \in 1 .. Len(queue) : queue[i] # c
      BY DEF SignalOrder, c
    <3> QED BY <1>1, <1>2, <2>2, <3>1 DEF c
  <2> QED BY <1>2, <2>1, <2>2
<1>4. ASSUME NEW i \in 1 .. Len(queue)
      PROVE  \E p \in 1 .. (n + 1) : ran2[p].command = queue[i] /\ ran2[p].by = "worker"
  BY SMTT(30), <1>1, <1>2 DEF SignalOrder, n
<1>5. ASSUME NEW i \in 1 .. Len(queue), NEW j \in 1 .. Len(queue), i < j
      PROVE  \E p, q \in 1 .. (n + 1) :
                p < q /\ ran2[p].command = queue[i] /\ ran2[q].command = queue[j]
  <2>1. PICK p \in 1 .. n, q \in 1 .. n :
          p < q /\ ran[p].command = queue[i] /\ ran[q].command = queue[j]
    BY <1>5 DEF SignalOrder, n
  <2>2. ran2[p] = ran[p] /\ ran2[q] = ran[q]
    BY <1>1
  <2> QED BY <1>2, <2>1, <2>2
<1> QED BY <1>1, <1>3, <1>4, <1>5 DEF SignalOrder

(* A command that has not run before, larger than those of its session that *)
(* have, keeps commands and signals in order; its signal is emitted at once *)
(* or queued.                                                              *)
LEMMA RunPreserves ==
  ASSUME ServerInv, ExecutedInv, CommandsInOrder, SignalsInOrder,
         NEW c \in Command, NEW thread \in {"owner", "worker"},
         ~Ran(c),
         \A p \in 1 .. Len(executed) : executed[p].session = session => executed[p].command < c,
         executed' = Executed(c, thread), QueueSignal(c, thread),
         thread = "owner" => ~joinable
  PROVE  /\ CommandsInOrder' /\ SignalsInOrder'
         /\ EmittedRan'
         /\ Grown(executed', executed, [command |-> c, by |-> thread, session |-> session])
<1> DEFINE r == [command |-> c, by |-> thread, session |-> session]
           n == Len(executed)
<1>1. r \in [command : Command, by : {"owner", "worker"}, session : Nat]
  BY BufferTypes
<1>2. r.command = c /\ r.by = thread /\ r.session = session
  OBVIOUS
<1>3. executed' = Append(executed, r)
  BY DEF Executed
<1> HIDE DEF r
<1>4. Grown(executed', executed, r)
  BY <1>1, <1>3, AppendGrows, BufferTypes
<1>5. \A p \in 1 .. n : executed[p].command # c
  BY DEF Ran
<1>6. CommandOrder(executed')
  BY <1>2, <1>4, <1>5, CommandOrderGrows, OrderStates
<1>7. \A i \in 1 .. Len(emitted) : emitted[i].signal # c
  BY DEF ExecutedInv, EmittedRan, Ran
<1>8. SignalOrder(executed', emitted', Queued') /\ \A i \in 1 .. Len(emitted') :
        emitted'[i].signal = c \/ Ran(emitted'[i].signal)
  <2>1. CASE joinable
    <3>1. Queued' = Append(Queued, c) /\ emitted' = emitted /\ thread = "worker"
      BY <2>1, QueuedSteps
    <3>2. Grown(Queued', Queued, r.command)
      BY <1>2, <3>1, AppendGrows, BufferTypes
    <3>3. SignalOrder(executed', emitted, Queued')
      BY <1>2, <1>4, <1>5, <1>7, <3>1, <3>2, SignalOrderQueued, OrderStates
    <3> QED BY <3>1, <3>3 DEF ExecutedInv, EmittedRan
  <2>2. CASE ~joinable
    <3> DEFINE e == [signal |-> c, by |-> thread]
    <3>1. Queued' = Queued /\ emitted' = Append(emitted, e)
      BY <2>2, QueuedSteps
    <3>2. e.signal = c /\ e \in [signal : Command, by : {"owner", "worker"}]
      OBVIOUS
    <3> HIDE DEF e
    <3>3. Grown(emitted', emitted, e)
      BY <3>1, <3>2, AppendGrows, BufferTypes
    <3>4. SignalOrder(executed', emitted', Queued)
      BY <1>2, <1>4, <1>5, <3>2, <3>3, SignalOrderEmitted, OrderStates
    <3>5. \A i \in 1 .. Len(emitted') : emitted'[i].signal = c \/ Ran(emitted'[i].signal)
      BY <3>2, <3>3 DEF Grown, ExecutedInv, EmittedRan
    <3> QED BY <3>1, <3>4, <3>5
  <2> QED BY <2>1, <2>2
<1>9. \A d : Ran(d) \/ d = c => \E p \in 1 .. Len(executed') : executed'[p].command = d
  BY <1>2, <1>4 DEF Grown, Ran
<1>10. CommandsInOrder' /\ SignalsInOrder'
  BY <1>6, <1>8 DEF CommandsInOrder, CommandOrder, SignalsInOrder, SignalOrder, Sent, Emitted
<1>11. EmittedRan'
  BY <1>8, <1>9 DEF EmittedRan, Ran
<1> QED BY <1>4, <1>10, <1>11 DEF r

(* A step that moves neither commands nor signals keeps them delivered. *)
LEMMA DeliverySame ==
  ASSUME DeliveryInv, UNCHANGED <<deferred, local, executed, issued, emitted>>,
         Queued' = Queued, session' = session,
         worker' # "none" => worker # "none", local # <<>> => worker' = worker
  PROVE  DeliveryInv'
<1>1. BuffersInv'
  BY DEF DeliveryInv, BuffersInv, Increasing
<1>2. ExecutedInv'
  BY DEF DeliveryInv, ExecutedInv, EmittedRan, Before, Ran
<1>3. CommandsInOrder' /\ NoCommandLost' /\ SignalsInOrder'
  <2>1. CommandsInOrder' /\ NoCommandLost'
    BY DEF DeliveryInv, DeliveredInOrder, CommandsInOrder, NoCommandLost, Sent, Ran
  <2>2. SignalsInOrder'
    BY DEF DeliveryInv, DeliveredInOrder, SignalsInOrder, Sent, Emitted
  <2> QED BY <2>1, <2>2
<1> QED BY <1>1, <1>2, <1>3 DEF DeliveryInv, DeliveredInOrder

(* A command of the owner: the newest of all, deferred or run at once.      *)
LEMMA DeferPreserves ==
  ASSUME ServerInv, DeliveryInv, DeferCommand
  PROVE  DeliveryInv'
<1> DEFINE c == issued + 1
<1>1. /\ c \in Command /\ issued' = c /\ issued < c /\ owner = "idle"
      /\ local' = local /\ worker' = worker /\ session' = session
      /\ \A n \in Int : n <= issued => n < c /\ n <= c
  BY SMTT(30), BufferTypes, ServerAssumption
     DEF DeferCommand, Command, ServerAssumption, threadVars
<1>2. \A n \in 1 .. issued' : n \in 1 .. issued \/ n = c
  BY BufferTypes DEF DeferCommand
<1>3. /\ \A i \in 1 .. Len(local) : local[i] <= issued /\ local[i] < c /\ local[i] \in Int
      /\ \A i \in 1 .. Len(deferred) : deferred[i] <= issued /\ deferred[i] < c /\ deferred[i] \in Int
      /\ \A p \in 1 .. Len(executed) :
           /\ executed[p].command <= issued /\ executed[p].command < c
           /\ executed[p].command \in Int /\ executed[p].session <= session
           /\ Before(p, local) /\ Before(p, deferred)
      /\ ~Ran(c)
  <2>1. ASSUME NEW i \in 1 .. Len(local)
        PROVE  local[i] <= issued /\ local[i] \in Int
    BY BufferElements DEF DeliveryInv, ExecutedInv
  <2>2. ASSUME NEW i \in 1 .. Len(deferred)
        PROVE  deferred[i] <= issued /\ deferred[i] \in Int
    BY BufferElements DEF DeliveryInv, BuffersInv
  <2>3. ASSUME NEW p \in 1 .. Len(executed)
        PROVE  /\ executed[p].command <= issued /\ executed[p].session <= session
               /\ executed[p].command \in Int
               /\ Before(p, local) /\ Before(p, deferred)
    BY BufferElements DEF DeliveryInv, ExecutedInv
  <2>4. ~Ran(c)
    BY <1>1, <2>3 DEF Ran
  <2> QED BY <1>1, <2>1, <2>2, <2>3, <2>4
<1> HIDE DEF c
<1>4. CASE joinable
  <2>1. /\ deferred' = Append(deferred, c)
        /\ UNCHANGED <<executed, signals, pending, emitted, flushed>>
    BY <1>4, Zenon DEF DeferCommand, signalVars, c
  <2>2. Grown(deferred', deferred, c)
    BY <1>1, <2>1, AppendGrows, BufferTypes
  <2> DEFINE m == Len(deferred)
  <2>3. /\ Len(deferred') = m + 1 /\ m \in Nat /\ deferred'[m + 1] = c
        /\ \A i \in 1 .. m : deferred'[i] = deferred[i]
        /\ \A i \in 1 .. (m + 1) : i \in 1 .. m \/ i = m + 1
    BY <2>2 DEF Grown
  <2> HIDE DEF m
  <2>4. BuffersInv'
    <3>1. \A i \in 1 .. m : deferred[i] < c /\ deferred[i] <= issued /\ deferred[i] \in Int
      BY <1>3 DEF m
    <3>2. Increasing(deferred)'
      <4> SUFFICES ASSUME NEW i \in 1 .. (m + 1), NEW j \in 1 .. (m + 1), i < j
                   PROVE  deferred'[i] < deferred'[j]
        BY <2>3 DEF Increasing
      <4>1. i \in 1 .. m
        BY <2>3
      <4>2. CASE j \in 1 .. m
        BY <2>3, <4>1, <4>2 DEF DeliveryInv, BuffersInv, Increasing, m
      <4>3. CASE j = m + 1
        BY <2>3, <3>1, <4>1, <4>3
      <4> QED BY <2>3, <4>2, <4>3
    <3>3. \A i \in 1 .. Len(local), j \in 1 .. (m + 1) : local[i] < deferred'[j]
      BY <1>3, <2>3 DEF DeliveryInv, BuffersInv, m
    <3>4. \A i \in 1 .. (m + 1) : deferred'[i] <= c
      <4>1. c <= c
        BY <1>1 DEF Command
      <4> QED BY <1>1, <2>3, <3>1, <4>1
    <3> QED BY <1>1, <2>3, <3>2, <3>3, <3>4 DEF DeliveryInv, BuffersInv, Increasing
  <2>5. ExecutedInv'
    <3>1. \A p \in 1 .. Len(executed) : Before(p, local)' /\ Before(p, deferred)'
      <4> SUFFICES ASSUME NEW p \in 1 .. Len(executed)
                   PROVE  Before(p, local)' /\ Before(p, deferred)'
        OBVIOUS
      <4>1. Before(p, local)'
        BY <1>1, <1>3, <2>1 DEF Before
      <4>2. executed[p].command # c /\ executed[p].command < c
        BY <1>1, <1>3 DEF Command
      <4>3. Before(p, deferred)'
        BY <1>1, <1>3, <2>1, <2>3, <4>2 DEF Before, m
      <4> QED BY <4>1, <4>3
    <3>2. EmittedRan'
      BY <2>1 DEF DeliveryInv, ExecutedInv, EmittedRan, Ran
    <3> QED BY <1>1, <1>3, <2>1, <3>1, <3>2 DEF ExecutedInv
  <2>6. NoCommandLost'
    <3> SUFFICES ASSUME NEW d \in 1 .. issued'
                 PROVE  Sent(deferred, d)' \/ Sent(local, d)' \/ Ran(d)'
      BY DEF NoCommandLost
    <3>1. /\ Sent(local, d) => Sent(local, d)'
          /\ Ran(d) => Ran(d)'
          /\ Sent(deferred, d) \/ d = c => Sent(deferred, d)'
      BY <1>1, <2>1, <2>3 DEF Sent, Ran, m
    <3> QED BY <1>2, <3>1 DEF DeliveryInv, DeliveredInOrder, NoCommandLost
  <2>7. CommandsInOrder' /\ SignalsInOrder'
    <3>1. Queued' = Queued
      BY <2>1 DEF Queued
    <3> QED BY <2>1, <3>1 DEF DeliveryInv, DeliveredInOrder, CommandsInOrder, SignalsInOrder,
                              Sent, Emitted
  <2> QED BY <2>4, <2>5, <2>6, <2>7 DEF DeliveryInv, DeliveredInOrder
<1>5. CASE ~joinable
  <2>1. executed' = Executed(c, "owner") /\ QueueSignal(c, "owner") /\ deferred' = deferred
    BY <1>5, Zenon DEF DeferCommand, c
  <2>2. worker = "none"
    BY <1>1, <1>5 DEF ServerInv, ThreadInv
  <2> DEFINE r == [command |-> c, by |-> "owner", session |-> session]
  <2>3. /\ CommandsInOrder' /\ SignalsInOrder'
        /\ EmittedRan'
        /\ Grown(executed', executed, r)
    BY <1>1, <1>3, <1>5, <2>1, RunPreserves DEF DeliveryInv, DeliveredInOrder
  <2>4. r.command = c /\ r.session = session
    OBVIOUS
  <2> HIDE DEF r
  <2>5. BuffersInv'
    <3>1. \A i \in 1 .. Len(deferred) : deferred[i] <= c
      BY <1>1, <1>3
    <3> QED BY <1>1, <2>1, <3>1 DEF DeliveryInv, BuffersInv, Increasing
  <2>6. ExecutedInv'
    <3>1. ASSUME NEW p \in 1 .. Len(executed')
          PROVE  /\ executed'[p].command <= c /\ executed'[p].session <= session
                 /\ Before(p, local)' /\ Before(p, deferred)'
      <4>1. CASE p \in 1 .. Len(executed)
        <5>1. executed'[p] = executed[p]
          BY <2>3, <4>1 DEF Grown
        <5> QED BY <1>1, <1>3, <2>1, <2>2, <4>1, <5>1 DEF Before
      <4>2. CASE p = Len(executed) + 1
        <5>1. executed'[p].command = c /\ executed'[p].session = session
          BY <2>3, <2>4, <4>2 DEF Grown
        <5>2. c <= c /\ session <= session
          BY <1>1, BufferTypes DEF Command
        <5>3. /\ \A i \in 1 .. Len(local) : local[i] # c
              /\ \A i \in 1 .. Len(deferred) : deferred[i] # c
          BY <1>1, <1>3 DEF Command
        <5> QED BY <1>1, <2>1, <2>2, <5>1, <5>2, <5>3 DEF Before
      <4> QED BY <2>3, <4>1, <4>2 DEF Grown
    <3>2. \A i \in 1 .. Len(local') : local'[i] <= c
      BY <1>1, <1>3
    <3> QED BY <1>1, <2>3, <3>1, <3>2 DEF ExecutedInv
  <2>7. NoCommandLost'
    <3> SUFFICES ASSUME NEW d \in 1 .. issued'
                 PROVE  Sent(deferred, d)' \/ Sent(local, d)' \/ Ran(d)'
      BY DEF NoCommandLost
    <3>1. Ran(d) \/ d = c => Ran(d)'
      BY <2>3, <2>4 DEF Ran, Grown
    <3>2. /\ Sent(local, d) => Sent(local, d)'
          /\ Sent(deferred, d) => Sent(deferred, d)'
      BY <1>1, <2>1 DEF Sent
    <3> QED BY <1>2, <3>1, <3>2 DEF DeliveryInv, DeliveredInOrder, NoCommandLost
  <2> QED BY <2>3, <2>5, <2>6, <2>7 DEF DeliveryInv, DeliveredInOrder
<1> QED BY <1>4, <1>5

(* The commands of the server's buffer become those of the thread, which    *)
(* has none left.                                                          *)
LEMMA DrainPreserves ==
  ASSUME ServerInv, DeliveryInv, WorkerDrain
  PROVE  DeliveryInv'
<1>1. /\ worker = "drain" /\ worker' = "process" /\ local' = deferred /\ deferred' = <<>>
      /\ UNCHANGED <<executed, issued, signals, pending, emitted, flushed, session>>
  BY DEF WorkerDrain, signalVars
<1>2. local = <<>> /\ Len(local) = 0 /\ Len(deferred') = 0
  BY <1>1 DEF DeliveryInv, BuffersInv
<1>3. BuffersInv'
  BY <1>1, <1>2 DEF DeliveryInv, BuffersInv, Increasing
<1>4. ExecutedInv'
  <2>1. \A p \in 1 .. Len(executed) : Before(p, local)' /\ Before(p, deferred)'
    BY <1>1, <1>2 DEF DeliveryInv, ExecutedInv, Before
  <2>2. EmittedRan'
    BY <1>1 DEF DeliveryInv, ExecutedInv, EmittedRan, Ran
  <2> QED BY <1>1, <2>1, <2>2 DEF DeliveryInv, BuffersInv, ExecutedInv
<1>5. NoCommandLost'
  <2>1. \A c : /\ Sent(deferred, c) => Sent(local, c)'
               /\ ~Sent(local, c)
               /\ Ran(c) => Ran(c)'
    BY <1>1, <1>2 DEF Sent, Ran
  <2> QED BY <1>1, <2>1 DEF DeliveryInv, DeliveredInOrder, NoCommandLost
<1>6. CommandsInOrder' /\ SignalsInOrder'
  <2>1. Queued' = Queued
    BY <1>1 DEF Queued
  <2> QED BY <1>1, <2>1 DEF DeliveryInv, DeliveredInOrder, CommandsInOrder, SignalsInOrder,
                            Sent, Emitted
<1> QED BY <1>3, <1>4, <1>5, <1>6 DEF DeliveryInv, DeliveredInOrder

(* The thread runs the oldest command it has. *)
LEMMA ProcessPreserves ==
  ASSUME ServerInv, DeliveryInv, WorkerProcess
  PROVE  DeliveryInv'
<1>1. CASE local = <<>>
  <2>1. /\ worker = "process"
        /\ UNCHANGED <<deferred, local, executed, issued, emitted, signals, pending, flushed, session>>
    BY <1>1 DEF WorkerProcess, signalVars
  <2>2. Queued' = Queued
    BY <2>1 DEF Queued
  <2> QED BY <1>1, <2>1, <2>2, DeliverySame
<1>2. CASE local # <<>>
  <2> DEFINE c == Head(local)
  <2>1. /\ worker = "process" /\ worker' = worker /\ local' = Tail(local)
        /\ executed' = Executed(c, "worker") /\ QueueSignal(c, "worker")
        /\ UNCHANGED <<deferred, issued, session>>
    BY <1>2 DEF WorkerProcess
  <2> DEFINE n == Len(local)
  <2>2. /\ n \in Nat /\ 1 \in 1 .. n /\ c = local[1] /\ Len(local') = n - 1
        /\ \A i \in 1 .. (n - 1) : local'[i] = local[i + 1] /\ i + 1 \in 1 .. n /\ 1 < i + 1
        /\ \A i \in 1 .. n : i = 1 \/ i - 1 \in 1 .. (n - 1)
    BY <1>2, <2>1, BufferTypes, HeadTailProperties
  <2>3. /\ c \in Command /\ c \in Int /\ c <= issued
        /\ \A i \in 1 .. n : local[i] \in Int /\ local[i] <= issued
        /\ \A i \in 1 .. (n - 1) : c < local'[i]
        /\ \A i \in 1 .. Len(deferred) : c < deferred[i] /\ deferred[i] \in Int
    BY <2>2, BufferElements DEF DeliveryInv, BuffersInv, ExecutedInv, Increasing
  <2> HIDE DEF c, n
  <2>4. \A p \in 1 .. Len(executed) :
          /\ executed[p].command # c
          /\ executed[p].session = session => executed[p].command < c
    BY <2>1, <2>2 DEF DeliveryInv, ExecutedInv, Before, n
  <2>5. ~Ran(c)
    BY <2>4 DEF Ran
  <2> DEFINE r == [command |-> c, by |-> "worker", session |-> session]
  <2>6. /\ CommandsInOrder' /\ SignalsInOrder' /\ EmittedRan'
        /\ Grown(executed', executed, r)
    BY <2>1, <2>3, <2>4, <2>5, RunPreserves DEF DeliveryInv, DeliveredInOrder
  <2>7. r.command = c /\ r.session = session
    OBVIOUS
  <2> HIDE DEF r
  <2>8. BuffersInv'
    <3>1. Increasing(local)'
      <4> SUFFICES ASSUME NEW i \in 1 .. (n - 1), NEW j \in 1 .. (n - 1), i < j
                   PROVE  local'[i] < local'[j]
        BY <2>2 DEF Increasing
      <4> QED BY <2>2 DEF DeliveryInv, BuffersInv, Increasing, n
    <3>2. \A i \in 1 .. (n - 1), j \in 1 .. Len(deferred) : local'[i] < deferred[j]
      BY <2>2 DEF DeliveryInv, BuffersInv, n
    <3> QED BY <2>1, <2>2, <3>1, <3>2 DEF DeliveryInv, BuffersInv, Increasing
  <2>9. ExecutedInv'
    <3>1. ASSUME NEW p \in 1 .. Len(executed')
          PROVE  /\ executed'[p].command <= issued /\ executed'[p].session <= session
                 /\ Before(p, local)' /\ Before(p, deferred)'
      <4>1. CASE p \in 1 .. Len(executed)
        <5>1. executed'[p] = executed[p]
          BY <2>6, <4>1 DEF Grown
        <5>2. Before(p, local)'
          BY <2>1, <2>2, <4>1, <5>1 DEF DeliveryInv, ExecutedInv, Before, n
        <5>3. Before(p, deferred)'
          BY <2>1, <4>1, <5>1 DEF DeliveryInv, ExecutedInv, Before
        <5> QED BY <4>1, <5>1, <5>2, <5>3 DEF DeliveryInv, ExecutedInv
      <4>2. CASE p = Len(executed) + 1
        <5>1. executed'[p].command = c /\ executed'[p].session = session
          BY <2>6, <2>7, <4>2 DEF Grown
        <5>2. session <= session
          BY BufferTypes
        <5>3. \A i \in 1 .. (n - 1) : c < local'[i] /\ local'[i] # c
          BY <2>2, <2>3
        <5>4. \A i \in 1 .. Len(deferred) : c < deferred[i] /\ deferred[i] # c
          BY <2>3
        <5>5. Before(p, local)' /\ Before(p, deferred)'
          BY <2>1, <2>2, <5>1, <5>3, <5>4 DEF Before
        <5> QED BY <2>3, <5>1, <5>2, <5>5
      <4> QED BY <2>6, <4>1, <4>2 DEF Grown
    <3>2. \A i \in 1 .. Len(local') : local'[i] <= issued
      BY <2>2, <2>3
    <3> QED BY <2>1, <2>6, <3>1, <3>2 DEF ExecutedInv
  <2>10. NoCommandLost'
    <3>1. \A d : /\ Sent(local, d) => Sent(local, d)' \/ d = c
                 /\ Sent(deferred, d) => Sent(deferred, d)'
                 /\ Ran(d) \/ d = c => Ran(d)'
      <4>1. ASSUME NEW d, Sent(local, d), d # c PROVE Sent(local, d)'
        <5>1. PICK i \in 1 .. n : local[i] = d
          BY <4>1 DEF Sent, n
        <5>2. i - 1 \in 1 .. (n - 1) /\ local'[i - 1] = local[(i - 1) + 1] /\ (i - 1) + 1 = i
          BY <2>2, <4>1, <5>1
        <5> QED BY <2>2, <5>1, <5>2 DEF Sent
      <4>2. ASSUME NEW d PROVE Ran(d) \/ d = c => Ran(d)'
        BY <2>6, <2>7 DEF Ran, Grown
      <4> QED BY <2>1, <4>1, <4>2 DEF Sent
    <3> QED BY <2>1, <3>1 DEF DeliveryInv, DeliveredInOrder, NoCommandLost
  <2> QED BY <2>6, <2>8, <2>9, <2>10 DEF DeliveryInv, DeliveredInOrder
<1> QED BY <1>1, <1>2

(* A new session has run no command yet. *)
LEMMA StartPreserves ==
  ASSUME ServerInv, DeliveryInv, StartSimulation
  PROVE  DeliveryInv'
<1>1. /\ session' = session + 1
      /\ UNCHANGED <<deferred, local, executed, issued, signals, pending, emitted, flushed>>
  BY DEF StartSimulation, commandVars, signalVars
<1>2. worker = "none"
  BY DEF StartSimulation, ServerInv, ThreadInv
<1>3. local = <<>>
  BY <1>2 DEF DeliveryInv, BuffersInv
<1>4. BuffersInv'
  BY <1>1, <1>3 DEF DeliveryInv, BuffersInv, Increasing
<1>5. ExecutedInv'
  <2>1. \A p \in 1 .. Len(executed) :
          executed[p].session <= session' /\ executed[p].session # session'
    <3> SUFFICES ASSUME NEW p \in 1 .. Len(executed)
                 PROVE  executed[p].session <= session' /\ executed[p].session # session'
      OBVIOUS
    <3>1. executed[p].session <= session /\ executed[p].session \in Nat
      BY BufferElements DEF DeliveryInv, ExecutedInv
    <3>2. session \in Nat
      BY BufferTypes
    <3> QED BY <1>1, <3>1, <3>2
  <2>2. \A p \in 1 .. Len(executed) : Before(p, local)' /\ Before(p, deferred)'
    BY <1>1, <2>1 DEF DeliveryInv, ExecutedInv, Before
  <2>3. EmittedRan'
    BY <1>1 DEF DeliveryInv, ExecutedInv, EmittedRan, Ran
  <2> QED BY <1>1, <2>1, <2>2, <2>3 DEF DeliveryInv, ExecutedInv
<1>6. CommandsInOrder' /\ NoCommandLost'
  BY <1>1 DEF DeliveryInv, DeliveredInOrder, CommandsInOrder, NoCommandLost, Sent, Ran
<1>7. SignalsInOrder'
  <2>1. Queued' = Queued
    BY <1>1 DEF Queued
  <2> QED BY <1>1, <2>1 DEF DeliveryInv, DeliveredInOrder, SignalsInOrder, Sent, Emitted
<1> QED BY <1>4, <1>5, <1>6, <1>7 DEF DeliveryInv, DeliveredInOrder

(* Every step keeps commands and signals delivered in order. *)
LEMMA DeliveryStep == ServerInv /\ DeliveryInv /\ [Next]_vars => DeliveryInv'
<1> SUFFICES ASSUME ServerInv, DeliveryInv, [Next]_vars
             PROVE  DeliveryInv'
  OBVIOUS
<1>1. CASE DeferCommand \/ WorkerDrain \/ WorkerProcess \/ StartSimulation
  BY <1>1, DeferPreserves, DrainPreserves, ProcessPreserves, StartPreserves
<1>2. CASE EmitSignal \/ WorkerFlush
  <2>1. /\ UNCHANGED <<deferred, local, executed, issued, emitted>> /\ session' = session
        /\ worker' # "none" => worker # "none"
        /\ worker' = worker \/ worker # "process"
    BY <1>2 DEF EmitSignal, WorkerFlush, commandVars, threadVars
  <2>2. local # <<>> => worker = "process"
    BY DEF DeliveryInv, BuffersInv
  <2>3. Queued' = Queued
    BY <1>2, QueuedSteps
  <2> QED BY <2>1, <2>2, <2>3, DeliverySame
<1>3. CASE \/ \E m \in Method \ {"none"} : Call(m)
           \/ Progress \/ OwnerUnload \/ WaitUntilStopped \/ Join \/ Return
           \/ AssignThread \/ OwnerLoad \/ EndProgress
           \/ WorkerLoad \/ WorkerLoaded \/ WorkerCheck \/ WorkerProgress
           \/ WorkerUnload \/ WorkerUnloaded
           \/ UNCHANGED vars
  <2>1. UNCHANGED <<commandVars, signalVars, session>>
    BY <1>3, Zenon DEF Call, Progress, OwnerUnload, WaitUntilStopped, Join, Return, AssignThread, OwnerLoad,
                EndProgress, WorkerLoad, WorkerLoaded, WorkerCheck, WorkerProgress,
                WorkerUnload, WorkerUnloaded, vars
  <2>2. /\ worker' # "none" => worker # "none"
        /\ worker' = worker \/ worker # "process"
    BY <1>3 DEF Call, Progress, OwnerUnload, WaitUntilStopped, Join, Return, AssignThread, OwnerLoad,
                EndProgress, WorkerLoad, WorkerLoaded, WorkerCheck, WorkerProgress,
                WorkerUnload, WorkerUnloaded, vars, threadVars
  <2>3. local # <<>> => worker = "process"
    BY DEF DeliveryInv, BuffersInv
  <2>4. Queued' = Queued
    BY <2>1 DEF signalVars, Queued
  <2>5. UNCHANGED <<deferred, local, executed, issued, emitted>> /\ session' = session
    BY <2>1 DEF commandVars, signalVars
  <2> QED BY <2>2, <2>3, <2>4, <2>5, DeliverySame
<1> QED BY <1>1, <1>2, <1>3 DEF Next, OwnerStep, WorkerStep, Deleted

(* Why commands and signals stay in order: the buffers hold, oldest first,  *)
(* what has not run, and an earlier session's leftovers never run in the    *)
(* session in which a later command has run.                               *)
THEOREM DeliveryInvariant == Spec => []DeliveryInv
<1>1. Init => DeliveryInv
  <2> SUFFICES ASSUME Init PROVE DeliveryInv
    OBVIOUS
  <2>1. /\ Len(local) = 0 /\ Len(deferred) = 0 /\ Len(executed) = 0 /\ Len(emitted) = 0
        /\ issued = 0 /\ local = <<>>
    BY DEF Init
  <2>2. Queued = <<>> /\ Len(Queued) = 0
    BY DEF Init, Queued
  <2> QED BY <2>1, <2>2
      DEF DeliveryInv, BuffersInv, ExecutedInv, EmittedRan, Increasing, DeliveredInOrder,
          CommandsInOrder, NoCommandLost, SignalsInOrder
<1> QED BY <1>1, DeliveryStep, ServerInvariant, PTL DEF Spec

(* DeferCommand, ThreadLoop and Flush lose no command, run each once and in *)
(* the order of the calls within a session, and deliver each signal once,   *)
(* in the order in which the thread ran the commands.                      *)
THEOREM AlwaysDeliveredInOrder == Spec => []DeliveredInOrder
<1>1. DeliveryInv => DeliveredInOrder
  BY DEF DeliveryInv
<1> QED BY <1>1, DeliveryInvariant, PTL
=============================================================================
