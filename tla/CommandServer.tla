---------------------------- MODULE CommandServer ---------------------------
(***************************************************************************)
(* The CommandServer (Commands/CommandServer.cpp) and the CommandWriters   *)
(* that feed it.  A writer collects commands for one object and hands them *)
(* over as one buffer.  Buffers for the rendering server are run on the    *)
(* render thread, all others on the main thread; each thread flushes its   *)
(* queue in slices that are limited in commands and in time.               *)
(*                                                                         *)
(* Abstractions.  A command is its writer and its number in that writer;   *)
(* what it does is left out, except that flushing from inside a command is *)
(* a call of FlushState that returns at once.  The clock is reduced to two *)
(* questions: whether the time of the flush is over, which may be answered *)
(* either way, and whether the current buffer is older than 5 s, which     *)
(* becomes true some time.  An object is deleted between two slices.       *)
(***************************************************************************)
EXTENDS Integers, Sequences, SequencesExt, FiniteSetsExt

CONSTANTS
    Writer,         \* the command writers
    Object,         \* the objects they write for, without the rendering server
    RServer,        \* the rendering server
    MaxCommands,    \* bound on the commands of one writer
    MaxPerIter      \* k_max_commands_per_iter

ASSUME CommandAssumption ==
    /\ RServer \notin Object
    /\ MaxCommands \in Nat
    /\ MaxPerIter \in Nat \ {0}

VARIABLES
    m_object_id, \* CommandWriter::m_object_id, fixed by MakeWriter
    written,    \* number of commands each writer was given
    command_buffer, \* CommandWriter::m_command_buffer
    exists,     \* the writer has not been deleted
    alive,      \* the objects that have not been deleted
    command_buffers, \* State::command_buffers
    num_commands,    \* State::num_commands
    current,    \* State::current_buffer
    in_progress,     \* State::buffer_in_progress
    old,        \* the current buffer is older than 5 s
    flush,      \* where FlushState is; "idle" is not flushing_in_progress
    left,       \* commands left to run in this slice
    processed,  \* processed_commands of FlushState
    done,       \* history: the commands run by each queue
    dropped     \* history: the commands cleared because their object was deleted

writerVars == <<written, command_buffer, exists>>
bufferVars == <<command_buffers, num_commands>>
flushVars  == <<current, in_progress, old, flush, left, processed>>
vars == <<m_object_id, writerVars, alive, bufferVars, flushVars, done, dropped>>

Queue   == {"main", "render"}    \* m_state, m_rendering_state
Command == [writer : Writer, number : 1 .. MaxCommands]
Entry   == [object : Object \union {RServer}, commands : Seq(Command)]
NoEntry == [object |-> RServer, commands |-> <<>>]

QueueOf(o) == IF o = RServer THEN "render" ELSE "main"

-----------------------------------------------------------------------------
(* Writers, on any thread. *)

AddCommand(w) ==
    /\ exists[w] /\ written[w] < MaxCommands
    /\ written' = [written EXCEPT ![w] = @ + 1]
    /\ command_buffer' = [command_buffer EXCEPT ![w] =
                            Append(@, [writer |-> w, number |-> written[w] + 1])]
    /\ UNCHANGED <<m_object_id, exists, alive, bufferVars, flushVars, done, dropped>>

AddCommandBuffer(o, commands) ==
    IF commands = <<>>
      THEN UNCHANGED bufferVars
      ELSE /\ command_buffers' = [command_buffers EXCEPT ![QueueOf(o)] =
                                    Append(@, [object |-> o, commands |-> commands])]
           /\ num_commands' = [num_commands EXCEPT ![QueueOf(o)] = @ + Len(commands)]

(* CommandWriter::Flush *)
FlushWriter(w) ==
    /\ exists[w]
    /\ AddCommandBuffer(m_object_id[w], command_buffer[w])
    /\ command_buffer' = [command_buffer EXCEPT ![w] = <<>>]
    /\ UNCHANGED <<m_object_id, written, exists, alive, flushVars, done, dropped>>

(* ~CommandWriter *)
DeleteWriter(w) ==
    /\ exists[w]
    /\ AddCommandBuffer(m_object_id[w], command_buffer[w])
    /\ command_buffer' = [command_buffer EXCEPT ![w] = <<>>]
    /\ exists' = [exists EXCEPT ![w] = FALSE]
    /\ UNCHANGED <<m_object_id, written, alive, flushVars, done, dropped>>

(* The main thread deletes an object, not while it runs commands on it. *)
DeleteObject(o) ==
    /\ o \in alive
    /\ flush["main"] # "run"
    /\ alive' = alive \ {o}
    /\ UNCHANGED <<m_object_id, writerVars, bufferVars, flushVars, done, dropped>>

-----------------------------------------------------------------------------
(* FlushState, on the thread of the queue. *)

BeginFlush(q) ==
    /\ flush[q] = "idle"
    /\ flush' = [flush EXCEPT ![q] = "loop"]
    /\ processed' = [processed EXCEPT ![q] = 0]
    /\ UNCHANGED <<m_object_id, writerVars, alive, bufferVars, current, in_progress, old, left, done, dropped>>

(* Mutant: a buffer is taken although one is in progress. *)
TakeBufferAnyway(q) ==
    /\ flush[q] = "loop"
    /\ IF command_buffers[q] = <<>>
         THEN /\ flush' = [flush EXCEPT ![q] = IF in_progress[q] THEN "time" ELSE "end"]
              /\ UNCHANGED <<command_buffers, current, in_progress, old>>
         ELSE /\ flush' = [flush EXCEPT ![q] = "time"]
              /\ current' = [current EXCEPT ![q] = Head(command_buffers[q])]
              /\ command_buffers' = [command_buffers EXCEPT ![q] = Tail(@)]
              /\ in_progress' = [in_progress EXCEPT ![q] = TRUE]
              /\ \E b \in BOOLEAN : old' = [old EXCEPT ![q] = b]
    /\ UNCHANGED <<m_object_id, writerVars, alive, num_commands, left, processed, done, dropped>>

TakeBuffer(q) ==
    /\ flush[q] = "loop"
    /\ IF in_progress[q]
         THEN /\ flush' = [flush EXCEPT ![q] = "time"]
              /\ UNCHANGED <<command_buffers, current, in_progress, old>>
         ELSE IF command_buffers[q] = <<>>
         THEN /\ flush' = [flush EXCEPT ![q] = "end"]
              /\ UNCHANGED <<command_buffers, current, in_progress, old>>
         ELSE /\ flush' = [flush EXCEPT ![q] = "time"]
              /\ current' = [current EXCEPT ![q] = Head(command_buffers[q])]
              /\ command_buffers' = [command_buffers EXCEPT ![q] = Tail(@)]
              /\ in_progress' = [in_progress EXCEPT ![q] = TRUE]
              /\ \E b \in BOOLEAN : old' = [old EXCEPT ![q] = b]
    /\ UNCHANGED <<m_object_id, writerVars, alive, num_commands, left, processed, done, dropped>>

(* Time passes for the buffer in progress. *)
GetOld(q) ==
    /\ in_progress[q] /\ ~old[q]
    /\ old' = [old EXCEPT ![q] = TRUE]
    /\ UNCHANGED <<m_object_id, writerVars, alive, bufferVars, current, in_progress, flush, left, processed, done, dropped>>

(* Mutant: an old buffer gets no more time than a new one. *)
TimeOverAlways(q) ==
    /\ flush[q] = "time"
    /\ flush' = [flush EXCEPT ![q] = "end"]
    /\ UNCHANGED <<m_object_id, writerVars, alive, bufferVars, current, in_progress, old, left, processed, done, dropped>>

TimeOver(q) ==
    /\ flush[q] = "time" /\ ~old[q]
    /\ flush' = [flush EXCEPT ![q] = "end"]
    /\ UNCHANGED <<m_object_id, writerVars, alive, bufferVars, current, in_progress, old, left, processed, done, dropped>>

(* Mutant: the object of a buffer is not looked up. *)
HasObjectAlways(q) == q = "render" \/ q = "main"

(* The object of the current buffer can be found. *)
HasObject(q) == q = "render" \/ current[q].object \in alive

BeginSlice(q) ==
    /\ flush[q] = "time" /\ HasObject(q)
    /\ flush' = [flush EXCEPT ![q] = "run"]
    /\ left' = [left EXCEPT ![q] =
                  IF old[q] \/ Len(current[q].commands) < MaxPerIter
                    THEN Len(current[q].commands) ELSE MaxPerIter]
    /\ UNCHANGED <<m_object_id, writerVars, alive, bufferVars, current, in_progress, old, processed, done, dropped>>

(* One command of ProcessCommands; a finished buffer is not in progress.   *)
RunCommand(q) ==
    /\ flush[q] = "run"
    /\ done' = [done EXCEPT ![q] = Append(@, Head(current[q].commands))]
    /\ current' = [current EXCEPT ![q].commands = Tail(@)]
    /\ processed' = [processed EXCEPT ![q] = @ + 1]
    /\ left' = [left EXCEPT ![q] = @ - 1]
    /\ flush' = [flush EXCEPT ![q] = IF left[q] = 1 THEN "loop" ELSE "run"]
    /\ in_progress' = [in_progress EXCEPT ![q] = Len(current[q].commands) > 1]
    /\ UNCHANGED <<m_object_id, writerVars, alive, bufferVars, old, dropped>>

(* The object was deleted: the buffer is cleared. *)
ClearBuffer(q) ==
    /\ flush[q] = "time" /\ ~HasObject(q)
    /\ dropped' = dropped \union ToSet(current[q].commands)
    /\ current' = [current EXCEPT ![q].commands = <<>>]
    /\ in_progress' = [in_progress EXCEPT ![q] = FALSE]
    /\ flush' = [flush EXCEPT ![q] = "loop"]
    /\ UNCHANGED <<m_object_id, writerVars, alive, bufferVars, old, left, processed, done>>

(* Mutant: the counter loses the whole buffer instead of what was run. *)
EndFlushAll(q) ==
    /\ flush[q] = "end"
    /\ flush' = [flush EXCEPT ![q] = "idle"]
    /\ num_commands' = [num_commands EXCEPT ![q] = 0]
    /\ processed' = [processed EXCEPT ![q] = 0]
    /\ UNCHANGED <<m_object_id, writerVars, alive, command_buffers, current, in_progress, old, left, done, dropped>>

EndFlush(q) ==
    /\ flush[q] = "end"
    /\ flush' = [flush EXCEPT ![q] = "idle"]
    /\ num_commands' = [num_commands EXCEPT ![q] = @ - processed[q]]
    /\ processed' = [processed EXCEPT ![q] = 0]
    /\ UNCHANGED <<m_object_id, writerVars, alive, command_buffers, current, in_progress, old, left, done, dropped>>

-----------------------------------------------------------------------------

(* MakeWriter: every writer is made for some object. *)
Init ==
    /\ m_object_id \in [Writer -> Object \union {RServer}]
    /\ written = [w \in Writer |-> 0]
    /\ command_buffer = [w \in Writer |-> <<>>]
    /\ exists = [w \in Writer |-> TRUE]
    /\ alive = Object
    /\ command_buffers = [q \in Queue |-> <<>>]
    /\ num_commands = [q \in Queue |-> 0]
    /\ current = [q \in Queue |-> NoEntry]
    /\ in_progress = [q \in Queue |-> FALSE]
    /\ old = [q \in Queue |-> FALSE]
    /\ flush = [q \in Queue |-> "idle"]
    /\ left = [q \in Queue |-> 0]
    /\ processed = [q \in Queue |-> 0]
    /\ done = [q \in Queue |-> <<>>]
    /\ dropped = {}

FlushState(q) ==
    \/ TakeBuffer(q)
    \/ TimeOver(q) \/ BeginSlice(q) \/ ClearBuffer(q)
    \/ RunCommand(q)
    \/ EndFlush(q)

Next ==
    \/ \E w \in Writer : AddCommand(w) \/ FlushWriter(w) \/ DeleteWriter(w)
    \/ \E o \in Object : DeleteObject(o)
    \/ \E q \in Queue : BeginFlush(q) \/ FlushState(q) \/ GetOld(q)

Spec == Init /\ [][Next]_vars

(* Both threads call FlushState in every frame and it goes on by itself; a  *)
(* buffer that waits gets older than 5 s.                                  *)
Fairness ==
    \A q \in Queue :
        /\ WF_vars(BeginFlush(q))
        /\ WF_vars(FlushState(q))
        /\ WF_vars(GetOld(q))

FairSpec == Spec /\ Fairness

-----------------------------------------------------------------------------
(* Properties. *)

(* Every variable keeps its type. *)
TypeOK ==
    /\ m_object_id \in [Writer -> Object \union {RServer}]
    /\ written \in [Writer -> 0 .. MaxCommands]
    /\ command_buffer \in [Writer -> Seq(Command)]
    /\ exists \in [Writer -> BOOLEAN]
    /\ alive \subseteq Object
    /\ command_buffers \in [Queue -> Seq(Entry)]
    /\ num_commands \in [Queue -> Nat]
    /\ current \in [Queue -> Entry]
    /\ in_progress \in [Queue -> BOOLEAN]
    /\ old \in [Queue -> BOOLEAN]
    /\ flush \in [Queue -> {"idle", "loop", "time", "run", "end"}]
    /\ left \in [Queue -> Nat]
    /\ processed \in [Queue -> Nat]
    /\ done \in [Queue -> Seq(Command)]
    /\ dropped \subseteq Command

(* The commands of a writer come in the order it was given them. *)
Ordered(seq) ==
    \A i, j \in DOMAIN seq :
        i < j /\ seq[i].writer = seq[j].writer => seq[i].number < seq[j].number

Before(S, T) == \A d \in T : \A c \in S : c.writer = d.writer => c.number < d.number

(* Buffers, one after the other. *)
CommandsIn(buffers) == UNION {ToSet(buffers[i].commands) : i \in DOMAIN buffers}

InSequence(buffers) ==
    /\ \A i \in DOMAIN buffers : Ordered(buffers[i].commands)
    /\ \A i, j \in DOMAIN buffers :
         i < j => Before(ToSet(buffers[i].commands), ToSet(buffers[j].commands))

(* Where the commands of a queue are. *)
Ran(q)     == ToSet(done[q])
Dropped(q) == {c \in dropped : QueueOf(m_object_id[c.writer]) = q}
Current(q) == ToSet(current[q].commands)
Queued(q)  == CommandsIn(command_buffers[q])
Waiting(q) == Current(q) \union Queued(q)
Kept(w)    == ToSet(command_buffer[w])

(* In each queue a writer's commands are run in order, those that were      *)
(* dropped come after those that were run, and what waits comes after both. *)
QueueInOrder(q) ==
    /\ Ordered(done[q]) /\ Ordered(current[q].commands) /\ InSequence(command_buffers[q])
    /\ Before(Ran(q), Dropped(q))
    /\ Before(Ran(q) \union Dropped(q), Waiting(q))
    /\ Before(Current(q), Queued(q))

WriterInOrder(w) ==
    /\ Ordered(command_buffer[w])
    /\ \A q \in Queue : Before(Ran(q) \union Dropped(q) \union Waiting(q), Kept(w))

(* Every command is somewhere, and only in the queue of its object. *)
EveryCommand ==
    /\ \A q \in Queue : \A c \in Ran(q) \union Waiting(q) : QueueOf(m_object_id[c.writer]) = q
    /\ \A w \in Writer : \A c \in Kept(w) : c.writer = w
    /\ {c \in Command : c.number <= written[c.writer]} =
         dropped \union (UNION {Ran(q) \union Waiting(q) : q \in Queue}) \union (UNION {Kept(w) : w \in Writer})

(* What was run, what was dropped and what waits of one writer, in this     *)
(* order, are its commands from the first to the last: every command is in  *)
(* exactly one place and runs once, in order, however the writer's flushes, *)
(* the slices and the deletion of the object interleave.                   *)
RunInOrder ==
    /\ \A q \in Queue : QueueInOrder(q)
    /\ \A w \in Writer : WriterInOrder(w)
    /\ EveryCommand

(* A command runs only while its object exists, and is dropped only when it *)
(* does not: the object is looked up again for every slice of a buffer that *)
(* was interrupted for many frames.                                        *)
ObjectsRespected ==
    [][/\ \A q \in Queue : done'[q] # done[q] =>
            \E c \in Command :
                /\ done'[q] = Append(done[q], c)
                /\ q = "main" => m_object_id[c.writer] \in alive
       /\ \A c \in dropped' \ dropped : m_object_id[c.writer] \in Object \ alive]_vars

(* num_commands is what waits, what the flush in progress has run, and what *)
(* was dropped: "We processed more commands than we have?" never happens.   *)
CommandsCounted ==
    \A q \in Queue :
        num_commands[q] = Cardinality(Waiting(q)) + processed[q] + Cardinality(Dropped(q))

(* A slice is never started on an empty buffer, which is what the           *)
(* assertions in FlushState say, and no more is left of it than commands.  *)
SlicesHaveCommands ==
    \A q \in Queue :
        /\ in_progress[q] <=> current[q].commands # <<>>
        /\ flush[q] = "time" => in_progress[q]
        /\ flush[q] = "run" => left[q] \in 1 .. Len(current[q].commands)

(* The counters, the queues and the slice in progress agree, and no unsigned *)
(* number goes below zero.                                                   *)
QueuesExact == TypeOK /\ CommandsCounted /\ SlicesHaveCommands

(* The commands of a writer that were handed to the server are all run or   *)
(* dropped, however many others come before them and however slow the       *)
(* flushes are: a buffer that waits for 5 s is run without looking at the   *)
(* time.  A writer stops at MaxCommands.                                   *)
WaitsFor(w) == \E q \in Queue : \E c \in Waiting(q) : c.writer = w

CommandsFinish == \A w \in Writer : WaitsFor(w) ~> ~WaitsFor(w)

-----------------------------------------------------------------------------
(* What keeps QueuesExact and RunInOrder true.                             *)

(* A buffer is not empty, is for the object its commands were written for,  *)
(* and is in the queue of that object.                                     *)
EntryFor(entry, q) ==
    /\ entry.commands # <<>>
    /\ QueueOf(entry.object) = q
    /\ \A c \in ToSet(entry.commands) : m_object_id[c.writer] = entry.object

EntriesInv ==
    \A q \in Queue :
        /\ \A i \in DOMAIN command_buffers[q] : EntryFor(command_buffers[q][i], q)
        /\ current[q].commands # <<>> => EntryFor(current[q], q)
        /\ flush[q] = "run" /\ q = "main" => current[q].object \in alive

(* Only commands for a deleted object are dropped: none that is run later    *)
(* comes after one of them.                                                 *)
DroppedInv ==
    /\ \A c \in dropped : m_object_id[c.writer] \in Object \ alive
    /\ IsFiniteSet(dropped) /\ \A q \in Queue : IsFiniteSet(Waiting(q))

(* Between two flushes what was run has been taken off num_commands. *)
IdleInv == \A q \in Queue : flush[q] = "idle" => processed[q] = 0

CommandInv == QueuesExact /\ RunInOrder /\ EntriesInv /\ DroppedInv /\ IdleInv
=============================================================================
