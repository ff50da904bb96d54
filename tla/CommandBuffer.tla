---------------------------- MODULE CommandBuffer ---------------------------
(***************************************************************************)
(* The encoding of commands (Commands/GodotCommandBuffer.cpp and           *)
(* Commands/TypedCommandBuffer.cpp).  A buffer is a run of cells: for each *)
(* command a header with its argument count, then its arguments.  In a     *)
(* "godot" buffer an argument is a type tag and, unless the tag says it    *)
(* all, a value; a "typed" buffer keeps the arguments as one tuple.        *)
(* Reading a cell destroys the object in it, so that every object is       *)
(* destroyed once, whether its command is run or cleared.                  *)
(*                                                                         *)
(* A writer fills a buffer and hands it over as an entry of the            *)
(* CommandServer, which runs it in slices or clears it when the object it  *)
(* was written for is gone.  The destructor of a buffer clears it too, but  *)
(* an entry is deleted as a CommandBufferEntryBase, whose destructor is not *)
(* virtual: what is in the buffer then is not destroyed.                   *)
(*                                                                         *)
(* Abstractions.  A cell stands for the bytes of one object.  Of the types *)
(* stored as an object of their own class only the members of Other are    *)
(* kept: the code treats all of them alike.  The limits of the integers of *)
(* each width are a parameter.                                             *)
(***************************************************************************)
EXTENDS Integers, Sequences, Functions

CONSTANTS
    Name,           \* the names of commands
    Number,         \* the integers used as arguments
    Other,          \* variant types stored as an object of their class
    Half,           \* for the four widths of integers, half of the number of
                    \* values: <<2^7, 2^15, 2^31, 2^63>> in the code
    WriterLimit,    \* most values CommandWriter takes, the name included: 15
    BufferLimit,    \* most arguments of a command in a buffer: 16
    MaxPerIter,     \* k_max_commands_per_iter
    Args,           \* the argument lists that commands are written with
    MaxCommands     \* bound on the commands written

ASSUME BufferAssumption ==
    /\ Half \in [1 .. 4 -> Nat \ {0}]
    /\ \A i \in 1 .. 3 : Half[i] < Half[i + 1]
    /\ Number \subseteq -Half[4] .. Half[4] - 1
    /\ WriterLimit \in Nat /\ BufferLimit \in Nat /\ WriterLimit <= BufferLimit + 1
    /\ MaxPerIter \in Nat \ {0} /\ MaxCommands \in Nat

VARIABLES
    kind,       \* "godot" for a GodotCommandBuffer, "typed" for a TCommandBuffer
    writer,     \* the buffer being written
    entry,      \* the buffer handed to the CommandServer
    io,         \* the progress of ProcessCommands or Clear on the entry
    accepted,   \* history: the calls written
    consumed,   \* history: number of calls run or cleared
    called,     \* history: the calls made, with the place of each in accepted
    deleted     \* the CommandServer was deleted, with the entry it had

vars == <<kind, writer, entry, io, accepted, consumed, called, deleted>>

Variant == [type : {"NIL"}, value : {0}] \union [type : {"BOOL"}, value : {0, 1}]
           \union [type : {"INT"}, value : Number] \union [type : Other, value : {0}]

k_process_all_commands == 0

Signed   == <<"INT8", "INT16", "INT32", "INT64">>
Unsigned == <<"UINT8", "UINT16", "UINT32", "UINT64">>
Complete == {"NIL", "TRUE", "FALSE"}    \* the tags without a value
TypeTag  == Complete \union Range(Signed) \union Range(Unsigned) \union Other

ASSUME ArgsAssumption ==
    /\ Args \subseteq Seq(Variant)
    /\ Other \intersect (Complete \union Range(Signed) \union Range(Unsigned) \union {"BOOL", "INT"}) = {}

(* The cells of m_data; live until the object in the cell is destroyed. *)
Header(name, argcount) == [cell |-> "command", name |-> name, argcount |-> argcount, live |-> TRUE]
Tag(t)      == [cell |-> "type", type |-> t]
Value(t, v) == [cell |-> "value", type |-> t, value |-> v, live |-> TRUE]
Tuple(args) == [cell |-> "args", args |-> args, live |-> TRUE]

EmptyBuffer == [m_data |-> <<>>, m_start |-> 0, m_num_commands |-> 0]
Idle == [at |-> "idle", execute |-> FALSE, pos |-> 0, header |-> 0, args |-> <<>>,
         num |-> 0, max |-> 0]

-----------------------------------------------------------------------------
(* Writing an argument. *)

(* The smallest signed integer of a width, and how many integers there are.  *)
Least(i)  == -Half[i]
Values(i) == 2 * Half[i]

(* Mutant: an unsigned number that just does not fit is stored anyway. *)
IntWidthLoose(v) ==
    IF v < 0
      THEN CHOOSE i \in 1 .. 4 : (i = 4 \/ v >= Least(i)) /\ \A j \in 1 .. i - 1 : v < Least(j)
      ELSE CHOOSE i \in 1 .. 4 : (i = 4 \/ v <= Values(i)) /\ \A j \in 1 .. i - 1 : v > Values(j)

(* The width chosen for an integer: the smallest that holds it. *)
IntWidth(v) ==
    IF v < 0
      THEN CHOOSE i \in 1 .. 4 : (i = 4 \/ v >= Least(i)) /\ \A j \in 1 .. i - 1 : v < Least(j)
      ELSE CHOOSE i \in 1 .. 4 : (i = 4 \/ v <= Values(i) - 1) /\ \A j \in 1 .. i - 1 : v > Values(j) - 1

WriteInt(v) ==
    LET i == IntWidth(v)
        t == IF v < 0 THEN Signed[i] ELSE Unsigned[i]
    IN  <<Tag(t), Value(t, v % Values(i))>>

WriteGenericVariant(v) ==
    CASE v.type = "NIL"  -> <<Tag("NIL")>>
      [] v.type = "BOOL" -> <<Tag(IF v.value = 1 THEN "TRUE" ELSE "FALSE")>>
      [] v.type = "INT"  -> WriteInt(v.value)
      [] OTHER           -> <<Tag(v.type), Value(v.type, v.value)>>

(* DefaultCommand::Write *)
WriteTyped(name, args) == <<Header(name, Len(args)), Tuple(args)>>

(* AddCommandVararg: the header and then one argument after the other. *)
WriteArgs(name, args) ==
    LET cells[n \in 0 .. Len(args)] ==
            IF n = 0 THEN <<Header(name, Len(args))>> ELSE cells[n - 1] \o WriteGenericVariant(args[n])
    IN  cells

(* The cells of a command; AddCommandVararg, TCommandBuffer::AddCommand. *)
Encode(name, args) ==
    IF kind = "typed" THEN WriteTyped(name, args) ELSE WriteArgs(name, args)[Len(args)]

(* Mutant: CommandWriter takes any number of arguments. *)
AddCommandUnlimited(name, args) ==
    /\ Len(accepted) < MaxCommands
    /\ writer' = [writer EXCEPT !.m_data = @ \o Encode(name, args),
                                !.m_num_commands = @ + 1]
    /\ accepted' = Append(accepted, [name |-> name, args |-> args])
    /\ UNCHANGED <<kind, entry, io, consumed, called>>

(* CommandWriter::_add_command_vararg and the buffer's AddCommand.  A script *)
(* that gives too many arguments is told so and nothing is written.         *)
AddCommand(name, args) ==
    /\ Len(accepted) < MaxCommands
    /\ kind = "typed" \/ Len(args) + 1 <= WriterLimit
    /\ writer' = [writer EXCEPT !.m_data = @ \o Encode(name, args),
                                !.m_num_commands = @ + 1]
    /\ accepted' = Append(accepted, [name |-> name, args |-> args])
    /\ UNCHANGED <<kind, entry, io, consumed, called>>

(* The buffer is moved into an entry, unless it has no commands.  The move   *)
(* leaves an empty buffer with its start reset.  The entry it replaces was   *)
(* deleted before, see DropEntry.                                            *)
AddCommands ==
    /\ writer.m_num_commands > 0
    /\ io.at = "idle" /\ entry = EmptyBuffer
    /\ entry' = writer
    /\ writer' = EmptyBuffer
    /\ UNCHANGED <<kind, io, accepted, consumed, called>>

-----------------------------------------------------------------------------
(* Reading.  Position p is the cell m_data[p + 1]; buffer_end is Len(m_data). *)

Cell(p) == entry.m_data[p + 1]
Destroy(b, p) == [b EXCEPT !.m_data[p + 1].live = FALSE]
AtEnd == io.pos = Len(entry.m_data)

(* ProcessCommands: nothing to do without commands. *)
ProcessCommands(max) ==
    /\ io.at = "idle" /\ entry.m_num_commands > 0
    /\ io' = [Idle EXCEPT !.at = "command", !.execute = TRUE, !.pos = entry.m_start, !.max = max]
    /\ UNCHANGED <<kind, writer, entry, accepted, consumed, called>>

(* Clear, by FlushState when the object of the buffer is deleted, which      *)
(* then gives up the storage.                                                *)
Clear ==
    /\ io.at = "idle" /\ entry.m_num_commands > 0
    /\ io' = [Idle EXCEPT !.at = "command", !.pos = entry.m_start]
    /\ UNCHANGED <<kind, writer, entry, accepted, consumed, called>>

(* The header of a command.  Too many arguments end the whole buffer. *)
ReadHeader ==
    /\ io.at = "command" /\ ~AtEnd
    /\ io' = IF kind = "godot" /\ Cell(io.pos).argcount > BufferLimit
               THEN [io EXCEPT !.at = "next", !.pos = Len(entry.m_data), !.num = @ + 1]
               ELSE [io EXCEPT !.at = "args", !.header = io.pos, !.pos = @ + 1, !.args = <<>>]
    /\ UNCHANGED <<kind, writer, entry, accepted, consumed, called>>

(* The variant made from a tag and the value behind it. *)
ReadInt(t, v) ==
    IF \E i \in 1 .. 4 : Unsigned[i] = t
      THEN v
      ELSE LET i == CHOOSE i \in 1 .. 4 : Signed[i] = t
           IN  IF v >= Half[i] THEN v - Values(i) ELSE v

(* What a tag without a value stands for. *)
Plain(t) ==
    IF t = "NIL" THEN [type |-> "NIL", value |-> 0] ELSE [type |-> "BOOL", value |-> IF t = "TRUE" THEN 1 ELSE 0]

ReadValue(t, v) ==
    IF t \in Other THEN [type |-> t, value |-> v] ELSE [type |-> "INT", value |-> ReadInt(t, v)]

(* ReadVariant: the next argument, whose object is destroyed. *)
ReadVariant ==
    /\ kind = "godot"
    /\ io.at = "args" /\ Len(io.args) < Cell(io.header).argcount
    /\ LET t == Cell(io.pos).type IN
       IF t \in Complete
         THEN /\ io' = [io EXCEPT !.pos = @ + 1, !.args = Append(@, Plain(t))]
              /\ UNCHANGED entry
         ELSE /\ io' = [io EXCEPT !.pos = @ + 2,
                          !.args = Append(@, ReadValue(t, Cell(io.pos + 1).value))]
              /\ entry' = Destroy(entry, io.pos + 1)
    /\ UNCHANGED <<kind, writer, accepted, consumed, called>>

(* ReadType of the tuple, in a typed buffer. *)
ReadTuple ==
    /\ kind = "typed"
    /\ io.at = "args" /\ io.pos = io.header + 1
    /\ io' = [io EXCEPT !.args = Cell(io.pos).args, !.pos = @ + 1]
    /\ UNCHANGED <<kind, writer, entry, accepted, consumed, called>>

AllRead ==
    IF kind = "typed" THEN io.pos = io.header + 2
                      ELSE Len(io.args) = Cell(io.header).argcount

(* The call, if the command is executed; then the header of a godot buffer   *)
(* or the tuple of a typed one is destroyed.  The header of a typed buffer   *)
(* is a function pointer.                                                    *)
EndCommand ==
    /\ io.at = "args" /\ AllRead
    /\ called' = IF io.execute
                   THEN Append(called, [name |-> Cell(io.header).name, args |-> io.args,
                                        place |-> consumed + 1])
                   ELSE called
    /\ entry' = Destroy(entry, IF kind = "typed" THEN io.header + 1 ELSE io.header)
    /\ consumed' = consumed + 1
    /\ io' = [io EXCEPT !.at = "next", !.num = @ + 1]
    /\ UNCHANGED <<kind, writer, accepted>>

(* ProcessCommands goes on until the end of the buffer or the limit. *)
NextCommand ==
    /\ io.at = "next"
    /\ io' = [io EXCEPT !.at = IF AtEnd \/ (io.execute /\ io.num = io.max) THEN "finish" ELSE "command"]
    /\ UNCHANGED <<kind, writer, entry, accepted, consumed, called>>

(* Mutant: the start of what is left is not moved. *)
FinishBufferStays(b) ==
    IF io.execute
      THEN [b EXCEPT !.m_num_commands = @ - io.num]
      ELSE EmptyBuffer

FinishBuffer(b) ==
    IF io.execute
      THEN [b EXCEPT !.m_start = io.pos, !.m_num_commands = @ - io.num]
      ELSE EmptyBuffer

(* Leaving ProcessCommands, or Clear with the buffer empty. *)
Finish ==
    /\ \/ io.at = "finish"
       \/ io.at = "command" /\ AtEnd
    /\ entry' = FinishBuffer(entry)
    /\ io' = Idle
    /\ UNCHANGED <<kind, writer, accepted, consumed, called>>

(* FlushState took the next entry in place of one without commands, which is *)
(* deleted: its memory goes, nothing in it is destroyed.                     *)
DropEntry ==
    /\ io.at = "idle" /\ entry.m_num_commands = 0 /\ entry # EmptyBuffer
    /\ entry' = EmptyBuffer
    /\ UNCHANGED <<kind, writer, io, accepted, consumed, called>>

(* The CommandServer is deleted when the extension is unloaded, whatever its *)
(* queues hold; the entries go as in DropEntry.                              *)
DeleteServer ==
    /\ ~deleted /\ io.at = "idle"
    /\ deleted' = TRUE
    /\ UNCHANGED <<kind, writer, entry, io, accepted, consumed, called>>

-----------------------------------------------------------------------------

Init ==
    /\ deleted = FALSE
    /\ kind \in {"godot", "typed"}
    /\ writer = EmptyBuffer
    /\ entry = EmptyBuffer
    /\ io = Idle
    /\ accepted = <<>> /\ consumed = 0 /\ called = <<>>

(* The commands are run or cleared and the entry dropped, or the server is   *)
(* gone.                                                                     *)
Done ==
    /\ \/ /\ Len(accepted) = MaxCommands /\ consumed = MaxCommands
          /\ io.at = "idle" /\ writer = EmptyBuffer /\ entry = EmptyBuffer
       \/ deleted
    /\ UNCHANGED vars

Read == ReadHeader \/ ReadVariant \/ ReadTuple \/ EndCommand \/ NextCommand \/ Finish

(* Everything but the end of the server. *)
Step ==
    \/ \E name \in Name, args \in Args : AddCommand(name, args)
    \/ AddCommands
    \/ \E max \in {k_process_all_commands, MaxPerIter} : ProcessCommands(max)
    \/ Clear
    \/ Read
    \/ DropEntry

Up == ~deleted /\ UNCHANGED deleted

Next ==
    \/ Up /\ Step
    \/ DeleteServer
    \/ Done

Spec == Init /\ [][Next]_vars

(* The owner of a buffer writes it out, and the CommandServer finishes what  *)
(* it began and takes up what is left, while it is there.                    *)
FairSpec ==
    /\ Spec
    /\ WF_vars(Up /\ AddCommands)
    /\ WF_vars(Up /\ ProcessCommands(MaxPerIter))
    /\ WF_vars(Up /\ DropEntry)
    /\ WF_vars(Up /\ Read)

-----------------------------------------------------------------------------
(* Properties *)

Cells  == [cell : {"type"}, type : TypeTag]
          \union [cell : {"value"}, type : TypeTag, value : Int, live : BOOLEAN]
          \union [cell : {"args"}, args : Seq(Variant), live : BOOLEAN]
          \union [cell : {"command"}, name : Name, argcount : Nat, live : BOOLEAN]
Buffer == [m_data : Seq(Cells), m_start : Nat, m_num_commands : Nat]

(* Types of the two buffers and of the reader. *)
TypeOK ==
    /\ kind \in {"godot", "typed"}
    /\ writer \in Buffer /\ entry \in Buffer
    /\ io.at \in {"idle", "command", "args", "next", "finish"}
    /\ io.args \in Seq(Variant)
    /\ io.pos \in 0 .. Len(entry.m_data)
    /\ io.num \in Nat /\ io.max \in Nat
    /\ consumed \in Nat

(* A call made by ProcessCommand has the name and the arguments its command  *)
(* was written with, and calls keep the order in which they were written:    *)
(* what WriteGenericVariant encodes ReadVariant decodes, over the move of    *)
(* the buffer, over slices, and with commands of other buffers cleared in    *)
(* between.                                                                  *)
RunAsWritten ==
    /\ \A i \in DOMAIN called :
         /\ called[i].place \in DOMAIN accepted
         /\ [name |-> called[i].name, args |-> called[i].args] = accepted[called[i].place]
    /\ \A i, j \in DOMAIN called : i < j => called[i].place < called[j].place

(* NumCommands, by which FlushState decides that a buffer is finished, is    *)
(* the number of commands that are really left: no command is counted that   *)
(* is gone, and none is left behind uncounted.                               *)
CountExact ==
    io.at = "idle" => writer.m_num_commands + entry.m_num_commands = Len(accepted) - consumed

HasObject(c) == c.cell \in {"value", "args"} \/ (c.cell = "command" /\ kind = "godot")

(* Between two slices the objects before m_start are destroyed and those     *)
(* from m_start on are not: nothing is read that is gone.                    *)
LiveFromStart ==
    io.at = "idle" =>
        \A i \in DOMAIN entry.m_data :
            HasObject(entry.m_data[i]) => (entry.m_data[i].live <=> i > entry.m_start)

(* While the server is there a buffer only goes when every object in it is   *)
(* destroyed.  No destructor does that for an entry, so it holds only if     *)
(* ProcessCommands or Clear reached the end of the bytes exactly when        *)
(* m_num_commands reached zero.                                              *)
AllDestroyed == \A i \in DOMAIN entry.m_data : HasObject(entry.m_data[i]) => ~entry.m_data[i].live

DestroyedBeforeFreed ==
    [][entry.m_data # <<>> /\ entry'.m_data = <<>> => AllDestroyed]_vars

(* "Destroy all remaining commands and arguments": ~GodotCommandBuffer calls *)
(* Clear, so no object of a buffer is left when the server was deleted with  *)
(* its entries.  The destructor of the buffer does not run.                  *)
NothingLeft == deleted => AllDestroyed

(* ProcessCommands runs no more commands than its limit.                     *)
SliceBounded == io.execute /\ io.max # k_process_all_commands => io.num <= io.max

(* Count, bytes and limits agree between any two slices, whether commands    *)
(* were run or cleared before.                                               *)
BufferExact == TypeOK /\ CountExact /\ LiveFromStart /\ SliceBounded

(* A command that was written is run or cleared, unless the server goes.     *)
CommandsConsumed == \A n \in 1 .. MaxCommands : Len(accepted) >= n ~> consumed >= n \/ deleted

(* While the server is there no command is left in a buffer for ever, and    *)
(* none leaves an object behind when its buffer goes, whether it was run or  *)
(* cleared: a buffer never counts commands with no bytes left, nor the       *)
(* other way round.                                                          *)
BufferConsumed == CommandsConsumed /\ DestroyedBeforeFreed

-----------------------------------------------------------------------------
(* What keeps the encoding, the counts and the objects right: where the      *)
(* commands of a buffer begin, and where the reader is in one of them.       *)

Rising(at) == \A i, j \in DOMAIN at : i <= j => at[i] <= at[j]

(* The cells of data behind p and up to q are the argument v.               *)
HoldsArg(data, p, q, v) ==
    LET cells == WriteGenericVariant(v)
    IN  /\ q = p + Len(cells) /\ q <= Len(data)
        /\ \A j \in DOMAIN cells : data[p + j] = cells[j]

(* They are the arguments of args from number k + 1 on; at[i] is the end of *)
(* number i.                                                                *)
HoldsArgs(data, p, q, args, k) ==
    \E at \in [k .. Len(args) -> p .. q] :
        /\ at[k] = p /\ at[Len(args)] = q /\ Rising(at)
        /\ \A i \in k + 1 .. Len(args) : HoldsArg(data, at[i - 1], at[i], args[i])

(* They are the command c.                                                  *)
HoldsCommand(how, data, p, q, c) ==
    /\ p < q /\ q <= Len(data)
    /\ data[p + 1] = Header(c.name, Len(c.args))
    /\ IF how = "typed" THEN q = p + 2 /\ data[p + 2] = Tuple(c.args)
                        ELSE HoldsArgs(data, p + 1, q, c.args, 0)

(* The cells of data behind p are those commands with the numbers lo .. hi; *)
(* at[n] is where number n begins.                                          *)
HoldsCommands(how, commands, data, p, lo, hi) ==
    \E at \in [lo .. hi + 1 -> p .. Len(data)] :
        /\ at[lo] = p /\ at[hi + 1] = Len(data) /\ Rising(at)
        /\ \A n \in lo .. hi : HoldsCommand(how, data, at[n], at[n + 1], commands[n])

Holds(data, p, lo, hi) == HoldsCommands(kind, accepted, data, p, lo, hi)

(* The objects of data in cells up to p, but for one, are destroyed, and     *)
(* those behind p are not.                                                  *)
LiveBehind(data, p, but) ==
    \A i \in DOMAIN data : HasObject(data[i]) /\ i # but => (data[i].live <=> i > p)

(* The commands of the entry that are left.                                 *)
Left == entry.m_num_commands - io.num

(* The cell whose object is destroyed at the end of the command.            *)
Last == IF kind = "typed" THEN io.header + 2 ELSE io.header + 1

Reading == [at : {"idle", "command", "args", "next", "finish"}, execute : BOOLEAN, pos : Nat,
            header : Nat, args : Seq(Variant), num : Nat, max : Nat]

HistoryInv ==
    /\ accepted \in Seq([name : Name, args : Args])
    /\ kind = "godot" => \A i \in DOMAIN accepted : Len(accepted[i].args) <= BufferLimit
    /\ called \in Seq([name : Name, args : Seq(Variant), place : Nat])
    /\ \A i \in DOMAIN called : called[i].place <= consumed

(* The entry has the commands after those consumed, the writer the rest.     *)
WriterInv ==
    /\ Left \in Nat /\ consumed + Left <= Len(accepted)
    /\ writer.m_start = 0
    /\ writer.m_num_commands = Len(accepted) - (consumed + Left)
    /\ Holds(writer.m_data, 0, consumed + Left + 1, Len(accepted))
    /\ LiveBehind(writer.m_data, 0, 0)

ReaderInv ==
    /\ io \in Reading
    /\ io.at = "idle" =>
         /\ io = Idle
         /\ Holds(entry.m_data, entry.m_start, consumed + 1, consumed + Left)
         /\ LiveBehind(entry.m_data, entry.m_start, 0)
    /\ io.at \in {"command", "next", "finish"} =>
         /\ Holds(entry.m_data, io.pos, consumed + 1, consumed + Left)
         /\ LiveBehind(entry.m_data, io.pos, 0)
    /\ io.at = "finish" => io.execute \/ AtEnd
    /\ io.execute /\ io.max # k_process_all_commands =>
         /\ io.num <= io.max
         /\ io.at \in {"command", "args"} => io.num < io.max

(* Of the command c the first arguments are read, and the others still there, *)
(* with the next command behind them.                                        *)
ArgsLeft(c) ==
    /\ io.header < io.pos
    /\ Len(io.args) <= Len(c.args)
    /\ \A i \in DOMAIN io.args : io.args[i] = c.args[i]
    /\ \E q \in io.pos .. Len(entry.m_data) :
         /\ HoldsArgs(entry.m_data, io.pos, q, c.args, Len(io.args))
         /\ Holds(entry.m_data, q, consumed + 2, consumed + Left)

(* The tuple of the command c is read, or not yet.                           *)
TupleLeft(c) ==
    /\ Cell(io.header + 1) = Tuple(c.args)
    /\ io.pos = io.header + 1 \/ (io.pos = io.header + 2 /\ io.args = c.args)
    /\ Holds(entry.m_data, io.header + 2, consumed + 2, consumed + Left)

ArgsInv ==
    io.at = "args" =>
        LET c == accepted[consumed + 1]
        IN  /\ Left > 0 /\ Last \in DOMAIN entry.m_data
            /\ Cell(io.header) = Header(c.name, Len(c.args))
            /\ LiveBehind(entry.m_data, io.pos, Last) /\ entry.m_data[Last].live
            /\ IF kind = "typed" THEN TupleLeft(c) ELSE ArgsLeft(c)

BufferInv == TypeOK /\ RunAsWritten /\ HistoryInv /\ WriterInv /\ ReaderInv /\ ArgsInv
=============================================================================
