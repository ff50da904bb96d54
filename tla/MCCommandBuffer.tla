--------------------------- MODULE MCCommandBuffer --------------------------
(* CommandBuffer with integers of 2 to 5 bits instead of 8 to 64, so that    *)
(* numbers on both sides of every limit are tried as arguments.             *)
EXTENDS CommandBuffer

Halves  == <<2, 4, 8, 16>>
Numbers == {-16, -9, -8, -5, -4, -3, -2, -1, 0, 3, 4, 7, 8, 15}

Nil    == [type |-> "NIL", value |-> 0]
True   == [type |-> "BOOL", value |-> 1]
False  == [type |-> "BOOL", value |-> 0]
IntArg(v) == [type |-> "INT", value |-> v]
String == [type |-> "STRING", value |-> 0]

(* Each variant alone, some pairs, and one argument too many. *)
ArgLists == {<<>>} \union {<<v>> : v \in Variant}
            \union {<<String, IntArg(4)>>, <<IntArg(-3), String>>, <<Nil, True>>, <<False, IntArg(8)>>,
                    <<String, String, Nil>>}
=============================================================================
