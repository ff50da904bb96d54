---------------------------- MODULE MCUtilities -----------------------------
(* Utilities with positions  in one leaf, in one half and in other corners   *)
(* of the octree.                                                            *)
EXTENDS Utilities

Positions == {<<0, 0, 0>>, <<1, 0, 0>>, <<2, 1, 3>>, <<6, 4, 0>>, <<15, 8, 9>>}

(* Every place in the eight nodes around the origin. *)
LoaderPositions == (-4 .. 4) \X (-4 .. 4) \X (-4 .. 4)

Defaults == [k \in {"a", "b"} |-> "0"]

(* A whole number that is read is a floating one. *)
Numbers == [c \in {"0", "0.0", "x"} |-> IF c = "0" THEN "0.0" ELSE c]
=============================================================================
