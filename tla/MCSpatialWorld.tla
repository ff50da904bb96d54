--------------------------- MODULE MCSpatialWorld ---------------------------
(* Small worlds for TLC. *)
EXTENDS SpatialWorld

At(s, a, b, e) == [scale |-> s, x |-> a, y |-> b, z |-> e]

(* Two neighbours across the origin: their parents differ, and shifting a   *)
(* negative position is not a division that rounds to zero.                *)
Pair == {At(0, -1, 0, 0), At(0, 0, 0, 0)}

(* The database may fail for one of them. *)
OneOfPair == {At(0, 0, 0, 0)}

(* Two neighbours below the origin and their common parent. *)
Family == {At(0, -2, 0, 0), At(0, -1, 0, 0), At(1, -1, 0, 0)}

Single == {At(0, 0, 0, 0)}
=============================================================================
