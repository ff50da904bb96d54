--------------------------- MODULE SpatialTraverse --------------------------
(***************************************************************************)
(* Which nodes of a scale a loader touches (ForEachCoordInSphere of        *)
(* SpatialTraverse.h, as LoaderLoadNodes calls it).  Numbers are in        *)
(* quarters of a node: the positions of loaders are not whole.             *)
(***************************************************************************)
EXTENDS Integers

Axis == 1 .. 3

Quarters(n) == 4 * n

(* The conversion of a floating number to an integer cuts towards zero.     *)
Truncated(q) == IF q >= 0 THEN q \div 4 ELSE -((-q) \div 4)

(* The nodes from start to end - 1 on an axis, as the three loops go.        *)
Loop(q, radius) ==
    Truncated(q - Quarters(radius)) .. Truncated(q + Quarters(radius)) - 1

Square(n) == n * n

(* From the middle of a node: the grid is shifted by a half.                *)
DistanceSquared(pos, it) ==
    Square(pos[1] - 2 - Quarters(it[1])) + Square(pos[2] - 2 - Quarters(it[2]))
        + Square(pos[3] - 2 - Quarters(it[3]))

(* Mutant: from the corner of a node. *)
ForEachCoordInSphere_Corner(pos, radius) ==
    {it \in Loop(pos[1], radius) \X Loop(pos[2], radius) \X Loop(pos[3], radius) :
        DistanceSquared([a \in Axis |-> pos[a] + 2], it) < Square(Quarters(radius))}

ForEachCoordInSphere(pos, radius) ==
    {it \in Loop(pos[1], radius) \X Loop(pos[2], radius) \X Loop(pos[3], radius) :
        DistanceSquared(pos, it) < Square(Quarters(radius))}

-----------------------------------------------------------------------------

(* The node that a position is in.                                          *)
NodeOf(pos) == <<pos[1] \div 4, pos[2] \div 4, pos[3] \div 4>>

(* The middle of a node, and how far it is.                                 *)
MiddleDistance(pos, it) ==
    LET Off(a) == Quarters(it[a]) + 2 - pos[a]
    IN  Square(Off(1)) + Square(Off(2)) + Square(Off(3))

(* The nodes whose middle is inside of a sphere.                            *)
Inside(pos, radius) ==
    LET q == Quarters(radius)
        Span(a) == (pos[a] - q - 4) \div 4 .. (pos[a] + q + 4) \div 4
    IN  {it \in Span(1) \X Span(2) \X Span(3) : MiddleDistance(pos, it) < Square(q)}

(* A part of the node lies outside of the cube around the sphere, on an axis.*)
SticksOut(pos, radius, it, a) ==
    \/ Quarters(it[a]) < pos[a] - Quarters(radius)
    \/ Quarters(it[a]) + 4 > pos[a] + Quarters(radius)
=============================================================================
