------------------------- MODULE MCRenderAllocator --------------------------
(* Two pools of different sizes for TLC. *)
EXTENDS RenderAllocator

Pools == [t \in Type |-> t + 1]
=============================================================================
