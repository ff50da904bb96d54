-------------------------- MODULE MCUniverseCache ---------------------------
(* A cache with a type that is both an info and a map, as Player is. *)
EXTENDS UniverseCache
=============================================================================
