-------------------------- MODULE MCCommandServer ---------------------------
(* A command server with few writers and commands for TLC. *)
EXTENDS CommandServer
=============================================================================
