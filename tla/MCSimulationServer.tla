------------------------- MODULE MCSimulationServer -------------------------
(* A server with few commands and sessions for TLC. *)
EXTENDS SimulationServer
=============================================================================
