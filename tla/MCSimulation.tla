---------------------------- MODULE MCSimulation ----------------------------
(* Simulation with the universe and one or more entities of its nodes.       *)
EXTENDS Simulation

Components == {"CName", "CRelationship", "CUniverse", "CWorld"}
Listeners  == {"OnLoadEntity", "OnUnloadEntity", "OnLoadSpatialEntity", "OnUnloadSpatialEntity",
               "OnLoadUniverseEntity", "OnUnloadUniverseEntity"}
Asks == [l \in Listeners |->
           CASE l \in {"OnLoadSpatialEntity", "OnUnloadSpatialEntity"}   -> {"CWorld"}
             [] l \in {"OnLoadUniverseEntity", "OnUnloadUniverseEntity"} -> {"CUniverse"}
             [] OTHER -> {}]
CONSTANTS u
Types == [id \in UUID |-> IF id = u THEN {"CUniverse", "CWorld"} ELSE {"CRelationship"}]
=============================================================================
