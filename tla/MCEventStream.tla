--------------------------- MODULE MCEventStream ---------------------------
(***************************************************************************)
(* Small sessions for TLC: a root agent and a second one that shares its   *)
(* committer and its bus.                                                  *)
(***************************************************************************)
EXTENDS EventStream

CONSTANTS root, helper

OneAgent == <<root>>
TwoAgents == <<root, helper>>
=============================================================================
