---------------------------- MODULE MCSessionLog ----------------------------
(***************************************************************************)
(* Small sessions for TLC: a root agent alone, or with a second agent that *)
(* shares its committer.                                                   *)
(***************************************************************************)
EXTENDS SessionLog

CONSTANTS root, helper

OneAgent == <<root>>
TwoAgents == <<root, helper>>
=============================================================================
