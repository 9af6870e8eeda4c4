-------------------------- MODULE MCSingleBroadcast --------------------------
(* Instances of SingleBroadcast for TLC. *)
EXTENDS SingleBroadcast, GraphSets
==============================================================================
