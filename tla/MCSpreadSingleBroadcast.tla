--------------------- MODULE MCSpreadSingleBroadcast ---------------------
(* Instances of SpreadSingleBroadcast for TLC. *)
EXTENDS SpreadSingleBroadcast, AppResults, GraphSets
==============================================================================
