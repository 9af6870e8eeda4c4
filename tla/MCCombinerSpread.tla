--------------------------- MODULE MCCombinerSpread ---------------------------
(* Instances of CombinerSpread for TLC. *)
EXTENDS CombinerSpread, GraphSets
==============================================================================
