------------------------------ MODULE MCCombiner ------------------------------
(* Instances of Combiner for TLC. *)
EXTENDS Combiner, AppResults, GraphSets
==============================================================================
