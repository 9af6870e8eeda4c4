--------------------------------- MODULE Team ---------------------------------
(* The threads that omp_set_num_threads asks for in ip_init. *)
EXTENDS FiniteSets

CONSTANT Threads

ASSUME ThreadsAssumption == IsFiniteSet(Threads) /\ Threads # {}
==============================================================================
