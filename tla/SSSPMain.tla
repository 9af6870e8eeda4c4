------------------------------- MODULE SSSPMain -------------------------------
(* main of sssp.c: how the command line chooses the source of the search. *)
EXTENDS BSP, GraphSets

CONSTANTS
  SourceArgument,     \* <SSSP_source_vertex>, the sixth argument of the usage line
  ScheduleArgument    \* <schedule>, the fourth one: a word

\* The arguments, numbered from 1 as argv is.
argv == <<"inputFile", "outputFile", 1, ScheduleArgument, 0, SourceArgument>>

\* atoi gives 0 for a text that does not begin with a number.
atoi(text) == IF text \in Vertices \cup {0} THEN text ELSE 0

\* What main assigns to start_vertex.
ParsedSource == atoi(argv[4])

\* The distances that sssp.c ends with are those from the vertex that the command
\* line names as SSSP_source_vertex.
SourceIsTheOneAsked ==
  returned => \A v \in Vertices : value[v] = DistanceFrom(out_neighbours, SourceArgument, v)
==============================================================================
