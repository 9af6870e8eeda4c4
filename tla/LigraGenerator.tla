--------------------------- MODULE LigraGenerator ---------------------------
(***************************************************************************)
(* graph_generator_ligra.cpp: writes a random directed graph, one vertex   *)
(* after the other, in the three files that ip_load_graph reads.  rand and *)
(* the uniform distribution may give any number of their range.            *)
(***************************************************************************)
EXTENDS GraphFiles, NextID

CONSTANTS
  MaxOutDegrees,   \* the values of --maxOutDegree
  EdgeBound        \* bound: no more edges than this are drawn

VARIABLES
  maxOutDegree,
  source,
  exclusions,          \* source and the neighbours drawn for it
  numberOfEdges,       \* how many source is to have, None before it is drawn
  totalNumberOfEdges

drawVars == <<source, exclusions, numberOfEdges, totalNumberOfEdges>>
generatorVars == <<maxOutDegree, drawVars>>

GeneratorStart ==
  /\ maxOutDegree \in MaxOutDegrees
  /\ source = 0
  /\ exclusions = << >>
  /\ numberOfEdges = None
  /\ totalNumberOfEdges = 0

\* The generator has not run yet.
NoFiles ==
  /\ graph = [v \in Locations |-> << >>]
  /\ files = [edges |-> None, idx |-> << >>, adj |-> << >>]

Smaller(a, b) == IF a < b THEN a ELSE b

\* The next source: its offset is written, and the number of its edges drawn.
DrawDegree ==
  /\ source < VertexCount
  /\ numberOfEdges = None
  /\ exclusions' = <<source>>
  /\ \E random \in 0 .. maxOutDegree :
       /\ numberOfEdges' = Smaller(random, VertexCount - 1)
       /\ totalNumberOfEdges' = totalNumberOfEdges + numberOfEdges'
       /\ totalNumberOfEdges' <= EdgeBound
  /\ files' = [files EXCEPT !.idx = Append(@, totalNumberOfEdges)]
  /\ UNCHANGED <<maxOutDegree, source, graph>>

\* One edge of source.
DrawEdge ==
  /\ numberOfEdges # None
  /\ Len(exclusions) <= numberOfEdges
  /\ \E destination \in NextIDs(VertexCount, exclusions, IdLimit) :
       /\ exclusions' = Append(exclusions, destination)
       /\ files' = [files EXCEPT !.adj = Append(@, destination)]
       /\ graph' = [graph EXCEPT ![source] = Append(@, destination)]
  /\ UNCHANGED <<maxOutDegree, source, numberOfEdges, totalNumberOfEdges>>

NextSource ==
  /\ numberOfEdges # None
  /\ Len(exclusions) > numberOfEdges
  /\ source' = source + 1
  /\ numberOfEdges' = None
  /\ UNCHANGED <<maxOutDegree, exclusions, totalNumberOfEdges, graph, files>>

WriteConfig ==
  /\ source = VertexCount
  /\ files.edges = None
  /\ files' = [files EXCEPT !.edges = totalNumberOfEdges]
  /\ UNCHANGED <<generatorVars, graph>>

GeneratorStep == DrawDegree \/ DrawEdge \/ NextSource \/ WriteConfig

Generated == files.edges # None

------------------------------------------------------------------------------
(* Properties.                                                             *)

GeneratorTypeOK ==
  /\ maxOutDegree \in Nat
  /\ source \in 0 .. VertexCount
  /\ exclusions \in Seq(Locations)
  /\ numberOfEdges \in Nat \cup {None}
  /\ totalNumberOfEdges \in Nat

\* nextID's list of exclusions is not sorted, and the loop over it stops at the
\* first larger one; still no vertex becomes its own neighbour, every neighbour is
\* a vertex, and no vertex gets more than the degree asked for.
ProperNeighbours ==
  exclusions # << >> => \A v \in Locations :
    /\ Len(graph[v]) <= maxOutDegree
    /\ \A i \in DOMAIN graph[v] : graph[v][i] \in Locations \ {v}

\* nextID "returns the next ID available, taking in considerations the exclusions
\* given": no vertex is drawn twice for the same source.
ExclusionsAvailable ==
  \A i, j \in DOMAIN exclusions : exclusions[i] = exclusions[j] => i = j
==============================================================================
