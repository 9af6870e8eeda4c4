-------------------------- MODULE EdgeListGenerator --------------------------
(***************************************************************************)
(* graph_generator_femtograph.cpp (and graph_generator_graphchi.cpp, which *)
(* only separates the two identifiers by a tab): writes a random directed  *)
(* graph as a text file of edges.                                          *)
(***************************************************************************)
EXTENDS NextID

CONSTANTS
  Arguments,       \* pairs of --graphSize and --maxOutDegree, 0 when it is not given
  CHUNK_PERCENT,
  UnsignedLimit    \* 2^w for the w bits of unsigned int

VARIABLES
  numberOfNodes,
  maxEdgeCountPerNode,
  source,
  exclusions,         \* source and the neighbours drawn for it, << >> before
  numberOfEdges,
  edges,              \* the lines written
  generating          \* "running", "crashed" or "done"

argumentVars == <<numberOfNodes, maxEdgeCountPerNode>>
edgeListVars == <<argumentVars, source, exclusions, numberOfEdges, edges, generating>>

GenerateStart ==
  /\ \E a \in Arguments : numberOfNodes = a[1] /\ maxEdgeCountPerNode = a[2]
  /\ source = 0
  /\ exclusions = << >>
  /\ numberOfEdges = 0
  /\ edges = << >>
  /\ generating = "running"

\* The modulus of the random number of edges, an unsigned number.
Modulus ==
  IF maxEdgeCountPerNode > 0 THEN maxEdgeCountPerNode
  ELSE (numberOfNodes - 2) % UnsignedLimit

chunk == (numberOfNodes - (numberOfNodes % CHUNK_PERCENT)) \div CHUNK_PERCENT

\* A division by zero ends the program, with what it has written still buffered.
Crash ==
  /\ generating' = "crashed"
  /\ edges' = << >>
  /\ UNCHANGED <<argumentVars, source, exclusions, numberOfEdges>>

\* The number of edges of the next source.
BeginSource ==
  /\ generating = "running"
  /\ source < numberOfNodes
  /\ exclusions = << >>
  /\ IF Modulus = 0 THEN Crash
     ELSE /\ exclusions' = <<source>>
          /\ \E random \in 0 .. Modulus - 1 : numberOfEdges' = 1 + random
          /\ UNCHANGED <<argumentVars, source, edges, generating>>

AddEdge ==
  /\ generating = "running"
  /\ exclusions # << >>
  /\ Len(exclusions) <= numberOfEdges
  /\ \E destination \in NextIDs(numberOfNodes, exclusions, UnsignedLimit) :
       /\ exclusions' = Append(exclusions, destination)
       /\ edges' = Append(edges, <<source, destination>>)
  /\ UNCHANGED <<argumentVars, source, numberOfEdges, generating>>

\* Behind the edges of a source comes the report of the progress, which divides by
\* chunk.
EndSource ==
  /\ generating = "running"
  /\ exclusions # << >>
  /\ Len(exclusions) > numberOfEdges
  /\ IF source > 0 /\ chunk = 0 THEN Crash
     ELSE /\ source' = source + 1
          /\ exclusions' = << >>
          /\ UNCHANGED <<argumentVars, numberOfEdges, edges, generating>>

EndGeneration ==
  /\ generating = "running"
  /\ source = numberOfNodes
  /\ generating' = "done"
  /\ UNCHANGED <<argumentVars, source, exclusions, numberOfEdges, edges>>

EdgeListStep == BeginSource \/ AddEdge \/ EndSource \/ EndGeneration

------------------------------------------------------------------------------
(* Properties.                                                             *)

\* How many edges of its source were written up to edge k.
Rank(k) == Cardinality({j \in 1 .. k : edges[j][1] = edges[k][1]})

\* The edges of a vertex lead to other vertices, although the exclusions are not
\* sorted, up to as many as there are other vertices; only those beyond, where the
\* length of the range wraps, may lead elsewhere.  No division by zero ends the
\* program for CHUNK_PERCENT vertices or more, and the file, once complete, gives
\* every vertex an edge.
EdgesJoinVertices ==
  LET nodes == 0 .. numberOfNodes - 1
  IN /\ \A k \in DOMAIN edges : Rank(k) < numberOfNodes =>
          edges[k] \in nodes \X nodes /\ edges[k][1] # edges[k][2]
     /\ generating = "crashed" => numberOfNodes < CHUNK_PERCENT
     /\ generating = "done" => \A v \in nodes : \E k \in DOMAIN edges : edges[k][1] = v
==============================================================================
