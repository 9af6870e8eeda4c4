------------------------------ MODULE GraphSets ------------------------------
(* Sets of small graphs, and the constants of the applications, for TLC.     *)
EXTENDS Apps, SequencesExt

Ascending(S) == SetToSortSeq(S, LAMBDA a, b : a < b)

\* The adjacency lists of a graph given by its set of edges, in both directions
\* for an undirected graph; every list is ascending.
AdjacencyOf(edges) ==
  [v \in Vertices |-> Ascending({u \in Vertices : <<v, u>> \in edges})]

AllPairs == {e \in Vertices \X Vertices : e[1] < e[2]}

\* Every undirected graph on Vertices.
AllUndirected == {AdjacencyOf(E \cup {<<e[2], e[1]>> : e \in E}) : E \in SUBSET AllPairs}

\* Every directed graph on Vertices without self-loops.
AllDirected ==
  {AdjacencyOf(E) : E \in SUBSET {e \in Vertices \X Vertices : e[1] # e[2]}}

\* The connected ones.
Connected == {g \in AllUndirected : \A v \in Vertices : Within(g, v)[N] = Vertices}

UpTo3 == 0 .. 2
Ids == 0 .. N
Ranks == 0 .. One
Distances == 0 .. N \cup {UINT_MAX}

\* The directed ring through all vertices.
Ring == {[v \in Vertices |-> <<(v + 1) % N>>]}

\* Two vertices that both lead to vertex 0 (in-degree 2).
Star == {[v \in Vertices |-> IF v = 0 THEN <<1>> ELSE <<0>>]}

\* Undirected graphs in which an edge is listed twice, or a vertex is isolated.
SmallMultigraphs ==
  {[v \in Vertices |-> CASE v = 0 -> <<1, 1>> [] v = 1 -> <<0, 0, 2>> [] OTHER -> <<1>>],
   [v \in Vertices |-> CASE v = 0 -> <<1>> [] v = 1 -> <<0>> [] OTHER -> << >>]}

\* Two vertices that lead to each other and a third one that leads to one of them.
Pair == {[v \in Vertices |-> CASE v = 0 -> <<1>> [] v = 1 -> <<0>> [] OTHER -> <<1>>]}

\* The jobs of the runs.
CCJobs == {"cc"} \X Connected
SSSPJobs == {"sssp"} \X AllDirected
AnyJobs == {"any"} \X Pair
PageRankLoss == {"pagerank"} \X Star
PageRankJobs == {"pagerank"} \X (Ring \cup SmallMultigraphs)
AnyAndCCJobs == AnyJobs \cup CCJobs
AnyAndSSSPJobs == AnyJobs \cup SSSPJobs
AnyAndPageRankJobs == AnyJobs \cup PageRankJobs
==============================================================================
