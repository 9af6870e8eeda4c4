----------------------------- MODULE MCGraphLoader -----------------------------
(* Instances of GenerateAndLoad for TLC.                                     *)
EXTENDS GenerateAndLoad

\* The adjacency of a set of edges, every list ascending.
ListsOf(edges) ==
  [v \in Locations |->
     SetToSortSeq({u \in Locations : <<v, u>> \in edges}, LAMBDA a, b : a < b)]

\* Every undirected graph without self-loops.
Undirected ==
  {ListsOf(E \cup {<<e[2], e[1]>> : e \in E}) :
     E \in SUBSET {e \in Locations \X Locations : e[1] < e[2]}}

\* A directed graph with a repeated edge, a self-loop and a vertex without edges.
Awkward == [v \in Locations |-> CASE v = 0 -> <<1, 1, 0>> [] v = 3 -> <<2>> [] OTHER -> << >>]

RingGraph == [v \in Locations |-> <<(v + 1) % VertexCount>>]

\* What the versions of iPregel define: push, pull, pull with targets.
\* The benchmark applications count in 8 bytes, the template in 4.
Push == {"out_ids", "out_count"}
Pull == {"in_ids", "in_count"}
DirectedBuilds ==
  {{"directed", "wide_counts"} \cup Push, {"directed", "wide_counts"} \cup Pull,
   {"directed"} \cup Push \cup Pull}
UndirectedBuilds == {{"wide_counts"} \cup Pull, Push \cup Pull}
CountBuild == {{"directed", "in_count"} \cup Push}

GeneratedBuilds ==
  {{"directed"} \cup Pull, {"directed"} \cup Push \cup Pull,
   {"directed", "wide_counts"} \cup Push}
AllStored == (Undirected \X UndirectedBuilds) \cup ({Awkward, RingGraph} \X DirectedBuilds)
RingCounted == {RingGraph} \X CountBuild
RingPushed == {RingGraph} \X {{"directed"} \cup Push}
==============================================================================
