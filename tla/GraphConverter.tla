---------------------------- MODULE GraphConverter ----------------------------
(***************************************************************************)
(* graph_converter.cpp and graph_converter_ligra.cpp: the edges are read   *)
(* from the text file of contiguouerASCII, whose first line holds the      *)
(* numbers of vertices and edges that the user gave, and written vertex    *)
(* by vertex.                                                              *)
(***************************************************************************)
EXTENDS Integers, SequencesExt

CONSTANTS
  Headers,     \* pairs of a number of vertices and a number of edges
  Tools        \* the converters that are run: "iPregel", "ligra"

VARIABLES
  tool,
  vertices_count,
  edges_count,
  i,                 \* how many edges were read
  edge,              \* vertex_id and neighbour_id
  all_vertices,      \* [v]: [out_neighbours, in_neighbours]
  converting,        \* "reading", "overflow", "undefined" or "done"
  converted          \* the file written: [lists], and [offsets] for ligra

convertVars ==
  <<tool, vertices_count, edges_count, i, edge, all_vertices, converting, converted>>

ConvertStart ==
  /\ tool \in Tools
  /\ \E h \in Headers : vertices_count = h[1] /\ edges_count = h[2]
  /\ i = 0
  /\ edge = <<0, 0>>
  /\ all_vertices =
       [v \in 0 .. vertices_count - 1 |-> [out_neighbours |-> << >>, in_neighbours |-> << >>]]
  /\ converting = "reading"
  /\ converted = << >>

\* The number of edges read so far decides which line is next; behind the last line
\* the two identifiers keep their values.
NextEdge(lines) == IF i < Len(lines) THEN lines[i + 1] ELSE edge

\* Mutant of ReadEdge: the edge is only put into the list of its source.
ReadEdgeOneSided(lines) ==
  /\ converting = "reading"
  /\ i < edges_count
  /\ edge' = NextEdge(lines)
  /\ IF edge'[1] > vertices_count
     THEN converting' = "overflow" /\ UNCHANGED <<i, all_vertices>>
     ELSE IF edge'[1] = vertices_count \/ edge'[2] >= vertices_count
     THEN converting' = "undefined" /\ UNCHANGED <<i, all_vertices>>
     ELSE /\ all_vertices' = [all_vertices EXCEPT ![edge'[1]].out_neighbours = Append(@, edge'[2])]
          /\ i' = i + 1
          /\ UNCHANGED converting
  /\ UNCHANGED <<tool, vertices_count, edges_count, converted>>

\* An edge is put into the lists of both its ends.  A source beyond the number of
\* vertices is refused; the number itself and any destination are not, and the
\* write is then outside the array.
ReadEdge(lines) ==
  /\ converting = "reading"
  /\ i < edges_count
  /\ edge' = NextEdge(lines)
  /\ IF edge'[1] > vertices_count
     THEN converting' = "overflow" /\ UNCHANGED <<i, all_vertices>>
     ELSE IF edge'[1] = vertices_count \/ edge'[2] >= vertices_count
     THEN converting' = "undefined" /\ UNCHANGED <<i, all_vertices>>
     ELSE /\ all_vertices' =
               [all_vertices EXCEPT ![edge'[1]].out_neighbours = Append(@, edge'[2]),
                                    ![edge'[2]].in_neighbours = Append(@, edge'[1])]
          /\ i' = i + 1
          /\ UNCHANGED converting
  /\ UNCHANGED <<tool, vertices_count, edges_count, converted>>

\* sort, unique and erase.
SortedUnique(list) == SetToSortSeq(ToSet(list), LAMBDA a, b : a < b)

\* graph_converter.cpp writes both lists of every vertex.
WriteLists ==
  /\ tool = "iPregel"
  /\ converting = "reading"
  /\ i = edges_count
  /\ converting' = "done"
  /\ converted' = [v \in DOMAIN all_vertices |->
       [out_neighbours |-> SortedUnique(all_vertices[v].out_neighbours),
        in_neighbours |-> SortedUnique(all_vertices[v].in_neighbours)]]
  /\ UNCHANGED <<tool, vertices_count, edges_count, i, edge, all_vertices>>

\* The number of out-neighbours of the vertices up to v.
PrefixSum(v) == FoldFunctionOnSet(+, 0, [u \in DOMAIN all_vertices |-> Len(all_vertices[u].out_neighbours)], 0 .. v)

\* graph_converter_ligra.cpp writes the sum behind each vertex, which is where its
\* list ends, then the lists of out-neighbours as they were read.
WriteLigra ==
  /\ tool = "ligra"
  /\ converting = "reading"
  /\ i = edges_count
  /\ converting' = "done"
  /\ converted' =
       [offsets |-> [v \in DOMAIN all_vertices |-> PrefixSum(v)],
        lists |-> FlattenSeq([k \in 1 .. vertices_count |-> all_vertices[k - 1].out_neighbours])]
  /\ UNCHANGED <<tool, vertices_count, edges_count, i, edge, all_vertices>>

ConvertStep(lines) == ReadEdge(lines) \/ WriteLists \/ WriteLigra

Converted == converting # "reading"
==============================================================================
