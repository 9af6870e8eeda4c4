----------------------------- MODULE GraphFiles -----------------------------
(***************************************************************************)
(* The files a graph is kept in: .config (the numbers of vertices and of   *)
(* edges), .idx (where the list of each vertex starts) and .adj (the lists *)
(* one behind the other), as ip_load_graph reads them.  The .idx file is a *)
(* sequence of words as wide as a vertex identifier.                       *)
(***************************************************************************)
EXTENDS Integers, SequencesExt

CONSTANTS
  VertexCount,   \* the number of vertices in the .config file
  IdLimit,       \* 2^w for the w bits of a vertex identifier
  None           \* a file or memory that was never written, or was given back

ASSUME VertexCountAssumption ==
  VertexCount \in Nat \ {0} /\ IdLimit \in Nat /\ VertexCount < IdLimit

ASSUME NoneAssumption == None \notin Nat \cup Seq(Nat)

VARIABLES
  graph,   \* history: [v]: the adjacency list of v that the files were written from
  files    \* [edges |-> the second number of .config, idx |-> .idx, adj |-> .adj]

Locations == 0 .. VertexCount - 1

\* The adjacency lists of the first n vertices, one behind the other.
Concatenated(out, n) == FlattenSeq([i \in 1 .. n |-> out[i - 1]])

\* Where the list of v starts.
Offset(out, v) == Len(Concatenated(out, v))

\* The files of a graph, with offsets of one word or of two, the lower one first.
FilesOf(out, words) ==
  [edges |-> Len(Concatenated(out, VertexCount)),
   idx |-> FlattenSeq([i \in 1 .. VertexCount |->
     IF words = 1 THEN <<Offset(out, i - 1)>>
     ELSE <<Offset(out, i - 1) % IdLimit, Offset(out, i - 1) \div IdLimit>>]),
   adj |-> Concatenated(out, VertexCount)]

FilesTypeOK ==
  /\ graph \in [Locations -> Seq(Locations)]
  /\ files \in [edges : Nat \cup {None}, idx : Seq(Nat), adj : Seq(Locations)]
==============================================================================
