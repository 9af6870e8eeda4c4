----------------------------- MODULE GraphLoader -----------------------------
(***************************************************************************)
(* ip_load_graph (iPregel_postamble.h): the numbers of vertices and edges  *)
(* are read, the threads of a team split the vertices into contiguous      *)
(* chunks, initialise their chunk, read their part of the .idx and of the  *)
(* .adj file, and connect their vertices to the adjacency; for a directed  *)
(* graph one thread then mirrors the edges into in-neighbour lists.  The   *)
(* .adj file is one FILE shared by all.                                    *)
(***************************************************************************)
EXTENDS GraphFiles

CONSTANT ip_thread_count

\* What an application may be called with, whether its IP_NEIGHBOUR_COUNT_TYPE is
\* twice as wide as a vertex identifier, and the IP_NEEDS_ macros that may be defined
\* when it is compiled.
Needs == {"directed", "wide_counts", "out_ids", "out_count", "in_ids", "in_count"}

Threads == 0 .. ip_thread_count - 1

ASSUME ThreadsAssumption == ip_thread_count \in Nat \ {0}

VARIABLES
  build,                \* the application, a subset of Needs
  pc,                   \* [t]: where thread t is in ip_load_graph
  ip_edges_count,
  all_offsets,          \* [v]: where the adjacency list of v starts
  all_out_neighbours,   \* [e]: the adjacency lists, one behind the other
  position,             \* the position of the shared adjacency_file
  critical,             \* the thread in the critical section, or None
  next,                 \* [t]: j, the loop variable of the connection loop
  out_neighbours,       \* [v]: an index into all_out_neighbours, or None
  out_neighbour_count,  \* [v]
  in_neighbours,        \* [v]: of a directed graph, the list built by the mirroring;
                        \* of an undirected one, an index into all_out_neighbours
  in_neighbour_count,   \* [v]
  mirror                \* i and j, the loop variables of the mirroring

sharedVars == <<graph, files, build>>
fileVars == <<ip_edges_count, all_offsets, all_out_neighbours, position, critical>>
outVars == <<out_neighbours, out_neighbour_count>>
inVars == <<in_neighbours, in_neighbour_count>>
loaderVars == <<sharedVars, pc, fileVars, next, outVars, inVars, mirror>>

------------------------------------------------------------------------------
(* The share of a thread.                                                  *)

IsLast(t) == t = ip_thread_count - 1
Chunk == VertexCount \div ip_thread_count
Start(t) == Chunk * t

\* Mutant of ChunkOf: the remainder is forgotten.
ChunkTooSmall(t) == Chunk

ChunkOf(t) == IF IsLast(t) THEN Chunk + (VertexCount % ip_thread_count) ELSE Chunk
End(t) == Start(t) + ChunkOf(t)
Share(t) == Start(t) .. End(t) - 1

\* The last argument of ip_init_vertex_range, in unsigned arithmetic.
LastArgument(t) == (Start(t) + ChunkOf(t) - 1) % IdLimit

\* The part of the .adj file between the offsets of the share and of the next.
EdgeStart(t) == all_offsets[Start(t)]
EdgeEnd(t) == IF IsLast(t) THEN ip_edges_count ELSE all_offsets[End(t)]

\* The words of an offset, and the offset of v as its bytes are read.
Words(b) == IF "wide_counts" \in b THEN 2 ELSE 1
OffsetRead(v) ==
  IF Words(build) = 1 THEN files.idx[v + 1]
  ELSE files.idx[2 * v + 1] + IdLimit * files.idx[2 * v + 2]

LoaderStart ==
  /\ pc = [t \in Threads |-> "config"]
  /\ ip_edges_count = None
  /\ all_offsets = None
  /\ all_out_neighbours = None
  /\ position = 0
  /\ critical = None
  /\ next = [t \in Threads |-> 0]
  /\ out_neighbours = [v \in Locations |-> None]
  /\ out_neighbour_count = [v \in Locations |-> None]
  /\ in_neighbours = [v \in Locations |-> None]
  /\ in_neighbour_count = [v \in Locations |-> None]
  /\ mirror = [i |-> 0, j |-> 0]

Goto(t, label) == pc' = [pc EXCEPT ![t] = label]

\* The end of a parallel region.
Join(from, to) ==
  /\ \A t \in Threads : pc[t] = from
  /\ pc' = [t \in Threads |-> to]
  /\ UNCHANGED <<sharedVars, fileVars, next, outVars, inVars, mirror>>

------------------------------------------------------------------------------
\* tmp_load_graph_config, and the allocation of the offsets and of the edges.
LoadConfig ==
  /\ \A t \in Threads : pc[t] = "config"
  /\ files.edges # None
  /\ pc' = [t \in Threads |-> "init"]
  /\ ip_edges_count' = files.edges
  /\ all_offsets' = [v \in Locations |-> None]
  /\ all_out_neighbours' = [e \in 0 .. files.edges - 1 |-> None]
  /\ UNCHANGED <<sharedVars, position, critical, next, outVars, inVars, mirror>>

\* tmp_init_vertices calls ip_init_vertex_range for the share of t.  A range that
\* leaves ip_all_vertices has no defined behaviour.
InitShare(t) ==
  /\ pc[t] = "init"
  /\ IF LastArgument(t) \in Locations
     THEN /\ Goto(t, "initialised")
          /\ out_neighbour_count' = [v \in Locations |->
               IF v \in Start(t) .. LastArgument(t) THEN 0 ELSE out_neighbour_count[v]]
          /\ in_neighbour_count' = [v \in Locations |->
               IF v \in Start(t) .. LastArgument(t) THEN 0 ELSE in_neighbour_count[v]]
     ELSE /\ Goto(t, "undefined")
          /\ UNCHANGED <<out_neighbour_count, in_neighbour_count>>
  /\ UNCHANGED <<sharedVars, fileVars, next, out_neighbours, in_neighbours, mirror>>

\* tmp_load_graph_offsets: each thread has opened the file for itself.
ReadOffsets(t) ==
  /\ pc[t] = "offsets"
  /\ Words(build) * End(t) <= Len(files.idx)
  /\ Goto(t, "offsets_read")
  /\ all_offsets' = [v \in Locations |->
       IF v \in Share(t) THEN OffsetRead(v) ELSE all_offsets[v]]
  /\ UNCHANGED <<sharedVars, ip_edges_count, all_out_neighbours, position, critical, next, outVars, inVars, mirror>>

\* ip_safe_fread ends the program when the file is too short.
RefuseOffsets(t) ==
  /\ pc[t] = "offsets"
  /\ Words(build) * End(t) > Len(files.idx)
  /\ pc' = [u \in Threads |-> "exit"]
  /\ UNCHANGED <<sharedVars, fileVars, next, outVars, inVars, mirror>>

\* Mutant of Seek: relative to the position another thread left.
SeekFromHere(t) ==
  /\ pc[t] = "edges"
  /\ critical = None
  /\ critical' = t
  /\ position' = position + EdgeStart(t)
  /\ Goto(t, "read")
  /\ UNCHANGED <<sharedVars, ip_edges_count, all_offsets, all_out_neighbours, next, outVars, inVars, mirror>>

\* tmp_load_graph_edges: fseek and fread, in a critical section.
Seek(t) ==
  /\ pc[t] = "edges"
  /\ critical = None
  /\ critical' = t
  /\ position' = EdgeStart(t)
  /\ Goto(t, "read")
  /\ UNCHANGED <<sharedVars, ip_edges_count, all_offsets, all_out_neighbours, next, outVars, inVars, mirror>>

Read(t) ==
  /\ pc[t] = "read"
  /\ LET count == EdgeEnd(t) - EdgeStart(t)
     IN /\ all_out_neighbours' = [e \in DOMAIN all_out_neighbours |->
             IF e \in EdgeStart(t) .. EdgeEnd(t) - 1
             THEN files.adj[position + e - EdgeStart(t) + 1]
             ELSE all_out_neighbours[e]]
        /\ position' = position + count
  /\ critical' = None
  /\ Goto(t, "first")
  /\ UNCHANGED <<sharedVars, ip_edges_count, all_offsets, next, outVars, inVars, mirror>>

\* A field of vertex v is assigned, if the application has it.
Assign(field, v, x, needed) == IF needed THEN [field EXCEPT ![v] = x] ELSE field

\* The list of v starts at entry e: that of its in-neighbours too, if the graph is
\* undirected.
ConnectLists(v, e) ==
  /\ out_neighbours' = Assign(out_neighbours, v, e, "out_ids" \in build)
  /\ in_neighbours' =
       Assign(in_neighbours, v, e, "in_ids" \in build /\ "directed" \notin build)

CountNeighbours(v, n) ==
  /\ out_neighbour_count' = Assign(out_neighbour_count, v, n, "out_count" \in build)
  /\ in_neighbour_count' =
       Assign(in_neighbour_count, v, n, "in_count" \in build /\ "directed" \notin build)

\* The first thread connects its first vertex ahead of the loop.
ConnectFirst(t) ==
  /\ pc[t] = "first"
  /\ Goto(t, "connect")
  /\ next' = [next EXCEPT ![t] = IF t = 0 THEN 1 ELSE Start(t)]
  /\ IF t = 0 THEN ConnectLists(0, 0) ELSE UNCHANGED <<out_neighbours, in_neighbours>>
  /\ UNCHANGED <<sharedVars, fileVars, out_neighbour_count, in_neighbour_count, mirror>>

\* An iteration: it sets the count of the vertex before, which belongs to the
\* previous thread when the vertex is the first one of the share.
Connect(t) ==
  /\ pc[t] = "connect"
  /\ next[t] < End(t)
  /\ ConnectLists(next[t], all_offsets[next[t]])
  /\ CountNeighbours(next[t] - 1, all_offsets[next[t]] - all_offsets[next[t] - 1])
  /\ next' = [next EXCEPT ![t] = @ + 1]
  /\ UNCHANGED <<sharedVars, pc, fileVars, mirror>>

\* Mutant of ConnectLast: the share is taken for the last one.
ConnectToEnd(t) ==
  /\ pc[t] = "connect"
  /\ next[t] = End(t)
  /\ CountNeighbours(next[t] - 1, ip_edges_count - all_offsets[next[t] - 1])
  /\ Goto(t, "connected")
  /\ UNCHANGED <<sharedVars, fileVars, next, out_neighbours, in_neighbours, mirror>>

\* Behind the loop: the count of the last vertex of the share.
ConnectLast(t) ==
  /\ pc[t] = "connect"
  /\ next[t] = End(t)
  /\ CountNeighbours(next[t] - 1, EdgeEnd(t) - all_offsets[next[t] - 1])
  /\ Goto(t, "connected")
  /\ UNCHANGED <<sharedVars, fileVars, next, out_neighbours, in_neighbours, mirror>>

------------------------------------------------------------------------------
(* The mirroring of a directed graph, by one thread.                       *)

Mirroring == {"directed", "in_ids"} \subseteq build /\ \A t \in Threads : pc[t] = "mirror"

MirrorEnd(i) == IF i = VertexCount - 1 THEN ip_edges_count ELSE all_offsets[i + 1]

\* One edge: its source joins the in-neighbours of its destination.
MirrorEdge ==
  /\ Mirroring
  /\ mirror.j < MirrorEnd(mirror.i)
  /\ LET dest == all_out_neighbours[mirror.j]
     IN /\ in_neighbours' = [in_neighbours EXCEPT ![dest] = Append(IF @ = None THEN << >> ELSE @, mirror.i)]
        /\ in_neighbour_count' = [in_neighbour_count EXCEPT ![dest] = @ + 1]
  /\ mirror' = [mirror EXCEPT !.j = @ + 1]
  /\ UNCHANGED <<sharedVars, pc, fileVars, next, outVars>>

\* Mutant of MirrorNextVertex: i is not incremented.
MirrorSameVertex ==
  /\ Mirroring
  /\ mirror.j = MirrorEnd(mirror.i)
  /\ mirror.i < VertexCount - 1
  /\ UNCHANGED loaderVars

MirrorNextVertex ==
  /\ Mirroring
  /\ mirror.j = MirrorEnd(mirror.i)
  /\ mirror.i < VertexCount - 1
  /\ mirror' = [i |-> mirror.i + 1, j |-> all_offsets[mirror.i + 1]]
  /\ UNCHANGED <<sharedVars, pc, fileVars, next, outVars, inVars>>

\* An undirected graph needs no mirroring; without IP_NEEDS_IN_NEIGHBOUR_IDS the
\* code of it is not compiled.
EndMirror ==
  /\ Mirroring => mirror = [i |-> VertexCount - 1, j |-> ip_edges_count]
  /\ Join("mirror", "free")

\* An array that was given back.
Freed(array) == [k \in DOMAIN array |-> None]

\* Mutant of FreeMemory: undirected graphs too.
FreeAlways ==
  /\ \A t \in Threads : pc[t] = "free"
  /\ pc' = [t \in Threads |-> "loaded"]
  /\ all_out_neighbours' =
       IF "out_ids" \notin build THEN Freed(all_out_neighbours) ELSE all_out_neighbours
  /\ all_offsets' = IF "out_count" \notin build THEN Freed(all_offsets) ELSE all_offsets
  /\ UNCHANGED <<sharedVars, ip_edges_count, position, critical, next, outVars, inVars, mirror>>

\* tmp_load_graph_free_memory: what only the mirroring of a directed graph needed.
FreeMemory ==
  /\ \A t \in Threads : pc[t] = "free"
  /\ pc' = [t \in Threads |-> "loaded"]
  /\ all_out_neighbours' =
       IF "directed" \in build /\ "out_ids" \notin build
       THEN Freed(all_out_neighbours) ELSE all_out_neighbours
  /\ all_offsets' =
       IF "directed" \in build /\ "out_count" \notin build THEN Freed(all_offsets) ELSE all_offsets
  /\ UNCHANGED <<sharedVars, ip_edges_count, position, critical, next, outVars, inVars, mirror>>

Loaded == \A t \in Threads : pc[t] = "loaded"
Refused == \A t \in Threads : pc[t] = "exit"

ThreadStep(t) ==
  \/ InitShare(t) \/ ReadOffsets(t) \/ RefuseOffsets(t) \/ Seek(t) \/ Read(t)
  \/ ConnectFirst(t) \/ Connect(t) \/ ConnectLast(t)

MasterStep ==
  \/ LoadConfig
  \/ Join("initialised", "offsets") \/ Join("offsets_read", "edges")
  \/ Join("connected", "mirror")
  \/ MirrorEdge \/ MirrorNextVertex \/ EndMirror
  \/ FreeMemory

------------------------------------------------------------------------------
(* Properties.                                                             *)

PCs == {"config", "init", "undefined", "initialised", "offsets", "offsets_read", "edges",
        "read", "first", "connect", "connected", "mirror", "free", "loaded", "exit"}

LoaderTypeOK ==
  /\ build \in SUBSET Needs
  /\ pc \in [Threads -> PCs]
  /\ ip_edges_count \in Nat \cup {None}
  /\ all_offsets = None \/ all_offsets \in [Locations -> Nat \cup {None}]
  /\ \/ all_out_neighbours = None
     \/ all_out_neighbours \in [0 .. ip_edges_count - 1 -> Locations \cup {None}]
  /\ position \in 0 .. IF ip_edges_count = None THEN 0 ELSE ip_edges_count
  /\ critical \in Threads \cup {None}
  /\ next \in [Threads -> 0 .. VertexCount]
  /\ out_neighbours \in [Locations -> Nat \cup {None}]
  /\ out_neighbour_count \in [Locations -> Nat \cup {None}]
  /\ in_neighbour_count \in [Locations -> Nat \cup {None}]
  /\ mirror.i \in Locations /\ mirror.j \in Nat

\* The n entries of all_out_neighbours from e on.
Entries(e, n) == [k \in 1 .. n |-> all_out_neighbours[e + k - 1]]

\* When the graph is loaded, every vertex has exactly the adjacency list that the
\* files were written from: the shares of the threads cover the vertices and the
\* edges without a gap, whatever the remainder, empty lists and the order in which
\* the threads seek and read.
LoadsGraph ==
  Loaded => \A v \in Locations :
    /\ "out_count" \in build => out_neighbour_count[v] = Len(graph[v])
    /\ "out_ids" \in build => Entries(out_neighbours[v], Len(graph[v])) = graph[v]

InList(v) ==
  IF "directed" \notin build THEN Entries(in_neighbours[v], in_neighbour_count[v])
  ELSE IF in_neighbours[v] = None THEN << >> ELSE in_neighbours[v]

Occurrences(x, list) == Cardinality({k \in DOMAIN list : list[k] = x})

\* When the graph is loaded, directed or not, the in-neighbours of a vertex are the
\* sources of the edges that lead to it, one per edge, the count agrees with the
\* list, and the list is not in memory that was given back.
MirrorsEdges ==
  Loaded /\ "in_ids" \in build => \A v \in Locations :
    /\ in_neighbour_count[v] = Len(InList(v))
    /\ \A u \in Locations : Occurrences(u, InList(v)) = Occurrences(v, graph[u])

\* The count of the last vertex of a share is written by two threads without
\* protection; both write the same number, so once it is set it never changes.
CountsAgree ==
  [][\A v \in Locations :
       out_neighbour_count[v] \notin {0, None} =>
         out_neighbour_count'[v] = out_neighbour_count[v]]_loaderVars

\* Every thread joins every region: the graph gets loaded.  But an application that
\* reads wider offsets than the generator writes ends before it uses one of them.
Loads ==
  <>(IF Len(files.idx) = Words(build) * VertexCount THEN Loaded ELSE Refused)

\* ip_init_vertex_range's parameter last is "the ID of the last vertex to
\* initialise": it is the identifier of a vertex.
InitialisesVertices == \A t \in Threads : pc[t] # "undefined"

\* in_neighbour_count "contains the number of in-neighbours", whichever of the
\* needs are defined.
CountsInNeighbours ==
  Loaded /\ {"directed", "in_count"} \subseteq build => \A v \in Locations :
    in_neighbour_count[v] = Cardinality({e \in DOMAIN files.adj : files.adj[e] = v})
==============================================================================
