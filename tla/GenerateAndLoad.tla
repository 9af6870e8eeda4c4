--------------------------- MODULE GenerateAndLoad ---------------------------
(***************************************************************************)
(* A graph comes from graph_generator_ligra.cpp or has been written by     *)
(* another tool; then iPregel loads it.                                    *)
(***************************************************************************)
EXTENDS LigraGenerator, GraphLoader

CONSTANTS
  Stored,   \* pairs of a graph that is in files already and an application
  Builds    \* the applications that load the graphs of the generator

\* The mirroring counts what it lists: it only compiles with the count.
ProperBuild(b) == b \subseteq Needs /\ ("in_ids" \in b => "in_count" \in b)

\* An undirected graph has every edge in the lists of both its ends, which is what
\* makes one list per vertex enough.
Symmetric(out) ==
  \A u, v \in Locations : Occurrences(u, out[v]) = Occurrences(v, out[u])

\* What is in files is lists of vertices, with offsets that fit in their words.
ASSUME StoredAssumption ==
  \A s \in Stored :
    /\ s \in [Locations -> Seq(Locations)] \X SUBSET Needs
    /\ ProperBuild(s[2])
    /\ Offset(s[1], VertexCount) < IF Words(s[2]) = 1 THEN IdLimit ELSE IdLimit * IdLimit
    /\ "directed" \notin s[2] => Symmetric(s[1])

\* The generator draws directed graphs, and its offsets fit in one word.
ASSUME GeneratorAssumption ==
  /\ MaxOutDegrees \subseteq Nat
  /\ EdgeBound \in 0 .. IdLimit - 1
  /\ \A b \in Builds : ProperBuild(b) /\ "directed" \in b

vars == <<generatorVars, loaderVars>>

Init ==
  /\ GeneratorStart
  /\ LoaderStart
  /\ \/ NoFiles /\ build \in Builds
     \/ \E s \in Stored : graph = s[1] /\ files = FilesOf(s[1], Words(s[2])) /\ build = s[2]

Generate ==
  /\ ~Generated
  /\ GeneratorStep
  /\ UNCHANGED <<build, pc, fileVars, next, outVars, inVars, mirror>>

Load(t) == ThreadStep(t) /\ UNCHANGED generatorVars
LoadTogether == MasterStep /\ UNCHANGED generatorVars

Next ==
  \/ Generate
  \/ \E t \in Threads : Load(t)
  \/ LoadTogether
  \/ (Loaded \/ Refused) /\ UNCHANGED vars

Spec == Init /\ [][Next]_vars

\* The generator, the threads and the master thread keep running.
FairSpec ==
  /\ Spec
  /\ WF_vars(Generate)
  /\ WF_vars(LoadTogether)
  /\ \A t \in Threads : WF_vars(Load(t))

TypeOK == FilesTypeOK /\ GeneratorTypeOK /\ LoaderTypeOK
==============================================================================
