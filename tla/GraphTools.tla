----------------------------- MODULE GraphTools -----------------------------
(***************************************************************************)
(* The programs that prepare graphs: the generator of edge lists, and the  *)
(* chain that makes a graph with arbitrary identifiers ready, where a      *)
(* converter reads what contiguouerASCII has written.                      *)
(***************************************************************************)
EXTENDS EdgeListGenerator, Contiguouer, GraphConverter

VARIABLE running   \* "generator" or "chain"

vars == <<running, edgeListVars, renumberVars, convertVars>>

\* An argument of a program that is not run.
Unused(x, S) == x = CHOOSE y \in S : TRUE

Init ==
  /\ GenerateStart /\ RenumberStart /\ ConvertStart
  /\ \/ /\ running = "generator"
        /\ Unused(input, Inputs) /\ Unused(<<src, dest>>, Uninitialised \X Uninitialised)
        /\ Unused(tool, Tools) /\ Unused(<<vertices_count, edges_count>>, Headers)
     \/ /\ running = "chain"
        /\ Unused(argumentVars, Arguments)

Generate ==
  /\ running = "generator"
  /\ EdgeListStep
  /\ UNCHANGED <<running, renumberVars, convertVars>>

RenumberNext ==
  /\ running = "chain"
  /\ RenumberStep
  /\ UNCHANGED <<running, edgeListVars, convertVars>>

Convert ==
  /\ running = "chain"
  /\ Renumbered /\ ~input.binary
  /\ ConvertStep(output)
  /\ UNCHANGED <<running, edgeListVars, renumberVars>>

Finished ==
  \/ running = "generator" /\ generating # "running"
  \/ running = "chain" /\ Renumbered /\ (input.binary \/ Converted)

Next == Generate \/ RenumberNext \/ Convert \/ (Finished /\ UNCHANGED vars)

Spec == Init /\ [][Next]_vars

------------------------------------------------------------------------------
(* Properties.                                                             *)

TypeOK ==
  /\ source \in 0 .. numberOfNodes /\ exclusions \in Seq(Nat) /\ numberOfEdges \in Nat
  /\ edges \in Seq(Nat \X Nat)
  /\ generating \in {"running", "crashed", "done"}
  /\ nextAvailableId = Cardinality(DOMAIN idHashmap)
  /\ src \in Nat /\ dest \in Nat /\ good \in BOOLEAN
  /\ output \in Seq(Seq(Nat))
  /\ i \in 0 .. edges_count
  /\ \A v \in DOMAIN all_vertices :
       /\ all_vertices[v].out_neighbours \in Seq(DOMAIN all_vertices)
       /\ all_vertices[v].in_neighbours \in Seq(DOMAIN all_vertices)
  /\ converting \in {"reading", "overflow", "undefined", "done"}

\* The k-th edge that the user gave to the chain, as the contiguous file names it: a
\* line under the new identifiers or, when the stream did not read the line, what was
\* written in its place.  Behind the last line comes the last one again.
Given(k) ==
  LET line == Min({k, Len(input.lines)})
      ids == input.lines[line].ids
  IN IF Readable(line) THEN <<idHashmap[ids[1]], idHashmap[ids[2]]>> ELSE output[line]

EdgesFrom(U) == {k \in 1 .. edges_count : Given(k)[1] \in U}
CopiesGiven(a, b) == Cardinality({k \in EdgesFrom({a}) : Given(k)[2] = b})

\* The lists for ligra lie one behind the other, in the order of the vertices.
Block(v) ==
  LET start == Cardinality(EdgesFrom(0 .. v - 1))
  IN SubSeq(converted.lists, start + 1, start + Cardinality(EdgesFrom({v})))

Copies(list, v) == Cardinality({k \in DOMAIN list : list[k] = v})

\* The chain ends in bounds exactly when the number of vertices given is at least
\* that of the identifiers in the lines the converter reads, although it checks
\* the source with an off-by-one and the destination not at all; and the converted
\* file then has the edges given and no others: for iPregel once in the lists of both
\* ends, for ligra in the source's part of the lists as often as they were read, the
\* last line again for every edge that the number of edges promises beyond the lines.
ConvertsGraph ==
  running = "chain" /\ Renumbered /\ ~input.binary /\ Converted =>
    /\ converting = "done" <=>
         Cardinality(UNION {ToSet(Given(k)) : k \in 1 .. edges_count}) <= vertices_count
    /\ converting = "done" => \A a, b \in DOMAIN all_vertices :
         /\ tool = "iPregel" =>
              LET once == IF CopiesGiven(a, b) > 0 THEN 1 ELSE 0
              IN /\ Copies(converted[a].out_neighbours, b) = once
                 /\ Copies(converted[b].in_neighbours, a) = once
         /\ tool = "ligra" => Copies(Block(a), b) = CopiesGiven(a, b)
==============================================================================
