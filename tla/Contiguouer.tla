----------------------------- MODULE Contiguouer -----------------------------
(***************************************************************************)
(* contiguouerASCII.cpp and contiguouer.cpp: the identifiers of a graph    *)
(* are replaced by 0, 1, 2, ... in the order they are first met.  The      *)
(* former reads a text file of edges, one per line; the latter a binary    *)
(* file of records, a vertex and its neighbours.                           *)
(***************************************************************************)
EXTENDS Integers, SequencesExt

CONSTANTS
  Inputs,        \* the files: [binary |-> BOOLEAN, lines |-> Seq([ids, blank])], where
                 \* ids are the numbers of a line or record, << >> for an empty line
                 \* behind the header, and blank tells that white space follows them
  Uninitialised  \* the values src and dest may have before they are assigned

VARIABLES
  input,
  position,     \* the next line
  idHashmap,    \* the identifiers met |-> the contiguous ones
  nextAvailableId,
  src, dest,
  good,         \* contiguouerASCII: the state of ss3, which str does not reset
  output        \* the lines written, sequences of identifiers

readerVars == <<input, position, src, dest, good>>
renumberVars == <<readerVars, idHashmap, nextAvailableId, output>>

RenumberStart ==
  /\ input \in Inputs
  /\ position = 1
  /\ idHashmap = << >>
  /\ nextAvailableId = 0
  /\ src \in Uninitialised
  /\ dest \in Uninitialised
  /\ good = TRUE
  /\ output = << >>

\* Mutant of Register: the identifier goes into the table, the counter stays.
RegisterUncounted(table, id) ==
  IF id \in DOMAIN table.ids THEN table
  ELSE [ids |-> table.ids @@ (id :> table.next), next |-> table.next]

\* getContiguousId: a new identifier gets the next available one.
Register(table, id) ==
  IF id \in DOMAIN table.ids THEN table
  ELSE [ids |-> table.ids @@ (id :> table.next), next |-> table.next + 1]

\* The identifiers of a line are registered in order and replaced.
Renumber(ids) ==
  LET table == FoldLeft(Register, [ids |-> idHashmap, next |-> nextAvailableId], ids)
  IN /\ idHashmap' = table.ids
     /\ nextAvailableId' = table.next
     /\ output' = Append(output, [k \in DOMAIN ids |-> table.ids[ids[k]]])

\* A line of text: ss3 reads the two identifiers into src and dest, unless it came
\* to the end of an earlier line; then both keep their contiguous identifiers.
RenumberLine ==
  /\ ~input.binary
  /\ position <= Len(input.lines)
  /\ LET line == input.lines[position]
         read == good /\ line.ids # << >>
     IN /\ Renumber(IF read THEN line.ids ELSE <<src, dest>>)
        /\ good' = (read /\ line.blank)
  /\ src' = output'[position][1]
  /\ dest' = output'[position][2]
  /\ position' = position + 1
  /\ UNCHANGED input

\* A binary record: the vertex, then its neighbours.
RenumberRecord ==
  /\ input.binary
  /\ position <= Len(input.lines)
  /\ Renumber(input.lines[position].ids)
  /\ position' = position + 1
  /\ UNCHANGED <<input, src, dest, good>>

RenumberStep == RenumberLine \/ RenumberRecord

Renumbered == position > Len(input.lines)

------------------------------------------------------------------------------
(* Properties.                                                             *)

\* Nothing but white space is behind the identifiers of the lines before line i:
\* the stream is still good when line i is read.
Readable(i) ==
  \A k \in 1 .. i : input.lines[k].ids # << >> /\ (k < i => input.binary \/ input.lines[k].blank)

\* The places of identifiers in the lines that were read while the stream was good.
Places ==
  UNION {{i} \X DOMAIN output[i] : i \in {k \in DOMAIN output : Readable(k)}}
Before(p) == input.lines[p[1]].ids[p[2]]
After(p) == output[p[1]][p[2]]

\* Up to the first line that does not end in white space, two identifiers are equal
\* in the output exactly when they are in the input: the graph keeps its shape.
\* Those lines get the identifiers 0 up to their number minus one, and the whole file
\* has contiguous identifiers too, also when the lines that follow were not read and
\* src and dest, which are new identifiers already, were renumbered again.
RenumbersGraph ==
  /\ \A p, q \in Places : After(p) = After(q) <=> Before(p) = Before(q)
  /\ {After(p) : p \in Places} = 0 .. Cardinality({Before(p) : p \in Places}) - 1
  /\ UNION {ToSet(output[k]) : k \in DOMAIN output} = 0 .. nextAvailableId - 1
==============================================================================
