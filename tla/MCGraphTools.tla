---------------------------- MODULE MCGraphTools ----------------------------
(* Instances of GraphTools for TLC. *)
EXTENDS GraphTools

\* Edges between three vertices with sparse identifiers, in both directions, and a
\* self-loop.
SomeEdges == {<<4, 1>>, <<1, 4>>, <<4, 0>>, <<0, 0>>}

Line(ids, blank) == [ids |-> ids, blank |-> blank]

\* Files of up to three lines that all end in white space, that do not, or of which
\* only the first does; files with an empty line; and binary files.
Texts ==
  {[binary |-> FALSE, lines |-> [k \in DOMAIN file |-> Line(file[k], k <= blanks)]] :
     file \in UNION {[1 .. n -> SomeEdges] : n \in 1 .. 3}, blanks \in {0, 1, 3}}
Gaps ==
  {[binary |-> FALSE, lines |-> <<Line(<< >>, FALSE)>>],
   [binary |-> FALSE, lines |-> <<Line(<<4, 1>>, TRUE), Line(<< >>, FALSE), Line(<<1, 0>>, TRUE)>>]}
Records ==
  {[binary |-> TRUE, lines |-> [k \in DOMAIN file |-> Line(file[k], FALSE)]] :
     file \in [1 .. 3 -> {<<4, 1, 0>>, <<1, 4>>, <<0>>}]}

Files == Texts \cup Gaps \cup Records
GivenNumbers == (2 .. 4) \X (1 .. 4)
Garbage == {0, 9}

\* Three vertices are enough for a chunk that is not zero.
Sizes == {<<2, 0>>, <<2, 1>>, <<3, 0>>, <<3, 2>>, <<3, 3>>, <<4, 2>>}
==============================================================================
