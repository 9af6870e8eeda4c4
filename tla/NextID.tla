------------------------------- MODULE NextID -------------------------------
(* nextID, which the three graph generators share.                           *)
EXTENDS Integers, Sequences, FiniteSetsExt

\* Mutant of SkippingExclusions: the loop is left out.
IgnoringExclusions(exclusions, r, limit) == r

\* What nextID returns when its random number is r: the loop adds 1 to it for
\* every exclusion, in the order they are listed, until one is larger.
SkippingExclusions(exclusions, r, limit) ==
  LET stops == {i \in 0 .. Len(exclusions) - 1 : exclusions[i + 1] > (r + i) % limit}
  IN (r + IF stops = {} THEN Len(exclusions) ELSE Min(stops)) % limit

\* Mutant of NextIDs: the range does not shrink with the exclusions.
NextIDsWide(vertices, exclusions, limit) ==
  {SkippingExclusions(exclusions, r, limit) : r \in 0 .. vertices - 1}

\* What nextID may return for a graph with the given number of vertices; the
\* length of the range is an unsigned number below limit.
NextIDs(vertices, exclusions, limit) ==
  {SkippingExclusions(exclusions, r, limit) :
     r \in 0 .. ((vertices - 1) - Len(exclusions)) % limit}
==============================================================================
