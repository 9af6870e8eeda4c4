-------------------------------- MODULE Apps --------------------------------
(***************************************************************************)
(* The three applications of benchmarks/ and an arbitrary one, as          *)
(* instances of Program, and what their results are in terms of the graph. *)
(***************************************************************************)
EXTENDS VertexProgram

CONSTANTS
  start_vertex,   \* sssp.c: the source
  UINT_MAX,       \* sssp.c: the distance of a vertex that was not reached
  ROUND,          \* pagerank.c: the supersteps that broadcast; bound of AnyCompute
  One             \* pagerank.c: fixed point representation of 1.0

N == Cardinality(Vertices)

\* The one thing an ip_compute without choice does.
Result(value, message, halts, reads) ==
  {[value |-> value, message |-> message, halts |-> halts, reads |-> reads]}

\* ip_combine of cc.c and sssp.c.
MinCombine(a, b) == IF a > b THEN b ELSE a

\* ip_combine of pagerank.c.  The ranks add up to at most 1.0: the bound is never
\* reached, it only keeps the set of messages finite.
SumCombine(a, b) == IF a + b > One THEN One ELSE a + b

\* The smallest of the value and the message, if there is one.
Improved(value, in) == IF in # None /\ value > in THEN in ELSE value

\* ip_compute of cc.c: propagate the smallest identifier seen.
CCCompute(s, v, value, in, degree) ==
  IF s = 0 THEN Result(v, v, TRUE, FALSE)
  ELSE LET new == Improved(value, in)
       IN Result(new, IF new # value THEN new ELSE None, TRUE, TRUE)

\* Mutant of SSSPCompute: the distance is broadcast without the edge.
SSSPNoEdge(s, v, value, in, degree) ==
  IF s = 0
  THEN IF v = start_vertex THEN Result(0, 1, TRUE, FALSE)
                           ELSE Result(UINT_MAX, None, TRUE, FALSE)
  ELSE LET m_initial == Improved(UINT_MAX, in)
       IN IF m_initial < value THEN Result(m_initial, m_initial, TRUE, TRUE)
                               ELSE Result(value, None, TRUE, TRUE)

\* ip_compute of sssp.c: propagate the distance from the source.
SSSPCompute(s, v, value, in, degree) ==
  IF s = 0
  THEN IF v = start_vertex THEN Result(0, 1, TRUE, FALSE)
                           ELSE Result(UINT_MAX, None, TRUE, FALSE)
  ELSE LET m_initial == Improved(UINT_MAX, in)
       IN IF m_initial < value THEN Result(m_initial, m_initial + 1, TRUE, TRUE)
                               ELSE Result(value, None, TRUE, TRUE)

\* The rank pagerank.c computes from the sum of the messages, in fixed point: every
\* quotient is rounded down.
Rank(s, in) ==
  LET sum == IF in = None THEN 0 ELSE in
  IN IF s = 0 THEN One \div N
     ELSE ((15 * One) \div (100 * N)) + ((85 * sum) \div 100)

\* ip_compute of pagerank.c: share the rank among the neighbours.
PageRankCompute(s, v, value, in, degree) ==
  LET shares == s < ROUND /\ degree > 0
  IN Result(Rank(s, in), IF shares THEN Rank(s, in) \div degree ELSE None,
            s >= ROUND, s # 0)

\* What an arbitrary ip_compute may do: read its message or not, broadcast or not,
\* vote to halt or not.  Its value is what it read last; its messages tell who sent
\* them.
FreeResults(v, value, in) ==
  {[value |-> IF reads THEN in ELSE value, message |-> message,
    halts |-> halts, reads |-> reads] :
      message \in {None, v + 1}, halts \in BOOLEAN, reads \in BOOLEAN}

\* An ip_compute that does what it likes before superstep ROUND.
AnyCompute(s, v, value, in, degree) ==
  IF s >= ROUND THEN Result(in, None, TRUE, TRUE) ELSE FreeResults(v, value, in)

\* The applications by name.
Run(application, s, v, value, in, degree) ==
  CASE application = "cc" -> CCCompute(s, v, value, in, degree)
    [] application = "sssp" -> SSSPCompute(s, v, value, in, degree)
    [] application = "pagerank" -> PageRankCompute(s, v, value, in, degree)
    [] application = "any" -> AnyCompute(s, v, value, in, degree)

------------------------------------------------------------------------------
(* References the results are compared with.                               *)

\* The vertices that paths of at most k edges of graph out lead to from v.
Within(out, v) ==
  LET within[k \in Nat] ==
        IF k = 0 THEN {v}
        ELSE within[k - 1] \cup
               UNION {{out[u][i] : i \in DOMAIN out[u]} : u \in within[k - 1]}
  IN within

\* The least identifier of the connected component of v (undirected graphs).
ComponentLabel(out, v) ==
  CHOOSE u \in Within(out, v)[N] : \A w \in Within(out, v)[N] : u <= w

\* The number of edges of a shortest path from vertex source to v.
DistanceFrom(out, source, v) ==
  IF v \notin Within(out, source)[N] THEN UINT_MAX
  ELSE CHOOSE k \in 0 .. N :
         /\ v \in Within(out, source)[k]
         /\ \A j \in 0 .. k - 1 : v \notin Within(out, source)[j]

Distance(out, v) == DistanceFrom(out, start_vertex, v)

------------------------------------------------------------------------------
(* What is supposed of the applications where their results are proved.    *)

\* Every edge is in the lists of both its ends.
Undirected(out) == \A u, v \in Vertices : Leads(out, u, v) => Leads(out, v, u)

\* Messages are numbers and ip_combine keeps the smaller one.
CombinesLeast ==
  /\ Messages \subseteq Nat /\ Messages \subseteq Values
  /\ \A a, b \in Messages : Combine(a, b) = MinCombine(a, b)

\* An application is the given ip_compute.
Is(app, P(_, _, _, _, _)) ==
  \A s \in Nat, v \in Vertices, degree \in Nat :
    \A x \in Values \cup {None}, in \in Messages \cup {None} :
      Program(app, s, v, x, in, degree) = P(s, v, x, in, degree)

\* cc.c runs on undirected graphs, with identifiers for messages.
RunsCC ==
  /\ CombinesLeast
  /\ Is("cc", CCCompute)
  /\ Vertices \subseteq Messages
  /\ \A job \in Jobs : job[1] = "cc" => Undirected(job[2])

\* sssp.c runs from a vertex of the graph, whose paths are shorter than UINT_MAX;
\* distances are messages.
RunsSSSP ==
  /\ CombinesLeast
  /\ Is("sssp", SSSPCompute)
  /\ start_vertex \in Vertices
  /\ UINT_MAX \in Nat /\ UINT_MAX \in Values /\ N <= UINT_MAX
  /\ 0 \in Values /\ 1 .. UINT_MAX \subseteq Messages
==============================================================================
