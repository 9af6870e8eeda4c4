---------------------------- MODULE VertexProgram ----------------------------
(***************************************************************************)
(* What applications give to iPregel: their types, ip_combine and          *)
(* ip_compute, and the graphs they run on.  What an ip_compute does may    *)
(* depend on all it can read, and on what the model does not show: it is   *)
(* one of a set of results.                                                *)
(***************************************************************************)
EXTENDS Setting, Sequences, Folds

CONSTANTS
  Values,         \* the values of IP_VALUE_TYPE
  Program(_, _, _, _, _, _),
                  \* ip_compute: application, superstep, vertex, its value, its
                  \* message or None, its number of out-neighbours |-> the set of
                  \* [value, message (broadcast, or None), halts, reads] it may do
  Applications,   \* the applications, by name
  Jobs            \* the pairs of an application and a graph it is run on, which
                  \* gives the out-neighbours of every vertex

ASSUME JobsAssumption == Jobs \subseteq Applications \X [Vertices -> Seq(Vertices)]

\* An ip_compute keeps to the types the application declares, whatever it reads.
KeepsTypes(P(_, _, _, _, _)) ==
  \A s \in Nat, v \in Vertices, degree \in Nat :
    \A x \in Values \cup {None}, in \in Messages \cup {None} :
      \A r \in P(s, v, x, in, degree) :
        /\ r.value \in Values \cup {None}
        /\ r.message \in Messages \cup {None}
        /\ r.halts \in BOOLEAN
        /\ r.reads \in BOOLEAN

ProgramTyped ==
  \A app \in Applications :
    KeepsTypes(LAMBDA s, v, x, in, degree : Program(app, s, v, x, in, degree))

\* ip_combine extended to a mailbox that holds nothing.
Merge(a, b) ==
  IF a = None THEN b ELSE IF b = None THEN a ELSE Combine(a, b)

\* An ip_combine for which the order of the messages makes no difference.
OrderFree ==
  /\ \A a, b \in Messages : Combine(a, b) \in Messages
  /\ \A a, b \in Messages : Combine(a, b) = Combine(b, a)
  /\ \A a, b, c \in Messages : Combine(Combine(a, b), c) = Combine(a, Combine(b, c))

\* An edge of graph out leads from u to d.
Leads(out, u, d) == \E i \in DOMAIN out[u] : out[u][i] = d

\* The edges of graph out that lead to d; an edge listed twice counts twice.
EdgesInto(out, d) ==
  {e \in UNION {{u} \X DOMAIN out[u] : u \in Vertices} : out[e[1]][e[2]] = d}

\* A finite set as a sequence, in an arbitrary order.
Enumeration(S) ==
  CHOOSE f \in [1 .. Cardinality(S) -> S] : \A i, j \in DOMAIN f : f[i] = f[j] => i = j

\* The messages that go along the given edges, combined, when every vertex u
\* broadcasts sent[u] (None: u does not broadcast).
CombinedOver(sent, edges) ==
  MapThenFoldSet(Merge, None, LAMBDA e : sent[e[1]], LAMBDA S : CHOOSE e \in S : TRUE, edges)

\* Everything that reaches d.
Received(out, sent, d) == CombinedOver(sent, EdgesInto(out, d))
==============================================================================
