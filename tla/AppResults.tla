------------------------------ MODULE AppResults ------------------------------
(* What the applications have computed when ip_run is over.                  *)
EXTENDS Engine, Apps

\* When ip_run returns, cc.c has labelled every vertex with the least identifier
\* of its component.
CCResult ==
  Terminated /\ application = "cc" =>
    \A v \in Vertices : value[v] = ComponentLabel(out_neighbours, v)

\* When ip_run returns, sssp.c has labelled every vertex with its distance from
\* the source.
SSSPResult ==
  Terminated /\ application = "sssp" =>
    \A v \in Vertices : value[v] = Distance(out_neighbours, v)
==============================================================================
