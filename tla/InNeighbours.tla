------------------------------ MODULE InNeighbours ------------------------------
(***************************************************************************)
(* The list of in-neighbours that the pull versions keep for a vertex, and *)
(* the two loops of ip_fetch_broadcast_messages over it, given which       *)
(* vertices have broadcast and what is in their outboxes.                  *)
(***************************************************************************)
EXTENDS VertexProgram

\* The in-neighbours of d in the graph, in the order of an enumeration of edges.
InNeighboursOf(out, d) ==
  LET edges == Enumeration(EdgesInto(out, d))
  IN [i \in DOMAIN edges |-> edges[i][1]]

\* The positions in list of those that have broadcast: what the first loop looks for.
Senders(list, has) == {i \in DOMAIN list : has[list[i]]}

FirstSender(list, has) ==
  CHOOSE i \in Senders(list, has) : \A j \in Senders(list, has) : i <= j

\* The second loop: the message of the first one, combined with the later ones.
CombinedFrom(list, has, box) ==
  LET first == FirstSender(list, has)
      combined[i \in first .. Len(list)] ==
        IF i = first THEN box[list[i]]
        ELSE IF i \in Senders(list, has) THEN Combine(combined[i - 1], box[list[i]])
        ELSE combined[i - 1]
  IN combined[Len(list)]
==============================================================================
