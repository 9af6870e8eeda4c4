-------------------------------- MODULE Outbox --------------------------------
(***************************************************************************)
(* What the two pull versions share: a vertex that broadcasts leaves its   *)
(* message in its outbox, and its out-neighbours fetch it from there       *)
(* (combiner_single_broadcast_postamble.h and                              *)
(* combiner_spread_single_broadcast_postamble.h).                          *)
(***************************************************************************)
EXTENDS Engine, InNeighbours

VARIABLES
  in_neighbours,           \* [v]: the in-neighbours of v, one per edge
  has_broadcast_message,   \* [v]: v broadcast in this superstep
  broadcast_message        \* [v]: the message it broadcast last

outboxVars == <<in_neighbours, has_broadcast_message, broadcast_message>>

OutboxTypeOK ==
  /\ in_neighbours \in [Vertices -> Seq(Vertices)]
  /\ has_broadcast_message \in [Vertices -> BOOLEAN]
  /\ broadcast_message \in [Vertices -> Messages \cup {None}]
  /\ \A v \in Vertices : has_broadcast_message[v] => broadcast_message[v] \in Messages

\* The lists of in-neighbours are those of the graph.
InNeighboursKept ==
  in_neighbours = [d \in Vertices |-> InNeighboursOf(out_neighbours, d)]

\* What is in the outbox of v, or None.
Outgoing(v) == IF has_broadcast_message[v] THEN broadcast_message[v] ELSE None

OutboxInit ==
  /\ in_neighbours = [d \in Vertices |-> InNeighboursOf(out_neighbours, d)]
  /\ has_broadcast_message = [v \in Vertices |-> FALSE]
  /\ broadcast_message = Nothing

\* Mutant of FillOutbox: the flag is set even when nothing is broadcast.
FillAlways(v, outcome, flag) ==
  /\ has_broadcast_message' = [has_broadcast_message EXCEPT ![v] = TRUE]
  /\ broadcast_message' = [broadcast_message EXCEPT ![v] =
       IF outcome.message # None THEN outcome.message ELSE @]
  /\ UNCHANGED in_neighbours

\* ip_broadcast, into the outbox of v.  flag is what has_broadcast_message[v] is
\* when ip_compute starts.
FillOutbox(v, outcome, flag) ==
  /\ has_broadcast_message' =
       [has_broadcast_message EXCEPT ![v] = flag \/ outcome.message # None]
  /\ broadcast_message' = [broadcast_message EXCEPT ![v] =
       IF outcome.message # None THEN outcome.message ELSE @]
  /\ UNCHANGED in_neighbours

------------------------------------------------------------------------------
(* ip_fetch_broadcast_messages.                                            *)

\* The positions of the in-neighbours that broadcast.
Broadcasters(v) == Senders(in_neighbours[v], has_broadcast_message)

\* Mutant of FetchedMessage: later messages are not combined.
FirstMessageOnly(v) ==
  broadcast_message[in_neighbours[v][FirstSender(in_neighbours[v], has_broadcast_message)]]

\* What they broadcast, combined.
FetchedMessage(v) == CombinedFrom(in_neighbours[v], has_broadcast_message, broadcast_message)

\* Mutant of Fetch: the mailbox is marked full whatever was found.
FetchAlways(v) ==
  /\ has_message' = [has_message EXCEPT ![v] = TRUE]
  /\ message' = [message EXCEPT ![v] =
       IF Broadcasters(v) = {} THEN @ ELSE FetchedMessage(v)]
  /\ UNCHANGED <<jobVars, value, ip_superstep, historyVars, outboxVars>>

\* The effect on the mailbox of v: a message that was not read is dropped.
Fetch(v) ==
  /\ has_message' = [has_message EXCEPT ![v] = Broadcasters(v) # {}]
  /\ message' = [message EXCEPT ![v] =
       IF Broadcasters(v) = {} THEN @ ELSE FetchedMessage(v)]
  /\ UNCHANGED <<jobVars, value, ip_superstep, historyVars, outboxVars>>
==============================================================================
