------------------------------ MODULE Broadcasts ------------------------------
(***************************************************************************)
(* ip_broadcast of the push versions (combiner_postamble.h,                *)
(* combiner_spread_postamble.h): a loop that calls ip_send_message for     *)
(* each out-neighbour, on top of the mailboxes.                            *)
(***************************************************************************)
EXTENDS Engine, Mailbox

VARIABLE
  broadcast   \* [t]: the broadcast t is in: the message and who is left

NoBroadcast == [message |-> None, to |-> << >>]

\* Thread t begins what ip_compute broadcasts for v with the given outcome.
StartBroadcast(t, v, outcome) ==
  broadcast' = [broadcast EXCEPT ![t] =
    IF outcome.message = None THEN NoBroadcast
    ELSE [message |-> outcome.message, to |-> out_neighbours[v]]]

\* The loop of ip_broadcast calls ip_send_message for the next out-neighbour.
SendToNext(t) ==
  /\ pc[t] = "send"
  /\ broadcast[t].to # << >>
  /\ SendMessage(t, Head(broadcast[t].to), broadcast[t].message)
  /\ broadcast' = [broadcast EXCEPT ![t].to = Tail(@)]

EndBroadcast(t) ==
  /\ Move(t, "send", "compute")
  /\ send[t] = Idle
  /\ broadcast[t].to = << >>
  /\ broadcast' = [broadcast EXCEPT ![t] = NoBroadcast]

------------------------------------------------------------------------------
(* What is true of broadcasts while the threads are in the compute loop.   *)

ComputeLabels == {"compute", "send", "compute_done"}

\* ip_send_message is called from the compute loop only.
SendsInLoop == \A t \in Threads : send[t] = Idle \/ pc[t] = "send"

\* A broadcast with neighbours left has a message to send.
BroadcastHasMessage ==
  \A t \in Threads : broadcast[t].to # << >> => broadcast[t].message \in Messages

\* What the mailbox of d holds.
Arrived(d) == IF has_message_next[d] THEN message_next[d] ELSE None

\* Thread t is in the broadcast of u: it has the end of u's list before it, and the
\* message on its way is for the neighbour ahead of that end.
Sending(t) == pc[t] = "send" /\ broadcast[t].message # None
Reached(t, u) == Len(out_neighbours[u]) - Len(broadcast[t].to)
BroadcastsFor(t, u) ==
  /\ sent[u] = broadcast[t].message
  /\ Reached(t, u) >= 0
  /\ \A i \in 1 .. Len(broadcast[t].to) :
       broadcast[t].to[i] = out_neighbours[u][Reached(t, u) + i]
  /\ send[t] # Idle =>
       /\ Reached(t, u) > 0
       /\ send[t].to = out_neighbours[u][Reached(t, u)]
       /\ send[t].msg = broadcast[t].message

\* How many neighbours of u thread t has delivered the message to.
DeliveredUpTo(t, u) ==
  IF send[t].at \in {"idle", "unlock"} THEN Reached(t, u) ELSE Reached(t, u) - 1

\* The edges to d along which a message has arrived.
ArrivedAlong(sender, d) ==
  {e \in EdgesInto(out_neighbours, d) :
     /\ sent[e[1]] # None
     /\ \A t \in Threads : Sending(t) /\ sender[t] = e[1] => e[2] <= DeliveredUpTo(t, e[1])}

\* In the compute loop, a mailbox holds what has arrived so far, the messages of
\* broadcasts that other threads are in the middle of included.
ArrivedExact ==
  AnyAt(ComputeLabels) =>
    \E sender \in [Threads -> Vertices] :
      /\ \A t \in Threads : Sending(t) => BroadcastsFor(t, sender[t])
      /\ \A t, u \in Threads : Sending(t) /\ Sending(u) /\ sender[t] = sender[u] => t = u
      /\ \A d \in Vertices : Arrived(d) = CombinedOver(sent, ArrivedAlong(sender, d))

\* A call of ip_send_message is part of a broadcast.
SendsForBroadcast == \A t \in Threads : send[t] # Idle => Sending(t)

\* When every thread has finished its sends, each vertex holds the combination of
\* everything broadcast to it in this superstep (the postcondition of
\* ip_broadcast), and nothing else.
BroadcastDelivered ==
  AllAt("compute_done") => \A d \in Vertices :
    Arrived(d) = Received(out_neighbours, sent, d)
==============================================================================
