---------------------------- MODULE AtomicMailbox ----------------------------
(***************************************************************************)
(* What the mailboxes of the push versions of iPregel promise (the         *)
(* postconditions of ip_send_message, iPregel_preamble.h:146): a message   *)
(* that is sent is combined into the mailbox of its destination exactly    *)
(* once, at one instant between the call and the return, and a mailbox     *)
(* that nobody wrote since it was emptied holds nothing.                   *)
(***************************************************************************)
EXTENDS Setting, Team

VARIABLES
  box,            \* box[d]: the combined message of d, or None
  pending         \* pending[t]: the call of t that is not delivered yet, or NoCall

vars == <<box, pending>>

NoCall == [to |-> None, msg |-> None]

TypeOK ==
  /\ box \in [Vertices -> Messages \cup {None}]
  /\ pending \in [Threads -> [to : Vertices, msg : Messages] \cup {NoCall}]

Init ==
  /\ box = [d \in Vertices |-> None]
  /\ pending = [t \in Threads |-> NoCall]

\* The mailbox content a after message m is combined into it.
Added(a, m) == IF a = None THEN m ELSE Combine(a, m)

Invoke(t, d, m) ==
  /\ pending[t] = NoCall
  /\ pending' = [pending EXCEPT ![t] = [to |-> d, msg |-> m]]
  /\ UNCHANGED box

Deliver(t) ==
  /\ pending[t] # NoCall
  /\ box' = [box EXCEPT ![pending[t].to] = Added(@, pending[t].msg)]
  /\ pending' = [pending EXCEPT ![t] = NoCall]

\* Between two supersteps, when no call is pending, a mailbox is emptied.
Empty(d) ==
  /\ \A t \in Threads : pending[t] = NoCall
  /\ box[d] # None
  /\ box' = [box EXCEPT ![d] = None]
  /\ UNCHANGED pending

Next ==
  \/ \E t \in Threads, d \in Vertices, m \in Messages : Invoke(t, d, m)
  \/ \E t \in Threads : Deliver(t)
  \/ \E d \in Vertices : Empty(d)

Spec == Init /\ [][Next]_vars
==============================================================================
