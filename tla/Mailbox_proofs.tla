---------------------------- MODULE Mailbox_proofs ----------------------------
(***************************************************************************)
(* Proofs about Mailbox for every set of threads, vertices and messages    *)
(* and every ip_combine: the inductive invariant MailboxInv, and, when the *)
(* messages are integers, that the mailboxes implement AtomicMailbox; and, *)
(* from that, what has arrived at any moment of the broadcasts through     *)
(* them (module Broadcasts).                                               *)
(***************************************************************************)
EXTENDS Broadcasts, Engine_proofs

\* Combining never leaves the set of messages.
LEMMA NewValueType ==
  ASSUME NEW a \in Messages, NEW m \in Messages
  PROVE  NewValueOf(a, m) \in Messages
BY CombineAssumption, UnitAssumption DEF NewValueOf

\* The mailboxes as ip_init_vertex_range leaves them satisfy the invariant.
LEMMA MailboxInitInv == MailboxInit => MailboxInv
<1> SUFFICES ASSUME MailboxInit PROVE MailboxInv
  OBVIOUS
<1> USE DEF MailboxInit, Idle
<1>1. MailboxShape
  BY DEF MailboxShape, Labels
<1>2. CallWellFormed
  BY DEF CallWellFormed, At
<1>3. MutualExclusion /\ FirstWriterAlone /\ CombinesIntoFullBox
  BY DEF MutualExclusion, FirstWriterAlone, CombinesIntoFullBox, Holding, Combining, At
<1> QED
  BY <1>1, <1>2, <1>3 DEF MailboxInv, MailboxTypeOK

\* A call that begins keeps the invariant.
LEMMA SendMessageInv ==
  ASSUME MailboxInv, NEW t \in Threads, NEW d \in Vertices, NEW m \in Messages,
         SendMessage(t, d, m)
  PROVE  MailboxInv'
<1> USE DEF MailboxInv, MailboxTypeOK, SendMessage, Idle
<1>1. MailboxShape'
  BY DEF MailboxShape, Labels
<1>2. CallWellFormed'
  BY DEF CallWellFormed, MailboxShape, At
<1>3. MutualExclusion'
  BY DEF MutualExclusion, MailboxShape, Holding
<1>4. FirstWriterAlone' /\ CombinesIntoFullBox'
  BY DEF FirstWriterAlone, CombinesIntoFullBox, MailboxShape, Combining, At
<1> QED
  BY <1>1, <1>2, <1>3, <1>4

\* Every step of a call keeps the invariant.
LEMMA SendStepInv ==
  ASSUME MailboxInv, NEW t \in Threads, SendStep(t)
  PROVE  MailboxInv'
<1> USE DEF MailboxInv, MailboxTypeOK, At, Goto, Return, Idle
<1>a. /\ send[t].to \in Vertices /\ send[t].msg \in Messages
      /\ send[t].at \in Labels \ {"idle"}
  BY DEF SendStep, Acquire, Recheck, Write, Flag, Unlock, UnlockToCas, CasLoad, Cas,
         CallWellFormed, MailboxShape, Labels
<1>1. CASE Acquire(t)
  BY SMTT(60), <1>1, <1>a DEF Acquire, MailboxShape, CallWellFormed, MutualExclusion,
     FirstWriterAlone, CombinesIntoFullBox, Holding, Combining, Labels
<1>2. CASE Recheck(t)
  BY SMTT(60), <1>2, <1>a DEF Recheck, MailboxShape, CallWellFormed, MutualExclusion,
     FirstWriterAlone, CombinesIntoFullBox, Holding, Combining, Labels
<1>3. CASE Write(t)
  BY SMTT(60), <1>3, <1>a DEF Write, MailboxShape, CallWellFormed, MutualExclusion,
     FirstWriterAlone, CombinesIntoFullBox, Holding, Combining, Labels
<1>4. CASE Flag(t)
  BY SMTT(60), <1>4, <1>a DEF Flag, MailboxShape, CallWellFormed, MutualExclusion,
     FirstWriterAlone, CombinesIntoFullBox, Holding, Combining, Labels
<1>5. CASE Unlock(t)
  BY SMTT(60), <1>5, <1>a DEF Unlock, MailboxShape, CallWellFormed, MutualExclusion,
     FirstWriterAlone, CombinesIntoFullBox, Holding, Combining, Labels
<1>6. CASE UnlockToCas(t)
  <2> USE <1>6, <1>a DEF UnlockToCas
  <2>1. MailboxShape'
    BY DEF MailboxShape, CombinesIntoFullBox, Combining, Labels
  <2>2. CallWellFormed'
    BY DEF MailboxShape, CallWellFormed, CombinesIntoFullBox, Combining
  <2>3. MutualExclusion'
    BY DEF MailboxShape, MutualExclusion, Holding
  <2>4. FirstWriterAlone'
    BY DEF MailboxShape, FirstWriterAlone
  <2>5. CombinesIntoFullBox'
    BY DEF MailboxShape, CombinesIntoFullBox, Combining
  <2> QED
    BY <2>1, <2>2, <2>3, <2>4, <2>5
<1>7. CASE CasLoad(t)
  <2>1. CASE NewValueOf(message_next[send[t].to], send[t].msg) = message_next[send[t].to]
    <3>1. /\ send' = [send EXCEPT ![t] = [at |-> "idle", to |-> None, msg |-> None, old |-> None]]
          /\ UNCHANGED <<has_message_next, message_next, lock>>
      BY <1>7, <2>1 DEF CasLoad
    <3> QED
      BY SMTT(60), <3>1, <1>7, <1>a DEF CasLoad, MailboxShape, CallWellFormed, MutualExclusion,
         FirstWriterAlone, CombinesIntoFullBox, Holding, Combining, Labels
  <2>2. CASE NewValueOf(message_next[send[t].to], send[t].msg) # message_next[send[t].to]
    <3>1. /\ send' = [send EXCEPT ![t].at = "cas", ![t].old = message_next[send[t].to]]
          /\ UNCHANGED <<has_message_next, message_next, lock>>
      BY <1>7, <2>2 DEF CasLoad
    <3>2. message_next[send[t].to] \in Messages
      BY <1>7, <1>a DEF CasLoad, CombinesIntoFullBox, Combining
    <3> QED
      BY SMTT(60), <3>1, <3>2, <1>7, <1>a DEF CasLoad, MailboxShape, CallWellFormed, MutualExclusion,
         FirstWriterAlone, CombinesIntoFullBox, Holding, Combining, Labels
  <2> QED
    BY <2>1, <2>2
<1>8. CASE Cas(t)
  <2>1. CASE message_next[send[t].to] = send[t].old
    <3>1. /\ message_next' = [message_next EXCEPT ![send[t].to] =
                                NewValueOf(send[t].old, send[t].msg)]
          /\ send' = [send EXCEPT ![t] = [at |-> "idle", to |-> None, msg |-> None, old |-> None]]
          /\ UNCHANGED <<has_message_next, lock>>
      BY <1>8, <2>1 DEF Cas
    <3>2. NewValueOf(send[t].old, send[t].msg) \in Messages
      BY <1>8, <1>a, NewValueType DEF Cas, CallWellFormed
    <3> QED
      BY SMTT(60), <3>1, <3>2, <1>8, <1>a DEF Cas, MailboxShape, CallWellFormed, MutualExclusion,
         FirstWriterAlone, CombinesIntoFullBox, Holding, Combining, Labels
  <2>2. CASE message_next[send[t].to] # send[t].old
    <3>1. /\ send' = [send EXCEPT ![t].at = "cas_load", ![t].old = None]
          /\ UNCHANGED <<has_message_next, message_next, lock>>
      BY <1>8, <2>2 DEF Cas
    <3> QED
      BY SMTT(60), <3>1, <1>8, <1>a DEF Cas, MailboxShape, CallWellFormed, MutualExclusion,
         FirstWriterAlone, CombinesIntoFullBox, Holding, Combining, Labels
  <2> QED
    BY <2>1, <2>2
<1> QED
  BY <1>1, <1>2, <1>3, <1>4, <1>5, <1>6, <1>7, <1>8 DEF SendStep

\* Emptying a mailbox keeps the invariant, because no call is under way.
LEMMA ClearNextInv ==
  ASSUME MailboxInv, AllIdle, NEW d \in Vertices, ClearNext(d)
  PROVE  MailboxInv'
BY DEF MailboxInv, MailboxTypeOK, AllIdle, ClearNext, MailboxShape, CallWellFormed, MutualExclusion,
       FirstWriterAlone, CombinesIntoFullBox, Holding, Combining, Idle, At

\* The mailboxes are as they were.
LEMMA MailboxUnchanged ==
  ASSUME MailboxInv, UNCHANGED mailboxVars
  PROVE  MailboxInv'
BY DEF MailboxInv, MailboxTypeOK, MailboxShape, CallWellFormed, MutualExclusion,
   FirstWriterAlone, CombinesIntoFullBox, mailboxVars, At

\* A step of a call changes this call only, which is under way.
LEMMA SendStepLocal ==
  ASSUME MailboxInv, NEW t \in Threads, SendStep(t)
  PROVE  send[t] # Idle /\ \A u \in Threads \ {t} : send'[u] = send[u]
<1>1. \A u \in Threads \ {t} : send'[u] = send[u]
  BY DEF SendStep, Acquire, Recheck, Write, Flag, Unlock, UnlockToCas, CasLoad, Cas, Goto,
     Return, MailboxInv, MailboxTypeOK, MailboxShape
<1>2. send[t] # Idle
  BY DEF SendStep, Acquire, Recheck, Write, Flag, Unlock, UnlockToCas, CasLoad, Cas, At, Idle
<1> QED
  BY <1>1, <1>2

\* The invariant holds in every reachable state: in particular the lock
\* excludes, first messages are never overwritten, and no compare-and-swap ever
\* sees memory of an earlier superstep.
THEOREM MailboxInvariant == MailboxSpec => []MailboxInv
<1>1. MailboxInit => MailboxInv
  BY MailboxInitInv
<1>2. MailboxInv /\ [MailboxNext]_mailboxVars => MailboxInv'
  <2> SUFFICES ASSUME MailboxInv, [MailboxNext]_mailboxVars PROVE MailboxInv'
    OBVIOUS
  <2>1. ASSUME NEW t \in Threads, NEW d \in Vertices, NEW m \in Messages,
               SendMessage(t, d, m)
        PROVE  MailboxInv'
    BY <2>1, SendMessageInv
  <2>2. ASSUME NEW t \in Threads, SendStep(t) PROVE MailboxInv'
    BY <2>2, SendStepInv
  <2>3. ASSUME AllIdle, NEW d \in Vertices, ClearNext(d) PROVE MailboxInv'
    BY <2>3, ClearNextInv
  <2>4. CASE UNCHANGED mailboxVars
    BY <2>4 DEF mailboxVars, MailboxInv, MailboxTypeOK, MailboxShape, CallWellFormed,
       MutualExclusion, FirstWriterAlone, CombinesIntoFullBox, At
  <2> QED
    BY <2>1, <2>2, <2>3, <2>4 DEF MailboxNext
<1> QED
  BY <1>1, <1>2, PTL DEF MailboxSpec

\* The type invariant of the mailboxes, for every instance.
THEOREM MailboxTyping == MailboxSpec => []MailboxTypeOK
BY MailboxInvariant, PTL DEF MailboxInv

\* ip_lock_acquire and ip_lock_release exclude: for each mailbox at most one
\* thread is between them, and the lock is 1 exactly then.
THEOREM LockExcludes == MailboxSpec => []MutualExclusion
BY MailboxInvariant, PTL DEF MailboxInv

\* The second test of has_message_next, under the lock, is enough: a thread that
\* goes on to write the first message writes into an empty mailbox.
THEOREM FirstMessageKept == MailboxSpec => []FirstWriterAlone
BY MailboxInvariant, PTL DEF MailboxInv

\* No compare-and-swap ever combines with uninitialised memory or with a message
\* of an earlier superstep.
THEOREM NoStaleMessage == MailboxSpec => []CombinesIntoFullBox
BY MailboxInvariant, PTL DEF MailboxInv

------------------------------------------------------------------------------
(* The mailboxes implement AtomicMailbox.                                  *)

\* A step of a call is a delivery or changes nothing that AtomicMailbox sees.
LEMMA SendStepRefines ==
  ASSUME MailboxInv, IntegralMessages, NEW t \in Threads, SendStep(t)
  PROVE  Abstract!Deliver(t) \/ UNCHANGED Abstract!vars
<1> DEFINE NoCall == [to |-> None, msg |-> None]
           boxOf(hmn, mn) == [d \in Vertices |-> IF hmn[d] THEN mn[d] ELSE None]
           pendingOf(s) == [u \in Threads |->
             IF s[u].at \in {"idle", "unlock"} THEN NoCall
             ELSE [to |-> s[u].to, msg |-> s[u].msg]]
           d == send[t].to
           m == send[t].msg
<1> USE DEF MailboxInv, MailboxTypeOK, At, Goto, Return, Idle
<1>a. d \in Vertices /\ m \in Messages /\ m # None /\ send[t].at \in Labels \ {"idle"}
  BY NoneAssumption DEF SendStep, Acquire, Recheck, Write, Flag, Unlock,
     UnlockToCas, CasLoad, Cas, CallWellFormed, MailboxShape, Labels
<1>b. has_message_next[d] =>
        /\ message_next[d] \in Messages
        /\ message_next[d] # None
        /\ NewValueOf(message_next[d], m) = Combine(message_next[d], m)
  BY <1>a, NoneAssumption DEF CombinesIntoFullBox, NewValueOf, IntegralMessages
\* What Deliver(t) asks of a step, in terms of the variables of Mailbox.
<1>c. ASSUME send[t].at \notin {"idle", "unlock"},
             pendingOf(send') = [pendingOf(send) EXCEPT ![t] = NoCall],
             boxOf(has_message_next', message_next') =
               [boxOf(has_message_next, message_next) EXCEPT ![d] =
                 IF boxOf(has_message_next, message_next)[d] = None THEN m
                 ELSE Combine(boxOf(has_message_next, message_next)[d], m)]
      PROVE  Abstract!Deliver(t)
  <2>1. pendingOf(send)[t] = [to |-> d, msg |-> m]
    BY <1>c
  <2>2. pendingOf(send)[t] # NoCall
    BY <2>1, <1>a
  <2> QED
    BY <1>c, <2>1, <2>2 DEF Abstract!Deliver, Abstract!Added, Abstract!NoCall
\* The steps that AtomicMailbox does not see.
<1>d. ASSUME boxOf(has_message_next', message_next') = boxOf(has_message_next, message_next),
             pendingOf(send') = pendingOf(send)
      PROVE  UNCHANGED Abstract!vars
  BY <1>d DEF Abstract!vars
<1>1. CASE Acquire(t) \/ Recheck(t) \/ UnlockToCas(t) \/ Unlock(t)
  <2>1. UNCHANGED <<has_message_next, message_next>>
    BY <1>1 DEF Acquire, Recheck, UnlockToCas, Unlock
  <2>2. pendingOf(send') = pendingOf(send)
    BY <1>1 DEF Acquire, Recheck, UnlockToCas, Unlock, MailboxShape
  <2> QED
    BY <2>1, <2>2, <1>d
<1>2. CASE Write(t)
  <2>1. boxOf(has_message_next', message_next') = boxOf(has_message_next, message_next)
    BY <1>2, <1>a DEF Write, MailboxShape, FirstWriterAlone
  <2>2. pendingOf(send') = pendingOf(send)
    BY <1>2 DEF Write, MailboxShape
  <2> QED
    BY <2>1, <2>2, <1>d
<1>3. CASE Flag(t)
  <2>1. ~has_message_next[d] /\ message_next[d] = m
    BY <1>3 DEF Flag, FirstWriterAlone
  <2>2. boxOf(has_message_next', message_next') =
          [boxOf(has_message_next, message_next) EXCEPT ![d] = m]
    BY <1>3, <1>a, <2>1 DEF Flag, MailboxShape
  <2>3. boxOf(has_message_next, message_next)[d] = None
    BY <1>a, <2>1
  <2>4. pendingOf(send') = [pendingOf(send) EXCEPT ![t] = NoCall]
    BY <1>3 DEF Flag, MailboxShape
  <2> HIDE DEF boxOf, pendingOf
  <2> QED
    BY <1>3, <2>2, <2>3, <2>4, <1>c DEF Flag
<1>4. CASE CasLoad(t) /\ NewValueOf(message_next[d], m) = message_next[d]
  <2>1. has_message_next[d]
    BY <1>4 DEF CasLoad, CombinesIntoFullBox, Combining
  <2>2. boxOf(has_message_next, message_next)[d] # None
        /\ Combine(boxOf(has_message_next, message_next)[d], m) =
              boxOf(has_message_next, message_next)[d]
    BY <1>4, <2>1, <1>a, <1>b
  <2>3. boxOf(has_message_next', message_next') = boxOf(has_message_next, message_next)
    BY <1>4 DEF CasLoad
  <2>4. pendingOf(send') = [pendingOf(send) EXCEPT ![t] = NoCall]
    <3>1. send' = [send EXCEPT ![t] = [at |-> "idle", to |-> None, msg |-> None, old |-> None]]
      BY <1>4 DEF CasLoad
    <3> QED
      BY <3>1 DEF MailboxShape
  <2>5. boxOf(has_message_next, message_next) =
          [boxOf(has_message_next, message_next) EXCEPT ![d] =
             boxOf(has_message_next, message_next)[d]]
    OBVIOUS
  <2> HIDE DEF boxOf, pendingOf
  <2> QED
    BY <1>4, <2>2, <2>3, <2>4, <2>5, <1>c DEF CasLoad
<1>5. CASE CasLoad(t) /\ NewValueOf(message_next[d], m) # message_next[d]
  <2>1. UNCHANGED <<has_message_next, message_next>>
    BY <1>5 DEF CasLoad
  <2>2. pendingOf(send') = pendingOf(send)
    BY <1>5 DEF CasLoad, MailboxShape
  <2> QED
    BY <2>1, <2>2, <1>d
<1>6. CASE Cas(t) /\ message_next[d] = send[t].old
  <2>1. has_message_next[d]
    BY <1>6 DEF Cas, CombinesIntoFullBox, Combining
  <2>2. boxOf(has_message_next, message_next)[d] # None
        /\ boxOf(has_message_next, message_next)[d] = message_next[d]
    BY <2>1, <1>a, <1>b
  <2>3. message_next' = [message_next EXCEPT ![d] = Combine(message_next[d], m)]
    BY <1>6, <2>1, <1>b DEF Cas
  <2>4. boxOf(has_message_next', message_next') =
          [boxOf(has_message_next, message_next) EXCEPT ![d] = Combine(message_next[d], m)]
    BY <1>6, <2>1, <2>3, <1>a DEF Cas, MailboxShape
  <2>5. pendingOf(send') = [pendingOf(send) EXCEPT ![t] = NoCall]
    <3>1. send' = [send EXCEPT ![t] = [at |-> "idle", to |-> None, msg |-> None, old |-> None]]
      BY <1>6 DEF Cas
    <3> QED
      BY <3>1 DEF MailboxShape
  <2> HIDE DEF boxOf, pendingOf
  <2> QED
    BY <1>6, <2>2, <2>4, <2>5, <1>c DEF Cas
<1>7. CASE Cas(t) /\ message_next[d] # send[t].old
  <2>1. UNCHANGED <<has_message_next, message_next>>
    BY <1>7 DEF Cas
  <2>2. pendingOf(send') = pendingOf(send)
    BY <1>7 DEF Cas, MailboxShape
  <2> QED
    BY <2>1, <2>2, <1>d
<1> QED
  BY <1>1, <1>2, <1>3, <1>4, <1>5, <1>6, <1>7 DEF SendStep

\* When every message is an integer, a message sent is combined into the mailbox
\* of its destination exactly once, between the call and the return of
\* ip_send_message, whatever the threads, the graph and ip_combine are.
THEOREM MailboxRefinement ==
  ASSUME IntegralMessages
  PROVE  MailboxSpec => DeliversAtomically
<1> DEFINE NoCall == [to |-> None, msg |-> None]
           boxOf(hmn, mn) == [d \in Vertices |-> IF hmn[d] THEN mn[d] ELSE None]
           pendingOf(s) == [u \in Threads |->
             IF s[u].at \in {"idle", "unlock"} THEN NoCall
             ELSE [to |-> s[u].to, msg |-> s[u].msg]]
<1>1. MailboxInit => Abstract!Init
  BY DEF MailboxInit, Abstract!Init, Abstract!NoCall, Idle
<1>2. MailboxInv /\ [MailboxNext]_mailboxVars => [Abstract!Next]_(Abstract!vars)
  <2> SUFFICES ASSUME MailboxInv, [MailboxNext]_mailboxVars
               PROVE  [Abstract!Next]_(Abstract!vars)
    OBVIOUS
  <2>1. ASSUME NEW t \in Threads, NEW d \in Vertices, NEW m \in Messages,
               SendMessage(t, d, m)
        PROVE  Abstract!Invoke(t, d, m)
    <3>1. pendingOf(send)[t] = NoCall
      BY <2>1 DEF SendMessage, Idle
    <3>2. pendingOf(send') = [pendingOf(send) EXCEPT ![t] = [to |-> d, msg |-> m]]
      BY <2>1 DEF SendMessage, MailboxInv, MailboxTypeOK, MailboxShape
    <3>3. UNCHANGED <<has_message_next, message_next>>
      BY <2>1 DEF SendMessage
    <3> QED
      BY <3>1, <3>2, <3>3 DEF Abstract!Invoke, Abstract!NoCall
  <2>2. ASSUME AllIdle, NEW d \in Vertices, ClearNext(d)
        PROVE  Abstract!Empty(d)
    <3>1. \A t \in Threads : pendingOf(send)[t] = NoCall
      BY <2>2 DEF AllIdle, Idle
    <3>2. boxOf(has_message_next, message_next)[d] # None
      BY <2>2, NoneAssumption DEF ClearNext, MailboxInv, MailboxTypeOK, CombinesIntoFullBox
    <3>3. boxOf(has_message_next', message_next') =
            [boxOf(has_message_next, message_next) EXCEPT ![d] = None]
      BY <2>2 DEF ClearNext, MailboxInv, MailboxTypeOK, MailboxShape
    <3>4. UNCHANGED send
      BY <2>2 DEF ClearNext
    <3> QED
      BY <3>1, <3>2, <3>3, <3>4 DEF Abstract!Empty, Abstract!NoCall
  <2>3. CASE UNCHANGED mailboxVars
    BY <2>3 DEF mailboxVars, Abstract!vars
  <2> QED
    BY <2>1, <2>2, <2>3, SendStepRefines DEF MailboxNext, Abstract!Next
<1> QED
  BY <1>1, <1>2, MailboxInvariant, PTL DEF MailboxSpec, DeliversAtomically, Abstract!Spec
------------------------------------------------------------------------------
(* What has arrived while the threads broadcast, step by step.             *)

\* What is known of the mailboxes and of the broadcasts that use them.
BroadcastInv ==
  /\ EngineTypeOK
  /\ broadcast \in [Threads -> [message : Messages \cup {None}, to : Seq(Vertices)]]
  /\ MailboxInv
  /\ SendsInLoop
  /\ BroadcastHasMessage

\* No broadcast under way has yet to deliver along edge e.
Delivered(sender, e) ==
  \A t \in Threads : Sending(t) /\ sender[t] = e[1] => e[2] <= DeliveredUpTo(t, e[1])

\* sender names the vertex that each thread is broadcasting for.
Names(sender) ==
  /\ sender \in [Threads -> Vertices]
  /\ \A t \in Threads : Sending(t) => BroadcastsFor(t, sender[t])
  /\ \A t, u \in Threads : Sending(t) /\ Sending(u) /\ sender[t] = sender[u] => t = u

\* The mailboxes hold what has arrived.
Holds(sender) == \A d \in Vertices : Arrived(d) = CombinedOver(sent, ArrivedAlong(sender, d))

\* What the types say of broadcasts and edges.
LEMMA BroadcastTypes ==
  ASSUME BroadcastInv, NEW t \in Threads, NEW u \in Vertices
  PROVE  /\ broadcast[t].to \in Seq(Vertices) /\ Len(broadcast[t].to) \in Nat
         /\ out_neighbours \in [Vertices -> Seq(Vertices)]
         /\ out_neighbours[u] \in Seq(Vertices) /\ Len(out_neighbours[u]) \in Nat
         /\ Reached(t, u) \in Int /\ DeliveredUpTo(t, u) \in Int
         /\ sent[u] \in Maybe
<1>1. out_neighbours \in [Vertices -> Seq(Vertices)]
  BY JobsAssumption DEF BroadcastInv, EngineTypeOK, jobVars
<1>2. /\ broadcast[t].to \in Seq(Vertices) /\ Len(broadcast[t].to) \in Nat
      /\ out_neighbours[u] \in Seq(Vertices) /\ Len(out_neighbours[u]) \in Nat
  BY <1>1 DEF BroadcastInv
<1>3. Reached(t, u) \in Int
  BY <1>2 DEF Reached
<1>4. DeliveredUpTo(t, u) \in Int
  BY <1>3 DEF DeliveredUpTo
<1> QED
  BY <1>1, <1>2, <1>3, <1>4 DEF BroadcastInv, EngineTypeOK, Maybe

\* What an edge is made of.
LEMMA EdgeTypes ==
  ASSUME BroadcastInv, NEW d \in Vertices, NEW e \in EdgesInto(out_neighbours, d)
  PROVE  /\ e[1] \in Vertices /\ e[2] \in 1 .. Len(out_neighbours[e[1]])
         /\ e = <<e[1], e[2]>> /\ out_neighbours[e[1]][e[2]] = d
<1>1. out_neighbours \in [Vertices -> Seq(Vertices)]
  BY JobsAssumption DEF BroadcastInv, EngineTypeOK, jobVars
<1>2. PICK u \in Vertices : \E i \in 1 .. Len(out_neighbours[u]) :
        e = <<u, i>> /\ out_neighbours[u][i] = d
  BY <1>1, EdgesIntoFinite
<1> QED
  BY <1>2

\* The edges along which something has arrived are edges, and carry messages.
LEMMA ArrivedEdges ==
  ASSUME BroadcastInv, NEW sender, NEW d \in Vertices
  PROVE  /\ ArrivedAlong(sender, d) \subseteq EdgesInto(out_neighbours, d)
         /\ IsFiniteSet(EdgesInto(out_neighbours, d))
         /\ IsFiniteSet(ArrivedAlong(sender, d))
         /\ Carries(sent, EdgesInto(out_neighbours, d))
         /\ Carries(sent, ArrivedAlong(sender, d))
<1>1. out_neighbours \in [Vertices -> Seq(Vertices)]
  BY JobsAssumption DEF BroadcastInv, EngineTypeOK, jobVars
<1>2. ArrivedAlong(sender, d) \subseteq EdgesInto(out_neighbours, d)
  BY DEF ArrivedAlong
<1>3. IsFiniteSet(EdgesInto(out_neighbours, d)) /\ IsFiniteSet(ArrivedAlong(sender, d))
  BY <1>1, <1>2, EdgesIntoFinite, FS_Subset
<1>4. \A e \in EdgesInto(out_neighbours, d) : e[1] \in Vertices
  BY EdgeTypes
<1>5. Carries(sent, EdgesInto(out_neighbours, d))
  BY <1>4 DEF Carries, BroadcastInv, EngineTypeOK, Maybe
<1> QED
  BY <1>2, <1>3, <1>5 DEF Carries

\* A step that delivers nothing leaves what has arrived as it was.
LEMMA NothingDelivered ==
  ASSUME NEW sender, Holds(sender), UNCHANGED <<out_neighbours, sent>>,
         \A d \in Vertices : Arrived(d)' = Arrived(d),
         \A d \in Vertices : \A e \in EdgesInto(out_neighbours, d) :
           sent[e[1]] # None => (Delivered(sender, e)' <=> Delivered(sender, e))
  PROVE  Holds(sender)'
<1>1. \A d \in Vertices : ArrivedAlong(sender, d)' = ArrivedAlong(sender, d)
  BY DEF ArrivedAlong, Delivered
<1> QED
  BY <1>1 DEF Holds

\* Mailboxes that nobody touches hold what they held.
LEMMA ArrivedUnchanged ==
  ASSUME UNCHANGED mailboxVars PROVE \A d \in Vertices : Arrived(d)' = Arrived(d)
BY DEF Arrived, mailboxVars

\* A thread that begins or ends no broadcast, and sends nothing, names the same one.
LEMMA NamesKept ==
  ASSUME NEW sender, Names(sender), Holds(sender),
         UNCHANGED <<out_neighbours, sent, broadcast, mailboxVars>>,
         \A t \in Threads : Sending(t)' <=> Sending(t)
  PROVE  Names(sender)' /\ Holds(sender)'
<1>1. Names(sender)'
  BY DEF Names, BroadcastsFor, Reached, mailboxVars
<1>2. \A e : Delivered(sender, e)' <=> Delivered(sender, e)
  BY DEF Delivered, DeliveredUpTo, Reached, mailboxVars
<1> QED
  BY <1>1, <1>2, NothingDelivered, ArrivedUnchanged

\* When the compute loop begins, nothing has arrived and nothing was broadcast.
LEMMA ArrivedBegin ==
  ASSUME BroadcastInv, \A d \in Vertices : ~has_message_next[d],
         \A u \in Threads : pc'[u] = "compute",
         UNCHANGED <<out_neighbours, mailboxVars>>, sent' = Nothing
  PROVE  ArrivedExact'
<1>3. \A d \in Vertices : Arrived(d)' = None
  BY DEF mailboxVars, Arrived
<1>4. PICK v \in Vertices : TRUE
  BY VerticesAssumption
<1> DEFINE sender == [t \in Threads |-> v]
<1>5. \A t \in Threads : ~Sending(t)'
  BY DEF Sending
<1>6. Names(sender)'
  BY <1>5 DEF Names
<1>8. ASSUME NEW d \in Vertices PROVE ArrivedAlong(sender, d)' = {}
  <2>1. \A e \in EdgesInto(out_neighbours, d) : e[1] \in Vertices
    BY EdgeTypes
  <2> QED
    BY <2>1 DEF ArrivedAlong, Nothing
<1>9. CombinedOver(sent', {}) = None
  BY CombinedStep, FS_EmptySet
<1>10. Holds(sender)'
  BY <1>3, <1>8, <1>9 DEF Holds
<1> HIDE DEF sender
<1> QED
  BY <1>6, <1>10 DEF ArrivedExact, Names, Holds

\* A vertex that runs begins a broadcast, along none of whose edges anything has
\* arrived before.
LEMMA ArrivedCompute ==
  ASSUME BroadcastInv, ArrivedExact, NEW t \in Threads, NEW v \in Vertices, NEW outcome,
         pc[t] = "compute", pc'[t] = "send", \A u \in Threads \ {t} : pc'[u] = pc[u],
         sent[v] = None, sent' = [sent EXCEPT ![v] = outcome.message],
         StartBroadcast(t, v, outcome), UNCHANGED <<out_neighbours, mailboxVars>>
  PROVE  ArrivedExact'
<1>1. /\ pc[t] = "compute" /\ pc'[t] = "send" /\ \A u \in Threads \ {t} : pc'[u] = pc[u]
      /\ UNCHANGED <<out_neighbours, mailboxVars>>
  OBVIOUS
<1>2. /\ sent' = [sent EXCEPT ![v] = outcome.message]
      /\ broadcast' = [broadcast EXCEPT ![t] =
           IF outcome.message = None THEN NoBroadcast
           ELSE [message |-> outcome.message, to |-> out_neighbours[v]]]
  BY DEF StartBroadcast
<1>3. AnyAt(ComputeLabels)
  BY <1>1 DEF AnyAt, ComputeLabels
<1>4. sent[v] = None
  OBVIOUS
<1>5. PICK sender : Names(sender) /\ Holds(sender)
  BY <1>3 DEF ArrivedExact, Names, Holds
<1>6. sent \in [Vertices -> Maybe] /\ broadcast \in [Threads -> [message : Maybe, to : Seq(Vertices)]]
  BY DEF BroadcastInv, EngineTypeOK, Maybe
<1>7. ~Sending(t) /\ \A u \in Threads \ {t} : (Sending(u)' <=> Sending(u)) /\ broadcast'[u] = broadcast[u]
  BY <1>1, <1>2, <1>6 DEF Sending
<1>8. \A u \in Threads : Sending(u) => sender[u] # v
  BY <1>4, <1>5 DEF Names, BroadcastsFor, Sending
<1>9. \A d \in Vertices : Arrived(d)' = Arrived(d)
  BY <1>1, ArrivedUnchanged
<1>10. send[t] = Idle /\ send' = send
  BY <1>1 DEF BroadcastInv, SendsInLoop, mailboxVars
<1> DEFINE sender2 == [sender EXCEPT ![t] = v]
<1>11. sender2 \in [Threads -> Vertices] /\ sender2[t] = v
       /\ \A u \in Threads \ {t} : sender2[u] = sender[u]
  BY <1>5 DEF Names
<1> HIDE DEF sender2
<1>12. \A w \in Vertices \ {v} : sent'[w] = sent[w]
  BY <1>2, <1>6
<1>13. Sending(t)' => /\ broadcast'[t] = [message |-> sent'[v], to |-> out_neighbours[v]]
                      /\ sent'[v] # None
  BY <1>1, <1>2, <1>6 DEF Sending, NoBroadcast
<1>14. sent'[v] # None => Sending(t)'
  BY <1>1, <1>2, <1>6 DEF Sending
<1>15. Sending(t)' => Reached(t, v)' = 0 /\ DeliveredUpTo(t, v)' = 0
  <2>1. Len(out_neighbours[v]) \in Nat
    BY BroadcastTypes
  <2> QED
    BY <1>1, <1>10, <1>13, <2>1 DEF Reached, DeliveredUpTo, Idle
<1>16. Names(sender2)'
  <2>1. Sending(t)' => BroadcastsFor(t, v)'
    <3> SUFFICES ASSUME Sending(t)' PROVE BroadcastsFor(t, v)'
      OBVIOUS
    <3>1. /\ broadcast'[t].message = sent'[v] /\ broadcast'[t].to = out_neighbours'[v]
          /\ Reached(t, v)' = 0 /\ send'[t] = Idle
      BY <1>1, <1>10, <1>13, <1>15
    <3>2. Len(out_neighbours[v]) \in Nat
      BY BroadcastTypes
    <3> QED
      BY <1>1, <3>1, <3>2 DEF BroadcastsFor
  <2>2. ASSUME NEW u \in Threads \ {t}, Sending(u) PROVE BroadcastsFor(u, sender[u])'
    <3>1. sender[u] \in Vertices \ {v} /\ BroadcastsFor(u, sender[u])
      BY <1>5, <1>8, <2>2 DEF Names
    <3> QED
      BY <1>1, <1>7, <1>10, <1>12, <3>1 DEF BroadcastsFor, Reached
  <2>3. \A u \in Threads : Sending(u)' => BroadcastsFor(u, sender2[u])'
    BY <1>7, <1>11, <2>1, <2>2
  <2>4. ASSUME NEW a \in Threads, NEW b \in Threads, Sending(a)', Sending(b)',
               sender2[a] = sender2[b]
        PROVE  a = b
    BY <1>5, <1>7, <1>8, <1>11, <2>4 DEF Names
  <2> QED
    BY <1>11, <2>3, <2>4 DEF Names
<1>17. ASSUME NEW d \in Vertices
       PROVE  ArrivedAlong(sender2, d)' = ArrivedAlong(sender, d)
  <2>1. ASSUME NEW e \in EdgesInto(out_neighbours, d), e[1] = v
        PROVE  /\ sent[e[1]] = None
               /\ sent'[e[1]] # None => ~Delivered(sender2, e)'
    <3>1. e[2] \in Nat /\ e[2] > 0
      <4>1. e[2] \in 1 .. Len(out_neighbours[e[1]]) /\ e[1] \in Vertices
        BY EdgeTypes
      <4> QED
        BY <4>1
    <3> QED
      BY <1>4, <1>11, <1>14, <1>15, <2>1, <3>1 DEF Delivered
  <2>2. ASSUME NEW e \in EdgesInto(out_neighbours, d), e[1] # v
        PROVE  /\ sent'[e[1]] = sent[e[1]]
               /\ Delivered(sender2, e)' <=> Delivered(sender, e)
    <3>1. e[1] \in Vertices
      BY EdgeTypes
    <3>2. \A u \in Threads \ {t} : DeliveredUpTo(u, e[1])' = DeliveredUpTo(u, e[1])
      BY <1>1, <1>7, <1>10 DEF DeliveredUpTo, Reached
    <3>3. \A u \in Threads \ {t} : (Sending(u)' <=> Sending(u)) /\ sender2[u] = sender[u]
      BY <1>7, <1>11
    <3>4. sender2[t] # e[1] /\ ~Sending(t)
      BY <1>7, <1>11, <2>2
    <3> QED
      BY <1>12, <2>2, <3>1, <3>2, <3>3, <3>4 DEF Delivered
  <2>3. EdgesInto(out_neighbours, d)' = EdgesInto(out_neighbours, d)
    BY <1>1
  <2>4. /\ ArrivedAlong(sender, d) =
             {e \in EdgesInto(out_neighbours, d) : sent[e[1]] # None /\ Delivered(sender, e)}
        /\ ArrivedAlong(sender2, d)' =
             {e \in EdgesInto(out_neighbours, d)' : sent'[e[1]] # None /\ Delivered(sender2, e)'}
    BY DEF ArrivedAlong, Delivered
  <2> QED
    BY <2>1, <2>2, <2>3, <2>4
<1>18. ASSUME NEW d \in Vertices
       PROVE  CombinedOver(sent', ArrivedAlong(sender, d)) = CombinedOver(sent, ArrivedAlong(sender, d))
  <2>1. \A e \in ArrivedAlong(sender, d) : sent[e[1]] # None /\ e[1] \in Vertices
    BY EdgeTypes DEF ArrivedAlong
  <2>2. \A e \in ArrivedAlong(sender, d) : sent'[e[1]] = sent[e[1]]
    BY <1>4, <1>12, <2>1
  <2>3. IsFiniteSet(ArrivedAlong(sender, d))
    BY ArrivedEdges
  <2>4. PICK r : r = sent'
    OBVIOUS
  <2>5. \A e \in ArrivedAlong(sender, d) : r[e[1]] = sent[e[1]]
    BY <2>2, <2>4
  <2>6. CombinedOver(r, ArrivedAlong(sender, d)) = CombinedOver(sent, ArrivedAlong(sender, d))
    BY <2>3, <2>5, CombinedLocal
  <2> QED
    BY <2>4, <2>6
<1>19. Holds(sender2)'
  BY <1>5, <1>9, <1>17, <1>18 DEF Holds
<1> QED
  BY <1>16, <1>19 DEF ArrivedExact, Names, Holds

\* ip_broadcast goes on to the next neighbour, to whom nothing is delivered yet.
LEMMA ArrivedNext ==
  ASSUME BroadcastInv, ArrivedExact, SendsForBroadcast, NEW t \in Threads, SendToNext(t),
         UNCHANGED <<pc, sent, out_neighbours>>
  PROVE  ArrivedExact' /\ SendsForBroadcast'
<1>1. /\ pc[t] = "send" /\ broadcast[t].to # << >> /\ send[t] = Idle
      /\ broadcast' = [broadcast EXCEPT ![t].to = Tail(@)]
      /\ send' = [send EXCEPT ![t] =
           [at |-> IF has_message_next[Head(broadcast[t].to)] THEN "cas_load" ELSE "acquire",
            to |-> Head(broadcast[t].to), msg |-> broadcast[t].message, old |-> None]]
      /\ UNCHANGED <<pc, sent, out_neighbours, has_message_next, message_next>>
  BY DEF SendToNext, SendMessage
<1>2. /\ broadcast \in [Threads -> [message : Maybe, to : Seq(Vertices)]]
      /\ send \in [Threads -> [at : Labels, to : Vertices \cup {None},
                               msg : Messages \cup {None}, old : Messages \cup {None}]]
  BY DEF BroadcastInv, Maybe, MailboxInv, MailboxTypeOK, MailboxShape
<1> DEFINE to == broadcast[t].to
           rest == Tail(to)
           first == Head(to)
<1>3. to \in Seq(Vertices) /\ to # << >>
  BY <1>1, <1>2
<1>4. /\ Len(to) \in Nat /\ Len(to) > 0 /\ Len(rest) = Len(to) - 1
      /\ first = to[1] /\ \A i \in 1 .. Len(to) - 1 : rest[i] = to[i + 1]
  BY <1>3
<1>5. /\ broadcast'[t].to = rest /\ broadcast'[t].message = broadcast[t].message
      /\ \A u \in Threads \ {t} : broadcast'[u] = broadcast[u] /\ send'[u] = send[u]
      /\ send'[t].to = first /\ send'[t].msg = broadcast[t].message
      /\ send'[t].at \in {"cas_load", "acquire"}
  BY <1>1, <1>2
<1> HIDE DEF to, rest, first
<1>6. \A u \in Threads : Sending(u)' <=> Sending(u)
  BY <1>1, <1>5 DEF Sending
<1>7. Sending(t)
  BY <1>1, NoneAssumption DEF Sending, BroadcastInv, BroadcastHasMessage
<1>8. PICK sender : Names(sender) /\ Holds(sender)
  BY <1>1 DEF ArrivedExact, Names, Holds, AnyAt, ComputeLabels
<1> DEFINE w == sender[t]
<1>9. w \in Vertices /\ BroadcastsFor(t, w)
  BY <1>7, <1>8 DEF Names
<1>10. Len(out_neighbours[w]) \in Nat
  BY <1>9, BroadcastTypes
<1>11. \A u \in Threads, x \in Vertices :
         /\ u # t => Reached(u, x)' = Reached(u, x)
         /\ DeliveredUpTo(u, x)' = DeliveredUpTo(u, x)
  <2>1. \A x \in Vertices : Reached(t, x)' = Reached(t, x) + 1
    <3>1. \A x \in Vertices : Len(out_neighbours[x]) \in Nat
      BY BroadcastTypes
    <3>2. \A x \in Vertices : /\ Reached(t, x)' = Len(out_neighbours[x]) - Len(rest)
                             /\ Reached(t, x) = Len(out_neighbours[x]) - Len(to)
      BY <1>1, <1>5 DEF Reached, to
    <3> QED
      BY <1>4, <3>1, <3>2
  <2>2. \A x \in Vertices : DeliveredUpTo(t, x)' = DeliveredUpTo(t, x)
    <3>1. \A x \in Vertices : Reached(t, x) \in Int
      BY BroadcastTypes
    <3> QED
      BY <1>1, <1>5, <2>1, <3>1 DEF DeliveredUpTo, Idle
  <2>3. \A u \in Threads \ {t}, x \in Vertices : Reached(u, x)' = Reached(u, x)
    BY <1>1, <1>5 DEF Reached
  <2> QED
    BY <1>5, <2>2, <2>3 DEF DeliveredUpTo
<1>12. BroadcastsFor(t, w)'
  <2>1. /\ Reached(t, w) = Len(out_neighbours[w]) - Len(to) /\ Reached(t, w) >= 0
        /\ sent[w] = broadcast[t].message
        /\ \A i \in 1 .. Len(to) : to[i] = out_neighbours[w][Reached(t, w) + i]
    BY <1>9 DEF BroadcastsFor, Reached, to
  <2>2. Reached(t, w)' = Reached(t, w) + 1 /\ Reached(t, w) \in Int
    <3>1. Reached(t, w)' = Len(out_neighbours[w]) - Len(rest)
      BY <1>1, <1>5 DEF Reached
    <3> HIDE DEF w
    <3> QED
      BY <1>4, <1>10, <2>1, <3>1
  <2>3. first = out_neighbours[w][Reached(t, w)']
    BY <1>4, <2>1, <2>2
  <2>4. \A i \in 1 .. Len(rest) : rest[i] = out_neighbours[w][Reached(t, w)' + i]
    <3> SUFFICES ASSUME NEW i \in 1 .. Len(to) - 1
                 PROVE  rest[i] = out_neighbours[w][Reached(t, w)' + i]
      BY <1>4
    <3>1. to[i + 1] = out_neighbours[w][Reached(t, w) + (i + 1)]
      BY <1>4, <2>1
    <3>2. Reached(t, w) + (i + 1) = Reached(t, w)' + i
      BY <2>2
    <3> QED
      BY <1>4, <3>1, <3>2
  <2>5. Reached(t, w)' > 0
    BY <2>1, <2>2
  <2>6. sent'[w] = broadcast'[t].message /\ out_neighbours' = out_neighbours
    BY <1>1, <1>5, <2>1
  <2>7. Reached(t, w)' >= 0
    BY <2>1, <2>2
  <2> HIDE DEF w
  <2> QED
    BY <1>5, <2>3, <2>4, <2>5, <2>6, <2>7 DEF BroadcastsFor
<1>13. Names(sender)'
  <2>1. ASSUME NEW u \in Threads \ {t}, Sending(u) PROVE BroadcastsFor(u, sender[u])'
    <3>1. sender[u] \in Vertices /\ BroadcastsFor(u, sender[u])
      BY <1>8, <2>1 DEF Names
    <3>2. Reached(u, sender[u])' = Reached(u, sender[u])
      BY <1>11, <3>1
    <3> QED
      BY <1>1, <1>5, <3>1, <3>2 DEF BroadcastsFor
  <2>2. \A u \in Threads : Sending(u)' => BroadcastsFor(u, sender[u])'
    BY <1>6, <1>12, <2>1
  <2> QED
    BY <1>6, <1>8, <2>2 DEF Names
<1>14. Holds(sender)'
  <2>1. \A d \in Vertices : Arrived(d)' = Arrived(d)
    BY <1>1 DEF Arrived
  <2>2. ASSUME NEW d \in Vertices, NEW e \in EdgesInto(out_neighbours, d)
        PROVE  Delivered(sender, e)' <=> Delivered(sender, e)
    <3>1. e[1] \in Vertices
      BY EdgeTypes
    <3> QED
      BY <1>6, <1>11, <3>1 DEF Delivered
  <2> QED
    BY <1>1, <1>8, <2>1, <2>2, NothingDelivered
<1>15. SendsForBroadcast'
  BY <1>5, <1>6, <1>7 DEF SendsForBroadcast
<1> QED
  BY <1>13, <1>14, <1>15 DEF ArrivedExact, Names, Holds

\* What a step inside ip_send_message does to the call and to the mailboxes.
LEMMA StepDelivers ==
  ASSUME BroadcastInv, IntegralMessages, NEW t \in Threads, SendStep(t)
  PROVE  /\ send[t] # Idle /\ send[t].to \in Vertices /\ send[t].msg \in Messages
         /\ \A u \in Threads \ {t} : send'[u] = send[u]
         /\ send'[t] # Idle => send'[t].to = send[t].to /\ send'[t].msg = send[t].msg
         /\ \/ /\ \A d \in Vertices : Arrived(d)' = Arrived(d)
               /\ send[t].at \in {"idle", "unlock"} <=> send'[t].at \in {"idle", "unlock"}
            \/ /\ send[t].at \notin {"idle", "unlock"} /\ send'[t].at \in {"idle", "unlock"}
               /\ \A d \in Vertices : Arrived(d)' =
                    IF d = send[t].to THEN Merge(Arrived(d), send[t].msg) ELSE Arrived(d)
<1>1. /\ send \in [Threads -> [at : Labels, to : Vertices \cup {None},
                               msg : Messages \cup {None}, old : Messages \cup {None}]]
      /\ MailboxInv
  BY DEF BroadcastInv, MailboxInv, MailboxTypeOK, MailboxShape
<1>2. /\ send[t] # Idle /\ send[t].to \in Vertices /\ send[t].msg \in Messages
  BY <1>1 DEF MailboxInv, MailboxTypeOK, CallWellFormed, SendStep, Acquire, Recheck, Write,
     Flag, Unlock, UnlockToCas, CasLoad, Cas, At, Idle
<1>3. \A u \in Threads \ {t} : send'[u] = send[u]
  BY <1>1 DEF SendStep, Acquire, Recheck, Write, Flag, Unlock, UnlockToCas, CasLoad, Cas, Goto,
     Return
<1>4. send'[t] # Idle => send'[t].to = send[t].to /\ send'[t].msg = send[t].msg
  BY <1>1 DEF SendStep, Acquire, Recheck, Write, Flag, Unlock, UnlockToCas, CasLoad, Cas, Goto,
     Return
<1> DEFINE NoCall == [to |-> None, msg |-> None]
           callOf(s) == IF s.at \in {"idle", "unlock"} THEN NoCall
                        ELSE [to |-> s.to, msg |-> s.msg]
<1>6. \A u \in Threads : /\ callOf(send[u]) = NoCall <=> send[u].at \in {"idle", "unlock"}
  <2> SUFFICES ASSUME NEW u \in Threads, send[u].at \notin {"idle", "unlock"}
               PROVE  [to |-> send[u].to, msg |-> send[u].msg] # NoCall
    OBVIOUS
  <2>1. send[u].msg \in Messages
    BY <1>1 DEF MailboxInv, MailboxTypeOK, CallWellFormed, At
  <2> QED
    BY <2>1, NoneAssumption
<1>7. callOf(send'[t]) = NoCall <=> send'[t].at \in {"idle", "unlock"}
  <2> SUFFICES ASSUME send'[t].at \notin {"idle", "unlock"}
               PROVE  [to |-> send'[t].to, msg |-> send'[t].msg] # NoCall
    OBVIOUS
  <2>1. send'[t].msg \in Messages
    BY <1>2, <1>4 DEF Idle
  <2> QED
    BY <2>1, NoneAssumption
<1>8. CASE UNCHANGED Abstract!vars
  <2>1. /\ [d \in Vertices |-> IF has_message_next[d] THEN message_next[d] ELSE None]' =
             [d \in Vertices |-> IF has_message_next[d] THEN message_next[d] ELSE None]
        /\ [u \in Threads |-> callOf(send[u])]' = [u \in Threads |-> callOf(send[u])]
    BY <1>8 DEF Abstract!vars
  <2>2. \A d \in Vertices : Arrived(d)' = Arrived(d)
    BY <2>1 DEF Arrived
  <2>3. callOf(send'[t]) = callOf(send[t])
    BY <2>1
  <2> QED
    BY <1>2, <1>3, <1>4, <1>6, <1>7, <2>2, <2>3
<1>9. CASE Abstract!Deliver(t)
  <2> DEFINE boxes == [d \in Vertices |-> IF has_message_next[d] THEN message_next[d] ELSE None]
             calls == [u \in Threads |-> callOf(send[u])]
  <2>1. /\ calls[t] # NoCall
        /\ boxes' = [boxes EXCEPT ![calls[t].to] =
                       IF @ = None THEN calls[t].msg ELSE Combine(@, calls[t].msg)]
        /\ calls' = [calls EXCEPT ![t] = NoCall]
    BY <1>9 DEF Abstract!Deliver, Abstract!Added, Abstract!NoCall
  <2>2. callOf(send[t]) # NoCall /\ callOf(send'[t]) = NoCall
    BY <2>1
  <2>3. send[t].at \notin {"idle", "unlock"} /\ send'[t].at \in {"idle", "unlock"}
    BY <1>6, <1>7, <2>2
  <2>4. calls[t] = [to |-> send[t].to, msg |-> send[t].msg]
    BY <2>3
  <2>5. \A d \in Vertices : boxes[d] = Arrived(d) /\ boxes'[d] = Arrived(d)'
    BY DEF Arrived
  <2>6. boxes \in [Vertices -> {boxes[d] : d \in Vertices}]
    OBVIOUS
  <2> HIDE DEF boxes, calls
  <2>7. ASSUME NEW d \in Vertices
        PROVE  boxes'[d] = IF d = send[t].to
                           THEN IF boxes[d] = None THEN send[t].msg
                                ELSE Combine(boxes[d], send[t].msg)
                           ELSE boxes[d]
    BY <1>2, <2>1, <2>4, <2>6
  <2>8. send[t].msg # None
    BY <1>2, NoneAssumption
  <2>9. \A d \in Vertices : Arrived(d)' =
          IF d = send[t].to THEN Merge(Arrived(d), send[t].msg) ELSE Arrived(d)
    BY <2>5, <2>7, <2>8 DEF Merge
  <2> QED
    BY <1>2, <1>3, <1>4, <2>3, <2>9
<1> QED
  BY <1>1, <1>8, <1>9, SendStepRefines

\* The step of ip_send_message that delivers adds one edge to those along which the
\* message of the broadcast has arrived; no other step adds any.
LEMMA ArrivedStep ==
  ASSUME OrderFree, IntegralMessages, BroadcastInv, ArrivedExact, SendsForBroadcast,
         NEW t \in Threads, SendStep(t), UNCHANGED <<pc, sent, out_neighbours, broadcast>>
  PROVE  ArrivedExact' /\ SendsForBroadcast'
<1>1. /\ SendStep(t)
      /\ UNCHANGED <<pc, sent, out_neighbours, broadcast>>
  OBVIOUS
<1>2. /\ send[t] # Idle /\ send[t].to \in Vertices /\ send[t].msg \in Messages
      /\ \A u \in Threads \ {t} : send'[u] = send[u]
      /\ send'[t] # Idle => send'[t].to = send[t].to /\ send'[t].msg = send[t].msg
      /\ \/ /\ \A d \in Vertices : Arrived(d)' = Arrived(d)
            /\ send[t].at \in {"idle", "unlock"} <=> send'[t].at \in {"idle", "unlock"}
         \/ /\ send[t].at \notin {"idle", "unlock"} /\ send'[t].at \in {"idle", "unlock"}
            /\ \A d \in Vertices : Arrived(d)' =
                 IF d = send[t].to THEN Merge(Arrived(d), send[t].msg) ELSE Arrived(d)
  BY <1>1, StepDelivers
<1>3. Sending(t) /\ \A u \in Threads : Sending(u)' <=> Sending(u)
  BY <1>1, <1>2 DEF SendsForBroadcast, Sending
<1>4. PICK sender : Names(sender) /\ Holds(sender)
  BY <1>3 DEF Sending, ArrivedExact, Names, Holds, AnyAt, ComputeLabels
<1>5. \A u \in Threads, x \in Vertices : Reached(u, x)' = Reached(u, x)
  BY <1>1 DEF Reached
<1>6. Names(sender)'
  <2>1. ASSUME NEW u \in Threads, Sending(u) PROVE BroadcastsFor(u, sender[u])'
    <3>1. sender[u] \in Vertices /\ BroadcastsFor(u, sender[u])
      BY <1>4, <2>1 DEF Names
    <3>2. Reached(u, sender[u])' = Reached(u, sender[u])
      BY <1>5, <3>1
    <3>3. send'[u] # Idle => send[u] # Idle /\ send'[u].to = send[u].to /\ send'[u].msg = send[u].msg
      BY <1>2
    <3> QED
      BY <1>1, <3>1, <3>2, <3>3 DEF BroadcastsFor
  <2> QED
    BY <1>3, <1>4, <2>1 DEF Names
<1>7. SendsForBroadcast'
  BY <1>2, <1>3 DEF SendsForBroadcast
<1>8. \A u \in Threads \ {t}, x \in Vertices : DeliveredUpTo(u, x)' = DeliveredUpTo(u, x)
  BY <1>2, <1>5 DEF DeliveredUpTo
<1>9. CASE /\ \A d \in Vertices : Arrived(d)' = Arrived(d)
           /\ send[t].at \in {"idle", "unlock"} <=> send'[t].at \in {"idle", "unlock"}
  <2>1. \A u \in Threads, x \in Vertices : DeliveredUpTo(u, x)' = DeliveredUpTo(u, x)
    BY <1>5, <1>8, <1>9 DEF DeliveredUpTo
  <2>2. ASSUME NEW d \in Vertices, NEW e \in EdgesInto(out_neighbours, d)
        PROVE  Delivered(sender, e)' <=> Delivered(sender, e)
    <3>1. e[1] \in Vertices
      BY EdgeTypes
    <3> QED
      BY <1>3, <2>1, <3>1 DEF Delivered
  <2>3. Holds(sender)'
    BY <1>1, <1>4, <1>9, <2>2, NothingDelivered
  <2> QED
    BY <1>6, <1>7, <2>3 DEF ArrivedExact, Names, Holds
<1>10. CASE /\ send[t].at \notin {"idle", "unlock"} /\ send'[t].at \in {"idle", "unlock"}
            /\ \A d \in Vertices : Arrived(d)' =
                 IF d = send[t].to THEN Merge(Arrived(d), send[t].msg) ELSE Arrived(d)
  <2>0. PICK w \in Vertices, i \in Int, to \in Vertices :
          w = sender[t] /\ i = Reached(t, w) /\ to = send[t].to
    <3>1. sender[t] \in Vertices /\ Reached(t, sender[t]) \in Int
      BY <1>3, <1>4, BroadcastTypes DEF Names
    <3> QED
      BY <1>2, <3>1
  <2>1. sent[w] = send[t].msg /\ i > 0 /\ to = out_neighbours[w][i]
    BY <1>2, <1>3, <1>4, <2>0 DEF Names, BroadcastsFor
  <2>2. /\ DeliveredUpTo(t, w) = i - 1 /\ DeliveredUpTo(t, w)' = i
        /\ i \in 1 .. Len(out_neighbours[w])
    <3>1. Len(out_neighbours[w]) \in Nat /\ Len(broadcast[t].to) \in Nat
      BY BroadcastTypes
    <3>2. Reached(t, w)' = i
      BY <1>5, <2>0
    <3>3. i = Len(out_neighbours[w]) - Len(broadcast[t].to)
      BY <2>0 DEF Reached
    <3>4. DeliveredUpTo(t, w) = i - 1 /\ DeliveredUpTo(t, w)' = i
      BY <1>10, <2>0, <3>2 DEF DeliveredUpTo
    <3>5. i \in 1 .. Len(out_neighbours[w])
      <4>1. i > 0
        BY <2>1
      <4>2. \A a, b \in Nat : a - b <= a
        OBVIOUS
      <4>3. i <= Len(out_neighbours[w])
        BY <3>1, <3>3, <4>2
      <4> QED
        BY <3>1, <4>1, <4>3
    <3> QED
      BY <3>4, <3>5
  <2>3. sent[w] # None
    BY <1>2, <2>1, NoneAssumption
  <2>4. PICK new \in EdgesInto(out_neighbours, to) : new = <<w, i>>
    <3>1. out_neighbours \in [Vertices -> Seq(Vertices)]
      BY BroadcastTypes
    <3> QED
      BY <2>1, <2>2, <3>1, EdgesIntoFinite
  <2>5. ASSUME NEW d \in Vertices, NEW e \in EdgesInto(out_neighbours, d)
        PROVE  /\ e # new => (Delivered(sender, e)' <=> Delivered(sender, e))
               /\ e = new => Delivered(sender, e)' /\ ~Delivered(sender, e)
    <3>1. e[1] \in Vertices /\ e[2] \in Int /\ e = <<e[1], e[2]>>
      <4>1. e[2] \in 1 .. Len(out_neighbours[e[1]])
        BY EdgeTypes
      <4> QED
        BY <4>1, EdgeTypes
    <3>2. ASSUME e[1] # w PROVE Delivered(sender, e)' <=> Delivered(sender, e)
      BY <1>3, <1>8, <2>0, <3>1, <3>2 DEF Delivered
    <3>3. ASSUME e[1] = w
          PROVE  /\ Delivered(sender, e) <=> e[2] <= i - 1
                 /\ Delivered(sender, e)' <=> e[2] <= i
      <4>1. \A u \in Threads : Sending(u) /\ sender[u] = e[1] <=> u = t
        BY <1>3, <1>4, <2>0, <3>3 DEF Names
      <4> QED
        BY <1>3, <2>2, <3>3, <4>1 DEF Delivered
    <3> QED
      BY <2>2, <2>4, <3>1, <3>2, <3>3
  <2>6. \A d \in Vertices : EdgesInto(out_neighbours, d)' = EdgesInto(out_neighbours, d)
    BY <1>1
  <2>7. \A d \in Vertices :
          /\ ArrivedAlong(sender, d) =
               {e \in EdgesInto(out_neighbours, d) : sent[e[1]] # None /\ Delivered(sender, e)}
          /\ ArrivedAlong(sender, d)' =
               {e \in EdgesInto(out_neighbours, d) : sent[e[1]] # None /\ Delivered(sender, e)'}
    BY <1>1, <2>6 DEF ArrivedAlong, Delivered
  <2>8. new \notin ArrivedAlong(sender, to)
        /\ ArrivedAlong(sender, to)' = ArrivedAlong(sender, to) \cup {new}
    <3>1. sent[new[1]] # None
      BY <2>3, <2>4
    <3>2. \A e \in EdgesInto(out_neighbours, to) :
            /\ e # new => (Delivered(sender, e)' <=> Delivered(sender, e))
            /\ e = new => Delivered(sender, e)' /\ ~Delivered(sender, e)
      BY <2>1, <2>5
    <3> QED
      BY <2>1, <2>4, <2>7, <3>1, <3>2
  <2>9. ASSUME NEW d \in Vertices, d # to
        PROVE  ArrivedAlong(sender, d)' = ArrivedAlong(sender, d)
    <3>1. new \notin EdgesInto(out_neighbours, d)
      BY <2>1, <2>4, <2>9, EdgeTypes
    <3>2. \A e \in EdgesInto(out_neighbours, d) : Delivered(sender, e)' <=> Delivered(sender, e)
      BY <2>5, <3>1
    <3> QED
      BY <2>7, <3>2
  <2>10. CombinedOver(sent, ArrivedAlong(sender, to) \cup {new}) =
           Merge(CombinedOver(sent, ArrivedAlong(sender, to)), sent[w])
    <3>1. /\ IsFiniteSet(ArrivedAlong(sender, to)) /\ Carries(sent, ArrivedAlong(sender, to))
          /\ Carries(sent, EdgesInto(out_neighbours, to))
      BY ArrivedEdges
    <3>2. Carries(sent, ArrivedAlong(sender, to) \cup {new})
      BY <2>4, <3>1 DEF Carries
    <3>3. new[1] = w
      BY <2>4
    <3> QED
      BY <2>8, <3>1, <3>2, <3>3, CombinedAdd
  <2>11. \A d \in Vertices : Arrived(d)' = CombinedOver(sent', ArrivedAlong(sender, d)')
    <3> SUFFICES ASSUME NEW d \in Vertices
                 PROVE  Arrived(d)' = CombinedOver(sent, ArrivedAlong(sender, d)')
      BY <1>1
    <3>1. Arrived(d) = CombinedOver(sent, ArrivedAlong(sender, d))
      BY <1>4 DEF Holds
    <3>2. CASE d = to
      <4>1. Arrived(d)' = Merge(Arrived(d), sent[w])
        BY <1>10, <2>0, <2>1, <3>2
      <4> QED
        BY <2>8, <2>10, <3>1, <3>2, <4>1
    <3>3. CASE d # to
      BY <1>10, <2>0, <2>9, <3>1, <3>3
    <3> QED
      BY <3>2, <3>3
  <2>12. Holds(sender)'
    BY <2>11 DEF Holds
  <2> QED
    BY <1>6, <1>7, <2>12 DEF ArrivedExact, Names, Holds
<1> QED
  BY <1>2, <1>9, <1>10

\* At the end of ip_broadcast its message has arrived along all edges.
LEMMA ArrivedDone ==
  ASSUME BroadcastInv, ArrivedExact, NEW t \in Threads, EndBroadcast(t),
         pc'[t] = "compute", \A u \in Threads \ {t} : pc'[u] = pc[u],
         UNCHANGED <<sent, out_neighbours, mailboxVars>>
  PROVE  ArrivedExact'
<1>1. /\ pc[t] = "send" /\ pc'[t] = "compute" /\ \A u \in Threads \ {t} : pc'[u] = pc[u]
      /\ send[t] = Idle /\ broadcast[t].to = << >>
      /\ \A u \in Threads \ {t} : broadcast'[u] = broadcast[u]
      /\ UNCHANGED <<sent, out_neighbours, mailboxVars, send>>
  <2>1. pc[t] = "send" /\ send[t] = Idle /\ broadcast[t].to = << >>
    BY DEF EndBroadcast, Move
  <2>2. \A u \in Threads \ {t} : broadcast'[u] = broadcast[u]
    BY DEF EndBroadcast, BroadcastInv
  <2> QED
    BY <2>1, <2>2 DEF mailboxVars
<1>2. PICK sender : Names(sender) /\ Holds(sender)
  BY <1>1 DEF ArrivedExact, Names, Holds, AnyAt, ComputeLabels
<1>3. ~Sending(t)' /\ \A u \in Threads \ {t} : Sending(u)' <=> Sending(u)
  BY <1>1 DEF Sending
<1>4. \A u \in Threads \ {t}, x \in Vertices :
        Reached(u, x)' = Reached(u, x) /\ DeliveredUpTo(u, x)' = DeliveredUpTo(u, x)
  BY <1>1 DEF Reached, DeliveredUpTo
<1>5. Names(sender)'
  <2>1. ASSUME NEW u \in Threads \ {t}, Sending(u) PROVE BroadcastsFor(u, sender[u])'
    <3>1. sender[u] \in Vertices /\ BroadcastsFor(u, sender[u])
      BY <1>2, <2>1 DEF Names
    <3>2. Reached(u, sender[u])' = Reached(u, sender[u])
      BY <1>4, <3>1
    <3> QED
      BY <1>1, <3>1, <3>2 DEF BroadcastsFor
  <2> QED
    BY <1>2, <1>3, <2>1 DEF Names
<1>6. Holds(sender)'
  <2>1. ASSUME NEW d \in Vertices, NEW e \in EdgesInto(out_neighbours, d)
        PROVE  Delivered(sender, e)' <=> Delivered(sender, e)
    <3>1. e[1] \in Vertices /\ e[2] \in 1 .. Len(out_neighbours[e[1]])
      BY EdgeTypes
    <3>2. DeliveredUpTo(t, e[1]) = Len(out_neighbours[e[1]]) /\ Len(out_neighbours[e[1]]) \in Nat
      <4>1. Len(out_neighbours[e[1]]) \in Nat
        BY <3>1, BroadcastTypes
      <4>2. Len(broadcast[t].to) = 0
        BY <1>1
      <4> QED
        BY <1>1, <4>1, <4>2 DEF DeliveredUpTo, Reached, Idle
    <3>3. e[2] <= DeliveredUpTo(t, e[1])
      BY <3>1, <3>2
    <3> QED
      BY <1>3, <1>4, <3>1, <3>3 DEF Delivered
  <2> QED
    BY <1>1, <1>2, <2>1, NothingDelivered, ArrivedUnchanged
<1> QED
  BY <1>5, <1>6 DEF ArrivedExact, Names, Holds

\* The other steps of the compute loop.
LEMMA ArrivedPass ==
  ASSUME ArrivedExact, NEW t \in Threads,
         pc[t] = "compute", pc'[t] # "send", \A u \in Threads \ {t} : pc'[u] = pc[u],
         UNCHANGED <<sent, out_neighbours, mailboxVars, broadcast>>
  PROVE  ArrivedExact'
<1>2. PICK sender : Names(sender) /\ Holds(sender)
  BY DEF ArrivedExact, Names, Holds, AnyAt, ComputeLabels
<1>3. \A u \in Threads : Sending(u)' <=> Sending(u)
  BY DEF Sending
<1>4. Names(sender)' /\ Holds(sender)'
  BY <1>2, <1>3, NamesKept
<1> QED
  BY <1>4 DEF ArrivedExact, Names, Holds

\* Calls that nobody touches stay part of a broadcast.
LEMMA SendsKept ==
  ASSUME SendsForBroadcast, UNCHANGED send,
         \A u \in Threads : send[u] = Idle \/ (Sending(u)' <=> Sending(u))
  PROVE  SendsForBroadcast'
BY DEF SendsForBroadcast

\* When every thread has left the compute loop, no broadcast is under way.
LEMMA LoopDelivered ==
  ASSUME OrderFree, BroadcastInv, ArrivedExact
  PROVE  BroadcastDelivered
<1> SUFFICES ASSUME AllAt("compute_done"), NEW d \in Vertices
             PROVE  Arrived(d) = Received(out_neighbours, sent, d)
  BY DEF BroadcastDelivered
<1>1. AnyAt(ComputeLabels)
  BY ThreadsAssumption DEF AllAt, AnyAt, ComputeLabels
<1>2. PICK sender : Names(sender) /\ Holds(sender)
  BY <1>1 DEF ArrivedExact, Names, Holds
<1> DEFINE all == EdgesInto(out_neighbours, d)
           along == ArrivedAlong(sender, d)
<1>3. \A t \in Threads : ~Sending(t)
  BY DEF AllAt, Sending
<1>4. along \subseteq all /\ \A e \in all \ along : sent[e[1]] = None
  BY <1>3 DEF ArrivedAlong
<1>5. IsFiniteSet(all) /\ Carries(sent, all)
  BY ArrivedEdges
<1>6. Arrived(d) = CombinedOver(sent, along)
  BY <1>2 DEF Holds
<1> HIDE DEF all, along
<1>7. CombinedOver(sent, all) = CombinedOver(sent, along)
  BY <1>4, <1>5, CombinedSkip
<1> QED
  BY <1>6, <1>7 DEF Received, all

=============================================================================
