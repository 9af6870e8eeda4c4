------------------------------- MODULE Combiner -------------------------------
(***************************************************************************)
(* The push version of iPregel (combiner_preamble.h,                       *)
(* combiner_postamble.h): the superstep loop of ip_run as the threads of a *)
(* team execute it, with the mailboxes of module Mailbox.  Steps that only *)
(* touch the vertex a thread is processing are one action; every access to *)
(* a mailbox of another vertex and to ip_active_vertices is one of its own.*)
(***************************************************************************)
EXTENDS Broadcasts

VARIABLES
  active,              \* [v]: v has not voted to halt
  ip_active_vertices,
  partial              \* [t]: t's share of the reduction over ip_active_vertices

countVars == <<ip_active_vertices, partial>>
vars == <<teamVars, engineVars, mailboxVars, active, countVars, broadcast>>

\* ip_load_graph sets ip_active_vertices to the number of vertices.
Init ==
  /\ TeamInit("while")
  /\ EngineInit
  /\ MailboxInit
  /\ active = [v \in Vertices |-> TRUE]
  /\ ip_active_vertices = Cardinality(Vertices)
  /\ partial = [t \in Threads |-> 0]
  /\ broadcast = [t \in Threads |-> NoBroadcast]

------------------------------------------------------------------------------
(* The head of the loop.                                                   *)

\* while(ip_active_vertices != 0): each thread reads the shared counter.
While(t) ==
  /\ Move(t, "while", IF ip_active_vertices # 0 THEN "entered" ELSE "exit")
  /\ UNCHANGED <<claimed, todo, engineVars, mailboxVars, active, countVars, broadcast>>

\* Mutant of EnterLoop: no barrier behind the test of the counter.
EnterAlone ==
  /\ \E t \in Threads : Move(t, "entered", "start")
  /\ UNCHANGED <<claimed, todo, engineVars, mailboxVars, active, countVars, broadcast>>

\* The barrier that keeps the counter unchanged until every thread has read it.
EnterLoop ==
  /\ Barrier("entered", "start", {})
  /\ UNCHANGED <<engineVars, mailboxVars, active, countVars, broadcast>>

StartSingle(t) ==
  /\ EnterSingle(t, "start", "start_done")
  /\ ip_active_vertices' = 0
  /\ UNCHANGED <<engineVars, mailboxVars, active, partial, broadcast>>

SkipStart(t) ==
  /\ SkipSingle(t, "start", "start_done")
  /\ UNCHANGED <<engineVars, mailboxVars, active, countVars, broadcast>>

BeginCompute ==
  /\ Barrier("start_done", "compute", Vertices)
  /\ NewHistory
  /\ UNCHANGED <<jobVars, boxVars, value, ip_superstep, mailboxVars, active, countVars, broadcast>>

------------------------------------------------------------------------------
(* The compute loop.                                                       *)

Runnable(v) == active[v] \/ has_message[v]

\* An iteration on a vertex that runs, up to the sends of its ip_broadcast:
\* what ip_compute and ip_vote_to_halt do to the vertex, and the count of the
\* vertices still active.
ComputeVertex(t, v) ==
  /\ Move(t, "compute", "send")
  /\ TakeIteration(v)
  /\ Runnable(v)
  /\ \E outcome \in Outcomes(v) :
       /\ RunVertex(v, outcome)
       /\ active' = [active EXCEPT ![v] = ~outcome.halts]
       /\ partial' = [partial EXCEPT ![t] = IF outcome.halts THEN @ ELSE @ + 1]
       /\ StartBroadcast(t, v, outcome)
  /\ UNCHANGED <<mailboxVars, ip_active_vertices>>

\* An iteration on a vertex that is halted and has no message.
PassVertex(t, v) ==
  /\ Move(t, "compute", "compute")
  /\ TakeIteration(v)
  /\ ~Runnable(v)
  /\ UNCHANGED <<engineVars, mailboxVars, active, countVars, broadcast>>

BroadcastNext(t) ==
  /\ SendToNext(t)
  /\ UNCHANGED <<teamVars, engineVars, active, countVars>>

\* A step inside ip_send_message.
BroadcastStep(t) ==
  /\ SendStep(t)
  /\ UNCHANGED <<teamVars, engineVars, active, countVars, broadcast>>

\* Mutant of BroadcastDone: the loop of ip_broadcast ends one neighbour early.
BroadcastCutShort(t) ==
  /\ Move(t, "send", "compute")
  /\ send[t] = Idle
  /\ Len(broadcast[t].to) <= 1
  /\ broadcast' = [broadcast EXCEPT ![t] = NoBroadcast]
  /\ UNCHANGED <<claimed, todo, engineVars, mailboxVars, active, countVars>>

BroadcastDone(t) ==
  /\ EndBroadcast(t)
  /\ UNCHANGED <<claimed, todo, engineVars, mailboxVars, active, countVars>>

\* The end of a loop for one thread: its count goes into ip_active_vertices.
Reduce(t) ==
  /\ ip_active_vertices' = ip_active_vertices + partial[t]
  /\ partial' = [partial EXCEPT ![t] = 0]

LeaveCompute(t) ==
  /\ LeaveLoop(t, "compute", "compute_done", {"compute", "send"})
  /\ Reduce(t)
  /\ UNCHANGED <<engineVars, mailboxVars, active, broadcast>>

------------------------------------------------------------------------------
(* The mailbox update and the end of the superstep.                        *)

\* Mutant of BeginSwap: "nowait" on the compute loop.
SwapWithoutWaiting ==
  /\ AnyAt({"compute_done"})
  /\ todo = {}
  /\ todo' = Vertices
  /\ pc' = [t \in Threads |-> IF pc[t] = "compute_done" THEN "swap" ELSE pc[t]]
  /\ UNCHANGED <<claimed, engineVars, mailboxVars, active, countVars, broadcast>>

BeginSwap ==
  /\ Barrier("compute_done", "swap", Vertices)
  /\ UNCHANGED <<engineVars, mailboxVars, active, countVars, broadcast>>

\* Mutant of SwapMailbox: every receiver is counted, active or not.
SwapRecount(t, v) ==
  /\ Move(t, "swap", "swap")
  /\ TakeIteration(v)
  /\ ClearNext(v)
  /\ has_message' = [has_message EXCEPT ![v] = TRUE]
  /\ message' = [message EXCEPT ![v] = message_next[v]]
  /\ active' = [active EXCEPT ![v] = TRUE]
  /\ partial' = [partial EXCEPT ![t] = @ + 1]
  /\ UNCHANGED <<jobVars, value, ip_superstep, historyVars, ip_active_vertices, broadcast>>

\* Mutant of SwapMailbox: the flag of the mailbox is not tested.
SwapUntested(t, v) ==
  /\ Move(t, "swap", "swap")
  /\ TakeIteration(v)
  /\ has_message_next' = [has_message_next EXCEPT ![v] = FALSE]
  /\ has_message' = [has_message EXCEPT ![v] = TRUE]
  /\ message' = [message EXCEPT ![v] = message_next[v]]
  /\ active' = [active EXCEPT ![v] = TRUE]
  /\ partial' = [partial EXCEPT ![t] = IF active[v] THEN @ ELSE @ + 1]
  /\ UNCHANGED <<message_next, lock, send, jobVars, value, ip_superstep,
                 historyVars, ip_active_vertices, broadcast>>

\* An iteration on a vertex that received something.
SwapMailbox(t, v) ==
  /\ Move(t, "swap", "swap")
  /\ TakeIteration(v)
  /\ ClearNext(v)
  /\ has_message' = [has_message EXCEPT ![v] = TRUE]
  /\ message' = [message EXCEPT ![v] = message_next[v]]
  /\ active' = [active EXCEPT ![v] = TRUE]
  /\ partial' = [partial EXCEPT ![t] = IF active[v] THEN @ ELSE @ + 1]
  /\ UNCHANGED <<jobVars, value, ip_superstep, historyVars, ip_active_vertices, broadcast>>

PassMailbox(t, v) ==
  /\ Move(t, "swap", "swap")
  /\ TakeIteration(v)
  /\ ~has_message_next[v]
  /\ UNCHANGED <<engineVars, mailboxVars, active, countVars, broadcast>>

LeaveSwap(t) ==
  /\ LeaveLoop(t, "swap", "swap_done", {"swap"})
  /\ Reduce(t)
  /\ UNCHANGED <<engineVars, mailboxVars, active, broadcast>>

BeginFinish ==
  /\ Barrier("swap_done", "finish", {})
  /\ UNCHANGED <<engineVars, mailboxVars, active, countVars, broadcast>>

EndSuperstep(t) ==
  /\ FinishSingle(t) \/ SkipFinish(t)
  /\ UNCHANGED <<mailboxVars, active, countVars, broadcast>>

NextIteration ==
  /\ Barrier("finish_done", "while", {})
  /\ UNCHANGED <<engineVars, mailboxVars, active, countVars, broadcast>>

------------------------------------------------------------------------------
ThreadStep(t) ==
  \/ While(t)
  \/ StartSingle(t) \/ SkipStart(t)
  \/ \E v \in Vertices : ComputeVertex(t, v) \/ PassVertex(t, v)
  \/ BroadcastNext(t) \/ BroadcastStep(t) \/ BroadcastDone(t)
  \/ LeaveCompute(t)
  \/ \E v \in Vertices : SwapMailbox(t, v) \/ PassMailbox(t, v)
  \/ LeaveSwap(t)
  \/ EndSuperstep(t)

BarrierStep == EnterLoop \/ BeginCompute \/ BeginSwap \/ BeginFinish \/ NextIteration

Next ==
  \/ \E t \in Threads : ThreadStep(t)
  \/ BarrierStep
  \/ Terminated /\ UNCHANGED vars

Spec == Init /\ [][Next]_vars

\* Every thread runs until it waits at a barrier, and barriers release.
FairSpec ==
  Spec /\ WF_vars(BarrierStep) /\ \A t \in Threads : WF_vars(ThreadStep(t))

------------------------------------------------------------------------------
(* Properties.                                                             *)

PCs == {"while", "entered", "start", "start_done", "compute", "send", "compute_done",
        "swap", "swap_done", "finish", "finish_done", "exit"}

TypeOK ==
  /\ pc \in [Threads -> PCs]
  /\ claimed \in BOOLEAN
  /\ todo \in SUBSET Vertices
  /\ EngineTypeOK
  /\ MailboxTypeOK
  /\ active \in [Vertices -> BOOLEAN]
  /\ ip_active_vertices \in Nat
  /\ partial \in [Threads -> Nat]
  /\ broadcast \in [Threads -> [message : Messages \cup {None}, to : Seq(Vertices)]]

\* Every thread takes the same decision at the head of the loop: no thread leaves
\* ip_run's loop for good while another is about to go round again, and one that
\* goes round again is not left alone at the barrier.
LoopAgreement ==
  AnyAt({"exit"}) => \A t \in Threads : pc[t] \in {"while", "exit"}

\* When the threads are at the head of the loop, ip_active_vertices is the number
\* of active vertices: the two reductions and the reset count every one of them
\* exactly once, a vertex that stays active and receives a message included.
ActiveCount ==
  AnyAt({"while", "entered", "exit"}) =>
    ip_active_vertices = Cardinality({v \in Vertices : active[v]})

\* The labels between two barriers: all threads are within one of these sets.
Phases == {{"while", "entered", "exit"}, {"start", "start_done"},
           {"compute", "send", "compute_done"}, {"swap", "swap_done"},
           {"finish", "finish_done"}}

\* The barriers keep the threads together.
SamePhase == Together(Phases)

\* The threads that have tested the counter saw the value it still has.
HeadAgrees ==
  \A t \in Threads : /\ pc[t] = "entered" => ip_active_vertices # 0
                     /\ pc[t] = "exit" => ip_active_vertices = 0

\* What LoopAgreement and UsesMailboxes follow from, one step after the other.
CombinerInv ==
  TypeOK /\ MailboxInv /\ SamePhase /\ HeadAgrees /\ SendsInLoop /\ BroadcastHasMessage

\* The labels at which a thread is inside a loop.
LoopLabels == {"compute", "send", "swap"}

\* A thread behind a single region knows that some thread has entered it.
SingleEntered == AnyAt({"start_done", "finish_done"}) => claimed

\* Iterations are left only while a thread is there to take them.
NobodyLeavesWork == todo # {} => AnyAt(LoopLabels)

\* A thread outside the loops has added its share to the counter.
SharesAdded == \A t \in Threads : pc[t] \notin LoopLabels => partial[t] = 0

\* The vertices counted so far: those that stayed active, and in the mailbox
\* update those that became active.
Tally == {v \in Vertices : active[v] /\ (AnyAt(ComputeLabels) => v \notin todo)}

\* The counter and the shares count each of them once; at the head of a superstep
\* the counter starts again from 0.
CountExact ==
  IF AnyAt({"start", "start_done"}) THEN claimed => ip_active_vertices = 0
  ELSE Counts(Tally, ip_active_vertices, partial)

\* What ActiveCount follows from.
CountInv == SingleEntered /\ NobodyLeavesWork /\ SharesAdded /\ CountExact

\* Outside the compute loop only a mailbox that is still to be swapped is full.
MailboxesSwapped ==
  \A d \in Vertices : has_message_next[d] =>
    AnyAt(ComputeLabels) \/ (AnyAt({"swap"}) /\ d \in todo)

\* In the compute loop, a vertex has run, is still to be looked at, or was passed
\* because it is not to run; only one that has run has broadcast; and a superstep
\* runs at least one vertex.
RunsOnce ==
  AnyAt(ComputeLabels) =>
    /\ ran \cap todo = {}
    /\ \A v \in Vertices \ (ran \cup todo) : ~Runnable(v)
    /\ \A v \in Vertices \ ran : sent[v] = None
    /\ ran # {} \/ \E v \in todo : active[v]

\* A superstep begins because a vertex is active.
SomeActive == AnyAt({"entered", "start", "start_done"}) => \E v \in Vertices : active[v]

\* What BroadcastDelivered and ImplementsBSP follow from.
DeliveryInv ==
  MailboxesSwapped /\ RunsOnce /\ SomeActive /\ SendsForBroadcast /\ ArrivedExact

\* The run ends.
Termination == <>Terminated

\* The phases in which the new mailboxes are those of the next superstep.
Swapping == AnyAt({"swap", "swap_done"})
Finishing == AnyAt({"finish", "finish_done"})
Computing == AnyAt({"compute", "send"}) \/ AllAt("compute_done")

\* The abstract superstep changes when the compute loop's barrier opens; from
\* then on the mailbox to read is message_next until it is swapped.
absActive == [v \in Vertices |-> active[v] \/ (Swapping /\ has_message_next[v])]
absInbox == [v \in Vertices |->
  IF Swapping /\ has_message_next[v] THEN message_next[v] ELSE NextMessage(v)]
Superstep == INSTANCE BSP WITH
  KeepsUnread <- TRUE,
  VotesCount <- TRUE,
  superstep <- IF Swapping \/ (Finishing /\ ~claimed) THEN ip_superstep + 1
               ELSE ip_superstep,
  active <- absActive,
  inbox <- absInbox,
  sent <- IF Computing THEN sent ELSE Nothing,
  ran <- IF Computing THEN ran ELSE {},
  returned <- AnyAt({"exit"})

\* However the threads interleave and whatever ip_compute does, ip_run computes
\* what the superstep semantics says: every vertex runs once per superstep, on
\* exactly the combination of what its in-neighbours broadcast in the superstep
\* before, or on an older message it left unread; and ip_run returns exactly when
\* no vertex is active.
ImplementsBSP == Superstep!Spec

\* The mailboxes are used as module Mailbox assumes: a mailbox is emptied only
\* when no thread is inside ip_send_message.
UsesMailboxes == MailboxSpec
==============================================================================
