---------------------------- MODULE CombinerSpread ----------------------------
(***************************************************************************)
(* The push version with a list of the vertices to run                     *)
(* (combiner_spread_preamble.h, combiner_spread_postamble.h): the thread   *)
(* that writes the first message of a vertex adds the vertex to a list of  *)
(* its own, and a single region merges the lists.  A vertex has no active  *)
(* flag in use: ip_vote_to_halt does nothing.                              *)
(***************************************************************************)
EXTENDS Broadcasts

VARIABLES
  ip_active_vertices,
  ip_all_spread_vertices_omp,  \* [t]: the vertices t wrote the first message of
  ip_all_spread_vertices,      \* the vertices to run, merged
  max_size                     \* how many vertices the merged list has room for

listVars == <<ip_all_spread_vertices_omp, ip_all_spread_vertices, max_size>>
vars == <<teamVars, engineVars, mailboxVars, ip_active_vertices, broadcast, listVars>>

\* ip_init_specific gives the merged list room for one vertex.
Init ==
  /\ TeamInit("while")
  /\ EngineInit
  /\ MailboxInit
  /\ ip_active_vertices = Cardinality(Vertices)
  /\ broadcast = [t \in Threads |-> NoBroadcast]
  /\ ip_all_spread_vertices_omp = [t \in Threads |-> << >>]
  /\ ip_all_spread_vertices = << >>
  /\ max_size = 1

\* What the compute loop runs: every vertex in the first superstep, then the list.
ToRun == IF ip_superstep = 0 THEN Enumeration(Vertices) ELSE ip_all_spread_vertices

------------------------------------------------------------------------------
(* The head of the loop.                                                   *)

\* while(ip_is_first_superstep() || ip_active_vertices > 0).
While(t) ==
  /\ Move(t, "while",
          IF ip_superstep = 0 \/ ip_active_vertices > 0 THEN "entered" ELSE "exit")
  /\ UNCHANGED <<claimed, todo, engineVars, mailboxVars, ip_active_vertices, broadcast, listVars>>

\* The barrier that keeps the counter unchanged until every thread has read it.
EnterLoop ==
  /\ Barrier("entered", "start", {})
  /\ UNCHANGED <<engineVars, mailboxVars, ip_active_vertices, broadcast, listVars>>

StartSingle(t) ==
  /\ EnterSingle(t, "start", "start_done")
  /\ ip_active_vertices' = 0
  /\ UNCHANGED <<engineVars, mailboxVars, broadcast, listVars>>

SkipStart(t) ==
  /\ SkipSingle(t, "start", "start_done")
  /\ UNCHANGED <<engineVars, mailboxVars, ip_active_vertices, broadcast, listVars>>

BeginCompute ==
  /\ Barrier("start_done", "compute", DOMAIN ToRun)
  /\ NewHistory
  /\ UNCHANGED <<jobVars, boxVars, value, ip_superstep, mailboxVars,
                 ip_active_vertices, broadcast, listVars>>

------------------------------------------------------------------------------
(* The compute loop.                                                       *)

\* An iteration, up to the sends of ip_broadcast.
ComputeVertex(t, i) ==
  /\ Move(t, "compute", "send")
  /\ TakeIteration(i)
  /\ LET v == ToRun[i]
     IN \E outcome \in Outcomes(v) :
          /\ RunVertex(v, outcome)
          /\ StartBroadcast(t, v, outcome)
  /\ UNCHANGED <<mailboxVars, ip_active_vertices, listVars>>

BroadcastNext(t) ==
  /\ SendToNext(t)
  /\ UNCHANGED <<teamVars, engineVars, ip_active_vertices, listVars>>

\* Mutant of BroadcastStep: the vertex is listed by later senders too.
StepListsAlways(t) ==
  /\ SendStep(t)
  /\ ip_all_spread_vertices_omp' = [ip_all_spread_vertices_omp EXCEPT ![t] =
       IF send[t].at \in {"unlock", "cas_load"} THEN Append(@, send[t].to) ELSE @]
  /\ UNCHANGED <<teamVars, engineVars, ip_active_vertices, broadcast,
                 ip_all_spread_vertices, max_size>>

\* A step inside ip_send_message; the thread that wrote the first message adds
\* the vertex to its list (ip_add_spread_vertex) after releasing the lock.
BroadcastStep(t) ==
  /\ SendStep(t)
  /\ ip_all_spread_vertices_omp' = [ip_all_spread_vertices_omp EXCEPT ![t] =
       IF At(t, "unlock") THEN Append(@, send[t].to) ELSE @]
  /\ UNCHANGED <<teamVars, engineVars, ip_active_vertices, broadcast,
                 ip_all_spread_vertices, max_size>>

BroadcastDone(t) ==
  /\ EndBroadcast(t)
  /\ UNCHANGED <<claimed, todo, engineVars, mailboxVars, ip_active_vertices, listVars>>

LeaveCompute(t) ==
  /\ LeaveLoop(t, "compute", "compute_done", {"compute", "send"})
  /\ UNCHANGED <<engineVars, mailboxVars, ip_active_vertices, broadcast, listVars>>

------------------------------------------------------------------------------
(* Counting and merging.                                                   *)

EndCompute ==
  /\ Barrier("compute_done", "count", {})
  /\ UNCHANGED <<engineVars, mailboxVars, ip_active_vertices, broadcast, listVars>>

\* The atomic addition of the length of the thread's list.
Count(t) ==
  /\ Move(t, "count", "counted")
  /\ ip_active_vertices' = ip_active_vertices + Len(ip_all_spread_vertices_omp[t])
  /\ UNCHANGED <<claimed, todo, engineVars, mailboxVars, broadcast, listVars>>

\* Mutant of EndCount: no barrier between counting and merging.
MergeWithoutWaiting ==
  /\ \E t \in Threads : Move(t, "counted", "merge")
  /\ UNCHANGED <<claimed, todo, engineVars, mailboxVars, ip_active_vertices, broadcast, listVars>>

\* The barrier that lets nobody merge before everybody has counted.
EndCount ==
  /\ Barrier("counted", "merge", {})
  /\ UNCHANGED <<engineVars, mailboxVars, ip_active_vertices, broadcast, listVars>>

\* The lists of all threads, one behind the other.
Concatenation(lists) ==
  LET threads == Enumeration(Threads)
      merged[n \in 0 .. Len(threads)] ==
        IF n = 0 THEN << >> ELSE merged[n - 1] \o lists[threads[n]]
  IN merged[Len(threads)]

\* Mutant of MergeSingle: the lists of the threads are not emptied.
MergeKeepsLists(t) ==
  /\ EnterSingle(t, "merge", "merge_done")
  /\ max_size' = IF max_size < ip_active_vertices THEN ip_active_vertices ELSE max_size
  /\ ip_all_spread_vertices' = Concatenation(ip_all_spread_vertices_omp)
  /\ UNCHANGED <<ip_all_spread_vertices_omp, engineVars, mailboxVars, ip_active_vertices,
                 broadcast>>

\* One thread copies the lists one behind the other and empties them.
MergeSingle(t) ==
  /\ EnterSingle(t, "merge", "merge_done")
  /\ max_size' = IF max_size < ip_active_vertices THEN ip_active_vertices ELSE max_size
  /\ ip_all_spread_vertices' = Concatenation(ip_all_spread_vertices_omp)
  /\ ip_all_spread_vertices_omp' = [u \in Threads |-> << >>]
  /\ UNCHANGED <<engineVars, mailboxVars, ip_active_vertices, broadcast>>

SkipMerge(t) ==
  /\ SkipSingle(t, "merge", "merge_done")
  /\ UNCHANGED <<engineVars, mailboxVars, ip_active_vertices, broadcast, listVars>>

------------------------------------------------------------------------------
(* The mailbox update and the end of the superstep.                        *)

BeginSwap ==
  /\ Barrier("merge_done", "swap", DOMAIN ip_all_spread_vertices)
  /\ UNCHANGED <<engineVars, mailboxVars, ip_active_vertices, broadcast, listVars>>

\* Mutant of SwapMailbox: the flag of the mailbox is left set.
SwapKeepsFlag(t, i) ==
  /\ Move(t, "swap", "swap")
  /\ TakeIteration(i)
  /\ LET v == ip_all_spread_vertices[i]
     IN /\ has_message' = [has_message EXCEPT ![v] = TRUE]
        /\ message' = [message EXCEPT ![v] = message_next[v]]
  /\ UNCHANGED <<jobVars, value, ip_superstep, historyVars, mailboxVars,
                 ip_active_vertices, broadcast, listVars>>

\* Only the listed vertices are updated, and their flag is not tested.
SwapMailbox(t, i) ==
  /\ Move(t, "swap", "swap")
  /\ TakeIteration(i)
  /\ LET v == ip_all_spread_vertices[i]
     IN /\ has_message' = [has_message EXCEPT ![v] = TRUE]
        /\ message' = [message EXCEPT ![v] = message_next[v]]
        /\ has_message_next' = [has_message_next EXCEPT ![v] = FALSE]
  /\ UNCHANGED <<jobVars, value, ip_superstep, historyVars, message_next, lock,
                 send, ip_active_vertices, broadcast, listVars>>

LeaveSwap(t) ==
  /\ LeaveLoop(t, "swap", "swap_done", {"swap"})
  /\ UNCHANGED <<engineVars, mailboxVars, ip_active_vertices, broadcast, listVars>>

BeginFinish ==
  /\ Barrier("swap_done", "finish", {})
  /\ UNCHANGED <<engineVars, mailboxVars, ip_active_vertices, broadcast, listVars>>

EndSuperstep(t) ==
  /\ FinishSingle(t) \/ SkipFinish(t)
  /\ UNCHANGED <<mailboxVars, ip_active_vertices, broadcast, listVars>>

NextIteration ==
  /\ Barrier("finish_done", "while", {})
  /\ UNCHANGED <<engineVars, mailboxVars, ip_active_vertices, broadcast, listVars>>

------------------------------------------------------------------------------
ThreadStep(t) ==
  \/ While(t)
  \/ StartSingle(t) \/ SkipStart(t)
  \/ \E i \in todo : ComputeVertex(t, i)
  \/ BroadcastNext(t) \/ BroadcastStep(t) \/ BroadcastDone(t)
  \/ LeaveCompute(t)
  \/ Count(t)
  \/ MergeSingle(t) \/ SkipMerge(t)
  \/ \E i \in todo : SwapMailbox(t, i)
  \/ LeaveSwap(t)
  \/ EndSuperstep(t)

BarrierStep ==
  \/ EnterLoop \/ BeginCompute \/ EndCompute \/ EndCount \/ BeginSwap \/ BeginFinish
  \/ NextIteration

Next ==
  \/ \E t \in Threads : ThreadStep(t)
  \/ BarrierStep
  \/ Terminated /\ UNCHANGED vars

Spec == Init /\ [][Next]_vars

\* Every thread runs until it waits at a barrier, and barriers release.
FairSpec ==
  Spec /\ WF_vars(BarrierStep) /\ \A t \in Threads : WF_vars(ThreadStep(t))

------------------------------------------------------------------------------
(* Properties.                                                             *)

PCs == {"while", "entered", "start", "start_done", "compute", "send", "compute_done",
        "count", "counted", "merge", "merge_done", "swap", "swap_done", "finish",
        "finish_done", "exit"}

TypeOK ==
  /\ pc \in [Threads -> PCs]
  /\ claimed \in BOOLEAN
  /\ todo \in SUBSET (1 .. Cardinality(Vertices))
  /\ EngineTypeOK
  /\ MailboxTypeOK
  /\ ip_active_vertices \in Nat
  /\ broadcast \in [Threads -> [message : Messages \cup {None}, to : Seq(Vertices)]]
  /\ ip_all_spread_vertices_omp \in [Threads -> Seq(Vertices)]
  /\ ip_all_spread_vertices \in Seq(Vertices)
  /\ max_size \in Nat

\* The merged list holds every vertex that received a message exactly once,
\* whichever thread wrote the first message; a vertex missing from it would keep
\* its message and its flag for ever, and one listed twice would run twice.
SpreadListExact ==
  AllAt("merge_done") =>
    /\ \A d \in Vertices : has_message_next[d] <=>
         \E i \in DOMAIN ip_all_spread_vertices : ip_all_spread_vertices[i] = d
    /\ \A i, j \in DOMAIN ip_all_spread_vertices :
         ip_all_spread_vertices[i] = ip_all_spread_vertices[j] => i = j

\* The merge never writes beyond the merged list, which grows to
\* ip_active_vertices: every thread has counted before one merges.
MergeFits == Len(ip_all_spread_vertices) <= max_size

\* The labels between two barriers: all threads are within one of these sets.
HeadLabels == {"while", "entered", "exit"}
StartLabels == {"start", "start_done"}
CountLabels == {"count", "counted"}
MergeLabels == {"merge", "merge_done"}
SwapLabels == {"swap", "swap_done"}
FinishLabels == {"finish", "finish_done"}
Phases == {HeadLabels, StartLabels, ComputeLabels, CountLabels, MergeLabels, SwapLabels,
           FinishLabels}

\* The barriers keep the threads together.
SamePhase == Together(Phases)

\* A thread behind a single region knows that some thread has entered it.
SingleEntered == AnyAt({"start_done", "merge_done", "finish_done"}) => claimed

\* Iterations are left only while a thread is there to take them, and they are
\* positions of the list that the loop goes over.
IterationsLeft ==
  /\ todo # {} => AnyAt({"compute", "send", "swap"})
  /\ AnyAt(ComputeLabels) => todo \subseteq DOMAIN ToRun
  /\ AnyAt(SwapLabels) => todo \subseteq DOMAIN ip_all_spread_vertices

\* The merged list names no vertex twice.
Once(list) == \A i, j \in DOMAIN list : list[i] = list[j] => i = j
ListedOnce == Once(ip_all_spread_vertices)

\* Where the threads are and what they hold: TypeOK follows from it, together with
\* SpreadInv.
TeamInv ==
  /\ SamePhase
  /\ SingleEntered
  /\ IterationsLeft
  /\ SendsInLoop
  /\ BroadcastHasMessage
  /\ ListedOnce

\* The vertices of a list; those that thread t has listed, and the one that it is
\* about to list, whose flag it has set.
Elements(list) == {list[i] : i \in DOMAIN list}
Collected(t) == Elements(ip_all_spread_vertices_omp[t])
ToList(t, d) == At(t, "unlock") /\ send[t].to = d

\* The threads' lists have been merged.
Merged == (AnyAt(MergeLabels) /\ claimed) \/ AnyAt(SwapLabels)

\* The vertices of the merged list whose mailbox is still to be updated.
ToSwap ==
  IF AnyAt(SwapLabels) THEN {ip_all_spread_vertices[i] : i \in todo}
  ELSE Elements(ip_all_spread_vertices)

\* A vertex is in the list of one thread at most, once, and the thread that is about
\* to list it finds it in none.
CollectedOnce ==
  \A t \in Threads :
    /\ Once(ip_all_spread_vertices_omp[t])
    /\ \A u \in Threads, d \in Vertices :
         d \in Collected(t) => (u = t \/ d \notin Collected(u)) /\ ~ToList(u, d)

\* The mailboxes that are full are those of the vertices in the lists, or about to
\* be, before the merge, and those still to be updated behind it.
FullAreListed ==
  \A d \in Vertices : has_message_next[d] <=>
    \/ \E t \in Threads : d \in Collected(t) \/ ToList(t, d)
    \/ Merged /\ d \in ToSwap

\* The threads' lists are empty outside the compute loop and the merge behind it.
ListsUsed ==
  \/ AnyAt(ComputeLabels \cup CountLabels)
  \/ AnyAt(MergeLabels) /\ ~claimed
  \/ \A t \in Threads : ip_all_spread_vertices_omp[t] = << >>

\* ip_active_vertices counts the vertices in the lists of the threads that have added
\* theirs, each once, until the lists are merged; then it is the length of the list.
CountedBy(t) == pc[t] = "counted" \/ pc[t] \in MergeLabels
CountExact ==
  IF AnyAt(StartLabels) THEN claimed => ip_active_vertices = 0
  ELSE IF AnyAt(ComputeLabels) THEN ip_active_vertices = 0
  ELSE IF AnyAt(CountLabels) \/ (AnyAt(MergeLabels) /\ ~claimed)
  THEN ip_active_vertices =
         Cardinality(UNION {Collected(t) : t \in {u \in Threads : CountedBy(u)}})
  ELSE \/ AnyAt(HeadLabels) /\ ip_superstep = 0
       \/ ip_active_vertices = Len(ip_all_spread_vertices)

\* What SpreadListExact and MergeFits follow from.
SpreadInv ==
  /\ CollectedOnce
  /\ FullAreListed
  /\ ListsUsed
  /\ CountExact
  /\ MergeFits

\* In the compute loop the vertices of the list have run or are still to run, each
\* once, and nobody else has broadcast.
Left == {ToRun[i] : i \in todo}
RunsOnce ==
  AnyAt(ComputeLabels) =>
    /\ ran \cap Left = {}
    /\ ran \cup Left = Elements(ToRun)
    /\ \A v \in Vertices \ ran : sent[v] = None

\* A superstep begins because there is a vertex to run.
SomeToRun == AnyAt({"entered"} \cup StartLabels \cup ComputeLabels) => ToRun # << >>

\* From the end of the compute loop to the mailbox update each mailbox holds what was
\* broadcast to its vertex; during the update the merged list is the receivers.
AllArrived ==
  /\ AnyAt(CountLabels \cup MergeLabels) =>
       \A d \in Vertices : Arrived(d) = Received(out_neighbours, sent, d)
  /\ AnyAt(SwapLabels) =>
       \A d \in Vertices :
         d \in Elements(ip_all_spread_vertices) <=> Received(out_neighbours, sent, d) # None

\* The superstep behind the single region at the end is not the first one.
SuperstepCounted == AnyAt(FinishLabels) /\ claimed => ip_superstep # 0

\* What ImplementsBSP follows from, together with SpreadInv.
DeliveryInv ==
  SendsForBroadcast /\ ArrivedExact /\ RunsOnce /\ SomeToRun /\ AllArrived /\ SuperstepCounted

\* The run ends.
Termination == <>Terminated

\* The abstract superstep changes when the compute loop's barrier opens.  There is
\* no active flag: a vertex counts as active while it is listed and has not run.
Computing == AnyAt({"compute", "send"}) \/ AllAt("compute_done")
Delivering == AnyAt({"count", "counted", "merge", "merge_done", "swap", "swap_done"})
Finishing == AnyAt({"finish", "finish_done"})
Waiting(v) ==
  IF Computing THEN \E i \in todo : ToRun[i] = v
  ELSE IF Delivering THEN Received(out_neighbours, sent, v) # None
  ELSE IF Finishing THEN \E i \in DOMAIN ip_all_spread_vertices : ip_all_spread_vertices[i] = v
  ELSE \E i \in DOMAIN ToRun : ToRun[i] = v
Unread(v) == IF Waiting(v) \/ (Computing /\ v \in ran) THEN NextMessage(v) ELSE None

Superstep == INSTANCE BSP WITH
  KeepsUnread <- FALSE,
  VotesCount <- FALSE,
  superstep <- IF Delivering \/ (Finishing /\ ~claimed) THEN ip_superstep + 1
               ELSE ip_superstep,
  active <- [v \in Vertices |-> Waiting(v)],
  inbox <- [v \in Vertices |->
    IF Delivering /\ has_message_next[v] THEN message_next[v] ELSE Unread(v)],
  sent <- IF Computing THEN sent ELSE Nothing,
  ran <- IF Computing THEN ran ELSE {},
  returned <- AnyAt({"exit"})

\* However the threads interleave and whatever ip_compute does, ip_run computes
\* what the superstep semantics says, every vertex being taken to halt when it has
\* run and a message that ip_compute does not read being dropped.
ImplementsBSP == Superstep!Spec
==============================================================================
