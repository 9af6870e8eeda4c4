------------------------ MODULE SpreadSingleBroadcast ------------------------
(***************************************************************************)
(* The pull version with a list of targets                                 *)
(* (combiner_spread_single_broadcast_preamble.h and _postamble.h):         *)
(* ip_broadcast marks the out-neighbours, one thread collects the marked   *)
(* vertices into ip_all_targets, and only those fetch and run.  A vertex   *)
(* has no active flag: ip_vote_to_halt does nothing.                       *)
(***************************************************************************)
EXTENDS Outbox

VARIABLES
  broadcast_target,    \* [v]: an in-neighbour of v broadcast in this superstep
  ip_all_targets,      \* the vertices to run, in the list's order
  ip_active_vertices,
  marking              \* [t]: the out-neighbours t's ip_broadcast has yet to mark

targetVars == <<broadcast_target, ip_all_targets, ip_active_vertices, marking>>
vars == <<teamVars, engineVars, outboxVars, targetVars>>

Listed(v) == \E i \in DOMAIN ip_all_targets : ip_all_targets[i] = v

\* ip_init_specific and ip_init_vertex_range: every vertex is a target.
Init ==
  /\ TeamInit("while")
  /\ EngineInit
  /\ OutboxInit
  /\ broadcast_target = [v \in Vertices |-> FALSE]
  /\ ip_all_targets = Enumeration(Vertices)
  /\ ip_active_vertices = Cardinality(Vertices)
  /\ marking = [t \in Threads |-> << >>]

------------------------------------------------------------------------------
\* while(ip_is_first_superstep() || ip_all_targets.size > 0): there is no barrier
\* behind the test, since nothing it reads changes before the compute loop's.
While(t) ==
  /\ Move(t, "while",
          IF ip_superstep = 0 \/ ip_all_targets # << >> THEN "start" ELSE "exit")
  /\ UNCHANGED <<claimed, todo, engineVars, outboxVars, targetVars>>

\* The single region that starts the timer.
StartSingle(t) ==
  /\ EnterSingle(t, "start", "start_done") \/ SkipSingle(t, "start", "start_done")
  /\ UNCHANGED <<engineVars, outboxVars, targetVars>>

BeginCompute ==
  /\ Barrier("start_done", "compute", DOMAIN ip_all_targets)
  /\ NewHistory
  /\ UNCHANGED <<jobVars, boxVars, value, ip_superstep, outboxVars, targetVars>>

\* An iteration, up to the marks of ip_broadcast.
ComputeVertex(t, i) ==
  /\ Move(t, "compute", "mark")
  /\ TakeIteration(i)
  /\ LET v == ip_all_targets[i]
     IN \E outcome \in Outcomes(v) :
          /\ RunVertex(v, outcome)
          /\ FillOutbox(v, outcome, has_broadcast_message[v])
          /\ marking' = [marking EXCEPT ![t] =
               IF outcome.message = None THEN << >> ELSE out_neighbours[v]]
  /\ UNCHANGED <<broadcast_target, ip_all_targets, ip_active_vertices>>

\* The unprotected write of the mark: threads that race write the same value.
MarkTarget(t) ==
  /\ pc[t] = "mark"
  /\ marking[t] # << >>
  /\ broadcast_target' = [broadcast_target EXCEPT ![Head(marking[t])] = TRUE]
  /\ marking' = [marking EXCEPT ![t] = Tail(@)]
  /\ UNCHANGED <<teamVars, engineVars, outboxVars, ip_all_targets, ip_active_vertices>>

MarkingDone(t) ==
  /\ Move(t, "mark", "compute")
  /\ marking[t] = << >>
  /\ UNCHANGED <<claimed, todo, engineVars, outboxVars, targetVars>>

LeaveCompute(t) ==
  /\ LeaveLoop(t, "compute", "compute_done", {"compute", "mark"})
  /\ UNCHANGED <<engineVars, outboxVars, targetVars>>

BeginFilter ==
  /\ Barrier("compute_done", "filter", {})
  /\ UNCHANGED <<engineVars, outboxVars, targetVars>>

\* Mutant of FilterSingle: the size of the list is not reset first.
FilterAppends(t) ==
  /\ EnterSingle(t, "filter", "filter_done")
  /\ ip_all_targets' =
       ip_all_targets \o Enumeration({v \in Vertices : broadcast_target[v]})
  /\ UNCHANGED <<engineVars, outboxVars, broadcast_target, ip_active_vertices, marking>>

\* One thread rebuilds the list from the marks, one ip_add_target per vertex.
FilterSingle(t) ==
  /\ EnterSingle(t, "filter", "filter_done")
  /\ ip_all_targets' = Enumeration({v \in Vertices : broadcast_target[v]})
  /\ UNCHANGED <<engineVars, outboxVars, broadcast_target, ip_active_vertices, marking>>

SkipFilter(t) ==
  /\ SkipSingle(t, "filter", "filter_done")
  /\ UNCHANGED <<engineVars, outboxVars, targetVars>>

EndFilter ==
  /\ Barrier("filter_done", "count", DOMAIN ip_all_targets)
  /\ UNCHANGED <<engineVars, outboxVars, targetVars>>

\* Outside the single region: every thread writes ip_active_vertices.
Count(t) ==
  /\ Move(t, "count", "fetch")
  /\ ip_active_vertices' = Len(ip_all_targets)
  /\ UNCHANGED <<claimed, todo, engineVars, outboxVars, broadcast_target, ip_all_targets, marking>>

FetchVertex(t, i) ==
  /\ Move(t, "fetch", "fetch")
  /\ TakeIteration(i)
  /\ LET v == ip_all_targets[i]
     IN IF broadcast_target[v]
        THEN /\ Fetch(v)
             /\ broadcast_target' = [broadcast_target EXCEPT ![v] = FALSE]
        ELSE UNCHANGED <<engineVars, outboxVars, broadcast_target>>
  /\ UNCHANGED <<ip_all_targets, ip_active_vertices, marking>>

LeaveFetch(t) ==
  /\ LeaveLoop(t, "fetch", "fetch_done", {"count", "fetch"})
  /\ UNCHANGED <<engineVars, outboxVars, targetVars>>

BeginReset ==
  /\ Barrier("fetch_done", "reset", Vertices)
  /\ UNCHANGED <<engineVars, outboxVars, targetVars>>

\* Mutant of ResetVertex: the outbox is not cleared.
ResetNothing(t, v) ==
  /\ Move(t, "reset", "reset")
  /\ TakeIteration(v)
  /\ UNCHANGED <<engineVars, outboxVars, targetVars>>

ResetVertex(t, v) ==
  /\ Move(t, "reset", "reset")
  /\ TakeIteration(v)
  /\ has_broadcast_message' = [has_broadcast_message EXCEPT ![v] = FALSE]
  /\ UNCHANGED <<engineVars, in_neighbours, broadcast_message, targetVars>>

LeaveReset(t) ==
  /\ LeaveLoop(t, "reset", "reset_done", {"reset"})
  /\ UNCHANGED <<engineVars, outboxVars, targetVars>>

BeginFinish ==
  /\ Barrier("reset_done", "finish", {})
  /\ UNCHANGED <<engineVars, outboxVars, targetVars>>

EndSuperstep(t) ==
  /\ FinishSingle(t) \/ SkipFinish(t)
  /\ UNCHANGED <<outboxVars, targetVars>>

NextIteration ==
  /\ Barrier("finish_done", "while", {})
  /\ UNCHANGED <<engineVars, outboxVars, targetVars>>

ThreadStep(t) ==
  \/ While(t) \/ StartSingle(t)
  \/ \E i \in todo : ComputeVertex(t, i)
  \/ MarkTarget(t) \/ MarkingDone(t) \/ LeaveCompute(t)
  \/ FilterSingle(t) \/ SkipFilter(t)
  \/ Count(t)
  \/ \E i \in todo : FetchVertex(t, i)
  \/ LeaveFetch(t)
  \/ \E v \in todo : ResetVertex(t, v)
  \/ LeaveReset(t)
  \/ EndSuperstep(t)

BarrierStep ==
  \/ BeginCompute \/ BeginFilter \/ EndFilter \/ BeginReset \/ BeginFinish
  \/ NextIteration

Next ==
  \/ \E t \in Threads : ThreadStep(t)
  \/ BarrierStep
  \/ Terminated /\ UNCHANGED vars

Spec == Init /\ [][Next]_vars

\* Every thread runs until it waits at a barrier, and barriers release.
FairSpec ==
  Spec /\ WF_vars(BarrierStep) /\ \A t \in Threads : WF_vars(ThreadStep(t))

------------------------------------------------------------------------------
(* Properties.                                                             *)

PCs == {"while", "start", "start_done", "compute", "mark", "compute_done", "filter",
        "filter_done", "count", "fetch", "fetch_done", "reset", "reset_done", "finish",
        "finish_done", "exit"}

TypeOK ==
  /\ pc \in [Threads -> PCs]
  /\ claimed \in BOOLEAN
  /\ todo \in SUBSET (Vertices \cup 1 .. Cardinality(Vertices))
  /\ EngineTypeOK
  /\ OutboxTypeOK
  /\ broadcast_target \in [Vertices -> BOOLEAN]
  /\ ip_all_targets \in Seq(Vertices)
  /\ ip_active_vertices \in Nat
  /\ marking \in [Threads -> Seq(Vertices)]

\* The single region that rebuilds the list leaves in it exactly the vertices that
\* were broadcast to, none twice, and never more than the list has room for: the
\* racing writes of the marks lose none.
TargetsAreReceivers ==
  AllAt("count") =>
    /\ \A d \in Vertices : Listed(d) <=> Received(out_neighbours, sent, d) # None
    /\ \A i, j \in DOMAIN ip_all_targets : ip_all_targets[i] = ip_all_targets[j] => i = j

\* A superstep starts with no mark and no outbox of the superstep before.
CleanStart ==
  AnyAt({"while", "start", "start_done", "exit"}) => \A v \in Vertices :
    ~broadcast_target[v] /\ ~has_broadcast_message[v]

\* The labels between two barriers: all threads are within one of these sets.
HeadLabels == {"while", "start", "start_done", "exit"}
ComputeLabels == {"compute", "mark", "compute_done"}
FilterLabels == {"filter", "filter_done"}
FetchLabels == {"count", "fetch", "fetch_done"}
ResetLabels == {"reset", "reset_done"}
FinishLabels == {"finish", "finish_done"}
Phases == {HeadLabels, ComputeLabels, FilterLabels, FetchLabels, ResetLabels, FinishLabels}

\* The barriers keep the threads together.
SamePhase == Together(Phases)

\* A thread behind a single region knows that some thread has entered it.
SingleEntered == AnyAt({"filter_done", "finish_done"}) => claimed

\* Iterations are left only while a thread is in a loop to take them, and they are
\* iterations of that loop: of two loops over the list, and of one over the vertices.
IterationsLeft ==
  /\ todo # {} => AnyAt({"compute", "mark", "count", "fetch", "reset"})
  /\ AnyAt(ComputeLabels) \/ AnyAt(FetchLabels) => todo \subseteq DOMAIN ip_all_targets
  /\ AnyAt(ResetLabels) => todo \subseteq Vertices

\* No vertex is listed twice, so the list never outgrows what was allocated for it.
ListedOnce ==
  \A i, j \in DOMAIN ip_all_targets : ip_all_targets[i] = ip_all_targets[j] => i = j

\* What TypeOK follows from.
TeamInv == SamePhase /\ SingleEntered /\ IterationsLeft /\ ListedOnce

\* A message goes to d along some edge.
SentTo(d) ==
  \E u \in Vertices : sent[u] # None /\ \E i \in DOMAIN out_neighbours[u] : out_neighbours[u][i] = d

\* Thread t has yet to mark d.
ToMark(t, d) == \E i \in DOMAIN marking[t] : marking[t][i] = d

\* Only the threads inside ip_broadcast have marks to write.
MarksWithinLoop == \A t \in Threads : pc[t] # "mark" => marking[t] = << >>

\* Who is marked: in the compute loop those sent a message, as far as the threads
\* have come; then all of them; then those that have not fetched yet; then nobody.
MarksRight ==
  \A d \in Vertices : broadcast_target[d] \/ (\E t \in Threads : ToMark(t, d)) <=>
    \/ (AnyAt(ComputeLabels) \/ AnyAt(FilterLabels)) /\ SentTo(d)
    \/ AnyAt(FetchLabels) /\ \E i \in todo : ip_all_targets[i] = d

\* The list that was rebuilt has those who were sent a message.
ListRight ==
  (AnyAt(FilterLabels) /\ claimed) \/ AnyAt(FetchLabels) \/ AnyAt(ResetLabels) =>
    \A d \in Vertices : Listed(d) <=> SentTo(d)

\* An outbox holds what its vertex broadcast in this superstep, until it is cleared.
OutboxCurrent ==
  /\ AnyAt(ComputeLabels) \/ AnyAt(FilterLabels) \/ AnyAt(FetchLabels) =>
       \A v \in Vertices : Outgoing(v) = sent[v]
  /\ AnyAt(ResetLabels) => \A v \in Vertices \ todo : ~has_broadcast_message[v]
  /\ AnyAt(FinishLabels) \/ AnyAt(HeadLabels) => \A v \in Vertices : ~has_broadcast_message[v]

\* In the compute loop, exactly the listed vertices whose turn is over have run.
RunsOnce ==
  AnyAt(ComputeLabels) =>
    /\ \A i \in todo : ip_all_targets[i] \notin ran /\ sent[ip_all_targets[i]] = None
    /\ \A i \in DOMAIN ip_all_targets \ todo : ip_all_targets[i] \in ran

\* A superstep runs a vertex: the first one all, and a later one those in the list.
SomeTarget ==
  /\ AnyAt({"start", "start_done"}) \/ AnyAt(ComputeLabels) => ip_all_targets # << >>
  /\ AnyAt(HeadLabels) /\ ip_superstep = 0 => ip_all_targets # << >>
  /\ AnyAt(FinishLabels) /\ claimed => ip_superstep # 0

\* What TargetsAreReceivers, CleanStart and ImplementsBSP follow from.
TargetInv ==
  /\ InNeighboursKept
  /\ MarksWithinLoop
  /\ MarksRight
  /\ ListRight
  /\ OutboxCurrent
  /\ RunsOnce
  /\ SomeTarget

\* The run ends.
Termination == <>Terminated

\* A vertex that the compute loop has yet to run: there is no flag, so it is
\* active in the sense of BSP while it is listed and has not run.
Computing == AnyAt({"compute", "mark"}) \/ AllAt("compute_done")
Delivering == AnyAt({"filter", "filter_done", "count", "fetch", "fetch_done", "reset",
                     "reset_done"})
Waiting(v) ==
  IF Computing THEN \E i \in todo : ip_all_targets[i] = v
  ELSE IF Delivering THEN Received(out_neighbours, sent, v) # None
  ELSE Listed(v)
Unread(v) == IF Waiting(v) \/ (Computing /\ v \in ran) THEN NextMessage(v) ELSE None
Unfetched(v) ==
  /\ Received(out_neighbours, sent, v) # None
  /\ \/ AnyAt({"filter", "filter_done"})
     \/ AnyAt({"count", "fetch"}) /\ \E i \in todo : ip_all_targets[i] = v

Superstep == INSTANCE BSP WITH
  KeepsUnread <- FALSE,
  VotesCount <- FALSE,
  superstep <- IF Delivering \/ (AnyAt({"finish", "finish_done"}) /\ ~claimed)
               THEN ip_superstep + 1 ELSE ip_superstep,
  active <- [v \in Vertices |-> Waiting(v)],
  inbox <- [v \in Vertices |->
    IF Unfetched(v) THEN Received(out_neighbours, sent, v) ELSE Unread(v)],
  sent <- IF Computing THEN sent ELSE Nothing,
  ran <- IF Computing THEN ran ELSE {},
  returned <- AnyAt({"exit"})

\* However the threads interleave and whatever ip_compute does, ip_run computes
\* what the superstep semantics says, every vertex being taken to halt when it has
\* run and a message that ip_compute does not read being dropped.
ImplementsBSP == Superstep!Spec
==============================================================================
