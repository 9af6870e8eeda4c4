--------------------------- MODULE SingleBroadcast ---------------------------
(***************************************************************************)
(* The pull version of iPregel (combiner_single_broadcast_preamble.h,      *)
(* combiner_single_broadcast_postamble.h): ip_broadcast writes the outbox  *)
(* of the vertex, and after the compute loop every vertex fetches the      *)
(* messages of its in-neighbours.  No lock and no compare-and-swap: the    *)
(* barrier between the two loops is what keeps them apart.                 *)
(***************************************************************************)
EXTENDS Outbox

VARIABLES
  active,              \* [v]: v has not voted to halt
  ip_active_vertices,
  partial              \* [t]: t's share of the reduction over ip_active_vertices

countVars == <<ip_active_vertices, partial>>
vars == <<teamVars, engineVars, outboxVars, active, countVars>>

Init ==
  /\ TeamInit("while")
  /\ EngineInit
  /\ OutboxInit
  /\ active = [v \in Vertices |-> TRUE]
  /\ ip_active_vertices = Cardinality(Vertices)
  /\ partial = [t \in Threads |-> 0]

------------------------------------------------------------------------------
\* while(ip_active_vertices != 0): each thread reads the shared counter.
While(t) ==
  /\ Move(t, "while", IF ip_active_vertices # 0 THEN "entered" ELSE "exit")
  /\ UNCHANGED <<claimed, todo, engineVars, outboxVars, active, countVars>>

\* The barrier that keeps the counter unchanged until every thread has read it.
EnterLoop ==
  /\ Barrier("entered", "start", {})
  /\ UNCHANGED <<engineVars, outboxVars, active, countVars>>

StartSingle(t) ==
  /\ EnterSingle(t, "start", "start_done")
  /\ ip_active_vertices' = 0
  /\ UNCHANGED <<engineVars, outboxVars, active, partial>>

SkipStart(t) ==
  /\ SkipSingle(t, "start", "start_done")
  /\ UNCHANGED <<engineVars, outboxVars, active, countVars>>

BeginCompute ==
  /\ Barrier("start_done", "compute", Vertices)
  /\ NewHistory
  /\ UNCHANGED <<jobVars, boxVars, value, ip_superstep, outboxVars, active, countVars>>

\* An iteration on an active vertex.
ComputeVertex(t, v) ==
  /\ Move(t, "compute", "compute")
  /\ TakeIteration(v)
  /\ active[v]
  /\ \E outcome \in Outcomes(v) :
       /\ RunVertex(v, outcome)
       /\ FillOutbox(v, outcome, FALSE)
       /\ active' = [active EXCEPT ![v] = ~outcome.halts]
       /\ partial' = [partial EXCEPT ![t] = IF outcome.halts THEN @ ELSE @ + 1]
  /\ UNCHANGED ip_active_vertices

\* Mutant of PassVertex: the outbox of a halted vertex is not cleared.
PassUncleared(t, v) ==
  /\ Move(t, "compute", "compute")
  /\ TakeIteration(v)
  /\ ~active[v]
  /\ UNCHANGED <<engineVars, outboxVars, active, countVars>>

\* An iteration on a halted vertex still clears its outbox.
PassVertex(t, v) ==
  /\ Move(t, "compute", "compute")
  /\ TakeIteration(v)
  /\ ~active[v]
  /\ has_broadcast_message' = [has_broadcast_message EXCEPT ![v] = FALSE]
  /\ UNCHANGED <<engineVars, in_neighbours, broadcast_message, active, countVars>>

\* The end of the loop for one thread: its count goes into ip_active_vertices.
LeaveCompute(t) ==
  /\ LeaveLoop(t, "compute", "compute_done", {"compute"})
  /\ ip_active_vertices' = ip_active_vertices + partial[t]
  /\ partial' = [partial EXCEPT ![t] = 0]
  /\ UNCHANGED <<engineVars, outboxVars, active>>

BeginFetch ==
  /\ Barrier("compute_done", "fetch", Vertices)
  /\ UNCHANGED <<engineVars, outboxVars, active, countVars>>

\* Mutant of FetchVertex: a vertex that is still active is counted again.
FetchRecount(t, v) ==
  /\ Move(t, "fetch", "fetch")
  /\ TakeIteration(v)
  /\ Fetch(v)
  /\ IF Broadcasters(v) # {}
     THEN /\ ip_active_vertices' = ip_active_vertices + 1
          /\ active' = [active EXCEPT ![v] = TRUE]
     ELSE UNCHANGED <<ip_active_vertices, active>>
  /\ UNCHANGED partial

\* A vertex that receives a message is active again; the counter is shared, and
\* incremented atomically.
FetchVertex(t, v) ==
  /\ Move(t, "fetch", "fetch")
  /\ TakeIteration(v)
  /\ Fetch(v)
  /\ IF Broadcasters(v) # {} /\ ~active[v]
     THEN /\ ip_active_vertices' = ip_active_vertices + 1
          /\ active' = [active EXCEPT ![v] = TRUE]
     ELSE UNCHANGED <<ip_active_vertices, active>>
  /\ UNCHANGED partial

LeaveFetch(t) ==
  /\ LeaveLoop(t, "fetch", "fetch_done", {"fetch"})
  /\ UNCHANGED <<engineVars, outboxVars, active, countVars>>

BeginFinish ==
  /\ Barrier("fetch_done", "finish", {})
  /\ UNCHANGED <<engineVars, outboxVars, active, countVars>>

EndSuperstep(t) ==
  /\ FinishSingle(t) \/ SkipFinish(t)
  /\ UNCHANGED <<outboxVars, active, countVars>>

NextIteration ==
  /\ Barrier("finish_done", "while", {})
  /\ UNCHANGED <<engineVars, outboxVars, active, countVars>>

ThreadStep(t) ==
  \/ While(t)
  \/ StartSingle(t) \/ SkipStart(t)
  \/ \E v \in Vertices : ComputeVertex(t, v) \/ PassVertex(t, v)
  \/ LeaveCompute(t)
  \/ \E v \in Vertices : FetchVertex(t, v)
  \/ LeaveFetch(t)
  \/ EndSuperstep(t)

BarrierStep == EnterLoop \/ BeginCompute \/ BeginFetch \/ BeginFinish \/ NextIteration

Next ==
  \/ \E t \in Threads : ThreadStep(t)
  \/ BarrierStep
  \/ Terminated /\ UNCHANGED vars

Spec == Init /\ [][Next]_vars

\* Every thread runs until it waits at a barrier, and barriers release.
FairSpec ==
  Spec /\ WF_vars(BarrierStep) /\ \A t \in Threads : WF_vars(ThreadStep(t))

------------------------------------------------------------------------------
(* Properties.                                                             *)

PCs == {"while", "entered", "start", "start_done", "compute", "compute_done",
        "fetch", "fetch_done", "finish", "finish_done", "exit"}

TypeOK ==
  /\ pc \in [Threads -> PCs]
  /\ claimed \in BOOLEAN
  /\ todo \in SUBSET Vertices
  /\ EngineTypeOK
  /\ OutboxTypeOK
  /\ active \in [Vertices -> BOOLEAN]
  /\ ip_active_vertices \in Nat
  /\ partial \in [Threads -> Nat]

\* At the head of the loop, ip_active_vertices is the number of vertices the next
\* superstep runs, although it is the sum of a reduction and of the atomic
\* increments of another loop.
ActiveCount ==
  AnyAt({"while", "entered", "exit"}) =>
    ip_active_vertices = Cardinality({v \in Vertices : active[v]})

\* When every thread has finished fetching, each vertex has the combination of
\* exactly what its in-neighbours broadcast in this superstep: no outbox of an
\* earlier superstep is read, and none is missed.
FetchedEverything ==
  AllAt("fetch_done") => \A d \in Vertices :
    NextMessage(d) = Received(out_neighbours, sent, d)

\* The labels between two barriers: all threads are within one of these sets.
Phases == {{"while", "entered", "exit"}, {"start", "start_done"}, {"compute", "compute_done"},
           {"fetch", "fetch_done"}, {"finish", "finish_done"}}

\* The barriers keep the threads together.
SamePhase == Together(Phases)

\* The labels of the compute loop, and those at which a thread is inside a loop.
ComputeLabels == {"compute", "compute_done"}
LoopLabels == {"compute", "fetch"}

\* A thread behind a single region knows that some thread has entered it.
SingleEntered == AnyAt({"start_done", "finish_done"}) => claimed

\* Iterations are left only while a thread is there to take them.
NobodyLeavesWork == todo # {} => AnyAt(LoopLabels)

\* Only the compute loop has shares, and a thread that leaves it adds its own.
SharesAdded == \A t \in Threads : pc[t] # "compute" => partial[t] = 0

\* The vertices counted so far: those that stayed active, and in the fetch loop
\* those that became active.
Tally == {v \in Vertices : active[v] /\ (AnyAt(ComputeLabels) => v \notin todo)}

\* The counter and the shares count each of them once; at the head of a superstep
\* the counter starts again from 0.
CountExact ==
  IF AnyAt({"start", "start_done"}) THEN claimed => ip_active_vertices = 0
  ELSE Counts(Tally, ip_active_vertices, partial)

\* What ActiveCount follows from.
CountInv == SamePhase /\ SingleEntered /\ NobodyLeavesWork /\ SharesAdded /\ CountExact

\* An outbox holds what its vertex broadcast in this superstep, except that the
\* compute loop has not come to all of them yet.
OutboxCurrent ==
  \A v \in Vertices : (AnyAt(ComputeLabels) /\ v \in todo) \/ Outgoing(v) = sent[v]

\* In the compute loop, a vertex has run, is still to be looked at, or was passed
\* because it is halted; only one that has run has broadcast; and a superstep runs
\* at least one vertex.
RunsOnce ==
  AnyAt(ComputeLabels) =>
    /\ ran \cap todo = {}
    /\ \A v \in Vertices \ (ran \cup todo) : ~active[v]
    /\ \A v \in Vertices \ ran : sent[v] = None
    /\ ran # {} \/ \E v \in todo : active[v]

\* A superstep begins because a vertex is active.
SomeActive == AnyAt({"entered", "start", "start_done"}) => \E v \in Vertices : active[v]

\* A vertex whose turn in the fetch loop is over has everything sent to it.
Fetched ==
  AnyAt({"fetch", "fetch_done"}) => \A d \in Vertices \ todo :
    NextMessage(d) = Received(out_neighbours, sent, d)

\* What FetchedEverything and ImplementsBSP follow from.
FetchInv == InNeighboursKept /\ OutboxCurrent /\ RunsOnce /\ SomeActive /\ Fetched

\* The run ends.
Termination == <>Terminated

\* The abstract superstep changes when the compute loop's barrier opens; from
\* then on a vertex that has not fetched yet has what was broadcast to it.
Fetching == AnyAt({"fetch", "fetch_done"})
Computing == AnyAt({"compute"}) \/ AllAt("compute_done")
Unfetched(v) == Fetching /\ v \in todo

Superstep == INSTANCE BSP WITH
  KeepsUnread <- FALSE,
  VotesCount <- TRUE,
  superstep <- IF Fetching \/ (AnyAt({"finish", "finish_done"}) /\ ~claimed)
               THEN ip_superstep + 1 ELSE ip_superstep,
  active <- [v \in Vertices |->
    active[v] \/ (Unfetched(v) /\ Received(out_neighbours, sent, v) # None)],
  inbox <- [v \in Vertices |->
    IF Unfetched(v) THEN Received(out_neighbours, sent, v) ELSE NextMessage(v)],
  sent <- IF Computing THEN sent ELSE Nothing,
  ran <- IF Computing THEN ran ELSE {},
  returned <- AnyAt({"exit"})

\* However the threads interleave and whatever ip_compute does, ip_run computes
\* what the superstep semantics says, a message that ip_compute does not read
\* being dropped; and it returns exactly when no vertex is active.
ImplementsBSP == Superstep!Spec
==============================================================================
