--------------------- MODULE SpreadSingleBroadcast_proofs ---------------------
(***************************************************************************)
(* Proofs about SpreadSingleBroadcast for every team of threads, every     *)
(* graph and every program that keeps to its types: the list of targets is *)
(* rebuilt exactly from the racing marks, every superstep starts clean,    *)
(* and ip_run computes what the superstep semantics says.                  *)
(***************************************************************************)
EXTENDS SpreadSingleBroadcast, Engine_proofs

------------------------------------------------------------------------------
(* The phases of the loop of ip_run.                                       *)

\* No label is in two phases.
LEMMA PhasesApart == Apart(Phases)
BY DEF Apart, Phases, HeadLabels, ComputeLabels, FilterLabels, FetchLabels, ResetLabels,
   FinishLabels

\* The names of the phases, which are all different.
LEMMA PhaseNames ==
  /\ HeadLabels \in Phases /\ ComputeLabels \in Phases /\ FilterLabels \in Phases
  /\ FetchLabels \in Phases /\ ResetLabels \in Phases /\ FinishLabels \in Phases
  /\ HeadLabels # ComputeLabels /\ HeadLabels # FilterLabels /\ HeadLabels # FetchLabels
  /\ HeadLabels # ResetLabels /\ HeadLabels # FinishLabels
  /\ ComputeLabels # FilterLabels /\ ComputeLabels # FetchLabels
  /\ ComputeLabels # ResetLabels /\ ComputeLabels # FinishLabels
  /\ FilterLabels # FetchLabels /\ FilterLabels # ResetLabels /\ FilterLabels # FinishLabels
  /\ FetchLabels # ResetLabels /\ FetchLabels # FinishLabels /\ ResetLabels # FinishLabels
BY DEF Phases, HeadLabels, ComputeLabels, FilterLabels, FetchLabels, ResetLabels, FinishLabels

\* The labels of each phase.
LEMMA LabelNames ==
  /\ "while" \in HeadLabels /\ "start" \in HeadLabels /\ "start_done" \in HeadLabels
  /\ "exit" \in HeadLabels
  /\ "compute" \in ComputeLabels /\ "mark" \in ComputeLabels /\ "compute_done" \in ComputeLabels
  /\ "filter" \in FilterLabels /\ "filter_done" \in FilterLabels
  /\ "count" \in FetchLabels /\ "fetch" \in FetchLabels /\ "fetch_done" \in FetchLabels
  /\ "reset" \in ResetLabels /\ "reset_done" \in ResetLabels
  /\ "finish" \in FinishLabels /\ "finish_done" \in FinishLabels
BY DEF HeadLabels, ComputeLabels, FilterLabels, FetchLabels, ResetLabels, FinishLabels

\* All threads are in phase P, and in no other.
Inside(P) ==
  /\ \A u \in Threads : pc[u] \in P
  /\ AnyAt(HeadLabels) <=> P = HeadLabels
  /\ AnyAt(ComputeLabels) <=> P = ComputeLabels
  /\ AnyAt(FilterLabels) <=> P = FilterLabels
  /\ AnyAt(FetchLabels) <=> P = FetchLabels
  /\ AnyAt(ResetLabels) <=> P = ResetLabels
  /\ AnyAt(FinishLabels) <=> P = FinishLabels

\* Threads that are all in one phase are in no other.
LEMMA PhaseTests ==
  ASSUME NEW P \in Phases
  PROVE  /\ (\A u \in Threads : pc[u] \in P) => Inside(P)
         /\ (\A u \in Threads : pc'[u] \in P) => Inside(P)'
<1>1. ASSUME NEW f, \A u \in Threads : f[u] \in P, NEW Q \in Phases
      PROVE  (\E u \in Threads : f[u] \in Q) <=> P = Q
  BY <1>1, PhasesApart, ThreadsAssumption DEF Apart
<1>2. ASSUME \A u \in Threads : pc[u] \in P PROVE Inside(P)
  <2>1. \A Q \in Phases : AnyAt(Q) <=> P = Q
    BY <1>1, <1>2 DEF AnyAt
  <2> QED
    BY <1>2, <2>1, PhaseNames DEF Inside
<1>3. ASSUME \A u \in Threads : pc'[u] \in P PROVE Inside(P)'
  <2>1. \A Q \in Phases : AnyAt(Q)' <=> P = Q
    BY <1>1, <1>3 DEF AnyAt
  <2> QED
    BY <1>3, <2>1, PhaseNames DEF Inside
<1> QED
  BY <1>2, <1>3

\* What a move within phase P tells about the phases.
LEMMA MoveTests ==
  ASSUME TypeOK, SamePhase, NEW P \in Phases, NEW t \in Threads, NEW from \in P, NEW to \in P,
         Move(t, from, to)
  PROVE  /\ Inside(P) /\ Inside(P)' /\ SamePhase'
         /\ pc[t] = from /\ pc'[t] = to /\ \A u \in Threads \ {t} : pc'[u] = pc[u]
<1>1. (\A u \in Threads : pc[u] \in P /\ pc'[u] \in P) /\ SamePhase'
  BY PhasesApart, MoveTogether DEF TypeOK, SamePhase
<1>2. /\ \A u \in Threads \ {t} : pc'[u] = pc[u]
      /\ pc[t] = from /\ pc'[t] = to
  BY DEF Move, TypeOK
<1> QED
  BY <1>1, <1>2, PhaseTests

\* What a barrier tells about them.
LEMMA BarrierTests ==
  ASSUME NEW P \in Phases, NEW Q \in Phases, NEW from \in P, NEW to \in Q, NEW iterations,
         Barrier(from, to, iterations)
  PROVE  /\ Inside(P) /\ Inside(Q)' /\ SamePhase'
         /\ \A u \in Threads : pc[u] = from /\ pc'[u] = to
         /\ claimed' = FALSE /\ todo' = iterations
<1>1. /\ \A u \in Threads : pc[u] = from /\ pc'[u] = to
      /\ claimed' = FALSE /\ todo' = iterations
  BY DEF Barrier, AllAt
<1>2. SamePhase'
  BY <1>1 DEF SamePhase, Together
<1> QED
  BY <1>1, <1>2, PhaseTests

\* A thread's step within the marks of ip_broadcast moves no thread.
LEMMA StayTests ==
  ASSUME SamePhase, NEW P \in Phases, NEW t \in Threads, pc[t] \in P, UNCHANGED pc
  PROVE  Inside(P) /\ Inside(P)' /\ SamePhase'
<1>1. \A u \in Threads : pc[u] \in P
  BY PhasesApart, PhaseOf DEF SamePhase
<1> QED
  BY <1>1, PhaseTests DEF SamePhase, Together

\* Where no thread is in a loop, no iteration is left.
LEMMA OutsideLoops ==
  ASSUME IterationsLeft,
         \A u \in Threads : pc[u] \notin {"compute", "mark", "count", "fetch", "reset"}
  PROVE  todo = {}
BY DEF IterationsLeft, AnyAt

------------------------------------------------------------------------------
(* Type correctness, from TeamInv.                                         *)

\* A list without repetitions has as many positions as there are vertices, at most.
LEMMA Positions ==
  ASSUME TypeOK, ListedOnce
  PROVE  /\ DOMAIN ip_all_targets \subseteq 1 .. Cardinality(Vertices)
         /\ \A i \in DOMAIN ip_all_targets : ip_all_targets[i] \in Vertices
<1>1. ip_all_targets \in Seq(Vertices)
  BY DEF TypeOK
<1>2. \A i \in DOMAIN ip_all_targets : ip_all_targets[i] \in Vertices
  BY <1>1
<1> QED
  BY <1>1, <1>2, ListFits DEF ListedOnce

\* The outboxes stay well typed while they do not change.
LEMMA OutboxUnchanged ==
  ASSUME OutboxTypeOK, UNCHANGED outboxVars PROVE OutboxTypeOK'
BY DEF OutboxTypeOK, outboxVars

\* What a vertex fetches is a message.
LEMMA MessageFetched ==
  ASSUME CombineClosed, OutboxTypeOK, NEW v \in Vertices, Broadcasters(v) # {}
  PROVE  FetchedMessage(v) \in Messages
<1>1. /\ in_neighbours[v] \in Seq(Vertices)
      /\ \A u \in Vertices : has_broadcast_message[u] => broadcast_message[u] \in Messages
  BY DEF OutboxTypeOK
<1> QED
  BY <1>1, FetchedTyped DEF Broadcasters, FetchedMessage

\* The initial state has the right types, and the in-neighbours of the graph.
LEMMA InitTyped == Init => TypeOK /\ InNeighboursKept
<1> SUFFICES ASSUME Init PROVE TypeOK /\ InNeighboursKept
  OBVIOUS
<1>1. EngineTypeOK
  BY EngineInitTyped DEF Init
<1>2. InNeighboursKept
  BY DEF Init, OutboxInit, InNeighboursKept
<1>3. in_neighbours \in [Vertices -> Seq(Vertices)]
  <2>1. out_neighbours \in [Vertices -> Seq(Vertices)]
    BY <1>1, JobsAssumption DEF EngineTypeOK, jobVars
  <2>2. \A d \in Vertices : InNeighboursOf(out_neighbours, d) \in Seq(Vertices)
    BY <2>1, ListOfEdges
  <2> QED
    BY <1>2, <2>2 DEF InNeighboursKept
<1>4. OutboxTypeOK
  BY <1>3 DEF Init, OutboxInit, OutboxTypeOK, Nothing
<1>5. Cardinality(Vertices) \in Nat
  BY VerticesAssumption, FS_CardinalityType
<1>6. ip_all_targets \in Seq(Vertices)
  BY EnumerationLists DEF Init
<1>7. marking \in [Threads -> Seq(Vertices)]
  BY DEF Init
<1> QED
  BY <1>1, <1>2, <1>4, <1>5, <1>6, <1>7 DEF Init, TeamInit, TypeOK, PCs

\* The steps of a thread that runs no vertex and fetches for none.
LEMMA PlainStepTyped ==
  ASSUME TypeOK, TeamInv, NEW t \in Threads,
         \/ While(t) \/ StartSingle(t) \/ MarkTarget(t) \/ MarkingDone(t) \/ LeaveCompute(t)
         \/ FilterSingle(t) \/ SkipFilter(t) \/ Count(t) \/ LeaveFetch(t) \/ LeaveReset(t)
         \/ EndSuperstep(t)
  PROVE  TypeOK'
<1>1. pc' \in [Threads -> PCs] /\ claimed' \in BOOLEAN /\ UNCHANGED todo
  <2>1. CASE MarkTarget(t)
    BY <2>1 DEF MarkTarget, TypeOK, teamVars
  <2>2. CASE ~MarkTarget(t)
    <3>1. PICK from \in PCs, to \in PCs : Move(t, from, to)
      BY <2>2 DEF While, StartSingle, MarkingDone, LeaveCompute, FilterSingle, SkipFilter, Count,
         LeaveFetch, LeaveReset, EndSuperstep, EnterSingle, SkipSingle, LeaveLoop, FinishSingle,
         SkipFinish, PCs
    <3>2. pc' \in [Threads -> PCs]
      BY <3>1, MoveEffect DEF TypeOK
    <3>3. claimed' \in BOOLEAN /\ UNCHANGED todo
      BY <2>2 DEF While, StartSingle, MarkingDone, LeaveCompute, FilterSingle, SkipFilter, Count,
         LeaveFetch, LeaveReset, EndSuperstep, EnterSingle, SkipSingle, LeaveLoop, FinishSingle,
         SkipFinish, TypeOK
    <3> QED
      BY <3>2, <3>3
  <2> QED
    BY <2>1, <2>2
<1>2. EngineTypeOK'
  BY EngineUnchanged, EngineStepsTyped
     DEF TypeOK, While, StartSingle, MarkTarget, MarkingDone, LeaveCompute, FilterSingle,
         SkipFilter, Count, LeaveFetch, LeaveReset, EndSuperstep, SkipFinish
<1>3. OutboxTypeOK'
  BY OutboxUnchanged
     DEF TypeOK, While, StartSingle, MarkTarget, MarkingDone, LeaveCompute, FilterSingle,
         SkipFilter, Count, LeaveFetch, LeaveReset, EndSuperstep
<1>4. CASE MarkTarget(t)
  <2>1. /\ marking[t] # << >> /\ UNCHANGED <<ip_all_targets, ip_active_vertices>>
        /\ broadcast_target' = [broadcast_target EXCEPT ![Head(marking[t])] = TRUE]
        /\ marking' = [marking EXCEPT ![t] = Tail(@)]
    BY <1>4 DEF MarkTarget
  <2>2. marking' \in [Threads -> Seq(Vertices)]
    BY <2>1 DEF TypeOK
  <2>3. broadcast_target' \in [Vertices -> BOOLEAN]
    BY <2>1 DEF TypeOK
  <2> QED
    BY <1>1, <1>2, <1>3, <2>1, <2>2, <2>3 DEF TypeOK
<1>5. CASE FilterSingle(t)
  <2>1. UNCHANGED <<broadcast_target, ip_active_vertices, marking>>
    BY <1>5 DEF FilterSingle
  <2>2. ip_all_targets' \in Seq(Vertices)
    BY <1>5, EnumerationLists DEF FilterSingle
  <2> QED
    BY <1>1, <1>2, <1>3, <2>1, <2>2 DEF TypeOK
<1>6. CASE Count(t)
  <2>1. /\ UNCHANGED <<broadcast_target, ip_all_targets, marking>>
        /\ ip_active_vertices' = Len(ip_all_targets)
    BY <1>6 DEF Count
  <2>2. ip_active_vertices' \in Nat
    BY <2>1 DEF TypeOK
  <2> QED
    BY <1>1, <1>2, <1>3, <2>1, <2>2 DEF TypeOK
<1>7. CASE ~(MarkTarget(t) \/ FilterSingle(t) \/ Count(t))
  <2>1. UNCHANGED targetVars
    BY <1>7 DEF While, StartSingle, MarkingDone, LeaveCompute, SkipFilter, LeaveFetch, LeaveReset,
       EndSuperstep
  <2> QED
    BY <1>1, <1>2, <1>3, <2>1 DEF TypeOK, targetVars
<1> QED
  BY <1>4, <1>5, <1>6, <1>7

\* The iterations of the loops.
LEMMA IterationTyped ==
  ASSUME ProgramTyped, CombineClosed, TypeOK, TeamInv, NEW t \in Threads, NEW i \in todo,
         ComputeVertex(t, i) \/ FetchVertex(t, i) \/ ResetVertex(t, i)
  PROVE  TypeOK'
<1>1. pc' \in [Threads -> PCs] /\ claimed' \in BOOLEAN
      /\ todo' \in SUBSET (Vertices \cup 1 .. Cardinality(Vertices))
  <2>1. PICK from \in PCs, to \in PCs : Move(t, from, to) /\ TakeIteration(i)
    BY DEF ComputeVertex, FetchVertex, ResetVertex, PCs
  <2>2. pc' \in [Threads -> PCs]
    BY <2>1, MoveEffect DEF TypeOK
  <2> QED
    BY <2>1, <2>2 DEF TakeIteration, TypeOK
<1>2. CASE ComputeVertex(t, i)
  <2> DEFINE v == ip_all_targets[i]
  <2>1. Move(t, "compute", "mark") /\ UNCHANGED <<broadcast_target, ip_all_targets, ip_active_vertices>>
    BY <1>2 DEF ComputeVertex
  <2>2. v \in Vertices
    <3>1. Inside(ComputeLabels)
      BY <2>1, MoveTests, PhaseNames, LabelNames DEF TeamInv
    <3>2. todo \subseteq DOMAIN ip_all_targets
      BY <3>1 DEF Inside, TeamInv, IterationsLeft
    <3> QED
      BY <3>2, Positions DEF TeamInv
  <2>3. PICK outcome \in Outcomes(v) :
          /\ RunVertex(v, outcome)
          /\ FillOutbox(v, outcome, has_broadcast_message[v])
          /\ marking' = [marking EXCEPT ![t] =
               IF outcome.message = None THEN << >> ELSE out_neighbours[v]]
    BY <1>2 DEF ComputeVertex
  <2> HIDE DEF v
  <2>4. outcome.message \in Messages \cup {None} /\ out_neighbours[v] \in Seq(Vertices)
    BY <2>2, OutcomeTyped DEF TypeOK
  <2>5. EngineTypeOK'
    BY <2>2, <2>3, RunVertexTyped DEF TypeOK
  <2>6. OutboxTypeOK'
    BY <2>2, <2>3, <2>4 DEF FillOutbox, OutboxTypeOK, TypeOK
  <2>7. marking' \in [Threads -> Seq(Vertices)]
    BY <2>3, <2>4 DEF TypeOK
  <2> QED
    BY <1>1, <2>1, <2>5, <2>6, <2>7 DEF TypeOK
<1>3. CASE FetchVertex(t, i)
  <2> DEFINE v == ip_all_targets[i]
  <2>1. /\ Move(t, "fetch", "fetch") /\ UNCHANGED <<ip_all_targets, ip_active_vertices, marking>>
        /\ \/ Fetch(v) /\ broadcast_target' = [broadcast_target EXCEPT ![v] = FALSE]
           \/ UNCHANGED <<engineVars, outboxVars, broadcast_target>>
    BY <1>3 DEF FetchVertex
  <2>2. v \in Vertices
    <3>1. Inside(FetchLabels)
      BY <2>1, MoveTests, PhaseNames, LabelNames DEF TeamInv
    <3>2. todo \subseteq DOMAIN ip_all_targets
      BY <3>1 DEF Inside, TeamInv, IterationsLeft
    <3> QED
      BY <3>2, Positions DEF TeamInv
  <2> HIDE DEF v
  <2>3. CASE Fetch(v) /\ broadcast_target' = [broadcast_target EXCEPT ![v] = FALSE]
    <3>1. EngineTypeOK'
      <4>1. Broadcasters(v) # {} => FetchedMessage(v) \in Messages
        BY <2>2, MessageFetched DEF TypeOK
      <4> QED
        BY <2>2, <2>3, <4>1 DEF Fetch, EngineTypeOK, TypeOK, jobVars, historyVars
    <3>2. OutboxTypeOK'
      BY <2>3, OutboxUnchanged DEF Fetch, TypeOK
    <3>3. broadcast_target' \in [Vertices -> BOOLEAN]
      BY <2>3 DEF TypeOK
    <3> QED
      BY <1>1, <2>1, <3>1, <3>2, <3>3 DEF TypeOK
  <2>4. CASE UNCHANGED <<engineVars, outboxVars, broadcast_target>>
    BY <1>1, <2>1, <2>4, EngineUnchanged, OutboxUnchanged DEF TypeOK
  <2> QED
    BY <2>1, <2>3, <2>4
<1>4. CASE ResetVertex(t, i)
  <2>1. /\ UNCHANGED <<engineVars, in_neighbours, broadcast_message, targetVars>>
        /\ has_broadcast_message' = [has_broadcast_message EXCEPT ![i] = FALSE]
    BY <1>4 DEF ResetVertex
  <2>2. OutboxTypeOK'
    BY <2>1 DEF OutboxTypeOK, TypeOK
  <2> QED
    BY <1>1, <2>1, <2>2, EngineUnchanged DEF TypeOK, targetVars
<1> QED
  BY <1>2, <1>3, <1>4

\* The barriers.
LEMMA BarrierStepTyped ==
  ASSUME TypeOK, TeamInv, BarrierStep PROVE TypeOK'
<1>1. PICK from \in PCs, to \in PCs, iterations \in {{}, Vertices, DOMAIN ip_all_targets} :
        Barrier(from, to, iterations)
  BY DEF BarrierStep, BeginCompute, BeginFilter, EndFilter, BeginReset, BeginFinish, NextIteration,
     PCs
<1>2. DOMAIN ip_all_targets \subseteq 1 .. Cardinality(Vertices)
  BY Positions DEF TeamInv
<1>3. /\ pc' \in [Threads -> PCs] /\ claimed' \in BOOLEAN
      /\ todo' \in SUBSET (Vertices \cup 1 .. Cardinality(Vertices))
  BY <1>1, <1>2 DEF Barrier
<1>4. EngineTypeOK'
  <2>1. PICK t \in Threads : TRUE
    BY ThreadsAssumption
  <2> QED
    BY <2>1, EngineUnchanged, EngineStepsTyped
       DEF TypeOK, BarrierStep, BeginCompute, BeginFilter, EndFilter, BeginReset, BeginFinish,
           NextIteration
<1>5. OutboxTypeOK' /\ UNCHANGED targetVars
  BY OutboxUnchanged
     DEF TypeOK, BarrierStep, BeginCompute, BeginFilter, EndFilter, BeginReset, BeginFinish,
         NextIteration
<1> QED
  BY <1>3, <1>4, <1>5 DEF TypeOK, targetVars

\* Every step keeps to the types.
LEMMA NextTyped ==
  ASSUME ProgramTyped, CombineClosed, TypeOK, TeamInv, [Next]_vars
  PROVE  TypeOK'
<1>1. CASE UNCHANGED vars
  BY <1>1, EngineUnchanged, OutboxUnchanged DEF vars, teamVars, targetVars, TypeOK
<1>2. ASSUME NEW t \in Threads, ThreadStep(t) PROVE TypeOK'
  BY <1>2, PlainStepTyped, IterationTyped DEF ThreadStep
<1> QED
  BY <1>1, <1>2, BarrierStepTyped DEF Next

\* Outside the loops there is no iteration left, and there will be none.
LEMMA TeamOutside ==
  ASSUME ListedOnce', SingleEntered', SamePhase', todo' = {}
  PROVE  TeamInv'
BY DEF TeamInv, IterationsLeft

\* Inside a loop iterations are taken, and a thread that leaves some leaves them to
\* another one.
LEMMA TeamInside ==
  ASSUME TeamInv, NEW P \in {ComputeLabels, FetchLabels, ResetLabels},
         Inside(P), Inside(P)', SamePhase', todo' \subseteq todo, UNCHANGED ip_all_targets,
         todo' = {} \/ AnyAt({"compute", "mark", "count", "fetch", "reset"})'
  PROVE  TeamInv'
<1>1. SingleEntered'
  <2>1. \A u \in Threads : pc'[u] \notin {"filter_done", "finish_done"}
    BY DEF Inside, ComputeLabels, FetchLabels, ResetLabels
  <2> QED
    BY <2>1 DEF SingleEntered, AnyAt
<1>2. ListedOnce'
  BY DEF TeamInv, ListedOnce
<1>3. /\ AnyAt(ComputeLabels)' <=> AnyAt(ComputeLabels)
      /\ AnyAt(FetchLabels)' <=> AnyAt(FetchLabels)
      /\ AnyAt(ResetLabels)' <=> AnyAt(ResetLabels)
  BY DEF Inside
<1>4. IterationsLeft'
  BY <1>3 DEF TeamInv, IterationsLeft
<1> QED
  BY <1>1, <1>2, <1>4 DEF TeamInv

\* The steps of a thread.
LEMMA TeamStep ==
  ASSUME TypeOK, TeamInv, NEW t \in Threads, ThreadStep(t)
  PROVE  TeamInv'
<1>1. CASE While(t) \/ StartSingle(t)
  <2>1. /\ UNCHANGED <<todo, ip_all_targets>>
        /\ \E from, to \in HeadLabels : Move(t, from, to)
    BY <1>1, LabelNames DEF While, StartSingle, EnterSingle, SkipSingle, targetVars
  <2>2. Inside(HeadLabels) /\ Inside(HeadLabels)' /\ SamePhase'
    BY <2>1, MoveTests, PhaseNames DEF TeamInv
  <2>3. todo' = {}
    BY <2>1, <2>2, OutsideLoops DEF Inside, HeadLabels, TeamInv
  <2>4. SingleEntered' /\ ListedOnce'
    BY <2>1, <2>2 DEF SingleEntered, AnyAt, Inside, HeadLabels, TeamInv, ListedOnce
  <2> QED
    BY <2>2, <2>3, <2>4, TeamOutside
<1>2. CASE FilterSingle(t) \/ SkipFilter(t)
  <2>1. Move(t, "filter", "filter_done") /\ UNCHANGED todo /\ claimed'
    BY <1>2 DEF FilterSingle, SkipFilter, EnterSingle, SkipSingle
  <2>2. Inside(FilterLabels) /\ Inside(FilterLabels)' /\ SamePhase'
    BY <2>1, MoveTests, PhaseNames, LabelNames DEF TeamInv
  <2>3. todo' = {}
    BY <2>1, <2>2, OutsideLoops DEF Inside, FilterLabels, TeamInv
  <2>4. ListedOnce'
    <3>1. CASE FilterSingle(t)
      BY <3>1, EnumerationLists DEF FilterSingle, ListedOnce
    <3>2. CASE SkipFilter(t)
      BY <3>2 DEF SkipFilter, targetVars, TeamInv, ListedOnce
    <3> QED
      BY <1>2, <3>1, <3>2
  <2> QED
    BY <2>1, <2>2, <2>3, <2>4, TeamOutside DEF SingleEntered
<1>3. CASE EndSuperstep(t)
  <2>1. Move(t, "finish", "finish_done") /\ UNCHANGED <<todo, ip_all_targets>> /\ claimed'
    BY <1>3 DEF EndSuperstep, FinishSingle, SkipFinish, EnterSingle, SkipSingle, targetVars
  <2>2. Inside(FinishLabels) /\ Inside(FinishLabels)' /\ SamePhase'
    BY <2>1, MoveTests, PhaseNames, LabelNames DEF TeamInv
  <2>3. todo' = {}
    BY <2>1, <2>2, OutsideLoops DEF Inside, FinishLabels, TeamInv
  <2>4. ListedOnce'
    BY <2>1 DEF TeamInv, ListedOnce
  <2> QED
    BY <2>1, <2>2, <2>3, <2>4, TeamOutside DEF SingleEntered
<1>4. CASE MarkTarget(t)
  <2>1. pc[t] = "mark" /\ UNCHANGED <<pc, todo, ip_all_targets>>
    BY <1>4 DEF MarkTarget, teamVars
  <2>2. Inside(ComputeLabels) /\ Inside(ComputeLabels)' /\ SamePhase'
    BY <2>1, StayTests, PhaseNames, LabelNames DEF TeamInv
  <2>3. AnyAt({"compute", "mark", "count", "fetch", "reset"})'
    BY <2>1 DEF AnyAt
  <2> QED
    BY <2>1, <2>2, <2>3, TeamInside
<1>5. ASSUME NEW from, NEW to \in {"compute", "mark", "count", "fetch", "reset"},
             NEW P \in {ComputeLabels, FetchLabels, ResetLabels}, from \in P, to \in P,
             Move(t, from, to), todo' \subseteq todo, UNCHANGED ip_all_targets
      PROVE  TeamInv'
  <2>1. Inside(P) /\ Inside(P)' /\ SamePhase' /\ pc'[t] = to
    BY <1>5, MoveTests, PhaseNames DEF TeamInv
  <2>2. AnyAt({"compute", "mark", "count", "fetch", "reset"})'
    BY <2>1 DEF AnyAt
  <2> QED
    BY <1>5, <2>1, <2>2, TeamInside
<1>6. CASE \/ \E i \in todo : ComputeVertex(t, i) \/ FetchVertex(t, i) \/ ResetVertex(t, i)
           \/ MarkingDone(t) \/ Count(t)
  <2>1. /\ todo' \subseteq todo /\ UNCHANGED ip_all_targets
        /\ \/ Move(t, "compute", "mark") \/ Move(t, "mark", "compute") \/ Move(t, "count", "fetch")
           \/ Move(t, "fetch", "fetch") \/ Move(t, "reset", "reset")
    BY <1>6 DEF ComputeVertex, FetchVertex, ResetVertex, MarkingDone, Count, TakeIteration,
       targetVars
  <2> QED
    BY <1>5, <2>1, LabelNames
<1>7. ASSUME NEW from, NEW to, NEW inLoop,
             inLoop \subseteq {"compute", "mark", "count", "fetch", "reset"},
             NEW P \in {ComputeLabels, FetchLabels, ResetLabels}, from \in P, to \in P,
             LeaveLoop(t, from, to, inLoop), UNCHANGED ip_all_targets
      PROVE  TeamInv'
  <2>1. Move(t, from, to) /\ UNCHANGED todo
    BY <1>7 DEF LeaveLoop
  <2>2. Inside(P) /\ Inside(P)' /\ SamePhase' /\ \A u \in Threads \ {t} : pc'[u] = pc[u]
    BY <1>7, <2>1, MoveTests, PhaseNames DEF TeamInv
  <2>3. todo' = {} \/ AnyAt({"compute", "mark", "count", "fetch", "reset"})'
    BY <1>7, <2>1, <2>2 DEF LeaveLoop, AnyAt
  <2> QED
    BY <1>7, <2>1, <2>2, <2>3, TeamInside
<1>8. CASE LeaveCompute(t) \/ LeaveFetch(t) \/ LeaveReset(t)
  <2>1. /\ UNCHANGED ip_all_targets
        /\ \/ LeaveLoop(t, "compute", "compute_done", {"compute", "mark"})
           \/ LeaveLoop(t, "fetch", "fetch_done", {"count", "fetch"})
           \/ LeaveLoop(t, "reset", "reset_done", {"reset"})
    BY <1>8 DEF LeaveCompute, LeaveFetch, LeaveReset, targetVars
  <2>2. CASE LeaveLoop(t, "compute", "compute_done", {"compute", "mark"})
    BY <1>7, <2>1, <2>2, LabelNames
  <2>3. CASE LeaveLoop(t, "fetch", "fetch_done", {"count", "fetch"})
    BY <1>7, <2>1, <2>3, LabelNames
  <2>4. CASE LeaveLoop(t, "reset", "reset_done", {"reset"})
    BY <1>7, <2>1, <2>4, LabelNames
  <2> QED
    BY <2>1, <2>2, <2>3, <2>4
<1> QED
  BY <1>1, <1>2, <1>3, <1>4, <1>6, <1>8 DEF ThreadStep

\* The barriers.
LEMMA TeamBarrier ==
  ASSUME TypeOK, TeamInv, BarrierStep
  PROVE  TeamInv'
<1>1. UNCHANGED ip_all_targets
  BY DEF BarrierStep, BeginCompute, BeginFilter, EndFilter, BeginReset, BeginFinish, NextIteration,
     targetVars
<1>2. ListedOnce'
  BY <1>1 DEF TeamInv, ListedOnce
<1>3. ASSUME NEW P \in Phases, NEW Q \in Phases, NEW from \in P, NEW to \in Q, NEW iterations,
             Barrier(from, to, iterations), to \notin {"filter_done", "finish_done"},
             \/ iterations = {} /\ Q \notin {ComputeLabels, FetchLabels, ResetLabels}
             \/ /\ iterations = DOMAIN ip_all_targets /\ Q \in {ComputeLabels, FetchLabels}
                /\ to \in {"compute", "count"}
             \/ iterations = Vertices /\ Q = ResetLabels /\ to = "reset"
      PROVE  TeamInv'
  <2>1. /\ Inside(Q)' /\ SamePhase' /\ todo' = iterations
        /\ \A u \in Threads : pc'[u] = to
    <3>1. Barrier(from, to, iterations)
      BY <1>3
    <3>2. \A u \in Threads : pc'[u] = to
      BY <3>1 DEF Barrier
    <3>5. to \in Q /\ Q \in Phases
      BY <1>3
    <3>4. Inside(Q)' /\ SamePhase'
      <4>1. \A u \in Threads : pc'[u] \in Q
        BY <3>2, <3>5
      <4> QED
        BY <3>5, <4>1, PhaseTests DEF SamePhase, Together
    <3>3. todo' = iterations
      BY <3>1 DEF Barrier
    <3> QED
      BY <3>2, <3>3, <3>4
  <2>2. SingleEntered'
    BY <1>3, <2>1 DEF SingleEntered, AnyAt
  <2>3. /\ AnyAt(ComputeLabels)' <=> Q = ComputeLabels
        /\ AnyAt(FetchLabels)' <=> Q = FetchLabels
        /\ AnyAt(ResetLabels)' <=> Q = ResetLabels
    BY <2>1 DEF Inside
  <2>4. iterations # {} => AnyAt({"compute", "mark", "count", "fetch", "reset"})'
    BY <1>3, <2>1, ThreadsAssumption DEF AnyAt
  <2>5. IterationsLeft'
    BY <1>1, <1>3, <2>1, <2>3, <2>4, PhaseNames DEF IterationsLeft
  <2> QED
    BY <1>2, <2>1, <2>2, <2>5 DEF TeamInv
<1>4. \/ Barrier("start_done", "compute", DOMAIN ip_all_targets)
      \/ Barrier("compute_done", "filter", {})
      \/ Barrier("filter_done", "count", DOMAIN ip_all_targets)
      \/ Barrier("fetch_done", "reset", Vertices)
      \/ Barrier("reset_done", "finish", {})
      \/ Barrier("finish_done", "while", {})
  BY DEF BarrierStep, BeginCompute, BeginFilter, EndFilter, BeginReset, BeginFinish, NextIteration
<1>5. CASE Barrier("start_done", "compute", DOMAIN ip_all_targets)
  BY <1>3, <1>5, PhaseNames, LabelNames
<1>6. CASE Barrier("compute_done", "filter", {})
  BY <1>3, <1>6, PhaseNames, LabelNames
<1>7. CASE Barrier("filter_done", "count", DOMAIN ip_all_targets)
  BY <1>3, <1>7, PhaseNames, LabelNames
<1>8. CASE Barrier("fetch_done", "reset", Vertices)
  BY <1>3, <1>8, PhaseNames, LabelNames
<1>9. CASE Barrier("reset_done", "finish", {})
  BY <1>3, <1>9, PhaseNames, LabelNames
<1>10. CASE Barrier("finish_done", "while", {})
  BY <1>3, <1>10, PhaseNames, LabelNames
<1> QED
  BY <1>4, <1>5, <1>6, <1>7, <1>8, <1>9, <1>10

\* TeamInv holds initially...
LEMMA TeamInitInv == Init => TeamInv
<1> SUFFICES ASSUME Init PROVE TeamInv
  OBVIOUS
<1>1. (\A u \in Threads : pc[u] = "while") /\ todo = {}
  BY DEF Init, TeamInit
<1>2. SamePhase
  BY <1>1, PhaseNames, LabelNames DEF SamePhase, Together
<1>3. ListedOnce
  BY EnumerationLists DEF Init, ListedOnce
<1> QED
  BY <1>1, <1>2, <1>3 DEF TeamInv, SingleEntered, IterationsLeft, AnyAt

\* ... and after every step.
LEMMA TeamNextInv ==
  ASSUME TypeOK, TeamInv, [Next]_vars
  PROVE  TeamInv'
<1>1. CASE UNCHANGED vars
  BY <1>1 DEF vars, teamVars, targetVars, TeamInv, SamePhase, Together, SingleEntered,
     IterationsLeft, ListedOnce, AnyAt
<1> QED
  BY <1>1, TeamStep, TeamBarrier DEF Next

\* The values of the variables keep to their types: the list of targets holds only
\* vertices and never more of them than it was allocated for, and the loops over it
\* stay within it.
THEOREM SpreadSingleBroadcastTyped ==
  ASSUME ProgramTyped, CombineClosed PROVE Spec => []TypeOK
<1>1. Init => TypeOK /\ TeamInv
  BY InitTyped, TeamInitInv
<1>2. TypeOK /\ TeamInv /\ [Next]_vars => (TypeOK /\ TeamInv)'
  BY NextTyped, TeamNextInv
<1> QED
  BY <1>1, <1>2, PTL DEF Spec

------------------------------------------------------------------------------
(* TargetInv is inductive, given the types and TeamInv.                    *)

\* A vertex receives a message just when one goes to it along some edge.
LEMMA ReceivedSent ==
  ASSUME CombineClosed, TypeOK, NEW d \in Vertices
  PROVE  Received(out_neighbours, sent, d) # None <=> SentTo(d)
<1>1. out_neighbours \in [Vertices -> Seq(Vertices)] /\ sent \in [Vertices -> Maybe]
  BY JobsAssumption DEF TypeOK, EngineTypeOK, jobVars, Maybe
<1> DEFINE E == EdgesInto(out_neighbours, d)
<1>2. /\ IsFiniteSet(E)
      /\ \A e : e \in E <=> \E u \in Vertices : \E i \in 1 .. Len(out_neighbours[u]) :
                              e = <<u, i>> /\ out_neighbours[u][i] = d
  BY <1>1, EdgesIntoFinite
<1>3. Received(out_neighbours, sent, d) = CombinedOver(sent, E)
  BY DEF Received
<1> HIDE DEF E
<1>4. Carries(sent, E)
  BY <1>1, <1>2 DEF Carries
<1>5. CombinedOver(sent, E) = None <=> \A e \in E : sent[e[1]] = None
  BY <1>2, <1>4, CombinedTyped
<1>6. \A u \in Vertices : DOMAIN out_neighbours[u] = 1 .. Len(out_neighbours[u])
  BY <1>1
<1>7. (\E e \in E : sent[e[1]] # None) <=> SentTo(d)
  <2>1. ASSUME NEW e \in E, sent[e[1]] # None PROVE SentTo(d)
    <3>1. PICK u \in Vertices : \E i \in 1 .. Len(out_neighbours[u]) :
                              e = <<u, i>> /\ out_neighbours[u][i] = d
      BY <1>2
    <3> QED
      BY <1>6, <2>1, <3>1 DEF SentTo
  <2>2. ASSUME NEW u \in Vertices, sent[u] # None, NEW i \in DOMAIN out_neighbours[u],
               out_neighbours[u][i] = d
        PROVE  \E e \in E : sent[e[1]] # None
    <3>1. <<u, i>> \in E
      BY <1>2, <1>6, <2>2
    <3> QED
      BY <2>2, <3>1
  <2> QED
    BY <2>1, <2>2 DEF SentTo
<1> QED
  BY <1>3, <1>5, <1>7

\* Whom the threads have yet to mark.
Pending(d) == \E t \in Threads : ToMark(t, d)

\* Threads that are not inside ip_broadcast have nobody to mark.
LEMMA NoPending ==
  ASSUME MarksWithinLoop, \A t \in Threads : pc[t] # "mark", NEW d
  PROVE  ~Pending(d)
BY DEF MarksWithinLoop, Pending, ToMark

\* What TargetInv is about, but for the list, the iterations and the positions of
\* the threads, stays as it was.
Still ==
  UNCHANGED <<out_neighbours, in_neighbours, has_broadcast_message, broadcast_message, sent, ran,
              broadcast_target, marking>>

\* The invariant, by the phase that the threads are in.
Marked(d) == broadcast_target[d] \/ Pending(d)
AllCurrent == \A v \in Vertices : Outgoing(v) = sent[v]
NoOutbox(S) == \A v \in S : ~has_broadcast_message[v]
ListsReceivers == \A d \in Vertices : Listed(d) <=> SentTo(d)
Ran ==
  /\ \A i \in todo : ip_all_targets[i] \notin ran /\ sent[ip_all_targets[i]] = None
  /\ \A i \in DOMAIN ip_all_targets \ todo : ip_all_targets[i] \in ran
Stage(P) ==
  /\ P \in {ComputeLabels, FilterLabels} => \A d \in Vertices : Marked(d) <=> SentTo(d)
  /\ P = FetchLabels => \A d \in Vertices : Marked(d) <=> \E i \in todo : ip_all_targets[i] = d
  /\ P \in {HeadLabels, ResetLabels, FinishLabels} => \A d \in Vertices : ~Marked(d)
  /\ (P = FilterLabels /\ claimed) \/ P \in {FetchLabels, ResetLabels} => ListsReceivers
  /\ P \in {ComputeLabels, FilterLabels, FetchLabels} => AllCurrent
  /\ P = ResetLabels => NoOutbox(Vertices \ todo)
  /\ P \in {FinishLabels, HeadLabels} => NoOutbox(Vertices)
  /\ P = ComputeLabels => Ran
  /\ AnyAt({"start", "start_done"}) \/ P = ComputeLabels => ip_all_targets # << >>
  /\ P = HeadLabels /\ ip_superstep = 0 => ip_all_targets # << >>
  /\ P = FinishLabels /\ claimed => ip_superstep # 0

\* Phase by phase, TargetInv says what Stage says.
LEMMA StageInv ==
  \A P \in Phases : Inside(P) => (TargetInv <=> InNeighboursKept /\ MarksWithinLoop /\ Stage(P))
<1> SUFFICES ASSUME NEW P \in Phases, Inside(P)
             PROVE  TargetInv <=> InNeighboursKept /\ MarksWithinLoop /\ Stage(P)
  OBVIOUS
<1>1. /\ AnyAt(HeadLabels) <=> P = HeadLabels
      /\ AnyAt(ComputeLabels) <=> P = ComputeLabels
      /\ AnyAt(FilterLabels) <=> P = FilterLabels
      /\ AnyAt(FetchLabels) <=> P = FetchLabels
      /\ AnyAt(ResetLabels) <=> P = ResetLabels
      /\ AnyAt(FinishLabels) <=> P = FinishLabels
  BY DEF Inside
<1>2. P \in {HeadLabels, ComputeLabels, FilterLabels, FetchLabels, ResetLabels, FinishLabels}
  BY DEF Phases
<1>3. MarksRight <=>
        /\ P \in {ComputeLabels, FilterLabels} => \A d \in Vertices : Marked(d) <=> SentTo(d)
        /\ P = FetchLabels =>
             \A d \in Vertices : Marked(d) <=> \E i \in todo : ip_all_targets[i] = d
        /\ P \in {HeadLabels, ResetLabels, FinishLabels} => \A d \in Vertices : ~Marked(d)
  <2>1. MarksRight <=> \A d \in Vertices :
          Marked(d) <=> \/ P \in {ComputeLabels, FilterLabels} /\ SentTo(d)
                        \/ P = FetchLabels /\ \E i \in todo : ip_all_targets[i] = d
    BY <1>1 DEF MarksRight, Marked, Pending
  <2> QED
    BY <1>2, <2>1, PhaseNames
<1>4. ListRight <=>
        ((P = FilterLabels /\ claimed) \/ P \in {FetchLabels, ResetLabels} => ListsReceivers)
  BY <1>1 DEF ListRight, ListsReceivers
<1>5. OutboxCurrent <=>
        /\ P \in {ComputeLabels, FilterLabels, FetchLabels} => AllCurrent
        /\ P = ResetLabels => NoOutbox(Vertices \ todo)
        /\ P \in {FinishLabels, HeadLabels} => NoOutbox(Vertices)
  BY <1>1 DEF OutboxCurrent, AllCurrent, NoOutbox
<1>6. RunsOnce <=> (P = ComputeLabels => Ran)
  BY <1>1 DEF RunsOnce, Ran
<1>7. SomeTarget <=>
        /\ AnyAt({"start", "start_done"}) \/ P = ComputeLabels => ip_all_targets # << >>
        /\ P = HeadLabels /\ ip_superstep = 0 => ip_all_targets # << >>
        /\ P = FinishLabels /\ claimed => ip_superstep # 0
  BY <1>1 DEF SomeTarget
<1> QED
  BY <1>3, <1>4, <1>5, <1>6, <1>7 DEF TargetInv, Stage

\* The same of the next state.
LEMMA StageInvNext ==
  (\A P \in Phases : Inside(P) => (TargetInv <=> InNeighboursKept /\ MarksWithinLoop /\ Stage(P)))'
BY StageInv, PTL

\* A step that keeps what Stage says keeps TargetInv.
LEMMA StageKept ==
  ASSUME NEW P \in Phases, Inside(P)', InNeighboursKept', MarksWithinLoop', Stage(P)'
  PROVE  TargetInv'
BY StageInvNext

\* The steps that change none of this.
LEMMA TargetQuiet ==
  ASSUME TargetInv, NEW P \in Phases, Inside(P), Inside(P)', MarksWithinLoop', Still,
         UNCHANGED <<ip_all_targets, todo>>,
         P = FilterLabels => UNCHANGED claimed,
         AnyAt({"start", "start_done"})' => ip_all_targets # << >>,
         P = HeadLabels => UNCHANGED ip_superstep,
         P = FinishLabels /\ claimed' => ip_superstep' # 0
  PROVE  TargetInv'
<1>1. InNeighboursKept /\ Stage(P)
  BY StageInv
<1>2. InNeighboursKept'
  BY <1>1 DEF InNeighboursKept, Still
<1>3. Stage(P)'
  BY <1>1 DEF Stage, Still, Marked, Pending, ToMark, SentTo, ListsReceivers, Listed, AllCurrent,
     Outgoing, NoOutbox, Ran
<1> QED
  BY <1>2, <1>3, StageKept

\* A thread that moves has no marks to write but behind ip_broadcast's loop.
LEMMA MarksKept ==
  ASSUME TypeOK, MarksWithinLoop, NEW t \in Threads, NEW from, NEW to, Move(t, from, to),
         UNCHANGED marking, from = "mark" => marking[t] = << >>
  PROVE  MarksWithinLoop'
BY DEF MarksWithinLoop, Move, TypeOK

\* The steps of a thread at which no vertex is run, marked, listed, fetched for or
\* reset.
LEMMA TargetPlain ==
  ASSUME TypeOK, TeamInv, TargetInv, NEW t \in Threads,
         \/ While(t) \/ StartSingle(t) \/ MarkingDone(t) \/ LeaveCompute(t) \/ SkipFilter(t)
         \/ Count(t) \/ LeaveFetch(t) \/ LeaveReset(t) \/ EndSuperstep(t)
  PROVE  TargetInv'
<1>1. Still /\ UNCHANGED <<ip_all_targets, todo>>
  BY DEF While, StartSingle, MarkingDone, LeaveCompute, SkipFilter, Count, LeaveFetch, LeaveReset,
     EndSuperstep, EnterSingle, SkipSingle, LeaveLoop, FinishSingle, SkipFinish, engineVars, jobVars,
     historyVars, outboxVars, targetVars, Still
<1>2. MarksWithinLoop
  BY DEF TargetInv
<1>3. CASE While(t)
  <2>1. PICK to \in {"start", "exit"} :
          /\ Move(t, "while", to)
          /\ to = "start" => ip_superstep = 0 \/ ip_all_targets # << >>
    BY <1>3 DEF While
  <2>2. /\ Inside(HeadLabels) /\ Inside(HeadLabels)'
        /\ pc'[t] = to /\ \A u \in Threads \ {t} : pc'[u] = pc[u]
    BY <2>1, MoveTests, PhaseNames, LabelNames DEF TeamInv
  <2>3. Stage(HeadLabels)
    BY <2>2, StageInv, PhaseNames
  <2>4. MarksWithinLoop'
    BY <1>1, <1>2, <2>1, MarksKept DEF Still
  <2>5. AnyAt({"start", "start_done"})' => ip_all_targets # << >>
    BY <2>1, <2>2, <2>3 DEF Stage, AnyAt
  <2>6. UNCHANGED ip_superstep
    BY <1>3 DEF While, engineVars
  <2> QED
    BY <1>1, <2>2, <2>4, <2>5, <2>6, TargetQuiet, PhaseNames
<1>4. CASE StartSingle(t)
  <2>1. Move(t, "start", "start_done") /\ UNCHANGED ip_superstep
    BY <1>4 DEF StartSingle, EnterSingle, SkipSingle, engineVars
  <2>2. Inside(HeadLabels) /\ Inside(HeadLabels)' /\ pc[t] = "start"
    BY <2>1, MoveTests, PhaseNames, LabelNames DEF TeamInv
  <2>3. ip_all_targets # << >>
    BY <2>2 DEF TargetInv, SomeTarget, AnyAt
  <2>4. MarksWithinLoop'
    BY <1>1, <1>2, <2>1, MarksKept DEF Still
  <2> QED
    BY <1>1, <2>1, <2>2, <2>3, <2>4, TargetQuiet, PhaseNames
<1>5. CASE EndSuperstep(t)
  <2>1. /\ Move(t, "finish", "finish_done")
        /\ \/ ip_superstep' = ip_superstep + 1
           \/ claimed /\ UNCHANGED ip_superstep
    BY <1>5 DEF EndSuperstep, FinishSingle, SkipFinish, EnterSingle, SkipSingle, engineVars
  <2>2. /\ Inside(FinishLabels) /\ Inside(FinishLabels)'
        /\ \A u \in Threads : pc'[u] \in FinishLabels
    BY <2>1, MoveTests, PhaseNames, LabelNames DEF TeamInv, Inside
  <2>3. Stage(FinishLabels) /\ ip_superstep \in Nat
    BY <2>2, StageInv, PhaseNames DEF TypeOK, EngineTypeOK
  <2>4. ip_superstep' # 0
    BY <2>1, <2>3 DEF Stage
  <2>5. ~AnyAt({"start", "start_done"})'
    BY <2>2 DEF AnyAt, FinishLabels
  <2>6. MarksWithinLoop'
    BY <1>1, <1>2, <2>1, MarksKept DEF Still
  <2> QED
    BY <1>1, <2>2, <2>4, <2>5, <2>6, TargetQuiet, PhaseNames
<1>6. ASSUME NEW P \in {ComputeLabels, FilterLabels, FetchLabels, ResetLabels},
             NEW from \in P, NEW to \in P, Move(t, from, to),
             from = "mark" => marking[t] = << >>, UNCHANGED claimed
      PROVE  TargetInv'
  <2>1. P \in Phases /\ P # HeadLabels /\ P # FinishLabels
    BY <1>6, PhaseNames
  <2>2. Inside(P) /\ Inside(P)'
    BY <1>6, <2>1, MoveTests DEF TeamInv
  <2>3. ~AnyAt({"start", "start_done"})'
    <3>1. "start" \notin P /\ "start_done" \notin P
      BY <1>6 DEF ComputeLabels, FilterLabels, FetchLabels, ResetLabels
    <3> QED
      BY <2>2, <3>1 DEF Inside, AnyAt
  <2>4. MarksWithinLoop'
    BY <1>1, <1>2, <1>6, MarksKept DEF Still
  <2> QED
    BY <1>1, <1>6, <2>1, <2>2, <2>3, <2>4, TargetQuiet
<1>7. CASE \/ MarkingDone(t) \/ LeaveCompute(t) \/ SkipFilter(t) \/ Count(t) \/ LeaveFetch(t)
           \/ LeaveReset(t)
  <2>1. /\ UNCHANGED claimed
        /\ \/ Move(t, "mark", "compute") /\ marking[t] = << >>
           \/ Move(t, "compute", "compute_done")
           \/ Move(t, "filter", "filter_done")
           \/ Move(t, "count", "fetch")
           \/ Move(t, "fetch", "fetch_done")
           \/ Move(t, "reset", "reset_done")
    BY <1>7 DEF MarkingDone, LeaveCompute, SkipFilter, Count, LeaveFetch, LeaveReset, SkipSingle,
       LeaveLoop
  <2> QED
    BY <1>6, <2>1, LabelNames
<1> QED
  BY <1>3, <1>4, <1>5, <1>7

\* Where a barrier is, and where the threads are behind it.
LEMMA BarrierPlaces ==
  ASSUME NEW P \in Phases, NEW label \in P
  PROVE  /\ AllAt(label) => Inside(P)
         /\ pc' = [u \in Threads |-> label] => Inside(P)'
BY PhaseTests DEF AllAt

\* The phases that end at the barriers.
LEMMA BeforeBarrier ==
  /\ AllAt("start_done") => Inside(HeadLabels)
  /\ AllAt("compute_done") => Inside(ComputeLabels)
  /\ AllAt("filter_done") => Inside(FilterLabels)
  /\ AllAt("fetch_done") => Inside(FetchLabels)
  /\ AllAt("reset_done") => Inside(ResetLabels)
  /\ AllAt("finish_done") => Inside(FinishLabels)
BY BarrierPlaces, PhaseNames, LabelNames

\* The phases that begin at them.
LEMMA BehindBarrier ==
  /\ pc' = [u \in Threads |-> "compute"] => Inside(ComputeLabels)'
  /\ pc' = [u \in Threads |-> "filter"] => Inside(FilterLabels)'
  /\ pc' = [u \in Threads |-> "count"] => Inside(FetchLabels)'
  /\ pc' = [u \in Threads |-> "reset"] => Inside(ResetLabels)'
  /\ pc' = [u \in Threads |-> "finish"] => Inside(FinishLabels)'
  /\ pc' = [u \in Threads |-> "while"] => Inside(HeadLabels)'
BY BarrierPlaces, PhaseNames, LabelNames

\* The barriers: what the phase that ends has brought about is what the next one
\* starts from.
LEMMA TargetBarrier ==
  ASSUME TypeOK, TeamInv, TargetInv, BarrierStep
  PROVE  TargetInv'
<1>1. /\ UNCHANGED <<out_neighbours, in_neighbours, has_broadcast_message, broadcast_message,
                     broadcast_target, marking, ip_all_targets, ip_superstep>>
      /\ BeginCompute \/ UNCHANGED <<sent, ran>>
  BY DEF BarrierStep, BeginCompute, BeginFilter, EndFilter, BeginReset, BeginFinish, NextIteration,
     engineVars, jobVars, historyVars, outboxVars, targetVars
<1>2. InNeighboursKept'
  BY <1>1 DEF TargetInv, InNeighboursKept
<1>3. \A d \in Vertices : /\ Marked(d)' = Marked(d) /\ (Listed(d)' <=> Listed(d))
                          /\ UNCHANGED <<sent>> => (SentTo(d)' <=> SentTo(d))
  BY <1>1 DEF Marked, Pending, ToMark, Listed, SentTo
<1>4. UNCHANGED <<sent>> => (AllCurrent' <=> AllCurrent) /\ (ListsReceivers' <=> ListsReceivers)
  <2>1. /\ \A v \in Vertices : Outgoing(v)' = Outgoing(v)
    BY <1>1 DEF Outgoing
  <2> QED
    BY <1>3, <2>1 DEF AllCurrent, ListsReceivers
<1>5. CASE BeginCompute
  <2>1. /\ Barrier("start_done", "compute", DOMAIN ip_all_targets)
        /\ sent' = Nothing /\ ran' = {}
    BY <1>5 DEF BeginCompute, NewHistory
  <2>2. /\ Inside(HeadLabels) /\ Inside(ComputeLabels)'
        /\ \A u \in Threads : pc[u] = "start_done" /\ pc'[u] = "compute"
    BY <2>1, BeforeBarrier, BehindBarrier DEF Barrier, AllAt
  <2>3. Stage(HeadLabels) /\ todo' = DOMAIN ip_all_targets
    BY <2>1, <2>2, StageInv, PhaseNames DEF Barrier
  <2>4. MarksWithinLoop'
    BY <1>1, <2>2 DEF TargetInv, MarksWithinLoop
  <2>5. \A d \in Vertices : ~Marked(d)' /\ ~SentTo(d)'
    BY <1>3, <2>1, <2>3 DEF Stage, SentTo, Nothing
  <2>6. AllCurrent'
    BY <1>1, <2>1, <2>3, PhaseNames DEF Stage, AllCurrent, NoOutbox, Outgoing, Nothing
  <2>7. Ran'
    <3>1. \A i \in DOMAIN ip_all_targets : ip_all_targets[i] \in Vertices
      BY Positions DEF TeamInv
    <3> QED
      BY <1>1, <2>1, <2>3, <3>1 DEF Ran, Nothing
  <2>8. ip_all_targets # << >>
    BY <2>2, ThreadsAssumption DEF TargetInv, SomeTarget, AnyAt
  <2>9. Stage(ComputeLabels)'
    BY <1>1, <2>5, <2>6, <2>7, <2>8, PhaseNames DEF Stage
  <2> QED
    BY <1>2, <2>2, <2>4, <2>9, StageKept, PhaseNames
<1>6. CASE BeginFilter
  <2>1. Barrier("compute_done", "filter", {}) /\ UNCHANGED <<sent, ran>>
    BY <1>6 DEF BeginFilter, engineVars, historyVars
  <2>2. /\ Inside(ComputeLabels) /\ Inside(FilterLabels)'
        /\ (\A u \in Threads : pc[u] = "compute_done" /\ pc'[u] = "filter") /\ ~claimed'
    BY <2>1, BeforeBarrier, BehindBarrier DEF Barrier, AllAt
  <2>3. Stage(ComputeLabels)
    BY <2>2, StageInv, PhaseNames
  <2>4. MarksWithinLoop'
    BY <1>1, <2>2 DEF TargetInv, MarksWithinLoop
  <2>5. ~AnyAt({"start", "start_done"})'
    BY <2>2 DEF AnyAt
  <2>6. \A d \in Vertices : Marked(d)' <=> SentTo(d)'
    BY <1>3, <2>1, <2>3 DEF Stage
  <2>7. AllCurrent'
    BY <1>4, <2>1, <2>3 DEF Stage
  <2>8. Stage(FilterLabels)'
    BY <2>2, <2>5, <2>6, <2>7, PhaseNames DEF Stage
  <2> QED
    BY <1>2, <2>2, <2>4, <2>8, StageKept, PhaseNames
<1>7. CASE EndFilter
  <2>1. Barrier("filter_done", "count", DOMAIN ip_all_targets) /\ UNCHANGED <<sent, ran>>
    BY <1>7 DEF EndFilter, engineVars, historyVars
  <2>2. /\ Inside(FilterLabels) /\ Inside(FetchLabels)'
        /\ \A u \in Threads : pc[u] = "filter_done" /\ pc'[u] = "count"
    BY <2>1, BeforeBarrier, BehindBarrier DEF Barrier, AllAt
  <2>3. Stage(FilterLabels) /\ todo' = DOMAIN ip_all_targets
    BY <2>1, <2>2, StageInv, PhaseNames DEF Barrier
  <2>4. MarksWithinLoop'
    BY <1>1, <2>2 DEF TargetInv, MarksWithinLoop
  <2>5. ~AnyAt({"start", "start_done"})'
    BY <2>2 DEF AnyAt
  <2>6. claimed
    BY <2>2, ThreadsAssumption DEF TeamInv, SingleEntered, AnyAt
  <2>7. ListsReceivers' /\ AllCurrent'
    BY <1>4, <2>1, <2>3, <2>6 DEF Stage
  <2>8. \A d \in Vertices : Marked(d)' <=> \E i \in todo' : ip_all_targets'[i] = d
    BY <1>1, <1>3, <2>1, <2>3, <2>6 DEF Stage, ListsReceivers, Listed
  <2>9. Stage(FetchLabels)'
    BY <2>5, <2>7, <2>8, PhaseNames DEF Stage
  <2> QED
    BY <1>2, <2>2, <2>4, <2>9, StageKept, PhaseNames
<1>8. CASE BeginReset
  <2>1. Barrier("fetch_done", "reset", Vertices) /\ UNCHANGED <<sent, ran>>
    BY <1>8 DEF BeginReset, engineVars, historyVars
  <2>2. /\ Inside(FetchLabels) /\ Inside(ResetLabels)'
        /\ \A u \in Threads : pc[u] = "fetch_done" /\ pc'[u] = "reset"
    BY <2>1, BeforeBarrier, BehindBarrier DEF Barrier, AllAt
  <2>3. Stage(FetchLabels) /\ todo' = Vertices
    BY <2>1, <2>2, StageInv, PhaseNames DEF Barrier
  <2>4. MarksWithinLoop'
    BY <1>1, <2>2 DEF TargetInv, MarksWithinLoop
  <2>5. ~AnyAt({"start", "start_done"})'
    BY <2>2 DEF AnyAt
  <2>6. todo = {}
    BY <2>2, OutsideLoops DEF TeamInv
  <2>7. ListsReceivers' /\ \A d \in Vertices : ~Marked(d)'
    BY <1>3, <1>4, <2>1, <2>3, <2>6 DEF Stage
  <2>8. NoOutbox(Vertices \ todo)'
    BY <2>3 DEF NoOutbox
  <2>9. Stage(ResetLabels)'
    BY <2>5, <2>7, <2>8, PhaseNames DEF Stage
  <2> QED
    BY <1>2, <2>2, <2>4, <2>9, StageKept, PhaseNames
<1>9. CASE BeginFinish
  <2>1. Barrier("reset_done", "finish", {})
    BY <1>9 DEF BeginFinish
  <2>2. /\ Inside(ResetLabels) /\ Inside(FinishLabels)'
        /\ (\A u \in Threads : pc[u] = "reset_done" /\ pc'[u] = "finish") /\ ~claimed'
    BY <2>1, BeforeBarrier, BehindBarrier DEF Barrier, AllAt
  <2>3. Stage(ResetLabels)
    BY <2>2, StageInv, PhaseNames
  <2>4. MarksWithinLoop'
    BY <1>1, <2>2 DEF TargetInv, MarksWithinLoop
  <2>5. ~AnyAt({"start", "start_done"})'
    BY <2>2 DEF AnyAt
  <2>6. todo = {}
    BY <2>2, OutsideLoops DEF TeamInv
  <2>7. NoOutbox(Vertices)' /\ \A d \in Vertices : ~Marked(d)'
    BY <1>1, <1>3, <2>3, <2>6 DEF Stage, NoOutbox
  <2>8. Stage(FinishLabels)'
    BY <2>2, <2>5, <2>7, PhaseNames DEF Stage
  <2> QED
    BY <1>2, <2>2, <2>4, <2>8, StageKept, PhaseNames
<1>10. CASE NextIteration
  <2>1. Barrier("finish_done", "while", {})
    BY <1>10 DEF NextIteration
  <2>2. /\ Inside(FinishLabels) /\ Inside(HeadLabels)'
        /\ \A u \in Threads : pc[u] = "finish_done" /\ pc'[u] = "while"
    BY <2>1, BeforeBarrier, BehindBarrier DEF Barrier, AllAt
  <2>3. Stage(FinishLabels)
    BY <2>2, StageInv, PhaseNames
  <2>4. MarksWithinLoop'
    BY <1>1, <2>2 DEF TargetInv, MarksWithinLoop
  <2>5. ~AnyAt({"start", "start_done"})'
    BY <2>2 DEF AnyAt
  <2>6. claimed
    BY <2>2, ThreadsAssumption DEF TeamInv, SingleEntered, AnyAt
  <2>7. NoOutbox(Vertices)' /\ \A d \in Vertices : ~Marked(d)'
    BY <1>1, <1>3, <2>3 DEF Stage, NoOutbox
  <2>8. ip_superstep' # 0
    BY <1>1, <2>3, <2>6 DEF Stage
  <2>9. Stage(HeadLabels)'
    BY <2>5, <2>7, <2>8, PhaseNames DEF Stage
  <2> QED
    BY <1>2, <2>2, <2>4, <2>9, StageKept, PhaseNames
<1> QED
  BY <1>5, <1>6, <1>7, <1>8, <1>9, <1>10 DEF BarrierStep

\* The first mark of a list, and the others.
LEMMA HeadAndTail ==
  ASSUME NEW list \in Seq(Vertices), list # << >>, NEW d
  PROVE  /\ Head(list) \in Vertices
         /\ (\E i \in DOMAIN list : list[i] = d) <=>
              \/ Head(list) = d
              \/ \E i \in DOMAIN Tail(list) : Tail(list)[i] = d
<1> DEFINE n == Len(list)
<1>1. /\ n \in Nat /\ n # 0 /\ DOMAIN list = 1 .. n /\ Head(list) = list[1]
      /\ \A i \in 1 .. n : list[i] \in Vertices
  OBVIOUS
<1>2. /\ DOMAIN Tail(list) = 1 .. (n - 1)
      /\ \A i \in 1 .. (n - 1) : Tail(list)[i] = list[i + 1]
  BY <1>1
<1> HIDE DEF n
<1>3. ASSUME NEW i \in 1 .. n, list[i] = d, i # 1
      PROVE  \E j \in 1 .. (n - 1) : list[j + 1] = d
  <2>1. i - 1 \in 1 .. (n - 1) /\ (i - 1) + 1 = i
    BY <1>1, <1>3
  <2> QED
    BY <1>3, <2>1
<1>4. ASSUME NEW j \in 1 .. (n - 1), list[j + 1] = d
      PROVE  \E i \in 1 .. n : list[i] = d
  <2>1. j + 1 \in 1 .. n
    BY <1>1
  <2> QED
    BY <1>4, <2>1
<1>5. 1 \in 1 .. n
  BY <1>1
<1> QED
  BY <1>1, <1>2, <1>3, <1>4, <1>5

\* A mark that is written was pending before.
LEMMA TargetMark ==
  ASSUME TypeOK, TeamInv, TargetInv, NEW t \in Threads, MarkTarget(t)
  PROVE  TargetInv'
<1>1. /\ pc[t] = "mark" /\ marking[t] # << >>
      /\ broadcast_target' = [broadcast_target EXCEPT ![Head(marking[t])] = TRUE]
      /\ marking' = [marking EXCEPT ![t] = Tail(@)]
      /\ UNCHANGED <<pc, todo, out_neighbours, in_neighbours, has_broadcast_message,
                     broadcast_message, sent, ran, ip_superstep, ip_all_targets>>
  BY DEF MarkTarget, teamVars, engineVars, jobVars, historyVars, outboxVars
<1>2. Inside(ComputeLabels) /\ Inside(ComputeLabels)'
  BY <1>1, StayTests, PhaseNames, LabelNames DEF TeamInv
<1>3. InNeighboursKept /\ MarksWithinLoop /\ Stage(ComputeLabels)
  BY <1>2, StageInv, PhaseNames
<1>4. marking \in [Threads -> Seq(Vertices)] /\ broadcast_target \in [Vertices -> BOOLEAN]
  BY DEF TypeOK
<1>5. MarksWithinLoop'
  BY <1>1, <1>3, <1>4 DEF MarksWithinLoop
<1>6. ASSUME NEW d \in Vertices PROVE Marked(d)' <=> Marked(d)
  <2>1. /\ Head(marking[t]) \in Vertices
        /\ ToMark(t, d) <=> \/ Head(marking[t]) = d
                            \/ \E i \in DOMAIN Tail(marking[t]) : Tail(marking[t])[i] = d
    <3>1. marking[t] \in Seq(Vertices) /\ marking[t] # << >>
      BY <1>1, <1>4
    <3>2. /\ Head(marking[t]) \in Vertices
          /\ (\E i \in DOMAIN marking[t] : marking[t][i] = d)
               <=> \/ Head(marking[t]) = d
                   \/ \E i \in DOMAIN Tail(marking[t]) : Tail(marking[t])[i] = d
      BY <3>1, HeadAndTail, Zenon
    <3> QED
      BY <3>2 DEF ToMark
  <2>2. ToMark(t, d)' <=> \E i \in DOMAIN Tail(marking[t]) : Tail(marking[t])[i] = d
    BY <1>1, <1>4 DEF ToMark
  <2>3. \A u \in Threads \ {t} : ToMark(u, d)' <=> ToMark(u, d)
    BY <1>1, <1>4 DEF ToMark
  <2>4. broadcast_target'[d] <=> broadcast_target[d] \/ Head(marking[t]) = d
    BY <1>1, <1>4, <2>1
  <2>5. /\ Pending(d) <=> ToMark(t, d) \/ \E u \in Threads \ {t} : ToMark(u, d)
        /\ Pending(d)' <=> ToMark(t, d)' \/ \E u \in Threads \ {t} : ToMark(u, d)'
    BY DEF Pending
  <2> QED
    BY <2>1, <2>2, <2>3, <2>4, <2>5 DEF Marked
<1>7. \A d \in Vertices : SentTo(d)' <=> SentTo(d)
  BY <1>1 DEF SentTo
<1>8. AllCurrent' /\ Ran'
  BY <1>1, <1>3 DEF Stage, AllCurrent, Outgoing, Ran
<1>9. Stage(ComputeLabels)'
  BY <1>1, <1>3, <1>6, <1>7, <1>8, PhaseNames DEF Stage
<1>10. InNeighboursKept'
  BY <1>1, <1>3 DEF InNeighboursKept
<1> QED
  BY <1>2, <1>5, <1>9, <1>10, StageKept, PhaseNames

\* A vertex that broadcasts leaves its message, and its out-neighbours to be marked.
LEMMA TargetCompute ==
  ASSUME ProgramTyped, TypeOK, TeamInv, TargetInv, NEW t \in Threads, NEW i \in todo,
         ComputeVertex(t, i)
  PROVE  TargetInv'
<1> DEFINE v == ip_all_targets[i]
<1>1. /\ Move(t, "compute", "mark") /\ todo' = todo \ {i}
      /\ UNCHANGED <<broadcast_target, ip_all_targets>>
  BY DEF ComputeVertex, TakeIteration
<1>2. /\ Inside(ComputeLabels) /\ Inside(ComputeLabels)'
      /\ pc[t] = "compute" /\ pc'[t] = "mark" /\ \A u \in Threads \ {t} : pc'[u] = pc[u]
  BY <1>1, MoveTests, PhaseNames, LabelNames DEF TeamInv
<1>3. InNeighboursKept /\ MarksWithinLoop /\ Stage(ComputeLabels)
  BY <1>2, StageInv, PhaseNames
<1>4. /\ todo \subseteq DOMAIN ip_all_targets
      /\ \A j \in DOMAIN ip_all_targets : ip_all_targets[j] \in Vertices
      /\ \A j, k \in DOMAIN ip_all_targets : ip_all_targets[j] = ip_all_targets[k] => j = k
  BY <1>2, Positions DEF TeamInv, Inside, IterationsLeft, ListedOnce
<1>5. v \in Vertices /\ sent[v] = None
  BY <1>3, <1>4 DEF Stage, Ran
<1>6. PICK outcome \in Outcomes(v) :
        /\ RunVertex(v, outcome)
        /\ FillOutbox(v, outcome, has_broadcast_message[v])
        /\ marking' = [marking EXCEPT ![t] =
             IF outcome.message = None THEN << >> ELSE out_neighbours[v]]
  BY DEF ComputeVertex
<1> DEFINE m == outcome.message
<1>7. /\ sent' = [sent EXCEPT ![v] = m] /\ ran' = ran \cup {v}
      /\ UNCHANGED <<out_neighbours, ip_superstep>>
  BY <1>6 DEF RunVertex, jobVars
<1>8. /\ has_broadcast_message' =
           [has_broadcast_message EXCEPT ![v] = has_broadcast_message[v] \/ m # None]
      /\ broadcast_message' = [broadcast_message EXCEPT ![v] = IF m # None THEN m ELSE @]
      /\ UNCHANGED in_neighbours
  BY <1>6 DEF FillOutbox
<1>9. /\ marking' = [marking EXCEPT ![t] = IF m = None THEN << >> ELSE out_neighbours[v]]
      /\ marking[t] = << >>
  BY <1>2, <1>3, <1>6 DEF MarksWithinLoop
<1>10. /\ marking \in [Threads -> Seq(Vertices)] /\ sent \in [Vertices -> Messages \cup {None}]
       /\ has_broadcast_message \in [Vertices -> BOOLEAN]
       /\ broadcast_message \in [Vertices -> Messages \cup {None}]
       /\ \A u \in Vertices : has_broadcast_message[u] => broadcast_message[u] # None
  BY NoneAssumption DEF TypeOK, OutboxTypeOK, EngineTypeOK
<1>11. ran \subseteq Vertices
  BY DEF TypeOK, EngineTypeOK
<1> HIDE DEF v, m
<1>12. MarksWithinLoop'
  BY <1>2, <1>3, <1>9, <1>10 DEF MarksWithinLoop
<1>13. ASSUME NEW d \in Vertices PROVE Marked(d)' <=> SentTo(d)'
  <2> DEFINE along == m # None /\ \E j \in DOMAIN out_neighbours[v] : out_neighbours[v][j] = d
  <2>1. ~ToMark(t, d) /\ \A u \in Threads \ {t} : ToMark(u, d)' <=> ToMark(u, d)
    BY <1>9, <1>10 DEF ToMark
  <2>2. ToMark(t, d)' <=> along
    <3>1. marking'[t] = IF m = None THEN << >> ELSE out_neighbours[v]
      BY <1>9, <1>10
    <3> QED
      BY <3>1 DEF ToMark
  <2>3. SentTo(d)' <=> SentTo(d) \/ along
    <3>1. \A u \in Vertices : sent'[u] = IF u = v THEN m ELSE sent[u]
      BY <1>7, <1>10
    <3>2. out_neighbours' = out_neighbours
      BY <1>7
    <3> HIDE DEF along
    <3>3. along => SentTo(d)'
      BY <1>5, <3>1, <3>2 DEF along, SentTo
    <3>4. SentTo(d) => SentTo(d)'
      BY <1>5, <3>1, <3>2 DEF SentTo
    <3>5. SentTo(d)' => SentTo(d) \/ along
      BY <3>1, <3>2 DEF along, SentTo
    <3> QED
      BY <3>3, <3>4, <3>5
  <2>4. Marked(d) <=> SentTo(d)
    BY <1>3 DEF Stage
  <2>5. Pending(d)' <=> Pending(d) \/ along
    BY <2>1, <2>2 DEF Pending
  <2> QED
    BY <1>1, <2>3, <2>4, <2>5 DEF Marked
<1>14. AllCurrent'
  <2>1. ~has_broadcast_message[v]
    BY <1>3, <1>5, <1>10 DEF Stage, AllCurrent, Outgoing
  <2>2. ASSUME NEW u \in Vertices PROVE Outgoing(u)' = sent'[u]
    <3>1. sent'[u] = IF u = v THEN m ELSE sent[u]
      BY <1>7, <1>10
    <3>2. has_broadcast_message'[u] <=> IF u = v THEN m # None ELSE has_broadcast_message[u]
      BY <1>8, <1>10, <2>1
    <3>3. /\ u = v /\ m # None => broadcast_message'[u] = m
          /\ u # v => broadcast_message'[u] = broadcast_message[u]
      BY <1>8, <1>10
    <3>4. Outgoing(u) = sent[u]
      BY <1>3 DEF Stage, AllCurrent
    <3> QED
      BY <3>1, <3>2, <3>3, <3>4 DEF Outgoing
  <2> QED
    BY <2>2 DEF AllCurrent
<1>15. Ran'
  <2>1. \A j \in todo' : ip_all_targets[j] # v
    BY <1>1, <1>4 DEF v
  <2>2. \A j \in todo' : ip_all_targets[j] \notin ran' /\ sent'[ip_all_targets[j]] = None
    BY <1>1, <1>3, <1>4, <1>7, <1>10, <2>1 DEF Stage, Ran
  <2>3. \A j \in DOMAIN ip_all_targets \ todo' : ip_all_targets[j] \in ran'
    BY <1>1, <1>3, <1>7 DEF Stage, Ran, v
  <2> QED
    BY <1>1, <2>2, <2>3 DEF Ran
<1>16. Stage(ComputeLabels)'
  BY <1>1, <1>3, <1>13, <1>14, <1>15, PhaseNames DEF Stage
<1>17. InNeighboursKept'
  BY <1>3, <1>7, <1>8 DEF InNeighboursKept
<1> QED
  BY <1>2, <1>12, <1>16, <1>17, StageKept, PhaseNames

\* The list is rebuilt from marks that nobody is writing any more.
LEMMA TargetFilter ==
  ASSUME TypeOK, TeamInv, TargetInv, NEW t \in Threads, FilterSingle(t)
  PROVE  TargetInv'
<1>1. /\ Move(t, "filter", "filter_done")
      /\ ip_all_targets' = Enumeration({v \in Vertices : broadcast_target[v]})
      /\ Still
  BY DEF FilterSingle, EnterSingle, engineVars, jobVars, historyVars, outboxVars, Still
<1>2. Inside(FilterLabels) /\ Inside(FilterLabels)'
  BY <1>1, MoveTests, PhaseNames, LabelNames DEF TeamInv
<1>3. InNeighboursKept /\ MarksWithinLoop /\ Stage(FilterLabels)
  BY <1>2, StageInv, PhaseNames
<1>4. /\ \A u \in Threads : pc[u] # "mark"
      /\ ~AnyAt({"start", "start_done"})'
  BY <1>2 DEF Inside, FilterLabels, AnyAt
<1>5. MarksWithinLoop'
  BY <1>1, <1>3, MarksKept DEF Still
<1>6. \A d \in Vertices : Marked(d)' = Marked(d) /\ (SentTo(d)' <=> SentTo(d))
  BY <1>1 DEF Still, Marked, Pending, ToMark, SentTo
<1>7. \A d \in Vertices : broadcast_target[d] <=> SentTo(d)
  BY <1>3, <1>4, NoPending DEF Stage, Marked
<1>8. ListsReceivers'
  <2>1. \A d : Listed(d)' <=> d \in {v \in Vertices : broadcast_target[v]}
    BY <1>1, EnumerationLists DEF Listed
  <2> QED
    BY <1>6, <1>7, <2>1 DEF ListsReceivers
<1>9. AllCurrent'
  BY <1>1, <1>3 DEF Stage, Still, AllCurrent, Outgoing
<1>10. Stage(FilterLabels)'
  BY <1>3, <1>4, <1>6, <1>8, <1>9, PhaseNames DEF Stage
<1>11. InNeighboursKept'
  BY <1>1, <1>3 DEF InNeighboursKept, Still
<1> QED
  BY <1>2, <1>5, <1>10, <1>11, StageKept, PhaseNames

\* A vertex fetches once: its mark is gone when its turn is.
LEMMA TargetFetch ==
  ASSUME TypeOK, TeamInv, TargetInv, NEW t \in Threads, NEW i \in todo, FetchVertex(t, i)
  PROVE  /\ TargetInv'
         /\ broadcast_target[ip_all_targets[i]] /\ ip_all_targets[i] \in Vertices
         /\ \A v \in Vertices : Outgoing(v) = sent[v]
<1> DEFINE v == ip_all_targets[i]
<1>1. /\ Move(t, "fetch", "fetch") /\ todo' = todo \ {i} /\ UNCHANGED <<ip_all_targets, marking>>
      /\ IF broadcast_target[v]
         THEN Fetch(v) /\ broadcast_target' = [broadcast_target EXCEPT ![v] = FALSE]
         ELSE UNCHANGED <<engineVars, outboxVars, broadcast_target>>
  BY DEF FetchVertex, TakeIteration
<1>2. Inside(FetchLabels) /\ Inside(FetchLabels)'
  BY <1>1, MoveTests, PhaseNames, LabelNames DEF TeamInv
<1>3. InNeighboursKept /\ MarksWithinLoop /\ Stage(FetchLabels)
  BY <1>2, StageInv, PhaseNames
<1>4. /\ todo \subseteq DOMAIN ip_all_targets
      /\ \A j \in DOMAIN ip_all_targets : ip_all_targets[j] \in Vertices
      /\ \A j, k \in DOMAIN ip_all_targets : ip_all_targets[j] = ip_all_targets[k] => j = k
  BY <1>2, Positions DEF TeamInv, Inside, IterationsLeft, ListedOnce
<1>5. /\ \A u \in Threads : pc[u] # "mark"
      /\ \A u \in Threads : pc'[u] # "mark"
      /\ ~AnyAt({"start", "start_done"})'
  BY <1>2 DEF Inside, FetchLabels, AnyAt
<1>6. MarksWithinLoop'
  BY <1>1, <1>3, MarksKept
<1>7. \A d \in Vertices : Marked(d) <=> broadcast_target[d]
  BY <1>3, <1>5, NoPending DEF Marked
<1>8. v \in Vertices /\ broadcast_target[v]
  BY <1>3, <1>4, <1>7 DEF Stage
<1>9. /\ UNCHANGED <<out_neighbours, in_neighbours, has_broadcast_message, broadcast_message, sent,
                     ran, ip_superstep>>
      /\ broadcast_target' = [broadcast_target EXCEPT ![v] = FALSE]
  BY <1>1, <1>8 DEF Fetch, jobVars, historyVars, outboxVars
<1>10. broadcast_target \in [Vertices -> BOOLEAN]
  BY DEF TypeOK
<1> HIDE DEF v
<1>11. ASSUME NEW d \in Vertices
       PROVE  Marked(d)' <=> \E j \in todo' : ip_all_targets'[j] = d
  <2>1. Marked(d)' <=> broadcast_target'[d]
    <3>1. \A u \in Threads : ~ToMark(u, d)'
      BY <1>5, <1>6 DEF MarksWithinLoop, ToMark
    <3> QED
      BY <3>1 DEF Marked, Pending
  <2>2. broadcast_target[d] <=> \E j \in todo : ip_all_targets[j] = d
    BY <1>3, <1>7 DEF Stage
  <2>3. CASE d = v
    <3>1. ~broadcast_target'[d]
      BY <1>8, <1>9, <1>10, <2>3
    <3>2. \A j \in todo' : ip_all_targets'[j] # v
      BY <1>1, <1>4 DEF v
    <3> QED
      BY <2>1, <2>3, <3>1, <3>2
  <2>4. CASE d # v
    <3>1. broadcast_target'[d] = broadcast_target[d]
      BY <1>9, <1>10, <2>4
    <3>2. (\E j \in todo' : ip_all_targets'[j] = d) <=> \E j \in todo : ip_all_targets[j] = d
      BY <1>1, <2>4 DEF v
    <3> QED
      BY <2>1, <2>2, <3>1, <3>2
  <2> QED
    BY <2>3, <2>4
<1>12. ListsReceivers' /\ AllCurrent'
  BY <1>1, <1>3, <1>9, PhaseNames
     DEF Stage, ListsReceivers, Listed, SentTo, AllCurrent, Outgoing
<1>13. Stage(FetchLabels)'
  BY <1>5, <1>11, <1>12, PhaseNames DEF Stage
<1>14. InNeighboursKept'
  BY <1>3, <1>9 DEF InNeighboursKept
<1>15. TargetInv'
  BY <1>2, <1>6, <1>13, <1>14, StageKept, PhaseNames
<1> QED
  BY <1>3, <1>8, <1>15 DEF Stage, AllCurrent, v

\* An outbox is cleared.
LEMMA TargetReset ==
  ASSUME TypeOK, TeamInv, TargetInv, NEW t \in Threads, NEW v \in todo, ResetVertex(t, v)
  PROVE  TargetInv'
<1>1. /\ Move(t, "reset", "reset") /\ todo' = todo \ {v}
      /\ has_broadcast_message' = [has_broadcast_message EXCEPT ![v] = FALSE]
      /\ UNCHANGED <<out_neighbours, in_neighbours, sent, broadcast_target, marking, ip_all_targets>>
  BY DEF ResetVertex, TakeIteration, engineVars, jobVars, historyVars, targetVars
<1>2. Inside(ResetLabels) /\ Inside(ResetLabels)'
  BY <1>1, MoveTests, PhaseNames, LabelNames DEF TeamInv
<1>3. InNeighboursKept /\ MarksWithinLoop /\ Stage(ResetLabels)
  BY <1>2, StageInv, PhaseNames
<1>4. ~AnyAt({"start", "start_done"})'
  BY <1>2 DEF Inside, ResetLabels, AnyAt
<1>5. MarksWithinLoop'
  BY <1>1, <1>3, MarksKept
<1>6. \A d \in Vertices : /\ Marked(d)' = Marked(d) /\ (Listed(d)' <=> Listed(d))
                          /\ SentTo(d)' <=> SentTo(d)
  BY <1>1 DEF Marked, Pending, ToMark, Listed, SentTo
<1>7. NoOutbox(Vertices \ todo)'
  <2>1. has_broadcast_message \in [Vertices -> BOOLEAN]
    BY DEF TypeOK, OutboxTypeOK
  <2> QED
    BY <1>1, <1>3, <2>1 DEF Stage, NoOutbox
<1>8. ListsReceivers' /\ \A d \in Vertices : ~Marked(d)'
  BY <1>3, <1>6 DEF Stage, ListsReceivers
<1>9. Stage(ResetLabels)'
  BY <1>4, <1>7, <1>8, PhaseNames DEF Stage
<1>10. InNeighboursKept'
  BY <1>1, <1>3 DEF InNeighboursKept
<1> QED
  BY <1>2, <1>5, <1>9, <1>10, StageKept, PhaseNames

\* TargetInv holds initially: nothing is sent, marked or left in an outbox.
LEMMA TargetInitInv == Init => TargetInv
<1> SUFFICES ASSUME Init PROVE TargetInv
  OBVIOUS
<1>1. (\A u \in Threads : pc[u] = "while") /\ Inside(HeadLabels)
  <2>1. \A u \in Threads : pc[u] = "while"
    BY DEF Init, TeamInit
  <2> QED
    BY <2>1, PhaseTests, PhaseNames, LabelNames
<1>2. InNeighboursKept /\ MarksWithinLoop
  BY InitTyped DEF Init, MarksWithinLoop
<1>3. ~AnyAt({"start", "start_done"}) /\ \A d \in Vertices : ~Marked(d)
  BY <1>1 DEF AnyAt, Init, Marked, Pending, ToMark
<1>4. NoOutbox(Vertices)
  BY DEF Init, OutboxInit, NoOutbox
<1>5. ip_all_targets # << >>
  <2>1. PICK v \in Vertices : TRUE
    BY VerticesAssumption
  <2>2. \E i \in DOMAIN ip_all_targets : ip_all_targets[i] = v
    BY EnumerationLists DEF Init
  <2> QED
    BY <2>2
<1>6. Stage(HeadLabels)
  BY <1>3, <1>4, <1>5, PhaseNames DEF Stage
<1> QED
  BY <1>1, <1>2, <1>6, StageInv, PhaseNames

\* It holds after every step.
LEMMA TargetNextInv ==
  ASSUME ProgramTyped, TypeOK, TeamInv, TargetInv, [Next]_vars
  PROVE  TargetInv'
<1>1. CASE UNCHANGED vars
  BY <1>1 DEF vars, teamVars, engineVars, jobVars, historyVars, outboxVars, targetVars, TargetInv,
     InNeighboursKept, MarksWithinLoop, MarksRight, ListRight, OutboxCurrent, RunsOnce, SomeTarget,
     AnyAt, ToMark, SentTo, Listed, Outgoing
<1>2. ASSUME NEW t \in Threads, ThreadStep(t) PROVE TargetInv'
  BY <1>2, TargetPlain, TargetCompute, TargetMark, TargetFilter, TargetFetch, TargetReset
     DEF ThreadStep
<1> QED
  BY <1>1, <1>2, TargetBarrier DEF Next

\* The invariant that the theorems follow from.
LEMMA TargetInvariant ==
  ASSUME ProgramTyped, CombineClosed PROVE Spec => [](TypeOK /\ TeamInv /\ TargetInv)
<1>1. Init => TypeOK /\ TeamInv /\ TargetInv
  BY InitTyped, TeamInitInv, TargetInitInv
<1>2. TypeOK /\ TeamInv /\ TargetInv /\ [Next]_vars => (TypeOK /\ TeamInv /\ TargetInv)'
  BY NextTyped, TeamNextInv, TargetNextInv
<1> QED
  BY <1>1, <1>2, PTL DEF Spec

\* The list is rebuilt exactly: however the threads race on the marks, behind the
\* single region it holds the vertices that were broadcast to, each of them once.
THEOREM TargetsRebuilt ==
  ASSUME ProgramTyped, CombineClosed PROVE Spec => []TargetsAreReceivers
<1>1. ASSUME TypeOK, TeamInv, TargetInv PROVE TargetsAreReceivers
  <2> SUFFICES ASSUME AllAt("count")
               PROVE  /\ \A d \in Vertices : Listed(d) <=> Received(out_neighbours, sent, d) # None
                      /\ ListedOnce
    BY DEF TargetsAreReceivers, ListedOnce
  <2>1. Inside(FetchLabels)
    BY BarrierPlaces, PhaseNames, LabelNames
  <2>2. ListsReceivers
    BY <1>1, <2>1, StageInv, PhaseNames DEF Stage
  <2>3. \A d \in Vertices : Received(out_neighbours, sent, d) # None <=> SentTo(d)
    BY <1>1, ReceivedSent
  <2> QED
    BY <1>1, <2>2, <2>3 DEF ListsReceivers, TeamInv
<1> QED
  BY <1>1, TargetInvariant, PTL

\* A superstep starts clean: every mark was taken back by the vertex that fetched,
\* and every outbox was cleared behind the fetch loop.
THEOREM SuperstepsStartClean ==
  ASSUME ProgramTyped, CombineClosed PROVE Spec => []CleanStart
<1>1. ASSUME TypeOK, TeamInv, TargetInv PROVE CleanStart
  <2> SUFFICES ASSUME NEW t \in Threads, pc[t] \in HeadLabels, NEW v \in Vertices
               PROVE  ~broadcast_target[v] /\ ~has_broadcast_message[v]
    BY DEF CleanStart, AnyAt, HeadLabels
  <2>1. Inside(HeadLabels)
    BY <1>1, PhasesApart, PhaseOf, PhaseTests, PhaseNames DEF TeamInv, SamePhase
  <2>2. Stage(HeadLabels)
    BY <1>1, <2>1, StageInv, PhaseNames
  <2> QED
    BY <2>2 DEF Stage, Marked, NoOutbox
<1> QED
  BY <1>1, TargetInvariant, PTL

------------------------------------------------------------------------------
(* The superstep semantics.                                                *)

\* It combines the messages as VertexProgram says.
LEMMA SuperstepReceived ==
  ASSUME NEW out, NEW s, NEW v
  PROVE  Superstep!Received(out, s, v) = Received(out, s, v)
BY Zenon DEF Superstep!Received, Received, Superstep!CombinedOver, CombinedOver,
   Superstep!EdgesInto, EdgesInto, Superstep!Merge, Merge, Superstep!MapThenFoldSet, MapThenFoldSet

\* Its variables, as ImplementsBSP maps them.
absSuperstep ==
  IF Delivering \/ (AnyAt({"finish", "finish_done"}) /\ ~claimed)
  THEN ip_superstep + 1 ELSE ip_superstep
absActive == [v \in Vertices |-> Waiting(v)]
absInbox == [v \in Vertices |->
  IF Unfetched(v) THEN Received(out_neighbours, sent, v) ELSE Unread(v)]
absSent == IF Computing THEN sent ELSE Nothing
absRan == IF Computing THEN ran ELSE {}

\* The same, by the phase that the threads are in.
DeliveryLabels == {FilterLabels, FetchLabels, ResetLabels}
HasTurn(v) == \E i \in todo : ip_all_targets[i] = v
Receives(v) == Received(out_neighbours, sent, v) # None
StepIn(P) ==
  IF P \in DeliveryLabels \/ (P = FinishLabels /\ ~claimed)
  THEN ip_superstep + 1 ELSE ip_superstep
ActiveIn(P, v) ==
  IF P = ComputeLabels THEN HasTurn(v)
  ELSE IF P \in DeliveryLabels THEN Receives(v)
  ELSE Listed(v)
UnfetchedIn(P, v) == Receives(v) /\ (P = FilterLabels \/ (P = FetchLabels /\ HasTurn(v)))
InboxIn(P, v) ==
  IF UnfetchedIn(P, v) THEN Received(out_neighbours, sent, v)
  ELSE IF ActiveIn(P, v) \/ (P = ComputeLabels /\ v \in ran) THEN NextMessage(v) ELSE None
MapsTo(P) ==
  /\ absSuperstep = StepIn(P)
  /\ absActive = [v \in Vertices |-> ActiveIn(P, v)]
  /\ absInbox = [v \in Vertices |-> InboxIn(P, v)]
  /\ absSent = IF P = ComputeLabels THEN sent ELSE Nothing
  /\ absRan = IF P = ComputeLabels THEN ran ELSE {}
  /\ AnyAt({"exit"}) => P = HeadLabels

\* The phase decides what the state maps to.
LEMMA Mapped == \A P \in Phases : Inside(P) /\ IterationsLeft => MapsTo(P)
<1> SUFFICES ASSUME NEW P \in Phases, Inside(P), IterationsLeft PROVE MapsTo(P)
  OBVIOUS
<1>1. (\A u \in Threads : pc[u] \in P) /\ (AnyAt(FinishLabels) <=> P = FinishLabels)
  BY DEF Inside
<1>2. Computing <=> P = ComputeLabels
  <2>1. CASE P = ComputeLabels
    <3>1. \A u \in Threads : pc[u] \in {"compute", "mark", "compute_done"}
      BY <1>1, <2>1 DEF ComputeLabels
    <3> QED
      BY <2>1, <3>1 DEF Computing, AnyAt, AllAt
  <2>2. CASE P # ComputeLabels
    <3>1. \A u \in Threads : pc[u] \notin ComputeLabels
      BY <2>2 DEF Inside, AnyAt
    <3>2. \A u \in Threads : pc[u] \notin {"compute", "mark", "compute_done"}
      BY <3>1 DEF ComputeLabels
    <3> QED
      BY <2>2, <3>2, ThreadsAssumption DEF Computing, AnyAt, AllAt
  <2> QED
    BY <2>1, <2>2
<1>3. Delivering <=> P \in DeliveryLabels
  <2>1. Delivering <=> AnyAt(FilterLabels) \/ AnyAt(FetchLabels) \/ AnyAt(ResetLabels)
    BY DEF Delivering, AnyAt, FilterLabels, FetchLabels, ResetLabels
  <2> QED
    BY <2>1 DEF Inside, DeliveryLabels
<1>4. AnyAt({"finish", "finish_done"}) <=> P = FinishLabels
  BY <1>1 DEF FinishLabels
<1>5. AnyAt({"exit"}) => P = HeadLabels
  <2>1. AnyAt({"exit"}) => AnyAt(HeadLabels)
    BY DEF AnyAt, HeadLabels
  <2> QED
    BY <2>1 DEF Inside
<1>6. ASSUME NEW v \in Vertices PROVE Waiting(v) = ActiveIn(P, v)
  BY <1>2, <1>3, PhaseNames DEF Waiting, ActiveIn, HasTurn, Receives, DeliveryLabels
<1>7. ASSUME NEW v \in Vertices PROVE Unfetched(v) <=> UnfetchedIn(P, v)
  <2>1. AnyAt({"filter", "filter_done"}) <=> P = FilterLabels
    BY DEF Inside, FilterLabels
  <2>2. AnyAt({"count", "fetch"}) => P = FetchLabels
    <3>1. AnyAt({"count", "fetch"}) => AnyAt(FetchLabels)
      BY DEF AnyAt, FetchLabels
    <3> QED
      BY <3>1 DEF Inside
  <2>3. P = FetchLabels /\ HasTurn(v) => AnyAt({"count", "fetch"})
    <3> SUFFICES ASSUME P = FetchLabels, todo # {} PROVE AnyAt({"count", "fetch"})
      BY DEF HasTurn
    <3>1. PICK u \in Threads : pc[u] \in {"compute", "mark", "count", "fetch", "reset"}
      BY DEF IterationsLeft, AnyAt
    <3>2. pc[u] \in {"count", "fetch"}
      BY <1>1, <3>1 DEF FetchLabels
    <3> QED
      BY <3>2 DEF AnyAt
  <2> QED
    BY <2>1, <2>2, <2>3 DEF Unfetched, UnfetchedIn, HasTurn, Receives
<1>8. absSuperstep = StepIn(P)
  BY <1>3, <1>4 DEF absSuperstep, StepIn
<1>9. absActive = [v \in Vertices |-> ActiveIn(P, v)]
  BY <1>6, Zenon DEF absActive
<1>10. ASSUME NEW v \in Vertices
       PROVE  (IF Unfetched(v) THEN Received(out_neighbours, sent, v) ELSE Unread(v)) =
              InboxIn(P, v)
  BY <1>2, <1>6, <1>7 DEF InboxIn, Unread
<1>11. absInbox = [v \in Vertices |-> InboxIn(P, v)]
  BY <1>10, Zenon DEF absInbox
<1> QED
  BY <1>2, <1>5, <1>8, <1>9, <1>11 DEF MapsTo, absSent, absRan

\* So they are behind a step.
LEMMA MappedNext == (\A P \in Phases : Inside(P) /\ IterationsLeft => MapsTo(P))'
BY Mapped, PTL

\* A step that leaves all of this as it was is a stutter.
LEMMA SuperstepKept ==
  ASSUME UNCHANGED <<jobVars, value>>, absSuperstep' = absSuperstep, absActive' = absActive,
         absInbox' = absInbox, absSent' = absSent, absRan' = absRan,
         AnyAt({"exit"})' <=> AnyAt({"exit"})
  PROVE  UNCHANGED Superstep!vars
<1>1. AnyAt({"exit"})' = AnyAt({"exit"})
  BY DEF AnyAt
<1> QED
  BY <1>1 DEF Superstep!vars, jobVars, absSuperstep, absActive, absInbox, absSent, absRan

\* A step within a phase, or from one to the next, that keeps what the phases show.
LEMMA PhaseStutters ==
  ASSUME NEW P \in Phases, NEW Q \in Phases, MapsTo(P), MapsTo(Q)',
         AnyAt({"exit"})' <=> AnyAt({"exit"}), UNCHANGED <<jobVars, value>>,
         StepIn(Q)' = StepIn(P),
         P = ComputeLabels => Q = ComputeLabels /\ UNCHANGED <<sent, ran>>,
         P # ComputeLabels /\ Q = ComputeLabels => sent' = Nothing /\ ran' = {},
         \A v \in Vertices : /\ ActiveIn(Q, v)' = ActiveIn(P, v)
                             /\ InboxIn(Q, v)' = InboxIn(P, v)
  PROVE  UNCHANGED Superstep!vars
<1>1. absSuperstep' = absSuperstep
  BY DEF MapsTo
<1>2. absSent' = absSent /\ absRan' = absRan
  BY DEF MapsTo, Nothing
<1>3. /\ absActive = [v \in Vertices |-> ActiveIn(P, v)]
      /\ absActive' = [v \in Vertices |-> ActiveIn(Q, v)']
      /\ absInbox = [v \in Vertices |-> InboxIn(P, v)]
      /\ absInbox' = [v \in Vertices |-> InboxIn(Q, v)']
  BY Zenon DEF MapsTo
<1>4. absActive' = absActive /\ absInbox' = absInbox
  BY <1>3, Zenon
<1> QED
  BY <1>1, <1>2, <1>4, SuperstepKept

\* The steps of a thread within a phase that the superstep semantics does not see.
LEMMA QuietPhase ==
  ASSUME NEW P \in Phases, Inside(P), Inside(P)', IterationsLeft, IterationsLeft',
         UNCHANGED <<jobVars, boxVars, value, sent, ran>>,
         StepIn(P)' = StepIn(P), AnyAt({"exit"})' <=> AnyAt({"exit"}),
         P \in {ComputeLabels, FetchLabels} => UNCHANGED todo,
         P \in {FilterLabels, ResetLabels} \/ UNCHANGED ip_all_targets
  PROVE  UNCHANGED Superstep!vars
<1>1. MapsTo(P) /\ MapsTo(P)'
  BY Mapped, MappedNext
<1>2. UNCHANGED <<out_neighbours, has_message, message, sent, ran>>
  BY DEF jobVars, boxVars
<1>3. ASSUME NEW v \in Vertices
      PROVE  ActiveIn(P, v)' = ActiveIn(P, v) /\ InboxIn(P, v)' = InboxIn(P, v)
  <2>1. Receives(v)' = Receives(v) /\ NextMessage(v)' = NextMessage(v)
        /\ Received(out_neighbours, sent, v)' = Received(out_neighbours, sent, v)
    BY <1>2 DEF Receives, NextMessage
  <2>2. P \in {ComputeLabels, FetchLabels} => HasTurn(v)' = HasTurn(v)
    BY PhaseNames DEF HasTurn
  <2>3. P \notin DeliveryLabels => Listed(v)' = Listed(v)
    BY DEF Listed, DeliveryLabels
  <2>4. ActiveIn(P, v)' = ActiveIn(P, v)
    BY <2>1, <2>2, <2>3 DEF ActiveIn
  <2>5. UnfetchedIn(P, v)' = UnfetchedIn(P, v)
    BY <2>1, <2>2 DEF UnfetchedIn
  <2> QED
    BY <1>2, <2>1, <2>4, <2>5 DEF InboxIn
<1> QED
  BY <1>1, <1>3, PhaseStutters

\* The steps of a thread that change nothing of the abstract superstep.
LEMMA QuietSteps ==
  ASSUME TypeOK, TeamInv, TeamInv', NEW t \in Threads,
         \/ StartSingle(t) \/ MarkTarget(t) \/ MarkingDone(t) \/ LeaveCompute(t)
         \/ FilterSingle(t) \/ SkipFilter(t) \/ Count(t) \/ LeaveFetch(t)
         \/ (\E v \in todo : ResetVertex(t, v)) \/ LeaveReset(t) \/ EndSuperstep(t)
  PROVE  UNCHANGED Superstep!vars
<1>1. UNCHANGED <<jobVars, boxVars, value, sent, ran>>
  BY DEF StartSingle, MarkTarget, MarkingDone, LeaveCompute, FilterSingle, SkipFilter, Count,
     LeaveFetch, ResetVertex, LeaveReset, EndSuperstep, FinishSingle, SkipFinish, engineVars,
     historyVars
<1>2. IterationsLeft /\ IterationsLeft'
  BY DEF TeamInv
<1>3. CASE EndSuperstep(t)
  <2>1. /\ Move(t, "finish", "finish_done") /\ UNCHANGED ip_all_targets
        /\ \/ ~claimed /\ claimed' = TRUE /\ ip_superstep' = ip_superstep + 1
           \/ claimed /\ UNCHANGED <<claimed, ip_superstep>>
    BY <1>3 DEF EndSuperstep, FinishSingle, SkipFinish, EnterSingle, SkipSingle, engineVars,
       targetVars
  <2>2. /\ Inside(FinishLabels) /\ Inside(FinishLabels)'
        /\ \A u \in Threads : pc[u] \in FinishLabels /\ pc'[u] \in FinishLabels
    BY <2>1, MoveTests, PhaseNames, LabelNames DEF TeamInv, Inside
  <2>3. ~AnyAt({"exit"}) /\ ~AnyAt({"exit"})'
    BY <2>2 DEF AnyAt, FinishLabels
  <2>4. StepIn(FinishLabels)' = StepIn(FinishLabels)
    BY <2>1, PhaseNames DEF StepIn, DeliveryLabels
  <2> QED
    BY <1>1, <1>2, <2>1, <2>2, <2>3, <2>4, QuietPhase, PhaseNames
<1>4. ASSUME NEW P \in Phases, P # FinishLabels, Inside(P), Inside(P)', UNCHANGED ip_superstep,
             AnyAt({"exit"})' <=> AnyAt({"exit"}),
             P \in {ComputeLabels, FetchLabels} => UNCHANGED todo,
             P \in {FilterLabels, ResetLabels} \/ UNCHANGED ip_all_targets
      PROVE  UNCHANGED Superstep!vars
  <2>1. StepIn(P)' = StepIn(P)
    BY <1>4 DEF StepIn
  <2> QED
    BY <1>1, <1>2, <1>4, <2>1, QuietPhase
<1>5. CASE StartSingle(t)
  <2>1. Move(t, "start", "start_done") /\ UNCHANGED <<ip_superstep, ip_all_targets>>
    BY <1>5 DEF StartSingle, EnterSingle, SkipSingle, engineVars, targetVars
  <2>2. /\ Inside(HeadLabels) /\ Inside(HeadLabels)' /\ pc[t] = "start" /\ pc'[t] = "start_done"
        /\ \A u \in Threads \ {t} : pc'[u] = pc[u]
    BY <2>1, MoveTests, PhaseNames, LabelNames DEF TeamInv
  <2>3. AnyAt({"exit"})' <=> AnyAt({"exit"})
    BY <2>2 DEF AnyAt
  <2> QED
    BY <1>4, <2>1, <2>2, <2>3, PhaseNames
<1>6. CASE MarkTarget(t)
  <2>1. pc[t] = "mark" /\ UNCHANGED <<pc, todo, ip_superstep, ip_all_targets>>
    BY <1>6 DEF MarkTarget, teamVars, engineVars
  <2>2. Inside(ComputeLabels) /\ Inside(ComputeLabels)'
    BY <2>1, StayTests, PhaseNames, LabelNames DEF TeamInv
  <2>3. AnyAt({"exit"})' <=> AnyAt({"exit"})
    BY <2>1 DEF AnyAt
  <2> QED
    BY <1>4, <2>1, <2>2, <2>3, PhaseNames
<1>7. ASSUME NEW P \in {ComputeLabels, FilterLabels, FetchLabels, ResetLabels},
             NEW from \in P, NEW to \in P, Move(t, from, to), UNCHANGED ip_superstep,
             P \in {ComputeLabels, FetchLabels} => UNCHANGED todo,
             P \in {FilterLabels, ResetLabels} \/ UNCHANGED ip_all_targets
      PROVE  UNCHANGED Superstep!vars
  <2>1. P \in Phases /\ P # FinishLabels
    BY <1>7, PhaseNames
  <2>2. Inside(P) /\ Inside(P)'
    BY <1>7, <2>1, MoveTests DEF TeamInv
  <2>3. ~AnyAt({"exit"}) /\ ~AnyAt({"exit"})'
    <3>1. "exit" \notin P
      BY <1>7 DEF ComputeLabels, FilterLabels, FetchLabels, ResetLabels
    <3> QED
      BY <2>2, <3>1 DEF Inside, AnyAt
  <2> QED
    BY <1>4, <1>7, <2>1, <2>2, <2>3
<1>8. CASE \/ MarkingDone(t) \/ LeaveCompute(t) \/ FilterSingle(t) \/ SkipFilter(t) \/ Count(t)
           \/ LeaveFetch(t) \/ (\E v \in todo : ResetVertex(t, v)) \/ LeaveReset(t)
  <2>1. /\ UNCHANGED ip_superstep
        /\ \/ /\ Move(t, "mark", "compute") \/ Move(t, "compute", "compute_done")
                 \/ Move(t, "count", "fetch") \/ Move(t, "fetch", "fetch_done")
              /\ UNCHANGED <<todo, ip_all_targets>>
           \/ Move(t, "filter", "filter_done") \/ Move(t, "reset", "reset")
           \/ Move(t, "reset", "reset_done")
    BY <1>8 DEF MarkingDone, LeaveCompute, FilterSingle, SkipFilter, Count, LeaveFetch, ResetVertex,
       LeaveReset, EnterSingle, SkipSingle, LeaveLoop, engineVars, targetVars
  <2>2. CASE /\ Move(t, "mark", "compute") \/ Move(t, "compute", "compute_done")
                \/ Move(t, "count", "fetch") \/ Move(t, "fetch", "fetch_done")
             /\ UNCHANGED <<todo, ip_all_targets>>
    BY <1>7, <2>1, <2>2, LabelNames
  <2>3. CASE \/ Move(t, "filter", "filter_done") \/ Move(t, "reset", "reset")
             \/ Move(t, "reset", "reset_done")
    BY <1>7, <2>1, <2>3, LabelNames, PhaseNames
  <2> QED
    BY <2>1, <2>2, <2>3
<1> QED
  BY <1>3, <1>5, <1>6, <1>8

\* The barriers that the superstep semantics does not see: the two ways to tell which
\* vertices are to run agree where one takes over from the other.
LEMMA QuietBarriers ==
  ASSUME CombineClosed, TypeOK, TeamInv, TeamInv', TargetInv,
         BeginCompute \/ EndFilter \/ BeginReset \/ BeginFinish \/ NextIteration
  PROVE  UNCHANGED Superstep!vars
<1>1. /\ UNCHANGED <<jobVars, boxVars, value, ip_superstep, ip_all_targets>>
      /\ UNCHANGED <<out_neighbours, has_message, message>>
      /\ BeginCompute \/ UNCHANGED <<sent, ran>>
  BY DEF BeginCompute, EndFilter, BeginReset, BeginFinish, NextIteration, engineVars, historyVars,
     targetVars, jobVars, boxVars
<1>2. \A v \in Vertices : /\ NextMessage(v)' = NextMessage(v)
                          /\ Listed(v)' = Listed(v)
  BY <1>1 DEF NextMessage, Listed
<1>3. UNCHANGED <<sent>> => \A v \in Vertices :
        /\ Receives(v)' = Receives(v)
        /\ Received(out_neighbours, sent, v)' = Received(out_neighbours, sent, v)
  BY <1>1 DEF Receives
<1>4. \A v \in Vertices : Receives(v) <=> SentTo(v)
  BY ReceivedSent DEF Receives
<1>5. IterationsLeft /\ IterationsLeft'
  BY DEF TeamInv
<1>6. CASE BeginCompute
  <2>1. /\ Barrier("start_done", "compute", DOMAIN ip_all_targets)
        /\ sent' = Nothing /\ ran' = {}
    BY <1>6 DEF BeginCompute, NewHistory
  <2>2. /\ Inside(HeadLabels) /\ Inside(ComputeLabels)'
        /\ \A u \in Threads : pc[u] = "start_done" /\ pc'[u] = "compute"
    BY <2>1, BeforeBarrier, BehindBarrier DEF Barrier, AllAt
  <2>3. MapsTo(HeadLabels) /\ MapsTo(ComputeLabels)'
    BY <1>5, <2>2, Mapped, MappedNext, PhaseNames
  <2>4. ~AnyAt({"exit"}) /\ ~AnyAt({"exit"})'
    BY <2>2 DEF AnyAt
  <2>5. StepIn(ComputeLabels)' = StepIn(HeadLabels)
    BY <1>1, PhaseNames DEF StepIn, DeliveryLabels
  <2>6. \A v \in Vertices : HasTurn(v)' = Listed(v)
    BY <1>1, <2>1 DEF Barrier, HasTurn, Listed
  <2>7. \A v \in Vertices : /\ ActiveIn(ComputeLabels, v)' = ActiveIn(HeadLabels, v)
                            /\ InboxIn(ComputeLabels, v)' = InboxIn(HeadLabels, v)
    BY <1>2, <2>1, <2>6, PhaseNames DEF ActiveIn, InboxIn, UnfetchedIn, DeliveryLabels
  <2> QED
    BY <1>1, <2>1, <2>3, <2>4, <2>5, <2>7, PhaseStutters, PhaseNames
<1>7. CASE EndFilter
  <2>1. Barrier("filter_done", "count", DOMAIN ip_all_targets) /\ UNCHANGED <<sent, ran>>
    BY <1>7 DEF EndFilter, engineVars, historyVars
  <2>2. /\ Inside(FilterLabels) /\ Inside(FetchLabels)'
        /\ \A u \in Threads : pc[u] = "filter_done" /\ pc'[u] = "count"
    BY <2>1, BeforeBarrier, BehindBarrier DEF Barrier, AllAt
  <2>3. MapsTo(FilterLabels) /\ MapsTo(FetchLabels)'
    BY <1>5, <2>2, Mapped, MappedNext, PhaseNames
  <2>4. ~AnyAt({"exit"}) /\ ~AnyAt({"exit"})'
    BY <2>2 DEF AnyAt
  <2>5. StepIn(FetchLabels)' = StepIn(FilterLabels)
    BY <1>1, PhaseNames DEF StepIn, DeliveryLabels
  <2>6. claimed
    BY <2>2, ThreadsAssumption DEF TeamInv, SingleEntered, AnyAt
  <2>7. \A v \in Vertices : HasTurn(v)' <=> Receives(v)
    <3>1. ListsReceivers
      BY <2>2, <2>6, StageInv, PhaseNames DEF Stage
    <3> QED
      BY <1>1, <1>4, <2>1, <3>1 DEF Barrier, HasTurn, ListsReceivers, Listed
  <2>8. \A v \in Vertices : /\ ActiveIn(FetchLabels, v)' = ActiveIn(FilterLabels, v)
                            /\ InboxIn(FetchLabels, v)' = InboxIn(FilterLabels, v)
    BY <1>3, <2>1, <2>7, PhaseNames DEF ActiveIn, InboxIn, UnfetchedIn, DeliveryLabels
  <2> QED
    BY <1>1, <2>1, <2>3, <2>4, <2>5, <2>8, PhaseStutters, PhaseNames
<1>8. CASE BeginReset
  <2>1. Barrier("fetch_done", "reset", Vertices) /\ UNCHANGED <<sent, ran>>
    BY <1>8 DEF BeginReset, engineVars, historyVars
  <2>2. /\ Inside(FetchLabels) /\ Inside(ResetLabels)'
        /\ \A u \in Threads : pc[u] = "fetch_done" /\ pc'[u] = "reset"
    BY <2>1, BeforeBarrier, BehindBarrier DEF Barrier, AllAt
  <2>3. MapsTo(FetchLabels) /\ MapsTo(ResetLabels)'
    BY <1>5, <2>2, Mapped, MappedNext, PhaseNames
  <2>4. ~AnyAt({"exit"}) /\ ~AnyAt({"exit"})'
    BY <2>2 DEF AnyAt
  <2>5. StepIn(ResetLabels)' = StepIn(FetchLabels)
    BY <1>1, PhaseNames DEF StepIn, DeliveryLabels
  <2>6. \A v \in Vertices : ~HasTurn(v)
    BY <2>2, OutsideLoops DEF TeamInv, HasTurn
  <2>7. \A v \in Vertices : /\ ActiveIn(ResetLabels, v)' = ActiveIn(FetchLabels, v)
                            /\ InboxIn(ResetLabels, v)' = InboxIn(FetchLabels, v)
    BY <1>2, <1>3, <2>1, <2>6, PhaseNames DEF ActiveIn, InboxIn, UnfetchedIn, DeliveryLabels
  <2> QED
    BY <1>1, <2>1, <2>3, <2>4, <2>5, <2>7, PhaseStutters, PhaseNames
<1>9. CASE BeginFinish
  <2>1. Barrier("reset_done", "finish", {}) /\ UNCHANGED <<sent, ran>>
    BY <1>9 DEF BeginFinish, engineVars, historyVars
  <2>2. /\ Inside(ResetLabels) /\ Inside(FinishLabels)'
        /\ (\A u \in Threads : pc[u] = "reset_done" /\ pc'[u] = "finish") /\ ~claimed'
    BY <2>1, BeforeBarrier, BehindBarrier DEF Barrier, AllAt
  <2>3. MapsTo(ResetLabels) /\ MapsTo(FinishLabels)'
    BY <1>5, <2>2, Mapped, MappedNext, PhaseNames
  <2>4. ~AnyAt({"exit"}) /\ ~AnyAt({"exit"})'
    BY <2>2 DEF AnyAt
  <2>5. StepIn(FinishLabels)' = StepIn(ResetLabels)
    BY <1>1, <2>2, PhaseNames DEF StepIn, DeliveryLabels
  <2>6. \A v \in Vertices : Listed(v) <=> Receives(v)
    <3>1. ListsReceivers
      BY <2>2, StageInv, PhaseNames DEF Stage
    <3> QED
      BY <1>4, <3>1 DEF ListsReceivers
  <2>7. \A v \in Vertices : /\ ActiveIn(FinishLabels, v)' = ActiveIn(ResetLabels, v)
                            /\ InboxIn(FinishLabels, v)' = InboxIn(ResetLabels, v)
    <3>1. \A v \in Vertices : Listed(v)' = Receives(v)
      BY <1>2, <2>6 DEF Listed, Receives
    <3> QED
      BY <1>2, <3>1, PhaseNames DEF ActiveIn, InboxIn, UnfetchedIn, DeliveryLabels
  <2> QED
    BY <1>1, <2>1, <2>3, <2>4, <2>5, <2>7, PhaseStutters, PhaseNames
<1>10. CASE NextIteration
  <2>1. Barrier("finish_done", "while", {}) /\ UNCHANGED <<sent, ran>>
    BY <1>10 DEF NextIteration, engineVars, historyVars
  <2>2. /\ Inside(FinishLabels) /\ Inside(HeadLabels)'
        /\ \A u \in Threads : pc[u] = "finish_done" /\ pc'[u] = "while"
    BY <2>1, BeforeBarrier, BehindBarrier DEF Barrier, AllAt
  <2>3. MapsTo(FinishLabels) /\ MapsTo(HeadLabels)'
    BY <1>5, <2>2, Mapped, MappedNext, PhaseNames
  <2>4. ~AnyAt({"exit"}) /\ ~AnyAt({"exit"})'
    BY <2>2 DEF AnyAt
  <2>5. claimed
    BY <2>2, ThreadsAssumption DEF TeamInv, SingleEntered, AnyAt
  <2>6. StepIn(HeadLabels)' = StepIn(FinishLabels)
    BY <1>1, <2>5, PhaseNames DEF StepIn, DeliveryLabels
  <2>7. \A v \in Vertices : /\ ActiveIn(HeadLabels, v)' = ActiveIn(FinishLabels, v)
                            /\ InboxIn(HeadLabels, v)' = InboxIn(FinishLabels, v)
    BY <1>2, PhaseNames DEF ActiveIn, InboxIn, UnfetchedIn, DeliveryLabels
  <2> QED
    BY <1>1, <2>1, <2>3, <2>4, <2>6, <2>7, PhaseStutters, PhaseNames
<1> QED
  BY <1>6, <1>7, <1>8, <1>9, <1>10

\* The first thread that leaves the loop returns: no vertex is listed.
LEMMA WhileReturns ==
  ASSUME TypeOK, TeamInv, TeamInv', TargetInv, NEW t \in Threads, While(t)
  PROVE  Superstep!Return \/ UNCHANGED Superstep!vars
<1>1. PICK to \in {"start", "exit"} :
        /\ Move(t, "while", to)
        /\ to = "exit" => ip_superstep # 0 /\ ip_all_targets = << >>
  BY DEF While
<1>2. UNCHANGED <<jobVars, boxVars, value, ip_superstep, sent, ran, ip_all_targets>>
  BY DEF While, engineVars, historyVars, targetVars
<1>3. /\ Inside(HeadLabels) /\ Inside(HeadLabels)' /\ pc[t] = "while" /\ pc'[t] = to
      /\ \A u \in Threads \ {t} : pc'[u] = pc[u]
  BY <1>1, MoveTests, PhaseNames, LabelNames DEF TeamInv
<1>4. IterationsLeft /\ IterationsLeft' /\ MapsTo(HeadLabels) /\ MapsTo(HeadLabels)'
  BY <1>3, Mapped, MappedNext, PhaseNames DEF TeamInv
<1>5. StepIn(HeadLabels)' = StepIn(HeadLabels)
  BY <1>2, PhaseNames DEF StepIn, DeliveryLabels
<1>6. CASE AnyAt({"exit"})' <=> AnyAt({"exit"})
  BY <1>2, <1>3, <1>4, <1>5, <1>6, QuietPhase, PhaseNames
<1>7. CASE ~(AnyAt({"exit"})' <=> AnyAt({"exit"}))
  <2>1. to = "exit" /\ ~AnyAt({"exit"}) /\ AnyAt({"exit"})'
    BY <1>3, <1>7 DEF AnyAt
  <2>2. \A v \in Vertices : ~Listed(v)
    BY <1>1, <2>1 DEF Listed
  <2>3. \A v \in Vertices : ~ActiveIn(HeadLabels, v)
    BY <2>2, PhaseNames DEF ActiveIn, DeliveryLabels
  <2>4. absRan = {} /\ \A v \in Vertices : ~absActive[v]
    BY <1>4, <2>3, PhaseNames DEF MapsTo
  <2>5. ~Superstep!InSuperstep
    BY <2>4 DEF Superstep!InSuperstep, absRan, absActive
  <2>6. \A v \in Vertices : /\ ActiveIn(HeadLabels, v)' = ActiveIn(HeadLabels, v)
                            /\ InboxIn(HeadLabels, v)' = InboxIn(HeadLabels, v)
    <3>1. \A v \in Vertices : Listed(v)' = Listed(v) /\ NextMessage(v)' = NextMessage(v)
      BY <1>2 DEF Listed, NextMessage, boxVars
    <3> QED
      BY <3>1, PhaseNames DEF ActiveIn, InboxIn, UnfetchedIn, DeliveryLabels
  <2>7. /\ absSuperstep' = absSuperstep /\ absSent' = absSent /\ absRan' = absRan
    BY <1>4, <1>5, PhaseNames DEF MapsTo, Nothing
  <2>8. /\ absActive = [v \in Vertices |-> ActiveIn(HeadLabels, v)]
        /\ absActive' = [v \in Vertices |-> ActiveIn(HeadLabels, v)']
        /\ absInbox = [v \in Vertices |-> InboxIn(HeadLabels, v)]
        /\ absInbox' = [v \in Vertices |-> InboxIn(HeadLabels, v)']
    BY <1>4, Zenon DEF MapsTo
  <2>9. absActive' = absActive /\ absInbox' = absInbox
    BY <2>6, <2>8, Zenon
  <2>10. AnyAt({"exit"})' = TRUE /\ AnyAt({"exit"}) = FALSE
    BY <2>1 DEF AnyAt
  <2> QED
    BY <1>2, <2>5, <2>7, <2>9, <2>10
       DEF Superstep!Return, jobVars, absSuperstep, absActive, absInbox, absSent, absRan
<1> QED
  BY <1>6, <1>7

\* The run of a listed vertex is one step of the superstep semantics.
LEMMA ComputeComputes ==
  ASSUME ProgramTyped, TypeOK, TeamInv, TeamInv', TargetInv, NEW t \in Threads, NEW i \in todo,
         ComputeVertex(t, i)
  PROVE  \E v \in Vertices : Superstep!Compute(v)
<1>1. /\ Move(t, "compute", "mark") /\ todo' = todo \ {i} /\ UNCHANGED ip_all_targets
  BY DEF ComputeVertex, TakeIteration
<1>2. Inside(ComputeLabels) /\ Inside(ComputeLabels)'
  BY <1>1, MoveTests, PhaseNames, LabelNames DEF TeamInv
<1>3. Stage(ComputeLabels) /\ MapsTo(ComputeLabels) /\ MapsTo(ComputeLabels)'
  BY <1>2, StageInv, Mapped, MappedNext, PhaseNames DEF TeamInv
<1>4. /\ todo \subseteq DOMAIN ip_all_targets
      /\ \A j \in DOMAIN ip_all_targets : ip_all_targets[j] \in Vertices
      /\ \A j, k \in DOMAIN ip_all_targets : ip_all_targets[j] = ip_all_targets[k] => j = k
  BY <1>2, Positions DEF TeamInv, Inside, IterationsLeft, ListedOnce
<1>0. PICK v \in Vertices : v = ip_all_targets[i]
  BY <1>4
<1>5. v \notin ran
  BY <1>0, <1>3 DEF Stage, Ran
<1>6. PICK outcome \in Outcomes(v) : RunVertex(v, outcome)
  BY <1>0 DEF ComputeVertex
<1>7. /\ value' = [value EXCEPT ![v] = outcome.value]
      /\ has_message' = [has_message EXCEPT ![v] = @ /\ ~outcome.reads]
      /\ sent' = [sent EXCEPT ![v] = outcome.message]
      /\ ran' = ran \cup {v}
      /\ UNCHANGED <<application, out_neighbours, message, ip_superstep>>
  BY <1>6 DEF RunVertex, jobVars
<1>8. /\ HasTurn(v) /\ ~HasTurn(v)'
      /\ \A w \in Vertices \ {v} : HasTurn(w)' <=> HasTurn(w)
  BY <1>0, <1>1, <1>4 DEF HasTurn
<1>9. has_message \in [Vertices -> BOOLEAN] /\ outcome.reads \in BOOLEAN
  BY <1>5, OutcomeTyped DEF TypeOK, EngineTypeOK
<1>10. /\ \A w \in Vertices : InboxIn(ComputeLabels, w) =
            IF HasTurn(w) \/ w \in ran THEN NextMessage(w) ELSE None
       /\ \A w \in Vertices : InboxIn(ComputeLabels, w)' =
            IF HasTurn(w)' \/ w \in ran' THEN NextMessage(w)' ELSE None
  BY PhaseNames DEF InboxIn, UnfetchedIn, ActiveIn
<1>11. /\ absInbox[v] = NextMessage(v)
       /\ absInbox' = [absInbox EXCEPT ![v] = IF outcome.reads THEN None ELSE @]
  <2>1. \A w \in Vertices \ {v} : NextMessage(w)' = NextMessage(w)
    BY <1>7, <1>9 DEF NextMessage
  <2>2. NextMessage(v)' = IF outcome.reads THEN None ELSE NextMessage(v)
    <3>1. has_message'[v] <=> has_message[v] /\ ~outcome.reads
      BY <1>7, <1>9
    <3> QED
      BY <1>7, <1>9, <3>1 DEF NextMessage
  <2>3. \A w \in Vertices \ {v} : InboxIn(ComputeLabels, w)' = InboxIn(ComputeLabels, w)
    BY <1>7, <1>8, <1>10, <2>1
  <2>4. /\ InboxIn(ComputeLabels, v) = NextMessage(v)
        /\ InboxIn(ComputeLabels, v)' = NextMessage(v)'
    BY <1>5, <1>7, <1>8, <1>10
  <2>5. /\ absInbox = [w \in Vertices |-> InboxIn(ComputeLabels, w)]
        /\ absInbox' = [w \in Vertices |-> InboxIn(ComputeLabels, w)']
    BY <1>3, Zenon DEF MapsTo
  <2>6. absInbox[v] = NextMessage(v)
    BY <1>5, <2>4, <2>5
  <2>7. \A w \in Vertices : absInbox'[w] =
          IF w = v THEN IF outcome.reads THEN None ELSE NextMessage(v) ELSE absInbox[w]
    BY <2>2, <2>3, <2>4, <2>5
  <2> QED
    BY <2>5, <2>6, <2>7
<1>12. absActive[v] /\ absActive' = [absActive EXCEPT ![v] = FALSE /\ ~outcome.halts]
  <2>1. /\ absActive = [w \in Vertices |-> ActiveIn(ComputeLabels, w)]
        /\ absActive' = [w \in Vertices |-> ActiveIn(ComputeLabels, w)']
    BY <1>3, Zenon DEF MapsTo
  <2>2. \A w \in Vertices \ {v} : ActiveIn(ComputeLabels, w)' = ActiveIn(ComputeLabels, w)
    BY <1>8 DEF ActiveIn, HasTurn
  <2>3. ActiveIn(ComputeLabels, v) = TRUE /\ ActiveIn(ComputeLabels, v)' = FALSE
    BY <1>8 DEF ActiveIn, HasTurn
  <2> QED
    BY <1>5, <2>1, <2>2, <2>3
<1>13. /\ absSuperstep = ip_superstep /\ absSuperstep' = ip_superstep' /\ absSent = sent
       /\ absSent' = sent' /\ absRan = ran /\ absRan' = ran'
  BY <1>3, PhaseNames DEF MapsTo, StepIn, DeliveryLabels
<1>14. ~AnyAt({"exit"}) /\ ~AnyAt({"exit"})'
  BY <1>3, PhaseNames DEF MapsTo
<1>15. Superstep!InSuperstep /\ Superstep!Runnable(v)
  BY <1>5, <1>12, <1>14 DEF Superstep!InSuperstep, Superstep!Runnable, absActive
<1>16. outcome \in Program(application, absSuperstep, v, value[v], absInbox[v], Len(out_neighbours[v]))
  BY <1>6, <1>11, <1>13 DEF Outcomes
<1>17. AnyAt({"exit"})' = AnyAt({"exit"})
  BY <1>14 DEF AnyAt
<1>18. Superstep!Compute(v)
  BY <1>5, <1>7, <1>11, <1>12, <1>13, <1>15, <1>16, <1>17
     DEF Superstep!Compute, absSuperstep, absActive, absInbox, absSent, absRan
<1> QED
  BY <1>5, <1>18

\* What a vertex finds in the outboxes of its in-neighbours is what they broadcast.
LEMMA EverythingReceived ==
  ASSUME OrderFree, TypeOK, InNeighboursKept, NEW d \in Vertices,
         \A u \in Vertices : Outgoing(u) = sent[u]
  PROVE  /\ Broadcasters(d) # {} <=> Received(out_neighbours, sent, d) # None
         /\ Broadcasters(d) # {} => FetchedMessage(d) = Received(out_neighbours, sent, d)
<1>1. out_neighbours \in [Vertices -> Seq(Vertices)]
  BY JobsAssumption DEF TypeOK, EngineTypeOK, jobVars
<1>2. in_neighbours[d] = InNeighboursOf(out_neighbours, d)
  BY DEF InNeighboursKept
<1>3. \A u \in Vertices : has_broadcast_message[u] => broadcast_message[u] \in Messages
  BY DEF TypeOK, OutboxTypeOK
<1>4. \A u \in Vertices :
        sent[u] = IF has_broadcast_message[u] THEN broadcast_message[u] ELSE None
  BY DEF Outgoing
<1>5. /\ Senders(in_neighbours[d], has_broadcast_message) # {} <=>
           Received(out_neighbours, sent, d) # None
      /\ Senders(in_neighbours[d], has_broadcast_message) # {} =>
           CombinedFrom(in_neighbours[d], has_broadcast_message, broadcast_message) =
             Received(out_neighbours, sent, d)
  BY <1>1, <1>2, <1>3, <1>4, FetchReceives, SMTT(60)
<1> QED
  BY <1>5 DEF Broadcasters, FetchedMessage

\* What a vertex fetches is what the superstep semantics already gave it.
LEMMA FetchStutters ==
  ASSUME OrderFree, TypeOK, TeamInv, TeamInv', TargetInv, NEW t \in Threads, NEW i \in todo,
         FetchVertex(t, i)
  PROVE  UNCHANGED Superstep!vars
<1>1. PICK v \in Vertices : v = ip_all_targets[i]
  BY TargetFetch
<1>2. /\ Move(t, "fetch", "fetch") /\ todo' = todo \ {i} /\ Fetch(v) /\ UNCHANGED ip_all_targets
      /\ \A u \in Vertices : Outgoing(u) = sent[u]
  <2>1. broadcast_target[v] /\ \A u \in Vertices : Outgoing(u) = sent[u]
    BY <1>1, TargetFetch
  <2> QED
    BY <1>1, <2>1 DEF FetchVertex, TakeIteration
<1>3. /\ has_message' = [has_message EXCEPT ![v] = Broadcasters(v) # {}]
      /\ message' = [message EXCEPT ![v] = IF Broadcasters(v) = {} THEN @ ELSE FetchedMessage(v)]
      /\ UNCHANGED <<application, out_neighbours, value, ip_superstep, sent, ran>>
  BY <1>2 DEF Fetch, jobVars, historyVars
<1>4. Inside(FetchLabels) /\ Inside(FetchLabels)'
  BY <1>2, MoveTests, PhaseNames, LabelNames DEF TeamInv
<1>5. MapsTo(FetchLabels) /\ MapsTo(FetchLabels)'
  BY <1>4, Mapped, MappedNext, PhaseNames DEF TeamInv
<1>6. ~AnyAt({"exit"}) /\ ~AnyAt({"exit"})'
  BY <1>5, PhaseNames DEF MapsTo
<1>7. /\ has_message \in [Vertices -> BOOLEAN]
      /\ message \in [Vertices -> Messages \cup {None}]
  BY DEF TypeOK, EngineTypeOK
<1>8. /\ Broadcasters(v) # {} <=> Receives(v)
      /\ Receives(v) => FetchedMessage(v) = Received(out_neighbours, sent, v)
  BY <1>2, EverythingReceived DEF TargetInv, Receives
<1>9. /\ Receives(v) => NextMessage(v)' = Received(out_neighbours, sent, v)
      /\ \A w \in Vertices \ {v} : NextMessage(w)' = NextMessage(w)
  BY <1>3, <1>7, <1>8 DEF NextMessage
<1>10. /\ HasTurn(v)
       /\ \A w \in Vertices \ {v} : HasTurn(w)' <=> HasTurn(w)
       /\ \A w \in Vertices : /\ Receives(w)' <=> Receives(w)
                              /\ Received(out_neighbours, sent, w)' = Received(out_neighbours, sent, w)
  BY <1>1, <1>2, <1>3 DEF HasTurn, Receives
<1>11. StepIn(FetchLabels)' = StepIn(FetchLabels)
  BY <1>3 DEF StepIn, DeliveryLabels
<1>12. ASSUME NEW w \in Vertices
       PROVE  /\ ActiveIn(FetchLabels, w)' = ActiveIn(FetchLabels, w)
              /\ InboxIn(FetchLabels, w)' = InboxIn(FetchLabels, w)
  <2>1. /\ ActiveIn(FetchLabels, w) = Receives(w) /\ ActiveIn(FetchLabels, w)' = Receives(w)'
    BY PhaseNames DEF ActiveIn, DeliveryLabels
  <2>2. Receives(w)' = Receives(w)
    BY <1>3 DEF Receives
  <2>3. /\ InboxIn(FetchLabels, w) =
             IF Receives(w) THEN IF HasTurn(w) THEN Received(out_neighbours, sent, w)
                                 ELSE NextMessage(w)
             ELSE None
        /\ InboxIn(FetchLabels, w)' =
             IF Receives(w)' THEN IF HasTurn(w)' THEN Received(out_neighbours, sent, w)'
                                  ELSE NextMessage(w)'
             ELSE None
    BY <2>1, PhaseNames DEF InboxIn, UnfetchedIn
  <2>4. InboxIn(FetchLabels, w)' = InboxIn(FetchLabels, w)
    <3>1. CASE w = v
      BY <1>9, <1>10, <2>3, <3>1
    <3>2. CASE w # v
      BY <1>9, <1>10, <2>3, <3>2
    <3> QED
      BY <3>1, <3>2
  <2> QED
    BY <2>1, <2>2, <2>4
<1> QED
  BY <1>3, <1>5, <1>6, <1>11, <1>12, PhaseStutters, PhaseNames DEF jobVars

\* The barrier behind the compute loop is where the next superstep begins.
LEMMA FilterNextSuperstep ==
  ASSUME CombineClosed, TypeOK, TeamInv, TeamInv', TargetInv, BeginFilter
  PROVE  Superstep!NextSuperstep
<1>1. /\ Barrier("compute_done", "filter", {})
      /\ UNCHANGED <<application, out_neighbours, value, ip_superstep, has_message, message,
                     sent, ran, ip_all_targets>>
  BY DEF BeginFilter, engineVars, jobVars, boxVars, historyVars, targetVars
<1>2. /\ Inside(ComputeLabels) /\ Inside(FilterLabels)'
      /\ \A u \in Threads : pc[u] = "compute_done" /\ pc'[u] = "filter"
  BY <1>1, BeforeBarrier, BehindBarrier DEF Barrier, AllAt
<1>3. Stage(ComputeLabels) /\ MapsTo(ComputeLabels) /\ MapsTo(FilterLabels)'
  BY <1>2, StageInv, Mapped, MappedNext, PhaseNames DEF TeamInv
<1>4. AnyAt({"exit"}) = FALSE /\ AnyAt({"exit"})' = FALSE
  BY <1>2 DEF AnyAt
<1>5. todo = {}
  BY <1>2, OutsideLoops DEF TeamInv
<1>6. ran # {}
  <2>1. ip_all_targets \in Seq(Vertices) /\ ip_all_targets # << >>
    BY <1>3 DEF TypeOK, Stage
  <2>2. 1 \in DOMAIN ip_all_targets
    BY <2>1
  <2> QED
    BY <1>3, <1>5, <2>2 DEF Stage, Ran
<1>7. /\ absSuperstep = ip_superstep /\ absSuperstep' = ip_superstep + 1 /\ absSent = sent
      /\ absSent' = Nothing /\ absRan = ran /\ absRan' = {}
  <2>1. StepIn(ComputeLabels) = ip_superstep /\ StepIn(FilterLabels)' = ip_superstep + 1
    BY <1>1, PhaseNames DEF StepIn, DeliveryLabels
  <2> QED
    BY <1>3, <2>1, PhaseNames DEF MapsTo, Nothing
<1>8. \A v \in Vertices : absActive[v] = FALSE
  BY <1>3, <1>5 DEF MapsTo, ActiveIn, HasTurn
<1>9. \A v \in Vertices : ~Superstep!Runnable(v)
  BY <1>8 DEF Superstep!Runnable, absActive
<1>10. \A v \in Vertices : /\ Receives(v)' = Receives(v)
                           /\ Received(out_neighbours, sent, v)' = Received(out_neighbours, sent, v)
  BY <1>1 DEF Receives
<1>11. absInbox' = [v \in Vertices |->
         LET new == Superstep!Received(out_neighbours, absSent, v)
         IN  IF new = None /\ FALSE THEN absInbox[v] ELSE new]
  <2>1. \A v \in Vertices : InboxIn(FilterLabels, v)' = Received(out_neighbours, sent, v)
    <3> SUFFICES ASSUME NEW v \in Vertices
                 PROVE  InboxIn(FilterLabels, v)' = Received(out_neighbours, sent, v)
      OBVIOUS
    <3>1. ActiveIn(FilterLabels, v)' = Receives(v)'
      BY PhaseNames DEF ActiveIn, DeliveryLabels
    <3>2. UnfetchedIn(FilterLabels, v)' = Receives(v)'
      BY DEF UnfetchedIn, Receives
    <3>3. InboxIn(FilterLabels, v)' = IF Receives(v)' THEN Received(out_neighbours, sent, v)' ELSE None
      BY <3>1, <3>2, PhaseNames DEF InboxIn
    <3>4. ~Receives(v) => Received(out_neighbours, sent, v) = None
      BY DEF Receives
    <3> QED
      BY <1>10, <3>3, <3>4
  <2>2. absInbox' = [v \in Vertices |-> InboxIn(FilterLabels, v)']
    BY <1>3, Zenon DEF MapsTo
  <2>3. absInbox' = [v \in Vertices |-> Received(out_neighbours, sent, v)]
    BY <2>1, <2>2, Zenon
  <2>4. \A v \in Vertices : Received(out_neighbours, sent, v) =
          LET new == Superstep!Received(out_neighbours, absSent, v)
          IN  IF new = None /\ FALSE THEN absInbox[v] ELSE new
    BY <1>7, SuperstepReceived
  <2> QED
    BY <2>3, <2>4, Zenon
<1>12. absActive' = [v \in Vertices |->
         absActive[v] \/ Superstep!Received(out_neighbours, absSent, v) # None]
  <2>1. absActive' = [v \in Vertices |-> ActiveIn(FilterLabels, v)']
    BY <1>3, Zenon DEF MapsTo
  <2>2. \A v \in Vertices : ActiveIn(FilterLabels, v)' =
          (absActive[v] \/ Superstep!Received(out_neighbours, absSent, v) # None)
    <3> SUFFICES ASSUME NEW v \in Vertices
                 PROVE  ActiveIn(FilterLabels, v)' =
                          (absActive[v] \/ Superstep!Received(out_neighbours, absSent, v) # None)
      OBVIOUS
    <3>1. ActiveIn(FilterLabels, v)' = Receives(v)'
      BY PhaseNames DEF ActiveIn, DeliveryLabels
    <3>2. Receives(v) = (Superstep!Received(out_neighbours, absSent, v) # None)
      BY <1>7, SuperstepReceived DEF Receives
    <3> QED
      BY <1>8, <1>10, <3>1, <3>2
  <2> QED
    BY <2>1, <2>2, Zenon
<1> QED
  BY <1>1, <1>4, <1>6, <1>7, <1>9, <1>11, <1>12
     DEF Superstep!NextSuperstep, absSuperstep, absActive, absInbox, absSent, absRan, Nothing

\* A run starts where the superstep semantics starts.
LEMMA SuperstepInit == Init => Superstep!Init
<1> SUFFICES ASSUME Init PROVE Superstep!Init
  OBVIOUS
<1>1. \A u \in Threads : pc[u] = "while"
  BY DEF Init, TeamInit
<1>2. /\ ~Delivering /\ ~AnyAt({"finish", "finish_done"}) /\ ~Computing
      /\ AnyAt({"exit"}) = FALSE /\ ~AnyAt({"filter", "filter_done"}) /\ ~AnyAt({"count", "fetch"})
  BY <1>1, ThreadsAssumption DEF Delivering, Computing, AnyAt, AllAt
<1>3. \A v \in Vertices : Waiting(v) = TRUE /\ ~Unfetched(v) /\ Unread(v) = None
  <2>1. \A v \in Vertices : Listed(v)
    BY EnumerationLists DEF Init, Listed
  <2>2. \A v \in Vertices : NextMessage(v) = None
    BY DEF Init, EngineInit, NextMessage
  <2> QED
    BY <1>2, <2>1, <2>2 DEF Waiting, Unfetched, Unread, Listed
<1>4. /\ absSuperstep = 0 /\ absSent = Nothing /\ absRan = {}
      /\ absActive = [v \in Vertices |-> TRUE] /\ absInbox = Nothing
  BY <1>2, <1>3 DEF Init, EngineInit, absSuperstep, absSent, absRan, absActive, absInbox, Nothing
<1>5. /\ \E job \in Jobs : application = job[1] /\ out_neighbours = job[2]
      /\ value = Nothing
  BY DEF Init, EngineInit
<1> QED
  BY <1>2, <1>4, <1>5
     DEF Superstep!Init, absSuperstep, absActive, absInbox, absSent, absRan, Nothing

\* Every step of ip_run is a step of the superstep semantics, or none.
LEMMA SuperstepStep ==
  ASSUME ProgramTyped, OrderFree, CombineClosed, TypeOK, TeamInv, TargetInv, [Next]_vars
  PROVE  [Superstep!Next]_(Superstep!vars)
<1>0. TeamInv'
  BY TeamNextInv
<1>1. ASSUME NEW t \in Threads, ThreadStep(t) PROVE [Superstep!Next]_(Superstep!vars)
  <2>1. CASE While(t)
    BY <1>0, <2>1, WhileReturns DEF Superstep!Next
  <2>2. CASE \/ StartSingle(t) \/ MarkTarget(t) \/ MarkingDone(t) \/ LeaveCompute(t)
             \/ FilterSingle(t) \/ SkipFilter(t) \/ Count(t) \/ LeaveFetch(t)
             \/ (\E v \in todo : ResetVertex(t, v)) \/ LeaveReset(t) \/ EndSuperstep(t)
    BY <1>0, <2>2, QuietSteps
  <2>3. ASSUME NEW i \in todo, ComputeVertex(t, i) PROVE Superstep!Next
    BY <1>0, <2>3, ComputeComputes DEF Superstep!Next
  <2>4. ASSUME NEW i \in todo, FetchVertex(t, i) PROVE UNCHANGED Superstep!vars
    BY <1>0, <2>4, FetchStutters
  <2> QED
    BY <1>1, <2>1, <2>2, <2>3, <2>4 DEF ThreadStep
<1>2. CASE BarrierStep
  BY <1>0, <1>2, QuietBarriers, FilterNextSuperstep DEF BarrierStep, Superstep!Next
<1>3. CASE UNCHANGED vars
  <2>1. UNCHANGED <<pc, claimed, todo, jobVars, out_neighbours, value, ip_superstep, sent, ran,
                    has_message, message, ip_all_targets>>
    BY <1>3 DEF vars, teamVars, engineVars, jobVars, boxVars, historyVars, targetVars
  <2>2. /\ (Delivering' <=> Delivering) /\ (Computing' <=> Computing)
        /\ (AnyAt({"finish", "finish_done"})' <=> AnyAt({"finish", "finish_done"}))
        /\ (AnyAt({"exit"})' <=> AnyAt({"exit"}))
        /\ (AnyAt({"filter", "filter_done"})' <=> AnyAt({"filter", "filter_done"}))
        /\ (AnyAt({"count", "fetch"})' <=> AnyAt({"count", "fetch"}))
    BY <2>1 DEF Delivering, Computing, AnyAt, AllAt
  <2>3. absSuperstep' = absSuperstep /\ absSent' = absSent /\ absRan' = absRan
    BY <2>1, <2>2 DEF absSuperstep, absSent, absRan, Nothing
  <2>4. \A v \in Vertices : Waiting(v)' = Waiting(v)
    BY <2>1, <2>2 DEF Waiting, Listed
  <2>5. \A v \in Vertices : Unfetched(v)' = Unfetched(v) /\ Unread(v)' = Unread(v)
    BY <2>1, <2>2, <2>4 DEF Unfetched, Unread, NextMessage
  <2>6. absActive' = absActive /\ absInbox' = absInbox
    BY <2>1, <2>4, <2>5 DEF absActive, absInbox
  <2> QED
    BY <2>1, <2>2, <2>3, <2>6, SuperstepKept
<1> QED
  BY <1>1, <1>2, <1>3 DEF Next

\* ip_run of the pull version with a list of targets computes what the superstep
\* semantics says, for every team of threads, every graph and every ip_compute that
\* keeps to its types: the marks that the threads race on, the rebuilt list and the
\* cleared outboxes run every vertex that was sent a message, once, on that message.
THEOREM SpreadSingleBroadcastImplementsBSP ==
  ASSUME ProgramTyped, OrderFree
  PROVE  Spec => ImplementsBSP
<1>1. CombineClosed
  BY DEF CombineClosed, OrderFree
<1>2. Init => Superstep!Init
  BY SuperstepInit
<1>3. TypeOK /\ TeamInv /\ TargetInv /\ [Next]_vars => [Superstep!Next]_(Superstep!vars)
  BY <1>1, SuperstepStep
<1>4. Spec => [](TypeOK /\ TeamInv /\ TargetInv)
  BY <1>1, TargetInvariant
<1> QED
  BY <1>2, <1>3, <1>4, PTL DEF Spec, ImplementsBSP, Superstep!Spec

------------------------------------------------------------------------------
(* What cc.c and sssp.c compute with this version.                         *)

\* The proofs about the superstep semantics, for what this version implements.
Answers == INSTANCE Apps_proofs WITH
  KeepsUnread <- FALSE,
  VotesCount <- FALSE,
  superstep <- IF Delivering \/ (AnyAt({"finish", "finish_done"}) /\ ~claimed)
               THEN ip_superstep + 1 ELSE ip_superstep,
  active <- [v \in Vertices |-> Waiting(v)],
  inbox <- [v \in Vertices |->
    IF Unfetched(v) THEN Received(out_neighbours, sent, v) ELSE Unread(v)],
  sent <- IF Computing THEN sent ELSE Nothing,
  ran <- IF Computing THEN ran ELSE {},
  returned <- AnyAt({"exit"})

\* The notions of those proofs are the ones of this module.
LEMMA SameNotions ==
  /\ \A out, u, d : Answers!Leads(out, u, d) = Leads(out, u, d)
  /\ \A out, s, d : Answers!Received(out, s, d) = Received(out, s, d)
  /\ \A out, v : Answers!ComponentLabel(out, v) = ComponentLabel(out, v)
  /\ \A out, v : Answers!Distance(out, v) = Distance(out, v)
  /\ Answers!N = N
<1>1. \A out, u, d : Answers!Leads(out, u, d) = Leads(out, u, d)
  BY Zenon DEF Leads, Answers!Leads
<1>2. \A s, E : Answers!CombinedOver(s, E) = CombinedOver(s, E)
  BY Zenon DEF Answers!CombinedOver, CombinedOver, Answers!MapThenFoldSet, MapThenFoldSet,
               Answers!Merge, Merge
<1>3. \A out, s, d : Answers!Received(out, s, d) = Received(out, s, d)
  BY <1>2, Zenon DEF Answers!EdgesInto, EdgesInto, Answers!Received, Received
<1>4. Answers!N = N
  BY Zenon DEF Answers!N, N, Answers!Cardinality, Cardinality
<1>5. \A out, v : Answers!Within(out, v) = Within(out, v)
  BY Zenon DEF Answers!Within, Within
<1>6. \A out, v : Answers!ComponentLabel(out, v) = ComponentLabel(out, v)
  BY <1>4, <1>5, Zenon DEF Answers!ComponentLabel, ComponentLabel
<1>7. \A out, v : Answers!Distance(out, v) = Distance(out, v)
  <2>1. ASSUME NEW out, NEW u, NEW v
        PROVE  Answers!DistanceFrom(out, u, v) = DistanceFrom(out, u, v)
    <3>1. Answers!Within(out, u) = Within(out, u)
      BY <1>5
    <3> QED
      BY <1>4, <3>1 DEF Answers!DistanceFrom, DistanceFrom
  <2> QED
    BY <2>1, Zenon DEF Answers!Distance, Distance
<1> QED
  BY <1>1, <1>3, <1>4, <1>6, <1>7

\* So is what they suppose.
LEMMA SameSuppositions ==
  /\ RunsCC => Answers!RunsCC
  /\ RunsSSSP => Answers!RunsSSSP
  /\ CombinesLeast => Answers!ReceivesLeast
<1>1. \A a, b : Answers!MinCombine(a, b) = MinCombine(a, b)
  BY Zenon DEF Answers!MinCombine, MinCombine
<1>2. CombinesLeast => Answers!CombinesLeast
  BY <1>1, Zenon DEF Answers!CombinesLeast, CombinesLeast
<1>3. ASSUME NEW s, NEW v, NEW x, NEW in, NEW degree
      PROVE  Answers!CCCompute(s, v, x, in, degree) = CCCompute(s, v, x, in, degree)
  BY Zenon DEF Answers!CCCompute, CCCompute, Answers!Result, Result, Answers!Improved, Improved
<1>4. ASSUME NEW s, NEW v, NEW x, NEW in, NEW degree
      PROVE  Answers!SSSPCompute(s, v, x, in, degree) = SSSPCompute(s, v, x, in, degree)
  BY Zenon DEF Answers!SSSPCompute, SSSPCompute, Answers!Result, Result,
               Answers!Improved, Improved
<1>5. Is("cc", CCCompute) => Answers!Is("cc", Answers!CCCompute)
  BY <1>3, Zenon DEF Is, Answers!Is
<1>6. Is("sssp", SSSPCompute) => Answers!Is("sssp", Answers!SSSPCompute)
  BY <1>4, Zenon DEF Is, Answers!Is
<1>7. \A out : Undirected(out) => Answers!Undirected(out)
  BY SameNotions, Zenon DEF Undirected, Answers!Undirected
<1>8. RunsCC => Answers!RunsCC
  BY <1>2, <1>5, <1>7, Zenon DEF RunsCC, Answers!RunsCC
<1>9. RunsSSSP => Answers!RunsSSSP
  BY <1>2, <1>6, SameNotions, Zenon DEF RunsSSSP, Answers!RunsSSSP
<1>10. CombinesLeast => Answers!ReceivesLeast
  <2> SUFFICES ASSUME CombinesLeast, NEW out \in [Vertices -> Seq(Vertices)],
                      NEW s \in [Vertices -> Messages \cup {None}], NEW d \in Vertices
               PROVE  LET in == Answers!Received(out, s, d)
                      IN  /\ in \in Messages \cup {None}
                          /\ in # None =>
                               \E u \in Vertices : Answers!Leads(out, u, d) /\ s[u] = in
                          /\ \A u \in Vertices : Answers!Leads(out, u, d) /\ s[u] # None =>
                               in # None /\ in <= s[u]
    BY Zenon DEF Answers!ReceivesLeast, Answers!Graphs
  <2> DEFINE in == Received(out, s, d)
  <2>1. /\ in \in Messages \cup {None}
        /\ in # None => \E u \in Vertices : Leads(out, u, d) /\ s[u] = in
        /\ \A u \in Vertices : Leads(out, u, d) /\ s[u] # None => in # None /\ in <= s[u]
    BY ReceivedIsLeast DEF Maybe
  <2>2. Answers!Received(out, s, d) = in
    BY SameNotions
  <2>3. \A u \in Vertices : Answers!Leads(out, u, d) <=> Leads(out, u, d)
    BY SameNotions
  <2> HIDE DEF in
  <2> QED
    BY <2>1, <2>2, <2>3
<1> QED
  BY <1>8, <1>9, <1>10

\* So is the superstep semantics.
LEMMA SameSupersteps == Superstep!Spec => Answers!Spec
<1>1. Superstep!Init => Answers!Init
  BY DEF Superstep!Init, Answers!Init
<1>2. Superstep!Next => Answers!Next
  BY DEF Superstep!Next, Answers!Next, Superstep!Compute, Answers!Compute,
         Superstep!NextSuperstep, Answers!NextSuperstep, Superstep!Return, Answers!Return,
         Superstep!InSuperstep, Answers!InSuperstep, Superstep!Runnable, Answers!Runnable,
         Superstep!vars, Answers!vars, Superstep!Received, Answers!Received,
         Superstep!CombinedOver, Answers!CombinedOver, Superstep!EdgesInto, Answers!EdgesInto,
         Superstep!MapThenFoldSet, Answers!MapThenFoldSet, Superstep!Merge, Answers!Merge
<1>3. [Superstep!Next]_(Superstep!vars) => [Answers!Next]_(Answers!vars)
  BY <1>2 DEF Superstep!vars, Answers!vars
<1> QED
  BY <1>1, <1>3, PTL DEF Superstep!Spec, Answers!Spec

\* What those proofs take from the modules they extend.
LEMMA SameAssumptions ==
  Answers!VerticesAssumption /\ Answers!NoneAssumption /\ Answers!JobsAssumption
BY VerticesAssumption, NoneAssumption, JobsAssumption, Zenon DEF IsFiniteSet, Answers!IsFiniteSet

\* cc.c labels every vertex with the least identifier of its component, in the pull version with a list
\* for every undirected graph and every team of threads.
THEOREM SpreadSingleBroadcastFindsComponents ==
  ASSUME ProgramTyped, RunsCC PROVE Spec => []CCResult
<1>1. CombinesLeast
  BY DEF RunsCC
<1>2. OrderFree
  BY <1>1, LeastOrderFree
<1>3. Answers!RunsCC /\ Answers!ReceivesLeast
  BY <1>1, SameSuppositions
<1>4. Answers!ComponentsFound => CCResult
  <2>1. Terminated => AnyAt({"exit"})
    BY ThreadsAssumption DEF Terminated, AllAt, AnyAt
  <2> QED
    BY <2>1, SameNotions DEF CCResult, Answers!ComponentsFound
<1> QED
  BY <1>2, <1>3, <1>4, SpreadSingleBroadcastImplementsBSP, SameSupersteps, SameAssumptions,
     Answers!ComponentsInSupersteps, PTL DEF ImplementsBSP

\* sssp.c labels every vertex with its distance from the source, in the pull version with a list
\* for every graph and every team of threads.
THEOREM SpreadSingleBroadcastFindsDistances ==
  ASSUME ProgramTyped, RunsSSSP PROVE Spec => []SSSPResult
<1>1. CombinesLeast
  BY DEF RunsSSSP
<1>2. OrderFree
  BY <1>1, LeastOrderFree
<1>3. Answers!RunsSSSP /\ Answers!ReceivesLeast
  BY <1>1, SameSuppositions
<1>4. Answers!DistancesFound => SSSPResult
  <2>1. Terminated => AnyAt({"exit"})
    BY ThreadsAssumption DEF Terminated, AllAt, AnyAt
  <2> QED
    BY <2>1, SameNotions DEF SSSPResult, Answers!DistancesFound
<1> QED
  BY <1>2, <1>3, <1>4, SpreadSingleBroadcastImplementsBSP, SameSupersteps, SameAssumptions,
     Answers!DistancesInSupersteps, PTL DEF ImplementsBSP
==============================================================================
