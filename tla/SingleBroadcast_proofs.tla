------------------------ MODULE SingleBroadcast_proofs ------------------------
(***************************************************************************)
(* Proofs about SingleBroadcast for every team of threads, every graph and *)
(* every program that keeps to its types: the counter is exact, every      *)
(* vertex fetches everything that was broadcast to it, and ip_run computes *)
(* what the superstep semantics says, although no step takes a lock.       *)
(***************************************************************************)
EXTENDS SingleBroadcast, Engine_proofs

------------------------------------------------------------------------------
(* The phases of the loop of ip_run.                                       *)

HeadLabels == {"while", "entered", "exit"}
StartLabels == {"start", "start_done"}
FetchLabels == {"fetch", "fetch_done"}
FinishLabels == {"finish", "finish_done"}

\* No label is in two phases.
LEMMA PhasesApart == Apart(Phases)
BY DEF Apart, Phases

\* The names of the phases, which are all different.
LEMMA PhaseNames ==
  /\ HeadLabels \in Phases /\ StartLabels \in Phases /\ ComputeLabels \in Phases
  /\ FetchLabels \in Phases /\ FinishLabels \in Phases
  /\ HeadLabels # StartLabels /\ HeadLabels # ComputeLabels /\ HeadLabels # FetchLabels
  /\ HeadLabels # FinishLabels /\ StartLabels # ComputeLabels /\ StartLabels # FetchLabels
  /\ StartLabels # FinishLabels /\ ComputeLabels # FetchLabels
  /\ ComputeLabels # FinishLabels /\ FetchLabels # FinishLabels
BY DEF Phases, HeadLabels, StartLabels, ComputeLabels, FetchLabels, FinishLabels

\* The labels of each phase.
LEMMA LabelNames ==
  /\ "while" \in HeadLabels /\ "entered" \in HeadLabels /\ "exit" \in HeadLabels
  /\ "start" \in StartLabels /\ "start_done" \in StartLabels
  /\ "compute" \in ComputeLabels /\ "compute_done" \in ComputeLabels
  /\ "fetch" \in FetchLabels /\ "fetch_done" \in FetchLabels
  /\ "finish" \in FinishLabels /\ "finish_done" \in FinishLabels
BY DEF HeadLabels, StartLabels, ComputeLabels, FetchLabels, FinishLabels

\* A test whether some thread is in a phase, when all threads are in P.
LEMMA PhaseTests ==
  ASSUME NEW f, NEW P \in Phases, \A u \in Threads : f[u] \in P, NEW Q \in Phases
  PROVE  (\E u \in Threads : f[u] \in Q) <=> Q = P
BY PhasesApart, ThreadsAssumption DEF Apart

\* What a move within phase P tells about the phases.
LEMMA MoveTests ==
  ASSUME TypeOK, SamePhase, NEW P \in Phases, NEW t \in Threads, NEW from \in P, NEW to \in P,
         Move(t, from, to)
  PROVE  /\ \A u \in Threads : pc[u] \in P /\ pc'[u] \in P
         /\ \A u \in Threads \ {t} : pc'[u] = pc[u]
         /\ pc[t] = from /\ pc'[t] = to
         /\ SamePhase'
         /\ \A Q \in Phases : /\ AnyAt(Q) <=> Q = P
                              /\ AnyAt(Q)' <=> Q = P
<1>1. (\A u \in Threads : pc[u] \in P /\ pc'[u] \in P) /\ SamePhase'
  BY PhasesApart, MoveTogether DEF TypeOK, SamePhase
<1>2. /\ \A u \in Threads \ {t} : pc'[u] = pc[u]
      /\ pc[t] = from /\ pc'[t] = to
  BY DEF Move, TypeOK
<1> QED
  BY <1>1, <1>2, PhaseTests DEF AnyAt

\* What a barrier tells about them, here and behind it.
LEMMA BarrierTests ==
  ASSUME NEW P \in Phases, NEW Q \in Phases, NEW from \in P, NEW to \in Q, NEW iterations,
         Barrier(from, to, iterations)
  PROVE  /\ \A u \in Threads : pc[u] = from /\ pc'[u] = to
         /\ pc' = [u \in Threads |-> to]
         /\ claimed' = FALSE /\ todo' = iterations
         /\ SamePhase'
         /\ AnyAt(StartLabels) <=> P = StartLabels
         /\ AnyAt(StartLabels)' <=> Q = StartLabels
         /\ AnyAt(ComputeLabels) <=> P = ComputeLabels
         /\ AnyAt(ComputeLabels)' <=> Q = ComputeLabels
<1>1. /\ \A u \in Threads : pc[u] = from /\ pc'[u] = to
      /\ pc' = [u \in Threads |-> to]
      /\ claimed' = FALSE /\ todo' = iterations
  BY DEF Barrier, AllAt
<1>3. SamePhase'
  BY <1>1 DEF SamePhase, Together
<1>2. \A R \in Phases : /\ (\E u \in Threads : pc[u] \in R) <=> R = P
                        /\ (\E u \in Threads : pc'[u] \in R) <=> R = Q
  BY <1>1, PhaseTests
<1> QED
  BY <1>1, <1>2, <1>3, PhaseNames DEF AnyAt

------------------------------------------------------------------------------
(* Type correctness.                                                       *)

\* What a vertex fetches is a message.
LEMMA MessageFetched ==
  ASSUME CombineClosed, OutboxTypeOK, NEW v \in Vertices, Broadcasters(v) # {}
  PROVE  FetchedMessage(v) \in Messages
<1>1. /\ in_neighbours[v] \in Seq(Vertices)
      /\ \A u \in Vertices : has_broadcast_message[u] => broadcast_message[u] \in Messages
  BY DEF OutboxTypeOK
<1> QED
  BY <1>1, FetchedTyped DEF Broadcasters, FetchedMessage

\* The initial state has the right types, and the in-neighbours of the graph.
LEMMA InitTyped == Init => TypeOK /\ InNeighboursKept
<1> SUFFICES ASSUME Init PROVE TypeOK /\ InNeighboursKept
  OBVIOUS
<1>1. EngineTypeOK
  BY EngineInitTyped DEF Init
<1>2. InNeighboursKept
  BY DEF Init, OutboxInit, InNeighboursKept
<1>3. in_neighbours \in [Vertices -> Seq(Vertices)]
  <2>1. out_neighbours \in [Vertices -> Seq(Vertices)]
    BY <1>1, JobsAssumption DEF EngineTypeOK, jobVars
  <2>2. \A d \in Vertices : InNeighboursOf(out_neighbours, d) \in Seq(Vertices)
    BY <2>1, ListOfEdges
  <2> QED
    BY <1>2, <2>2 DEF InNeighboursKept
<1>4. OutboxTypeOK
  BY <1>3 DEF Init, OutboxInit, OutboxTypeOK, Nothing
<1>5. Cardinality(Vertices) \in Nat
  BY VerticesAssumption, FS_CardinalityType
<1> QED
  BY <1>1, <1>2, <1>4, <1>5 DEF Init, TeamInit, TypeOK, PCs

\* The outboxes stay well typed while they do not change.
LEMMA OutboxUnchanged ==
  ASSUME OutboxTypeOK, UNCHANGED outboxVars PROVE OutboxTypeOK'
BY DEF OutboxTypeOK, outboxVars

\* The steps of a thread keep to the types.
LEMMA ThreadStepTyped ==
  ASSUME ProgramTyped, CombineClosed, TypeOK, NEW t \in Threads, ThreadStep(t)
  PROVE  TypeOK'
<1> USE DEF TypeOK
<1>1. CASE While(t) \/ StartSingle(t) \/ SkipStart(t) \/ LeaveCompute(t) \/ LeaveFetch(t)
           \/ EndSuperstep(t)
  <2>1. PICK from \in PCs, to \in PCs : Move(t, from, to)
    BY <1>1 DEF While, StartSingle, SkipStart, LeaveCompute, LeaveFetch, EndSuperstep,
       EnterSingle, SkipSingle, LeaveLoop, FinishSingle, SkipFinish, PCs
  <2>2. pc' \in [Threads -> PCs]
    BY <2>1, MoveEffect
  <2>3. EngineTypeOK'
    BY <1>1, EngineUnchanged, EngineStepsTyped
       DEF While, StartSingle, SkipStart, LeaveCompute, LeaveFetch, EndSuperstep, SkipFinish
  <2>4. OutboxTypeOK' /\ UNCHANGED <<todo, active>>
    BY <1>1, OutboxUnchanged
       DEF While, StartSingle, SkipStart, LeaveCompute, LeaveFetch, EndSuperstep, EnterSingle,
           SkipSingle, LeaveLoop, FinishSingle, SkipFinish
  <2>5. claimed' \in BOOLEAN
    BY <1>1 DEF While, StartSingle, SkipStart, LeaveCompute, LeaveFetch, EndSuperstep, EnterSingle,
       SkipSingle, LeaveLoop, FinishSingle, SkipFinish
  <2>6. ip_active_vertices' \in Nat /\ partial' \in [Threads -> Nat]
    BY <1>1 DEF While, StartSingle, SkipStart, LeaveCompute, LeaveFetch, EndSuperstep, countVars
  <2> QED
    BY <2>2, <2>3, <2>4, <2>5, <2>6
<1>2. ASSUME NEW v \in Vertices, ComputeVertex(t, v) PROVE TypeOK'
  <2>1. Move(t, "compute", "compute") /\ TakeIteration(v) /\ UNCHANGED ip_active_vertices
    BY <1>2 DEF ComputeVertex
  <2>2. PICK outcome \in Outcomes(v) :
          /\ RunVertex(v, outcome)
          /\ FillOutbox(v, outcome, FALSE)
          /\ active' = [active EXCEPT ![v] = ~outcome.halts]
          /\ partial' = [partial EXCEPT ![t] = IF outcome.halts THEN @ ELSE @ + 1]
    BY <1>2 DEF ComputeVertex
  <2>3. outcome.message \in Messages \cup {None} /\ outcome.halts \in BOOLEAN
    BY OutcomeTyped
  <2>4. EngineTypeOK'
    BY <2>2, RunVertexTyped
  <2>5. OutboxTypeOK'
    BY <2>2, <2>3 DEF FillOutbox, OutboxTypeOK
  <2>6. pc' \in [Threads -> PCs] /\ claimed' \in BOOLEAN /\ todo' \in SUBSET Vertices
    <3>1. pc' \in [Threads -> PCs]
      BY <2>1 DEF Move, PCs
    <3>2. claimed' = claimed /\ todo' = todo \ {v}
      BY <2>1 DEF TakeIteration
    <3> QED
      BY <3>1, <3>2
  <2>7. active' \in [Vertices -> BOOLEAN] /\ ip_active_vertices' \in Nat
    BY <2>1, <2>2, <2>3
  <2>8. partial' \in [Threads -> Nat]
    BY <2>1, <2>2, <2>3
  <2> QED
    BY <2>4, <2>5, <2>6, <2>7, <2>8
<1>3. ASSUME NEW v \in Vertices, PassVertex(t, v) PROVE TypeOK'
  <2>1. Move(t, "compute", "compute") /\ TakeIteration(v)
        /\ UNCHANGED <<engineVars, active, countVars>>
    BY <1>3 DEF PassVertex
  <2>2. OutboxTypeOK'
    BY <1>3 DEF PassVertex, OutboxTypeOK
  <2>3. pc' \in [Threads -> PCs] /\ claimed' \in BOOLEAN /\ todo' \in SUBSET Vertices
    <3>1. pc' \in [Threads -> PCs]
      BY <2>1 DEF Move, PCs
    <3>2. claimed' = claimed /\ todo' = todo \ {v}
      BY <2>1 DEF TakeIteration
    <3> QED
      BY <3>1, <3>2
  <2> QED
    BY <2>1, <2>2, <2>3, EngineUnchanged DEF countVars
<1>4. ASSUME NEW v \in Vertices, FetchVertex(t, v) PROVE TypeOK'
  <2>1. Move(t, "fetch", "fetch") /\ TakeIteration(v) /\ Fetch(v) /\ UNCHANGED partial
    BY <1>4 DEF FetchVertex
  <2>2. EngineTypeOK'
    <3>1. Broadcasters(v) # {} => FetchedMessage(v) \in Messages
      BY MessageFetched
    <3> QED
      BY <2>1, <3>1 DEF Fetch, EngineTypeOK, jobVars, historyVars
  <2>3. OutboxTypeOK'
    BY <2>1, OutboxUnchanged DEF Fetch
  <2>4. pc' \in [Threads -> PCs] /\ claimed' \in BOOLEAN /\ todo' \in SUBSET Vertices
    <3>1. pc' \in [Threads -> PCs]
      BY <2>1 DEF Move, PCs
    <3>2. claimed' = claimed /\ todo' = todo \ {v}
      BY <2>1 DEF TakeIteration
    <3> QED
      BY <3>1, <3>2
  <2>5. ip_active_vertices' \in Nat /\ active' \in [Vertices -> BOOLEAN]
    <3>1. \/ ip_active_vertices' = ip_active_vertices + 1 /\ active' = [active EXCEPT ![v] = TRUE]
          \/ UNCHANGED <<ip_active_vertices, active>>
      BY <1>4 DEF FetchVertex
    <3>2. ip_active_vertices' \in Nat
      BY <3>1
    <3>3. active' \in [Vertices -> BOOLEAN]
      BY <3>1
    <3> QED
      BY <3>2, <3>3
  <2> QED
    BY <2>1, <2>2, <2>3, <2>4, <2>5
<1> QED
  BY <1>1, <1>2, <1>3, <1>4 DEF ThreadStep

\* So do the barriers.
LEMMA BarrierStepTyped ==
  ASSUME TypeOK, BarrierStep PROVE TypeOK'
<1> USE DEF TypeOK
<1>1. PICK from \in PCs, to \in PCs, iterations \in SUBSET Vertices :
        Barrier(from, to, iterations)
  BY DEF BarrierStep, EnterLoop, BeginCompute, BeginFetch, BeginFinish, NextIteration, PCs
<1>2. pc' \in [Threads -> PCs] /\ claimed' \in BOOLEAN /\ todo' \in SUBSET Vertices
  BY <1>1 DEF Barrier
<1>3. EngineTypeOK'
  <2>1. PICK t \in Threads : TRUE
    BY ThreadsAssumption
  <2> QED
    BY <2>1, EngineUnchanged, EngineStepsTyped
       DEF BarrierStep, EnterLoop, BeginCompute, BeginFetch, BeginFinish, NextIteration
<1>4. OutboxTypeOK' /\ UNCHANGED <<active, ip_active_vertices, partial>>
  BY OutboxUnchanged
     DEF BarrierStep, EnterLoop, BeginCompute, BeginFetch, BeginFinish, NextIteration, countVars
<1> QED
  BY <1>2, <1>3, <1>4

\* Every step keeps to the types.
LEMMA NextTyped ==
  ASSUME ProgramTyped, CombineClosed, TypeOK, [Next]_vars
  PROVE  TypeOK'
<1>1. CASE UNCHANGED vars
  BY <1>1, EngineUnchanged, OutboxUnchanged DEF vars, teamVars, countVars, TypeOK
<1> QED
  BY <1>1, ThreadStepTyped, BarrierStepTyped DEF Next

\* The values of the variables keep to their types: the messages that a vertex
\* fetches from its in-neighbours and combines are messages.
THEOREM SingleBroadcastTyped ==
  ASSUME ProgramTyped, CombineClosed PROVE Spec => []TypeOK
<1>1. Init => TypeOK
  BY InitTyped
<1>2. TypeOK /\ [Next]_vars => TypeOK'
  BY NextTyped
<1> QED
  BY <1>1, <1>2, PTL DEF Spec

------------------------------------------------------------------------------
(* CountInv is inductive, given the types.                                 *)

\* CountInv holds initially...
LEMMA CountInitInv == Init => CountInv
<1> SUFFICES ASSUME Init PROVE CountInv
  OBVIOUS
<1>1. /\ \A u \in Threads : pc[u] = "while" /\ partial[u] = 0
      /\ todo = {} /\ \A v \in Vertices : active[v]
      /\ ip_active_vertices = Cardinality(Vertices)
  BY DEF Init, TeamInit
<1>2. \A u \in Threads : pc[u] \in HeadLabels
  BY <1>1, LabelNames
<1>3. ~AnyAt(StartLabels) /\ ~AnyAt(ComputeLabels) /\ SamePhase
  BY <1>2, PhaseTests, PhaseNames DEF AnyAt, SamePhase, Together
<1>4. Tally = Vertices
  BY <1>1, <1>3 DEF Tally
<1>5. Counts(Vertices, Cardinality(Vertices), partial)
  BY <1>1, CountMerged
<1> QED
  BY <1>1, <1>3, <1>4, <1>5
     DEF CountInv, SingleEntered, NobodyLeavesWork, SharesAdded, CountExact, AnyAt, StartLabels

\* With no thread inside a loop, no iteration is left and no share is pending.
LEMMA OutsideLoops ==
  ASSUME CountInv, \A u \in Threads : pc[u] \notin LoopLabels
  PROVE  todo = {} /\ \A u \in Threads : partial[u] = 0
BY DEF CountInv, NobodyLeavesWork, SharesAdded, AnyAt, LoopLabels

\* The count is exact where the counting is.
LEMMA CountBecomes ==
  ASSUME ~AnyAt(StartLabels)', NEW tally, NEW total, NEW shares, Counts(tally, total, shares),
         Tally' = tally, ip_active_vertices' = total, partial' = shares
  PROVE  CountExact'
BY DEF CountExact, Counts, StartLabels

\* The count stays exact while nothing that it depends on changes.
LEMMA CountKept ==
  ASSUME ~AnyAt(StartLabels), ~AnyAt(StartLabels)', CountExact, Tally' = Tally,
         UNCHANGED <<ip_active_vertices, partial>>
  PROVE  CountExact'
BY DEF CountExact, Counts, StartLabels

\* The steps outside the loops.
LEMMA CountHead ==
  ASSUME TypeOK, CountInv, NEW t \in Threads,
         While(t) \/ StartSingle(t) \/ SkipStart(t) \/ EndSuperstep(t)
  PROVE  CountInv'
<1>1. UNCHANGED <<todo, active, partial>>
  BY DEF While, StartSingle, SkipStart, EndSuperstep, FinishSingle, SkipFinish, EnterSingle,
     SkipSingle, countVars
<1>2. CASE While(t)
  <2> DEFINE to == IF ip_active_vertices # 0 THEN "entered" ELSE "exit"
  <2>1. Move(t, "while", to) /\ UNCHANGED <<claimed, ip_active_vertices>>
    BY <1>2 DEF While, countVars
  <2>2. to \in HeadLabels
    BY LabelNames
  <2> HIDE DEF to
  <2>3. /\ \A u \in Threads : pc[u] \in HeadLabels /\ pc'[u] \in HeadLabels
        /\ ~AnyAt(StartLabels) /\ ~AnyAt(StartLabels)' /\ SamePhase'
        /\ ~AnyAt(ComputeLabels) /\ ~AnyAt(ComputeLabels)'
    BY <2>1, <2>2, MoveTests, PhaseNames, LabelNames DEF CountInv
  <2>4. todo = {} /\ \A u \in Threads : partial[u] = 0
    BY <2>3, OutsideLoops DEF LoopLabels, HeadLabels
  <2>5. Tally' = Tally
    BY <1>1, <2>3 DEF Tally
  <2>6. CountExact'
    BY <1>1, <2>1, <2>3, <2>5, CountKept DEF CountInv
  <2> QED
    BY <1>1, <2>3, <2>4, <2>6
       DEF CountInv, SingleEntered, NobodyLeavesWork, SharesAdded, AnyAt, HeadLabels
<1>3. CASE StartSingle(t) \/ SkipStart(t)
  <2>1. Move(t, "start", "start_done") /\ claimed'
    BY <1>3 DEF StartSingle, SkipStart, EnterSingle, SkipSingle
  <2>2. /\ \A u \in Threads : pc[u] \in StartLabels /\ pc'[u] \in StartLabels
        /\ AnyAt(StartLabels) /\ AnyAt(StartLabels)' /\ SamePhase'
    BY <2>1, MoveTests, PhaseNames, LabelNames DEF CountInv
  <2>3. todo = {} /\ \A u \in Threads : partial[u] = 0
    BY <2>2, OutsideLoops DEF LoopLabels, StartLabels
  <2>4. ip_active_vertices' = 0
    BY <1>3, <2>2 DEF StartSingle, SkipStart, SkipSingle, countVars, CountInv, CountExact,
       StartLabels
  <2> QED
    BY <1>1, <2>1, <2>2, <2>3, <2>4
       DEF CountInv, SingleEntered, NobodyLeavesWork, SharesAdded, CountExact, StartLabels
<1>4. CASE EndSuperstep(t)
  <2>1. Move(t, "finish", "finish_done") /\ claimed' /\ UNCHANGED ip_active_vertices
    BY <1>4 DEF EndSuperstep, FinishSingle, SkipFinish, EnterSingle, SkipSingle, countVars
  <2>2. /\ \A u \in Threads : pc[u] \in FinishLabels /\ pc'[u] \in FinishLabels
        /\ ~AnyAt(StartLabels) /\ ~AnyAt(StartLabels)' /\ SamePhase'
        /\ ~AnyAt(ComputeLabels) /\ ~AnyAt(ComputeLabels)'
    BY <2>1, MoveTests, PhaseNames, LabelNames DEF CountInv
  <2>3. todo = {} /\ \A u \in Threads : partial[u] = 0
    BY <2>2, OutsideLoops DEF LoopLabels, FinishLabels
  <2>4. Tally' = Tally
    BY <1>1, <2>2 DEF Tally
  <2>5. CountExact'
    BY <1>1, <2>1, <2>2, <2>4, CountKept DEF CountInv
  <2> QED
    BY <1>1, <2>1, <2>2, <2>3, <2>5 DEF CountInv, SingleEntered, NobodyLeavesWork, SharesAdded
<1> QED
  BY <1>2, <1>3, <1>4

\* The barriers.  The one before the compute loop finds the counter at 0, since some
\* thread has executed the single region that resets it.
LEMMA CountBarrier ==
  ASSUME CountInv, BarrierStep
  PROVE  CountInv'
<1>1. UNCHANGED <<active, ip_active_vertices, partial>>
  BY DEF BarrierStep, EnterLoop, BeginCompute, BeginFetch, BeginFinish, NextIteration, countVars
<1>2. CASE EnterLoop
  <2>1. /\ \A u \in Threads : pc[u] = "entered" /\ pc'[u] = "start"
        /\ claimed' = FALSE /\ todo' = {} /\ AnyAt(StartLabels)' /\ SamePhase'
    <3>1. Barrier("entered", "start", {})
      BY <1>2 DEF EnterLoop
    <3> QED
      BY <3>1, BarrierTests, PhaseNames, LabelNames
  <2>2. \A u \in Threads : partial[u] = 0
    BY <2>1, OutsideLoops DEF LoopLabels
  <2> QED
    BY <1>1, <2>1, <2>2 DEF CountInv, SingleEntered, NobodyLeavesWork, SharesAdded, CountExact,
       StartLabels, AnyAt
<1>3. CASE BeginCompute
  <2>1. /\ \A u \in Threads : pc[u] = "start_done" /\ pc'[u] = "compute"
        /\ claimed' = FALSE /\ todo' = Vertices /\ AnyAt(StartLabels) /\ ~AnyAt(StartLabels)'
        /\ AnyAt(ComputeLabels)' /\ SamePhase'
    <3>1. Barrier("start_done", "compute", Vertices)
      BY <1>3 DEF BeginCompute
    <3> QED
      BY <3>1, BarrierTests, PhaseNames, LabelNames
  <2>2. \A u \in Threads : partial[u] = 0
    BY <2>1, OutsideLoops DEF LoopLabels
  <2>3. ip_active_vertices = 0
    BY <2>1, ThreadsAssumption DEF CountInv, SingleEntered, CountExact, StartLabels, AnyAt
  <2>4. Tally' = {}
    BY <2>1 DEF Tally
  <2>5. Counts({}, 0, partial)
    BY <2>2, CountNothing
  <2>6. CountExact'
    BY <1>1, <2>1, <2>3, <2>4, <2>5, CountBecomes
  <2>7. AnyAt(LoopLabels)'
    BY <2>1, ThreadsAssumption DEF AnyAt, LoopLabels
  <2> QED
    BY <1>1, <2>1, <2>2, <2>6, <2>7
       DEF CountInv, SingleEntered, NobodyLeavesWork, SharesAdded, AnyAt
<1>4. CASE BeginFetch
  <2>1. /\ \A u \in Threads : pc[u] = "compute_done" /\ pc'[u] = "fetch"
        /\ claimed' = FALSE /\ todo' = Vertices /\ ~AnyAt(StartLabels) /\ ~AnyAt(StartLabels)'
        /\ ~AnyAt(ComputeLabels)' /\ SamePhase'
    <3>1. /\ Barrier("compute_done", "fetch", Vertices)
          /\ "compute_done" \in ComputeLabels /\ "fetch" \in FetchLabels
      BY <1>4, LabelNames DEF BeginFetch
    <3>2. /\ \A u \in Threads : pc[u] = "compute_done" /\ pc'[u] = "fetch"
          /\ claimed' = FALSE /\ todo' = Vertices /\ SamePhase'
          /\ AnyAt(StartLabels) <=> ComputeLabels = StartLabels
          /\ AnyAt(StartLabels)' <=> FetchLabels = StartLabels
          /\ AnyAt(ComputeLabels) <=> ComputeLabels = ComputeLabels
          /\ AnyAt(ComputeLabels)' <=> FetchLabels = ComputeLabels
      BY <3>1, BarrierTests, PhaseNames
    <3> QED
      BY <3>2, PhaseNames
  <2>2. todo = {} /\ \A u \in Threads : partial[u] = 0
    BY <2>1, OutsideLoops DEF LoopLabels
  <2>3. Tally' = Tally
    BY <1>1, <2>1, <2>2 DEF Tally
  <2>4. CountExact'
    BY <1>1, <2>1, <2>3, CountKept DEF CountInv
  <2>5. AnyAt(LoopLabels)'
    BY <2>1, ThreadsAssumption DEF AnyAt, LoopLabels
  <2> QED
    BY <1>1, <2>1, <2>2, <2>4, <2>5
       DEF CountInv, SingleEntered, NobodyLeavesWork, SharesAdded, AnyAt
<1>5. CASE BeginFinish \/ NextIteration
  <2>1. PICK from \in {"fetch_done", "finish_done"}, to \in {"finish", "while"} :
          /\ \A u \in Threads : pc[u] = from /\ pc'[u] = to
          /\ claimed' = FALSE /\ todo' = {} /\ ~AnyAt(StartLabels) /\ ~AnyAt(StartLabels)'
          /\ ~AnyAt(ComputeLabels) /\ ~AnyAt(ComputeLabels)' /\ SamePhase'
    <3>1. CASE BeginFinish
      <4>1. /\ Barrier("fetch_done", "finish", {})
            /\ "fetch_done" \in FetchLabels /\ "finish" \in FinishLabels
        BY <3>1, LabelNames DEF BeginFinish
      <4>2. /\ \A u \in Threads : pc[u] = "fetch_done" /\ pc'[u] = "finish"
            /\ claimed' = FALSE /\ todo' = {} /\ SamePhase'
            /\ AnyAt(StartLabels) <=> FetchLabels = StartLabels
            /\ AnyAt(StartLabels)' <=> FinishLabels = StartLabels
            /\ AnyAt(ComputeLabels) <=> FetchLabels = ComputeLabels
            /\ AnyAt(ComputeLabels)' <=> FinishLabels = ComputeLabels
        BY <4>1, BarrierTests, PhaseNames
      <4> QED
        BY <4>2, PhaseNames
    <3>2. CASE NextIteration
      <4>1. /\ Barrier("finish_done", "while", {})
            /\ "finish_done" \in FinishLabels /\ "while" \in HeadLabels
        BY <3>2, LabelNames DEF NextIteration
      <4>2. FinishLabels \in Phases /\ HeadLabels \in Phases
        BY PhaseNames
      <4>3. /\ \A u \in Threads : pc[u] = "finish_done" /\ pc'[u] = "while"
            /\ claimed' = FALSE /\ todo' = {}
        BY <4>1 DEF Barrier, AllAt
      <4>4. SamePhase'
        BY <4>1, <4>2, BarrierTests
      <4>5. /\ AnyAt(StartLabels) <=> FinishLabels = StartLabels
            /\ AnyAt(StartLabels)' <=> HeadLabels = StartLabels
            /\ AnyAt(ComputeLabels) <=> FinishLabels = ComputeLabels
            /\ AnyAt(ComputeLabels)' <=> HeadLabels = ComputeLabels
        BY <4>1, <4>2, BarrierTests
      <4> QED
        BY <4>3, <4>4, <4>5, PhaseNames
    <3> QED
      BY <1>5, <3>1, <3>2
  <2>2. \A u \in Threads : partial[u] = 0
    BY <2>1, OutsideLoops DEF LoopLabels
  <2>3. Tally' = Tally
    BY <1>1, <2>1 DEF Tally
  <2>4. CountExact'
    BY <1>1, <2>1, <2>3, CountKept DEF CountInv
  <2> QED
    BY <1>1, <2>1, <2>2, <2>4 DEF CountInv, SingleEntered, NobodyLeavesWork, SharesAdded, AnyAt
<1> QED
  BY <1>2, <1>3, <1>4, <1>5 DEF BarrierStep

\* An iteration of the compute loop counts its vertex if it stays active.
LEMMA CountCompute ==
  ASSUME ProgramTyped, TypeOK, CountInv, NEW t \in Threads, NEW v \in Vertices,
         ComputeVertex(t, v) \/ PassVertex(t, v)
  PROVE  CountInv'
<1>1. /\ Move(t, "compute", "compute")
      /\ v \in todo /\ todo' = todo \ {v} /\ UNCHANGED ip_active_vertices
  BY DEF ComputeVertex, PassVertex, TakeIteration, countVars
<1>2. /\ ~AnyAt(StartLabels) /\ ~AnyAt(StartLabels)' /\ SamePhase'
      /\ AnyAt(ComputeLabels) /\ AnyAt(ComputeLabels)'
      /\ \A u \in Threads : pc'[u] \in ComputeLabels
      /\ \A u \in Threads \ {t} : pc'[u] = pc[u]
      /\ pc'[t] = "compute"
  BY <1>1, MoveTests, PhaseNames, LabelNames DEF CountInv
<1>3. active \in [Vertices -> BOOLEAN] /\ partial \in [Threads -> Nat] /\ todo \subseteq Vertices
  BY DEF TypeOK
<1>4. SingleEntered' /\ NobodyLeavesWork'
  BY <1>2 DEF SingleEntered, NobodyLeavesWork, AnyAt, ComputeLabels, LoopLabels
<1>5. \A u \in Threads \ {t} : partial'[u] = partial[u]
  BY <1>3 DEF ComputeVertex, PassVertex, countVars
<1>6. SharesAdded'
  BY <1>2, <1>5 DEF SharesAdded, CountInv
<1>7. Tally \in SUBSET Vertices /\ v \notin Tally /\ Counts(Tally, ip_active_vertices, partial)
  BY <1>1, <1>2 DEF Tally, CountInv, CountExact, StartLabels
<1>8. CASE \/ active'[v] = FALSE /\ active' = [active EXCEPT ![v] = FALSE] /\ partial' = partial
           \/ active' = active /\ partial' = partial /\ ~active[v]
  <2>1. Tally' = Tally /\ partial' = partial
    BY <1>1, <1>2, <1>3, <1>8 DEF Tally
  <2>2. CountExact'
    BY <1>1, <1>2, <2>1, CountKept DEF CountInv
  <2> QED
    BY <1>2, <1>4, <1>6, <2>2 DEF CountInv
<1>9. CASE active' = [active EXCEPT ![v] = TRUE] /\ partial' = [partial EXCEPT ![t] = @ + 1]
  <2>1. Tally' = Tally \cup {v}
    BY <1>1, <1>2, <1>3, <1>9 DEF Tally
  <2>2. Counts(Tally \cup {v}, ip_active_vertices, [partial EXCEPT ![t] = @ + 1])
    BY <1>3, <1>7, CountInShare
  <2>3. CountExact'
    BY <1>1, <1>2, <1>9, <2>1, <2>2, CountBecomes
  <2> QED
    BY <1>2, <1>4, <1>6, <2>3 DEF CountInv
<1>10. CASE PassVertex(t, v)
  BY <1>8, <1>10 DEF PassVertex, countVars
<1>11. CASE ComputeVertex(t, v)
  <2>1. PICK outcome \in Outcomes(v) :
          /\ active' = [active EXCEPT ![v] = ~outcome.halts]
          /\ partial' = [partial EXCEPT ![t] = IF outcome.halts THEN @ ELSE @ + 1]
    BY <1>11 DEF ComputeVertex
  <2>2. outcome.halts \in BOOLEAN
    BY OutcomeTyped DEF TypeOK
  <2>3. CASE outcome.halts
    <3>1. active' = [active EXCEPT ![v] = FALSE] /\ partial' = partial
      BY <1>3, <2>1, <2>3
    <3> QED
      BY <1>3, <1>8, <3>1
  <2>4. CASE ~outcome.halts
    <3>1. active' = [active EXCEPT ![v] = TRUE] /\ partial' = [partial EXCEPT ![t] = @ + 1]
      BY <2>1, <2>4
    <3> QED
      BY <1>9, <3>1
  <2> QED
    BY <2>2, <2>3, <2>4
<1> QED
  BY <1>10, <1>11

\* At the end of the compute loop, a thread's share goes into the counter.
LEMMA CountLeave ==
  ASSUME TypeOK, CountInv, NEW t \in Threads, LeaveCompute(t)
  PROVE  CountInv'
<1>1. /\ Move(t, "compute", "compute_done")
      /\ todo = {} \/ \E u \in Threads \ {t} : pc[u] \in {"compute"}
      /\ UNCHANGED <<claimed, todo, active>>
      /\ ip_active_vertices' = ip_active_vertices + partial[t]
      /\ partial' = [partial EXCEPT ![t] = 0]
  BY DEF LeaveCompute, LeaveLoop
<1>2. /\ ~AnyAt(StartLabels) /\ ~AnyAt(StartLabels)' /\ SamePhase'
      /\ AnyAt(ComputeLabels) /\ AnyAt(ComputeLabels)'
      /\ \A u \in Threads : pc'[u] \in ComputeLabels
      /\ \A u \in Threads \ {t} : pc'[u] = pc[u]
      /\ pc'[t] = "compute_done"
  BY <1>1, MoveTests, PhaseNames, LabelNames DEF CountInv
<1>3. partial \in [Threads -> Nat]
  BY DEF TypeOK
<1>4. SingleEntered' /\ NobodyLeavesWork' /\ SharesAdded'
  BY <1>1, <1>2, <1>3
     DEF SingleEntered, NobodyLeavesWork, SharesAdded, AnyAt, ComputeLabels, LoopLabels, CountInv
<1>5. Tally \in SUBSET Vertices /\ Counts(Tally, ip_active_vertices, partial)
  BY <1>2 DEF Tally, CountInv, CountExact, StartLabels
<1>6. Counts(Tally, ip_active_vertices + partial[t], [partial EXCEPT ![t] = 0])
  BY <1>3, <1>5, CountShareAdded
<1>7. Tally' = Tally
  BY <1>1, <1>2 DEF Tally
<1>8. CountExact'
  BY <1>1, <1>2, <1>6, <1>7, CountBecomes
<1> QED
  BY <1>2, <1>4, <1>8 DEF CountInv

\* An iteration of the fetch loop counts a vertex that was not active, and no other.
LEMMA CountFetch ==
  ASSUME TypeOK, CountInv, NEW t \in Threads, NEW v \in Vertices,
         FetchVertex(t, v) \/ LeaveFetch(t)
  PROVE  CountInv'
<1>1. PICK to \in FetchLabels :
        /\ Move(t, "fetch", to) /\ partial' = partial
        /\ to = "fetch" \/ todo' = {} \/ \E u \in Threads \ {t} : pc[u] \in {"fetch"}
  BY LabelNames DEF FetchVertex, LeaveFetch, LeaveLoop, countVars
<1>2. /\ ~AnyAt(StartLabels) /\ ~AnyAt(StartLabels)' /\ SamePhase'
      /\ ~AnyAt(ComputeLabels) /\ ~AnyAt(ComputeLabels)'
      /\ \A u \in Threads : pc[u] \in FetchLabels /\ pc'[u] \in FetchLabels
      /\ \A u \in Threads \ {t} : pc'[u] = pc[u]
      /\ pc'[t] = to
  BY <1>1, MoveTests, PhaseNames, LabelNames DEF CountInv
<1>3. SingleEntered' /\ NobodyLeavesWork'
  BY <1>1, <1>2 DEF SingleEntered, NobodyLeavesWork, AnyAt, FetchLabels, LoopLabels
<1>4. SharesAdded'
  BY <1>1, <1>2 DEF SharesAdded, FetchLabels, CountInv
<1>5. active \in [Vertices -> BOOLEAN] /\ partial \in [Threads -> Nat]
  BY DEF TypeOK
<1>6. Tally \in SUBSET Vertices /\ Counts(Tally, ip_active_vertices, partial)
  BY <1>2 DEF Tally, CountInv, CountExact, StartLabels
<1>7. CASE UNCHANGED <<ip_active_vertices, active>>
  <2>1. Tally' = Tally
    BY <1>2, <1>7 DEF Tally
  <2>2. CountExact'
    BY <1>1, <1>2, <1>7, <2>1, CountKept DEF CountInv
  <2> QED
    BY <1>2, <1>3, <1>4, <2>2 DEF CountInv
<1>8. CASE /\ ~active[v]
           /\ ip_active_vertices' = ip_active_vertices + 1
           /\ active' = [active EXCEPT ![v] = TRUE]
  <2>1. Tally' = Tally \cup {v} /\ v \notin Tally
    BY <1>2, <1>5, <1>8 DEF Tally
  <2>2. Counts(Tally \cup {v}, ip_active_vertices + 1, partial)
    BY <1>5, <1>6, <2>1, CountInTotal
  <2>3. CountExact'
    BY <1>1, <1>2, <1>8, <2>1, <2>2, CountBecomes
  <2> QED
    BY <1>2, <1>3, <1>4, <2>3 DEF CountInv
<1> QED
  BY <1>7, <1>8 DEF FetchVertex, LeaveFetch, countVars

\* Every step keeps the count exact.
LEMMA CountNextInv ==
  ASSUME ProgramTyped, TypeOK, CountInv, [Next]_vars
  PROVE  CountInv'
<1>1. ASSUME NEW t \in Threads, ThreadStep(t) PROVE CountInv'
  <2>1. CASE LeaveFetch(t)
    BY <2>1, CountFetch, VerticesAssumption
  <2> QED
    BY <1>1, <2>1, CountHead, CountCompute, CountLeave, CountFetch DEF ThreadStep
<1>2. CASE BarrierStep
  BY <1>2, CountBarrier
<1>3. CASE UNCHANGED vars
  <2> USE <1>3 DEF vars, teamVars, countVars, engineVars
  <2>1. Tally' = Tally
    BY DEF Tally, AnyAt
  <2> QED
    BY <2>1 DEF CountInv, SamePhase, Together, SingleEntered, NobodyLeavesWork, SharesAdded,
       CountExact, Counts, AnyAt
<1> QED
  BY <1>1, <1>2, <1>3 DEF Next

\* At the head of the loop every share has been added.
LEMMA CountAtHead ==
  ASSUME CountInv PROVE ActiveCount
<1> SUFFICES ASSUME NEW t \in Threads, pc[t] \in {"while", "entered", "exit"}
             PROVE  ip_active_vertices = Cardinality({v \in Vertices : active[v]})
  BY DEF ActiveCount, AnyAt
<1>1. \A u \in Threads : pc[u] \in HeadLabels
  BY PhasesApart, PhaseOf, PhaseNames DEF CountInv, SamePhase, HeadLabels
<1>2. ~AnyAt(StartLabels) /\ ~AnyAt(ComputeLabels)
  BY <1>1, PhaseTests, PhaseNames DEF AnyAt
<1>3. \A u \in Threads : partial[u] = 0
  BY <1>1, OutsideLoops DEF LoopLabels, HeadLabels
<1>4. Tally = {v \in Vertices : active[v]}
  BY <1>2 DEF Tally
<1>5. Counts(Tally, ip_active_vertices, partial)
  BY <1>2 DEF CountInv, CountExact, StartLabels
<1> QED
  BY <1>3, <1>4, <1>5, CountComplete DEF Tally

\* The counter is exact in every reachable state.
LEMMA CountInvariant ==
  ASSUME ProgramTyped, CombineClosed PROVE Spec => [](TypeOK /\ CountInv)
<1>1. Init => TypeOK /\ CountInv
  BY InitTyped, CountInitInv
<1>2. TypeOK /\ CountInv /\ [Next]_vars => (TypeOK /\ CountInv)'
  BY NextTyped, CountNextInv
<1> QED
  BY <1>1, <1>2, PTL DEF Spec

\* The counter that the threads test at the head of the loop is the number of active
\* vertices: the reduction over the compute loop and the atomic increments of the
\* fetch loop together count each of them once, for every graph and team of threads.
THEOREM SingleBroadcastCounterExact ==
  ASSUME ProgramTyped, CombineClosed PROVE Spec => []ActiveCount
<1>1. TypeOK /\ CountInv => ActiveCount
  BY CountAtHead
<1> QED
  BY <1>1, CountInvariant, PTL

------------------------------------------------------------------------------
(* FetchInv is inductive, given the types and CountInv.                    *)

\* What a vertex finds in the outboxes of its in-neighbours is what they broadcast.
LEMMA EverythingReceived ==
  ASSUME OrderFree, TypeOK, InNeighboursKept, NEW d \in Vertices,
         \A u \in Vertices : Outgoing(u) = sent[u]
  PROVE  /\ Broadcasters(d) # {} <=> Received(out_neighbours, sent, d) # None
         /\ Broadcasters(d) # {} => FetchedMessage(d) = Received(out_neighbours, sent, d)
<1>1. out_neighbours \in [Vertices -> Seq(Vertices)]
  BY JobsAssumption DEF TypeOK, EngineTypeOK, jobVars
<1>2. in_neighbours[d] = InNeighboursOf(out_neighbours, d)
  BY DEF InNeighboursKept
<1>3. \A u \in Vertices : has_broadcast_message[u] => broadcast_message[u] \in Messages
  BY DEF TypeOK, OutboxTypeOK
<1>4. \A u \in Vertices :
        sent[u] = IF has_broadcast_message[u] THEN broadcast_message[u] ELSE None
  BY DEF Outgoing
<1>5. /\ Senders(in_neighbours[d], has_broadcast_message) # {}
           <=> Received(out_neighbours, sent, d) # None
      /\ Senders(in_neighbours[d], has_broadcast_message) # {}
           => CombinedFrom(in_neighbours[d], has_broadcast_message, broadcast_message)
                = Received(out_neighbours, sent, d)
  BY <1>1, <1>2, <1>3, <1>4, FetchReceives, SMTT(60)
<1> QED
  BY <1>5 DEF Broadcasters, FetchedMessage

\* FetchInv holds initially: nothing has been broadcast.
LEMMA FetchInitInv == Init => FetchInv
<1> SUFFICES ASSUME Init PROVE FetchInv
  OBVIOUS
<1>1. \A u \in Threads : pc[u] = "while"
  BY DEF Init, TeamInit
<1>2. \A v \in Vertices : Outgoing(v) = sent[v]
  BY DEF Init, EngineInit, OutboxInit, Outgoing, Nothing
<1> QED
  BY <1>1, <1>2, InitTyped
     DEF FetchInv, OutboxCurrent, RunsOnce, SomeActive, Fetched, AnyAt, ComputeLabels

\* What FetchInv is about stays as it was.
Still ==
  UNCHANGED <<out_neighbours, in_neighbours, has_broadcast_message, broadcast_message, sent, ran,
              active, has_message, message>>

\* The steps that leave it as it was, between the loops.
LEMMA FetchQuiet ==
  ASSUME FetchInv, Still, ~AnyAt(ComputeLabels), ~AnyAt(ComputeLabels)',
         ~AnyAt(FetchLabels)', SomeActive'
  PROVE  FetchInv'
BY DEF FetchInv, Still, InNeighboursKept, OutboxCurrent, RunsOnce, Fetched, Outgoing, FetchLabels

\* The steps outside the loops.
LEMMA FetchHead ==
  ASSUME TypeOK, CountInv, FetchInv, NEW t \in Threads,
         While(t) \/ StartSingle(t) \/ SkipStart(t) \/ EndSuperstep(t)
  PROVE  FetchInv'
<1>1. Still
  BY DEF While, StartSingle, SkipStart, EndSuperstep, FinishSingle, SkipFinish, engineVars,
     jobVars, boxVars, historyVars, outboxVars, Still
<1>2. CASE While(t)
  <2> DEFINE to == IF ip_active_vertices # 0 THEN "entered" ELSE "exit"
  <2>1. Move(t, "while", to)
    BY <1>2 DEF While
  <2>2. to \in HeadLabels /\ (to = "entered" => ip_active_vertices # 0)
    BY LabelNames
  <2> HIDE DEF to
  <2>3. /\ ~AnyAt(ComputeLabels) /\ ~AnyAt(ComputeLabels)' /\ ~AnyAt(FetchLabels)'
        /\ \A u \in Threads : pc'[u] \in HeadLabels
        /\ \A u \in Threads \ {t} : pc'[u] = pc[u]
        /\ pc[t] = "while" /\ pc'[t] = to
    BY <2>1, <2>2, MoveTests, PhaseNames, LabelNames DEF CountInv
  <2>4. to = "entered" => \E v \in Vertices : active[v]
    <3> SUFFICES ASSUME to = "entered", \A v \in Vertices : ~active[v] PROVE FALSE
      OBVIOUS
    <3>1. ip_active_vertices = Cardinality({v \in Vertices : active[v]})
      BY <2>3, CountAtHead DEF ActiveCount, AnyAt
    <3>2. {v \in Vertices : active[v]} = {}
      OBVIOUS
    <3> QED
      BY <2>2, <3>1, <3>2, FS_EmptySet
  <2>5. SomeActive'
    <3> SUFFICES ASSUME NEW u \in Threads, pc'[u] \in {"entered", "start", "start_done"}
                 PROVE  \E v \in Vertices : active[v]
      BY <1>1 DEF SomeActive, AnyAt, Still
    <3>1. CASE u = t
      BY <2>3, <2>4, <3>1 DEF HeadLabels
    <3>2. CASE u # t
      BY <2>3, <3>2 DEF FetchInv, SomeActive, AnyAt
    <3> QED
      BY <3>1, <3>2
  <2> QED
    BY <1>1, <2>3, <2>5, FetchQuiet
<1>3. CASE StartSingle(t) \/ SkipStart(t)
  <2>1. Move(t, "start", "start_done")
    BY <1>3 DEF StartSingle, SkipStart, EnterSingle, SkipSingle
  <2>2. /\ ~AnyAt(ComputeLabels) /\ ~AnyAt(ComputeLabels)' /\ ~AnyAt(FetchLabels)'
        /\ pc[t] = "start"
    BY <2>1, MoveTests, PhaseNames, LabelNames DEF CountInv
  <2>3. SomeActive'
    BY <1>1, <2>2 DEF FetchInv, SomeActive, AnyAt, Still
  <2> QED
    BY <1>1, <2>2, <2>3, FetchQuiet
<1>4. CASE EndSuperstep(t)
  <2>1. Move(t, "finish", "finish_done")
    BY <1>4 DEF EndSuperstep, FinishSingle, SkipFinish, EnterSingle, SkipSingle
  <2>2. /\ ~AnyAt(ComputeLabels) /\ ~AnyAt(ComputeLabels)' /\ ~AnyAt(FetchLabels)'
        /\ \A u \in Threads : pc'[u] \in FinishLabels
    BY <2>1, MoveTests, PhaseNames, LabelNames DEF CountInv
  <2>3. SomeActive'
    BY <2>2 DEF SomeActive, AnyAt, FinishLabels
  <2> QED
    BY <1>1, <2>2, <2>3, FetchQuiet
<1> QED
  BY <1>2, <1>3, <1>4

\* The barriers.
LEMMA FetchBarrier ==
  ASSUME CountInv, FetchInv, BarrierStep
  PROVE  FetchInv'
<1>1. CASE EnterLoop \/ BeginFinish \/ NextIteration
  <2>1. Still
    BY <1>1 DEF EnterLoop, BeginFinish, NextIteration, engineVars, jobVars, boxVars, historyVars,
       outboxVars, Still
  <2>2. PICK from \in {"entered", "fetch_done", "finish_done"}, to \in {"start", "finish", "while"} :
          /\ \A u \in Threads : pc[u] = from /\ pc'[u] = to
          /\ to = "start" => from = "entered"
    BY <1>1 DEF EnterLoop, BeginFinish, NextIteration, Barrier, AllAt
  <2>3. ~AnyAt(ComputeLabels) /\ ~AnyAt(ComputeLabels)' /\ ~AnyAt(FetchLabels)'
    BY <2>2 DEF AnyAt, ComputeLabels, FetchLabels
  <2>4. SomeActive'
    BY <2>1, <2>2 DEF FetchInv, SomeActive, AnyAt, Still
  <2> QED
    BY <2>1, <2>3, <2>4, FetchQuiet
<1>2. CASE BeginCompute
  <2>1. /\ \A u \in Threads : pc[u] = "start_done" /\ pc'[u] = "compute"
        /\ todo' = Vertices /\ sent' = Nothing /\ ran' = {}
        /\ UNCHANGED <<out_neighbours, in_neighbours, active>>
    BY <1>2 DEF BeginCompute, NewHistory, Barrier, AllAt, jobVars, outboxVars
  <2>2. \E v \in Vertices : active[v]
    BY <2>1, ThreadsAssumption DEF FetchInv, SomeActive, AnyAt
  <2>3. AnyAt(ComputeLabels)' /\ \A u \in Threads : pc'[u] \notin {"entered", "start", "start_done"}
    BY <2>1, ThreadsAssumption DEF AnyAt, ComputeLabels
  <2>4. OutboxCurrent'
    BY <2>1, <2>3 DEF OutboxCurrent
  <2>5. RunsOnce'
    BY <2>1, <2>2 DEF RunsOnce, Nothing
  <2>6. InNeighboursKept' /\ SomeActive' /\ Fetched'
    BY <2>1, <2>3 DEF FetchInv, InNeighboursKept, SomeActive, Fetched, AnyAt
  <2> QED
    BY <2>4, <2>5, <2>6 DEF FetchInv
<1>3. CASE BeginFetch
  <2>1. /\ \A u \in Threads : pc[u] = "compute_done" /\ pc'[u] = "fetch"
        /\ todo' = Vertices /\ Still
    BY <1>3 DEF BeginFetch, Barrier, AllAt, engineVars, jobVars, boxVars, historyVars, outboxVars,
       Still
  <2>2. todo = {}
    BY <2>1, OutsideLoops DEF LoopLabels
  <2>3. ~AnyAt(ComputeLabels)'
    BY <2>1 DEF AnyAt, ComputeLabels
  <2>4. OutboxCurrent'
    BY <2>1, <2>2 DEF FetchInv, OutboxCurrent, Outgoing, Still
  <2>5. RunsOnce' /\ Fetched' /\ SomeActive'
    BY <2>1, <2>3 DEF RunsOnce, Fetched, SomeActive, AnyAt
  <2>6. InNeighboursKept'
    BY <2>1 DEF FetchInv, InNeighboursKept, Still
  <2> QED
    BY <2>4, <2>5, <2>6 DEF FetchInv
<1> QED
  BY <1>1, <1>2, <1>3 DEF BarrierStep

\* An iteration of the compute loop leaves the outbox of its vertex current.
LEMMA FetchCompute ==
  ASSUME ProgramTyped, TypeOK, CountInv, FetchInv, NEW t \in Threads, NEW v \in Vertices,
         ComputeVertex(t, v) \/ PassVertex(t, v)
  PROVE  FetchInv'
<1>1. /\ Move(t, "compute", "compute") /\ v \in todo /\ todo' = todo \ {v}
      /\ UNCHANGED <<out_neighbours, in_neighbours>>
  BY DEF ComputeVertex, PassVertex, TakeIteration, RunVertex, FillOutbox, engineVars, jobVars
<1>2. /\ AnyAt(ComputeLabels) /\ AnyAt(ComputeLabels)'
      /\ \A u \in Threads : pc'[u] \in ComputeLabels
  BY <1>1, MoveTests, PhaseNames, LabelNames DEF CountInv
<1>3. InNeighboursKept' /\ SomeActive' /\ Fetched'
  BY <1>1, <1>2 DEF FetchInv, InNeighboursKept, SomeActive, Fetched, AnyAt, ComputeLabels
<1>4. /\ ran \cap todo = {}
      /\ \A w \in Vertices \ (ran \cup todo) : ~active[w]
      /\ \A w \in Vertices \ ran : sent[w] = None
      /\ ran # {} \/ \E w \in todo : active[w]
      /\ \A w \in Vertices \ todo : Outgoing(w) = sent[w]
  BY <1>2 DEF FetchInv, RunsOnce, OutboxCurrent
<1>5. /\ has_broadcast_message \in [Vertices -> BOOLEAN] /\ DOMAIN broadcast_message = Vertices
      /\ DOMAIN sent = Vertices /\ active \in [Vertices -> BOOLEAN]
      /\ todo \subseteq Vertices /\ ran \subseteq Vertices
  BY DEF TypeOK, OutboxTypeOK, EngineTypeOK
<1>6. CASE ComputeVertex(t, v)
  <2>1. PICK outcome \in Outcomes(v) :
          /\ has_broadcast_message' =
               [has_broadcast_message EXCEPT ![v] = FALSE \/ outcome.message # None]
          /\ broadcast_message' = [broadcast_message EXCEPT ![v] =
               IF outcome.message # None THEN outcome.message ELSE @]
          /\ sent' = [sent EXCEPT ![v] = outcome.message]
          /\ active' = [active EXCEPT ![v] = ~outcome.halts]
          /\ ran' = ran \cup {v}
    BY <1>6 DEF ComputeVertex, RunVertex, FillOutbox
  <2>2. \A w \in Vertices \ {v} : /\ Outgoing(w)' = Outgoing(w) /\ sent'[w] = sent[w]
                                  /\ active'[w] = active[w]
    BY <1>5, <2>1 DEF Outgoing
  <2>3. Outgoing(v)' = sent'[v]
    BY <1>5, <2>1 DEF Outgoing
  <2>4. OutboxCurrent'
    BY <1>1, <1>2, <1>4, <2>2, <2>3 DEF OutboxCurrent
  <2>5. RunsOnce'
    BY <1>1, <1>4, <2>1, <2>2 DEF RunsOnce
  <2> QED
    BY <1>3, <2>4, <2>5 DEF FetchInv
<1>7. CASE PassVertex(t, v)
  <2>1. /\ has_broadcast_message' = [has_broadcast_message EXCEPT ![v] = FALSE]
        /\ ~active[v] /\ UNCHANGED <<broadcast_message, sent, active, ran>>
    BY <1>7 DEF PassVertex, engineVars, historyVars
  <2>2. \A w \in Vertices \ {v} : Outgoing(w)' = Outgoing(w)
    BY <1>5, <2>1 DEF Outgoing
  <2>3. Outgoing(v)' = None /\ sent[v] = None
    BY <1>1, <1>4, <1>5, <2>1 DEF Outgoing
  <2>4. OutboxCurrent'
    BY <1>1, <1>2, <1>4, <2>1, <2>2, <2>3 DEF OutboxCurrent
  <2>5. RunsOnce'
    BY <1>1, <1>4, <2>1 DEF RunsOnce
  <2> QED
    BY <1>3, <2>4, <2>5 DEF FetchInv
<1> QED
  BY <1>6, <1>7

\* A thread that leaves a loop changes nothing of this.
LEMMA FetchLeave ==
  ASSUME TypeOK, CountInv, FetchInv, NEW t \in Threads, LeaveCompute(t) \/ LeaveFetch(t)
  PROVE  FetchInv'
<1>1. Still /\ UNCHANGED todo
  BY DEF LeaveCompute, LeaveFetch, LeaveLoop, engineVars, jobVars, boxVars, historyVars,
     outboxVars, Still
<1>2. /\ AnyAt(ComputeLabels)' <=> AnyAt(ComputeLabels)
      /\ AnyAt(FetchLabels)' <=> AnyAt(FetchLabels)
      /\ ~AnyAt({"entered", "start", "start_done"})'
  <2>1. CASE LeaveCompute(t)
    <3>1. Move(t, "compute", "compute_done")
      BY <2>1 DEF LeaveCompute, LeaveLoop
    <3>2. /\ AnyAt(ComputeLabels)' /\ AnyAt(ComputeLabels)
          /\ ~AnyAt(FetchLabels)' /\ ~AnyAt(FetchLabels)
          /\ \A u \in Threads : pc'[u] \in ComputeLabels
      BY <3>1, MoveTests, PhaseNames, LabelNames DEF CountInv
    <3> QED
      BY <3>2 DEF AnyAt, ComputeLabels
  <2>2. CASE LeaveFetch(t)
    <3>1. Move(t, "fetch", "fetch_done")
      BY <2>2 DEF LeaveFetch, LeaveLoop
    <3>2. /\ ~AnyAt(ComputeLabels)' /\ ~AnyAt(ComputeLabels)
          /\ AnyAt(FetchLabels)' /\ AnyAt(FetchLabels)
          /\ \A u \in Threads : pc'[u] \in FetchLabels
      BY <3>1, MoveTests, PhaseNames, LabelNames DEF CountInv
    <3> QED
      BY <3>2 DEF AnyAt, FetchLabels
  <2> QED
    BY <2>1, <2>2
<1> QED
  BY <1>1, <1>2 DEF FetchInv, Still, InNeighboursKept, OutboxCurrent, RunsOnce, SomeActive, Fetched,
     Outgoing, FetchLabels, NextMessage

\* An iteration of the fetch loop: all outboxes are current.
LEMMA FetchIteration ==
  ASSUME TypeOK, CountInv, FetchInv, NEW t \in Threads, NEW v \in Vertices, FetchVertex(t, v)
  PROVE  /\ Move(t, "fetch", "fetch") /\ v \in todo /\ todo' = todo \ {v} /\ Fetch(v)
         /\ UNCHANGED <<application, out_neighbours, value, ip_superstep, sent, ran, claimed>>
         /\ UNCHANGED <<in_neighbours, has_broadcast_message, broadcast_message>>
         /\ \A u \in Threads : pc[u] \in FetchLabels /\ pc'[u] \in FetchLabels
         /\ ~AnyAt(ComputeLabels) /\ ~AnyAt(ComputeLabels)'
         /\ AnyAt(FetchLabels) /\ AnyAt(FetchLabels)'
         /\ \A w \in Vertices : Outgoing(w) = sent[w]
<1>1. /\ Move(t, "fetch", "fetch") /\ v \in todo /\ todo' = todo \ {v} /\ Fetch(v)
      /\ UNCHANGED <<application, out_neighbours, value, ip_superstep, sent, ran, claimed>>
      /\ UNCHANGED <<in_neighbours, has_broadcast_message, broadcast_message>>
  BY DEF FetchVertex, TakeIteration, Fetch, jobVars, historyVars, outboxVars
<1>2. /\ \A u \in Threads : pc[u] \in FetchLabels /\ pc'[u] \in FetchLabels
      /\ ~AnyAt(ComputeLabels) /\ ~AnyAt(ComputeLabels)'
      /\ AnyAt(FetchLabels) /\ AnyAt(FetchLabels)'
  BY <1>1, MoveTests, PhaseNames, LabelNames DEF CountInv
<1>3. \A w \in Vertices : Outgoing(w) = sent[w]
  BY <1>2 DEF FetchInv, OutboxCurrent
<1> QED
  BY <1>1, <1>2, <1>3

\* It gives its vertex everything that was sent to it.
LEMMA FetchVertexInv ==
  ASSUME OrderFree, TypeOK, CountInv, FetchInv, NEW t \in Threads, NEW v \in Vertices,
         FetchVertex(t, v)
  PROVE  /\ FetchInv'
         /\ NextMessage(v)' = Received(out_neighbours, sent, v)
         /\ \A w \in Vertices \ {v} : NextMessage(w)' = NextMessage(w)
<1>1. /\ todo' = todo \ {v} /\ Fetch(v)
      /\ UNCHANGED <<out_neighbours, sent, ran>>
      /\ UNCHANGED <<in_neighbours, has_broadcast_message, broadcast_message>>
      /\ \A u \in Threads : pc[u] \in FetchLabels /\ pc'[u] \in FetchLabels
      /\ ~AnyAt(ComputeLabels) /\ ~AnyAt(ComputeLabels)'
      /\ AnyAt(FetchLabels) /\ AnyAt(FetchLabels)'
      /\ \A w \in Vertices : Outgoing(w) = sent[w]
  BY FetchIteration
<1>2. /\ Broadcasters(v) # {} <=> Received(out_neighbours, sent, v) # None
      /\ Broadcasters(v) # {} => FetchedMessage(v) = Received(out_neighbours, sent, v)
  BY <1>1, EverythingReceived DEF FetchInv
<1>3. has_message \in [Vertices -> BOOLEAN] /\ DOMAIN message = Vertices
  BY DEF TypeOK, EngineTypeOK
<1>4. NextMessage(v)' = Received(out_neighbours, sent, v)
  BY <1>1, <1>2, <1>3 DEF Fetch, NextMessage
<1>5. \A w \in Vertices \ {v} : NextMessage(w)' = NextMessage(w)
  BY <1>1, <1>3 DEF Fetch, NextMessage
<1>6. Fetched'
  <2>1. \A d \in Vertices \ todo : NextMessage(d) = Received(out_neighbours, sent, d)
    BY <1>1 DEF FetchInv, Fetched, FetchLabels
  <2> QED
    BY <1>1, <1>4, <1>5, <2>1 DEF Fetched
<1>7. InNeighboursKept' /\ OutboxCurrent' /\ RunsOnce' /\ SomeActive'
  <2>1. ~AnyAt({"entered", "start", "start_done"})'
    BY <1>1 DEF AnyAt, FetchLabels
  <2> QED
    BY <1>1, <2>1 DEF FetchInv, InNeighboursKept, OutboxCurrent, RunsOnce, SomeActive, Outgoing
<1> QED
  BY <1>4, <1>5, <1>6, <1>7 DEF FetchInv

\* Every step keeps FetchInv.
LEMMA FetchNextInv ==
  ASSUME ProgramTyped, OrderFree, TypeOK, CountInv, FetchInv, [Next]_vars
  PROVE  FetchInv'
<1>1. ASSUME NEW t \in Threads, ThreadStep(t) PROVE FetchInv'
  BY <1>1, FetchHead, FetchCompute, FetchLeave, FetchVertexInv DEF ThreadStep
<1>2. CASE BarrierStep
  BY <1>2, FetchBarrier
<1>3. CASE UNCHANGED vars
  BY <1>3 DEF vars, teamVars, engineVars, jobVars, boxVars, historyVars, outboxVars, FetchInv,
     InNeighboursKept, OutboxCurrent, RunsOnce, SomeActive, Fetched, Outgoing, NextMessage, AnyAt
<1> QED
  BY <1>1, <1>2, <1>3 DEF Next

\* The three invariants hold in every state of every run.
LEMMA FetchInvariant ==
  ASSUME ProgramTyped, OrderFree PROVE Spec => [](TypeOK /\ CountInv /\ FetchInv)
<1>1. Init => TypeOK /\ CountInv /\ FetchInv
  BY InitTyped, CountInitInv, FetchInitInv
<1>2. TypeOK /\ CountInv /\ FetchInv /\ [Next]_vars => (TypeOK /\ CountInv /\ FetchInv)'
  <2>1. CombineClosed
    BY DEF CombineClosed, OrderFree
  <2> QED
    BY <2>1, NextTyped, CountNextInv, FetchNextInv
<1> QED
  BY <1>1, <1>2, PTL DEF Spec

\* The postcondition of ip_fetch_broadcast_messages: when every thread has left the
\* fetch loop, each vertex has the combination of exactly what its in-neighbours
\* broadcast in this superstep, in whichever order they are listed, although no
\* thread takes a lock; for every graph, and an ip_combine to which the order is the same.
THEOREM EverythingFetched ==
  ASSUME ProgramTyped, OrderFree PROVE Spec => []FetchedEverything
<1>1. TypeOK /\ CountInv /\ FetchInv => FetchedEverything
  <2> SUFFICES ASSUME CountInv, FetchInv, AllAt("fetch_done"), NEW d \in Vertices
               PROVE  NextMessage(d) = Received(out_neighbours, sent, d)
    BY DEF FetchedEverything
  <2>1. todo = {}
    BY OutsideLoops DEF AllAt, LoopLabels
  <2>2. AnyAt({"fetch", "fetch_done"})
    BY ThreadsAssumption DEF AllAt, AnyAt
  <2> QED
    BY <2>1, <2>2 DEF FetchInv, Fetched
<1> QED
  BY <1>1, FetchInvariant, PTL

------------------------------------------------------------------------------
(* The superstep semantics.                                                *)

\* It combines the messages as VertexProgram says.
LEMMA SuperstepReceived ==
  ASSUME NEW out, NEW s, NEW v
  PROVE  Superstep!Received(out, s, v) = Received(out, s, v)
BY Zenon DEF Superstep!Received, Received, Superstep!CombinedOver, CombinedOver,
   Superstep!EdgesInto, EdgesInto, Superstep!Merge, Merge, Superstep!MapThenFoldSet, MapThenFoldSet

\* Its variables, as ImplementsBSP maps them.
absSuperstep ==
  IF Fetching \/ (AnyAt({"finish", "finish_done"}) /\ ~claimed)
  THEN ip_superstep + 1 ELSE ip_superstep
absActive == [v \in Vertices |->
  active[v] \/ (Unfetched(v) /\ Received(out_neighbours, sent, v) # None)]
absInbox == [v \in Vertices |->
  IF Unfetched(v) THEN Received(out_neighbours, sent, v) ELSE NextMessage(v)]
absSent == IF Computing THEN sent ELSE Nothing
absRan == IF Computing THEN ran ELSE {}

\* The phase the threads are in decides what they map to.
LEMMA PhaseMapped ==
  ASSUME NEW P \in Phases, NEW Q \in Phases,
         \A u \in Threads : pc[u] \in P, \A u \in Threads : pc'[u] \in Q
  PROVE  /\ Fetching <=> P = FetchLabels
         /\ Fetching' <=> Q = FetchLabels
         /\ AnyAt({"finish", "finish_done"}) <=> P = FinishLabels
         /\ AnyAt({"finish", "finish_done"})' <=> Q = FinishLabels
         /\ Computing <=> P = ComputeLabels
         /\ Computing' <=> Q = ComputeLabels
         /\ AnyAt({"exit"}) => P = HeadLabels
         /\ AnyAt({"exit"})' => Q = HeadLabels
<1>1. \A R \in Phases : /\ (\E u \in Threads : pc[u] \in R) <=> R = P
                        /\ (\E u \in Threads : pc'[u] \in R) <=> R = Q
  BY PhaseTests
<1>2. /\ Fetching <=> P = FetchLabels
      /\ Fetching' <=> Q = FetchLabels
      /\ AnyAt({"finish", "finish_done"}) <=> P = FinishLabels
      /\ AnyAt({"finish", "finish_done"})' <=> Q = FinishLabels
  BY <1>1, PhaseNames DEF Fetching, AnyAt, FetchLabels, FinishLabels
<1>3. /\ Computing <=> \E u \in Threads : pc[u] \in ComputeLabels
      /\ Computing' <=> \E u \in Threads : pc'[u] \in ComputeLabels
  <2>1. \A u \in Threads : /\ pc[u] \in {"compute"} => pc[u] \in ComputeLabels
                           /\ pc[u] = "compute_done" => pc[u] \in ComputeLabels
                           /\ pc'[u] \in {"compute"} => pc'[u] \in ComputeLabels
                           /\ pc'[u] = "compute_done" => pc'[u] \in ComputeLabels
    BY DEF ComputeLabels
  <2>2. Computing => \E u \in Threads : pc[u] \in ComputeLabels
    BY <2>1, ThreadsAssumption DEF Computing, AnyAt, AllAt
  <2>3. Computing' => \E u \in Threads : pc'[u] \in ComputeLabels
    BY <2>1, ThreadsAssumption DEF Computing, AnyAt, AllAt
  <2>4. ASSUME \E u \in Threads : pc[u] \in ComputeLabels PROVE Computing
    <3>1. \A u \in Threads : pc[u] \in ComputeLabels
      BY <1>1, <2>4, PhaseNames
    <3> QED
      BY <3>1 DEF Computing, AnyAt, AllAt, ComputeLabels
  <2>5. ASSUME \E u \in Threads : pc'[u] \in ComputeLabels PROVE Computing'
    <3>1. \A u \in Threads : pc'[u] \in ComputeLabels
      BY <1>1, <2>5, PhaseNames
    <3> QED
      BY <3>1 DEF Computing, AnyAt, AllAt, ComputeLabels
  <2> QED
    BY <2>2, <2>3, <2>4, <2>5
<1>4. \A u \in Threads : /\ pc[u] = "exit" => pc[u] \in HeadLabels
                         /\ pc'[u] = "exit" => pc'[u] \in HeadLabels
  BY DEF HeadLabels
<1> QED
  BY <1>1, <1>2, <1>3, <1>4, PhaseNames DEF AnyAt

\* A step that leaves all of this as it was is a stutter.
LEMMA SuperstepKept ==
  ASSUME UNCHANGED <<jobVars, value>>, absSuperstep' = absSuperstep, absActive' = absActive,
         absInbox' = absInbox, absSent' = absSent, absRan' = absRan,
         AnyAt({"exit"})' <=> AnyAt({"exit"})
  PROVE  UNCHANGED Superstep!vars
<1>1. AnyAt({"exit"})' = AnyAt({"exit"})
  BY DEF AnyAt
<1> QED
  BY <1>1 DEF Superstep!vars, jobVars, absSuperstep, absActive, absInbox, absSent, absRan

\* A step that changes none of the variables mapped, and whose phases tell the
\* same of the vertices and of the superstep, is a stutter.
LEMMA PhaseStutters ==
  ASSUME NEW P \in Phases, NEW Q \in Phases,
         \A u \in Threads : pc[u] \in P, \A u \in Threads : pc'[u] \in Q,
         AnyAt({"exit"})' <=> AnyAt({"exit"}),
         UNCHANGED <<jobVars, boxVars, value, active>>,
         absSuperstep' = absSuperstep,
         P = ComputeLabels => Q = ComputeLabels /\ UNCHANGED <<sent, ran>>,
         P # ComputeLabels /\ Q = ComputeLabels => sent' = Nothing /\ ran' = {},
         P = FetchLabels => UNCHANGED <<sent, todo>> /\ (Q = FetchLabels \/ todo = {}),
         P # FetchLabels => Q # FetchLabels
  PROVE  UNCHANGED Superstep!vars
<1>1. /\ Fetching <=> P = FetchLabels
      /\ Fetching' <=> Q = FetchLabels
      /\ Computing <=> P = ComputeLabels
      /\ Computing' <=> Q = ComputeLabels
  BY PhaseMapped
<1>2. UNCHANGED <<out_neighbours, has_message, message>>
  BY DEF jobVars, boxVars
<1>3. absSent' = absSent /\ absRan' = absRan
  BY <1>1 DEF absSent, absRan, Nothing
<1>4. absActive' = absActive
  BY <1>1, <1>2 DEF absActive, Unfetched
<1>5. absInbox' = absInbox
  BY <1>1, <1>2 DEF absInbox, Unfetched, NextMessage
<1> QED
  BY <1>3, <1>4, <1>5, SuperstepKept

\* The steps of a thread within a phase that the superstep semantics does not see.
\* The single region that counts the superstep is one of them: in the semantics it
\* was counted when the compute loop ended.
LEMMA QuietSteps ==
  ASSUME TypeOK, CountInv, NEW t \in Threads, NEW v \in Vertices,
         \/ StartSingle(t) \/ SkipStart(t) \/ PassVertex(t, v) \/ LeaveCompute(t)
         \/ LeaveFetch(t) \/ EndSuperstep(t)
  PROVE  UNCHANGED Superstep!vars
<1>1. UNCHANGED <<jobVars, boxVars, value, sent, ran, active>>
  BY DEF StartSingle, SkipStart, PassVertex, LeaveCompute, LeaveFetch, EndSuperstep, FinishSingle,
     SkipFinish, engineVars, historyVars
<1>2. CASE EndSuperstep(t)
  <2>1. Move(t, "finish", "finish_done")
    BY <1>2 DEF EndSuperstep, FinishSingle, SkipFinish, EnterSingle, SkipSingle
  <2>2. \A u \in Threads : pc[u] \in FinishLabels /\ pc'[u] \in FinishLabels
    BY <2>1, MoveTests, PhaseNames, LabelNames DEF CountInv
  <2>3. /\ ~Fetching /\ ~Fetching'
        /\ AnyAt({"finish", "finish_done"}) /\ AnyAt({"finish", "finish_done"})'
        /\ ~AnyAt({"exit"}) /\ ~AnyAt({"exit"})'
    BY <2>2, PhaseMapped, PhaseNames
  <2>4. \/ ~claimed /\ claimed' = TRUE /\ ip_superstep' = ip_superstep + 1
        \/ claimed /\ UNCHANGED <<claimed, ip_superstep>>
    BY <1>2 DEF EndSuperstep, FinishSingle, SkipFinish, EnterSingle, SkipSingle, engineVars
  <2>5. absSuperstep' = absSuperstep
    BY <2>3, <2>4 DEF absSuperstep
  <2> QED
    BY <1>1, <2>2, <2>3, <2>5, PhaseStutters, PhaseNames
<1>3. CASE \/ StartSingle(t) \/ SkipStart(t) \/ PassVertex(t, v) \/ LeaveCompute(t) \/ LeaveFetch(t)
  <2>1. PICK from, to : Move(t, from, to) /\ UNCHANGED ip_superstep
          /\ \/ from = "start" /\ to = "start_done"
             \/ from = "compute" /\ to \in {"compute", "compute_done"}
             \/ from = "fetch" /\ to = "fetch_done" /\ UNCHANGED todo
    BY <1>3 DEF StartSingle, SkipStart, PassVertex, LeaveCompute, LeaveFetch, EnterSingle,
       SkipSingle, LeaveLoop, engineVars
  <2>2. PICK P \in Phases : /\ from \in P /\ to \in P
                            /\ P \in {StartLabels, ComputeLabels, FetchLabels}
                            /\ P = FetchLabels => UNCHANGED todo
    BY <2>1, PhaseNames, LabelNames
  <2>3. \A u \in Threads : pc[u] \in P /\ pc'[u] \in P
    BY <2>1, <2>2, MoveTests DEF CountInv
  <2>4. P # HeadLabels /\ P # FinishLabels
    BY <2>2, PhaseNames
  <2>5. /\ Fetching' <=> Fetching
        /\ ~AnyAt({"finish", "finish_done"}) /\ ~AnyAt({"finish", "finish_done"})'
        /\ ~AnyAt({"exit"}) /\ ~AnyAt({"exit"})'
    BY <2>3, <2>4, PhaseMapped
  <2>6. absSuperstep' = absSuperstep
    BY <2>1, <2>5 DEF absSuperstep
  <2> QED
    BY <1>1, <2>2, <2>3, <2>5, <2>6, PhaseStutters
<1> QED
  BY <1>2, <1>3

\* The barriers that it does not see.
LEMMA QuietBarriers ==
  ASSUME CountInv, EnterLoop \/ BeginCompute \/ BeginFinish \/ NextIteration
  PROVE  UNCHANGED Superstep!vars
<1>1. UNCHANGED <<jobVars, boxVars, value, ip_superstep, active>>
  BY DEF EnterLoop, BeginCompute, BeginFinish, NextIteration, engineVars
<1>2. CASE EnterLoop
  <2>1. Barrier("entered", "start", {}) /\ "entered" \in HeadLabels /\ "start" \in StartLabels
    BY <1>2, LabelNames DEF EnterLoop
  <2>2. \A u \in Threads : pc[u] = "entered" /\ pc'[u] = "start"
    BY <2>1, BarrierTests, PhaseNames
  <2>3. \A u \in Threads : pc[u] \in HeadLabels /\ pc'[u] \in StartLabels
    BY <2>1, <2>2
  <2>4. /\ ~Fetching /\ ~Fetching' /\ ~AnyAt({"exit"}) /\ ~AnyAt({"exit"})'
        /\ ~AnyAt({"finish", "finish_done"}) /\ ~AnyAt({"finish", "finish_done"})'
    BY <2>2 DEF Fetching, AnyAt
  <2>5. absSuperstep' = absSuperstep
    BY <1>1, <2>4 DEF absSuperstep
  <2> QED
    BY <1>1, <2>3, <2>4, <2>5, PhaseStutters, PhaseNames
<1>3. CASE BeginCompute
  <2>1. /\ Barrier("start_done", "compute", Vertices)
        /\ "start_done" \in StartLabels /\ "compute" \in ComputeLabels
    BY <1>3, LabelNames DEF BeginCompute
  <2>2. \A u \in Threads : pc[u] = "start_done" /\ pc'[u] = "compute"
    BY <2>1, BarrierTests, PhaseNames
  <2>3. \A u \in Threads : pc[u] \in StartLabels /\ pc'[u] \in ComputeLabels
    BY <2>1, <2>2
  <2>4. /\ ~Fetching /\ ~Fetching' /\ ~AnyAt({"exit"}) /\ ~AnyAt({"exit"})'
        /\ ~AnyAt({"finish", "finish_done"}) /\ ~AnyAt({"finish", "finish_done"})'
    BY <2>2 DEF Fetching, AnyAt
  <2>5. absSuperstep' = absSuperstep
    BY <1>1, <2>4 DEF absSuperstep
  <2>6. sent' = Nothing /\ ran' = {}
    BY <1>3 DEF BeginCompute, NewHistory
  <2> QED
    BY <1>1, <2>3, <2>4, <2>5, <2>6, PhaseStutters, PhaseNames
<1>4. CASE BeginFinish
  <2>1. /\ Barrier("fetch_done", "finish", {})
        /\ "fetch_done" \in FetchLabels /\ "finish" \in FinishLabels
    BY <1>4, LabelNames DEF BeginFinish
  <2>2. (\A u \in Threads : pc[u] = "fetch_done" /\ pc'[u] = "finish") /\ ~claimed'
    BY <2>1, BarrierTests, PhaseNames
  <2>3. \A u \in Threads : pc[u] \in FetchLabels /\ pc'[u] \in FinishLabels
    BY <2>1, <2>2
  <2>4. Fetching /\ AnyAt({"finish", "finish_done"})'
    BY <2>3, PhaseMapped, PhaseNames
  <2>5. ~AnyAt({"exit"}) /\ ~AnyAt({"exit"})'
    BY <2>2 DEF AnyAt
  <2>6. absSuperstep' = absSuperstep
    BY <1>1, <2>2, <2>4 DEF absSuperstep
  <2>7. todo = {} /\ todo' = {} /\ UNCHANGED sent
    <3>1. todo = {}
      BY <2>2, OutsideLoops DEF LoopLabels
    <3> QED
      BY <2>1, <3>1, <1>4 DEF Barrier, BeginFinish, engineVars, historyVars
  <2> QED
    BY <1>1, <2>3, <2>5, <2>6, <2>7, PhaseStutters, PhaseNames
<1>5. CASE NextIteration
  <2>1. /\ Barrier("finish_done", "while", {})
        /\ "finish_done" \in FinishLabels /\ "while" \in HeadLabels
    BY <1>5, LabelNames DEF NextIteration
  <2>2. \A u \in Threads : pc[u] = "finish_done" /\ pc'[u] = "while"
    BY <2>1, BarrierTests, PhaseNames
  <2>3. \A u \in Threads : pc[u] \in FinishLabels /\ pc'[u] \in HeadLabels
    BY <2>1, <2>2
  <2>4. claimed
    BY <2>2, ThreadsAssumption DEF CountInv, SingleEntered, AnyAt
  <2>5. /\ ~Fetching /\ ~Fetching' /\ ~AnyAt({"exit"}) /\ ~AnyAt({"exit"})'
        /\ ~AnyAt({"finish", "finish_done"})'
    BY <2>2 DEF Fetching, AnyAt
  <2>6. absSuperstep' = absSuperstep
    BY <1>1, <2>4, <2>5 DEF absSuperstep
  <2> QED
    BY <1>1, <2>3, <2>5, <2>6, PhaseStutters, PhaseNames
<1> QED
  BY <1>2, <1>3, <1>4, <1>5

\* The first thread that leaves the loop returns: no vertex is active.
LEMMA WhileReturns ==
  ASSUME TypeOK, CountInv, NEW t \in Threads, While(t)
  PROVE  Superstep!Return \/ UNCHANGED Superstep!vars
<1> DEFINE to == IF ip_active_vertices # 0 THEN "entered" ELSE "exit"
<1>1. /\ Move(t, "while", to)
      /\ UNCHANGED <<claimed, todo, jobVars, value, ip_superstep, sent, ran, has_message, message,
                     active>>
  BY DEF While, engineVars, boxVars, historyVars
<1>2. to \in HeadLabels /\ "while" \in HeadLabels
  BY LabelNames
<1>3. \A u \in Threads : pc[u] \in HeadLabels /\ pc'[u] \in HeadLabels
  <2> HIDE DEF to
  <2> QED
    BY <1>1, <1>2, MoveTests, PhaseNames DEF CountInv
<1>4. /\ ~Fetching /\ ~Fetching' /\ ~Computing /\ ~Computing'
      /\ ~AnyAt({"finish", "finish_done"}) /\ ~AnyAt({"finish", "finish_done"})'
  BY <1>3, PhaseMapped, PhaseNames
<1>5. absSuperstep' = absSuperstep /\ absSent' = absSent /\ absRan' = absRan /\ absRan = {}
  BY <1>1, <1>4 DEF absSuperstep, absSent, absRan, Nothing
<1>6. /\ absActive = [v \in Vertices |-> active[v]]
      /\ absActive' = absActive /\ absInbox' = absInbox
  BY <1>1, <1>4 DEF absActive, absInbox, Unfetched, NextMessage, TypeOK
<1>7. CASE AnyAt({"exit"})' <=> AnyAt({"exit"})
  BY <1>1, <1>5, <1>6, <1>7, SuperstepKept
<1>8. CASE ~(AnyAt({"exit"})' <=> AnyAt({"exit"}))
  <2>1. ip_active_vertices = 0 /\ ~AnyAt({"exit"}) /\ AnyAt({"exit"})'
    BY <1>1, <1>8 DEF Move, AnyAt, TypeOK
  <2>2. \A v \in Vertices : ~active[v]
    <3>1. AnyAt({"while", "entered", "exit"})
      BY <1>1 DEF Move, AnyAt
    <3>2. Cardinality({v \in Vertices : active[v]}) = 0
      BY <2>1, <3>1, CountAtHead DEF ActiveCount
    <3>3. IsFiniteSet({v \in Vertices : active[v]})
      BY VerticesAssumption, FS_Subset
    <3>4. {v \in Vertices : active[v]} = {}
      BY <3>2, <3>3, FS_EmptySet
    <3> QED
      BY <3>4
  <2>3. ~Superstep!InSuperstep
    BY <1>5, <1>6, <2>2 DEF Superstep!InSuperstep, absRan, absActive
  <2>4. AnyAt({"exit"})' = TRUE /\ AnyAt({"exit"}) = FALSE
    BY <2>1 DEF AnyAt
  <2> QED
    BY <1>1, <1>5, <1>6, <2>3, <2>4
       DEF Superstep!Return, jobVars, absSuperstep, absActive, absInbox, absSent, absRan
<1> QED
  BY <1>7, <1>8

\* The run of a vertex is one step of the superstep semantics.
LEMMA ComputeComputes ==
  ASSUME ProgramTyped, TypeOK, CountInv, FetchInv, NEW t \in Threads, NEW v \in Vertices,
         ComputeVertex(t, v)
  PROVE  Superstep!Compute(v)
<1>1. /\ Move(t, "compute", "compute") /\ v \in todo /\ active[v]
      /\ UNCHANGED <<application, out_neighbours, ip_superstep, message>>
      /\ ran' = ran \cup {v}
  BY DEF ComputeVertex, TakeIteration, RunVertex, jobVars
<1>2. PICK outcome \in Outcomes(v) :
        /\ value' = [value EXCEPT ![v] = outcome.value]
        /\ has_message' = [has_message EXCEPT ![v] = @ /\ ~outcome.reads]
        /\ sent' = [sent EXCEPT ![v] = outcome.message]
        /\ active' = [active EXCEPT ![v] = ~outcome.halts]
  BY DEF ComputeVertex, RunVertex
<1>3. \A u \in Threads : pc[u] \in ComputeLabels /\ pc'[u] \in ComputeLabels
  BY <1>1, MoveTests, PhaseNames, LabelNames DEF CountInv
<1>4. /\ ~Fetching /\ ~Fetching' /\ Computing /\ Computing'
      /\ ~AnyAt({"finish", "finish_done"}) /\ ~AnyAt({"finish", "finish_done"})'
      /\ ~AnyAt({"exit"}) /\ ~AnyAt({"exit"})'
  BY <1>3, PhaseMapped, PhaseNames
<1>5. active \in [Vertices -> BOOLEAN] /\ has_message \in [Vertices -> BOOLEAN]
  BY DEF TypeOK, EngineTypeOK
<1>6. /\ absActive = active /\ absActive' = active'
      /\ absInbox = [w \in Vertices |-> NextMessage(w)]
      /\ absInbox' = [w \in Vertices |-> NextMessage(w)']
  BY <1>2, <1>4, <1>5 DEF absActive, absInbox, Unfetched
<1>7. absSuperstep = ip_superstep /\ absSuperstep' = ip_superstep' /\ absSent = sent
      /\ absSent' = sent' /\ absRan = ran /\ absRan' = ran'
  BY <1>4 DEF absSuperstep, absSent, absRan
<1>8. AnyAt(ComputeLabels)
  BY <1>1 DEF Move, AnyAt, ComputeLabels
<1>9. Superstep!InSuperstep
  <2>1. ran # {} \/ \E w \in Vertices : active[w]
    BY <1>1
  <2> QED
    BY <1>4, <1>6, <1>7, <2>1 DEF Superstep!InSuperstep, absRan, absActive
<1>10. v \notin ran
  BY <1>1, <1>8 DEF FetchInv, RunsOnce
<1>11. Superstep!Runnable(v)
  BY <1>1, <1>6 DEF Superstep!Runnable, absActive
<1>12. outcome \in Program(application, absSuperstep, v, value[v], absInbox[v], Len(out_neighbours[v]))
  BY <1>6, <1>7 DEF Outcomes
<1>13. /\ absActive' = [absActive EXCEPT ![v] = TRUE /\ ~outcome.halts]
       /\ absSent' = [absSent EXCEPT ![v] = outcome.message]
       /\ absRan' = absRan \cup {v}
       /\ absSuperstep' = absSuperstep
  BY <1>1, <1>2, <1>6, <1>7
<1>14. absInbox' = [absInbox EXCEPT ![v] = IF outcome.reads THEN None ELSE @]
  <2>1. \A w \in Vertices \ {v} : NextMessage(w)' = NextMessage(w)
    BY <1>1, <1>2 DEF NextMessage
  <2>2. NextMessage(v)' = IF outcome.reads THEN None ELSE NextMessage(v)
    <3>1. outcome.reads \in BOOLEAN
      BY OutcomeTyped DEF TypeOK
    <3> QED
      BY <1>1, <1>2, <1>5, <3>1 DEF NextMessage
  <2> QED
    BY <1>6, <2>1, <2>2
<1>15. AnyAt({"exit"})' = AnyAt({"exit"})
  BY <1>4 DEF AnyAt
<1> QED
  BY <1>1, <1>2, <1>7, <1>9, <1>10, <1>11, <1>12, <1>13, <1>14, <1>15
     DEF Superstep!Compute, absSuperstep, absActive, absInbox, absSent, absRan

\* What a vertex fetches is what the superstep semantics already gave it.
LEMMA FetchStutters ==
  ASSUME OrderFree, TypeOK, CountInv, FetchInv, NEW t \in Threads, NEW v \in Vertices,
         FetchVertex(t, v)
  PROVE  UNCHANGED Superstep!vars
<1>1. /\ v \in todo /\ todo' = todo \ {v}
      /\ UNCHANGED <<application, out_neighbours, value, ip_superstep, sent, ran>>
      /\ \A u \in Threads : pc[u] \in FetchLabels /\ pc'[u] \in FetchLabels
      /\ \A w \in Vertices : Outgoing(w) = sent[w]
  BY FetchIteration
<1>2. /\ Fetching /\ Fetching' /\ ~Computing /\ ~Computing'
      /\ ~AnyAt({"exit"}) /\ ~AnyAt({"exit"})'
  BY <1>1, PhaseMapped, PhaseNames
<1>3. Broadcasters(v) # {} <=> Received(out_neighbours, sent, v) # None
  BY <1>1, EverythingReceived DEF FetchInv
<1>4. /\ NextMessage(v)' = Received(out_neighbours, sent, v)
      /\ \A w \in Vertices \ {v} : NextMessage(w)' = NextMessage(w)
  BY FetchVertexInv
<1>5. active' = IF Broadcasters(v) # {} /\ ~active[v] THEN [active EXCEPT ![v] = TRUE] ELSE active
  BY DEF FetchVertex
<1>6. active \in [Vertices -> BOOLEAN]
  BY DEF TypeOK
<1>7. absActive' = absActive
  <2>1. \A w \in Vertices : Unfetched(w) <=> w \in todo
    BY <1>2 DEF Unfetched
  <2>2. \A w \in Vertices : Unfetched(w)' <=> w \in todo'
    BY <1>2 DEF Unfetched
  <2>3. \A w \in Vertices \ {v} : absActive'[w] = absActive[w]
    BY <1>1, <1>5, <2>1, <2>2 DEF absActive
  <2>4. absActive'[v] = absActive[v]
    <3>1. absActive[v] = (active[v] \/ Received(out_neighbours, sent, v) # None)
      BY <1>1, <2>1 DEF absActive
    <3>2. absActive'[v] = active'[v]
      BY <1>1, <1>5, <1>6, <2>2 DEF absActive
    <3> QED
      BY <1>3, <1>5, <1>6, <3>1, <3>2
  <2> QED
    BY <2>3, <2>4 DEF absActive
<1>8. absInbox' = absInbox
  BY <1>1, <1>2, <1>4 DEF absInbox, Unfetched
<1>9. absSuperstep' = absSuperstep /\ absSent' = absSent /\ absRan' = absRan
  BY <1>1, <1>2 DEF absSuperstep, absSent, absRan, Nothing
<1> QED
  BY <1>1, <1>2, <1>7, <1>8, <1>9, SuperstepKept DEF jobVars

\* The barrier behind the compute loop is where the next superstep begins.
LEMMA FetchNextSuperstep ==
  ASSUME CountInv, TypeOK, FetchInv, BeginFetch
  PROVE  Superstep!NextSuperstep
<1>1. /\ Barrier("compute_done", "fetch", Vertices)
      /\ UNCHANGED <<application, out_neighbours, value, ip_superstep, has_message, message,
                     sent, ran, active>>
  BY DEF BeginFetch, engineVars, jobVars, boxVars, historyVars
<1>2. "compute_done" \in ComputeLabels /\ "fetch" \in FetchLabels
  BY LabelNames
<1>3. (\A u \in Threads : pc[u] = "compute_done" /\ pc'[u] = "fetch") /\ todo' = Vertices
  BY <1>1, <1>2, BarrierTests, PhaseNames
<1>4. \A u \in Threads : pc[u] \in ComputeLabels /\ pc'[u] \in FetchLabels
  BY <1>2, <1>3
<1>5. ~Fetching /\ Fetching' /\ ~AnyAt({"finish", "finish_done"}) /\ Computing /\ ~Computing'
  BY <1>4, PhaseMapped, PhaseNames
<1>6. AnyAt({"exit"}) = FALSE /\ AnyAt({"exit"})' = FALSE
  BY <1>3 DEF AnyAt
<1>7. todo = {}
  BY <1>3, OutsideLoops DEF LoopLabels
<1>8. ran # {} /\ \A v \in Vertices : active[v] => v \in ran
  BY <1>4, <1>7, ThreadsAssumption DEF FetchInv, RunsOnce, AnyAt
<1>9. active \in [Vertices -> BOOLEAN]
  BY DEF TypeOK
<1>10. /\ absActive = active
       /\ absSuperstep = ip_superstep /\ absSuperstep' = ip_superstep + 1 /\ absSent = sent
       /\ absSent' = Nothing /\ absRan = ran /\ absRan' = {}
  BY <1>1, <1>5, <1>9 DEF absActive, Unfetched, absSuperstep, absSent, absRan, Nothing
<1>11. \A v \in Vertices : Superstep!Runnable(v) => v \in absRan
  BY <1>8, <1>10 DEF Superstep!Runnable, absActive
<1>12. absInbox' = [v \in Vertices |->
         LET new == Superstep!Received(out_neighbours, absSent, v)
         IN  IF new = None /\ FALSE THEN absInbox[v] ELSE new]
  BY <1>1, <1>3, <1>5, <1>10, SuperstepReceived DEF absInbox, Unfetched
<1>13. absActive' = [v \in Vertices |->
         absActive[v] \/ Superstep!Received(out_neighbours, absSent, v) # None]
  <2>1. absActive' = [v \in Vertices |-> active[v] \/ Received(out_neighbours, sent, v) # None]
    BY <1>1, <1>3, <1>5 DEF absActive, Unfetched
  <2> QED
    BY <1>10, <2>1, SuperstepReceived
<1> QED
  BY <1>1, <1>6, <1>8, <1>10, <1>11, <1>12, <1>13
     DEF Superstep!NextSuperstep, absSuperstep, absActive, absInbox, absSent, absRan, Nothing

\* A run starts where the superstep semantics starts.
LEMMA SuperstepInit == Init => Superstep!Init
<1> SUFFICES ASSUME Init PROVE Superstep!Init
  OBVIOUS
<1>1. \A u \in Threads : pc[u] = "while"
  BY DEF Init, TeamInit
<1>2. /\ ~Fetching /\ ~AnyAt({"finish", "finish_done"}) /\ ~Computing
      /\ AnyAt({"exit"}) = FALSE
  BY <1>1, ThreadsAssumption DEF Fetching, Computing, AnyAt, AllAt
<1>3. /\ absSuperstep = 0 /\ absSent = Nothing /\ absRan = {}
      /\ absActive = [v \in Vertices |-> TRUE] /\ absInbox = Nothing
  BY <1>2 DEF Init, EngineInit, absSuperstep, absSent, absRan, absActive, absInbox, Unfetched,
     NextMessage, Nothing
<1>4. /\ \E job \in Jobs : application = job[1] /\ out_neighbours = job[2]
      /\ value = Nothing
  BY DEF Init, EngineInit
<1> QED
  BY <1>2, <1>3, <1>4
     DEF Superstep!Init, absSuperstep, absActive, absInbox, absSent, absRan, Nothing

\* Every step of ip_run is a step of the superstep semantics, or none.
LEMMA SuperstepStep ==
  ASSUME ProgramTyped, OrderFree, TypeOK, CountInv, FetchInv, [Next]_vars
  PROVE  [Superstep!Next]_(Superstep!vars)
<1>1. ASSUME NEW t \in Threads, ThreadStep(t) PROVE [Superstep!Next]_(Superstep!vars)
  <2>1. CASE While(t)
    BY <2>1, WhileReturns DEF Superstep!Next
  <2>2. CASE StartSingle(t) \/ SkipStart(t) \/ LeaveCompute(t) \/ LeaveFetch(t) \/ EndSuperstep(t)
    BY <2>2, QuietSteps, VerticesAssumption
  <2>3. ASSUME NEW v \in Vertices, ComputeVertex(t, v) PROVE Superstep!Next
    BY <2>3, ComputeComputes DEF Superstep!Next
  <2>4. ASSUME NEW v \in Vertices, PassVertex(t, v) PROVE UNCHANGED Superstep!vars
    BY <2>4, QuietSteps
  <2>5. ASSUME NEW v \in Vertices, FetchVertex(t, v) PROVE UNCHANGED Superstep!vars
    BY <2>5, FetchStutters
  <2> QED
    BY <1>1, <2>1, <2>2, <2>3, <2>4, <2>5 DEF ThreadStep
<1>2. CASE BarrierStep
  BY <1>2, QuietBarriers, FetchNextSuperstep DEF BarrierStep, Superstep!Next
<1>3. CASE UNCHANGED vars
  <2>1. /\ UNCHANGED <<pc, claimed, todo, jobVars, out_neighbours, value, ip_superstep, sent, ran,
                       has_message, message, active>>
    BY <1>3 DEF vars, teamVars, engineVars, jobVars, boxVars, historyVars
  <2>2. /\ (Fetching' <=> Fetching) /\ (Computing' <=> Computing)
        /\ (AnyAt({"finish", "finish_done"})' <=> AnyAt({"finish", "finish_done"}))
        /\ (AnyAt({"exit"})' <=> AnyAt({"exit"}))
    BY <2>1 DEF Fetching, Computing, AnyAt, AllAt
  <2>3. absSuperstep' = absSuperstep /\ absSent' = absSent /\ absRan' = absRan
    BY <2>1, <2>2 DEF absSuperstep, absSent, absRan, Nothing
  <2>4. absActive' = absActive /\ absInbox' = absInbox
    BY <2>1, <2>2 DEF absActive, absInbox, Unfetched, NextMessage
  <2> QED
    BY <2>1, <2>2, <2>3, <2>4, SuperstepKept
<1> QED
  BY <1>1, <1>2, <1>3 DEF Next

\* ip_run of the pull version computes what the superstep semantics says, for every
\* team of threads, every graph and every ip_compute that keeps to its types, without
\* a lock: a vertex reads exactly what was broadcast to it in the superstep before,
\* and what it does not read is gone.
THEOREM SingleBroadcastImplementsBSP ==
  ASSUME ProgramTyped, OrderFree
  PROVE  Spec => ImplementsBSP
<1>1. Init => Superstep!Init
  BY SuperstepInit
<1>2. TypeOK /\ CountInv /\ FetchInv /\ [Next]_vars => [Superstep!Next]_(Superstep!vars)
  BY SuperstepStep
<1> QED
  BY <1>1, <1>2, FetchInvariant, PTL DEF Spec, ImplementsBSP, Superstep!Spec

------------------------------------------------------------------------------
(* What cc.c and sssp.c compute with this version.                         *)

\* The proofs about the superstep semantics, for what this version implements.
Answers == INSTANCE Apps_proofs WITH
  KeepsUnread <- FALSE,
  VotesCount <- TRUE,
  superstep <- IF Fetching \/ (AnyAt({"finish", "finish_done"}) /\ ~claimed)
               THEN ip_superstep + 1 ELSE ip_superstep,
  active <- [v \in Vertices |->
    active[v] \/ (Unfetched(v) /\ Received(out_neighbours, sent, v) # None)],
  inbox <- [v \in Vertices |->
    IF Unfetched(v) THEN Received(out_neighbours, sent, v) ELSE NextMessage(v)],
  sent <- IF Computing THEN sent ELSE Nothing,
  ran <- IF Computing THEN ran ELSE {},
  returned <- AnyAt({"exit"})

\* The notions of those proofs are the ones of this module.
LEMMA SameNotions ==
  /\ \A out, u, d : Answers!Leads(out, u, d) = Leads(out, u, d)
  /\ \A out, s, d : Answers!Received(out, s, d) = Received(out, s, d)
  /\ \A out, v : Answers!ComponentLabel(out, v) = ComponentLabel(out, v)
  /\ \A out, v : Answers!Distance(out, v) = Distance(out, v)
  /\ Answers!N = N
<1>1. \A out, u, d : Answers!Leads(out, u, d) = Leads(out, u, d)
  BY Zenon DEF Leads, Answers!Leads
<1>2. \A s, E : Answers!CombinedOver(s, E) = CombinedOver(s, E)
  BY Zenon DEF Answers!CombinedOver, CombinedOver, Answers!MapThenFoldSet, MapThenFoldSet,
               Answers!Merge, Merge
<1>3. \A out, s, d : Answers!Received(out, s, d) = Received(out, s, d)
  BY <1>2, Zenon DEF Answers!EdgesInto, EdgesInto, Answers!Received, Received
<1>4. Answers!N = N
  BY Zenon DEF Answers!N, N, Answers!Cardinality, Cardinality
<1>5. \A out, v : Answers!Within(out, v) = Within(out, v)
  BY Zenon DEF Answers!Within, Within
<1>6. \A out, v : Answers!ComponentLabel(out, v) = ComponentLabel(out, v)
  BY <1>4, <1>5, Zenon DEF Answers!ComponentLabel, ComponentLabel
<1>7. \A out, v : Answers!Distance(out, v) = Distance(out, v)
  <2>1. ASSUME NEW out, NEW u, NEW v
        PROVE  Answers!DistanceFrom(out, u, v) = DistanceFrom(out, u, v)
    <3>1. Answers!Within(out, u) = Within(out, u)
      BY <1>5
    <3> QED
      BY <1>4, <3>1 DEF Answers!DistanceFrom, DistanceFrom
  <2> QED
    BY <2>1, Zenon DEF Answers!Distance, Distance
<1> QED
  BY <1>1, <1>3, <1>4, <1>6, <1>7

\* So is what they suppose.
LEMMA SameSuppositions ==
  /\ RunsCC => Answers!RunsCC
  /\ RunsSSSP => Answers!RunsSSSP
  /\ CombinesLeast => Answers!ReceivesLeast
<1>1. \A a, b : Answers!MinCombine(a, b) = MinCombine(a, b)
  BY Zenon DEF Answers!MinCombine, MinCombine
<1>2. CombinesLeast => Answers!CombinesLeast
  BY <1>1, Zenon DEF Answers!CombinesLeast, CombinesLeast
<1>3. ASSUME NEW s, NEW v, NEW x, NEW in, NEW degree
      PROVE  Answers!CCCompute(s, v, x, in, degree) = CCCompute(s, v, x, in, degree)
  BY Zenon DEF Answers!CCCompute, CCCompute, Answers!Result, Result, Answers!Improved, Improved
<1>4. ASSUME NEW s, NEW v, NEW x, NEW in, NEW degree
      PROVE  Answers!SSSPCompute(s, v, x, in, degree) = SSSPCompute(s, v, x, in, degree)
  BY Zenon DEF Answers!SSSPCompute, SSSPCompute, Answers!Result, Result,
               Answers!Improved, Improved
<1>5. Is("cc", CCCompute) => Answers!Is("cc", Answers!CCCompute)
  BY <1>3, Zenon DEF Is, Answers!Is
<1>6. Is("sssp", SSSPCompute) => Answers!Is("sssp", Answers!SSSPCompute)
  BY <1>4, Zenon DEF Is, Answers!Is
<1>7. \A out : Undirected(out) => Answers!Undirected(out)
  BY SameNotions, Zenon DEF Undirected, Answers!Undirected
<1>8. RunsCC => Answers!RunsCC
  BY <1>2, <1>5, <1>7, Zenon DEF RunsCC, Answers!RunsCC
<1>9. RunsSSSP => Answers!RunsSSSP
  BY <1>2, <1>6, SameNotions, Zenon DEF RunsSSSP, Answers!RunsSSSP
<1>10. CombinesLeast => Answers!ReceivesLeast
  <2> SUFFICES ASSUME CombinesLeast, NEW out \in [Vertices -> Seq(Vertices)],
                      NEW s \in [Vertices -> Messages \cup {None}], NEW d \in Vertices
               PROVE  LET in == Answers!Received(out, s, d)
                      IN  /\ in \in Messages \cup {None}
                          /\ in # None =>
                               \E u \in Vertices : Answers!Leads(out, u, d) /\ s[u] = in
                          /\ \A u \in Vertices : Answers!Leads(out, u, d) /\ s[u] # None =>
                               in # None /\ in <= s[u]
    BY Zenon DEF Answers!ReceivesLeast, Answers!Graphs
  <2> DEFINE in == Received(out, s, d)
  <2>1. /\ in \in Messages \cup {None}
        /\ in # None => \E u \in Vertices : Leads(out, u, d) /\ s[u] = in
        /\ \A u \in Vertices : Leads(out, u, d) /\ s[u] # None => in # None /\ in <= s[u]
    BY ReceivedIsLeast DEF Maybe
  <2>2. Answers!Received(out, s, d) = in
    BY SameNotions
  <2>3. \A u \in Vertices : Answers!Leads(out, u, d) <=> Leads(out, u, d)
    BY SameNotions
  <2> HIDE DEF in
  <2> QED
    BY <2>1, <2>2, <2>3
<1> QED
  BY <1>8, <1>9, <1>10

\* So is the superstep semantics.
LEMMA SameSupersteps == Superstep!Spec => Answers!Spec
<1>1. Superstep!Init => Answers!Init
  BY DEF Superstep!Init, Answers!Init
<1>2. Superstep!Next => Answers!Next
  BY DEF Superstep!Next, Answers!Next, Superstep!Compute, Answers!Compute,
         Superstep!NextSuperstep, Answers!NextSuperstep, Superstep!Return, Answers!Return,
         Superstep!InSuperstep, Answers!InSuperstep, Superstep!Runnable, Answers!Runnable,
         Superstep!vars, Answers!vars, Superstep!Received, Answers!Received,
         Superstep!CombinedOver, Answers!CombinedOver, Superstep!EdgesInto, Answers!EdgesInto,
         Superstep!MapThenFoldSet, Answers!MapThenFoldSet, Superstep!Merge, Answers!Merge
<1>3. [Superstep!Next]_(Superstep!vars) => [Answers!Next]_(Answers!vars)
  BY <1>2 DEF Superstep!vars, Answers!vars
<1> QED
  BY <1>1, <1>3, PTL DEF Superstep!Spec, Answers!Spec

\* What those proofs take from the modules they extend.
LEMMA SameAssumptions ==
  Answers!VerticesAssumption /\ Answers!NoneAssumption /\ Answers!JobsAssumption
BY VerticesAssumption, NoneAssumption, JobsAssumption, Zenon DEF IsFiniteSet, Answers!IsFiniteSet

\* cc.c labels every vertex with the least identifier of its component, in the pull version
\* for every undirected graph and every team of threads.
THEOREM SingleBroadcastFindsComponents ==
  ASSUME ProgramTyped, RunsCC PROVE Spec => []CCResult
<1>1. CombinesLeast
  BY DEF RunsCC
<1>2. OrderFree
  BY <1>1, LeastOrderFree
<1>3. Answers!RunsCC /\ Answers!ReceivesLeast
  BY <1>1, SameSuppositions
<1>4. Answers!ComponentsFound => CCResult
  <2>1. Terminated => AnyAt({"exit"})
    BY ThreadsAssumption DEF Terminated, AllAt, AnyAt
  <2> QED
    BY <2>1, SameNotions DEF CCResult, Answers!ComponentsFound
<1> QED
  BY <1>2, <1>3, <1>4, SingleBroadcastImplementsBSP, SameSupersteps, SameAssumptions,
     Answers!ComponentsInSupersteps, PTL DEF ImplementsBSP

\* sssp.c labels every vertex with its distance from the source, in the pull version
\* for every graph and every team of threads.
THEOREM SingleBroadcastFindsDistances ==
  ASSUME ProgramTyped, RunsSSSP PROVE Spec => []SSSPResult
<1>1. CombinesLeast
  BY DEF RunsSSSP
<1>2. OrderFree
  BY <1>1, LeastOrderFree
<1>3. Answers!RunsSSSP /\ Answers!ReceivesLeast
  BY <1>1, SameSuppositions
<1>4. Answers!DistancesFound => SSSPResult
  <2>1. Terminated => AnyAt({"exit"})
    BY ThreadsAssumption DEF Terminated, AllAt, AnyAt
  <2> QED
    BY <2>1, SameNotions DEF SSSPResult, Answers!DistancesFound
<1> QED
  BY <1>2, <1>3, <1>4, SingleBroadcastImplementsBSP, SameSupersteps, SameAssumptions,
     Answers!DistancesInSupersteps, PTL DEF ImplementsBSP
==============================================================================
