--------------------------- MODULE Combiner_proofs ---------------------------
(***************************************************************************)
(* Proofs about Combiner for every team of threads, every graph and every  *)
(* program that keeps to its types: the threads agree on leaving the loop  *)
(* of ip_run, and use the mailboxes as Mailbox assumes, so that what       *)
(* Mailbox_proofs says of the mailboxes holds inside ip_run.               *)
(***************************************************************************)
EXTENDS Combiner, Mailbox_proofs

\* The phases of the loop of ip_run, and the team's moves in them.
LEMMA PhasesApart == Apart(Phases)
BY DEF Apart, Phases

\* A move between two labels of one phase keeps the team together.
LEMMA MoveSamePhase ==
  ASSUME NEW P \in Phases, NEW t \in Threads, NEW from \in P, NEW to \in P,
         Move(t, from, to), pc \in [Threads -> PCs], SamePhase
  PROVE  (\A u \in Threads : pc[u] \in P /\ pc'[u] \in P) /\ SamePhase'
BY PhasesApart, MoveTogether DEF SamePhase

\* A thread's label says in which phase all threads are.
LEMMA AllInPhase ==
  ASSUME SamePhase, NEW P \in Phases, NEW t \in Threads, pc[t] \in P
  PROVE  \A u \in Threads : pc[u] \in P
BY PhasesApart, PhaseOf DEF SamePhase

\* A barrier takes the whole team from one label to the next.
LEMMA BarrierMoves ==
  ASSUME NEW from, NEW to \in PCs, NEW iterations, Barrier(from, to, iterations)
  PROVE  /\ \A u \in Threads : pc[u] = from /\ pc'[u] = to
         /\ pc' \in [Threads -> PCs]
         /\ SamePhase'
<1>1. PICK P \in Phases : to \in P
  BY DEF Phases, PCs
<1>2. pc' = [u \in Threads |-> to]
  BY DEF Barrier
<1> QED
  BY <1>1, <1>2, BarrierTogether DEF SamePhase

------------------------------------------------------------------------------
(* CombinerInv is inductive: one lemma per group of actions.               *)

\* CombinerInv holds initially.
LEMMA CombinerInitInv == Init => CombinerInv
<1> SUFFICES ASSUME Init PROVE CombinerInv
  OBVIOUS
<1> USE DEF Init, TeamInit
<1>1. MailboxInv /\ MailboxTypeOK
  BY MailboxInitInv DEF MailboxInv
<1>2. EngineTypeOK
  BY EngineInitTyped
<1>3. Cardinality(Vertices) \in Nat
  BY VerticesAssumption, FS_CardinalityType
<1>4. NoBroadcast \in [message : Messages \cup {None}, to : Seq(Vertices)]
  BY DEF NoBroadcast
<1>5. TypeOK
  BY <1>1, <1>2, <1>3, <1>4 DEF TypeOK, PCs
<1>6. SamePhase
  BY DEF SamePhase, Phases, Together
<1>7. HeadAgrees /\ SendsInLoop /\ BroadcastHasMessage
  BY DEF HeadAgrees, SendsInLoop, BroadcastHasMessage, NoBroadcast, MailboxInit
<1> QED
  BY <1>1, <1>5, <1>6, <1>7 DEF CombinerInv

\* The test of the loop and the single region at its head.
LEMMA HeadStepInv ==
  ASSUME CombinerInv, NEW t \in Threads, While(t) \/ StartSingle(t) \/ SkipStart(t)
  PROVE  CombinerInv'
<1> USE DEF CombinerInv
<1>1. MailboxInv' /\ MailboxTypeOK'
  BY MailboxUnchanged DEF While, StartSingle, SkipStart, MailboxInv
<1>2. EngineTypeOK'
  BY DEF While, StartSingle, SkipStart, TypeOK, EngineTypeOK, engineVars, boxVars, historyVars
<1>3. BroadcastHasMessage'
  BY DEF While, StartSingle, SkipStart, BroadcastHasMessage
<1>4. CASE While(t)
  <2> USE <1>4 DEF While, countVars
  <2> DEFINE to == IF ip_active_vertices # 0 THEN "entered" ELSE "exit"
  <2>1. Move(t, "while", to)
    OBVIOUS
  <2>2. /\ to \in {"entered", "exit"}
        /\ to = "entered" <=> ip_active_vertices # 0
    OBVIOUS
  <2> HIDE DEF to
  <2>3. SamePhase'
    BY <2>1, <2>2, MoveSamePhase DEF Phases, TypeOK
  <2>4. TypeOK'
    BY <1>1, <1>2, <2>1, <2>2 DEF TypeOK, PCs, Move
  <2>5. HeadAgrees' /\ SendsInLoop'
    BY <2>1, <2>2 DEF HeadAgrees, SendsInLoop, Move, TypeOK, mailboxVars
  <2> QED
    BY <1>1, <1>3, <2>3, <2>4, <2>5
<1>5. CASE StartSingle(t) \/ SkipStart(t)
  <2>1. Move(t, "start", "start_done") /\ UNCHANGED <<todo, active, partial, mailboxVars, broadcast>>
    BY <1>5 DEF StartSingle, SkipStart, EnterSingle, SkipSingle, countVars
  <2>2. /\ SamePhase'
        /\ \A u \in Threads : pc'[u] \in {"start", "start_done"}
    BY <2>1, MoveSamePhase DEF Phases, TypeOK
  <2>3. claimed' \in BOOLEAN
    BY <1>5 DEF StartSingle, SkipStart, EnterSingle, SkipSingle, TypeOK
  <2>4. ip_active_vertices' \in Nat
    BY <1>5 DEF StartSingle, SkipStart, countVars, TypeOK
  <2>5. TypeOK'
    BY <1>1, <1>2, <2>1, <2>3, <2>4 DEF TypeOK, PCs, Move
  <2>6. HeadAgrees'
    BY <2>2 DEF HeadAgrees
  <2>7. SendsInLoop'
    BY <2>1 DEF SendsInLoop, Move, TypeOK, mailboxVars
  <2> QED
    BY <1>1, <1>3, <2>2, <2>5, <2>6, <2>7
<1> QED
  BY <1>4, <1>5

\* The barriers, which find every thread outside ip_send_message.
LEMMA BarrierStepInv ==
  ASSUME CombinerInv, BarrierStep
  PROVE  CombinerInv'
<1> USE DEF CombinerInv, BarrierStep, EnterLoop, BeginCompute, BeginSwap, BeginFinish,
            NextIteration
<1>1. PICK from \in PCs \ {"send"}, to \in PCs, iterations \in SUBSET Vertices :
        /\ Barrier(from, to, iterations)
        /\ to \in {"entered", "exit"} => FALSE
  BY DEF PCs
<1>2. /\ \A u \in Threads : pc[u] = from /\ pc'[u] = to
      /\ pc' \in [Threads -> PCs]
      /\ SamePhase'
  BY <1>1, BarrierMoves
<1>3. claimed' = FALSE /\ todo' \in SUBSET Vertices
  BY <1>1 DEF Barrier
<1>4. MailboxInv' /\ MailboxTypeOK'
  BY MailboxUnchanged DEF MailboxInv
<1>5. EngineTypeOK'
  BY DEF TypeOK, EngineTypeOK, engineVars, boxVars, historyVars, NewHistory, Nothing
<1>6. TypeOK' /\ BroadcastHasMessage'
  BY <1>2, <1>3, <1>4, <1>5 DEF TypeOK, countVars, BroadcastHasMessage
<1>7. HeadAgrees'
  BY <1>1, <1>2 DEF HeadAgrees
<1>8. SendsInLoop'
  BY <1>1, <1>2 DEF SendsInLoop, mailboxVars
<1> QED
  BY <1>2, <1>4, <1>6, <1>7, <1>8

\* An iteration that runs a vertex.
LEMMA ComputeVertexInv ==
  ASSUME ProgramTyped, CombinerInv, NEW t \in Threads, NEW v \in Vertices,
         ComputeVertex(t, v)
  PROVE  CombinerInv'
<1> USE DEF CombinerInv, ComputeVertex
<1>1. MailboxInv' /\ MailboxTypeOK'
  BY MailboxUnchanged DEF MailboxInv
<1>0. PICK outcome \in Outcomes(v) :
        /\ RunVertex(v, outcome)
        /\ active' = [active EXCEPT ![v] = ~outcome.halts]
        /\ partial' = [partial EXCEPT ![t] = IF outcome.halts THEN @ ELSE @ + 1]
        /\ broadcast' = [broadcast EXCEPT ![t] =
             IF outcome.message = None THEN NoBroadcast
             ELSE [message |-> outcome.message, to |-> out_neighbours[v]]]
  BY DEF StartBroadcast
<1>2. /\ outcome.value \in Values \cup {None}
      /\ outcome.message \in Messages \cup {None}
      /\ outcome.halts \in BOOLEAN
      /\ outcome.reads \in BOOLEAN
      /\ out_neighbours[v] \in Seq(Vertices)
  BY OutcomeTyped DEF TypeOK
<1>3. EngineTypeOK'
  BY <1>0, RunVertexTyped DEF TypeOK
<1>4. Move(t, "compute", "send") /\ UNCHANGED <<claimed, mailboxVars, ip_active_vertices>>
  BY DEF TakeIteration
<1>5. todo' \in SUBSET Vertices
  BY DEF TakeIteration, TypeOK
<1>6. active' \in [Vertices -> BOOLEAN]
  BY <1>0, <1>2 DEF TypeOK
<1>7. partial' \in [Threads -> Nat]
  BY <1>0, <1>2 DEF TypeOK
<1>8. /\ broadcast' \in [Threads -> [message : Messages \cup {None}, to : Seq(Vertices)]]
      /\ BroadcastHasMessage'
  BY <1>0, <1>2 DEF TypeOK, NoBroadcast, BroadcastHasMessage
<1>9. SamePhase' /\ \A u \in Threads : pc'[u] \in {"compute", "send", "compute_done"}
  BY <1>4, MoveSamePhase DEF Phases, TypeOK
<1>10. TypeOK'
  BY <1>1, <1>3, <1>4, <1>5, <1>6, <1>7, <1>8 DEF TypeOK, Move, PCs
<1>11. HeadAgrees'
  BY <1>9 DEF HeadAgrees
<1>12. SendsInLoop'
  BY <1>4 DEF SendsInLoop, Move, TypeOK, mailboxVars
<1> QED
  BY <1>1, <1>8, <1>9, <1>10, <1>11, <1>12

\* What a thread's count adds to the counter keeps the types.
LEMMA ReduceTyped ==
  ASSUME TypeOK, NEW t \in Threads, Reduce(t)
  PROVE  ip_active_vertices' \in Nat /\ partial' \in [Threads -> Nat]
BY DEF TypeOK, Reduce

\* The other steps of the compute loop, outside ip_send_message.
LEMMA ComputeLoopInv ==
  ASSUME CombinerInv, NEW t \in Threads, NEW v \in Vertices,
         PassVertex(t, v) \/ BroadcastDone(t) \/ LeaveCompute(t)
  PROVE  CombinerInv'
<1> USE DEF CombinerInv
<1>1. /\ UNCHANGED <<mailboxVars, engineVars, claimed, active>>
      /\ todo' \in SUBSET Vertices
  BY DEF PassVertex, BroadcastDone, EndBroadcast, LeaveCompute, TakeIteration, LeaveLoop, TypeOK
<1>2. MailboxInv' /\ MailboxTypeOK'
  BY <1>1, MailboxUnchanged DEF MailboxInv
<1>3. EngineTypeOK'
  BY <1>1 DEF TypeOK, EngineTypeOK, engineVars, boxVars, historyVars
<1>4. PICK from \in {"compute", "send"}, to \in {"compute", "compute_done"} :
        Move(t, from, to) /\ (from = "send" => send[t] = Idle)
  BY DEF PassVertex, BroadcastDone, EndBroadcast, LeaveCompute, LeaveLoop
<1>5. ip_active_vertices' \in Nat /\ partial' \in [Threads -> Nat]
  BY ReduceTyped DEF PassVertex, BroadcastDone, EndBroadcast, LeaveCompute, countVars, TypeOK
<1>6. /\ broadcast' \in [Threads -> [message : Messages \cup {None}, to : Seq(Vertices)]]
      /\ BroadcastHasMessage'
  <2>1. NoBroadcast \in [message : Messages \cup {None}, to : Seq(Vertices)]
    BY DEF NoBroadcast
  <2>2. CASE UNCHANGED broadcast
    BY <2>2 DEF TypeOK, BroadcastHasMessage
  <2>3. CASE broadcast' = [broadcast EXCEPT ![t] = NoBroadcast]
    <3>1. \A u \in Threads : broadcast'[u] = NoBroadcast \/ broadcast'[u] = broadcast[u]
      BY <2>3 DEF TypeOK
    <3> QED
      BY <2>1, <2>3, <3>1 DEF TypeOK, BroadcastHasMessage, NoBroadcast
  <2> QED
    BY <2>2, <2>3 DEF PassVertex, BroadcastDone, EndBroadcast, LeaveCompute
<1>7. SamePhase' /\ \A u \in Threads : pc'[u] \in {"compute", "send", "compute_done"}
  BY <1>4, MoveSamePhase DEF Phases, TypeOK
<1>8. TypeOK'
  BY <1>1, <1>2, <1>3, <1>4, <1>5, <1>6 DEF TypeOK, Move, PCs
<1>9. HeadAgrees'
  BY <1>7 DEF HeadAgrees
<1>10. SendsInLoop'
  BY <1>1, <1>4 DEF SendsInLoop, Move, TypeOK, mailboxVars
<1> QED
  BY <1>2, <1>6, <1>7, <1>8, <1>9, <1>10

\* ip_broadcast calls ip_send_message for the next out-neighbour.
LEMMA BroadcastNextSends ==
  ASSUME CombinerInv, NEW t \in Threads, BroadcastNext(t)
  PROVE  \E d \in Vertices, m \in Messages : SendMessage(t, d, m)
<1>1. broadcast[t].to \in Seq(Vertices) /\ broadcast[t].to # << >>
  BY DEF CombinerInv, TypeOK, BroadcastNext, SendToNext
<1>2. Head(broadcast[t].to) \in Vertices
  BY <1>1
<1>3. broadcast[t].message \in Messages
  BY <1>1 DEF CombinerInv, BroadcastHasMessage
<1> QED
  BY <1>2, <1>3 DEF BroadcastNext, SendToNext

\* A call of ip_send_message that begins keeps CombinerInv.
LEMMA BroadcastNextInv ==
  ASSUME CombinerInv, NEW t \in Threads, BroadcastNext(t)
  PROVE  CombinerInv'
<1> USE DEF CombinerInv
<1>1. PICK d \in Vertices, m \in Messages : SendMessage(t, d, m)
  BY BroadcastNextSends
<1>2. MailboxInv' /\ MailboxTypeOK'
  BY <1>1, SendMessageInv DEF MailboxInv
<1>3. UNCHANGED <<teamVars, engineVars, active, countVars>>
  BY DEF BroadcastNext, SendToNext
<1>4. EngineTypeOK'
  BY <1>3 DEF TypeOK, EngineTypeOK, engineVars, boxVars, historyVars
<1>5. /\ broadcast' \in [Threads -> [message : Messages \cup {None}, to : Seq(Vertices)]]
      /\ BroadcastHasMessage'
  <2>1. broadcast[t].to \in Seq(Vertices) /\ broadcast[t].to # << >>
    BY DEF TypeOK, BroadcastNext, SendToNext
  <2>2. Tail(broadcast[t].to) \in Seq(Vertices)
    BY <2>1
  <2> QED
    BY <2>1, <2>2 DEF BroadcastNext, SendToNext, TypeOK, BroadcastHasMessage
<1>6. TypeOK' /\ HeadAgrees' /\ SamePhase'
  BY <1>2, <1>3, <1>4, <1>5 DEF TypeOK, HeadAgrees, SamePhase, Together, teamVars, countVars
<1>7. SendsInLoop'
  BY <1>1, <1>3 DEF SendsInLoop, SendMessage, BroadcastNext, SendToNext, teamVars, MailboxInv,
     MailboxTypeOK, MailboxShape
<1> QED
  BY <1>2, <1>5, <1>6, <1>7

\* A step inside ip_send_message.
LEMMA BroadcastStepInv ==
  ASSUME CombinerInv, NEW t \in Threads, BroadcastStep(t)
  PROVE  CombinerInv'
<1> USE DEF CombinerInv, BroadcastStep
<1>1. MailboxInv' /\ MailboxTypeOK'
  BY SendStepInv DEF MailboxInv
<1>2. EngineTypeOK'
  BY DEF TypeOK, EngineTypeOK, engineVars, boxVars, historyVars
<1>3. TypeOK' /\ HeadAgrees' /\ SamePhase' /\ BroadcastHasMessage'
  BY <1>1, <1>2 DEF TypeOK, HeadAgrees, SamePhase, Together, BroadcastHasMessage, teamVars, countVars
<1>4. send[t] # Idle /\ \A u \in Threads \ {t} : send'[u] = send[u]
  BY SendStepLocal
<1>5. SendsInLoop'
  BY <1>4 DEF SendsInLoop, teamVars
<1> QED
  BY <1>1, <1>3, <1>5

\* The mailbox update finds every thread outside ip_send_message.
LEMMA SwapFindsAllIdle ==
  ASSUME CombinerInv, NEW t \in Threads, pc[t] \in {"swap", "swap_done"}
  PROVE  AllIdle
<1>1. {"swap", "swap_done"} \in Phases
  BY DEF Phases
<1>2. \A u \in Threads : pc[u] \in {"swap", "swap_done"}
  BY <1>1, AllInPhase DEF CombinerInv
<1> QED
  BY <1>2 DEF CombinerInv, SendsInLoop, AllIdle

\* The loop of the mailbox update.
LEMMA SwapLoopInv ==
  ASSUME CombinerInv, NEW t \in Threads, NEW v \in Vertices,
         SwapMailbox(t, v) \/ PassMailbox(t, v) \/ LeaveSwap(t)
  PROVE  CombinerInv'
<1> USE DEF CombinerInv
<1>1. PICK to \in {"swap", "swap_done"} : Move(t, "swap", to)
  BY DEF SwapMailbox, PassMailbox, LeaveSwap, LeaveLoop
<1>2. AllIdle
  BY <1>1, SwapFindsAllIdle DEF Move
<1>3. UNCHANGED <<claimed, send, broadcast>> /\ todo' \in SUBSET Vertices
  BY DEF SwapMailbox, PassMailbox, LeaveSwap, TakeIteration, LeaveLoop, ClearNext,
     mailboxVars, TypeOK
<1>4. MailboxInv' /\ MailboxTypeOK'
  BY <1>2, ClearNextInv, MailboxUnchanged
     DEF SwapMailbox, PassMailbox, LeaveSwap, MailboxInv
<1>5. EngineTypeOK'
  <2>1. CASE SwapMailbox(t, v)
    <3>1. message_next[v] \in Messages
      BY <2>1 DEF SwapMailbox, ClearNext, MailboxInv, CombinesIntoFullBox
    <3> QED
      BY <2>1, <3>1 DEF SwapMailbox, TypeOK, EngineTypeOK, historyVars
  <2>2. CASE UNCHANGED engineVars
    BY <2>2 DEF TypeOK, EngineTypeOK, engineVars, boxVars, historyVars
  <2> QED
    BY <2>1, <2>2 DEF PassMailbox, LeaveSwap
<1>6. active' \in [Vertices -> BOOLEAN]
  BY DEF SwapMailbox, PassMailbox, LeaveSwap, TypeOK
<1>7. ip_active_vertices' \in Nat /\ partial' \in [Threads -> Nat]
  <2>1. CASE SwapMailbox(t, v)
    BY <2>1 DEF SwapMailbox, TypeOK
  <2>2. CASE PassMailbox(t, v) \/ LeaveSwap(t)
    BY <2>2, ReduceTyped DEF PassMailbox, LeaveSwap, countVars, TypeOK
  <2> QED
    BY <2>1, <2>2
<1>8. SamePhase' /\ \A u \in Threads : pc'[u] \in {"swap", "swap_done"}
  BY <1>1, MoveSamePhase DEF Phases, TypeOK
<1>9. TypeOK'
  BY <1>1, <1>3, <1>4, <1>5, <1>6, <1>7 DEF TypeOK, Move, PCs
<1>10. HeadAgrees' /\ BroadcastHasMessage'
  BY <1>3, <1>8 DEF HeadAgrees, BroadcastHasMessage
<1>11. SendsInLoop'
  BY <1>2, <1>3 DEF SendsInLoop, AllIdle
<1> QED
  BY <1>4, <1>8, <1>9, <1>10, <1>11

\* The single region that ends a superstep.
LEMMA EndSuperstepInv ==
  ASSUME CombinerInv, NEW t \in Threads, EndSuperstep(t)
  PROVE  CombinerInv'
<1> USE DEF CombinerInv, EndSuperstep, FinishSingle, SkipFinish, EnterSingle, SkipSingle
<1>1. Move(t, "finish", "finish_done") /\ UNCHANGED <<todo, mailboxVars>>
  OBVIOUS
<1>2. MailboxInv' /\ MailboxTypeOK'
  BY MailboxUnchanged DEF MailboxInv
<1>3. EngineTypeOK'
  BY DEF TypeOK, EngineTypeOK, engineVars, boxVars, historyVars
<1>4. claimed' \in BOOLEAN
  BY DEF TypeOK
<1>5. SamePhase' /\ \A u \in Threads : pc'[u] \in {"finish", "finish_done"}
  BY <1>1, MoveSamePhase DEF Phases, TypeOK
<1>6. TypeOK'
  BY <1>1, <1>2, <1>3, <1>4 DEF TypeOK, Move, PCs, countVars
<1>7. HeadAgrees' /\ BroadcastHasMessage'
  BY <1>5 DEF HeadAgrees, BroadcastHasMessage
<1>8. SendsInLoop'
  BY <1>1 DEF SendsInLoop, Move, TypeOK, mailboxVars
<1> QED
  BY <1>2, <1>5, <1>6, <1>7, <1>8

\* Every step keeps the invariant.
LEMMA CombinerNextInv ==
  ASSUME ProgramTyped, CombinerInv, [Next]_vars
  PROVE  CombinerInv'
<1>1. ASSUME NEW t \in Threads, ThreadStep(t) PROVE CombinerInv'
  <2>1. CASE While(t) \/ StartSingle(t) \/ SkipStart(t)
    BY <2>1, HeadStepInv
  <2>2. ASSUME NEW v \in Vertices, ComputeVertex(t, v) PROVE CombinerInv'
    BY <2>2, ComputeVertexInv
  <2>3. ASSUME NEW v \in Vertices, PassVertex(t, v) PROVE CombinerInv'
    BY <2>3, ComputeLoopInv
  <2>4. CASE BroadcastNext(t)
    BY <2>4, BroadcastNextInv
  <2>5. CASE BroadcastStep(t)
    BY <2>5, BroadcastStepInv
  <2>6. CASE BroadcastDone(t) \/ LeaveCompute(t)
    BY <2>6, ComputeLoopInv, VerticesAssumption
  <2>7. ASSUME NEW v \in Vertices, SwapMailbox(t, v) \/ PassMailbox(t, v)
        PROVE  CombinerInv'
    BY <2>7, SwapLoopInv
  <2>8. CASE LeaveSwap(t)
    BY <2>8, SwapLoopInv, VerticesAssumption
  <2>9. CASE EndSuperstep(t)
    BY <2>9, EndSuperstepInv
  <2> QED
    BY <1>1, <2>1, <2>2, <2>3, <2>4, <2>5, <2>6, <2>7, <2>8, <2>9 DEF ThreadStep
<1>2. CASE BarrierStep
  BY <1>2, BarrierStepInv
<1>3. CASE UNCHANGED vars
  <2> USE <1>3 DEF vars, teamVars, countVars
  <2>1. MailboxInv' /\ MailboxTypeOK'
    BY MailboxUnchanged DEF CombinerInv, MailboxInv
  <2>2. EngineTypeOK'
    BY DEF CombinerInv, TypeOK, EngineTypeOK, engineVars, boxVars, historyVars
  <2>3. TypeOK'
    BY <2>1, <2>2 DEF CombinerInv, TypeOK
  <2>4. SamePhase' /\ HeadAgrees' /\ SendsInLoop' /\ BroadcastHasMessage'
    BY DEF CombinerInv, SamePhase, Together, HeadAgrees, SendsInLoop, BroadcastHasMessage, mailboxVars
  <2> QED
    BY <2>1, <2>3, <2>4 DEF CombinerInv
<1> QED
  BY <1>1, <1>2, <1>3 DEF Next

\* Every step of the engine is a step of the mailboxes, or leaves them alone.
LEMMA CombinerNextMailbox ==
  ASSUME CombinerInv, [Next]_vars
  PROVE  [MailboxNext]_mailboxVars
<1>1. ASSUME NEW t \in Threads, BroadcastNext(t) PROVE MailboxNext
  BY <1>1, BroadcastNextSends DEF MailboxNext
<1>2. ASSUME NEW t \in Threads, BroadcastStep(t) PROVE MailboxNext
  BY <1>2 DEF BroadcastStep, MailboxNext
<1>3. ASSUME NEW t \in Threads, NEW v \in Vertices, SwapMailbox(t, v) PROVE MailboxNext
  <2>1. AllIdle
    BY <1>3, SwapFindsAllIdle DEF SwapMailbox, Move
  <2> QED
    BY <1>3, <2>1 DEF SwapMailbox, MailboxNext
<1>4. CASE UNCHANGED vars
  BY <1>4 DEF vars
<1>5. CASE BarrierStep
  BY <1>5 DEF BarrierStep, EnterLoop, BeginCompute, BeginSwap, BeginFinish, NextIteration
<1>6. ASSUME NEW t \in Threads,
             \/ While(t) \/ StartSingle(t) \/ SkipStart(t)
             \/ \E v \in Vertices :
                  ComputeVertex(t, v) \/ PassVertex(t, v) \/ PassMailbox(t, v)
             \/ BroadcastDone(t) \/ LeaveCompute(t) \/ LeaveSwap(t) \/ EndSuperstep(t)
      PROVE  UNCHANGED mailboxVars
  BY <1>6 DEF While, StartSingle, SkipStart, ComputeVertex, PassVertex, PassMailbox,
     BroadcastDone, EndBroadcast, LeaveCompute, LeaveSwap, EndSuperstep
<1> QED
  BY <1>1, <1>2, <1>3, <1>4, <1>5, <1>6 DEF Next, ThreadStep

------------------------------------------------------------------------------
(* CountInv is inductive, given CombinerInv.                               *)

\* The labels of the other phases.
HeadLabels == {"while", "entered", "exit"}
StartLabels == {"start", "start_done"}
SwapLabels == {"swap", "swap_done"}
FinishLabels == {"finish", "finish_done"}

\* A test whether some thread is in a phase, when all threads are in P.
LEMMA PhaseTests ==
  ASSUME NEW f, NEW P \in Phases, \A u \in Threads : f[u] \in P, NEW Q \in Phases
  PROVE  (\E u \in Threads : f[u] \in Q) <=> Q = P
BY PhasesApart, ThreadsAssumption DEF Apart

\* The names of the phases.
LEMMA PhaseNames ==
  /\ StartLabels \in Phases /\ ComputeLabels \in Phases /\ StartLabels # ComputeLabels
  /\ HeadLabels \in Phases /\ HeadLabels # StartLabels
  /\ HeadLabels # ComputeLabels
  /\ SwapLabels \in Phases /\ SwapLabels # StartLabels
  /\ SwapLabels # ComputeLabels
  /\ FinishLabels \in Phases /\ FinishLabels # StartLabels
  /\ FinishLabels # ComputeLabels
BY DEF Phases, HeadLabels, StartLabels, ComputeLabels, SwapLabels, FinishLabels

\* What a move within phase P tells about the tests of CountInv.
LEMMA MoveTests ==
  ASSUME CombinerInv, NEW P \in Phases, NEW t \in Threads, NEW from \in P, NEW to \in P,
         Move(t, from, to)
  PROVE  /\ \A u \in Threads : pc[u] \in P /\ pc'[u] \in P
         /\ AnyAt(StartLabels) <=> P = StartLabels
         /\ AnyAt(StartLabels)' <=> P = StartLabels
         /\ AnyAt(ComputeLabels) <=> P = ComputeLabels
         /\ AnyAt(ComputeLabels)' <=> P = ComputeLabels
<1>1. \A u \in Threads : pc[u] \in P /\ pc'[u] \in P
  BY MoveSamePhase DEF CombinerInv, TypeOK
<1>2. \A Q \in Phases : /\ (\E u \in Threads : pc[u] \in Q) <=> Q = P
                        /\ (\E u \in Threads : pc'[u] \in Q) <=> Q = P
  BY <1>1, PhaseTests
<1> QED
  BY <1>1, <1>2, PhaseNames DEF AnyAt

\* What a barrier tells about them, here and behind it.
LEMMA BarrierTests ==
  ASSUME NEW P \in Phases, NEW Q \in Phases, NEW from \in P, NEW to \in Q, NEW iterations,
         Barrier(from, to, iterations)
  PROVE  /\ \A u \in Threads : pc[u] = from /\ pc'[u] = to
         /\ claimed' = FALSE /\ todo' = iterations
         /\ AnyAt(StartLabels) <=> P = StartLabels
         /\ AnyAt(StartLabels)' <=> Q = StartLabels
         /\ AnyAt(ComputeLabels) <=> P = ComputeLabels
         /\ AnyAt(ComputeLabels)' <=> Q = ComputeLabels
<1>1. /\ \A u \in Threads : pc[u] = from /\ pc'[u] = to
      /\ claimed' = FALSE /\ todo' = iterations
  BY DEF Barrier, AllAt
<1>2. \A R \in Phases : /\ (\E u \in Threads : pc[u] \in R) <=> R = P
                        /\ (\E u \in Threads : pc'[u] \in R) <=> R = Q
  BY <1>1, PhaseTests
<1> QED
  BY <1>1, <1>2, PhaseNames DEF AnyAt

\* With no thread inside a loop, no iteration is left and no share is pending.
LEMMA OutsideLoops ==
  ASSUME CountInv, \A u \in Threads : pc[u] \notin LoopLabels
  PROVE  todo = {} /\ \A u \in Threads : partial[u] = 0
BY DEF CountInv, NobodyLeavesWork, SharesAdded, AnyAt

\* The count is exact where the counting is.
LEMMA CountBecomes ==
  ASSUME ~AnyAt(StartLabels)', NEW tally, NEW total, NEW shares, Counts(tally, total, shares),
         Tally' = tally, ip_active_vertices' = total, partial' = shares
  PROVE  CountExact'
BY DEF CountExact, Counts, StartLabels

\* The count stays exact while nothing that it depends on changes.
LEMMA CountKept ==
  ASSUME ~AnyAt(StartLabels), ~AnyAt(StartLabels)', CountExact, Tally' = Tally,
         UNCHANGED <<ip_active_vertices, partial>>
  PROVE  CountExact'
BY DEF CountExact, Counts, StartLabels

\* The steps outside the loops.
LEMMA CountHead ==
  ASSUME CombinerInv, CountInv, NEW t \in Threads,
         While(t) \/ StartSingle(t) \/ SkipStart(t) \/ EndSuperstep(t)
  PROVE  CountInv'
<1>1. UNCHANGED <<todo, active, partial>>
  BY DEF While, StartSingle, SkipStart, EndSuperstep, FinishSingle, SkipFinish, EnterSingle,
     SkipSingle, countVars
<1>2. pc \in [Threads -> PCs]
  BY DEF CombinerInv, TypeOK
<1>3. CASE While(t)
  <2> DEFINE to == IF ip_active_vertices # 0 THEN "entered" ELSE "exit"
  <2>1. Move(t, "while", to) /\ UNCHANGED <<claimed, ip_active_vertices>>
    BY <1>3 DEF While, countVars
  <2>2. to \in HeadLabels /\ "while" \in HeadLabels
    BY DEF HeadLabels
  <2> HIDE DEF to
  <2>3. /\ \A u \in Threads : pc[u] \in HeadLabels /\ pc'[u] \in HeadLabels
        /\ ~AnyAt(StartLabels) /\ ~AnyAt(StartLabels)'
        /\ ~AnyAt(ComputeLabels) /\ ~AnyAt(ComputeLabels)'
    BY <2>1, <2>2, MoveTests, PhaseNames
  <2>4. todo = {} /\ \A u \in Threads : partial[u] = 0
    BY <2>3, OutsideLoops DEF LoopLabels, HeadLabels
  <2>5. Tally' = Tally
    BY <1>1, <2>3 DEF Tally
  <2>6. CountExact'
    BY <1>1, <2>1, <2>3, <2>5, CountKept DEF CountInv
  <2> QED
    BY <1>1, <2>3, <2>4, <2>6
       DEF CountInv, SingleEntered, NobodyLeavesWork, SharesAdded, AnyAt, HeadLabels
<1>4. CASE StartSingle(t) \/ SkipStart(t)
  <2>1. Move(t, "start", "start_done") /\ claimed'
    BY <1>4 DEF StartSingle, SkipStart, EnterSingle, SkipSingle
  <2>2. /\ \A u \in Threads : pc[u] \in StartLabels /\ pc'[u] \in StartLabels
        /\ AnyAt(StartLabels) /\ AnyAt(StartLabels)'
    <3>1. "start" \in StartLabels /\ "start_done" \in StartLabels
      BY DEF StartLabels
    <3> QED
      BY <2>1, <3>1, MoveTests, PhaseNames
  <2>3. todo = {} /\ \A u \in Threads : partial[u] = 0
    BY <2>2, OutsideLoops DEF LoopLabels, StartLabels
  <2>4. ip_active_vertices' = 0
    BY <1>4, <2>2 DEF StartSingle, SkipStart, SkipSingle, countVars, CountInv, CountExact,
       StartLabels
  <2> QED
    BY <1>1, <2>1, <2>2, <2>3, <2>4
       DEF CountInv, SingleEntered, NobodyLeavesWork, SharesAdded, CountExact, StartLabels
<1>5. CASE EndSuperstep(t)
  <2>1. Move(t, "finish", "finish_done") /\ claimed' /\ UNCHANGED ip_active_vertices
    BY <1>5 DEF EndSuperstep, FinishSingle, SkipFinish, EnterSingle, SkipSingle, countVars
  <2>2. /\ \A u \in Threads : pc[u] \in FinishLabels /\ pc'[u] \in FinishLabels
        /\ ~AnyAt(StartLabels) /\ ~AnyAt(StartLabels)'
        /\ ~AnyAt(ComputeLabels) /\ ~AnyAt(ComputeLabels)'
    <3>1. "finish" \in FinishLabels /\ "finish_done" \in FinishLabels
      BY DEF FinishLabels
    <3> QED
      BY <2>1, <3>1, MoveTests, PhaseNames
  <2>3. todo = {} /\ \A u \in Threads : partial[u] = 0
    BY <2>2, OutsideLoops DEF LoopLabels, FinishLabels
  <2>4. Tally' = Tally
    BY <1>1, <2>2 DEF Tally
  <2>5. CountExact'
    BY <1>1, <2>1, <2>2, <2>4, CountKept DEF CountInv
  <2> QED
    BY <1>1, <2>1, <2>3, <2>5 DEF CountInv, SingleEntered, NobodyLeavesWork, SharesAdded
<1> QED
  BY <1>3, <1>4, <1>5

\* The barriers.  The one before the compute loop finds the counter at 0, since some
\* thread has executed the single region that resets it.
LEMMA CountBarrier ==
  ASSUME CombinerInv, CountInv, BarrierStep
  PROVE  CountInv'
<1>1. UNCHANGED <<active, ip_active_vertices, partial>>
  BY DEF BarrierStep, EnterLoop, BeginCompute, BeginSwap, BeginFinish, NextIteration, countVars
<1>2. CASE EnterLoop
  <2>1. /\ \A u \in Threads : pc[u] = "entered" /\ pc'[u] = "start"
        /\ claimed' = FALSE /\ todo' = {} /\ AnyAt(StartLabels)'
    <3>1. /\ Barrier("entered", "start", {})
          /\ "entered" \in HeadLabels /\ "start" \in StartLabels
      BY <1>2 DEF EnterLoop, HeadLabels, StartLabels
    <3> QED
      BY <3>1, BarrierTests, PhaseNames
  <2>2. \A u \in Threads : partial[u] = 0
    BY <2>1, OutsideLoops DEF LoopLabels
  <2> QED
    BY <1>1, <2>1, <2>2 DEF CountInv, SingleEntered, NobodyLeavesWork, SharesAdded, CountExact,
       StartLabels, AnyAt
<1>3. CASE BeginCompute
  <2>1. /\ \A u \in Threads : pc[u] = "start_done" /\ pc'[u] = "compute"
        /\ claimed' = FALSE /\ todo' = Vertices /\ AnyAt(StartLabels) /\ ~AnyAt(StartLabels)'
        /\ AnyAt(ComputeLabels)'
    <3>1. /\ Barrier("start_done", "compute", Vertices)
          /\ "start_done" \in StartLabels /\ "compute" \in ComputeLabels
      BY <1>3 DEF BeginCompute, StartLabels, ComputeLabels
    <3> QED
      BY <3>1, BarrierTests, PhaseNames
  <2>2. \A u \in Threads : partial[u] = 0
    BY <2>1, OutsideLoops DEF LoopLabels
  <2>3. ip_active_vertices = 0
    BY <2>1, ThreadsAssumption
       DEF CountInv, SingleEntered, CountExact, StartLabels, AnyAt
  <2>4. Tally' = {}
    BY <2>1 DEF Tally
  <2>5. Counts({}, 0, partial)
    BY <2>2, CountNothing
  <2>6. CountExact'
    BY <1>1, <2>1, <2>3, <2>4, <2>5, CountBecomes
  <2>7. AnyAt(LoopLabels)'
    BY <2>1, ThreadsAssumption DEF AnyAt, LoopLabels
  <2> QED
    BY <1>1, <2>1, <2>2, <2>6, <2>7
       DEF CountInv, SingleEntered, NobodyLeavesWork, SharesAdded, AnyAt
<1>4. CASE BeginSwap
  <2>1. /\ \A u \in Threads : pc[u] = "compute_done" /\ pc'[u] = "swap"
        /\ claimed' = FALSE /\ todo' = Vertices /\ ~AnyAt(StartLabels) /\ ~AnyAt(StartLabels)'
        /\ ~AnyAt(ComputeLabels)'
    <3>1. /\ Barrier("compute_done", "swap", Vertices)
          /\ "compute_done" \in ComputeLabels /\ "swap" \in SwapLabels
      BY <1>4 DEF BeginSwap, ComputeLabels, SwapLabels
    <3>2. /\ \A u \in Threads : pc[u] = "compute_done" /\ pc'[u] = "swap"
          /\ claimed' = FALSE /\ todo' = Vertices
          /\ AnyAt(StartLabels) <=> ComputeLabels = StartLabels
          /\ AnyAt(StartLabels)' <=> SwapLabels = StartLabels
          /\ AnyAt(ComputeLabels) <=> ComputeLabels = ComputeLabels
          /\ AnyAt(ComputeLabels)' <=> SwapLabels = ComputeLabels
      BY <3>1, BarrierTests, PhaseNames
    <3> QED
      BY <3>2, PhaseNames
  <2>2. todo = {} /\ \A u \in Threads : partial[u] = 0
    BY <2>1, OutsideLoops DEF LoopLabels
  <2>3. Tally' = Tally
    BY <1>1, <2>1, <2>2 DEF Tally
  <2>4. CountExact'
    BY <1>1, <2>1, <2>3, CountKept DEF CountInv
  <2>5. AnyAt(LoopLabels)'
    BY <2>1, ThreadsAssumption DEF AnyAt, LoopLabels
  <2> QED
    BY <1>1, <2>1, <2>2, <2>4, <2>5
       DEF CountInv, SingleEntered, NobodyLeavesWork, SharesAdded, AnyAt
<1>5. CASE BeginFinish \/ NextIteration
  <2>1. PICK from \in {"swap_done", "finish_done"}, to \in {"finish", "while"} :
          /\ \A u \in Threads : pc[u] = from /\ pc'[u] = to
          /\ claimed' = FALSE /\ todo' = {} /\ ~AnyAt(StartLabels) /\ ~AnyAt(StartLabels)'
          /\ ~AnyAt(ComputeLabels) /\ ~AnyAt(ComputeLabels)'
    <3>1. CASE BeginFinish
      <4>1. /\ Barrier("swap_done", "finish", {})
            /\ "swap_done" \in SwapLabels /\ "finish" \in FinishLabels
        BY <3>1 DEF BeginFinish, SwapLabels, FinishLabels
      <4>2. /\ \A u \in Threads : pc[u] = "swap_done" /\ pc'[u] = "finish"
            /\ claimed' = FALSE /\ todo' = {}
            /\ AnyAt(StartLabels) <=> SwapLabels = StartLabels
            /\ AnyAt(StartLabels)' <=> FinishLabels = StartLabels
            /\ AnyAt(ComputeLabels) <=> SwapLabels = ComputeLabels
            /\ AnyAt(ComputeLabels)' <=> FinishLabels = ComputeLabels
        BY <4>1, BarrierTests, PhaseNames
      <4> QED
        BY <4>2, PhaseNames
    <3>2. CASE NextIteration
      <4>1. /\ Barrier("finish_done", "while", {})
            /\ "finish_done" \in FinishLabels
            /\ "while" \in HeadLabels
        BY <3>2 DEF NextIteration, FinishLabels, HeadLabels
      <4>2. /\ \A u \in Threads : pc[u] = "finish_done" /\ pc'[u] = "while"
            /\ claimed' = FALSE /\ todo' = {}
            /\ AnyAt(StartLabels) <=> FinishLabels = StartLabels
            /\ AnyAt(StartLabels)' <=> HeadLabels = StartLabels
            /\ AnyAt(ComputeLabels) <=> FinishLabels = ComputeLabels
            /\ AnyAt(ComputeLabels)' <=> HeadLabels = ComputeLabels
        BY <4>1, BarrierTests, PhaseNames
      <4> QED
        BY <4>2, PhaseNames
    <3> QED
      BY <1>5, <3>1, <3>2
  <2>5. \A u \in Threads : partial[u] = 0
    BY <2>1, OutsideLoops DEF LoopLabels
  <2>6. Tally' = Tally
    BY <1>1, <2>1 DEF Tally
  <2>7. CountExact'
    BY <1>1, <2>1, <2>6, CountKept DEF CountInv
  <2> QED
    BY <1>1, <2>1, <2>5, <2>7 DEF CountInv, SingleEntered, NobodyLeavesWork, SharesAdded, AnyAt
<1> QED
  BY <1>2, <1>3, <1>4, <1>5 DEF BarrierStep

\* The moves between the labels of a loop leave the other parts of CountInv true.
LEMMA CountInLoop ==
  ASSUME CombinerInv, CountInv, NEW t \in Threads, NEW P \in {ComputeLabels, SwapLabels},
         NEW from \in P, NEW to \in P \cap LoopLabels, Move(t, from, to),
         \A u \in Threads \ {t} : partial'[u] = partial[u]
  PROVE  SingleEntered' /\ NobodyLeavesWork' /\ SharesAdded'
<1>1. P \in Phases
  BY PhaseNames
<1>2. \A u \in Threads : pc'[u] \in P
  BY <1>1, MoveTests
<1>3. SingleEntered'
  BY <1>2 DEF SingleEntered, AnyAt, ComputeLabels, SwapLabels
<1>4. /\ pc'[t] \in LoopLabels
      /\ \A u \in Threads \ {t} : pc'[u] = pc[u]
  BY DEF Move, CombinerInv, TypeOK
<1> QED
  BY <1>3, <1>4 DEF NobodyLeavesWork, SharesAdded, AnyAt, CountInv

\* An iteration of the compute loop counts its vertex if it stays active.
LEMMA CountCompute ==
  ASSUME ProgramTyped, CombinerInv, CountInv, NEW t \in Threads, NEW v \in Vertices,
         ComputeVertex(t, v)
  PROVE  CountInv'
<1>1. Move(t, "compute", "send") /\ v \in todo /\ todo' = todo \ {v} /\ UNCHANGED ip_active_vertices
  BY DEF ComputeVertex, TakeIteration
<1>2. PICK outcome \in Outcomes(v) :
        /\ active' = [active EXCEPT ![v] = ~outcome.halts]
        /\ partial' = [partial EXCEPT ![t] = IF outcome.halts THEN @ ELSE @ + 1]
  BY DEF ComputeVertex
<1>3. outcome.halts \in BOOLEAN
  BY OutcomeTyped DEF CombinerInv, TypeOK
<1>4. "compute" \in ComputeLabels /\ "send" \in ComputeLabels /\ "send" \in LoopLabels
  BY DEF ComputeLabels, LoopLabels
<1>5. /\ ~AnyAt(StartLabels) /\ ~AnyAt(StartLabels)'
      /\ AnyAt(ComputeLabels) /\ AnyAt(ComputeLabels)'
  BY <1>1, <1>4, MoveTests, PhaseNames
<1>6. active \in [Vertices -> BOOLEAN] /\ partial \in [Threads -> Nat] /\ todo \subseteq Vertices
  BY DEF CombinerInv, TypeOK
<1>7. SingleEntered' /\ NobodyLeavesWork' /\ SharesAdded'
  <2>1. \A u \in Threads \ {t} : partial'[u] = partial[u]
    BY <1>2, <1>6
  <2> QED
    BY <1>1, <1>4, <2>1, CountInLoop
<1>8. Tally \in SUBSET Vertices /\ v \notin Tally /\ Counts(Tally, ip_active_vertices, partial)
  BY <1>1, <1>5 DEF Tally, CountInv, CountExact, StartLabels
<1>9. CASE outcome.halts
  <2>1. Tally' = Tally /\ partial' = partial
    BY <1>1, <1>2, <1>5, <1>6, <1>9 DEF Tally
  <2> QED
    BY <1>1, <1>5, <1>7, <2>1, CountKept DEF CountInv
<1>10. CASE ~outcome.halts
  <2>1. Tally' = Tally \cup {v}
    BY <1>1, <1>2, <1>5, <1>6, <1>10 DEF Tally
  <2>2. partial' = [partial EXCEPT ![t] = @ + 1]
    BY <1>2, <1>10
  <2>3. Counts(Tally \cup {v}, ip_active_vertices, [partial EXCEPT ![t] = @ + 1])
    BY <1>6, <1>8, CountInShare
  <2>4. CountExact'
    BY <1>1, <1>5, <2>1, <2>2, <2>3, CountBecomes
  <2> QED
    BY <1>7, <2>4 DEF CountInv
<1> QED
  BY <1>3, <1>9, <1>10

\* The steps of the two loops that count nothing.
LEMMA CountPass ==
  ASSUME CombinerInv, CountInv, NEW t \in Threads, NEW v \in Vertices,
         PassVertex(t, v) \/ BroadcastDone(t) \/ PassMailbox(t, v)
  PROVE  CountInv'
<1>1. UNCHANGED <<active, partial, ip_active_vertices>>
  BY DEF PassVertex, BroadcastDone, EndBroadcast, PassMailbox, countVars
<1>2. CASE PassVertex(t, v) \/ BroadcastDone(t)
  <2>1. PICK from \in {"compute", "send"} : Move(t, from, "compute")
    BY <1>2 DEF PassVertex, BroadcastDone, EndBroadcast
  <2>2. from \in ComputeLabels /\ "compute" \in ComputeLabels \cap LoopLabels
    BY DEF ComputeLabels, LoopLabels
  <2>3. /\ ~AnyAt(StartLabels) /\ ~AnyAt(StartLabels)'
        /\ AnyAt(ComputeLabels) /\ AnyAt(ComputeLabels)'
    BY <2>1, <2>2, MoveTests, PhaseNames
  <2>4. Tally' = Tally
    <3>1. CASE PassVertex(t, v)
      BY <1>1, <2>3, <3>1 DEF PassVertex, TakeIteration, Runnable, Tally
    <3>2. CASE BroadcastDone(t)
      BY <1>1, <2>3, <3>2 DEF BroadcastDone, EndBroadcast, Tally
    <3> QED
      BY <1>2, <3>1, <3>2
  <2> QED
    BY <1>1, <2>1, <2>2, <2>3, <2>4, CountKept, CountInLoop DEF CountInv
<1>3. CASE PassMailbox(t, v)
  <2>1. Move(t, "swap", "swap") /\ "swap" \in SwapLabels \cap LoopLabels
    BY <1>3 DEF PassMailbox, LoopLabels, SwapLabels
  <2>2. /\ ~AnyAt(StartLabels) /\ ~AnyAt(StartLabels)'
        /\ ~AnyAt(ComputeLabels) /\ ~AnyAt(ComputeLabels)'
    BY <2>1, MoveTests, PhaseNames
  <2>3. Tally' = Tally
    BY <1>1, <2>2 DEF Tally
  <2> QED
    BY <1>1, <2>1, <2>2, <2>3, CountKept, CountInLoop DEF CountInv
<1> QED
  BY <1>2, <1>3

\* The update of a mailbox counts a vertex that was not active, and no other.
LEMMA CountSwap ==
  ASSUME CombinerInv, CountInv, NEW t \in Threads, NEW v \in Vertices, SwapMailbox(t, v)
  PROVE  CountInv'
<1>1. /\ Move(t, "swap", "swap") /\ "swap" \in SwapLabels \cap LoopLabels
      /\ active' = [active EXCEPT ![v] = TRUE]
      /\ partial' = [partial EXCEPT ![t] = IF active[v] THEN @ ELSE @ + 1]
      /\ UNCHANGED ip_active_vertices
  BY DEF SwapMailbox, LoopLabels, SwapLabels
<1>2. /\ ~AnyAt(StartLabels) /\ ~AnyAt(StartLabels)'
      /\ ~AnyAt(ComputeLabels) /\ ~AnyAt(ComputeLabels)'
  BY <1>1, MoveTests, PhaseNames
<1>3. active \in [Vertices -> BOOLEAN] /\ partial \in [Threads -> Nat]
  BY DEF CombinerInv, TypeOK
<1>4. SingleEntered' /\ NobodyLeavesWork' /\ SharesAdded'
  <2>1. \A u \in Threads \ {t} : partial'[u] = partial[u]
    BY <1>1, <1>3
  <2> QED
    BY <1>1, <2>1, CountInLoop
<1>5. Tally \in SUBSET Vertices /\ Counts(Tally, ip_active_vertices, partial)
  BY <1>2 DEF Tally, CountInv, CountExact, StartLabels
<1>6. CASE active[v]
  <2>1. Tally' = Tally /\ partial' = partial
    BY <1>1, <1>2, <1>3, <1>6 DEF Tally
  <2> QED
    BY <1>1, <1>2, <1>4, <2>1, CountKept DEF CountInv
<1>7. CASE ~active[v]
  <2>1. Tally' = Tally \cup {v} /\ v \notin Tally
    BY <1>1, <1>2, <1>3, <1>7 DEF Tally
  <2>2. partial' = [partial EXCEPT ![t] = @ + 1]
    BY <1>1, <1>7
  <2>3. Counts(Tally \cup {v}, ip_active_vertices, [partial EXCEPT ![t] = @ + 1])
    BY <1>3, <1>5, <2>1, CountInShare
  <2>4. CountExact'
    BY <1>1, <1>2, <2>1, <2>2, <2>3, CountBecomes
  <2> QED
    BY <1>4, <2>4 DEF CountInv
<1> QED
  BY <1>6, <1>7

\* At the end of a loop, a thread's share goes into the counter.
LEMMA CountLeave ==
  ASSUME CombinerInv, CountInv, NEW t \in Threads, LeaveCompute(t) \/ LeaveSwap(t)
  PROVE  CountInv'
<1>1. PICK P \in {ComputeLabels, SwapLabels}, from \in PCs, to \in PCs :
        /\ from \in P /\ to \in P
        /\ Move(t, from, to)
        /\ todo = {} \/ \E u \in Threads \ {t} : pc[u] \in LoopLabels
        /\ UNCHANGED <<claimed, todo, active>>
        /\ Reduce(t)
  BY DEF LeaveCompute, LeaveSwap, LeaveLoop, ComputeLabels, SwapLabels, LoopLabels, PCs
<1>2. P \in Phases /\ P # StartLabels
  BY PhaseNames
<1>3. /\ \A u \in Threads : pc'[u] \in P
      /\ ~AnyAt(StartLabels) /\ ~AnyAt(StartLabels)'
      /\ AnyAt(ComputeLabels) <=> AnyAt(ComputeLabels)'
  BY <1>1, <1>2, MoveTests
<1>4. \A u \in Threads \ {t} : pc'[u] = pc[u]
  BY <1>1 DEF Move, CombinerInv, TypeOK
<1>5. partial \in [Threads -> Nat]
  BY DEF CombinerInv, TypeOK
<1>6. /\ ip_active_vertices' = ip_active_vertices + partial[t]
      /\ partial' = [partial EXCEPT ![t] = 0]
  BY <1>1 DEF Reduce
<1>7. SingleEntered'
  BY <1>3 DEF SingleEntered, AnyAt, ComputeLabels, SwapLabels
<1>8. NobodyLeavesWork'
  BY <1>1, <1>4 DEF NobodyLeavesWork, AnyAt
<1>9. SharesAdded'
  BY <1>4, <1>5, <1>6 DEF SharesAdded, CountInv
<1>10. CountExact'
  <2>1. Tally \in SUBSET Vertices /\ Tally' = Tally
    BY <1>1, <1>3 DEF Tally
  <2>2. Counts(Tally, ip_active_vertices, partial)
    BY <1>3 DEF CountInv, CountExact, StartLabels
  <2>3. Counts(Tally, ip_active_vertices + partial[t], [partial EXCEPT ![t] = 0])
    BY <1>5, <2>1, <2>2, CountShareAdded
  <2> QED
    BY <1>3, <1>6, <2>1, <2>3, CountBecomes
<1> QED
  BY <1>7, <1>8, <1>9, <1>10 DEF CountInv

\* CountInv holds initially...
LEMMA CountInitInv == Init => CountInv
<1> SUFFICES ASSUME Init PROVE CountInv
  OBVIOUS
<1>1. /\ \A u \in Threads : pc[u] = "while" /\ partial[u] = 0
      /\ todo = {} /\ ip_active_vertices = Cardinality(Vertices)
      /\ active = [v \in Vertices |-> TRUE]
  BY DEF Init, TeamInit
<1>2. Tally = Vertices
  BY <1>1 DEF Tally
<1>6. Counts(Tally, ip_active_vertices, partial)
  BY <1>1, <1>2, CountMerged
<1> QED
  BY <1>1, <1>6 DEF CountInv, SingleEntered, NobodyLeavesWork, SharesAdded, CountExact, AnyAt

\* ... and after every step.
LEMMA CountNextInv ==
  ASSUME ProgramTyped, CombinerInv, CountInv, [Next]_vars
  PROVE  CountInv'
<1>1. ASSUME NEW t \in Threads, ThreadStep(t) PROVE CountInv'
  <2>1. CASE While(t) \/ StartSingle(t) \/ SkipStart(t) \/ EndSuperstep(t)
    BY <2>1, CountHead
  <2>2. ASSUME NEW v \in Vertices, ComputeVertex(t, v) PROVE CountInv'
    BY <2>2, CountCompute
  <2>3. ASSUME NEW v \in Vertices, PassVertex(t, v) \/ BroadcastDone(t) \/ PassMailbox(t, v)
        PROVE  CountInv'
    BY <2>3, CountPass
  <2>4. CASE BroadcastDone(t)
    BY <2>3, <2>4, VerticesAssumption
  <2>5. CASE BroadcastNext(t) \/ BroadcastStep(t)
    <3>1. UNCHANGED <<teamVars, active, countVars>>
      BY <2>5 DEF BroadcastNext, SendToNext, BroadcastStep
    <3> QED
      BY <3>1 DEF teamVars, countVars, CountInv, SingleEntered, NobodyLeavesWork, SharesAdded,
         CountExact, Counts, Tally, AnyAt
  <2>6. CASE LeaveCompute(t) \/ LeaveSwap(t)
    BY <2>6, CountLeave
  <2>7. ASSUME NEW v \in Vertices, SwapMailbox(t, v) PROVE CountInv'
    BY <2>7, CountSwap
  <2> QED
    BY <1>1, <2>1, <2>2, <2>3, <2>4, <2>5, <2>6, <2>7 DEF ThreadStep
<1>2. CASE BarrierStep
  BY <1>2, CountBarrier
<1>3. CASE UNCHANGED vars
  BY <1>3 DEF vars, teamVars, countVars, CountInv, SingleEntered, NobodyLeavesWork, SharesAdded,
     CountExact, Counts, Tally, AnyAt
<1> QED
  BY <1>1, <1>2, <1>3 DEF Next

\* At the head of the loop no share is pending, and every active vertex is counted.
LEMMA CountAtHead ==
  ASSUME CombinerInv, CountInv PROVE ActiveCount
<1> SUFFICES ASSUME NEW t \in Threads,
                    pc[t] \in {"while", "entered", "exit"}
             PROVE  ip_active_vertices = Cardinality({v \in Vertices : active[v]})
  BY DEF ActiveCount, AnyAt
<1>1. \A u \in Threads : pc[u] \in HeadLabels
  BY AllInPhase, PhaseNames DEF CombinerInv, HeadLabels
<1>2. ~AnyAt(StartLabels) /\ ~AnyAt(ComputeLabels)
  BY <1>1 DEF AnyAt, StartLabels, ComputeLabels, HeadLabels
<1>3. \A u \in Threads : partial[u] = 0
  BY <1>1, OutsideLoops DEF LoopLabels, HeadLabels
<1>4. Tally = {v \in Vertices : active[v]}
  BY <1>2 DEF Tally
<1>5. Counts(Tally, ip_active_vertices, partial)
  BY <1>2 DEF CountInv, CountExact, StartLabels
<1> QED
  BY <1>3, <1>4, <1>5, CountComplete

------------------------------------------------------------------------------
(* DeliveryInv is inductive, given CombinerInv and CountInv.               *)

\* What the lemmas about broadcasts suppose.
LEMMA CombinerBroadcasts == CombinerInv => BroadcastInv
BY DEF CombinerInv, TypeOK, BroadcastInv

\* Outside the two loops no mailbox is full and no call is under way.
LEMMA MailboxesEmpty ==
  ASSUME CombinerInv, DeliveryInv, \A u \in Threads : pc[u] \notin ComputeLabels \cup {"swap"}
  PROVE  (\A d \in Vertices : ~has_message_next[d]) /\ \A u \in Threads : send[u] = Idle
BY DEF CombinerInv, SendsInLoop, ComputeLabels, DeliveryInv, MailboxesSwapped, AnyAt

\* The steps outside the loops, and the barriers next to them.
LEMMA DeliveryHead ==
  ASSUME CombinerInv, CountInv, DeliveryInv,
         \/ \E t \in Threads : While(t) \/ StartSingle(t) \/ SkipStart(t) \/ EndSuperstep(t)
         \/ EnterLoop \/ BeginFinish \/ NextIteration
  PROVE  DeliveryInv'
<1>1. /\ \A u \in Threads : pc[u] \notin ComputeLabels \cup {"swap"}
      /\ \A u \in Threads : pc'[u] \notin ComputeLabels \cup {"swap"}
      /\ UNCHANGED mailboxVars /\ UNCHANGED active
  <2>1. CASE \E t \in Threads : While(t)
    <3>1. PICK t \in Threads, to \in HeadLabels : Move(t, "while", to)
      BY <2>1 DEF While, HeadLabels
    <3>2. \A u \in Threads : pc[u] \in HeadLabels /\ pc'[u] \in HeadLabels
      <4>1. "while" \in HeadLabels
        BY DEF HeadLabels
      <4> QED
        BY <3>1, <4>1, MoveTests, PhaseNames
    <3> QED
      BY <2>1, <3>2 DEF While, HeadLabels, ComputeLabels
  <2>2. CASE \E t \in Threads : StartSingle(t) \/ SkipStart(t)
    <3>1. PICK t \in Threads : Move(t, "start", "start_done")
      BY <2>2 DEF StartSingle, SkipStart, EnterSingle, SkipSingle
    <3>2. \A u \in Threads : pc[u] \in StartLabels /\ pc'[u] \in StartLabels
      <4>1. "start" \in StartLabels /\ "start_done" \in StartLabels
        BY DEF StartLabels
      <4> QED
        BY <3>1, <4>1, MoveTests, PhaseNames
    <3> QED
      BY <2>2, <3>2 DEF StartSingle, SkipStart, StartLabels, ComputeLabels
  <2>3. CASE \E t \in Threads : EndSuperstep(t)
    <3>1. PICK t \in Threads : Move(t, "finish", "finish_done")
      BY <2>3 DEF EndSuperstep, FinishSingle, SkipFinish, EnterSingle, SkipSingle
    <3>2. \A u \in Threads : pc[u] \in FinishLabels /\ pc'[u] \in FinishLabels
      <4>1. "finish" \in FinishLabels /\ "finish_done" \in FinishLabels
        BY DEF FinishLabels
      <4> QED
        BY <3>1, <4>1, MoveTests, PhaseNames
    <3> QED
      BY <2>3, <3>2 DEF EndSuperstep, FinishLabels, ComputeLabels
  <2>4. CASE EnterLoop \/ BeginFinish \/ NextIteration
    BY <2>4 DEF EnterLoop, BeginFinish, NextIteration, Barrier, AllAt, ComputeLabels
  <2> QED
    BY <2>1, <2>2, <2>3, <2>4
<1>2. (\A d \in Vertices : ~has_message_next[d]) /\ \A u \in Threads : send[u] = Idle
  BY <1>1, MailboxesEmpty
<1>3. MailboxesSwapped'
  BY <1>1, <1>2 DEF MailboxesSwapped, mailboxVars
<1>4. RunsOnce' /\ ArrivedExact'
  BY <1>1 DEF RunsOnce, ArrivedExact, AnyAt
<1>5. SendsForBroadcast'
  BY <1>1, <1>2 DEF SendsForBroadcast, mailboxVars
<1>6. SomeActive'
  <2>1. ASSUME NEW t \in Threads, While(t) PROVE SomeActive'
    <3>1. ASSUME ip_active_vertices # 0 PROVE \E v \in Vertices : active[v]
      <4>1. ip_active_vertices = Cardinality({v \in Vertices : active[v]})
        <5>1. AnyAt({"while", "entered", "exit"})
          BY <2>1 DEF While, Move, AnyAt
        <5> QED
          BY <5>1, CountAtHead DEF ActiveCount
      <4>2. {v \in Vertices : active[v]} # {}
        BY <3>1, <4>1, FS_EmptySet
      <4> QED
        BY <4>2
    <3>2. ASSUME ip_active_vertices = 0
          PROVE  AnyAt({"entered", "start", "start_done"})' =>
                   AnyAt({"entered", "start", "start_done"})
      BY <2>1, <3>2 DEF While, Move, AnyAt, CombinerInv, TypeOK
    <3> QED
      BY <1>1, <3>1, <3>2 DEF SomeActive, DeliveryInv
  <2>2. ASSUME NEW t \in Threads, StartSingle(t) \/ SkipStart(t) PROVE SomeActive'
    <3>1. pc[t] = "start"
      BY <2>2 DEF StartSingle, SkipStart, EnterSingle, SkipSingle, Move
    <3> QED
      BY <1>1, <3>1 DEF SomeActive, DeliveryInv, AnyAt
  <2>3. ASSUME NEW t \in Threads, EndSuperstep(t) PROVE SomeActive'
    <3>1. Move(t, "finish", "finish_done")
      BY <2>3 DEF EndSuperstep, FinishSingle, SkipFinish, EnterSingle, SkipSingle
    <3>2. \A u \in Threads : pc'[u] \in FinishLabels
      <4>1. "finish" \in FinishLabels /\ "finish_done" \in FinishLabels
        BY DEF FinishLabels
      <4> QED
        BY <3>1, <4>1, MoveTests, PhaseNames
    <3> QED
      BY <3>2 DEF SomeActive, AnyAt, FinishLabels
  <2>4. CASE EnterLoop
    <3>1. AnyAt({"entered", "start", "start_done"})
      BY <2>4, ThreadsAssumption DEF EnterLoop, Barrier, AllAt, AnyAt
    <3> QED
      BY <1>1, <3>1 DEF SomeActive, DeliveryInv
  <2>5. CASE BeginFinish \/ NextIteration
    BY <2>5 DEF BeginFinish, NextIteration, Barrier, SomeActive, AnyAt
  <2> QED
    BY <2>1, <2>2, <2>3, <2>4, <2>5
<1> QED
  BY <1>3, <1>4, <1>5, <1>6 DEF DeliveryInv

\* In the compute loop only what has arrived and who runs is to be shown.
LEMMA DeliveryInCompute ==
  ASSUME \A u \in Threads : pc'[u] \in ComputeLabels,
         RunsOnce', SendsForBroadcast', ArrivedExact'
  PROVE  DeliveryInv'
<1>1. AnyAt(ComputeLabels)'
  BY ThreadsAssumption DEF AnyAt
<1>2. SomeActive'
  BY DEF SomeActive, AnyAt, ComputeLabels
<1> QED
  BY <1>1, <1>2 DEF DeliveryInv, MailboxesSwapped

\* The steps of the compute loop.
LEMMA DeliveryBegin ==
  ASSUME CombinerInv, DeliveryInv, BeginCompute
  PROVE  DeliveryInv'
<1>1. \A u \in Threads : pc[u] = "start_done" /\ pc'[u] = "compute"
  BY DEF BeginCompute, Barrier, AllAt
<1>2. /\ todo' = Vertices /\ ran' = {} /\ sent' = Nothing
      /\ UNCHANGED <<active, mailboxVars>>
  BY DEF BeginCompute, Barrier, NewHistory
<1>3. \E v \in Vertices : active[v]
  BY <1>1, ThreadsAssumption DEF DeliveryInv, SomeActive, AnyAt
<1>4. RunsOnce'
  BY <1>2, <1>3 DEF RunsOnce, Nothing
<1>5. \A u \in Threads : send[u] = Idle
  BY <1>1 DEF CombinerInv, SendsInLoop
<1>6. SendsForBroadcast'
  BY <1>2, <1>5 DEF SendsForBroadcast, mailboxVars
<1>7. \A d \in Vertices : ~has_message_next[d]
  BY <1>1, MailboxesEmpty DEF ComputeLabels
<1>8. ArrivedExact'
  BY <1>1, <1>2, <1>7, CombinerBroadcasts, ArrivedBegin DEF BeginCompute, jobVars
<1> QED
  BY <1>1, <1>4, <1>6, <1>8, DeliveryInCompute DEF ComputeLabels

\* A vertex that runs.
LEMMA DeliveryCompute ==
  ASSUME ProgramTyped, CombinerInv, DeliveryInv, NEW t \in Threads, NEW v \in Vertices,
         ComputeVertex(t, v)
  PROVE  DeliveryInv'
<1>1. /\ Move(t, "compute", "send") /\ v \in todo /\ todo' = todo \ {v}
      /\ pc[t] = "compute" /\ \A u \in Threads \ {t} : pc'[u] = pc[u]
      /\ UNCHANGED mailboxVars
  BY DEF ComputeVertex, TakeIteration, Move, CombinerInv, TypeOK
<1>2. /\ ran' = ran \cup {v}
      /\ \A w \in Vertices \ {v} : /\ sent'[w] = sent[w]
                                   /\ active'[w] = active[w]
                                   /\ has_message'[w] = has_message[w]
      /\ \A u \in Threads \ {t} : broadcast'[u] = broadcast[u]
  BY DEF ComputeVertex, StartBroadcast, RunVertex, CombinerInv, TypeOK, EngineTypeOK
<1>3. AnyAt(ComputeLabels)
  BY <1>1 DEF AnyAt, ComputeLabels
<1>4. RunsOnce'
  BY <1>1, <1>2, <1>3 DEF RunsOnce, Runnable, DeliveryInv, CombinerInv, TypeOK
<1>5. SendsForBroadcast'
  <2>1. send[t] = Idle
    BY <1>1 DEF CombinerInv, SendsInLoop
  <2>2. \A u \in Threads : send[u] = Idle \/ (Sending(u)' <=> Sending(u))
    BY <1>1, <1>2, <2>1 DEF Sending
  <2> QED
    BY <1>1, <2>2, SendsKept DEF mailboxVars, DeliveryInv
<1>6. \A u \in Threads : pc'[u] \in ComputeLabels
  <2>1. "compute" \in ComputeLabels /\ "send" \in ComputeLabels
    BY DEF ComputeLabels
  <2> QED
    BY <1>1, <2>1, MoveTests, PhaseNames
<1>7. ArrivedExact'
  <2>1. sent[v] = None
    BY <1>1, <1>3 DEF RunsOnce, DeliveryInv, CombinerInv, TypeOK
  <2>2. PICK outcome : /\ sent' = [sent EXCEPT ![v] = outcome.message]
                       /\ StartBroadcast(t, v, outcome)
                       /\ UNCHANGED out_neighbours
    BY DEF ComputeVertex, RunVertex, jobVars
  <2>3. pc'[t] = "send"
    BY <1>1 DEF Move, CombinerInv, TypeOK
  <2> QED
    BY <1>1, <2>1, <2>2, <2>3, CombinerBroadcasts, ArrivedCompute DEF DeliveryInv
<1> QED
  BY <1>4, <1>5, <1>6, <1>7, DeliveryInCompute

\* The other steps of the compute loop that send nothing: a vertex is passed, a thread
\* leaves the loop or ends a broadcast.
LEMMA DeliveryPass ==
  ASSUME CombinerInv, CountInv, DeliveryInv, NEW t \in Threads, NEW v \in Vertices,
         PassVertex(t, v) \/ LeaveCompute(t) \/ BroadcastDone(t)
  PROVE  DeliveryInv'
<1>1. PICK from \in ComputeLabels, to \in ComputeLabels :
        /\ Move(t, from, to)
        /\ send[t] = Idle
  BY DEF PassVertex, LeaveCompute, LeaveLoop, BroadcastDone, EndBroadcast, ComputeLabels, Move, CombinerInv,
     SendsInLoop
<1>2. /\ UNCHANGED <<ran, sent, active, has_message, mailboxVars>>
      /\ \A u \in Threads \ {t} : pc'[u] = pc[u] /\ broadcast'[u] = broadcast[u]
  BY DEF PassVertex, LeaveCompute, LeaveLoop, BroadcastDone, EndBroadcast, Move, CombinerInv, TypeOK,
     engineVars, boxVars, historyVars
<1>3. todo' = todo \/ (v \in todo /\ todo' = todo \ {v} /\ ~Runnable(v))
  BY DEF PassVertex, TakeIteration, LeaveCompute, LeaveLoop, BroadcastDone, EndBroadcast
<1>4. AnyAt(ComputeLabels)
  BY <1>1 DEF AnyAt, Move
<1>5. RunsOnce'
  BY <1>2, <1>3, <1>4 DEF RunsOnce, Runnable, DeliveryInv
<1>6. SendsForBroadcast'
  <2>1. \A u \in Threads : send[u] = Idle \/ (Sending(u)' <=> Sending(u))
    BY <1>1, <1>2 DEF Sending
  <2> QED
    BY <1>2, <2>1, SendsKept DEF mailboxVars, DeliveryInv
<1>7. \A u \in Threads : pc'[u] \in ComputeLabels
  BY <1>1, MoveTests, PhaseNames
<1>8. ArrivedExact'
  <2>1. UNCHANGED <<sent, out_neighbours, mailboxVars>>
    BY <1>2 DEF PassVertex, LeaveCompute, BroadcastDone, engineVars, jobVars
  <2>2. CASE BroadcastDone(t)
    <3>1. EndBroadcast(t) /\ pc'[t] = "compute"
      BY <2>2 DEF BroadcastDone, EndBroadcast, Move, CombinerInv, TypeOK
    <3> QED
      BY <1>2, <2>1, <3>1, CombinerBroadcasts, ArrivedDone DEF DeliveryInv
  <2>3. CASE PassVertex(t, v) \/ LeaveCompute(t)
    <3>1. pc[t] = "compute" /\ pc'[t] # "send" /\ UNCHANGED broadcast
      BY <2>3 DEF PassVertex, LeaveCompute, LeaveLoop, Move, CombinerInv, TypeOK
    <3> QED
      BY <1>2, <2>1, <3>1, ArrivedPass DEF DeliveryInv
  <2> QED
    BY <2>2, <2>3
<1> QED
  BY <1>5, <1>6, <1>7, <1>8, DeliveryInCompute

\* The calls of ip_send_message.
LEMMA DeliverySend ==
  ASSUME OrderFree, IntegralMessages, CombinerInv, DeliveryInv, NEW t \in Threads,
         BroadcastNext(t) \/ BroadcastStep(t)
  PROVE  DeliveryInv'
<1>1. ArrivedExact' /\ SendsForBroadcast'
  <2>1. UNCHANGED <<pc, sent, out_neighbours>>
    BY DEF BroadcastNext, BroadcastStep, teamVars, engineVars, jobVars, historyVars
  <2>2. CASE BroadcastNext(t)
    BY <2>1, <2>2, CombinerBroadcasts, ArrivedNext DEF BroadcastNext, DeliveryInv
  <2>3. CASE BroadcastStep(t)
    BY <2>1, <2>3, CombinerBroadcasts, ArrivedStep DEF BroadcastStep, DeliveryInv
  <2> QED
    BY <2>2, <2>3
<1>2. UNCHANGED <<pc, todo, ran, sent, active, has_message>>
  BY DEF BroadcastNext, SendToNext, BroadcastStep, teamVars, engineVars, boxVars, historyVars
<1>3. pc[t] = "send"
  BY StepDelivers, CombinerBroadcasts DEF BroadcastNext, SendToNext, BroadcastStep, CombinerInv, SendsInLoop
<1>4. \A u \in Threads : pc[u] \in ComputeLabels
  BY <1>3, AllInPhase, PhaseNames DEF CombinerInv, ComputeLabels
<1>5. RunsOnce'
  BY <1>2 DEF RunsOnce, Runnable, AnyAt, DeliveryInv
<1> QED
  BY <1>1, <1>2, <1>4, <1>5, DeliveryInCompute

\* The steps of the mailbox update.
LEMMA DeliverySwap ==
  ASSUME CombinerInv, DeliveryInv,
         \/ BeginSwap
         \/ \E t \in Threads : LeaveSwap(t) \/ \E v \in Vertices : SwapMailbox(t, v) \/ PassMailbox(t, v)
  PROVE  DeliveryInv'
<1>1. CASE BeginSwap
  <2>1. /\ \A u \in Threads : pc[u] = "compute_done" /\ pc'[u] = "swap"
        /\ todo' = Vertices /\ UNCHANGED mailboxVars
    BY <1>1 DEF BeginSwap, Barrier, AllAt
  <2>2. MailboxesSwapped'
    BY <2>1, ThreadsAssumption DEF MailboxesSwapped, AnyAt
  <2>3. RunsOnce' /\ SomeActive' /\ ArrivedExact'
    BY <2>1 DEF RunsOnce, SomeActive, ArrivedExact, AnyAt, ComputeLabels
  <2>4. SendsForBroadcast'
    BY <2>1 DEF SendsForBroadcast, CombinerInv, SendsInLoop, mailboxVars
  <2> QED
    BY <2>2, <2>3, <2>4 DEF DeliveryInv
<1>2. ASSUME NEW t \in Threads,
             LeaveSwap(t) \/ \E v \in Vertices : SwapMailbox(t, v) \/ PassMailbox(t, v)
      PROVE  DeliveryInv'
  <2>1. PICK to \in SwapLabels : Move(t, "swap", to)
    BY <1>2 DEF LeaveSwap, LeaveLoop, SwapMailbox, PassMailbox, SwapLabels
  <2>2. \A u \in Threads : pc[u] \in SwapLabels /\ pc'[u] \in SwapLabels
    <3>1. "swap" \in SwapLabels
      BY DEF SwapLabels
    <3> QED
      BY <2>1, <3>1, MoveTests, PhaseNames
  <2>3. RunsOnce' /\ SomeActive' /\ ArrivedExact'
    BY <2>2 DEF RunsOnce, SomeActive, ArrivedExact, AnyAt, ComputeLabels, SwapLabels
  <2>4. \A u \in Threads : send[u] = Idle
    BY <2>2 DEF CombinerInv, SendsInLoop, SwapLabels
  <2>5. UNCHANGED send
    BY <1>2 DEF LeaveSwap, SwapMailbox, PassMailbox, ClearNext, mailboxVars
  <2>6. SendsForBroadcast'
    BY <2>4, <2>5 DEF SendsForBroadcast
  <2>7. \A d \in Vertices : has_message_next[d] => d \in todo
    BY <2>2 DEF DeliveryInv, MailboxesSwapped, AnyAt, ComputeLabels, SwapLabels
  <2>8. MailboxesSwapped'
    <3>1. CASE LeaveSwap(t)
      <4>1. /\ todo = {} \/ \E u \in Threads \ {t} : pc[u] = "swap"
            /\ UNCHANGED <<todo, has_message_next>>
            /\ \A u \in Threads \ {t} : pc'[u] = pc[u]
        BY <3>1 DEF LeaveSwap, LeaveLoop, Move, mailboxVars, CombinerInv, TypeOK
      <4> QED
        BY <2>7, <4>1 DEF MailboxesSwapped, AnyAt
    <3>2. ASSUME NEW v \in Vertices, SwapMailbox(t, v) \/ PassMailbox(t, v)
          PROVE  MailboxesSwapped'
      <4>1. /\ todo' = todo \ {v} /\ pc'[t] = "swap"
            /\ \A d \in Vertices \ {v} : has_message_next'[d] = has_message_next[d]
            /\ ~has_message_next'[v]
        BY <3>2 DEF SwapMailbox, PassMailbox, TakeIteration, Move, ClearNext, mailboxVars,
           CombinerInv, TypeOK, MailboxTypeOK, MailboxShape
      <4> QED
        BY <2>7, <4>1 DEF MailboxesSwapped, AnyAt
    <3> QED
      BY <1>2, <3>1, <3>2
  <2> QED
    BY <2>3, <2>6, <2>8 DEF DeliveryInv
<1> QED
  BY <1>1, <1>2

\* DeliveryInv holds initially...
LEMMA DeliveryInitInv == Init => DeliveryInv
<1> SUFFICES ASSUME Init PROVE DeliveryInv
  OBVIOUS
<1>1. /\ \A u \in Threads : pc[u] = "while" /\ send[u] = Idle
      /\ \A d \in Vertices : ~has_message_next[d]
  BY DEF Init, TeamInit, MailboxInit
<1> QED
  BY <1>1 DEF DeliveryInv, MailboxesSwapped, RunsOnce, SomeActive, SendsForBroadcast, ArrivedExact,
     AnyAt, ComputeLabels

\* ... and after every step.
LEMMA DeliveryNextInv ==
  ASSUME ProgramTyped, OrderFree, IntegralMessages, CombinerInv, CountInv, DeliveryInv, [Next]_vars
  PROVE  DeliveryInv'
<1>1. ASSUME NEW t \in Threads, ThreadStep(t) PROVE DeliveryInv'
  <2>1. CASE While(t) \/ StartSingle(t) \/ SkipStart(t) \/ EndSuperstep(t)
    BY <2>1, DeliveryHead
  <2>2. ASSUME NEW v \in Vertices, ComputeVertex(t, v) PROVE DeliveryInv'
    BY <2>2, DeliveryCompute
  <2>3. ASSUME NEW v \in Vertices, PassVertex(t, v) PROVE DeliveryInv'
    BY <2>3, DeliveryPass
  <2>4. CASE BroadcastDone(t) \/ LeaveCompute(t)
    BY <2>4, DeliveryPass, VerticesAssumption
  <2>5. CASE BroadcastNext(t) \/ BroadcastStep(t)
    BY <2>5, DeliverySend
  <2>6. CASE LeaveSwap(t) \/ \E v \in Vertices : SwapMailbox(t, v) \/ PassMailbox(t, v)
    BY <2>6, DeliverySwap
  <2> QED
    BY <1>1, <2>1, <2>2, <2>3, <2>4, <2>5, <2>6 DEF ThreadStep
<1>2. CASE BarrierStep
  BY <1>2, DeliveryHead, DeliveryBegin, DeliverySwap DEF BarrierStep
<1>3. CASE UNCHANGED vars
  <2>1. UNCHANGED <<pc, todo, ran, sent, active, has_message, out_neighbours, broadcast, mailboxVars>>
    BY <1>3 DEF vars, teamVars, engineVars, boxVars, historyVars, jobVars
  <2>2. MailboxesSwapped' /\ RunsOnce' /\ SomeActive' /\ SendsForBroadcast'
    BY <2>1 DEF DeliveryInv, MailboxesSwapped, RunsOnce, Runnable, SomeActive, SendsForBroadcast,
       Sending, AnyAt, mailboxVars
  <2>3. ArrivedExact'
    <3>1. ASSUME AnyAt(ComputeLabels) PROVE ArrivedExact'
      <4>1. PICK sender : Names(sender) /\ Holds(sender)
        BY <3>1 DEF DeliveryInv, ArrivedExact, Names, Holds
      <4>2. \A u \in Threads : Sending(u)' <=> Sending(u)
        BY <2>1 DEF Sending
      <4>3. Names(sender)' /\ Holds(sender)'
        BY <2>1, <4>1, <4>2, NamesKept
      <4> QED
        BY <4>3 DEF ArrivedExact, Names, Holds
    <3> QED
      BY <2>1, <3>1 DEF ArrivedExact, AnyAt
  <2> QED
    BY <2>2, <2>3 DEF DeliveryInv
<1> QED
  BY <1>1, <1>2, <1>3 DEF Next

------------------------------------------------------------------------------
(* The theorems.  Each supposes that ip_compute keeps to its types.        *)

\* The invariant holds in every state of every run of the push version.
THEOREM CombinerInvariant ==
  ASSUME ProgramTyped PROVE Spec => []CombinerInv
<1>1. Init => CombinerInv
  BY CombinerInitInv
<1>2. CombinerInv /\ [Next]_vars => CombinerInv'
  BY CombinerNextInv
<1> QED
  BY <1>1, <1>2, PTL DEF Spec

\* The type invariant of the push version.
THEOREM CombinerTyping ==
  ASSUME ProgramTyped PROVE Spec => []TypeOK
<1>1. CombinerInv => TypeOK
  BY DEF CombinerInv
<1> QED
  BY <1>1, CombinerInvariant, PTL

\* The two together hold in every state of every run.
LEMMA CountInvariant ==
  ASSUME ProgramTyped PROVE Spec => [](CombinerInv /\ CountInv)
<1>1. Init => CombinerInv /\ CountInv
  BY CombinerInitInv, CountInitInv
<1>2. (CombinerInv /\ CountInv) /\ [Next]_vars => (CombinerInv /\ CountInv)'
  BY CombinerNextInv, CountNextInv
<1> QED
  BY <1>1, <1>2, PTL DEF Spec

\* The counter that decides whether ip_run goes round again is the number of active
\* vertices whenever a thread tests it: the reductions of the two loops and the
\* reset between them lose no vertex and count none twice.
THEOREM CounterExact ==
  ASSUME ProgramTyped PROVE Spec => []ActiveCount
<1>1. CombinerInv /\ CountInv => ActiveCount
  BY CountAtHead
<1> QED
  BY <1>1, CountInvariant, PTL

\* The threads agree on leaving the loop of ip_run: those that left it saw a zero
\* counter, which nobody changes before the barrier, so no thread went round again.
THEOREM ThreadsAgree ==
  ASSUME ProgramTyped PROVE Spec => []LoopAgreement
<1>1. CombinerInv => LoopAgreement
  <2> SUFFICES ASSUME CombinerInv, NEW t \in Threads, pc[t] = "exit", NEW u \in Threads
               PROVE  pc[u] \in {"while", "exit"}
    BY DEF LoopAgreement, AnyAt
  <2>1. {"while", "entered", "exit"} \in Phases
    BY DEF Phases
  <2>2. pc[u] \in {"while", "entered", "exit"}
    BY <2>1, AllInPhase DEF CombinerInv
  <2>3. pc[u] # "entered"
    BY DEF CombinerInv, HeadAgrees
  <2> QED
    BY <2>2, <2>3
<1> QED
  BY <1>1, CombinerInvariant, PTL

\* ip_run uses the mailboxes as module Mailbox says: they are emptied only when
\* no thread is inside ip_send_message.
THEOREM CombinerUsesMailboxes ==
  ASSUME ProgramTyped PROVE Spec => UsesMailboxes
<1>1. Init => MailboxInit
  BY DEF Init
<1>2. CombinerInv /\ [Next]_vars => [MailboxNext]_mailboxVars
  BY CombinerNextMailbox
<1> QED
  BY <1>1, <1>2, CombinerInvariant, PTL DEF Spec, UsesMailboxes, MailboxSpec

\* Inside ip_run every message that is sent is delivered exactly once, when the
\* messages are integers.
THEOREM CombinerDelivers ==
  ASSUME ProgramTyped, IntegralMessages PROVE Spec => DeliversAtomically
<1>1. MailboxSpec => DeliversAtomically
  BY MailboxRefinement
<1> QED
  BY <1>1, CombinerUsesMailboxes, PTL DEF UsesMailboxes
------------------------------------------------------------------------------
(* What DeliveryInv gives: the delivery of broadcasts, and the superstep   *)
(* semantics.                                                              *)

\* The three invariants hold in every state of every run.
LEMMA DeliveryInvariant ==
  ASSUME ProgramTyped, OrderFree, IntegralMessages
  PROVE  Spec => [](CombinerInv /\ CountInv /\ DeliveryInv)
<1>1. Init => CombinerInv /\ CountInv /\ DeliveryInv
  BY CombinerInitInv, CountInitInv, DeliveryInitInv
<1>2. (CombinerInv /\ CountInv /\ DeliveryInv) /\ [Next]_vars
        => (CombinerInv /\ CountInv /\ DeliveryInv)'
  BY CombinerNextInv, CountNextInv, DeliveryNextInv
<1> QED
  BY <1>1, <1>2, PTL DEF Spec

\* The postcondition of ip_broadcast: when every thread has left the compute loop,
\* each mailbox holds the combination of everything broadcast to its vertex in this
\* superstep, whatever the graph, and in whichever order the sends of the threads
\* interleaved; for integers and an ip_combine to which the order is the same.
THEOREM BroadcastsArrive ==
  ASSUME ProgramTyped, OrderFree, IntegralMessages
  PROVE  Spec => []BroadcastDelivered
<1>1. CombinerInv /\ CountInv /\ DeliveryInv => BroadcastDelivered
  BY LoopDelivered, CombinerBroadcasts DEF DeliveryInv
<1> QED
  BY <1>1, DeliveryInvariant, PTL

\* The superstep semantics combines the messages as VertexProgram says.
LEMMA SuperstepReceived ==
  ASSUME NEW out, NEW s, NEW v
  PROVE  Superstep!Received(out, s, v) = Received(out, s, v)
BY Zenon DEF Superstep!Received, Received, Superstep!CombinedOver, CombinedOver,
   Superstep!EdgesInto, EdgesInto, Superstep!Merge, Merge, Superstep!MapThenFoldSet, MapThenFoldSet

\* The other variables of the superstep semantics, as ImplementsBSP maps them.
absSuperstep == IF Swapping \/ (Finishing /\ ~claimed) THEN ip_superstep + 1 ELSE ip_superstep
absSent == IF Computing THEN sent ELSE Nothing
absRan == IF Computing THEN ran ELSE {}

\* Which phase the threads are in decides which of the two mailboxes is the one to read.
LEMMA PhaseMapped ==
  ASSUME NEW P \in Phases, NEW Q \in Phases,
         \A u \in Threads : pc[u] \in P, \A u \in Threads : pc'[u] \in Q
  PROVE  /\ Swapping <=> P = SwapLabels
         /\ Swapping' <=> Q = SwapLabels
         /\ Finishing <=> P = FinishLabels
         /\ Finishing' <=> Q = FinishLabels
         /\ Computing <=> P = ComputeLabels
         /\ Computing' <=> Q = ComputeLabels
         /\ AnyAt({"exit"}) => P = HeadLabels
         /\ AnyAt({"exit"})' => Q = HeadLabels
<1>1. \A R \in Phases : /\ (\E u \in Threads : pc[u] \in R) <=> R = P
                        /\ (\E u \in Threads : pc'[u] \in R) <=> R = Q
  BY PhaseTests
<1>2. /\ Swapping <=> P = SwapLabels
      /\ Swapping' <=> Q = SwapLabels
      /\ Finishing <=> P = FinishLabels
      /\ Finishing' <=> Q = FinishLabels
  BY <1>1, PhaseNames DEF Swapping, Finishing, AnyAt, SwapLabels, FinishLabels
<1>3. /\ Computing <=> \E u \in Threads : pc[u] \in ComputeLabels
      /\ Computing' <=> \E u \in Threads : pc'[u] \in ComputeLabels
  <2>1. \A u \in Threads : /\ pc[u] \in {"compute", "send"} => pc[u] \in ComputeLabels
                           /\ pc[u] = "compute_done" => pc[u] \in ComputeLabels
                           /\ pc'[u] \in {"compute", "send"} => pc'[u] \in ComputeLabels
                           /\ pc'[u] = "compute_done" => pc'[u] \in ComputeLabels
    BY DEF ComputeLabels
  <2>2. Computing => \E u \in Threads : pc[u] \in ComputeLabels
    BY <2>1, ThreadsAssumption DEF Computing, AnyAt, AllAt
  <2>3. Computing' => \E u \in Threads : pc'[u] \in ComputeLabels
    BY <2>1, ThreadsAssumption DEF Computing, AnyAt, AllAt
  <2>4. ASSUME \E u \in Threads : pc[u] \in ComputeLabels PROVE Computing
    <3>1. \A u \in Threads : pc[u] \in ComputeLabels
      BY <1>1, <2>4, PhaseNames
    <3> QED
      BY <3>1 DEF Computing, AnyAt, AllAt, ComputeLabels
  <2>5. ASSUME \E u \in Threads : pc'[u] \in ComputeLabels PROVE Computing'
    <3>1. \A u \in Threads : pc'[u] \in ComputeLabels
      BY <1>1, <2>5, PhaseNames
    <3> QED
      BY <3>1 DEF Computing, AnyAt, AllAt, ComputeLabels
  <2> QED
    BY <2>2, <2>3, <2>4, <2>5
<1>4. \A u \in Threads : /\ pc[u] = "exit" => pc[u] \in HeadLabels
                         /\ pc'[u] = "exit" => pc'[u] \in HeadLabels
  BY DEF HeadLabels
<1> QED
  BY <1>1, <1>2, <1>3, <1>4, PhaseNames DEF AnyAt

\* A step that leaves all of this as it was is a stutter.
LEMMA SuperstepKept ==
  ASSUME UNCHANGED <<jobVars, value>>, absSuperstep' = absSuperstep, absActive' = absActive,
         absInbox' = absInbox, absSent' = absSent, absRan' = absRan,
         AnyAt({"exit"})' <=> AnyAt({"exit"})
  PROVE  UNCHANGED Superstep!vars
<1>1. AnyAt({"exit"})' = AnyAt({"exit"})
  BY DEF AnyAt
<1> QED
  BY <1>1 DEF Superstep!vars, jobVars, absSuperstep, absSent, absRan

\* A step that stays in a phase and changes none of the variables mapped stutters.
LEMMA PhaseStutters ==
  ASSUME NEW P \in Phases, P # HeadLabels,
         \A u \in Threads : pc[u] \in P, \A u \in Threads : pc'[u] \in P,
         UNCHANGED <<engineVars, active>>,
         P = FinishLabels => UNCHANGED claimed,
         P = SwapLabels => UNCHANGED <<has_message_next, message_next>>
  PROVE  UNCHANGED Superstep!vars
<1>1. /\ Swapping <=> P = SwapLabels
      /\ Swapping' <=> P = SwapLabels
      /\ Finishing <=> P = FinishLabels
      /\ Finishing' <=> P = FinishLabels
      /\ Computing <=> P = ComputeLabels
      /\ Computing' <=> P = ComputeLabels
      /\ AnyAt({"exit"}) <=> FALSE
      /\ AnyAt({"exit"})' <=> FALSE
  BY PhaseMapped
<1>2. UNCHANGED <<jobVars, value, ip_superstep, sent, ran, has_message, message, active>>
  BY DEF engineVars, boxVars, historyVars
<1>3. absSuperstep' = absSuperstep /\ absSent' = absSent /\ absRan' = absRan
  BY <1>1, <1>2, PhaseNames DEF absSuperstep, absSent, absRan, Nothing
<1>4. absActive' = absActive /\ absInbox' = absInbox
  BY <1>1, <1>2 DEF absActive, absInbox, NextMessage
<1> QED
  BY <1>1, <1>2, <1>3, <1>4, SuperstepKept

\* The steps within a phase that the superstep semantics does not see.
LEMMA QuietSteps ==
  ASSUME CombinerInv, NEW t \in Threads, NEW v \in Vertices,
         \/ StartSingle(t) \/ SkipStart(t) \/ PassVertex(t, v) \/ BroadcastNext(t)
         \/ BroadcastStep(t) \/ BroadcastDone(t) \/ LeaveCompute(t)
         \/ PassMailbox(t, v) \/ LeaveSwap(t) \/ (EndSuperstep(t) /\ SkipFinish(t))
  PROVE  UNCHANGED Superstep!vars
<1>1. CASE StartSingle(t) \/ SkipStart(t)
  <2>1. Move(t, "start", "start_done") /\ UNCHANGED <<engineVars, active>>
    BY <1>1 DEF StartSingle, SkipStart, EnterSingle, SkipSingle
  <2>2. "start" \in StartLabels /\ "start_done" \in StartLabels
    BY DEF StartLabels
  <2>3. \A u \in Threads : pc[u] \in StartLabels /\ pc'[u] \in StartLabels
    BY <2>1, <2>2, MoveTests, PhaseNames
  <2>4. StartLabels # HeadLabels /\ StartLabels # FinishLabels /\ StartLabels # SwapLabels
    BY PhaseNames
  <2> QED
    BY <2>1, <2>3, <2>4, PhaseStutters, PhaseNames
<1>2. CASE \/ PassVertex(t, v) \/ BroadcastNext(t) \/ BroadcastStep(t) \/ BroadcastDone(t)
           \/ LeaveCompute(t)
  <2>1. UNCHANGED <<engineVars, active>>
    BY <1>2 DEF PassVertex, BroadcastNext, SendToNext, BroadcastStep, BroadcastDone, EndBroadcast, LeaveCompute
  <2>2. \A u \in Threads : pc[u] \in ComputeLabels /\ pc'[u] \in ComputeLabels
    <3>1. CASE PassVertex(t, v) \/ BroadcastDone(t) \/ LeaveCompute(t)
      <4>1. PICK from \in ComputeLabels, to \in ComputeLabels : Move(t, from, to)
        BY <3>1 DEF PassVertex, BroadcastDone, EndBroadcast, LeaveCompute, LeaveLoop, ComputeLabels
      <4> QED
        BY <4>1, MoveTests, PhaseNames
    <3>2. CASE BroadcastNext(t) \/ BroadcastStep(t)
      <4>1. send[t] # Idle \/ pc[t] = "send"
        BY <3>2, SendStepLocal DEF BroadcastNext, SendToNext, BroadcastStep, CombinerInv
      <4>2. pc[t] \in ComputeLabels
        BY <4>1 DEF CombinerInv, SendsInLoop, ComputeLabels
      <4>3. UNCHANGED pc
        BY <3>2 DEF BroadcastNext, SendToNext, BroadcastStep, teamVars
      <4> QED
        BY <4>2, <4>3, AllInPhase, PhaseNames DEF CombinerInv
    <3> QED
      BY <1>2, <3>1, <3>2
  <2>3. ComputeLabels # HeadLabels /\ ComputeLabels # FinishLabels /\ ComputeLabels # SwapLabels
    BY PhaseNames
  <2> QED
    BY <2>1, <2>2, <2>3, PhaseStutters, PhaseNames
<1>3. CASE PassMailbox(t, v) \/ LeaveSwap(t)
  <2>1. PICK to \in SwapLabels :
          Move(t, "swap", to) /\ UNCHANGED <<engineVars, active, mailboxVars>>
    BY <1>3 DEF PassMailbox, LeaveSwap, LeaveLoop, SwapLabels
  <2>2. "swap" \in SwapLabels
    BY DEF SwapLabels
  <2>3. \A u \in Threads : pc[u] \in SwapLabels /\ pc'[u] \in SwapLabels
    BY <2>1, <2>2, MoveTests, PhaseNames
  <2>4. SwapLabels # HeadLabels /\ SwapLabels # FinishLabels
    BY DEF SwapLabels, HeadLabels, FinishLabels
  <2>5. UNCHANGED <<has_message_next, message_next>>
    BY <2>1 DEF mailboxVars
  <2> QED
    BY <2>1, <2>3, <2>4, <2>5, PhaseStutters, PhaseNames
<1>4. CASE EndSuperstep(t) /\ SkipFinish(t)
  <2>1. Move(t, "finish", "finish_done") /\ UNCHANGED <<engineVars, active, claimed>>
    BY <1>4 DEF EndSuperstep, SkipFinish, SkipSingle
  <2>2. "finish" \in FinishLabels /\ "finish_done" \in FinishLabels
    BY DEF FinishLabels
  <2>3. \A u \in Threads : pc[u] \in FinishLabels /\ pc'[u] \in FinishLabels
    BY <2>1, <2>2, MoveTests, PhaseNames
  <2>4. FinishLabels # HeadLabels /\ FinishLabels # SwapLabels
    BY DEF SwapLabels, HeadLabels, FinishLabels
  <2> QED
    BY <2>1, <2>3, <2>4, PhaseStutters, PhaseNames
<1> QED
  BY <1>1, <1>2, <1>3, <1>4

\* The first thread that leaves the loop returns: no vertex is active.
LEMMA WhileReturns ==
  ASSUME CombinerInv, CountInv, NEW t \in Threads, While(t)
  PROVE  Superstep!Return \/ UNCHANGED Superstep!vars
<1> DEFINE to == IF ip_active_vertices # 0 THEN "entered" ELSE "exit"
<1>1. /\ Move(t, "while", to)
      /\ UNCHANGED <<claimed, jobVars, value, ip_superstep, sent, ran, has_message, message,
                     has_message_next, message_next, active>>
  BY DEF While, engineVars, boxVars, historyVars, mailboxVars
<1>2. to \in HeadLabels /\ "while" \in HeadLabels
  BY DEF HeadLabels
<1>3. \A u \in Threads : pc[u] \in HeadLabels /\ pc'[u] \in HeadLabels
  <2> HIDE DEF to
  <2> QED
    BY <1>1, <1>2, MoveTests, PhaseNames
<1>4. HeadLabels # SwapLabels /\ HeadLabels # FinishLabels /\ HeadLabels # ComputeLabels
  BY DEF HeadLabels, SwapLabels, FinishLabels, ComputeLabels
<1>5. /\ ~Swapping /\ ~Swapping' /\ ~Finishing /\ ~Finishing' /\ ~Computing /\ ~Computing'
  BY <1>3, <1>4, PhaseMapped, PhaseNames
<1>6. /\ absSuperstep' = absSuperstep /\ absSent' = absSent /\ absRan' = absRan
      /\ absActive' = absActive /\ absInbox' = absInbox
      /\ absRan = {} /\ absActive = [v \in Vertices |-> active[v]]
  BY <1>1, <1>5, CombinerInv
     DEF absSuperstep, absSent, absRan, absActive, absInbox, NextMessage, Nothing,
         CombinerInv, TypeOK
<1>7. CASE AnyAt({"exit"})' <=> AnyAt({"exit"})
  BY <1>1, <1>6, <1>7, SuperstepKept
<1>8. CASE ~(AnyAt({"exit"})' <=> AnyAt({"exit"}))
  <2>1. ip_active_vertices = 0 /\ ~AnyAt({"exit"}) /\ AnyAt({"exit"})'
    BY <1>1, <1>8 DEF Move, AnyAt, CombinerInv, TypeOK
  <2>2. \A v \in Vertices : ~active[v]
    <3>1. AnyAt({"while", "entered", "exit"})
      BY <1>1 DEF Move, AnyAt
    <3>2. Cardinality({v \in Vertices : active[v]}) = 0
      BY <2>1, <3>1, CountAtHead DEF ActiveCount
    <3>3. IsFiniteSet({v \in Vertices : active[v]})
      BY VerticesAssumption, FS_Subset
    <3>4. {v \in Vertices : active[v]} = {}
      BY <3>2, <3>3, FS_EmptySet
    <3> QED
      BY <3>4
  <2>3. ~Superstep!InSuperstep
    BY <1>6, <2>2 DEF Superstep!InSuperstep, absRan
  <2>4. AnyAt({"exit"})' = TRUE /\ AnyAt({"exit"}) = FALSE
    BY <2>1 DEF AnyAt
  <2> QED
    BY <1>1, <1>6, <2>3, <2>4 DEF Superstep!Return, jobVars, absSuperstep, absSent, absRan
<1> QED
  BY <1>7, <1>8

\* The run of a vertex is one step of the superstep semantics.
LEMMA ComputeComputes ==
  ASSUME ProgramTyped, CombinerInv, DeliveryInv, NEW t \in Threads, NEW v \in Vertices,
         ComputeVertex(t, v)
  PROVE  Superstep!Compute(v)
<1>1. /\ Move(t, "compute", "send") /\ v \in todo /\ Runnable(v)
      /\ UNCHANGED <<application, out_neighbours, ip_superstep, message, mailboxVars>>
      /\ ran' = ran \cup {v}
  BY DEF ComputeVertex, TakeIteration, RunVertex, jobVars
<1>2. PICK outcome \in Outcomes(v) :
        /\ value' = [value EXCEPT ![v] = outcome.value]
        /\ has_message' = [has_message EXCEPT ![v] = @ /\ ~outcome.reads]
        /\ sent' = [sent EXCEPT ![v] = outcome.message]
        /\ active' = [active EXCEPT ![v] = ~outcome.halts]
  BY DEF ComputeVertex, RunVertex
<1>3. \A u \in Threads : pc[u] \in ComputeLabels /\ pc'[u] \in ComputeLabels
  <2>1. "compute" \in ComputeLabels /\ "send" \in ComputeLabels
    BY DEF ComputeLabels
  <2> QED
    BY <1>1, <2>1, MoveTests, PhaseNames
<1>4. /\ ~Swapping /\ ~Swapping' /\ ~Finishing /\ ~Finishing' /\ Computing /\ Computing'
      /\ ~AnyAt({"exit"}) /\ ~AnyAt({"exit"})'
  <2>1. ComputeLabels # HeadLabels /\ ComputeLabels # FinishLabels /\ ComputeLabels # SwapLabels
    BY PhaseNames
  <2> QED
    BY <1>3, <2>1, PhaseMapped, PhaseNames
<1>5. active \in [Vertices -> BOOLEAN] /\ has_message \in [Vertices -> BOOLEAN]
  BY DEF CombinerInv, TypeOK, EngineTypeOK
<1>6. /\ absActive = active /\ absActive' = active'
      /\ absInbox = [w \in Vertices |-> NextMessage(w)]
      /\ absInbox' = [w \in Vertices |-> NextMessage(w)']
  BY <1>2, <1>4, <1>5 DEF absActive, absInbox
<1>7. absSuperstep = ip_superstep /\ absSuperstep' = ip_superstep' /\ absSent = sent
      /\ absSent' = sent' /\ absRan = ran /\ absRan' = ran'
  BY <1>4 DEF absSuperstep, absSent, absRan
<1>8. AnyAt(ComputeLabels)
  BY <1>1 DEF Move, AnyAt, ComputeLabels
<1>9. Superstep!InSuperstep
  <2>1. ran # {} \/ \E w \in Vertices : active[w]
    BY <1>8 DEF DeliveryInv, RunsOnce, CombinerInv, TypeOK
  <2> QED
    BY <1>4, <1>6, <1>7, <2>1 DEF Superstep!InSuperstep, absRan
<1>10. v \notin ran
  BY <1>1, <1>8 DEF DeliveryInv, RunsOnce
<1>11. Superstep!Runnable(v)
  <2>1. has_message[v] => message[v] # None
    BY NoneAssumption DEF CombinerInv, TypeOK, EngineTypeOK
  <2> QED
    BY <1>1, <1>6, <2>1 DEF Superstep!Runnable, Runnable, NextMessage
<1>12. outcome \in Program(application, absSuperstep, v, value[v], absInbox[v], Len(out_neighbours[v]))
  BY <1>6, <1>7 DEF Outcomes
<1>13. /\ absActive' = [absActive EXCEPT ![v] = TRUE /\ ~outcome.halts]
       /\ absSent' = [absSent EXCEPT ![v] = outcome.message]
       /\ absRan' = absRan \cup {v}
       /\ absSuperstep' = absSuperstep
  BY <1>1, <1>2, <1>6, <1>7
<1>14. absInbox' = [absInbox EXCEPT ![v] = IF outcome.reads THEN None ELSE @]
  <2>1. \A w \in Vertices \ {v} : NextMessage(w)' = NextMessage(w)
    BY <1>1, <1>2 DEF NextMessage
  <2>2. NextMessage(v)' = IF outcome.reads THEN None ELSE NextMessage(v)
    <3>1. outcome.reads \in BOOLEAN
      BY OutcomeTyped DEF CombinerInv, TypeOK
    <3> QED
      BY <1>1, <1>2, <1>5, <3>1 DEF NextMessage
  <2> QED
    BY <1>6, <2>1, <2>2
<1>15. AnyAt({"exit"})' = AnyAt({"exit"})
  BY <1>4 DEF AnyAt
<1> QED
  BY <1>1, <1>2, <1>9, <1>10, <1>11, <1>12, <1>13, <1>14, <1>15, <1>7
     DEF Superstep!Compute, absSuperstep, absSent, absRan


\* The swap of a mailbox moves what the superstep semantics already holds.
LEMMA SwapStutters ==
  ASSUME CombinerInv, NEW t \in Threads, NEW v \in Vertices, SwapMailbox(t, v)
  PROVE  UNCHANGED Superstep!vars
<1>1. /\ Move(t, "swap", "swap") /\ has_message_next[v]
      /\ has_message_next' = [has_message_next EXCEPT ![v] = FALSE]
      /\ has_message' = [has_message EXCEPT ![v] = TRUE]
      /\ message' = [message EXCEPT ![v] = message_next[v]]
      /\ active' = [active EXCEPT ![v] = TRUE]
      /\ UNCHANGED <<jobVars, value, ip_superstep, sent, ran, message_next>>
  BY DEF SwapMailbox, ClearNext, historyVars
<1>2. \A u \in Threads : pc[u] \in SwapLabels /\ pc'[u] \in SwapLabels
  <2>1. "swap" \in SwapLabels
    BY DEF SwapLabels
  <2> QED
    BY <1>1, <2>1, MoveTests, PhaseNames
<1>3. /\ Swapping /\ Swapping' /\ ~Computing /\ ~Computing'
      /\ ~AnyAt({"exit"}) /\ ~AnyAt({"exit"})'
  <2>1. SwapLabels # HeadLabels /\ SwapLabels # ComputeLabels
    BY DEF SwapLabels, HeadLabels, ComputeLabels
  <2> QED
    BY <1>2, <2>1, PhaseMapped, PhaseNames
<1>4. absSuperstep' = absSuperstep /\ absSent' = absSent /\ absRan' = absRan
  BY <1>1, <1>3 DEF absSuperstep, absSent, absRan, Nothing
<1>5. /\ active \in [Vertices -> BOOLEAN] /\ has_message_next \in [Vertices -> BOOLEAN]
      /\ has_message \in [Vertices -> BOOLEAN] /\ DOMAIN message = Vertices
  BY DEF CombinerInv, TypeOK, EngineTypeOK, MailboxTypeOK, MailboxShape
<1>6. absActive' = absActive
  BY <1>1, <1>3, <1>5 DEF absActive
<1>7. absInbox' = absInbox
  BY <1>1, <1>3, <1>5 DEF absInbox, NextMessage
<1> QED
  BY <1>1, <1>3, <1>4, <1>6, <1>7, SuperstepKept

\* The superstep is counted by the barrier that ends the compute loop; the single
\* region that adds one to ip_superstep makes no difference any more.
LEMMA FinishStutters ==
  ASSUME CombinerInv, NEW t \in Threads, EndSuperstep(t), FinishSingle(t)
  PROVE  UNCHANGED Superstep!vars
<1>1. /\ Move(t, "finish", "finish_done") /\ ~claimed /\ claimed' = TRUE
      /\ ip_superstep' = ip_superstep + 1
      /\ UNCHANGED <<jobVars, has_message, message, value, sent, ran, active>>
  BY DEF EndSuperstep, FinishSingle, EnterSingle, boxVars, historyVars
<1>2. \A u \in Threads : pc[u] \in FinishLabels /\ pc'[u] \in FinishLabels
  <2>1. "finish" \in FinishLabels /\ "finish_done" \in FinishLabels
    BY DEF FinishLabels
  <2> QED
    BY <1>1, <2>1, MoveTests, PhaseNames
<1>3. /\ ~Swapping /\ ~Swapping' /\ Finishing /\ Finishing' /\ ~Computing /\ ~Computing'
      /\ ~AnyAt({"exit"}) /\ ~AnyAt({"exit"})'
  <2>1. FinishLabels # SwapLabels /\ FinishLabels # HeadLabels /\ FinishLabels # ComputeLabels
    BY DEF SwapLabels, HeadLabels, ComputeLabels, FinishLabels
  <2> QED
    BY <1>2, <2>1, PhaseMapped, PhaseNames
<1>4. absSuperstep' = absSuperstep /\ absSent' = absSent /\ absRan' = absRan
  BY <1>1, <1>3 DEF absSuperstep, absSent, absRan, Nothing
<1>5. absActive' = absActive /\ absInbox' = absInbox
  BY <1>1, <1>3 DEF absActive, absInbox, NextMessage
<1> QED
  BY <1>1, <1>3, <1>4, <1>5, SuperstepKept

\* The barriers that the superstep semantics does not see.
LEMMA QuietBarriers ==
  ASSUME CombinerInv, CountInv, DeliveryInv,
         EnterLoop \/ BeginCompute \/ BeginFinish \/ NextIteration
  PROVE  UNCHANGED Superstep!vars
<1>1. UNCHANGED <<jobVars, value, ip_superstep, has_message, message, active,
                  has_message_next, message_next>>
  BY DEF EnterLoop, BeginCompute, BeginFinish, NextIteration, engineVars, boxVars, mailboxVars
<1>2. CASE EnterLoop
  <2>1. "entered" \in HeadLabels /\ "start" \in StartLabels
    BY DEF HeadLabels, StartLabels
  <2>2. Barrier("entered", "start", {})
    BY <1>2 DEF EnterLoop
  <2>3. \A u \in Threads : pc[u] = "entered" /\ pc'[u] = "start"
    BY <2>1, <2>2, BarrierTests, PhaseNames
  <2>4. \A u \in Threads : pc[u] \in HeadLabels /\ pc'[u] \in StartLabels
    BY <2>1, <2>3
  <2>5. /\ HeadLabels # SwapLabels /\ HeadLabels # FinishLabels /\ HeadLabels # ComputeLabels
        /\ StartLabels # SwapLabels /\ StartLabels # FinishLabels /\ StartLabels # ComputeLabels
        /\ StartLabels # HeadLabels
    BY DEF HeadLabels, SwapLabels, FinishLabels, ComputeLabels, StartLabels
  <2>6. /\ ~Swapping /\ ~Swapping' /\ ~Finishing /\ ~Finishing' /\ ~Computing /\ ~Computing'
    BY <2>4, <2>5, PhaseMapped, PhaseNames
  <2>7. ~AnyAt({"exit"}) /\ ~AnyAt({"exit"})'
    BY <2>3 DEF AnyAt
  <2>8. absSuperstep' = absSuperstep /\ absSent' = absSent /\ absRan' = absRan
    BY <1>1, <2>6 DEF absSuperstep, absSent, absRan, Nothing
  <2>9. absActive' = absActive /\ absInbox' = absInbox
    BY <1>1, <2>6 DEF absActive, absInbox, NextMessage
  <2> QED
    BY <1>1, <2>7, <2>8, <2>9, SuperstepKept
<1>3. CASE BeginCompute
  <2>1. "start_done" \in StartLabels /\ "compute" \in ComputeLabels
    BY DEF ComputeLabels, StartLabels
  <2>2. Barrier("start_done", "compute", Vertices)
    BY <1>3 DEF BeginCompute
  <2>3. \A u \in Threads : pc[u] = "start_done" /\ pc'[u] = "compute"
    BY <2>1, <2>2, BarrierTests, PhaseNames
  <2>4. \A u \in Threads : pc[u] \in StartLabels /\ pc'[u] \in ComputeLabels
    BY <2>1, <2>3
  <2>5. /\ ComputeLabels # SwapLabels /\ ComputeLabels # FinishLabels
        /\ StartLabels # SwapLabels /\ StartLabels # FinishLabels /\ StartLabels # ComputeLabels
    BY DEF SwapLabels, FinishLabels, ComputeLabels, StartLabels
  <2>6. /\ ~Swapping /\ ~Swapping' /\ ~Finishing /\ ~Finishing' /\ ~Computing /\ Computing'
    BY <2>4, <2>5, PhaseMapped, PhaseNames
  <2>7. ~AnyAt({"exit"}) /\ ~AnyAt({"exit"})'
    BY <2>3 DEF AnyAt
  <2>8. sent' = Nothing /\ ran' = {}
    BY <1>3 DEF BeginCompute, NewHistory
  <2>9. absSuperstep' = absSuperstep /\ absSent' = absSent /\ absRan' = absRan
    BY <1>1, <2>6, <2>8 DEF absSuperstep, absSent, absRan
  <2>10. absActive' = absActive /\ absInbox' = absInbox
    BY <1>1, <2>6 DEF absActive, absInbox, NextMessage
  <2> QED
    BY <1>1, <2>7, <2>9, <2>10, SuperstepKept
<1>4. CASE BeginFinish
  <2>1. "swap_done" \in SwapLabels /\ "finish" \in FinishLabels
    BY DEF SwapLabels, FinishLabels
  <2>2. Barrier("swap_done", "finish", {})
    BY <1>4 DEF BeginFinish
  <2>3. (\A u \in Threads : pc[u] = "swap_done" /\ pc'[u] = "finish") /\ ~claimed'
    BY <2>1, <2>2, BarrierTests, PhaseNames
  <2>4. \A u \in Threads : pc[u] \in SwapLabels /\ pc'[u] \in FinishLabels
    BY <2>1, <2>3
  <2>5. /\ ComputeLabels # SwapLabels /\ ComputeLabels # FinishLabels
        /\ SwapLabels # FinishLabels
    BY DEF SwapLabels, FinishLabels, ComputeLabels
  <2>6. Swapping /\ ~Swapping' /\ Finishing' /\ ~Computing /\ ~Computing'
    BY <2>4, <2>5, PhaseMapped, PhaseNames
  <2>7. ~AnyAt({"exit"}) /\ ~AnyAt({"exit"})'
    BY <2>3 DEF AnyAt
  <2>8. \A d \in Vertices : ~has_message_next[d]
    BY <2>3, MailboxesEmpty DEF ComputeLabels
  <2>9. absSuperstep' = absSuperstep /\ absSent' = absSent /\ absRan' = absRan
    BY <1>1, <2>3, <2>6 DEF absSuperstep, absSent, absRan, Nothing
  <2>10. absActive' = absActive /\ absInbox' = absInbox
    BY <1>1, <2>6, <2>8 DEF absActive, absInbox, NextMessage
  <2> QED
    BY <1>1, <2>7, <2>9, <2>10, SuperstepKept
<1>5. CASE NextIteration
  <2>1. "finish_done" \in FinishLabels /\ "while" \in HeadLabels
    BY DEF HeadLabels, FinishLabels
  <2>2. Barrier("finish_done", "while", {})
    BY <1>5 DEF NextIteration
  <2>3. \A u \in Threads : pc[u] = "finish_done" /\ pc'[u] = "while"
    BY <2>1, <2>2, BarrierTests, PhaseNames
  <2>4. \A u \in Threads : pc[u] \in FinishLabels /\ pc'[u] \in HeadLabels
    BY <2>1, <2>3
  <2>5. /\ ComputeLabels # HeadLabels /\ ComputeLabels # FinishLabels /\ SwapLabels # HeadLabels
        /\ SwapLabels # FinishLabels /\ HeadLabels # FinishLabels
    BY DEF SwapLabels, FinishLabels, ComputeLabels, HeadLabels
  <2>6. ~Swapping /\ ~Swapping' /\ Finishing /\ ~Finishing' /\ ~Computing /\ ~Computing'
    BY <2>4, <2>5, PhaseMapped, PhaseNames
  <2>7. ~AnyAt({"exit"}) /\ ~AnyAt({"exit"})'
    BY <2>3 DEF AnyAt
  <2>8. claimed
    BY <2>3, ThreadsAssumption DEF CountInv, SingleEntered, AnyAt
  <2>9. absSuperstep' = absSuperstep /\ absSent' = absSent /\ absRan' = absRan
    BY <1>1, <2>6, <2>8 DEF absSuperstep, absSent, absRan, Nothing
  <2>10. absActive' = absActive /\ absInbox' = absInbox
    BY <1>1, <2>6 DEF absActive, absInbox, NextMessage
  <2> QED
    BY <1>1, <2>7, <2>9, <2>10, SuperstepKept
<1> QED
  BY <1>2, <1>3, <1>4, <1>5

\* The barrier behind the compute loop is where the next superstep begins.
LEMMA SwapNextSuperstep ==
  ASSUME OrderFree, CombinerInv, CountInv, DeliveryInv, BeginSwap
  PROVE  Superstep!NextSuperstep
<1>1. /\ Barrier("compute_done", "swap", Vertices)
      /\ UNCHANGED <<application, out_neighbours, value, ip_superstep, has_message, message,
                     sent, ran, active, has_message_next, message_next>>
  BY DEF BeginSwap, engineVars, jobVars, boxVars, historyVars, mailboxVars
<1>2. "compute_done" \in ComputeLabels /\ "swap" \in SwapLabels
  BY DEF ComputeLabels, SwapLabels
<1>3. \A u \in Threads : pc[u] = "compute_done" /\ pc'[u] = "swap"
  BY <1>1, <1>2, BarrierTests, PhaseNames
<1>4. \A u \in Threads : pc[u] \in ComputeLabels /\ pc'[u] \in SwapLabels
  BY <1>2, <1>3
<1>5. /\ ComputeLabels # SwapLabels /\ ComputeLabels # FinishLabels
  BY DEF SwapLabels, FinishLabels, ComputeLabels
<1>6. ~Swapping /\ Swapping' /\ ~Finishing /\ Computing /\ ~Computing'
  BY <1>4, <1>5, PhaseMapped, PhaseNames
<1>7. AnyAt({"exit"}) = FALSE /\ AnyAt({"exit"})' = FALSE
  BY <1>3 DEF AnyAt
<1>8. todo = {}
  BY <1>3 DEF CountInv, NobodyLeavesWork, AnyAt, LoopLabels
<1>9. AnyAt(ComputeLabels) /\ AllAt("compute_done")
  BY <1>3, <1>4, ThreadsAssumption DEF AnyAt, AllAt
<1>10. ran # {} /\ (\A v \in Vertices : Runnable(v) => v \in ran)
  BY <1>8, <1>9 DEF DeliveryInv, RunsOnce
<1>11. \A d \in Vertices : Arrived(d) = Superstep!Received(out_neighbours, sent, d)
  BY <1>9, CombinerBroadcasts, LoopDelivered, SuperstepReceived DEF BroadcastDelivered, DeliveryInv
<1>12. \A d \in Vertices : has_message_next[d] <=> Arrived(d) # None
  BY NoneAssumption DEF Arrived, CombinerInv, MailboxInv, CombinesIntoFullBox
<1>13. /\ active \in [Vertices -> BOOLEAN] /\ has_message_next \in [Vertices -> BOOLEAN]
       /\ \A v \in Vertices : has_message[v] => message[v] # None
  BY NoneAssumption DEF CombinerInv, TypeOK, EngineTypeOK, MailboxTypeOK, MailboxShape
<1>14. \A v \in Vertices : absActive[v] = active[v] /\ absInbox[v] = NextMessage(v)
  BY <1>6, <1>13 DEF absActive, absInbox
<1>15. absSuperstep = ip_superstep /\ absSuperstep' = ip_superstep + 1 /\ absSent = sent
       /\ absSent' = Nothing /\ absRan = ran /\ absRan' = {}
  BY <1>1, <1>6 DEF absSuperstep, absSent, absRan, Nothing
<1>16. \A v \in Vertices : Superstep!Runnable(v) => v \in absRan
  BY <1>10, <1>13, <1>14, <1>15 DEF Superstep!Runnable, Runnable, NextMessage
<1>17. absInbox' = [v \in Vertices |->
         LET new == Superstep!Received(out_neighbours, absSent, v)
         IN  IF new = None /\ TRUE THEN absInbox[v] ELSE new]
  <2>1. absInbox' = [v \in Vertices |-> IF has_message_next[v] THEN message_next[v]
                                        ELSE NextMessage(v)]
    BY <1>1, <1>6 DEF absInbox, NextMessage
  <2>2. \A v \in Vertices : has_message_next[v] => Arrived(v) = message_next[v]
    BY DEF Arrived
  <2> QED
    BY <1>11, <1>12, <1>14, <1>15, <2>1, <2>2
<1>18. absActive' = [v \in Vertices |->
         absActive[v] \/ Superstep!Received(out_neighbours, absSent, v) # None]
  <2>1. absActive' = [v \in Vertices |-> active[v] \/ has_message_next[v]]
    BY <1>1, <1>6 DEF absActive
  <2> QED
    BY <1>11, <1>12, <1>13, <1>14, <1>15, <2>1
<1> QED
  BY <1>1, <1>7, <1>10, <1>15, <1>16, <1>17, <1>18
     DEF Superstep!NextSuperstep, absSuperstep, absSent, absRan, Nothing

\* A run starts where the superstep semantics starts.
LEMMA SuperstepInit == Init => Superstep!Init
<1> SUFFICES ASSUME Init PROVE Superstep!Init
  OBVIOUS
<1>1. \A u \in Threads : pc[u] = "while"
  BY DEF Init, TeamInit
<1>2. ~Swapping /\ ~Finishing /\ ~Computing /\ AnyAt({"exit"}) = FALSE
  BY <1>1, ThreadsAssumption DEF Swapping, Finishing, Computing, AnyAt, AllAt
<1>3. /\ absSuperstep = 0 /\ absSent = Nothing /\ absRan = {}
      /\ absActive = [v \in Vertices |-> TRUE] /\ absInbox = Nothing
  BY <1>2 DEF Init, EngineInit, absSuperstep, absSent, absRan, absActive, absInbox, NextMessage,
     Nothing
<1>4. /\ \E job \in Jobs : application = job[1] /\ out_neighbours = job[2]
      /\ value = Nothing
  BY DEF Init, EngineInit
<1> QED
  BY <1>2, <1>3, <1>4 DEF Superstep!Init, absSuperstep, absSent, absRan, Nothing

\* Every step of ip_run is a step of the superstep semantics, or none.
LEMMA SuperstepStep ==
  ASSUME ProgramTyped, OrderFree, CombinerInv, CountInv, DeliveryInv, [Next]_vars
  PROVE  [Superstep!Next]_(Superstep!vars)
<1>1. ASSUME NEW t \in Threads, ThreadStep(t) PROVE [Superstep!Next]_(Superstep!vars)
  <2>1. CASE While(t)
    BY <2>1, WhileReturns DEF Superstep!Next
  <2>2. CASE \/ StartSingle(t) \/ SkipStart(t) \/ BroadcastNext(t) \/ BroadcastStep(t)
             \/ BroadcastDone(t) \/ LeaveCompute(t) \/ LeaveSwap(t)
    BY <2>2, QuietSteps, VerticesAssumption
  <2>3. ASSUME NEW v \in Vertices, ComputeVertex(t, v) PROVE Superstep!Next
    BY <2>3, ComputeComputes DEF Superstep!Next
  <2>4. ASSUME NEW v \in Vertices, PassVertex(t, v) \/ PassMailbox(t, v)
        PROVE  UNCHANGED Superstep!vars
    BY <2>4, QuietSteps
  <2>5. ASSUME NEW v \in Vertices, SwapMailbox(t, v) PROVE UNCHANGED Superstep!vars
    BY <2>5, SwapStutters
  <2>6. CASE EndSuperstep(t)
    BY <2>6, QuietSteps, FinishStutters, VerticesAssumption DEF EndSuperstep
  <2> QED
    BY <1>1, <2>1, <2>2, <2>3, <2>4, <2>5, <2>6 DEF ThreadStep
<1>2. CASE BarrierStep
  BY <1>2, QuietBarriers, SwapNextSuperstep DEF BarrierStep, Superstep!Next
<1>3. CASE UNCHANGED vars
  <2>1. /\ UNCHANGED <<pc, claimed, jobVars, value, ip_superstep, sent, ran, has_message, message,
                       has_message_next, message_next, active>>
    BY <1>3 DEF vars, teamVars, engineVars, boxVars, historyVars, mailboxVars
  <2>2. (Swapping' <=> Swapping) /\ (Finishing' <=> Finishing) /\ (Computing' <=> Computing)
        /\ (AnyAt({"exit"})' <=> AnyAt({"exit"}))
    BY <2>1 DEF Swapping, Finishing, Computing, AnyAt, AllAt
  <2>3. absSuperstep' = absSuperstep /\ absSent' = absSent /\ absRan' = absRan
    BY <2>1, <2>2 DEF absSuperstep, absSent, absRan, Nothing
  <2>4. absActive' = absActive /\ absInbox' = absInbox
    BY <2>1, <2>2 DEF absActive, absInbox, NextMessage
  <2> QED
    BY <2>1, <2>2, <2>3, <2>4, SuperstepKept
<1> QED
  BY <1>1, <1>2, <1>3 DEF Next

\* ip_run of the push version computes what the superstep semantics says, for every
\* team of threads, every graph and every ip_compute that keeps to its types: however
\* the threads interleave, each vertex runs once per superstep, on the combination
\* of what its in-neighbours broadcast in the one before.
THEOREM CombinerImplementsBSP ==
  ASSUME ProgramTyped, OrderFree, IntegralMessages
  PROVE  Spec => ImplementsBSP
<1>1. Init => Superstep!Init
  BY SuperstepInit
<1>2. CombinerInv /\ CountInv /\ DeliveryInv /\ [Next]_vars => [Superstep!Next]_(Superstep!vars)
  BY SuperstepStep
<1> QED
  BY <1>1, <1>2, DeliveryInvariant, PTL DEF Spec, ImplementsBSP, Superstep!Spec

------------------------------------------------------------------------------
(* What cc.c and sssp.c compute with this version.                         *)

\* The proofs about the superstep semantics, for what this version implements.
Answers == INSTANCE Apps_proofs WITH
  KeepsUnread <- TRUE,
  VotesCount <- TRUE,
  superstep <- IF Swapping \/ (Finishing /\ ~claimed) THEN ip_superstep + 1
               ELSE ip_superstep,
  active <- absActive,
  inbox <- absInbox,
  sent <- IF Computing THEN sent ELSE Nothing,
  ran <- IF Computing THEN ran ELSE {},
  returned <- AnyAt({"exit"})

\* The notions of those proofs are the ones of this module.
LEMMA SameNotions ==
  /\ \A out, u, d : Answers!Leads(out, u, d) = Leads(out, u, d)
  /\ \A out, s, d : Answers!Received(out, s, d) = Received(out, s, d)
  /\ \A out, v : Answers!ComponentLabel(out, v) = ComponentLabel(out, v)
  /\ \A out, v : Answers!Distance(out, v) = Distance(out, v)
  /\ Answers!N = N
<1>1. \A out, u, d : Answers!Leads(out, u, d) = Leads(out, u, d)
  BY Zenon DEF Leads, Answers!Leads
<1>2. \A s, E : Answers!CombinedOver(s, E) = CombinedOver(s, E)
  BY Zenon DEF Answers!CombinedOver, CombinedOver, Answers!MapThenFoldSet, MapThenFoldSet,
               Answers!Merge, Merge
<1>3. \A out, s, d : Answers!Received(out, s, d) = Received(out, s, d)
  BY <1>2, Zenon DEF Answers!EdgesInto, EdgesInto, Answers!Received, Received
<1>4. Answers!N = N
  BY Zenon DEF Answers!N, N, Answers!Cardinality, Cardinality
<1>5. \A out, v : Answers!Within(out, v) = Within(out, v)
  BY Zenon DEF Answers!Within, Within
<1>6. \A out, v : Answers!ComponentLabel(out, v) = ComponentLabel(out, v)
  BY <1>4, <1>5, Zenon DEF Answers!ComponentLabel, ComponentLabel
<1>7. \A out, v : Answers!Distance(out, v) = Distance(out, v)
  <2>1. ASSUME NEW out, NEW u, NEW v
        PROVE  Answers!DistanceFrom(out, u, v) = DistanceFrom(out, u, v)
    <3>1. Answers!Within(out, u) = Within(out, u)
      BY <1>5
    <3> QED
      BY <1>4, <3>1 DEF Answers!DistanceFrom, DistanceFrom
  <2> QED
    BY <2>1, Zenon DEF Answers!Distance, Distance
<1> QED
  BY <1>1, <1>3, <1>4, <1>6, <1>7

\* So is what they suppose.
LEMMA SameSuppositions ==
  /\ RunsCC => Answers!RunsCC
  /\ RunsSSSP => Answers!RunsSSSP
  /\ CombinesLeast => Answers!ReceivesLeast
<1>1. \A a, b : Answers!MinCombine(a, b) = MinCombine(a, b)
  BY Zenon DEF Answers!MinCombine, MinCombine
<1>2. CombinesLeast => Answers!CombinesLeast
  BY <1>1, Zenon DEF Answers!CombinesLeast, CombinesLeast
<1>3. ASSUME NEW s, NEW v, NEW x, NEW in, NEW degree
      PROVE  Answers!CCCompute(s, v, x, in, degree) = CCCompute(s, v, x, in, degree)
  BY Zenon DEF Answers!CCCompute, CCCompute, Answers!Result, Result, Answers!Improved, Improved
<1>4. ASSUME NEW s, NEW v, NEW x, NEW in, NEW degree
      PROVE  Answers!SSSPCompute(s, v, x, in, degree) = SSSPCompute(s, v, x, in, degree)
  BY Zenon DEF Answers!SSSPCompute, SSSPCompute, Answers!Result, Result,
               Answers!Improved, Improved
<1>5. Is("cc", CCCompute) => Answers!Is("cc", Answers!CCCompute)
  BY <1>3, Zenon DEF Is, Answers!Is
<1>6. Is("sssp", SSSPCompute) => Answers!Is("sssp", Answers!SSSPCompute)
  BY <1>4, Zenon DEF Is, Answers!Is
<1>7. \A out : Undirected(out) => Answers!Undirected(out)
  BY SameNotions, Zenon DEF Undirected, Answers!Undirected
<1>8. RunsCC => Answers!RunsCC
  BY <1>2, <1>5, <1>7, Zenon DEF RunsCC, Answers!RunsCC
<1>9. RunsSSSP => Answers!RunsSSSP
  BY <1>2, <1>6, SameNotions, Zenon DEF RunsSSSP, Answers!RunsSSSP
<1>10. CombinesLeast => Answers!ReceivesLeast
  <2> SUFFICES ASSUME CombinesLeast, NEW out \in [Vertices -> Seq(Vertices)],
                      NEW s \in [Vertices -> Messages \cup {None}], NEW d \in Vertices
               PROVE  LET in == Answers!Received(out, s, d)
                      IN  /\ in \in Messages \cup {None}
                          /\ in # None =>
                               \E u \in Vertices : Answers!Leads(out, u, d) /\ s[u] = in
                          /\ \A u \in Vertices : Answers!Leads(out, u, d) /\ s[u] # None =>
                               in # None /\ in <= s[u]
    BY Zenon DEF Answers!ReceivesLeast, Answers!Graphs
  <2> DEFINE in == Received(out, s, d)
  <2>1. /\ in \in Messages \cup {None}
        /\ in # None => \E u \in Vertices : Leads(out, u, d) /\ s[u] = in
        /\ \A u \in Vertices : Leads(out, u, d) /\ s[u] # None => in # None /\ in <= s[u]
    BY ReceivedIsLeast DEF Maybe
  <2>2. Answers!Received(out, s, d) = in
    BY SameNotions
  <2>3. \A u \in Vertices : Answers!Leads(out, u, d) <=> Leads(out, u, d)
    BY SameNotions
  <2> HIDE DEF in
  <2> QED
    BY <2>1, <2>2, <2>3
<1> QED
  BY <1>8, <1>9, <1>10

\* So is the superstep semantics.
LEMMA SameSupersteps == Superstep!Spec => Answers!Spec
<1>1. Superstep!Init => Answers!Init
  BY DEF Superstep!Init, Answers!Init
<1>2. Superstep!Next => Answers!Next
  BY DEF Superstep!Next, Answers!Next, Superstep!Compute, Answers!Compute,
         Superstep!NextSuperstep, Answers!NextSuperstep, Superstep!Return, Answers!Return,
         Superstep!InSuperstep, Answers!InSuperstep, Superstep!Runnable, Answers!Runnable,
         Superstep!vars, Answers!vars, Superstep!Received, Answers!Received,
         Superstep!CombinedOver, Answers!CombinedOver, Superstep!EdgesInto, Answers!EdgesInto,
         Superstep!MapThenFoldSet, Answers!MapThenFoldSet, Superstep!Merge, Answers!Merge
<1>3. [Superstep!Next]_(Superstep!vars) => [Answers!Next]_(Answers!vars)
  BY <1>2 DEF Superstep!vars, Answers!vars
<1> QED
  BY <1>1, <1>3, PTL DEF Superstep!Spec, Answers!Spec

\* What those proofs take from the modules they extend.
LEMMA SameAssumptions ==
  Answers!VerticesAssumption /\ Answers!NoneAssumption /\ Answers!JobsAssumption
BY VerticesAssumption, NoneAssumption, JobsAssumption, Zenon DEF IsFiniteSet, Answers!IsFiniteSet

\* cc.c labels every vertex with the least identifier of its component, in the push version
\* for every undirected graph and every team of threads.
THEOREM CombinerFindsComponents ==
  ASSUME ProgramTyped, RunsCC, IntegralMessages PROVE Spec => []CCResult
<1>1. CombinesLeast
  BY DEF RunsCC
<1>2. OrderFree
  BY <1>1, LeastOrderFree
<1>3. Answers!RunsCC /\ Answers!ReceivesLeast
  BY <1>1, SameSuppositions
<1>4. Answers!ComponentsFound => CCResult
  <2>1. Terminated => AnyAt({"exit"})
    BY ThreadsAssumption DEF Terminated, AllAt, AnyAt
  <2> QED
    BY <2>1, SameNotions DEF CCResult, Answers!ComponentsFound
<1> QED
  BY <1>2, <1>3, <1>4, CombinerImplementsBSP, SameSupersteps, SameAssumptions,
     Answers!ComponentsInSupersteps, PTL DEF ImplementsBSP

\* sssp.c labels every vertex with its distance from the source, in the push version
\* for every graph and every team of threads.
THEOREM CombinerFindsDistances ==
  ASSUME ProgramTyped, RunsSSSP, IntegralMessages PROVE Spec => []SSSPResult
<1>1. CombinesLeast
  BY DEF RunsSSSP
<1>2. OrderFree
  BY <1>1, LeastOrderFree
<1>3. Answers!RunsSSSP /\ Answers!ReceivesLeast
  BY <1>1, SameSuppositions
<1>4. Answers!DistancesFound => SSSPResult
  <2>1. Terminated => AnyAt({"exit"})
    BY ThreadsAssumption DEF Terminated, AllAt, AnyAt
  <2> QED
    BY <2>1, SameNotions DEF SSSPResult, Answers!DistancesFound
<1> QED
  BY <1>2, <1>3, <1>4, CombinerImplementsBSP, SameSupersteps, SameAssumptions,
     Answers!DistancesInSupersteps, PTL DEF ImplementsBSP
==============================================================================
