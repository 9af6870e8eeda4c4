----------------------------- MODULE Engine_proofs -----------------------------
(***************************************************************************)
(* What the proofs about the four versions of ip_run share: lemmas on the  *)
(* steps of a team of threads, on what ip_compute may do, on the counting  *)
(* of vertices, and on the combination of messages, which does not depend  *)
(* on the order they arrive in and, for cc.c and sssp.c, is the smallest.  *)
(***************************************************************************)
EXTENDS AppResults, InNeighbours, TLAPS, FiniteSetTheorems

------------------------------------------------------------------------------
(* The team.                                                               *)

\* The phases between two barriers have no label in common.
Apart(phases) == \A P, Q \in phases : P \cap Q # {} => P = Q

\* A move between two labels of one phase keeps the team together.
LEMMA MoveTogether ==
  ASSUME NEW phases, Apart(phases), NEW P \in phases, NEW t \in Threads,
         NEW from \in P, NEW to \in P, NEW labels, pc \in [Threads -> labels],
         Move(t, from, to), Together(phases)
  PROVE  (\A u \in Threads : pc[u] \in P /\ pc'[u] \in P) /\ Together(phases)'
<1>1. PICK Q \in phases : \A u \in Threads : pc[u] \in Q
  BY DEF Together
<1>2. pc[t] \in P /\ pc[t] \in Q
  BY <1>1 DEF Move
<1>3. P = Q
  BY <1>2 DEF Apart
<1>4. \A u \in Threads : pc'[u] \in P
  BY <1>1, <1>3 DEF Move
<1> QED
  BY <1>1, <1>3, <1>4 DEF Together

\* A thread's label says in which phase all threads are.
LEMMA PhaseOf ==
  ASSUME NEW phases, Apart(phases), Together(phases), NEW P \in phases,
         NEW t \in Threads, pc[t] \in P
  PROVE  \A u \in Threads : pc[u] \in P
<1>1. PICK Q \in phases : \A u \in Threads : pc[u] \in Q
  BY DEF Together
<1> QED
  BY <1>1 DEF Apart

\* A barrier takes the team from one label to the next.
LEMMA BarrierTogether ==
  ASSUME NEW phases, NEW P \in phases, NEW from, NEW to \in P, NEW iterations,
         Barrier(from, to, iterations)
  PROVE  /\ \A u \in Threads : pc[u] = from /\ pc'[u] = to
         /\ pc' = [u \in Threads |-> to]
         /\ claimed' = FALSE
         /\ todo' = iterations
         /\ Together(phases)'
BY DEF Barrier, AllAt, Together

\* The mover changes its own label only.
LEMMA MoveEffect ==
  ASSUME NEW t \in Threads, NEW from, NEW labels, NEW to \in labels, Move(t, from, to),
         pc \in [Threads -> labels]
  PROVE  /\ pc' \in [Threads -> labels]
         /\ pc[t] = from /\ pc'[t] = to
         /\ \A u \in Threads \ {t} : pc'[u] = pc[u]
BY DEF Move

------------------------------------------------------------------------------
(* ip_compute.                                                             *)

\* What ip_compute does keeps to the types.
LEMMA OutcomeTyped ==
  ASSUME ProgramTyped, EngineTypeOK, NEW v \in Vertices, NEW outcome \in Outcomes(v)
  PROVE  /\ outcome.value \in Values \cup {None}
         /\ outcome.message \in Messages \cup {None}
         /\ outcome.halts \in BOOLEAN
         /\ outcome.reads \in BOOLEAN
         /\ out_neighbours[v] \in Seq(Vertices)
<1>0. application \in Applications /\ out_neighbours \in [Vertices -> Seq(Vertices)]
  BY JobsAssumption DEF EngineTypeOK, jobVars
<1>1. out_neighbours[v] \in Seq(Vertices)
  BY <1>0
<1>2. Len(out_neighbours[v]) \in Nat
  BY <1>1
<1>3. value[v] \in Values \cup {None} /\ NextMessage(v) \in Messages \cup {None}
  BY DEF EngineTypeOK, NextMessage
<1>4. ip_superstep \in Nat
  BY DEF EngineTypeOK
<1> QED
  BY <1>0, <1>1, <1>2, <1>3, <1>4 DEF ProgramTyped, KeepsTypes, Outcomes

\* The engine starts well typed.
LEMMA EngineInitTyped == EngineInit => EngineTypeOK
<1> SUFFICES ASSUME EngineInit PROVE EngineTypeOK
  OBVIOUS
<1>1. PICK job \in Jobs : application = job[1] /\ out_neighbours = job[2]
  BY DEF EngineInit
<1>2. job = <<job[1], job[2]>>
  BY JobsAssumption
<1>3. jobVars = job
  BY <1>1, <1>2 DEF jobVars
<1> QED
  BY <1>3 DEF EngineInit, EngineTypeOK, Nothing

\* The engine stays well typed while its variables do not change...
LEMMA EngineUnchanged ==
  ASSUME EngineTypeOK, UNCHANGED engineVars PROVE EngineTypeOK'
BY DEF EngineTypeOK, engineVars, boxVars, historyVars

\* ... when a vertex runs...
LEMMA RunVertexTyped ==
  ASSUME ProgramTyped, EngineTypeOK, NEW v \in Vertices, NEW outcome \in Outcomes(v),
         RunVertex(v, outcome)
  PROVE  EngineTypeOK'
<1>1. /\ outcome.value \in Values \cup {None}
      /\ outcome.message \in Messages \cup {None}
      /\ outcome.reads \in BOOLEAN
  BY OutcomeTyped
<1>2. has_message' \in [Vertices -> BOOLEAN]
  BY <1>1 DEF RunVertex, EngineTypeOK
<1>3. \A u \in Vertices : has_message'[u] => message'[u] \in Messages
  BY DEF RunVertex, EngineTypeOK
<1> QED
  BY <1>1, <1>2, <1>3 DEF RunVertex, EngineTypeOK

\* ... and in the single region and the barrier that change the superstep.
LEMMA EngineStepsTyped ==
  ASSUME EngineTypeOK, NEW t \in Threads,
         \/ FinishSingle(t)
         \/ NewHistory /\ UNCHANGED <<jobVars, boxVars, value, ip_superstep>>
  PROVE  EngineTypeOK'
BY DEF EngineTypeOK, FinishSingle, NewHistory, Nothing, boxVars, historyVars

------------------------------------------------------------------------------
(* The counting of vertices in a shared counter and in the threads' shares.*)

\* The vertices in merged, and in the share of each thread.
Split(tally, total, shares, merged, by) ==
  /\ merged \in SUBSET tally
  /\ by \in [Vertices -> Threads]
  /\ total = Cardinality(merged)
  /\ \A t \in Threads : shares[t] = Cardinality({v \in tally \ merged : by[v] = t})

\* Counts, with its two witnesses named.
LEMMA CountsSplit ==
  ASSUME NEW tally, NEW total, NEW shares
  PROVE  Counts(tally, total, shares) <=> \E merged, by : Split(tally, total, shares, merged, by)
<1>1. ASSUME NEW merged, NEW by, Split(tally, total, shares, merged, by)
      PROVE  Counts(tally, total, shares)
  BY <1>1 DEF Counts, Split
<1>2. ASSUME Counts(tally, total, shares)
      PROVE  \E merged, by : Split(tally, total, shares, merged, by)
  <2>1. PICK merged \in SUBSET tally, by \in [Vertices -> Threads] :
          /\ total = Cardinality(merged)
          /\ \A t \in Threads : shares[t] = Cardinality({v \in tally \ merged : by[v] = t})
    BY <1>2 DEF Counts
  <2>2. Split(tally, total, shares, merged, by)
    BY <2>1 DEF Split
  <2> QED
    BY <2>2
<1> QED
  BY <1>1, <1>2

\* Before a thread has counted anything, the counter counts what it stands for.
LEMMA CountMerged ==
  ASSUME NEW tally \in SUBSET Vertices, NEW shares, \A t \in Threads : shares[t] = 0
  PROVE  Counts(tally, Cardinality(tally), shares)
<1>1. PICK t \in Threads : TRUE
  BY ThreadsAssumption
<1>2. \A u \in Threads : {v \in tally \ tally : [w \in Vertices |-> t][v] = u} = {}
  OBVIOUS
<1>3. Split(tally, Cardinality(tally), shares, tally, [v \in Vertices |-> t])
  BY <1>1, <1>2, FS_EmptySet DEF Split
<1> QED
  BY <1>3, CountsSplit

\* Nothing has been counted.
LEMMA CountNothing ==
  ASSUME NEW shares, \A t \in Threads : shares[t] = 0
  PROVE  Counts({}, 0, shares)
<1>1. Counts({}, Cardinality({}), shares)
  BY CountMerged
<1> QED
  BY <1>1, FS_EmptySet

\* A thread counts one vertex more in its share.
LEMMA CountInShare ==
  ASSUME NEW tally \in SUBSET Vertices, NEW total, NEW shares \in [Threads -> Nat],
         NEW v \in Vertices, v \notin tally, NEW t \in Threads,
         Counts(tally, total, shares)
  PROVE  Counts(tally \cup {v}, total, [shares EXCEPT ![t] = @ + 1])
<1>1. PICK merged, by : Split(tally, total, shares, merged, by)
  BY CountsSplit
<1> DEFINE by2 == [by EXCEPT ![v] = t]
           share(u) == {w \in tally \ merged : by[w] = u}
           share2(u) == {w \in (tally \cup {v}) \ merged : by2[w] = u}
<1>2. merged \in SUBSET tally /\ by \in [Vertices -> Threads] /\ by2 \in [Vertices -> Threads]
  BY <1>1 DEF Split
<1>3. \A u \in Threads \ {t} : share2(u) = share(u)
  BY <1>2
<1>4. share2(t) = share(t) \cup {v} /\ v \notin share(t)
  BY <1>2
<1>5. IsFiniteSet(share(t))
  BY VerticesAssumption, FS_Subset
<1>6. Cardinality(share2(t)) = Cardinality(share(t)) + 1
  BY <1>4, <1>5, FS_AddElement
<1>7. \A u \in Threads : shares[u] = Cardinality(share(u))
  BY <1>1 DEF Split
<1>8. \A u \in Threads : [shares EXCEPT ![t] = @ + 1][u] = Cardinality(share2(u))
  BY <1>3, <1>6, <1>7
<1>9. Split(tally \cup {v}, total, [shares EXCEPT ![t] = @ + 1], merged, by2)
  BY <1>1, <1>2, <1>8 DEF Split
<1> QED
  BY <1>9, CountsSplit

\* The shared counter counts one vertex more.
LEMMA CountInTotal ==
  ASSUME NEW tally \in SUBSET Vertices, NEW total, NEW shares \in [Threads -> Nat],
         NEW v \in Vertices, v \notin tally, Counts(tally, total, shares)
  PROVE  Counts(tally \cup {v}, total + 1, shares)
<1>1. PICK merged, by : Split(tally, total, shares, merged, by)
  BY CountsSplit
<1> DEFINE merged2 == merged \cup {v}
<1>2. merged \in SUBSET tally /\ by \in [Vertices -> Threads] /\ merged2 \in SUBSET (tally \cup {v})
  BY <1>1 DEF Split
<1>3. (tally \cup {v}) \ merged2 = tally \ merged
  BY <1>2
<1>4. IsFiniteSet(merged)
  BY <1>2, VerticesAssumption, FS_Subset
<1>5. Cardinality(merged2) = Cardinality(merged) + 1
  BY <1>2, <1>4, FS_AddElement
<1>6. Split(tally \cup {v}, total + 1, shares, merged2, by)
  BY <1>1, <1>2, <1>3, <1>5 DEF Split
<1> QED
  BY <1>6, CountsSplit

\* A thread adds its share to the shared counter.
LEMMA CountShareAdded ==
  ASSUME NEW tally \in SUBSET Vertices, NEW total, NEW shares \in [Threads -> Nat],
         NEW t \in Threads, Counts(tally, total, shares)
  PROVE  Counts(tally, total + shares[t], [shares EXCEPT ![t] = 0])
<1>1. PICK merged, by : Split(tally, total, shares, merged, by)
  BY CountsSplit
<1> DEFINE share(u) == {w \in tally \ merged : by[w] = u}
           merged2 == merged \cup share(t)
           share2(u) == {w \in tally \ merged2 : by[w] = u}
<1>2. merged \in SUBSET tally /\ by \in [Vertices -> Threads] /\ merged2 \in SUBSET tally
  BY <1>1 DEF Split
<1>3. \A u \in Threads \ {t} : share2(u) = share(u)
  OBVIOUS
<1>4. share2(t) = {} /\ merged \cap share(t) = {}
  OBVIOUS
<1>5. IsFiniteSet(merged) /\ IsFiniteSet(share(t))
  BY <1>2, VerticesAssumption, FS_Subset
<1>6. Cardinality(merged2) = Cardinality(merged) + Cardinality(share(t))
  <2>1. Cardinality(merged \cap share(t)) = 0
    BY <1>4, FS_EmptySet
  <2>2. Cardinality(merged) \in Nat /\ Cardinality(share(t)) \in Nat
    BY <1>5, FS_CardinalityType
  <2> HIDE DEF share
  <2>3. Cardinality(merged2) =
          Cardinality(merged) + Cardinality(share(t)) - Cardinality(merged \cap share(t))
    BY <1>5, FS_Union
  <2> HIDE DEF merged2
  <2> QED
    BY <2>1, <2>2, <2>3
<1>7. \A u \in Threads : shares[u] = Cardinality(share(u))
  BY <1>1 DEF Split
<1>8. \A u \in Threads : [shares EXCEPT ![t] = 0][u] = Cardinality(share2(u))
  BY <1>3, <1>4, <1>7, FS_EmptySet
<1>9. total + shares[t] = Cardinality(merged2)
  BY <1>1, <1>6, <1>7 DEF Split
<1>10. Split(tally, total + shares[t], [shares EXCEPT ![t] = 0], merged2, by)
  BY <1>2, <1>8, <1>9 DEF Split
<1> QED
  BY <1>10, CountsSplit

\* When no thread has a share left, the counter has counted them all.
LEMMA CountComplete ==
  ASSUME NEW tally \in SUBSET Vertices, NEW total, NEW shares,
         Counts(tally, total, shares), \A t \in Threads : shares[t] = 0
  PROVE  total = Cardinality(tally)
<1>1. PICK merged, by : Split(tally, total, shares, merged, by)
  BY CountsSplit
<1> DEFINE share(u) == {w \in tally \ merged : by[w] = u}
<1>2. merged \in SUBSET tally /\ by \in [Vertices -> Threads]
  BY <1>1 DEF Split
<1>3. ASSUME NEW w \in tally, w \notin merged PROVE FALSE
  <2>1. by[w] \in Threads /\ w \in share(by[w])
    BY <1>2, <1>3
  <2>2. Cardinality(share(by[w])) = 0
    BY <1>1, <2>1 DEF Split
  <2>3. IsFiniteSet(share(by[w]))
    BY VerticesAssumption, FS_Subset
  <2> HIDE DEF share
  <2>4. share(by[w]) = {}
    BY <2>2, <2>3, FS_EmptySet
  <2> QED
    BY <2>1, <2>4
<1>4. merged = tally
  BY <1>2, <1>3
<1> QED
  BY <1>1, <1>4 DEF Split

------------------------------------------------------------------------------
(* CombinedOver.  Its recursion goes over the subsets of the edges.        *)

\* The edge that the fold over a set takes first.
First(edges) == CHOOSE e \in edges : TRUE

\* g is what CombinedOver computes on the subsets of edges.
IsFold(s, edges, g) ==
  g = [T \in SUBSET edges |->
        IF T = {} THEN None ELSE Merge(s[First(T)[1]], g[T \ {First(T)}])]

\* Among finite sets with a property there is one no part of which has it.
LEMMA SmallestSet ==
  ASSUME NEW E, IsFiniteSet(E), NEW bad, bad \subseteq SUBSET E, bad # {}
  PROVE  \E T \in bad : \A U \in bad : U \subseteq T => U = T
<1>1. IsWellFoundedOn(StrictSubsetOrdering(E), SUBSET E)
  BY FS_StrictSubsetOrderingWellFounded, FS_FiniteSubsetsOfFinite
<1>2. PICK T \in bad : \A U \in bad : <<U, T>> \notin StrictSubsetOrdering(E)
  BY <1>1, WFMin
<1>3. ASSUME NEW U \in bad, U \subseteq T, U # T PROVE FALSE
  <2>1. <<U, T>> \in (SUBSET E) \X (SUBSET E)
    OBVIOUS
  <2>2. <<U, T>> \in StrictSubsetOrdering(E)
    BY <1>3, <2>1 DEF StrictSubsetOrdering
  <2> QED
    BY <1>2, <2>2
<1> QED
  BY <1>2, <1>3

\* A fold gives a set the value its equation says.
LEMMA FoldEquation ==
  ASSUME NEW s, NEW E, NEW g, IsFold(s, E, g), NEW T \in SUBSET E
  PROVE  /\ T = {} => g[T] = None
         /\ T # {} => g[T] = Merge(s[First(T)[1]], g[T \ {First(T)}])
BY Zenon DEF IsFold

\* It is an edge of the set.
LEMMA FirstIsElement ==
  ASSUME NEW T, T # {} PROVE First(T) \in T
BY DEF First

\* Two folds agree where both are defined.
LEMMA FoldsAgree ==
  ASSUME NEW s, NEW D, NEW E, IsFiniteSet(D), NEW g, NEW h,
         IsFold(s, D, g), IsFold(s, E, h), NEW T, T \subseteq D, T \subseteq E
  PROVE  g[T] = h[T]
<1> DEFINE bad == {U \in SUBSET D : U \subseteq E /\ g[U] # h[U]}
<1> SUFFICES ASSUME bad # {} PROVE FALSE
  OBVIOUS
<1>1. PICK U \in bad : \A V \in bad : V \subseteq U => V = U
  <2>1. bad \subseteq SUBSET D
    OBVIOUS
  <2> HIDE DEF bad
  <2> QED
    BY <2>1, SmallestSet
<1>2. U \in SUBSET D /\ U \in SUBSET E /\ g[U] # h[U]
  OBVIOUS
<1>0. \A V \in SUBSET U : V # U => g[V] = h[V]
  BY <1>1, <1>2
<1> HIDE DEF bad
<1>3. /\ U = {} => g[U] = None /\ h[U] = None
      /\ U # {} => /\ g[U] = Merge(s[First(U)[1]], g[U \ {First(U)}])
                   /\ h[U] = Merge(s[First(U)[1]], h[U \ {First(U)}])
  BY <1>2, FoldEquation
<1>4. U # {}
  BY <1>2, <1>3
<1> DEFINE V == U \ {First(U)}
<1>5. V \subseteq U /\ V # U
  BY <1>4, FirstIsElement
<1>6. g[V] = h[V]
  BY <1>0, <1>5
<1> QED
  BY <1>2, <1>3, <1>4, <1>6

\* The fold that a finite set has.
FoldOf(s, edges) == CHOOSE g : IsFold(s, edges, g)

\* The fold over a finite set is defined.
LEMMA FoldExists ==
  ASSUME NEW s, NEW E, IsFiniteSet(E)
  PROVE  IsFold(s, E, FoldOf(s, E))
<1> DEFINE bad == {D \in SUBSET E : ~IsFold(s, D, FoldOf(s, D))}
<1> SUFFICES ASSUME bad # {} PROVE FALSE
  OBVIOUS
<1>1. PICK D \in bad : \A U \in bad : U \subseteq D => U = D
  <2>1. bad \subseteq SUBSET E
    OBVIOUS
  <2> HIDE DEF bad
  <2> QED
    BY <2>1, SmallestSet
<1>2. \A U \in SUBSET D : U # D => IsFold(s, U, FoldOf(s, U))
  BY <1>1
<1>3. IsFiniteSet(D) /\ \A U \in SUBSET D : IsFiniteSet(U)
  BY FS_Subset
<1> DEFINE Rest(T) == T \ {First(T)}
           g == [T \in SUBSET D |->
                  IF T = {} THEN None
                  ELSE Merge(s[First(T)[1]], FoldOf(s, Rest(T))[Rest(T)])]
<1>4. ASSUME NEW T \in SUBSET D, T # {}
      PROVE  /\ Rest(T) \in SUBSET D
             /\ Rest(T) # D
             /\ g[Rest(T)] = FoldOf(s, Rest(T))[Rest(T)]
  <2>1. Rest(T) \in SUBSET D /\ Rest(T) # D
    BY <1>4, FirstIsElement
  <2> DEFINE U == Rest(T)
  <2>2. IsFold(s, U, FoldOf(s, U)) /\ IsFiniteSet(U)
    BY <1>2, <1>3, <2>1
  <2>3. /\ U = {} => FoldOf(s, U)[U] = None
        /\ U # {} => FoldOf(s, U)[U] = Merge(s[First(U)[1]], FoldOf(s, U)[Rest(U)])
    <3>1. U \in SUBSET U
      OBVIOUS
    <3> HIDE DEF U
    <3> QED
      BY <2>2, <3>1, FoldEquation
  <2>4. CASE U = {}
    BY <2>1, <2>3, <2>4
  <2>5. CASE U # {}
    <3>1. Rest(U) \in SUBSET D /\ Rest(U) # D /\ Rest(U) \subseteq U
      BY <2>1, <2>5, FirstIsElement
    <3>2. IsFold(s, Rest(U), FoldOf(s, Rest(U)))
      BY <1>2, <3>1
    <3>3. FoldOf(s, U)[Rest(U)] = FoldOf(s, Rest(U))[Rest(U)]
      BY <2>2, <3>1, <3>2, FoldsAgree
    <3> QED
      BY <2>1, <2>3, <2>5, <3>3
  <2> QED
    BY <2>1, <2>4, <2>5
<1>5. g = [T \in SUBSET D |->
            IF T = {} THEN None ELSE Merge(s[First(T)[1]], g[T \ {First(T)}])]
  BY <1>4
<1> HIDE DEF g
<1>6. IsFold(s, D, g)
  BY <1>5 DEF IsFold
<1>7. IsFold(s, D, FoldOf(s, D))
  BY <1>6 DEF FoldOf
<1> QED
  BY <1>7

\* What CombinedOver is, without its recursion.
LEMMA CombinedIsFold ==
  ASSUME NEW s, NEW E, IsFiniteSet(E)
  PROVE  \E g : IsFold(s, E, g) /\ CombinedOver(s, E) = g[E]
<1>1. \E g : IsFold(s, E, g)
  BY FoldExists
<1> QED
  BY <1>1, Zenon DEF CombinedOver, MapThenFoldSet, IsFold, First

\* The unfolding of CombinedOver: nothing along no edge, else the first edge's
\* message and the others'.
LEMMA CombinedStep ==
  ASSUME NEW s, NEW E, IsFiniteSet(E)
  PROVE  /\ E = {} => CombinedOver(s, E) = None
         /\ E # {} =>
              CombinedOver(s, E) = Merge(s[First(E)[1]], CombinedOver(s, E \ {First(E)}))
<1>1. PICK g : IsFold(s, E, g) /\ CombinedOver(s, E) = g[E]
  BY CombinedIsFold
<1> DEFINE D == E \ {First(E)}
<1>2. IsFiniteSet(D)
  BY FS_RemoveElement
<1>3. PICK h : IsFold(s, D, h) /\ CombinedOver(s, D) = h[D]
  BY <1>2, CombinedIsFold
<1>4. g[D] = h[D]
  BY <1>1, <1>2, <1>3, FoldsAgree
<1>5. /\ E = {} => g[E] = None
      /\ E # {} => g[E] = Merge(s[First(E)[1]], g[D])
  BY <1>1, FoldEquation
<1> QED
  BY <1>1, <1>3, <1>4, <1>5

Maybe == Messages \cup {None}

\* A source of a message for every edge.
Carries(s, edges) == \A e \in edges : s[e[1]] \in Maybe

\* ip_combine stays in the type of the messages.
CombineClosed == \A a, b \in Messages : Combine(a, b) \in Messages

\* An empty mailbox takes the message that comes.
LEMMA MergeNone ==
  ASSUME NEW a PROVE Merge(a, None) = a /\ Merge(None, a) = a
BY DEF Merge

\* Combining with an empty mailbox, and with a full one.
LEMMA MergeTyped ==
  ASSUME CombineClosed, NEW a \in Maybe, NEW b \in Maybe
  PROVE  Merge(a, b) \in Maybe /\ (Merge(a, b) = None <=> a = None /\ b = None)
BY NoneAssumption DEF Merge, Maybe, CombineClosed

\* An empty mailbox does not disturb the order-freedom of ip_combine.
LEMMA MergeOrderFree ==
  ASSUME OrderFree, NEW a \in Maybe, NEW b \in Maybe, NEW c \in Maybe
  PROVE  /\ Merge(a, b) = Merge(b, a)
         /\ Merge(Merge(a, b), c) = Merge(a, Merge(b, c))
<1>1. \A x, y \in Messages : Combine(x, y) \in Messages /\ Combine(x, y) # None
  BY NoneAssumption DEF OrderFree
<1>2. Merge(a, b) = Merge(b, a)
  BY DEF Merge, Maybe, OrderFree
<1>3. CASE a = None
  BY <1>2, <1>3, MergeNone
<1>4. CASE b = None
  BY <1>2, <1>4, MergeNone
<1>5. CASE c = None
  BY <1>2, <1>5, MergeNone
<1>6. CASE a # None /\ b # None /\ c # None
  <2>1. a \in Messages /\ b \in Messages /\ c \in Messages
    BY <1>6 DEF Maybe
  <2>2. Combine(a, b) # None /\ Combine(b, c) # None
    BY <1>1, <2>1
  <2>3. Combine(Combine(a, b), c) = Combine(a, Combine(b, c))
    BY <2>1 DEF OrderFree
  <2>4. \A x, y : x # None /\ y # None => Merge(x, y) = Combine(x, y)
    BY DEF Merge
  <2>5. Merge(a, b) = Combine(a, b) /\ Merge(b, c) = Combine(b, c)
    BY <1>6, <2>4
  <2>6. /\ Merge(Combine(a, b), c) = Combine(Combine(a, b), c)
        /\ Merge(a, Combine(b, c)) = Combine(a, Combine(b, c))
    BY <1>6, <2>2, <2>4
  <2> QED
    BY <1>2, <2>3, <2>5, <2>6
<1> QED
  BY <1>2, <1>3, <1>4, <1>5, <1>6

\* What arrives along edges is a message, unless nothing was broadcast along any.
LEMMA CombinedTyped ==
  ASSUME CombineClosed, NEW s, NEW E, IsFiniteSet(E), Carries(s, E)
  PROVE  /\ CombinedOver(s, E) \in Maybe
         /\ CombinedOver(s, E) = None <=> \A e \in E : s[e[1]] = None
<1> DEFINE ok(D) == /\ CombinedOver(s, D) \in Maybe
                    /\ CombinedOver(s, D) = None <=> \A e \in D : s[e[1]] = None
           bad == {D \in SUBSET E : ~ok(D)}
<1> SUFFICES ASSUME bad # {} PROVE FALSE
  OBVIOUS
<1>1. PICK D \in bad : \A U \in bad : U \subseteq D => U = D
  <2>1. bad \subseteq SUBSET E
    OBVIOUS
  <2> HIDE DEF bad
  <2> QED
    BY <2>1, SmallestSet
<1>2. D \in SUBSET E /\ ~ok(D) /\ \A U \in SUBSET D : U # D => ok(U)
  BY <1>1
<1> HIDE DEF bad
<1>3. IsFiniteSet(D) /\ Carries(s, D)
  BY <1>2, FS_Subset DEF Carries
<1>4. D # {}
  <2>1. CombinedOver(s, {}) = None
    BY CombinedStep, FS_EmptySet
  <2> QED
    BY <1>2, <2>1 DEF Maybe
<1> DEFINE x == First(D)
           U == D \ {x}
<1>5. x \in D /\ U \in SUBSET D /\ U # D /\ D = U \cup {x}
  BY <1>4, FirstIsElement
<1>6. CombinedOver(s, D) = Merge(s[x[1]], CombinedOver(s, U))
  BY <1>3, <1>4, CombinedStep
<1>7. s[x[1]] \in Maybe
  BY <1>3, <1>5 DEF Carries
<1>8. ok(U)
  BY <1>2, <1>5
<1> HIDE DEF x, U
<1>9. ok(D)
  BY <1>5, <1>6, <1>7, <1>8, MergeTyped
<1> QED
  BY <1>2, <1>9

\* When ip_combine takes the smaller message, the combination of what comes along
\* edges is the smallest message.
LEMMA CombinedIsLeast ==
  ASSUME Messages \subseteq Nat,
         \A a, b \in Messages : Combine(a, b) = IF a > b THEN b ELSE a,
         NEW s, NEW E, IsFiniteSet(E), Carries(s, E)
  PROVE  /\ CombinedOver(s, E) \in Maybe
         /\ CombinedOver(s, E) # None => \E e \in E : s[e[1]] = CombinedOver(s, E)
         /\ \A e \in E : s[e[1]] # None =>
              CombinedOver(s, E) # None /\ CombinedOver(s, E) <= s[e[1]]
<1> DEFINE ok(D) == /\ CombinedOver(s, D) \in Maybe
                    /\ CombinedOver(s, D) # None => \E e \in D : s[e[1]] = CombinedOver(s, D)
                    /\ \A e \in D : s[e[1]] # None =>
                         CombinedOver(s, D) # None /\ CombinedOver(s, D) <= s[e[1]]
           bad == {D \in SUBSET E : ~ok(D)}
<1> SUFFICES ASSUME bad # {} PROVE FALSE
  OBVIOUS
<1>1. PICK D \in bad : \A U \in bad : U \subseteq D => U = D
  <2>1. bad \subseteq SUBSET E
    OBVIOUS
  <2> HIDE DEF bad
  <2> QED
    BY <2>1, SmallestSet
<1>2. D \in SUBSET E /\ ~ok(D) /\ \A U \in SUBSET D : U # D => ok(U)
  BY <1>1
<1> HIDE DEF bad
<1>3. IsFiniteSet(D) /\ Carries(s, D)
  BY <1>2, FS_Subset DEF Carries
<1>4. D # {}
  <2>1. CombinedOver(s, {}) = None
    BY CombinedStep, FS_EmptySet
  <2> QED
    BY <1>2, <2>1 DEF Maybe
<1> DEFINE x == First(D)
           U == D \ {x}
<1>5. x \in D /\ U \in SUBSET D /\ U # D /\ D = U \cup {x}
  BY <1>4, FirstIsElement
<1>6. CombinedOver(s, D) = Merge(s[x[1]], CombinedOver(s, U))
  BY <1>3, <1>4, CombinedStep
<1>7. s[x[1]] \in Maybe
  BY <1>3, <1>5 DEF Carries
<1>8. ok(U)
  BY <1>2, <1>5
<1> DEFINE m == s[x[1]]
           r == CombinedOver(s, U)
<1>9. /\ Merge(m, r) \in Maybe
      /\ Merge(m, r) \in {m, r}
      /\ m # None => Merge(m, r) # None /\ Merge(m, r) <= m
      /\ r # None => Merge(m, r) # None /\ Merge(m, r) <= r
  <2>1. m \in Maybe /\ r \in Maybe
    BY <1>7, <1>8
  <2> HIDE DEF m, r
  <2>2. \A a \in Messages : a \in Nat /\ a # None
    BY NoneAssumption
  <2>3. CASE m = None \/ r = None
    BY <2>1, <2>2, <2>3 DEF Merge, Maybe
  <2>4. CASE m # None /\ r # None
    <3>1. m \in Messages /\ r \in Messages
      BY <2>1, <2>4 DEF Maybe
    <3>2. Merge(m, r) = IF m > r THEN r ELSE m
      BY <2>4, <3>1 DEF Merge
    <3>3. m \in Nat /\ r \in Nat
      BY <2>2, <3>1
    <3> QED
      BY <2>1, <2>2, <3>1, <3>2, <3>3
  <2> QED
    BY <2>3, <2>4
<1> HIDE DEF m, r
<1>10. ok(D)
  <2>1. CombinedOver(s, D) = Merge(m, r)
    BY <1>6 DEF m, r
  <2> DEFINE c == CombinedOver(s, D)
  <2>2. ASSUME c # None PROVE \E e \in D : s[e[1]] = c
    <3>1. CASE c = m
      BY <1>5, <3>1 DEF m
    <3>2. CASE c = r
      BY <1>5, <1>8, <2>2, <3>2 DEF r
    <3> QED
      BY <1>9, <2>1, <3>1, <3>2
  <2>3. ASSUME NEW e \in D, s[e[1]] # None PROVE c # None /\ c <= s[e[1]]
    <3>1. CASE e = x
      BY <1>9, <2>1, <2>3, <3>1 DEF m
    <3>2. CASE e # x
      <4>1. e \in U /\ s[e[1]] \in Nat
        BY <1>3, <1>5, <2>3, <3>2 DEF Carries, Maybe
      <4>2. r # None /\ r <= s[e[1]] /\ r \in Maybe
        BY <1>8, <2>3, <4>1 DEF r
      <4>3. r \in Nat /\ c # None /\ c \in Nat /\ c <= r
        BY <1>9, <2>1, <4>2 DEF Maybe
      <4> QED
        BY <4>1, <4>2, <4>3
    <3> QED
      BY <3>1, <3>2
  <2> QED
    BY <1>9, <2>1, <2>2, <2>3
<1> QED
  BY <1>2, <1>10

\* Only what the sources of the edges broadcast matters.
LEMMA CombinedLocal ==
  ASSUME NEW r, NEW s, NEW E, IsFiniteSet(E), \A e \in E : r[e[1]] = s[e[1]]
  PROVE  CombinedOver(r, E) = CombinedOver(s, E)
<1> DEFINE bad == {D \in SUBSET E : CombinedOver(r, D) # CombinedOver(s, D)}
<1> SUFFICES ASSUME bad # {} PROVE FALSE
  OBVIOUS
<1>1. PICK D \in bad : \A U \in bad : U \subseteq D => U = D
  <2>1. bad \subseteq SUBSET E
    OBVIOUS
  <2> HIDE DEF bad
  <2> QED
    BY <2>1, SmallestSet
<1>2. /\ D \in SUBSET E /\ CombinedOver(r, D) # CombinedOver(s, D)
      /\ \A U \in SUBSET D : U # D => CombinedOver(r, U) = CombinedOver(s, U)
  BY <1>1
<1> HIDE DEF bad
<1>3. IsFiniteSet(D)
  BY <1>2, FS_Subset
<1>4. D # {}
  BY <1>2, <1>3, CombinedStep
<1> DEFINE x == First(D)
           U == D \ {x}
<1>5. x \in D /\ U \in SUBSET D /\ U # D
  BY <1>4, FirstIsElement
<1>6. /\ CombinedOver(r, D) = Merge(r[x[1]], CombinedOver(r, U))
      /\ CombinedOver(s, D) = Merge(s[x[1]], CombinedOver(s, U))
  BY <1>3, <1>4, CombinedStep
<1>7. r[x[1]] = s[x[1]] /\ CombinedOver(r, U) = CombinedOver(s, U)
  BY <1>2, <1>5
<1> QED
  BY <1>2, <1>6, <1>7

\* The message that comes along one edge more is combined into the others,
\* whichever of them is the last.
LEMMA CombinedAdd ==
  ASSUME OrderFree, NEW s, NEW E, IsFiniteSet(E), NEW e, e \notin E,
         Carries(s, E \cup {e})
  PROVE  CombinedOver(s, E \cup {e}) = Merge(CombinedOver(s, E), s[e[1]])
<1> DEFINE F == E \cup {e}
           ok(D) == \A f \in F : f \notin D =>
                      CombinedOver(s, D \cup {f}) = Merge(CombinedOver(s, D), s[f[1]])
           bad == {D \in SUBSET F : ~ok(D)}
<1>0. IsFiniteSet(F)
  BY FS_AddElement
<1> SUFFICES ASSUME bad # {} PROVE FALSE
  <2>1. ok(E)
    OBVIOUS
  <2> QED
    BY <2>1
<1>1. PICK D \in bad : \A U \in bad : U \subseteq D => U = D
  <2>1. bad \subseteq SUBSET F
    OBVIOUS
  <2> HIDE DEF bad
  <2> QED
    BY <1>0, <2>1, SmallestSet
<1>2. D \in SUBSET F /\ ~ok(D) /\ \A U \in SUBSET D : U # D => ok(U)
  BY <1>1
<1>3. PICK f \in F : /\ f \notin D
                     /\ CombinedOver(s, D \cup {f}) # Merge(CombinedOver(s, D), s[f[1]])
  BY <1>2
<1> HIDE DEF bad
<1>4. CombineClosed
  BY DEF CombineClosed, OrderFree
<1>5. \A U \in SUBSET F : IsFiniteSet(U) /\ Carries(s, U) /\ CombinedOver(s, U) \in Maybe
  BY <1>0, <1>4, FS_Subset, CombinedTyped DEF Carries
<1> DEFINE G == D \cup {f}
           x == First(G)
           H == G \ {x}
<1>6. G \in SUBSET F /\ G # {} /\ x \in G /\ H \in SUBSET F
  BY <1>2, FirstIsElement
<1>7. CombinedOver(s, G) = Merge(s[x[1]], CombinedOver(s, H))
  BY <1>5, <1>6, CombinedStep
<1>8. s[x[1]] \in Maybe /\ s[f[1]] \in Maybe
  BY <1>6 DEF Carries
<1>9. CASE x = f
  <2>1. H = D
    BY <1>3, <1>9
  <2>2. CombinedOver(s, D) \in Maybe /\ CombinedOver(s, G) = Merge(s[f[1]], CombinedOver(s, D))
    BY <1>2, <1>5, <1>7, <1>9, <2>1
  <2>3. Merge(s[f[1]], CombinedOver(s, D)) = Merge(CombinedOver(s, D), s[f[1]])
    BY <1>8, <2>2, MergeOrderFree
  <2> QED
    BY <1>3, <2>2, <2>3
<1>10. CASE x # f
  <2> DEFINE U == D \ {x}
  <2>1. /\ x \in D /\ U \in SUBSET D /\ U # D /\ f \notin U /\ x \notin U /\ x \in F
        /\ H = U \cup {f} /\ D = U \cup {x} /\ U \in SUBSET F
    BY <1>2, <1>3, <1>6, <1>10
  <2>2. ok(U)
    BY <1>2, <2>1
  <2>3. /\ CombinedOver(s, H) = Merge(CombinedOver(s, U), s[f[1]])
        /\ CombinedOver(s, D) = Merge(CombinedOver(s, U), s[x[1]])
    BY <2>1, <2>2
  <2>4. CombinedOver(s, U) \in Maybe
    BY <1>5, <2>1
  <2> DEFINE c == CombinedOver(s, U)
             a == s[x[1]]
             b == s[f[1]]
  <2>5. Merge(a, Merge(c, b)) = Merge(Merge(c, a), b)
    <3>1. c \in Maybe /\ a \in Maybe /\ b \in Maybe
      BY <1>8, <2>4
    <3> HIDE DEF a, b, c
    <3> QED
      BY <3>1, MergeOrderFree
  <2> QED
    BY <1>3, <1>7, <2>3, <2>5
<1> QED
  BY <1>9, <1>10

\* Edges along which nothing was broadcast make no difference.
LEMMA CombinedSkip ==
  ASSUME OrderFree, NEW s, NEW F, IsFiniteSet(F), Carries(s, F), NEW E, E \subseteq F,
         \A e \in F \ E : s[e[1]] = None
  PROVE  CombinedOver(s, F) = CombinedOver(s, E)
<1> DEFINE bad == {D \in SUBSET F : E \subseteq D /\ CombinedOver(s, D) # CombinedOver(s, E)}
<1> SUFFICES ASSUME bad # {} PROVE FALSE
  OBVIOUS
<1>1. PICK D \in bad : \A U \in bad : U \subseteq D => U = D
  <2>1. bad \subseteq SUBSET F
    OBVIOUS
  <2> HIDE DEF bad
  <2> QED
    BY <2>1, SmallestSet
<1>2. /\ D \in SUBSET F /\ E \subseteq D /\ CombinedOver(s, D) # CombinedOver(s, E)
      /\ \A U \in SUBSET D : E \subseteq U /\ U # D => CombinedOver(s, U) = CombinedOver(s, E)
  BY <1>1
<1> HIDE DEF bad
<1>3. PICK e \in D : e \notin E
  <2>1. D # E
    BY <1>2
  <2> QED
    BY <1>2, <2>1
<1> DEFINE U == D \ {e}
<1>4. U \in SUBSET D /\ E \subseteq U /\ U # D /\ e \notin U /\ D = U \cup {e}
  BY <1>2, <1>3
<1>5. IsFiniteSet(U) /\ Carries(s, U \cup {e})
  BY <1>2, <1>4, FS_Subset DEF Carries
<1>6. CombinedOver(s, U) = CombinedOver(s, E)
  BY <1>2, <1>4
<1> HIDE DEF U
<1>7. CombinedOver(s, U \cup {e}) = Merge(CombinedOver(s, U), s[e[1]])
  BY <1>4, <1>5, CombinedAdd
<1>8. s[e[1]] = None
  BY <1>2, <1>3
<1> QED
  BY <1>2, <1>4, <1>6, <1>7, <1>8, MergeNone

\* The edges of a graph on finitely many vertices.
LEMMA EdgesIntoFinite ==
  ASSUME NEW out \in [Vertices -> Seq(Vertices)], NEW d
  PROVE  /\ IsFiniteSet(EdgesInto(out, d))
         /\ \A e : e \in EdgesInto(out, d) <=>
              \E u \in Vertices : \E i \in 1 .. Len(out[u]) : e = <<u, i>> /\ out[u][i] = d
<1> DEFINE edgesOf == [u \in Vertices |-> {u} \X DOMAIN out[u]]
           all == {{u} \X DOMAIN out[u] : u \in Vertices}
<1>1. \A u \in Vertices : DOMAIN out[u] = 1 .. Len(out[u]) /\ Len(out[u]) \in Nat
  OBVIOUS
<1>2. edgesOf \in Surjection(Vertices, all)
  BY DEF Surjection
<1>3. IsFiniteSet(all)
  BY <1>2, VerticesAssumption, FS_Surjection
<1>4. \A T \in all : IsFiniteSet(T)
  <2> SUFFICES ASSUME NEW u \in Vertices PROVE IsFiniteSet({u} \X DOMAIN out[u])
    OBVIOUS
  <2>1. IsFiniteSet({u}) /\ IsFiniteSet(1 .. Len(out[u]))
    <3>1. 1 \in Int /\ Len(out[u]) \in Int
      BY <1>1
    <3> QED
      BY <3>1, FS_Singleton, FS_Interval
  <2> QED
    BY <1>1, <2>1, FS_Product
<1>5. IsFiniteSet(UNION all)
  BY <1>3, <1>4, FS_UNION
<1>6. EdgesInto(out, d) = {e \in UNION all : out[e[1]][e[2]] = d}
  BY DEF EdgesInto
<1>7. \A e : e \in UNION all <=> \E u \in Vertices : \E i \in 1 .. Len(out[u]) : e = <<u, i>>
  BY <1>1
<1>8. EdgesInto(out, d) \subseteq UNION all
  BY <1>6
<1> HIDE DEF all
<1>9. IsFiniteSet(EdgesInto(out, d))
  BY <1>5, <1>8, FS_Subset
<1> QED
  BY <1>6, <1>7, <1>9

\* So a vertex receives the smallest message of those that are broadcast to it.
LEMMA ReceivedIsLeast ==
  ASSUME CombinesLeast,
         NEW out \in [Vertices -> Seq(Vertices)], NEW s \in [Vertices -> Maybe], NEW d
  PROVE  /\ Received(out, s, d) \in Maybe
         /\ Received(out, s, d) # None =>
              \E u \in Vertices : Leads(out, u, d) /\ s[u] = Received(out, s, d)
         /\ \A u \in Vertices : Leads(out, u, d) /\ s[u] # None =>
              Received(out, s, d) # None /\ Received(out, s, d) <= s[u]
<1> DEFINE E == EdgesInto(out, d)
<1>1. \A u \in Vertices : DOMAIN out[u] = 1 .. Len(out[u])
  OBVIOUS
<1>2. /\ IsFiniteSet(E)
      /\ \A e : e \in E <=>
           \E u \in Vertices : \E i \in 1 .. Len(out[u]) : e = <<u, i>> /\ out[u][i] = d
  BY EdgesIntoFinite
<1>3. Received(out, s, d) = CombinedOver(s, E)
  BY DEF Received
<1> HIDE DEF E
<1>4. \A e \in E : e[1] \in Vertices /\ Leads(out, e[1], d)
  <2> SUFFICES ASSUME NEW e \in E PROVE e[1] \in Vertices /\ Leads(out, e[1], d)
    OBVIOUS
  <2>1. PICK u \in Vertices : \E i \in 1 .. Len(out[u]) : e = <<u, i>> /\ out[u][i] = d
    BY <1>2
  <2>2. e[1] = u
    BY <2>1
  <2>3. Leads(out, u, d)
    BY <1>1, <2>1 DEF Leads
  <2> QED
    BY <2>2, <2>3
<1>5. Carries(s, E)
  BY <1>4 DEF Carries
<1>6. \A u \in Vertices : Leads(out, u, d) => \E e \in E : e[1] = u
  <2> SUFFICES ASSUME NEW u \in Vertices, Leads(out, u, d) PROVE \E e \in E : e[1] = u
    OBVIOUS
  <2>1. PICK i \in 1 .. Len(out[u]) : out[u][i] = d
    BY <1>1 DEF Leads
  <2>2. <<u, i>> \in E /\ <<u, i>>[1] = u
    BY <1>2, <2>1
  <2> QED
    BY <2>2
<1> DEFINE c == CombinedOver(s, E)
<1>7. /\ c \in Maybe
      /\ c # None => \E e \in E : s[e[1]] = c
      /\ \A e \in E : s[e[1]] # None => c # None /\ c <= s[e[1]]
  <2>1. Messages \subseteq Nat
    BY DEF CombinesLeast
  <2>2. \A a, b \in Messages : Combine(a, b) = IF a > b THEN b ELSE a
    BY Zenon DEF CombinesLeast, MinCombine
  <2> QED
    BY <1>2, <1>5, <2>1, <2>2, CombinedIsLeast
<1> HIDE DEF c
<1>8. /\ c # None => \E u \in Vertices : Leads(out, u, d) /\ s[u] = c
      /\ \A u \in Vertices : Leads(out, u, d) /\ s[u] # None => c # None /\ c <= s[u]
  BY <1>4, <1>6, <1>7
<1> QED
  BY <1>3, <1>7, <1>8 DEF c

\* The order in which the smallest message is found makes no difference.
LEMMA LeastOrderFree ==
  ASSUME CombinesLeast PROVE OrderFree
<1>1. \A a, b \in Messages : Combine(a, b) = MinCombine(a, b)
  BY DEF CombinesLeast
<1>2. Messages \subseteq Nat
  BY DEF CombinesLeast
<1>3. \A a, b, c \in Messages :
        MinCombine(MinCombine(a, b), c) = MinCombine(a, MinCombine(b, c))
  BY <1>2 DEF MinCombine
<1>4. \A a, b \in Messages :
        MinCombine(a, b) = MinCombine(b, a) /\ MinCombine(a, b) \in Messages
  BY <1>2 DEF MinCombine
<1>5. ASSUME NEW a \in Messages, NEW b \in Messages, NEW c \in Messages
      PROVE  Combine(Combine(a, b), c) = Combine(a, Combine(b, c))
  BY <1>1, <1>3, <1>4
<1> QED
  BY <1>1, <1>4, <1>5 DEF OrderFree

\* A non-empty set of numbers has a smallest one.
LEMMA SmallestNumber ==
  ASSUME NEW S \in SUBSET Nat, S # {}
  PROVE  \E n \in S : \A m \in S : n <= m
<1>1. PICK k \in S : TRUE
  OBVIOUS
<1> DEFINE all == 1 .. k
           bad == {1 .. m : m \in {x \in S : x <= k}}
<1>2. bad \subseteq SUBSET all /\ bad # {}
  BY <1>1
<1>3. IsFiniteSet(all)
  <2>1. 1 \in Int /\ k \in Int
    OBVIOUS
  <2> QED
    BY <2>1, FS_Interval
<1>4. PICK T \in bad : \A U \in bad : U \subseteq T => U = T
  <2> HIDE DEF all, bad
  <2> QED
    BY <1>2, <1>3, SmallestSet
<1>5. PICK n \in {x \in S : x <= k} : T = 1 .. n
  BY <1>4
<1>6. ASSUME NEW m \in S, m < n PROVE FALSE
  <2>1. m \in Nat /\ n \in Nat /\ k \in Nat /\ m <= k
    BY <1>5, <1>6
  <2>2. 1 .. m \in bad /\ 1 .. m \subseteq T
    BY <1>5, <1>6, <2>1
  <2>3. 1 .. m = 1 .. n
    BY <1>4, <1>5, <2>2
  <2>4. n \in 1 .. n /\ n \notin 1 .. m
    BY <1>6, <2>1
  <2> QED
    BY <2>3, <2>4
<1> QED
  BY <1>5, <1>6

\* A finite set is enumerated without a repetition and without a gap.
LEMMA EnumerationBijective ==
  ASSUME NEW S, IsFiniteSet(S)
  PROVE  /\ Cardinality(S) \in Nat
         /\ Enumeration(S) \in [1 .. Cardinality(S) -> S]
         /\ \A i, j \in 1 .. Cardinality(S) : Enumeration(S)[i] = Enumeration(S)[j] => i = j
         /\ \A e \in S : \E i \in 1 .. Cardinality(S) : Enumeration(S)[i] = e
<1> DEFINE n == Cardinality(S)
<1>1. n \in Nat /\ ExistsBijection(1 .. n, S)
  BY FS_CardinalityType
<1>2. \E f \in [1 .. n -> S] : \A i, j \in DOMAIN f : f[i] = f[j] => i = j
  <2>1. PICK f : f \in Bijection(1 .. n, S)
    BY <1>1 DEF ExistsBijection
  <2> QED
    BY <2>1 DEF Bijection, Injection, IsInjective
<1>3. /\ Enumeration(S) \in [1 .. n -> S]
      /\ \A i, j \in DOMAIN Enumeration(S) : Enumeration(S)[i] = Enumeration(S)[j] => i = j
  BY <1>2, Zenon DEF Enumeration
<1>4. Enumeration(S) \in Injection(1 .. n, S)
  BY <1>3 DEF Injection, IsInjective
<1>5. IsFiniteSet(1 .. n) /\ Cardinality(1 .. n) = n
  <2>1. 1 \in Int /\ n \in Int
    BY <1>1
  <2> QED
    BY <1>1, <2>1, FS_Interval
<1>6. Enumeration(S) \in Surjection(1 .. n, S)
  BY <1>4, <1>5, FS_Injection
<1> QED
  BY <1>1, <1>3, <1>6 DEF Surjection

\* So a set of vertices becomes a list of those vertices, each of them once.
LEMMA EnumerationLists ==
  ASSUME NEW S \in SUBSET Vertices
  PROVE  /\ Enumeration(S) \in Seq(Vertices)
         /\ \A i, j \in DOMAIN Enumeration(S) : Enumeration(S)[i] = Enumeration(S)[j] => i = j
         /\ \A d : (\E i \in DOMAIN Enumeration(S) : Enumeration(S)[i] = d) <=> d \in S
<1> DEFINE list == Enumeration(S)
           n == Cardinality(S)
<1>1. IsFiniteSet(S)
  BY VerticesAssumption, FS_Subset
<1>2. /\ n \in Nat /\ list \in [1 .. n -> S]
      /\ \A i, j \in 1 .. n : list[i] = list[j] => i = j
      /\ \A e \in S : \E i \in 1 .. n : list[i] = e
  BY <1>1, EnumerationBijective
<1> HIDE DEF list, n
<1>3. DOMAIN list = 1 .. n /\ list \in Seq(Vertices)
  BY <1>2
<1>4. \A d : (\E i \in DOMAIN list : list[i] = d) <=> d \in S
  BY <1>2
<1> QED
  BY <1>2, <1>3, <1>4 DEF list

\* A list with no vertex twice is not longer than there are vertices.
LEMMA ListFits ==
  ASSUME NEW list \in Seq(Vertices),
         \A i, j \in DOMAIN list : list[i] = list[j] => i = j
  PROVE  /\ Len(list) \in Nat /\ DOMAIN list = 1 .. Len(list)
         /\ Len(list) <= Cardinality(Vertices)
         /\ DOMAIN list \subseteq 1 .. Cardinality(Vertices)
<1>1. Len(list) \in Nat /\ DOMAIN list = 1 .. Len(list)
  OBVIOUS
<1>2. list \in Injection(1 .. Len(list), Vertices)
  BY <1>1 DEF Injection, IsInjective
<1>3. Cardinality(1 .. Len(list)) = Len(list)
  <2> DEFINE n == Len(list)
  <2>1. 1 \in Int /\ n \in Int /\ n >= 0
    BY <1>1
  <2> HIDE DEF n
  <2>2. Cardinality(1 .. n) = IF 1 > n THEN 0 ELSE n - 1 + 1
    BY <2>1, FS_Interval
  <2>3. Cardinality(1 .. n) = n
    BY <2>1, <2>2
  <2> QED
    BY <2>3 DEF n
<1>4. Cardinality(1 .. Len(list)) <= Cardinality(Vertices)
  BY <1>2, VerticesAssumption, FS_Injection
<1>5. Cardinality(Vertices) \in Nat
  BY VerticesAssumption, FS_CardinalityType
<1> QED
  BY <1>1, <1>3, <1>4, <1>5

------------------------------------------------------------------------------
(* The loop of the pull versions over a list of in-neighbours.             *)

\* f[i] is what the loop has combined behind position i, from first on.
IsFetch(f, first, list, has, box) ==
  f = [i \in first .. Len(list) |->
        IF i = first THEN box[list[i]]
        ELSE IF i \in Senders(list, has) THEN Combine(f[i - 1], box[list[i]]) ELSE f[i - 1]]

\* The same, up to position n.
FetchTo(n, f, first, list, has, box) ==
  f = [i \in first .. n |->
        IF i = first THEN box[list[i]]
        ELSE IF i \in Senders(list, has) THEN Combine(f[i - 1], box[list[i]]) ELSE f[i - 1]]

\* The loop is defined for every list.
LEMMA FetchExists ==
  ASSUME NEW list, NEW has, NEW box, Len(list) \in Nat, NEW first \in 1 .. Len(list)
  PROVE  \E f : IsFetch(f, first, list, has, box)
<1> DEFINE bad == {n \in first .. Len(list) : ~\E f : FetchTo(n, f, first, list, has, box)}
<1>1. ASSUME bad # {} PROVE FALSE
  <2>1. PICK n \in bad : \A m \in bad : n <= m
    <3>1. bad \in SUBSET Nat
      OBVIOUS
    <3> HIDE DEF bad
    <3> QED
      BY <1>1, <3>1, SmallestNumber
  <2>2. CASE n = first
    <3> DEFINE f == [i \in first .. n |-> box[list[i]]]
    <3>1. FetchTo(n, f, first, list, has, box)
      BY <2>2 DEF FetchTo
    <3> QED
      BY <3>1, <2>1
  <2>3. CASE n # first
    <3>1. n - 1 \in first .. Len(list) /\ n - 1 < n
      BY <2>1, <2>3
    <3>2. PICK g : FetchTo(n - 1, g, first, list, has, box)
      BY <2>1, <3>1
    <3> DEFINE last == IF n \in Senders(list, has) THEN Combine(g[n - 1], box[list[n]])
                       ELSE g[n - 1]
               f == [i \in first .. n |-> IF i = n THEN last ELSE g[i]]
    <3>3. \A i \in first .. n - 1 : f[i] = g[i]
      BY <3>1
    <3>4. \A i \in first .. n - 1 :
            g[i] = IF i = first THEN box[list[i]]
                   ELSE IF i \in Senders(list, has) THEN Combine(g[i - 1], box[list[i]])
                   ELSE g[i - 1]
      BY <3>2, Zenon DEF FetchTo
    <3>5. \A i \in first .. n :
            f[i] = IF i = first THEN box[list[i]]
                   ELSE IF i \in Senders(list, has) THEN Combine(f[i - 1], box[list[i]])
                   ELSE f[i - 1]
      <4> SUFFICES ASSUME NEW i \in first .. n
                   PROVE  f[i] = IF i = first THEN box[list[i]]
                                 ELSE IF i \in Senders(list, has)
                                 THEN Combine(f[i - 1], box[list[i]]) ELSE f[i - 1]
        OBVIOUS
      <4>1. CASE i = n
        <5>1. f[n] = last /\ f[n - 1] = g[n - 1]
          BY <3>1, <3>3
        <5> QED
          BY <4>1, <5>1, <2>3
      <4>2. CASE i # n
        <5>1. i \in first .. n - 1
          BY <4>2, <2>1
        <5>2. i # first => i - 1 \in first .. n - 1
          BY <5>1
        <5>3. f[i] = g[i] /\ (i # first => f[i - 1] = g[i - 1])
          BY <3>3, <5>1, <5>2
        <5> HIDE DEF f
        <5> QED
          BY <3>4, <5>1, <5>3
      <4> QED
        BY <4>1, <4>2
    <3>6. FetchTo(n, f, first, list, has, box)
      <4>1. f = [i \in first .. n |-> f[i]]
        OBVIOUS
      <4> HIDE DEF f
      <4> QED
        BY <3>5, <4>1 DEF FetchTo
    <3> QED
      BY <3>6, <2>1
  <2> QED
    BY <2>2, <2>3
<1>2. Len(list) \notin bad
  BY <1>1
<1> QED
  BY <1>2 DEF FetchTo, IsFetch

\* One iteration of the loop.
LEMMA FetchStep ==
  ASSUME NEW list, NEW has, NEW box, NEW first, NEW f, IsFetch(f, first, list, has, box),
         NEW i \in first .. Len(list)
  PROVE  f[i] = IF i = first THEN box[list[i]]
                ELSE IF i \in Senders(list, has) THEN Combine(f[i - 1], box[list[i]])
                ELSE f[i - 1]
BY Zenon DEF IsFetch

\* What the loop finds is a message.
LEMMA FetchTyped ==
  ASSUME CombineClosed, NEW list, NEW has, NEW box, Len(list) \in Nat,
         \A i \in Senders(list, has) : box[list[i]] \in Messages,
         NEW first \in 1 .. Len(list), first \in Senders(list, has),
         NEW f, IsFetch(f, first, list, has, box)
  PROVE  f[Len(list)] \in Messages
<1> DEFINE bad == {i \in first .. Len(list) : f[i] \notin Messages}
<1>1. ASSUME bad # {} PROVE FALSE
  <2>1. PICK n \in bad : \A m \in bad : n <= m
    <3>1. bad \in SUBSET Nat
      OBVIOUS
    <3> HIDE DEF bad
    <3> QED
      BY <1>1, <3>1, SmallestNumber
  <2>2. f[n] = IF n = first THEN box[list[n]]
               ELSE IF n \in Senders(list, has) THEN Combine(f[n - 1], box[list[n]])
               ELSE f[n - 1]
    BY <2>1, FetchStep
  <2>3. n # first => f[n - 1] \in Messages
    BY <2>1
  <2> QED
    BY <2>1, <2>2, <2>3 DEF CombineClosed
<1> QED
  BY <1>1

\* list has the sources of the edges of E, each edge once.
Lists(list, E, n, edges) ==
  /\ IsFiniteSet(E) /\ n \in Nat /\ edges \in [1 .. n -> E]
  /\ \A i, j \in 1 .. n : edges[i] = edges[j] => i = j
  /\ \A e \in E : \E i \in 1 .. n : edges[i] = e
  /\ list = [i \in 1 .. n |-> edges[i][1]]
  /\ Len(list) = n

\* f is the loop over list, from the first that has broadcast.
Loop(f, first, list, has, box) ==
  /\ \A i \in Senders(list, has) : box[list[i]] \in Messages
  /\ first \in Senders(list, has) /\ \A i \in Senders(list, has) : first <= i
  /\ IsFetch(f, first, list, has, box)

\* What the loop finds is everything that was broadcast along the listed edges,
\* combined, whatever the order of the list.
LEMMA FetchCombines ==
  ASSUME OrderFree, NEW list, NEW E, NEW n, NEW edges, Lists(list, E, n, edges),
         NEW f, NEW first, NEW has, NEW box, Loop(f, first, list, has, box),
         NEW s, Carries(s, E),
         \A e \in E : s[e[1]] = IF has[e[1]] THEN box[e[1]] ELSE None
  PROVE  f[n] = CombinedOver(s, E)
<1> USE DEF Lists, Loop
<1> DEFINE upto(i) == {edges[j] : j \in 1 .. i}
<1>1. first \in 1 .. n /\ DOMAIN list = 1 .. n
  BY DEF Senders
<1>2. \A i \in 1 .. n : /\ edges[i] \in E
                        /\ list[i] = edges[i][1]
                        /\ s[edges[i][1]] = IF i \in Senders(list, has) THEN box[list[i]] ELSE None
  <2>1. \A i \in 1 .. n : edges[i] \in E /\ list[i] = edges[i][1]
    OBVIOUS
  <2> QED
    BY <1>1, <2>1 DEF Senders
<1>3. \A i \in Nat : i <= n => upto(i) \subseteq E /\ IsFiniteSet(upto(i)) /\ Carries(s, upto(i))
  <2> SUFFICES ASSUME NEW i \in Nat, i <= n
               PROVE  upto(i) \subseteq E /\ IsFiniteSet(upto(i)) /\ Carries(s, upto(i))
    OBVIOUS
  <2>1. upto(i) \subseteq E
    OBVIOUS
  <2> HIDE DEF upto
  <2> QED
    BY <2>1, FS_Subset DEF Carries
<1>4. ASSUME NEW i \in 1 .. n
      PROVE  CombinedOver(s, upto(i)) = Merge(CombinedOver(s, upto(i - 1)), s[edges[i][1]])
  <2>1. i - 1 \in Nat /\ i - 1 <= n /\ i \in Nat /\ i <= n
    OBVIOUS
  <2>2. edges[i] \notin upto(i - 1)
    OBVIOUS
  <2>3. upto(i) = upto(i - 1) \cup {edges[i]}
    <3>1. 1 .. i = (1 .. i - 1) \cup {i}
      OBVIOUS
    <3> QED
      BY <3>1
  <2> HIDE DEF upto
  <2>4. IsFiniteSet(upto(i - 1)) /\ Carries(s, upto(i))
    BY <1>3, <2>1
  <2>5. Carries(s, upto(i - 1) \cup {edges[i]})
    BY <2>3, <2>4
  <2> QED
    BY <2>2, <2>3, <2>4, <2>5, CombinedAdd
<1>5. CombinedOver(s, upto(first - 1)) = None
  <2>1. first - 1 \in Nat /\ first - 1 <= n
    BY <1>1
  <2>2. \A e \in upto(first - 1) : s[e[1]] = None
    BY <1>1, <1>2
  <2>3. CombineClosed
    BY DEF CombineClosed, OrderFree
  <2> HIDE DEF upto
  <2> QED
    BY <1>3, <2>1, <2>2, <2>3, CombinedTyped
<1> DEFINE bad == {i \in first .. n : f[i] # CombinedOver(s, upto(i)) \/ f[i] \notin Messages}
<1>6. ASSUME bad # {} PROVE FALSE
  <2>1. PICK i \in bad : \A m \in bad : i <= m
    <3>1. bad \in SUBSET Nat
      BY <1>1
    <3> HIDE DEF bad
    <3> QED
      BY <1>6, <3>1, SmallestNumber
  <2>2. i \in 1 .. n /\ i \in first .. Len(list)
    BY <1>1, <2>1
  <2>3. f[i] = IF i = first THEN box[list[i]]
               ELSE IF i \in Senders(list, has) THEN Combine(f[i - 1], box[list[i]])
               ELSE f[i - 1]
    BY <2>2, FetchStep
  <2>4. CombinedOver(s, upto(i)) = Merge(CombinedOver(s, upto(i - 1)), s[edges[i][1]])
    BY <1>4, <2>2
  <2>5. i \in Senders(list, has) => box[list[i]] \in Messages
    <3> SUFFICES ASSUME i \in Senders(list, has) PROVE box[list[i]] \in Messages
      OBVIOUS
    <3> QED
      BY <1>1, <2>2 DEF Senders
  <2>6. CASE i = first
    <3>1. f[i] = box[list[i]] /\ s[edges[i][1]] = box[list[i]] /\ box[list[i]] \in Messages
      BY <1>2, <2>2, <2>3, <2>5, <2>6
    <3>2. CombinedOver(s, upto(i)) = box[list[i]]
      BY <1>5, <2>4, <2>6, <3>1, MergeNone
    <3> QED
      BY <2>1, <3>1, <3>2
  <2>7. CASE i # first
    <3>1. f[i - 1] = CombinedOver(s, upto(i - 1)) /\ f[i - 1] \in Messages
      <4>1. i - 1 \in first .. n /\ ~(i <= i - 1)
        BY <1>1, <2>1, <2>7
      <4> QED
        BY <2>1, <4>1
    <3>2. CASE i \in Senders(list, has)
      <4>1. /\ f[i] = Combine(f[i - 1], box[list[i]])
            /\ CombinedOver(s, upto(i)) = Merge(f[i - 1], box[list[i]])
            /\ box[list[i]] \in Messages
        BY <1>2, <2>2, <2>3, <2>4, <2>5, <2>7, <3>1, <3>2
      <4>2. f[i - 1] # None /\ box[list[i]] # None
        BY <3>1, <4>1, NoneAssumption
      <4>3. CombinedOver(s, upto(i)) = f[i]
        BY <4>1, <4>2 DEF Merge
      <4>4. f[i] \in Messages
        BY <3>1, <4>1 DEF OrderFree
      <4> QED
        BY <2>1, <4>3, <4>4
    <3>3. CASE i \notin Senders(list, has)
      <4>1. f[i] = f[i - 1] /\ CombinedOver(s, upto(i)) = Merge(f[i - 1], None)
        BY <1>2, <2>2, <2>3, <2>4, <2>7, <3>1, <3>3
      <4> QED
        BY <2>1, <3>1, <4>1, MergeNone
    <3> QED
      BY <3>2, <3>3
  <2> QED
    BY <2>6, <2>7
<1>7. upto(n) = E
  OBVIOUS
<1>8. f[n] = CombinedOver(s, upto(n))
  <2>1. n \in first .. n
    BY <1>1
  <2> HIDE DEF upto
  <2> QED
    BY <1>6, <2>1
<1> QED
  BY <1>7, <1>8

\* The list of in-neighbours of a vertex, and the edges it enumerates.
LEMMA ListOfEdges ==
  ASSUME NEW out \in [Vertices -> Seq(Vertices)], NEW d
  PROVE  \E E, n, edges :
           /\ E = EdgesInto(out, d)
           /\ Lists(InNeighboursOf(out, d), E, n, edges)
           /\ \A e \in E : e[1] \in Vertices
           /\ InNeighboursOf(out, d) \in Seq(Vertices)
<1> DEFINE E == EdgesInto(out, d)
           n == Cardinality(E)
           edges == Enumeration(E)
           list == InNeighboursOf(out, d)
<1>1. E = EdgesInto(out, d) /\ IsFiniteSet(E) /\ \A e \in E : e[1] \in Vertices
  BY EdgesIntoFinite
<1>2. list = [i \in DOMAIN edges |-> edges[i][1]]
  BY DEF InNeighboursOf
<1> HIDE DEF E, list
<1>3. /\ n \in Nat /\ edges \in [1 .. n -> E]
      /\ \A i, j \in 1 .. n : edges[i] = edges[j] => i = j
      /\ \A e \in E : \E i \in 1 .. n : edges[i] = e
  BY <1>1, EnumerationBijective
<1> HIDE DEF edges, n
<1>4. list = [i \in 1 .. n |-> edges[i][1]]
  BY <1>2, <1>3
<1>5. \A i \in 1 .. n : edges[i][1] \in Vertices
  BY <1>1, <1>3
<1>6. list \in Seq(Vertices) /\ Len(list) = n
  BY <1>3, <1>4, <1>5
<1>7. Lists(list, E, n, edges)
  BY <1>1, <1>3, <1>4, <1>6 DEF Lists
<1> QED
  BY <1>1, <1>6, <1>7 DEF list

\* When somebody has broadcast, the first loop finds the first of them, and the
\* second goes on from there.
LEMMA FetchReads ==
  ASSUME NEW list \in Seq(Vertices), NEW has, NEW box, Senders(list, has) # {},
         \A u \in Vertices : has[u] => box[u] \in Messages
  PROVE  \E first, f : /\ Len(list) \in Nat /\ first \in 1 .. Len(list)
                       /\ Loop(f, first, list, has, box)
                       /\ CombinedFrom(list, has, box) = f[Len(list)]
<1> DEFINE first == FirstSender(list, has)
<1>1. Senders(list, has) \subseteq 1 .. Len(list) /\ Len(list) \in Nat
  BY DEF Senders
<1>2. \E i \in Senders(list, has) : \A j \in Senders(list, has) : i <= j
  BY <1>1, SmallestNumber
<1>3. first \in Senders(list, has) /\ \A j \in Senders(list, has) : first <= j
  BY <1>2, Zenon DEF FirstSender
<1>4. \A i \in Senders(list, has) : box[list[i]] \in Messages
  BY <1>1 DEF Senders
<1>5. \E f : IsFetch(f, first, list, has, box)
  BY <1>1, <1>3, FetchExists
<1> DEFINE g == CHOOSE f : IsFetch(f, first, list, has, box)
<1>6. IsFetch(g, first, list, has, box)
  BY <1>5, Zenon
<1>7. CombinedFrom(list, has, box) = g[Len(list)]
  BY Zenon DEF IsFetch, CombinedFrom
<1> HIDE DEF first, g
<1>8. Loop(g, first, list, has, box) /\ first \in 1 .. Len(list)
  BY <1>1, <1>3, <1>4, <1>6 DEF Loop
<1> QED
  BY <1>1, <1>7, <1>8

\* What a vertex fetches is a message.
LEMMA FetchedTyped ==
  ASSUME CombineClosed, NEW list \in Seq(Vertices), NEW has, NEW box,
         Senders(list, has) # {}, \A u \in Vertices : has[u] => box[u] \in Messages
  PROVE  CombinedFrom(list, has, box) \in Messages
<1>1. PICK first, f : /\ Len(list) \in Nat /\ first \in 1 .. Len(list)
                      /\ Loop(f, first, list, has, box)
                      /\ CombinedFrom(list, has, box) = f[Len(list)]
  BY FetchReads
<1>2. f[Len(list)] \in Messages
  BY <1>1, FetchTyped DEF Loop
<1> QED
  BY <1>1, <1>2

\* It is the combination of what was broadcast along the listed edges.
LEMMA FoundCombined ==
  ASSUME OrderFree, NEW list \in Seq(Vertices), NEW has, NEW box, Senders(list, has) # {},
         \A u \in Vertices : has[u] => box[u] \in Messages,
         NEW E, NEW n, NEW edges, Lists(list, E, n, edges), NEW s, Carries(s, E),
         \A e \in E : s[e[1]] = IF has[e[1]] THEN box[e[1]] ELSE None
  PROVE  CombinedFrom(list, has, box) = CombinedOver(s, E)
<1>1. PICK first, f : /\ Len(list) \in Nat /\ first \in 1 .. Len(list)
                      /\ Loop(f, first, list, has, box)
                      /\ CombinedFrom(list, has, box) = f[Len(list)]
  BY FetchReads
<1>2. f[n] = CombinedOver(s, E)
  BY <1>1, FetchCombines
<1>3. Len(list) = n
  BY DEF Lists
<1> QED
  BY <1>1, <1>2, <1>3

\* What a vertex finds in the outboxes of its in-neighbours is what they broadcast.
LEMMA FetchReceives ==
  ASSUME OrderFree, NEW out \in [Vertices -> Seq(Vertices)], NEW d, NEW has, NEW box,
         \A u \in Vertices : has[u] => box[u] \in Messages,
         NEW s, \A u \in Vertices : s[u] = IF has[u] THEN box[u] ELSE None,
         NEW list, list = InNeighboursOf(out, d)
  PROVE  /\ Senders(list, has) # {} <=> Received(out, s, d) # None
         /\ Senders(list, has) # {} => CombinedFrom(list, has, box) = Received(out, s, d)
<1>1. PICK E, n, edges :
        /\ E = EdgesInto(out, d)
        /\ Lists(InNeighboursOf(out, d), E, n, edges)
        /\ \A e \in E : e[1] \in Vertices
        /\ InNeighboursOf(out, d) \in Seq(Vertices)
  BY ListOfEdges, Zenon
<1>2. /\ IsFiniteSet(E) /\ n \in Nat /\ edges \in [1 .. n -> E]
      /\ \A e \in E : \E i \in 1 .. n : edges[i] = e
      /\ list = [i \in 1 .. n |-> edges[i][1]]
      /\ Len(list) = n /\ list \in Seq(Vertices)
  BY <1>1 DEF Lists
<1>3. Carries(s, E) /\ \A e \in E : s[e[1]] = IF has[e[1]] THEN box[e[1]] ELSE None
  BY <1>1 DEF Carries, Maybe
<1>4. CombineClosed
  BY DEF CombineClosed, OrderFree
<1>5. Received(out, s, d) = CombinedOver(s, E)
  BY <1>1 DEF Received
<1>6. CombinedOver(s, E) = None <=> \A e \in E : s[e[1]] = None
  BY <1>2, <1>3, <1>4, CombinedTyped
<1>7. \A e \in E : s[e[1]] # None <=> has[e[1]]
  BY <1>1, <1>3, NoneAssumption
<1>8. Senders(list, has) # {} <=> \E e \in E : has[e[1]]
  <2>1. \A i \in 1 .. n : edges[i] \in E /\ list[i] = edges[i][1]
    BY <1>2
  <2>2. \A i : i \in Senders(list, has) <=> i \in 1 .. n /\ has[edges[i][1]]
    BY <1>2, <2>1 DEF Senders
  <2> QED
    BY <1>2, <2>1, <2>2
<1>9. Senders(list, has) # {} => CombinedFrom(list, has, box) = CombinedOver(s, E)
  <2>1. list \in Seq(Vertices) /\ Lists(list, E, n, edges)
    BY <1>1, <1>2
  <2> QED
    BY <1>3, <2>1, FoundCombined
<1> QED
  BY <1>5, <1>6, <1>7, <1>8, <1>9
==============================================================================
