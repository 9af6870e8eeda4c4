-------------------------- MODULE CombinerSpread_proofs --------------------------
(***************************************************************************)
(* Proofs about CombinerSpread for every team of threads, every graph and  *)
(* every program that keeps to its types: the lists that the threads keep  *)
(* of the mailboxes they wrote first are merged into exactly the vertices  *)
(* that received a message, the merged list has room for them, and the run *)
(* is one of the superstep semantics.                                      *)
(***************************************************************************)
EXTENDS CombinerSpread, Mailbox_proofs

------------------------------------------------------------------------------
(* The phases of the loop of ip_run.                                       *)

\* No label is in two phases.
LEMMA PhasesApart == Apart(Phases)
BY DEF Apart, Phases, HeadLabels, StartLabels, ComputeLabels, CountLabels, MergeLabels,
   SwapLabels, FinishLabels

\* The names of the phases, which are all different.
LEMMA PhaseNames ==
  /\ HeadLabels \in Phases /\ StartLabels \in Phases /\ ComputeLabels \in Phases
  /\ CountLabels \in Phases /\ MergeLabels \in Phases /\ SwapLabels \in Phases
  /\ FinishLabels \in Phases
  /\ HeadLabels # StartLabels /\ HeadLabels # ComputeLabels /\ HeadLabels # CountLabels
  /\ HeadLabels # MergeLabels /\ HeadLabels # SwapLabels /\ HeadLabels # FinishLabels
  /\ StartLabels # ComputeLabels /\ StartLabels # CountLabels /\ StartLabels # MergeLabels
  /\ StartLabels # SwapLabels /\ StartLabels # FinishLabels
  /\ ComputeLabels # CountLabels /\ ComputeLabels # MergeLabels
  /\ ComputeLabels # SwapLabels /\ ComputeLabels # FinishLabels
  /\ CountLabels # MergeLabels /\ CountLabels # SwapLabels /\ CountLabels # FinishLabels
  /\ MergeLabels # SwapLabels /\ MergeLabels # FinishLabels /\ SwapLabels # FinishLabels
BY DEF Phases, HeadLabels, StartLabels, ComputeLabels, CountLabels, MergeLabels, SwapLabels,
   FinishLabels

\* The labels of each phase.
LEMMA LabelNames ==
  /\ "while" \in HeadLabels /\ "entered" \in HeadLabels /\ "exit" \in HeadLabels
  /\ "start" \in StartLabels /\ "start_done" \in StartLabels
  /\ "compute" \in ComputeLabels /\ "send" \in ComputeLabels /\ "compute_done" \in ComputeLabels
  /\ "count" \in CountLabels /\ "counted" \in CountLabels
  /\ "merge" \in MergeLabels /\ "merge_done" \in MergeLabels
  /\ "swap" \in SwapLabels /\ "swap_done" \in SwapLabels
  /\ "finish" \in FinishLabels /\ "finish_done" \in FinishLabels
BY DEF HeadLabels, StartLabels, ComputeLabels, CountLabels, MergeLabels, SwapLabels, FinishLabels

\* All threads are in phase P, and in no other.
Inside(P) ==
  /\ \A u \in Threads : pc[u] \in P
  /\ AnyAt(HeadLabels) <=> P = HeadLabels
  /\ AnyAt(StartLabels) <=> P = StartLabels
  /\ AnyAt(ComputeLabels) <=> P = ComputeLabels
  /\ AnyAt(CountLabels) <=> P = CountLabels
  /\ AnyAt(MergeLabels) <=> P = MergeLabels
  /\ AnyAt(SwapLabels) <=> P = SwapLabels
  /\ AnyAt(FinishLabels) <=> P = FinishLabels

\* Threads that are all in one phase are in no other.
LEMMA PhaseTests ==
  ASSUME NEW P \in Phases
  PROVE  /\ (\A u \in Threads : pc[u] \in P) => Inside(P)
         /\ (\A u \in Threads : pc'[u] \in P) => Inside(P)'
<1>1. ASSUME NEW f, \A u \in Threads : f[u] \in P, NEW Q \in Phases
      PROVE  (\E u \in Threads : f[u] \in Q) <=> P = Q
  BY <1>1, PhasesApart, ThreadsAssumption DEF Apart
<1>2. ASSUME \A u \in Threads : pc[u] \in P PROVE Inside(P)
  <2>1. \A Q \in Phases : AnyAt(Q) <=> P = Q
    BY <1>1, <1>2 DEF AnyAt
  <2> QED
    BY <1>2, <2>1, PhaseNames DEF Inside
<1>3. ASSUME \A u \in Threads : pc'[u] \in P PROVE Inside(P)'
  <2>1. \A Q \in Phases : AnyAt(Q)' <=> P = Q
    BY <1>1, <1>3 DEF AnyAt
  <2> QED
    BY <1>3, <2>1, PhaseNames DEF Inside
<1> QED
  BY <1>2, <1>3

\* A thread's label says where all threads are.
LEMMA PlaceOf ==
  ASSUME SamePhase, NEW P \in Phases, NEW t \in Threads, pc[t] \in P
  PROVE  Inside(P)
<1>1. \A u \in Threads : pc[u] \in P
  BY PhasesApart, PhaseOf DEF SamePhase
<1> QED
  BY <1>1, PhaseTests

\* What a move within phase P tells about the phases.
LEMMA MoveTests ==
  ASSUME TypeOK, SamePhase, NEW P \in Phases, NEW t \in Threads, NEW from \in P, NEW to \in P,
         Move(t, from, to)
  PROVE  /\ Inside(P) /\ Inside(P)' /\ SamePhase'
         /\ pc[t] = from /\ pc'[t] = to /\ \A u \in Threads \ {t} : pc'[u] = pc[u]
<1>1. (\A u \in Threads : pc[u] \in P /\ pc'[u] \in P) /\ SamePhase'
  BY PhasesApart, MoveTogether DEF TypeOK, SamePhase
<1>2. /\ \A u \in Threads \ {t} : pc'[u] = pc[u]
      /\ pc[t] = from /\ pc'[t] = to
  BY DEF Move, TypeOK
<1> QED
  BY <1>1, <1>2, PhaseTests

\* A thread's step within ip_broadcast moves no thread.
LEMMA StayTests ==
  ASSUME SamePhase, NEW P \in Phases, NEW t \in Threads, pc[t] \in P, UNCHANGED pc
  PROVE  Inside(P) /\ Inside(P)' /\ SamePhase'
<1>1. \A u \in Threads : pc[u] \in P
  BY PhasesApart, PhaseOf DEF SamePhase
<1> QED
  BY <1>1, PhaseTests DEF SamePhase, Together

\* Where a barrier is, and where the threads are behind it.
LEMMA BarrierPlaces ==
  ASSUME NEW P \in Phases, NEW label \in P
  PROVE  /\ AllAt(label) => Inside(P)
         /\ pc' = [u \in Threads |-> label] => Inside(P)' /\ SamePhase'
BY PhaseTests DEF AllAt, SamePhase, Together

\* The phases that end at the barriers.
LEMMA BeforeBarrier ==
  /\ AllAt("entered") => Inside(HeadLabels)
  /\ AllAt("start_done") => Inside(StartLabels)
  /\ AllAt("compute_done") => Inside(ComputeLabels)
  /\ AllAt("counted") => Inside(CountLabels)
  /\ AllAt("merge_done") => Inside(MergeLabels)
  /\ AllAt("swap_done") => Inside(SwapLabels)
  /\ AllAt("finish_done") => Inside(FinishLabels)
BY BarrierPlaces, PhaseNames, LabelNames

\* The phases that begin at them.
LEMMA BehindBarrier ==
  /\ pc' = [u \in Threads |-> "start"] => Inside(StartLabels)' /\ SamePhase'
  /\ pc' = [u \in Threads |-> "compute"] => Inside(ComputeLabels)' /\ SamePhase'
  /\ pc' = [u \in Threads |-> "count"] => Inside(CountLabels)' /\ SamePhase'
  /\ pc' = [u \in Threads |-> "merge"] => Inside(MergeLabels)' /\ SamePhase'
  /\ pc' = [u \in Threads |-> "swap"] => Inside(SwapLabels)' /\ SamePhase'
  /\ pc' = [u \in Threads |-> "finish"] => Inside(FinishLabels)' /\ SamePhase'
  /\ pc' = [u \in Threads |-> "while"] => Inside(HeadLabels)' /\ SamePhase'
BY BarrierPlaces, PhaseNames, LabelNames

\* Where no thread is in a loop, no iteration is left.
LEMMA OutsideLoops ==
  ASSUME IterationsLeft, \A u \in Threads : pc[u] \notin {"compute", "send", "swap"}
  PROVE  todo = {}
BY DEF IterationsLeft, AnyAt

------------------------------------------------------------------------------
(* Lists of vertices.                                                      *)

\* A list with no vertex twice is as long as it has vertices.
LEMMA LengthOfList ==
  ASSUME NEW list \in Seq(Vertices), Once(list)
  PROVE  /\ IsFiniteSet(Elements(list))
         /\ Cardinality(Elements(list)) = Len(list)
         /\ Elements(list) \subseteq Vertices
<1> DEFINE n == Len(list)
<1>1. n \in Nat /\ DOMAIN list = 1 .. n /\ \A i \in 1 .. n : list[i] \in Vertices
  OBVIOUS
<1>2. Elements(list) \subseteq Vertices
  BY <1>1 DEF Elements
<1>3. list \in Bijection(1 .. n, Elements(list))
  BY <1>1 DEF Bijection, Injection, Surjection, IsInjective, Elements, Once
<1> HIDE DEF n
<1>4. IsFiniteSet(1 .. n) /\ Cardinality(1 .. n) = n
  <2>1. 1 \in Int /\ n \in Int
    BY <1>1
  <2> QED
    BY <1>1, <2>1, FS_Interval
<1>5. ExistsBijection(1 .. n, Elements(list))
  BY <1>3 DEF ExistsBijection
<1>6. Cardinality(Elements(list)) = n
  BY <1>4, <1>5, FS_Bijection
<1> QED
  BY <1>2, <1>6, VerticesAssumption, FS_Subset DEF n

\* A list behind another one that has no vertex in common with it.
LEMMA ListBehind ==
  ASSUME NEW a \in Seq(Vertices), NEW b \in Seq(Vertices), Once(a), Once(b),
         Elements(a) \cap Elements(b) = {}
  PROVE  /\ a \o b \in Seq(Vertices)
         /\ Once(a \o b)
         /\ Elements(a \o b) = Elements(a) \cup Elements(b)
<1> DEFINE m == Len(a)
           n == Len(b)
           c == a \o b
<1>1. /\ m \in Nat /\ n \in Nat /\ DOMAIN a = 1 .. m /\ DOMAIN b = 1 .. n
      /\ c \in Seq(Vertices) /\ DOMAIN c = 1 .. m + n
      /\ \A i \in 1 .. m : c[i] = a[i]
      /\ \A i \in m + 1 .. m + n : c[i] = b[i - m]
  OBVIOUS
<1> HIDE DEF c, m, n
<1>2. \A i \in 1 .. m + n : i \in 1 .. m \/ (i \in m + 1 .. m + n /\ i - m \in 1 .. n)
  BY <1>1
<1>3. \A i \in 1 .. n : m + i \in m + 1 .. m + n /\ c[m + i] = b[i] /\ m + i \in 1 .. m + n
  BY <1>1
<1>4. \A i \in 1 .. m : i \in 1 .. m + n
  BY <1>1
<1>5. Elements(c) = Elements(a) \cup Elements(b)
  <2>1. ASSUME NEW d \in Elements(c) PROVE d \in Elements(a) \cup Elements(b)
    <3>1. PICK i \in 1 .. m + n : c[i] = d
      BY <1>1, <2>1 DEF Elements
    <3>2. CASE i \in 1 .. m
      BY <1>1, <3>1, <3>2 DEF Elements
    <3>3. CASE i \in m + 1 .. m + n /\ i - m \in 1 .. n
      BY <1>1, <3>1, <3>3 DEF Elements
    <3> QED
      BY <1>2, <3>2, <3>3
  <2>2. ASSUME NEW d \in Elements(a) PROVE d \in Elements(c)
    BY <1>1, <1>4, <2>2 DEF Elements
  <2>3. ASSUME NEW d \in Elements(b) PROVE d \in Elements(c)
    <3>1. PICK i \in 1 .. n : b[i] = d
      BY <1>1, <2>3 DEF Elements
    <3>2. m + i \in DOMAIN c /\ c[m + i] = d
      BY <1>1, <1>3, <3>1
    <3> QED
      BY <3>2 DEF Elements
  <2> QED
    BY <2>1, <2>2, <2>3
<1>6. Once(c)
  <2> SUFFICES ASSUME NEW i \in 1 .. m + n, NEW j \in 1 .. m + n, c[i] = c[j]
               PROVE  i = j
    BY <1>1 DEF Once
  <2>1. \A k \in 1 .. m, l \in 1 .. n : a[k] # b[l]
    BY <1>1 DEF Elements
  <2>2. CASE i \in 1 .. m /\ j \in 1 .. m
    BY <1>1, <2>2 DEF Once
  <2>3. CASE i \in m + 1 .. m + n /\ j \in m + 1 .. m + n
    <3>1. b[i - m] = b[j - m] /\ i - m \in DOMAIN b /\ j - m \in DOMAIN b
      BY <1>1, <2>3
    <3>2. i - m = j - m
      BY <3>1 DEF Once
    <3> QED
      BY <1>1, <2>3, <3>2
  <2>4. CASE i \in 1 .. m /\ j \in m + 1 .. m + n
    BY <1>1, <1>2, <2>1, <2>4
  <2>5. CASE i \in m + 1 .. m + n /\ j \in 1 .. m
    BY <1>1, <1>2, <2>1, <2>5
  <2> QED
    BY <1>2, <2>2, <2>3, <2>4, <2>5
<1> QED
  BY <1>1, <1>5, <1>6 DEF c

\* A vertex appended to a list that does not have it.
LEMMA ListExtended ==
  ASSUME NEW list \in Seq(Vertices), Once(list), NEW d \in Vertices, d \notin Elements(list)
  PROVE  /\ Append(list, d) \in Seq(Vertices)
         /\ Once(Append(list, d))
         /\ Elements(Append(list, d)) = Elements(list) \cup {d}
<1> DEFINE n == Len(list)
           longer == Append(list, d)
<1>1. /\ n \in Nat /\ DOMAIN list = 1 .. n
      /\ longer \in Seq(Vertices) /\ DOMAIN longer = 1 .. n + 1
      /\ \A i \in 1 .. n : longer[i] = list[i]
      /\ longer[n + 1] = d
  OBVIOUS
<1> HIDE DEF longer, n
<1>2. \A i : i \in 1 .. n + 1 <=> (i \in 1 .. n \/ i = n + 1)
  BY <1>1
<1>3. n + 1 \notin 1 .. n
  BY <1>1
<1> QED
  BY <1>1, <1>2, <1>3 DEF Once, Elements, longer

\* The lists of the threads, none of which has a vertex that another one has.
OnceEach(lists) ==
  /\ \A t \in Threads : Once(lists[t])
  /\ \A t, u \in Threads : Elements(lists[t]) \cap Elements(lists[u]) # {} => t = u

\* f[i] is the first i of the lists, one behind the other, up to n.
IsMerge(f, n, threads, lists) ==
  f = [i \in 0 .. n |-> IF i = 0 THEN << >> ELSE f[i - 1] \o lists[threads[i]]]

\* The merge is defined for any number of lists.
LEMMA MergeExists ==
  ASSUME NEW threads, NEW lists, NEW n \in Nat
  PROVE  \E f : IsMerge(f, n, threads, lists)
<1> DEFINE bad == {m \in Nat : ~\E f : IsMerge(f, m, threads, lists)}
<1>1. ASSUME bad # {} PROVE FALSE
  <2>1. PICK m \in bad : \A k \in bad : m <= k
    <3>1. bad \in SUBSET Nat
      OBVIOUS
    <3> HIDE DEF bad
    <3> QED
      BY <1>1, <3>1, SmallestNumber
  <2>2. CASE m = 0
    <3> DEFINE f == [i \in 0 .. 0 |-> << >>]
    <3>1. IsMerge(f, 0, threads, lists)
      BY DEF IsMerge
    <3> QED
      BY <2>1, <2>2, <3>1
  <2>3. CASE m # 0
    <3>1. m - 1 \in Nat /\ m - 1 < m
      BY <2>1, <2>3
    <3>2. PICK g : IsMerge(g, m - 1, threads, lists)
      BY <2>1, <3>1
    <3> DEFINE last == g[m - 1] \o lists[threads[m]]
               f == [i \in 0 .. m |-> IF i = m THEN last ELSE g[i]]
    <3>3. \A i \in 0 .. m - 1 : f[i] = g[i]
      BY <3>1
    <3>4. \A i \in 0 .. m - 1 : g[i] = IF i = 0 THEN << >> ELSE g[i - 1] \o lists[threads[i]]
      BY <3>2, Zenon DEF IsMerge
    <3>5. ASSUME NEW i \in 0 .. m
          PROVE  f[i] = IF i = 0 THEN << >> ELSE f[i - 1] \o lists[threads[i]]
      <4>1. CASE i = m
        <5>1. f[m] = last /\ f[m - 1] = g[m - 1]
          BY <3>1, <3>3
        <5> QED
          BY <4>1, <5>1, <2>3
      <4>2. CASE i # m
        <5>1. i \in 0 .. m - 1
          BY <4>2, <2>1
        <5>2. i # 0 => i - 1 \in 0 .. m - 1
          BY <5>1
        <5>3. f[i] = g[i] /\ (i # 0 => f[i - 1] = g[i - 1])
          BY <3>3, <5>1, <5>2
        <5> HIDE DEF f
        <5> QED
          BY <3>4, <5>1, <5>3
      <4> QED
        BY <4>1, <4>2
    <3>6. IsMerge(f, m, threads, lists)
      <4>1. f = [i \in 0 .. m |-> f[i]]
        OBVIOUS
      <4> HIDE DEF f
      <4> QED
        BY <3>5, <4>1 DEF IsMerge
    <3> QED
      BY <3>6, <2>1
  <2> QED
    BY <2>2, <2>3
<1> QED
  BY <1>1

\* f merges the lists of the threads, which have no vertex in common, in the order that
\* threads gives.
MergesApart(f, n, threads, lists) ==
  /\ lists \in [Threads -> Seq(Vertices)] /\ OnceEach(lists)
  /\ n \in Nat /\ threads \in [1 .. n -> Threads]
  /\ \A i, j \in 1 .. n : threads[i] = threads[j] => i = j
  /\ IsMerge(f, n, threads, lists)

\* The merge up to a thread has the vertices of the lists so far, each once.
MergedTo(f, m, threads, lists) ==
  /\ f[m] \in Seq(Vertices)
  /\ Once(f[m])
  /\ Elements(f[m]) = UNION {Elements(lists[threads[i]]) : i \in 1 .. m}

\* So it is for every thread.
LEMMA MergedSoFar ==
  ASSUME NEW lists, NEW n, NEW threads, NEW f, MergesApart(f, n, threads, lists),
         NEW m \in 0 .. n
  PROVE  MergedTo(f, m, threads, lists)
<1>a. /\ lists \in [Threads -> Seq(Vertices)] /\ OnceEach(lists)
      /\ n \in Nat /\ threads \in [1 .. n -> Threads]
      /\ \A i, j \in 1 .. n : threads[i] = threads[j] => i = j
  BY DEF MergesApart
<1>b. IsMerge(f, n, threads, lists)
  BY DEF MergesApart
<1>c. ASSUME NEW k \in 0 .. n
      PROVE  f[k] = IF k = 0 THEN << >> ELSE f[k - 1] \o lists[threads[k]]
  BY Zenon, <1>b DEF IsMerge
<1> DEFINE upto(k) == UNION {Elements(lists[threads[i]]) : i \in 1 .. k}
           good(k) == f[k] \in Seq(Vertices) /\ Once(f[k]) /\ Elements(f[k]) = upto(k)
           bad == {k \in 0 .. n : ~good(k)}
<1>1. ASSUME bad # {} PROVE FALSE
  <2>1. PICK k \in bad : \A l \in bad : k <= l
    <3>1. 0 .. n \in SUBSET Nat
      BY <1>a
    <3>2. bad \in SUBSET Nat
      BY <3>1
    <3> HIDE DEF bad
    <3> QED
      BY <1>1, <3>2, SmallestNumber
  <2>2. k \in 0 .. n /\ ~good(k)
    <3> HIDE DEF good
    <3> QED
      BY <2>1
  <2>3. f[k] = IF k = 0 THEN << >> ELSE f[k - 1] \o lists[threads[k]]
    <3> HIDE DEF good
    <3> QED
      BY <1>c, <2>2
  <2>4. CASE k = 0
    <3>1. upto(0) = {}
      OBVIOUS
    <3>2. << >> \in Seq(Vertices) /\ Once(<< >>) /\ Elements(<< >>) = {}
      BY DEF Once, Elements
    <3> QED
      BY <2>2, <2>3, <2>4, <3>1, <3>2
  <2>5. CASE k # 0
    <3>1. k \in 1 .. n /\ k - 1 \in 0 .. n /\ ~(k <= k - 1)
      BY <1>a, <2>2, <2>5
    <3>2. good(k - 1)
      BY <2>1, <3>1
    <3>3. /\ threads[k] \in Threads /\ lists[threads[k]] \in Seq(Vertices)
          /\ Once(lists[threads[k]])
      BY <1>a, <3>1 DEF OnceEach
    <3>4. \A i \in 1 .. k - 1 : Elements(lists[threads[i]]) \cap Elements(lists[threads[k]]) = {}
      <4>1. \A i \in 1 .. k - 1 : i \in 1 .. n /\ i # k
        BY <1>a, <3>1
      <4> QED
        BY <1>a, <3>1, <4>1 DEF OnceEach
    <3>5. upto(k - 1) \cap Elements(lists[threads[k]]) = {}
      BY <3>4
    <3>6. upto(k) = upto(k - 1) \cup Elements(lists[threads[k]])
      <4>1. \A i : i \in 1 .. k <=> (i \in 1 .. k - 1 \/ i = k)
        BY <3>1
      <4> QED
        BY <4>1
    <3> HIDE DEF upto
    <3>7. /\ f[k] = f[k - 1] \o lists[threads[k]]
          /\ f[k - 1] \in Seq(Vertices) /\ Once(f[k - 1]) /\ Elements(f[k - 1]) = upto(k - 1)
      BY <2>3, <2>5, <3>2
    <3>8. good(k)
      BY <3>3, <3>5, <3>6, <3>7, ListBehind
    <3> QED
      BY <2>2, <3>8
  <2> QED
    BY <2>4, <2>5
<1>2. good(m)
  BY <1>1
<1> QED
  BY <1>2 DEF MergedTo

\* The merged list has the vertices of all lists, each once.
LEMMA ConcatenationLists ==
  ASSUME NEW lists \in [Threads -> Seq(Vertices)], OnceEach(lists)
  PROVE  /\ Concatenation(lists) \in Seq(Vertices)
         /\ Once(Concatenation(lists))
         /\ Elements(Concatenation(lists)) = UNION {Elements(lists[t]) : t \in Threads}
<1> DEFINE threads == Enumeration(Threads)
           n == Cardinality(Threads)
<1>1. /\ n \in Nat /\ threads \in [1 .. n -> Threads]
      /\ \A i, j \in 1 .. n : threads[i] = threads[j] => i = j
      /\ \A t \in Threads : \E i \in 1 .. n : threads[i] = t
  BY ThreadsAssumption, EnumerationBijective
<1> DEFINE f == CHOOSE g : IsMerge(g, Len(threads), threads, lists)
<1>2. Concatenation(lists) = f[Len(threads)]
  BY Zenon DEF Concatenation, IsMerge
<1> HIDE DEF n, threads
<1>3. Len(threads) = n
  BY <1>1
<1>4. \E g : IsMerge(g, n, threads, lists)
  BY <1>1, MergeExists
<1>5. IsMerge(f, n, threads, lists)
  BY <1>3, <1>4, Zenon
<1>6. Concatenation(lists) = f[n]
  BY <1>2, <1>3
<1> HIDE DEF f
<1>7. n \in 0 .. n
  BY <1>1
<1>8. /\ f[n] \in Seq(Vertices) /\ Once(f[n])
      /\ Elements(f[n]) = UNION {Elements(lists[threads[i]]) : i \in 1 .. n}
  <2>1. MergesApart(f, n, threads, lists)
    BY <1>1, <1>5 DEF MergesApart
  <2>2. MergedTo(f, n, threads, lists)
    BY <1>7, <2>1, MergedSoFar
  <2> QED
    BY <2>2, Zenon DEF MergedTo
<1>9. UNION {Elements(lists[threads[i]]) : i \in 1 .. n} = UNION {Elements(lists[t]) : t \in Threads}
  BY <1>1
<1> QED
  BY <1>6, <1>8, <1>9


------------------------------------------------------------------------------
(* What the loops go over.                                                 *)

\* The list that the compute loop goes over names no vertex twice, and stays within
\* the vertices; so does the list of the mailbox update.
LEMMA Positions ==
  ASSUME TypeOK, ListedOnce
  PROVE  /\ ToRun \in Seq(Vertices) /\ Once(ToRun)
         /\ DOMAIN ToRun \subseteq 1 .. Cardinality(Vertices)
         /\ \A i \in DOMAIN ToRun : ToRun[i] \in Vertices
         /\ DOMAIN ip_all_spread_vertices \subseteq 1 .. Cardinality(Vertices)
         /\ \A i \in DOMAIN ip_all_spread_vertices : ip_all_spread_vertices[i] \in Vertices
<1>1. ASSUME NEW list \in Seq(Vertices), Once(list)
      PROVE  /\ DOMAIN list \subseteq 1 .. Cardinality(Vertices)
             /\ \A i \in DOMAIN list : list[i] \in Vertices
  BY <1>1, ListFits DEF Once
<1>2. Enumeration(Vertices) \in Seq(Vertices) /\ Once(Enumeration(Vertices))
  BY EnumerationLists DEF Once
<1>3. ip_all_spread_vertices \in Seq(Vertices) /\ Once(ip_all_spread_vertices)
  BY DEF TypeOK, ListedOnce
<1>4. ToRun \in Seq(Vertices) /\ Once(ToRun)
  BY <1>2, <1>3 DEF ToRun
<1> QED
  BY <1>1, <1>3, <1>4

\* A vertex whose mailbox is updated has one that is full, and nobody is sending.
LEMMA SwapFindsFull ==
  ASSUME TypeOK, TeamInv, SpreadInv, NEW t \in Threads, pc[t] = "swap", NEW i \in todo
  PROVE  /\ AllIdle /\ Inside(SwapLabels)
         /\ i \in DOMAIN ip_all_spread_vertices
         /\ ip_all_spread_vertices[i] \in Vertices
         /\ has_message_next[ip_all_spread_vertices[i]]
<1>1. Inside(SwapLabels)
  BY PlaceOf, PhaseNames, LabelNames DEF TeamInv
<1>2. AllIdle
  BY <1>1 DEF AllIdle, TeamInv, SendsInLoop, Inside, SwapLabels
<1>3. i \in DOMAIN ip_all_spread_vertices /\ ip_all_spread_vertices[i] \in Vertices
  BY <1>1, Positions DEF Inside, TeamInv, IterationsLeft
<1>4. Merged /\ ip_all_spread_vertices[i] \in ToSwap
  BY <1>1 DEF Inside, Merged, ToSwap
<1> QED
  BY <1>1, <1>2, <1>3, <1>4 DEF SpreadInv, FullAreListed

------------------------------------------------------------------------------
(* Types, and the mailboxes.                                               *)

\* The initial state keeps to the types.
LEMMA InitTyped == Init => TypeOK /\ MailboxInv
<1> SUFFICES ASSUME Init PROVE TypeOK /\ MailboxInv
  OBVIOUS
<1>1. pc \in [Threads -> PCs] /\ claimed \in BOOLEAN /\ todo \in SUBSET (1 .. Cardinality(Vertices))
  BY DEF Init, TeamInit, PCs
<1>2. EngineTypeOK
  BY EngineInitTyped DEF Init
<1>3. MailboxInv
  BY MailboxInitInv DEF Init
<1>4. ip_active_vertices \in Nat
  BY VerticesAssumption, FS_CardinalityType DEF Init
<1>5. broadcast \in [Threads -> [message : Messages \cup {None}, to : Seq(Vertices)]]
  BY DEF Init, NoBroadcast
<1>6. /\ ip_all_spread_vertices_omp \in [Threads -> Seq(Vertices)]
      /\ ip_all_spread_vertices \in Seq(Vertices)
      /\ max_size \in Nat
  BY DEF Init
<1> QED
  BY <1>1, <1>2, <1>3, <1>4, <1>5, <1>6 DEF TypeOK, MailboxInv

\* Every step keeps to the rules of the mailboxes: the mailboxes that the update
\* empties are full, although it does not test their flag.
LEMMA MailboxNextInv ==
  ASSUME TypeOK, MailboxInv, TeamInv, SpreadInv, [Next]_vars
  PROVE  MailboxInv'
<1>1. ASSUME UNCHANGED mailboxVars PROVE MailboxInv'
  BY <1>1, MailboxUnchanged
<1>2. ASSUME NEW t \in Threads, BroadcastNext(t) PROVE MailboxInv'
  <2>1. /\ broadcast[t].to \in Seq(Vertices) /\ broadcast[t].to # << >>
        /\ SendMessage(t, Head(broadcast[t].to), broadcast[t].message)
    BY <1>2 DEF BroadcastNext, SendToNext, TypeOK
  <2>2. Head(broadcast[t].to) \in Vertices
    BY <2>1
  <2>3. broadcast[t].message \in Messages
    BY <2>1 DEF TeamInv, BroadcastHasMessage
  <2> QED
    BY <2>1, <2>2, <2>3, SendMessageInv
<1>3. ASSUME NEW t \in Threads, BroadcastStep(t) PROVE MailboxInv'
  BY <1>3, SendStepInv DEF BroadcastStep
<1>4. ASSUME NEW t \in Threads, NEW i \in todo, SwapMailbox(t, i) PROVE MailboxInv'
  <2>1. pc[t] = "swap"
    BY <1>4 DEF SwapMailbox, Move
  <2>2. PICK v : v = ip_all_spread_vertices[i]
    OBVIOUS
  <2>3. AllIdle /\ v \in Vertices /\ has_message_next[v]
    BY <2>1, <2>2, SwapFindsFull
  <2>4. ClearNext(v)
    BY <1>4, <2>2, <2>3 DEF SwapMailbox, ClearNext
  <2> QED
    BY <2>3, <2>4, ClearNextInv
<1>5. CASE UNCHANGED vars
  BY <1>1, <1>5 DEF vars
<1>6. ASSUME NEW t \in Threads, ThreadStep(t) PROVE MailboxInv'
  <2>1. \/ UNCHANGED mailboxVars
        \/ BroadcastNext(t) \/ BroadcastStep(t) \/ \E i \in todo : SwapMailbox(t, i)
    BY <1>6 DEF ThreadStep, While, StartSingle, SkipStart, ComputeVertex, BroadcastDone, EndBroadcast,
       LeaveCompute, Count, MergeSingle, SkipMerge, LeaveSwap, EndSuperstep
  <2> QED
    BY <1>1, <1>2, <1>3, <1>4, <2>1
<1>7. CASE BarrierStep
  BY <1>1, <1>7 DEF BarrierStep, EnterLoop, BeginCompute, EndCompute, EndCount, BeginSwap,
     BeginFinish, NextIteration
<1> QED
  BY <1>1, <1>5, <1>6, <1>7 DEF Next

\* The vertices that the threads have listed are apart.
LEMMA ListsApart ==
  ASSUME TypeOK, CollectedOnce PROVE OnceEach(ip_all_spread_vertices_omp)
<1>1. \A t \in Threads : Elements(ip_all_spread_vertices_omp[t]) \subseteq Vertices
  BY LengthOfList DEF TypeOK, CollectedOnce
<1> QED
  BY <1>1 DEF OnceEach, CollectedOnce, Collected

\* The merge lists vertices, none of them twice.
LEMMA ListedOnceNext ==
  ASSUME TypeOK, ListedOnce, CollectedOnce, [Next]_vars
  PROVE  /\ ListedOnce' /\ ip_all_spread_vertices' \in Seq(Vertices)
         /\ \A t \in Threads : MergeSingle(t) =>
              /\ ip_all_spread_vertices' = Concatenation(ip_all_spread_vertices_omp)
              /\ Elements(ip_all_spread_vertices') = UNION {Collected(u) : u \in Threads}
<1>1. ASSUME NEW t \in Threads, MergeSingle(t)
      PROVE  /\ ListedOnce' /\ ip_all_spread_vertices' \in Seq(Vertices)
             /\ ip_all_spread_vertices' = Concatenation(ip_all_spread_vertices_omp)
             /\ Elements(ip_all_spread_vertices') = UNION {Collected(u) : u \in Threads}
  <2>1. ip_all_spread_vertices' = Concatenation(ip_all_spread_vertices_omp)
    BY <1>1 DEF MergeSingle
  <2>2. /\ Concatenation(ip_all_spread_vertices_omp) \in Seq(Vertices)
        /\ Once(Concatenation(ip_all_spread_vertices_omp))
        /\ Elements(Concatenation(ip_all_spread_vertices_omp)) =
             UNION {Elements(ip_all_spread_vertices_omp[u]) : u \in Threads}
    BY ListsApart, ConcatenationLists DEF TypeOK
  <2> QED
    BY <2>1, <2>2 DEF ListedOnce, Collected
<1>2. ASSUME UNCHANGED ip_all_spread_vertices
      PROVE  ListedOnce' /\ ip_all_spread_vertices' \in Seq(Vertices)
  BY <1>2 DEF ListedOnce, TypeOK
<1>3. UNCHANGED ip_all_spread_vertices \/ \E t \in Threads : MergeSingle(t)
  <2>1. CASE UNCHANGED vars
    BY <2>1 DEF vars, listVars
  <2>2. ASSUME NEW t \in Threads, ThreadStep(t)
        PROVE  UNCHANGED ip_all_spread_vertices \/ MergeSingle(t)
    BY <2>2 DEF ThreadStep, While, StartSingle, SkipStart, ComputeVertex, BroadcastNext, SendToNext,
       BroadcastStep, BroadcastDone, EndBroadcast, LeaveCompute, Count, SkipMerge, SwapMailbox, LeaveSwap,
       EndSuperstep, listVars
  <2>3. CASE BarrierStep
    BY <2>3 DEF BarrierStep, EnterLoop, BeginCompute, EndCompute, EndCount, BeginSwap,
       BeginFinish, NextIteration, listVars
  <2>4. CASE Terminated /\ UNCHANGED vars
    BY <2>1, <2>4
  <2> QED
    BY <2>1, <2>2, <2>3, <2>4 DEF Next
<1> QED
  BY <1>1, <1>2, <1>3

\* What a thread may hold of a broadcast.
IsBroadcast(b) ==
  /\ b \in [message : Messages \cup {None}, to : Seq(Vertices)]
  /\ b.to # << >> => b.message \in Messages

\* What the broadcasts carry.
LEMMA BroadcastNextTyped ==
  ASSUME ProgramTyped, TypeOK, TeamInv, [Next]_vars
  PROVE  /\ broadcast' \in [Threads -> [message : Messages \cup {None}, to : Seq(Vertices)]]
         /\ BroadcastHasMessage'
<1>1. ASSUME UNCHANGED broadcast
      PROVE  /\ broadcast' \in [Threads -> [message : Messages \cup {None}, to : Seq(Vertices)]]
             /\ BroadcastHasMessage'
  BY <1>1 DEF TypeOK, TeamInv, BroadcastHasMessage
<1>2. ASSUME NEW t \in Threads, NEW b, IsBroadcast(b), broadcast' = [broadcast EXCEPT ![t] = b]
      PROVE  /\ broadcast' \in [Threads -> [message : Messages \cup {None}, to : Seq(Vertices)]]
             /\ BroadcastHasMessage'
  <2>1. broadcast'[t] = b /\ \A u \in Threads \ {t} : broadcast'[u] = broadcast[u]
    BY <1>2 DEF TypeOK
  <2>2. BroadcastHasMessage'
    BY <1>2, <2>1 DEF TeamInv, BroadcastHasMessage, IsBroadcast
  <2> QED
    BY <1>2, <2>2 DEF TypeOK, IsBroadcast
<1>3. ASSUME NEW t \in Threads, NEW i \in todo, ComputeVertex(t, i)
      PROVE  \E b : IsBroadcast(b) /\ broadcast' = [broadcast EXCEPT ![t] = b]
  <2>1. Move(t, "compute", "send")
    BY <1>3 DEF ComputeVertex
  <2>2. Inside(ComputeLabels)
    BY <2>1, MoveTests, PhaseNames, LabelNames DEF TeamInv
  <2>3. PICK v \in Vertices : v = ToRun[i]
    BY <2>2, Positions DEF Inside, TeamInv, IterationsLeft
  <2>4. PICK outcome \in Outcomes(v) :
          broadcast' = [broadcast EXCEPT ![t] =
               IF outcome.message = None THEN NoBroadcast
               ELSE [message |-> outcome.message, to |-> out_neighbours[v]]]
    BY <1>3, <2>3 DEF ComputeVertex, StartBroadcast
  <2>5. outcome.message \in Messages \cup {None} /\ out_neighbours[v] \in Seq(Vertices)
    BY OutcomeTyped DEF TypeOK
  <2>6. /\ IsBroadcast(NoBroadcast)
        /\ outcome.message # None =>
             IsBroadcast([message |-> outcome.message, to |-> out_neighbours[v]])
    BY <2>5 DEF IsBroadcast, NoBroadcast
  <2> QED
    BY <2>4, <2>6, Zenon
<1>4. ASSUME NEW t \in Threads, BroadcastNext(t)
      PROVE  \E b : IsBroadcast(b) /\ broadcast' = [broadcast EXCEPT ![t] = b]
  <2>1. /\ broadcast[t] \in [message : Messages \cup {None}, to : Seq(Vertices)]
        /\ broadcast[t].to # << >>
    BY <1>4 DEF BroadcastNext, SendToNext, TypeOK
  <2>2. broadcast[t].message \in Messages /\ Tail(broadcast[t].to) \in Seq(Vertices)
    BY <2>1 DEF TeamInv, BroadcastHasMessage
  <2>3. IsBroadcast([broadcast[t] EXCEPT !.to = Tail(@)])
    BY <2>1, <2>2 DEF IsBroadcast
  <2>4. broadcast' = [broadcast EXCEPT ![t] = [broadcast[t] EXCEPT !.to = Tail(@)]]
    BY <1>4 DEF BroadcastNext, SendToNext, TypeOK
  <2> QED
    BY <2>3, <2>4
<1>5. ASSUME NEW t \in Threads, BroadcastDone(t)
      PROVE  \E b : IsBroadcast(b) /\ broadcast' = [broadcast EXCEPT ![t] = b]
  <2>1. IsBroadcast(NoBroadcast)
    BY DEF IsBroadcast, NoBroadcast
  <2> QED
    BY <1>5, <2>1 DEF BroadcastDone, EndBroadcast
<1>6. CASE UNCHANGED vars
  BY <1>1, <1>6 DEF vars
<1>7. ASSUME NEW t \in Threads, ThreadStep(t)
      PROVE  /\ broadcast' \in [Threads -> [message : Messages \cup {None}, to : Seq(Vertices)]]
             /\ BroadcastHasMessage'
  <2>1. \/ UNCHANGED broadcast
        \/ (\E i \in todo : ComputeVertex(t, i)) \/ BroadcastNext(t) \/ BroadcastDone(t)
    BY <1>7 DEF ThreadStep, While, StartSingle, SkipStart, BroadcastStep, LeaveCompute, Count,
       MergeSingle, SkipMerge, SwapMailbox, LeaveSwap, EndSuperstep
  <2> QED
    BY <1>1, <1>2, <1>3, <1>4, <1>5, <2>1
<1>8. CASE BarrierStep
  BY <1>1, <1>8 DEF BarrierStep, EnterLoop, BeginCompute, EndCompute, EndCount, BeginSwap,
     BeginFinish, NextIteration
<1> QED
  BY <1>1, <1>6, <1>7, <1>8 DEF Next

\* Where the threads are, and the iterations that are left.
LEMMA TeamNextTyped ==
  ASSUME TypeOK, ListedOnce, [Next]_vars
  PROVE  pc' \in [Threads -> PCs] /\ claimed' \in BOOLEAN
         /\ todo' \in SUBSET (1 .. Cardinality(Vertices))
<1>1. CASE UNCHANGED teamVars
  BY <1>1 DEF teamVars, TypeOK
<1>2. ASSUME NEW t \in Threads, ThreadStep(t), ~UNCHANGED teamVars
      PROVE  pc' \in [Threads -> PCs] /\ claimed' \in BOOLEAN
             /\ todo' \in SUBSET (1 .. Cardinality(Vertices))
  <2>1. \E from \in PCs, to \in PCs : Move(t, from, to)
    BY <1>2 DEF ThreadStep, While, StartSingle, SkipStart, ComputeVertex, BroadcastNext, SendToNext,
       BroadcastStep, BroadcastDone, EndBroadcast, LeaveCompute, Count, MergeSingle, SkipMerge, SwapMailbox,
       LeaveSwap, EndSuperstep, FinishSingle, SkipFinish, EnterSingle, SkipSingle, LeaveLoop, PCs
  <2>2. claimed' \in {claimed, TRUE} /\ todo' \subseteq todo
    BY <1>2 DEF ThreadStep, While, StartSingle, SkipStart, ComputeVertex, BroadcastNext, SendToNext,
       BroadcastStep, BroadcastDone, EndBroadcast, LeaveCompute, Count, MergeSingle, SkipMerge, SwapMailbox,
       LeaveSwap, EndSuperstep, FinishSingle, SkipFinish, EnterSingle, SkipSingle, LeaveLoop,
       TakeIteration, teamVars
  <2> QED
    BY <2>1, <2>2, MoveEffect DEF TypeOK
<1>3. CASE BarrierStep
  <2>1. PICK to \in PCs :
          /\ pc' = [u \in Threads |-> to] /\ claimed' = FALSE
          /\ todo' \in {{}, DOMAIN ToRun, DOMAIN ip_all_spread_vertices}
    BY <1>3 DEF BarrierStep, EnterLoop, BeginCompute, EndCompute, EndCount, BeginSwap,
       BeginFinish, NextIteration, Barrier, PCs
  <2> QED
    BY <2>1, Positions
<1>4. CASE UNCHANGED vars
  BY <1>1, <1>4 DEF vars
<1> QED
  BY <1>1, <1>2, <1>3, <1>4 DEF Next

\* The engine and the counters.
LEMMA EngineNextTyped ==
  ASSUME ProgramTyped, TypeOK, MailboxInv, TeamInv, SpreadInv, [Next]_vars
  PROVE  EngineTypeOK'
<1>1. ASSUME UNCHANGED engineVars PROVE EngineTypeOK'
  BY <1>1, EngineUnchanged DEF TypeOK
<1>2. ASSUME NEW t \in Threads, NEW i \in todo, ComputeVertex(t, i) PROVE EngineTypeOK'
  <2>1. Move(t, "compute", "send")
    BY <1>2 DEF ComputeVertex
  <2>2. Inside(ComputeLabels)
    BY <2>1, MoveTests, PhaseNames, LabelNames DEF TeamInv
  <2>3. PICK v \in Vertices : v = ToRun[i]
    BY <2>2, Positions DEF Inside, TeamInv, IterationsLeft
  <2>4. PICK outcome \in Outcomes(v) : RunVertex(v, outcome)
    BY <1>2, <2>3 DEF ComputeVertex
  <2> QED
    BY <2>4, RunVertexTyped DEF TypeOK
<1>3. ASSUME NEW t \in Threads, NEW i \in todo, SwapMailbox(t, i) PROVE EngineTypeOK'
  <2>1. pc[t] = "swap"
    BY <1>3 DEF SwapMailbox, Move
  <2>2. PICK v : v = ip_all_spread_vertices[i]
    OBVIOUS
  <2>3. v \in Vertices /\ has_message_next[v]
    BY <2>1, <2>2, SwapFindsFull
  <2>4. message_next[v] \in Messages
    BY <2>3 DEF MailboxInv, CombinesIntoFullBox
  <2>5. /\ has_message' = [has_message EXCEPT ![v] = TRUE]
        /\ message' = [message EXCEPT ![v] = message_next[v]]
        /\ UNCHANGED <<jobVars, value, ip_superstep, historyVars>>
    BY <1>3, <2>2 DEF SwapMailbox
  <2> QED
    BY <2>3, <2>4, <2>5 DEF TypeOK, EngineTypeOK, historyVars
<1>4. ASSUME NEW t \in Threads, EndSuperstep(t) PROVE EngineTypeOK'
  BY <1>1, <1>4, EngineStepsTyped DEF EndSuperstep, SkipFinish, TypeOK
<1>5. CASE BeginCompute
  <2>1. PICK t \in Threads : TRUE
    BY ThreadsAssumption
  <2> QED
    BY <1>5, <2>1, EngineStepsTyped DEF BeginCompute, TypeOK
<1>6. CASE UNCHANGED vars
  BY <1>1, <1>6 DEF vars
<1>7. ASSUME NEW t \in Threads, ThreadStep(t) PROVE EngineTypeOK'
  <2>1. \/ UNCHANGED engineVars
        \/ (\E i \in todo : ComputeVertex(t, i) \/ SwapMailbox(t, i)) \/ EndSuperstep(t)
    BY <1>7 DEF ThreadStep, While, StartSingle, SkipStart, BroadcastNext, SendToNext, BroadcastStep,
       BroadcastDone, EndBroadcast, LeaveCompute, Count, MergeSingle, SkipMerge, LeaveSwap
  <2> QED
    BY <1>1, <1>2, <1>3, <1>4, <2>1
<1>8. CASE BarrierStep
  BY <1>1, <1>5, <1>8 DEF BarrierStep, EnterLoop, EndCompute, EndCount, BeginSwap, BeginFinish,
     NextIteration
<1> QED
  BY <1>1, <1>6, <1>7, <1>8 DEF Next

\* The lists of the threads and the counters.
LEMMA ListsNextTyped ==
  ASSUME TypeOK, MailboxInv, [Next]_vars
  PROVE  /\ ip_active_vertices' \in Nat /\ max_size' \in Nat
         /\ ip_all_spread_vertices_omp' \in [Threads -> Seq(Vertices)]
<1>1. CASE UNCHANGED <<ip_active_vertices, max_size, ip_all_spread_vertices_omp>>
  BY <1>1 DEF TypeOK
<1>2. ASSUME NEW t \in Threads, StartSingle(t) \/ Count(t) \/ MergeSingle(t)
      PROVE  /\ ip_active_vertices' \in Nat /\ max_size' \in Nat
             /\ ip_all_spread_vertices_omp' \in [Threads -> Seq(Vertices)]
  <2>1. Len(ip_all_spread_vertices_omp[t]) \in Nat
    BY DEF TypeOK
  <2>2. << >> \in Seq(Vertices)
    OBVIOUS
  <2>3. CASE StartSingle(t) \/ Count(t)
    BY <2>1, <2>3 DEF StartSingle, Count, listVars, TypeOK
  <2>4. CASE MergeSingle(t)
    BY <2>2, <2>4 DEF MergeSingle, TypeOK
  <2> QED
    BY <1>2, <2>3, <2>4
<1>3. ASSUME NEW t \in Threads, BroadcastStep(t)
      PROVE  /\ ip_active_vertices' \in Nat /\ max_size' \in Nat
             /\ ip_all_spread_vertices_omp' \in [Threads -> Seq(Vertices)]
  <2>1. At(t, "unlock") => send[t].to \in Vertices
    BY DEF MailboxInv, MailboxTypeOK, CallWellFormed, At
  <2>2. ip_all_spread_vertices_omp[t] \in Seq(Vertices)
    BY DEF TypeOK
  <2>3. (IF At(t, "unlock") THEN Append(ip_all_spread_vertices_omp[t], send[t].to)
         ELSE ip_all_spread_vertices_omp[t]) \in Seq(Vertices)
    BY <2>1, <2>2
  <2> QED
    BY <1>3, <2>3 DEF BroadcastStep, TypeOK
<1>4. CASE UNCHANGED vars
  BY <1>1, <1>4 DEF vars, listVars
<1>5. ASSUME NEW t \in Threads, ThreadStep(t)
      PROVE  \/ UNCHANGED <<ip_active_vertices, max_size, ip_all_spread_vertices_omp>>
             \/ StartSingle(t) \/ Count(t) \/ MergeSingle(t) \/ BroadcastStep(t)
  BY <1>5 DEF ThreadStep, While, SkipStart, ComputeVertex, BroadcastNext, SendToNext, BroadcastDone, EndBroadcast,
     LeaveCompute, SkipMerge, SwapMailbox, LeaveSwap, EndSuperstep, listVars
<1>6. CASE BarrierStep
  BY <1>1, <1>6 DEF BarrierStep, EnterLoop, BeginCompute, EndCompute, EndCount, BeginSwap,
     BeginFinish, NextIteration, listVars
<1> QED
  BY <1>1, <1>2, <1>3, <1>4, <1>5, <1>6 DEF Next

\* Every step keeps to the types.
LEMMA NextTyped ==
  ASSUME ProgramTyped, TypeOK, MailboxInv, TeamInv, SpreadInv, [Next]_vars
  PROVE  TypeOK'
<1>1. ListedOnce /\ CollectedOnce
  BY DEF TeamInv, SpreadInv
<1>2. MailboxTypeOK'
  BY MailboxNextInv DEF MailboxInv
<1>3. EngineTypeOK'
  BY EngineNextTyped
<1>4. pc' \in [Threads -> PCs] /\ claimed' \in BOOLEAN /\ todo' \in SUBSET (1 .. Cardinality(Vertices))
  BY <1>1, TeamNextTyped
<1>5. broadcast' \in [Threads -> [message : Messages \cup {None}, to : Seq(Vertices)]]
  BY BroadcastNextTyped
<1>6. ip_all_spread_vertices' \in Seq(Vertices)
  BY <1>1, ListedOnceNext
<1>7. /\ ip_active_vertices' \in Nat /\ max_size' \in Nat
      /\ ip_all_spread_vertices_omp' \in [Threads -> Seq(Vertices)]
  BY ListsNextTyped
<1> QED
  BY <1>2, <1>3, <1>4, <1>5, <1>6, <1>7 DEF TypeOK

------------------------------------------------------------------------------
(* The team.                                                               *)

\* Where the threads are, without the lists and the broadcasts.
Placed == SamePhase /\ SingleEntered /\ IterationsLeft

\* Outside the loops there is no iteration left, and there will be none.
LEMMA TeamOutside ==
  ASSUME SingleEntered', SamePhase', todo' = {}
  PROVE  Placed'
BY DEF Placed, IterationsLeft

\* Inside a loop iterations are taken, and a thread that leaves some leaves them to
\* another one.
LEMMA TeamInside ==
  ASSUME IterationsLeft, NEW P \in {ComputeLabels, SwapLabels}, Inside(P), Inside(P)', SamePhase',
         todo' \subseteq todo, UNCHANGED <<ip_all_spread_vertices, ip_superstep>>,
         todo' = {} \/ AnyAt({"compute", "send", "swap"})'
  PROVE  Placed'
<1>1. SingleEntered'
  <2>1. \A u \in Threads : pc'[u] \notin {"start_done", "merge_done", "finish_done"}
    BY DEF Inside, ComputeLabels, SwapLabels
  <2> QED
    BY <2>1 DEF SingleEntered, AnyAt
<1>2. /\ AnyAt(ComputeLabels)' <=> AnyAt(ComputeLabels)
      /\ AnyAt(SwapLabels)' <=> AnyAt(SwapLabels)
  BY DEF Inside
<1>3. ToRun' = ToRun
  BY DEF ToRun
<1>4. IterationsLeft'
  BY <1>2, <1>3 DEF IterationsLeft
<1> QED
  BY <1>1, <1>4 DEF Placed

\* The steps of a thread.
LEMMA TeamStep ==
  ASSUME TypeOK, Placed, NEW t \in Threads, ThreadStep(t)
  PROVE  Placed'
<1> USE DEF Placed
<1>1. CASE While(t)
  <2>1. UNCHANGED todo /\ \E to \in HeadLabels : Move(t, "while", to)
    BY <1>1, LabelNames DEF While
  <2>2. Inside(HeadLabels) /\ Inside(HeadLabels)' /\ SamePhase'
    BY <2>1, MoveTests, PhaseNames, LabelNames
  <2>3. todo' = {}
    BY <2>1, <2>2, OutsideLoops DEF Inside, HeadLabels
  <2>4. SingleEntered'
    BY <2>2 DEF SingleEntered, AnyAt, Inside, HeadLabels
  <2> QED
    BY <2>2, <2>3, <2>4, TeamOutside
<1>2. CASE Count(t)
  <2>1. UNCHANGED todo /\ Move(t, "count", "counted")
    BY <1>2 DEF Count
  <2>2. Inside(CountLabels) /\ Inside(CountLabels)' /\ SamePhase'
    BY <2>1, MoveTests, PhaseNames, LabelNames
  <2>3. todo' = {}
    BY <2>1, <2>2, OutsideLoops DEF Inside, CountLabels
  <2>4. SingleEntered'
    BY <2>2 DEF SingleEntered, AnyAt, Inside, CountLabels
  <2> QED
    BY <2>2, <2>3, <2>4, TeamOutside
<1>3. CASE StartSingle(t) \/ SkipStart(t)
  <2>1. Move(t, "start", "start_done") /\ UNCHANGED todo /\ claimed'
    BY <1>3 DEF StartSingle, SkipStart, EnterSingle, SkipSingle
  <2>2. Inside(StartLabels) /\ Inside(StartLabels)' /\ SamePhase'
    BY <2>1, MoveTests, PhaseNames, LabelNames
  <2>3. todo' = {}
    BY <2>1, <2>2, OutsideLoops DEF Inside, StartLabels
  <2> QED
    BY <2>1, <2>2, <2>3, TeamOutside DEF SingleEntered
<1>4. CASE MergeSingle(t) \/ SkipMerge(t)
  <2>1. Move(t, "merge", "merge_done") /\ UNCHANGED todo /\ claimed'
    BY <1>4 DEF MergeSingle, SkipMerge, EnterSingle, SkipSingle
  <2>2. Inside(MergeLabels) /\ Inside(MergeLabels)' /\ SamePhase'
    BY <2>1, MoveTests, PhaseNames, LabelNames
  <2>3. todo' = {}
    BY <2>1, <2>2, OutsideLoops DEF Inside, MergeLabels
  <2> QED
    BY <2>1, <2>2, <2>3, TeamOutside DEF SingleEntered
<1>5. CASE EndSuperstep(t)
  <2>1. Move(t, "finish", "finish_done") /\ UNCHANGED todo /\ claimed'
    BY <1>5 DEF EndSuperstep, FinishSingle, SkipFinish, EnterSingle, SkipSingle
  <2>2. Inside(FinishLabels) /\ Inside(FinishLabels)' /\ SamePhase'
    BY <2>1, MoveTests, PhaseNames, LabelNames
  <2>3. todo' = {}
    BY <2>1, <2>2, OutsideLoops DEF Inside, FinishLabels
  <2> QED
    BY <2>1, <2>2, <2>3, TeamOutside DEF SingleEntered
<1>6. ASSUME UNCHANGED teamVars, UNCHANGED <<ip_all_spread_vertices, ip_superstep>>
      PROVE  Placed'
  BY <1>6 DEF teamVars, SamePhase, Together, SingleEntered, IterationsLeft, AnyAt, ToRun
<1>7. CASE BroadcastNext(t) \/ BroadcastStep(t)
  BY <1>6, <1>7 DEF BroadcastNext, SendToNext, BroadcastStep, engineVars, listVars
<1>8. ASSUME NEW from, NEW to \in {"compute", "send", "swap"},
             NEW P \in {ComputeLabels, SwapLabels}, from \in P, to \in P,
             Move(t, from, to), todo' \subseteq todo,
             UNCHANGED <<ip_all_spread_vertices, ip_superstep>>
      PROVE  Placed'
  <2>1. Inside(P) /\ Inside(P)' /\ SamePhase' /\ pc'[t] = to
    BY <1>8, MoveTests, PhaseNames
  <2>2. AnyAt({"compute", "send", "swap"})'
    BY <2>1 DEF AnyAt
  <2> QED
    BY <1>8, <2>1, <2>2, TeamInside
<1>9. CASE (\E i \in todo : ComputeVertex(t, i) \/ SwapMailbox(t, i)) \/ BroadcastDone(t)
  <2>1. /\ todo' \subseteq todo /\ UNCHANGED <<ip_all_spread_vertices, ip_superstep>>
        /\ Move(t, "compute", "send") \/ Move(t, "send", "compute") \/ Move(t, "swap", "swap")
    BY <1>9 DEF ComputeVertex, RunVertex, SwapMailbox, BroadcastDone, EndBroadcast, TakeIteration, engineVars,
       listVars
  <2> QED
    BY <1>8, <2>1, LabelNames
<1>10. ASSUME NEW from, NEW to, NEW inLoop, inLoop \subseteq {"compute", "send", "swap"},
              NEW P \in {ComputeLabels, SwapLabels}, from \in P, to \in P,
              LeaveLoop(t, from, to, inLoop), UNCHANGED <<ip_all_spread_vertices, ip_superstep>>
       PROVE  Placed'
  <2>1. Move(t, from, to) /\ UNCHANGED todo
    BY <1>10 DEF LeaveLoop
  <2>2. Inside(P) /\ Inside(P)' /\ SamePhase' /\ \A u \in Threads \ {t} : pc'[u] = pc[u]
    BY <1>10, <2>1, MoveTests, PhaseNames
  <2>3. todo' = {} \/ AnyAt({"compute", "send", "swap"})'
    BY <1>10, <2>1, <2>2 DEF LeaveLoop, AnyAt
  <2> QED
    BY <1>10, <2>1, <2>2, <2>3, TeamInside
<1>11. CASE LeaveCompute(t)
  <2>1. /\ LeaveLoop(t, "compute", "compute_done", {"compute", "send"})
        /\ UNCHANGED <<ip_all_spread_vertices, ip_superstep>>
    BY <1>11 DEF LeaveCompute, engineVars, listVars
  <2> QED
    BY <1>10, <2>1, LabelNames
<1>12. CASE LeaveSwap(t)
  <2>1. /\ LeaveLoop(t, "swap", "swap_done", {"swap"})
        /\ UNCHANGED <<ip_all_spread_vertices, ip_superstep>>
    BY <1>12 DEF LeaveSwap, engineVars, listVars
  <2> QED
    BY <1>10, <2>1, LabelNames
<1> QED
  BY <1>1, <1>2, <1>3, <1>4, <1>5, <1>7, <1>9, <1>11, <1>12 DEF ThreadStep

\* The barriers.
LEMMA TeamBarrier ==
  ASSUME BarrierStep
  PROVE  Placed'
<1>2. CASE EnterLoop \/ EndCompute \/ EndCount \/ BeginFinish \/ NextIteration
  <2>1. /\ todo' = {}
        /\ \/ pc' = [u \in Threads |-> "start"] \/ pc' = [u \in Threads |-> "count"]
           \/ pc' = [u \in Threads |-> "merge"] \/ pc' = [u \in Threads |-> "finish"]
           \/ pc' = [u \in Threads |-> "while"]
    BY <1>2 DEF EnterLoop, EndCompute, EndCount, BeginFinish, NextIteration, Barrier
  <2>2. \A u \in Threads : pc'[u] \notin {"start_done", "merge_done", "finish_done"}
    BY <2>1
  <2>3. SamePhase'
    BY <2>1, BehindBarrier
  <2> QED
    BY <2>1, <2>2, <2>3, TeamOutside DEF SingleEntered, AnyAt
<1>3. CASE BeginCompute
  <2>1. /\ todo' = DOMAIN ToRun /\ ToRun' = ToRun /\ pc' = [u \in Threads |-> "compute"]
    BY <1>3 DEF BeginCompute, Barrier, ToRun, listVars
  <2>2. Inside(ComputeLabels)' /\ SamePhase'
    BY <2>1, BehindBarrier
  <2>3. AnyAt({"compute", "send", "swap"})' /\ SingleEntered' /\ ~AnyAt(SwapLabels)'
    BY <2>1, ThreadsAssumption DEF AnyAt, SingleEntered, SwapLabels
  <2> QED
    BY <2>1, <2>2, <2>3 DEF Placed, IterationsLeft
<1>4. CASE BeginSwap
  <2>1. /\ todo' = DOMAIN ip_all_spread_vertices /\ UNCHANGED ip_all_spread_vertices
        /\ pc' = [u \in Threads |-> "swap"]
    BY <1>4 DEF BeginSwap, Barrier, listVars
  <2>2. Inside(SwapLabels)' /\ SamePhase'
    BY <2>1, BehindBarrier
  <2>3. AnyAt({"compute", "send", "swap"})' /\ SingleEntered' /\ ~AnyAt(ComputeLabels)'
    BY <2>1, ThreadsAssumption DEF AnyAt, SingleEntered, ComputeLabels
  <2> QED
    BY <2>1, <2>2, <2>3 DEF Placed, IterationsLeft
<1> QED
  BY <1>2, <1>3, <1>4 DEF BarrierStep

\* Only a thread in ip_broadcast is in a call of ip_send_message.
LEMMA SendsNext ==
  ASSUME TypeOK, MailboxInv, TeamInv, SpreadInv, [Next]_vars
  PROVE  SendsInLoop'
<1>1. ASSUME NEW t \in Threads, NEW from, NEW to, Move(t, from, to), UNCHANGED send,
             from = "send" => send[t] = Idle
      PROVE  SendsInLoop'
  BY <1>1 DEF Move, TypeOK, TeamInv, SendsInLoop
<1>2. ASSUME NEW t \in Threads, pc[t] = "send", UNCHANGED pc,
             \A u \in Threads \ {t} : send'[u] = send[u]
      PROVE  SendsInLoop'
  BY <1>2 DEF TeamInv, SendsInLoop
<1>3. ASSUME UNCHANGED <<pc, send>> PROVE SendsInLoop'
  BY <1>3 DEF TeamInv, SendsInLoop
<1>4. CASE BarrierStep
  <2>1. UNCHANGED send /\ \A u \in Threads : pc[u] # "send"
    BY <1>4 DEF BarrierStep, EnterLoop, BeginCompute, EndCompute, EndCount, BeginSwap,
       BeginFinish, NextIteration, Barrier, AllAt, mailboxVars
  <2> QED
    BY <2>1 DEF TeamInv, SendsInLoop
<1>5. ASSUME NEW t \in Threads, BroadcastNext(t) PROVE SendsInLoop'
  <2>1. /\ pc[t] = "send" /\ UNCHANGED pc
        /\ \A u \in Threads \ {t} : send'[u] = send[u]
    BY <1>5 DEF BroadcastNext, SendToNext, SendMessage, teamVars, TypeOK, MailboxTypeOK, MailboxShape
  <2> QED
    BY <1>2, <2>1
<1>6. ASSUME NEW t \in Threads, BroadcastStep(t) PROVE SendsInLoop'
  <2>1. send[t] # Idle /\ UNCHANGED pc /\ \A u \in Threads \ {t} : send'[u] = send[u]
    BY <1>6, SendStepLocal DEF BroadcastStep, teamVars
  <2>2. pc[t] = "send"
    BY <2>1 DEF TeamInv, SendsInLoop
  <2> QED
    BY <1>2, <2>1, <2>2
<1>7. ASSUME NEW t \in Threads, ThreadStep(t), ~BroadcastNext(t), ~BroadcastStep(t)
      PROVE  SendsInLoop'
  <2>1. UNCHANGED send
    BY <1>7 DEF ThreadStep, While, StartSingle, SkipStart, ComputeVertex, BroadcastDone, EndBroadcast,
       LeaveCompute, Count, MergeSingle, SkipMerge, SwapMailbox, LeaveSwap, EndSuperstep,
       mailboxVars
  <2>2. \E from, to : Move(t, from, to) /\ (from = "send" => send[t] = Idle)
    BY <1>7 DEF ThreadStep, While, StartSingle, SkipStart, ComputeVertex, BroadcastDone, EndBroadcast,
       LeaveCompute, Count, MergeSingle, SkipMerge, SwapMailbox, LeaveSwap, EndSuperstep,
       FinishSingle, SkipFinish, EnterSingle, SkipSingle, LeaveLoop
  <2> QED
    BY <1>1, <2>1, <2>2
<1>8. CASE UNCHANGED vars
  BY <1>3, <1>8 DEF vars, teamVars, mailboxVars
<1> QED
  BY <1>4, <1>5, <1>6, <1>7, <1>8 DEF Next

\* TeamInv holds initially...
LEMMA TeamInitInv == Init => TeamInv
<1> SUFFICES ASSUME Init PROVE TeamInv
  OBVIOUS
<1>1. (\A u \in Threads : pc[u] = "while") /\ todo = {}
  BY DEF Init, TeamInit
<1>2. SamePhase
  BY <1>1, PhaseNames, LabelNames DEF SamePhase, Together
<1>3. SendsInLoop /\ BroadcastHasMessage /\ ListedOnce
  BY DEF Init, MailboxInit, NoBroadcast, SendsInLoop, BroadcastHasMessage, ListedOnce, Once
<1> QED
  BY <1>1, <1>2, <1>3 DEF TeamInv, SingleEntered, IterationsLeft, AnyAt

\* ... and after every step.
LEMMA TeamNextInv ==
  ASSUME ProgramTyped, TypeOK, MailboxInv, TeamInv, SpreadInv, [Next]_vars
  PROVE  TeamInv'
<1>1. Placed
  BY DEF TeamInv, Placed
<1>2. Placed'
  <2>1. CASE UNCHANGED vars
    BY <1>1, <2>1 DEF vars, teamVars, engineVars, listVars, Placed, SamePhase, Together,
       SingleEntered, IterationsLeft, AnyAt, ToRun
  <2> QED
    BY <1>1, <2>1, TeamStep, TeamBarrier DEF Next
<1>3. ListedOnce'
  BY ListedOnceNext DEF TeamInv, SpreadInv
<1>4. BroadcastHasMessage'
  BY BroadcastNextTyped
<1>5. SendsInLoop'
  BY SendsNext
<1> QED
  BY <1>2, <1>3, <1>4, <1>5 DEF TeamInv, Placed

------------------------------------------------------------------------------
(* The mailboxes that are full, and the lists.                             *)

\* What SpreadInv says of them.
FullInv == CollectedOnce /\ FullAreListed /\ ListsUsed

\* Some thread has listed d, or is about to.
Claims(d) == \E t \in Threads : d \in Collected(t) \/ ToList(t, d)
ListsEmpty == \A t \in Threads : ip_all_spread_vertices_omp[t] = << >>

\* The same, phase by phase.
FullStage(P) ==
  /\ CollectedOnce
  /\ P \in {HeadLabels, StartLabels, FinishLabels} =>
       ListsEmpty /\ \A d \in Vertices : ~has_message_next[d]
  /\ P \in {ComputeLabels, CountLabels} => \A d \in Vertices : has_message_next[d] <=> Claims(d)
  /\ P = MergeLabels /\ ~claimed => \A d \in Vertices : has_message_next[d] <=> Claims(d)
  /\ P = MergeLabels /\ claimed =>
       /\ ListsEmpty
       /\ \A d \in Vertices : has_message_next[d] <=> d \in Elements(ip_all_spread_vertices)
  /\ P = SwapLabels =>
       /\ ListsEmpty
       /\ \A d \in Vertices :
            has_message_next[d] <=> d \in {ip_all_spread_vertices[i] : i \in todo}

\* Where the lists are empty and nobody is sending, nobody has anything to list.
LEMMA NoClaims ==
  ASSUME ListsEmpty, \A t \in Threads : send[t] = Idle, NEW d
  PROVE  ~Claims(d)
BY DEF ListsEmpty, Claims, Collected, Elements, ToList, At, Idle

\* No thread is in ip_send_message outside the compute loop.
LEMMA AllAreIdle ==
  ASSUME NEW P \in Phases, Inside(P), SendsInLoop, P # ComputeLabels
  PROVE  \A t \in Threads : send[t] = Idle
BY DEF Inside, SendsInLoop, Phases, HeadLabels, StartLabels, CountLabels, MergeLabels, SwapLabels,
   FinishLabels

\* Phase by phase, FullInv says what FullStage says.
LEMMA FullInPhase ==
  \A P \in Phases : Inside(P) /\ SendsInLoop => (FullInv <=> FullStage(P))
<1> SUFFICES ASSUME NEW P \in Phases, Inside(P), SendsInLoop PROVE FullInv <=> FullStage(P)
  OBVIOUS
<1>1. /\ AnyAt(ComputeLabels \cup CountLabels) <=> P \in {ComputeLabels, CountLabels}
      /\ AnyAt(MergeLabels) <=> P = MergeLabels
      /\ AnyAt(SwapLabels) <=> P = SwapLabels
  BY DEF Inside, AnyAt
<1>2. /\ FullAreListed <=>
           \A d \in Vertices : has_message_next[d] <=> (Claims(d) \/ (Merged /\ d \in ToSwap))
      /\ ListsUsed <=>
           \/ P \in {ComputeLabels, CountLabels} \/ (P = MergeLabels /\ ~claimed)
           \/ ListsEmpty
  BY <1>1 DEF FullAreListed, Claims, ListsUsed, ListsEmpty
<1>3. ListsEmpty /\ P # ComputeLabels => \A d \in Vertices : ~Claims(d)
  BY NoClaims, AllAreIdle
<1>4. CASE P \in {HeadLabels, StartLabels, FinishLabels}
  <2>1. ~Merged /\ P \notin {ComputeLabels, CountLabels, MergeLabels, SwapLabels}
    BY <1>1, <1>4, PhaseNames DEF Merged
  <2> QED
    BY <1>2, <1>3, <1>4, <2>1 DEF FullInv, FullStage
<1>5. CASE P \in {ComputeLabels, CountLabels}
  <2>1. ~Merged /\ P \notin {HeadLabels, StartLabels, FinishLabels, MergeLabels, SwapLabels}
    BY <1>1, <1>5, PhaseNames DEF Merged
  <2> QED
    BY <1>2, <1>5, <2>1 DEF FullInv, FullStage
<1>6. CASE P = MergeLabels
  <2>1. /\ P \notin {HeadLabels, StartLabels, ComputeLabels, CountLabels, SwapLabels, FinishLabels}
        /\ Merged <=> claimed
        /\ ToSwap = Elements(ip_all_spread_vertices)
    BY <1>1, <1>6, PhaseNames DEF Merged, ToSwap
  <2>2. CASE claimed
    BY <1>2, <1>3, <1>6, <2>1, <2>2 DEF FullInv, FullStage
  <2>3. CASE ~claimed
    BY <1>2, <1>6, <2>1, <2>3 DEF FullInv, FullStage
  <2> QED
    BY <2>2, <2>3
<1>7. CASE P = SwapLabels
  <2>1. /\ P \notin {HeadLabels, StartLabels, ComputeLabels, CountLabels, MergeLabels, FinishLabels}
        /\ Merged
        /\ ToSwap = {ip_all_spread_vertices[i] : i \in todo}
    BY <1>1, <1>7, PhaseNames DEF Merged, ToSwap
  <2> QED
    BY <1>2, <1>3, <1>7, <2>1 DEF FullInv, FullStage
<1> QED
  BY <1>4, <1>5, <1>6, <1>7 DEF Phases

\* So it does behind a step.
LEMMA FullInPhaseNext ==
  (\A P \in Phases : Inside(P) /\ SendsInLoop => (FullInv <=> FullStage(P)))'
BY FullInPhase, PTL

\* A step that touches no list and no flag keeps both.
LEMMA FullKept ==
  ASSUME NEW P \in Phases, Inside(P), Inside(P)', SendsInLoop, SendsInLoop', FullInv,
         UNCHANGED <<has_message_next, ip_all_spread_vertices_omp, ip_all_spread_vertices>>,
         P = MergeLabels => UNCHANGED claimed,
         P = SwapLabels => UNCHANGED todo,
         \A t \in Threads, d \in Vertices : ToList(t, d)' <=> ToList(t, d)
  PROVE  FullInv'
<1>1. FullStage(P)
  BY FullInPhase
<1>2. \A t \in Threads : Collected(t)' = Collected(t)
  BY DEF Collected
<1>3. CollectedOnce'
  BY <1>1, <1>2 DEF FullStage, CollectedOnce
<1>4. (\A d \in Vertices : Claims(d)' <=> Claims(d)) /\ (ListsEmpty' <=> ListsEmpty)
  BY <1>2 DEF Claims, ListsEmpty
<1>5. FullStage(P)'
  BY <1>1, <1>3, <1>4 DEF FullStage
<1> QED
  BY <1>5, FullInPhaseNext

\* A thread's step outside ip_send_message, the merge and the mailbox update.
LEMMA FullPass ==
  ASSUME TypeOK, TeamInv, FullInv, SendsInLoop', NEW t \in Threads, ThreadStep(t),
         ~BroadcastNext(t), ~BroadcastStep(t), ~MergeSingle(t),
         \A i \in todo : ~SwapMailbox(t, i)
  PROVE  FullInv'
<1>1. /\ UNCHANGED <<has_message_next, send, ip_all_spread_vertices_omp, ip_all_spread_vertices>>
      /\ \/ \E to \in {"entered", "exit"} : Move(t, "while", to)
         \/ Move(t, "start", "start_done") \/ Move(t, "compute", "send") \/ Move(t, "send", "compute")
         \/ Move(t, "compute", "compute_done") \/ Move(t, "count", "counted")
         \/ Move(t, "merge", "merge_done") /\ UNCHANGED claimed
         \/ Move(t, "swap", "swap_done") /\ UNCHANGED todo
         \/ Move(t, "finish", "finish_done")
  BY DEF ThreadStep, While, StartSingle, SkipStart, ComputeVertex, BroadcastDone, EndBroadcast, LeaveCompute,
     Count, SkipMerge, LeaveSwap, EndSuperstep, FinishSingle, SkipFinish, EnterSingle, SkipSingle,
     LeaveLoop, mailboxVars, listVars
<1>2. \A u \in Threads, d \in Vertices : ToList(u, d)' <=> ToList(u, d)
  BY <1>1 DEF ToList, At
<1>3. PICK P \in Phases :
        /\ \E from \in P, to \in P : Move(t, from, to)
        /\ P = MergeLabels => UNCHANGED claimed
        /\ P = SwapLabels => UNCHANGED todo
  BY <1>1, PhaseNames, LabelNames
<1>4. Inside(P) /\ Inside(P)'
  BY <1>3, MoveTests DEF TeamInv
<1> QED
  BY <1>1, <1>2, <1>3, <1>4, FullKept DEF TeamInv

\* The calls of ip_send_message: the thread that sets the flag of a mailbox is the one
\* that lists its vertex.
LEMMA FullSend ==
  ASSUME TypeOK, MailboxInv, TeamInv, FullInv, SendsInLoop', NEW t \in Threads,
         BroadcastNext(t) \/ BroadcastStep(t)
  PROVE  FullInv'
<1>1. SendStep(t) => send[t] # Idle
  BY SendStepLocal
<1>2. pc[t] = "send" /\ UNCHANGED <<pc, ip_all_spread_vertices>>
  BY <1>1 DEF BroadcastNext, SendToNext, BroadcastStep, TeamInv, SendsInLoop, teamVars, listVars
<1>3. Inside(ComputeLabels) /\ Inside(ComputeLabels)'
  BY <1>2, StayTests, PhaseNames, LabelNames DEF TeamInv
<1>4. /\ CollectedOnce
      /\ \A d \in Vertices : has_message_next[d] <=> Claims(d)
  BY <1>3, FullInPhase, PhaseNames DEF TeamInv, FullStage
<1>5. ASSUME CollectedOnce', \A d \in Vertices : has_message_next'[d] <=> Claims(d)'
      PROVE  FullInv'
  <2>1. FullStage(ComputeLabels)'
    BY <1>5, PhaseNames DEF FullStage
  <2> QED
    BY <1>3, <2>1, FullInPhaseNext, PhaseNames
<1>6. \A u \in Threads : /\ send[u].at \in Labels
                         /\ ip_all_spread_vertices_omp[u] \in Seq(Vertices)
                         /\ Once(ip_all_spread_vertices_omp[u])
  BY <1>4 DEF TypeOK, MailboxTypeOK, MailboxShape, CollectedOnce
<1>7. ASSUME UNCHANGED <<has_message_next, ip_all_spread_vertices_omp>>,
             ~At(t, "unlock"), ~At(t, "unlock")', \A u \in Threads \ {t} : send'[u] = send[u]
      PROVE  FullInv'
  <2>1. \A u \in Threads, d \in Vertices : ToList(u, d)' <=> ToList(u, d)
    BY <1>7 DEF ToList, At
  <2>2. ComputeLabels # MergeLabels /\ ComputeLabels # SwapLabels /\ ComputeLabels \in Phases
    BY PhaseNames
  <2> QED
    BY <1>2, <1>3, <1>7, <2>1, <2>2, FullKept DEF TeamInv
<1>8. CASE BroadcastNext(t)
  <2>1. /\ UNCHANGED <<has_message_next, ip_all_spread_vertices_omp>>
        /\ send[t] = Idle
        /\ send'[t].at \in {"cas_load", "acquire"}
        /\ \A u \in Threads \ {t} : send'[u] = send[u]
    BY <1>8 DEF BroadcastNext, SendToNext, SendMessage, listVars, TypeOK, MailboxTypeOK, MailboxShape
  <2> QED
    BY <1>7, <2>1 DEF At, Idle
<1>9. CASE BroadcastStep(t) /\ Flag(t)
  <2>1. PICK d0 \in Vertices : d0 = send[t].to
    BY <1>9 DEF Flag, At, MailboxInv, MailboxTypeOK, CallWellFormed
  <2>2. /\ At(t, "flag") /\ At(t, "unlock")' /\ send'[t].to = d0
        /\ \A u \in Threads \ {t} : send'[u] = send[u]
        /\ has_message_next' = [has_message_next EXCEPT ![d0] = TRUE]
    BY <1>9, <2>1 DEF Flag, Goto, At, TypeOK, MailboxTypeOK, MailboxShape
  <2>3. UNCHANGED ip_all_spread_vertices_omp
    BY <1>9, <2>2 DEF BroadcastStep, At, TypeOK
  <2>4. \A u \in Threads : Collected(u)' = Collected(u)
    BY <2>3 DEF Collected
  <2>5. ~has_message_next[d0]
    BY <2>1, <2>2 DEF MailboxInv, FirstWriterAlone, At
  <2>6. \A u \in Threads : d0 \notin Collected(u) /\ ~ToList(u, d0)
    BY <1>4, <2>5 DEF Claims
  <2>7. \A u \in Threads, d \in Vertices : ToList(u, d)' <=> (ToList(u, d) \/ (u = t /\ d = d0))
    BY <2>1, <2>2 DEF ToList, At
  <2>8. CollectedOnce'
    <3>1. ASSUME NEW u \in Threads PROVE Once(ip_all_spread_vertices_omp'[u])
      BY <1>6, <2>3
    <3>2. ASSUME NEW u \in Threads, NEW w \in Threads, NEW d \in Vertices, d \in Collected(u)'
          PROVE  (w = u \/ d \notin Collected(w)') /\ ~ToList(w, d)'
      <4>1. d \in Collected(u) /\ d # d0
        BY <2>4, <2>6, <3>2
      <4> QED
        BY <1>4, <2>4, <2>7, <4>1 DEF CollectedOnce
    <3> QED
      BY <3>1, <3>2 DEF CollectedOnce
  <2>9. ASSUME NEW d \in Vertices PROVE has_message_next'[d] <=> Claims(d)'
    <3>1. Claims(d)' <=> (Claims(d) \/ d = d0)
      BY <2>4, <2>7 DEF Claims
    <3>2. has_message_next'[d] <=> (has_message_next[d] \/ d = d0)
      BY <2>2 DEF TypeOK, MailboxTypeOK, MailboxShape
    <3> QED
      BY <1>4, <3>1, <3>2
  <2> QED
    BY <1>5, <2>8, <2>9
<1>10. CASE BroadcastStep(t) /\ Unlock(t)
  <2>1. PICK d0 \in Vertices : d0 = send[t].to
    BY <1>10 DEF Unlock, At, MailboxInv, MailboxTypeOK, CallWellFormed
  <2>2. /\ At(t, "unlock") /\ send'[t] = Idle
        /\ \A u \in Threads \ {t} : send'[u] = send[u]
        /\ UNCHANGED has_message_next
    BY <1>10 DEF Unlock, Return, TypeOK, MailboxTypeOK, MailboxShape
  <2>3. /\ ip_all_spread_vertices_omp'[t] = Append(ip_all_spread_vertices_omp[t], d0)
        /\ \A u \in Threads \ {t} :
             ip_all_spread_vertices_omp'[u] = ip_all_spread_vertices_omp[u]
    BY <1>10, <2>1, <2>2 DEF BroadcastStep, TypeOK
  <2>4. ToList(t, d0)
    BY <2>1, <2>2 DEF ToList
  <2>5. \A u \in Threads : d0 \notin Collected(u)
    BY <1>4, <2>4 DEF CollectedOnce
  <2>6. \A u \in Threads \ {t} : ~ToList(u, d0)
    BY <2>1, <2>2 DEF ToList, At, MailboxInv, MutualExclusion, Holding
  <2>7. /\ \A u \in Threads \ {t} : Collected(u)' = Collected(u)
        /\ Collected(t)' = Collected(t) \cup {d0}
        /\ Once(ip_all_spread_vertices_omp'[t])
    BY <1>6, <2>3, <2>5, ListExtended DEF Collected
  <2>8. \A u \in Threads, d \in Vertices : ToList(u, d)' <=> (ToList(u, d) /\ u # t)
    BY <2>2 DEF ToList, At, Idle
  <2>9. CollectedOnce'
    <3>1. ASSUME NEW u \in Threads PROVE Once(ip_all_spread_vertices_omp'[u])
      BY <1>6, <2>3, <2>7
    <3>2. ASSUME NEW u \in Threads, NEW w \in Threads, NEW d \in Vertices, d \in Collected(u)'
          PROVE  (w = u \/ d \notin Collected(w)') /\ ~ToList(w, d)'
      <4>1. CASE d = d0
        <5>1. u = t
          BY <2>5, <2>7, <3>2, <4>1
        <5> QED
          BY <2>5, <2>6, <2>7, <2>8, <4>1, <5>1
      <4>2. CASE d # d0
        <5>1. d \in Collected(u) /\ (d \in Collected(w)' <=> d \in Collected(w))
          BY <2>7, <3>2, <4>2
        <5> QED
          BY <1>4, <2>8, <5>1 DEF CollectedOnce
      <4> QED
        BY <4>1, <4>2
    <3> QED
      BY <3>1, <3>2 DEF CollectedOnce
  <2>10. ASSUME NEW d \in Vertices PROVE Claims(d)' <=> Claims(d)
    <3>1. CASE d = d0
      BY <2>4, <2>7, <3>1 DEF Claims
    <3>2. CASE d # d0
      <4>1. ~ToList(t, d)
        BY <2>1, <3>2 DEF ToList
      <4> QED
        BY <2>7, <2>8, <3>2, <4>1 DEF Claims
    <3> QED
      BY <3>1, <3>2
  <2> QED
    BY <1>4, <1>5, <2>2, <2>9, <2>10
<1>11. CASE BroadcastStep(t) /\ ~Flag(t) /\ ~Unlock(t)
  <2>1. /\ ~At(t, "unlock") /\ ~At(t, "unlock")' /\ UNCHANGED has_message_next
    BY <1>11, <1>6 DEF BroadcastStep, SendStep, Acquire, Recheck, Write, UnlockToCas, CasLoad, Cas, Goto,
       Return, At, Idle, TypeOK, MailboxTypeOK, MailboxShape
  <2>2. UNCHANGED ip_all_spread_vertices_omp
    BY <1>11, <2>1 DEF BroadcastStep, TypeOK
  <2>3. \A u \in Threads \ {t} : send'[u] = send[u]
    BY <1>11, SendStepLocal DEF BroadcastStep
  <2> QED
    BY <1>7, <2>1, <2>2, <2>3
<1> QED
  BY <1>8, <1>9, <1>10, <1>11

\* The merge lists what the threads have listed.
LEMMA FullMerge ==
  ASSUME TypeOK, TeamInv, FullInv, SendsInLoop', [Next]_vars, NEW t \in Threads, MergeSingle(t)
  PROVE  FullInv'
<1>1. /\ ~claimed /\ claimed' /\ Move(t, "merge", "merge_done")
      /\ UNCHANGED <<has_message_next, send>>
      /\ ip_all_spread_vertices_omp' = [u \in Threads |-> << >>]
  BY DEF MergeSingle, EnterSingle, mailboxVars
<1>2. Inside(MergeLabels) /\ Inside(MergeLabels)'
  BY <1>1, MoveTests, PhaseNames, LabelNames DEF TeamInv
<1>3. FullStage(MergeLabels)
  BY <1>2, FullInPhase, PhaseNames DEF TeamInv
<1>4. \A d \in Vertices : has_message_next[d] <=> Claims(d)
  BY <1>1, <1>3 DEF FullStage
<1>5. \A u \in Threads, d \in Vertices : ~ToList(u, d)
  BY <1>2, AllAreIdle, PhaseNames DEF TeamInv, ToList, At, Idle
<1>6. Elements(ip_all_spread_vertices') = UNION {Collected(u) : u \in Threads}
  BY <1>3, ListedOnceNext DEF TeamInv, FullStage
<1>7. \A d \in Vertices : Claims(d) <=> d \in Elements(ip_all_spread_vertices')
  BY <1>5, <1>6 DEF Claims
<1>8. ListsEmpty'
  BY <1>1 DEF ListsEmpty
<1>9. CollectedOnce'
  BY <1>8 DEF ListsEmpty, CollectedOnce, Collected, Elements, Once
<1>10. FullStage(MergeLabels)'
  BY <1>1, <1>4, <1>7, <1>8, <1>9, PhaseNames DEF FullStage
<1> QED
  BY <1>2, <1>10, FullInPhaseNext, PhaseNames

\* The mailbox update empties the mailbox of the iteration that it takes, which no
\* other iteration names.
LEMMA FullSwap ==
  ASSUME TypeOK, TeamInv, SpreadInv, FullInv, SendsInLoop', NEW t \in Threads, NEW i \in todo,
         SwapMailbox(t, i)
  PROVE  FullInv'
<1>1. /\ Move(t, "swap", "swap") /\ todo' = todo \ {i}
      /\ UNCHANGED <<ip_all_spread_vertices_omp, ip_all_spread_vertices>>
      /\ has_message_next' = [has_message_next EXCEPT ![ip_all_spread_vertices[i]] = FALSE]
  BY DEF SwapMailbox, TakeIteration, listVars
<1>2. Inside(SwapLabels) /\ Inside(SwapLabels)'
  BY <1>1, MoveTests, PhaseNames, LabelNames DEF TeamInv
<1>3. FullStage(SwapLabels)
  BY <1>2, FullInPhase, PhaseNames DEF TeamInv
<1>4. todo \subseteq DOMAIN ip_all_spread_vertices
  BY <1>2 DEF Inside, TeamInv, IterationsLeft
<1>5. \A j \in todo : ip_all_spread_vertices[j] = ip_all_spread_vertices[i] => j = i
  BY <1>4 DEF TeamInv, ListedOnce, Once
<1>6. ASSUME NEW d \in Vertices
      PROVE  has_message_next'[d] <=> d \in {ip_all_spread_vertices[j] : j \in todo'}
  <2>1. has_message_next[d] <=> d \in {ip_all_spread_vertices[j] : j \in todo}
    BY <1>3 DEF FullStage
  <2>2. has_message_next'[d] <=> (has_message_next[d] /\ d # ip_all_spread_vertices[i])
    BY <1>1 DEF TypeOK, MailboxTypeOK, MailboxShape
  <2> QED
    BY <1>1, <1>5, <2>1, <2>2
<1>7. CollectedOnce' /\ ListsEmpty'
  <2>1. ListsEmpty'
    BY <1>1, <1>3 DEF FullStage, ListsEmpty
  <2> QED
    BY <2>1 DEF ListsEmpty, CollectedOnce, Collected, Elements, Once
<1>8. FullStage(SwapLabels)'
  BY <1>1, <1>6, <1>7, PhaseNames DEF FullStage
<1> QED
  BY <1>2, <1>8, FullInPhaseNext, PhaseNames

\* The barriers.
LEMMA FullBarrier ==
  ASSUME TypeOK, TeamInv, FullInv, SendsInLoop', BarrierStep
  PROVE  FullInv'
<1>1. UNCHANGED <<has_message_next, send, ip_all_spread_vertices_omp, ip_all_spread_vertices>>
  BY DEF BarrierStep, EnterLoop, BeginCompute, EndCompute, EndCount, BeginSwap, BeginFinish,
     NextIteration, mailboxVars, listVars
<1>2. ASSUME CollectedOnce PROVE CollectedOnce'
  BY <1>1, <1>2 DEF CollectedOnce, Collected, ToList, At
<1>3. \A d \in Vertices : (has_message_next'[d] <=> has_message_next[d]) /\ (Claims(d)' <=> Claims(d))
  BY <1>1 DEF Claims, Collected, ToList, At
<1>4. ListsEmpty' <=> ListsEmpty
  BY <1>1 DEF ListsEmpty
<1>5. CASE EnterLoop
  <2>1. AllAt("entered") /\ pc' = [u \in Threads |-> "start"]
    BY <1>5 DEF EnterLoop, Barrier
  <2>2. Inside(HeadLabels) /\ Inside(StartLabels)'
    BY <2>1, BeforeBarrier, BehindBarrier
  <2>3. FullStage(HeadLabels)
    BY <2>2, FullInPhase, PhaseNames DEF TeamInv
  <2>4. FullStage(StartLabels)'
    BY <1>2, <1>3, <1>4, <2>3, PhaseNames DEF FullStage
  <2> QED
    BY <2>2, <2>4, FullInPhaseNext, PhaseNames
<1>6. CASE BeginCompute
  <2>1. AllAt("start_done") /\ pc' = [u \in Threads |-> "compute"]
    BY <1>6 DEF BeginCompute, Barrier
  <2>2. Inside(StartLabels) /\ Inside(ComputeLabels)'
    BY <2>1, BeforeBarrier, BehindBarrier
  <2>3. FullStage(StartLabels)
    BY <2>2, FullInPhase, PhaseNames DEF TeamInv
  <2>4. \A d \in Vertices : ~Claims(d)
    BY <2>2, <2>3, NoClaims, AllAreIdle, PhaseNames DEF TeamInv, FullStage
  <2>5. FullStage(ComputeLabels)'
    BY <1>2, <1>3, <1>4, <2>3, <2>4, PhaseNames DEF FullStage
  <2> QED
    BY <2>2, <2>5, FullInPhaseNext, PhaseNames
<1>7. CASE EndCompute
  <2>1. AllAt("compute_done") /\ pc' = [u \in Threads |-> "count"]
    BY <1>7 DEF EndCompute, Barrier
  <2>2. Inside(ComputeLabels) /\ Inside(CountLabels)'
    BY <2>1, BeforeBarrier, BehindBarrier
  <2>3. FullStage(ComputeLabels)
    BY <2>2, FullInPhase, PhaseNames DEF TeamInv
  <2>4. FullStage(CountLabels)'
    BY <1>2, <1>3, <1>4, <2>3, PhaseNames DEF FullStage
  <2> QED
    BY <2>2, <2>4, FullInPhaseNext, PhaseNames
<1>8. CASE EndCount
  <2>1. AllAt("counted") /\ pc' = [u \in Threads |-> "merge"] /\ ~claimed'
    BY <1>8 DEF EndCount, Barrier
  <2>2. Inside(CountLabels) /\ Inside(MergeLabels)'
    BY <2>1, BeforeBarrier, BehindBarrier
  <2>3. FullStage(CountLabels)
    BY <2>2, FullInPhase, PhaseNames DEF TeamInv
  <2>4. FullStage(MergeLabels)'
    BY <1>2, <1>3, <1>4, <2>1, <2>3, PhaseNames DEF FullStage
  <2> QED
    BY <2>2, <2>4, FullInPhaseNext, PhaseNames
<1>9. CASE BeginSwap
  <2>1. /\ AllAt("merge_done") /\ pc' = [u \in Threads |-> "swap"]
        /\ todo' = DOMAIN ip_all_spread_vertices
    BY <1>9 DEF BeginSwap, Barrier
  <2>2. Inside(MergeLabels) /\ Inside(SwapLabels)'
    BY <2>1, BeforeBarrier, BehindBarrier
  <2>3. FullStage(MergeLabels)
    BY <2>2, FullInPhase, PhaseNames DEF TeamInv
  <2>4. claimed
    BY <2>1, ThreadsAssumption DEF AllAt, TeamInv, SingleEntered, AnyAt
  <2>5. Elements(ip_all_spread_vertices) = {ip_all_spread_vertices'[i] : i \in todo'}
    BY <1>1, <2>1 DEF Elements
  <2>6. FullStage(SwapLabels)'
    BY <1>2, <1>3, <1>4, <2>3, <2>4, <2>5, PhaseNames DEF FullStage
  <2> QED
    BY <2>2, <2>6, FullInPhaseNext, PhaseNames
<1>10. CASE BeginFinish
  <2>1. AllAt("swap_done") /\ pc' = [u \in Threads |-> "finish"]
    BY <1>10 DEF BeginFinish, Barrier
  <2>2. Inside(SwapLabels) /\ Inside(FinishLabels)'
    BY <2>1, BeforeBarrier, BehindBarrier
  <2>3. FullStage(SwapLabels)
    BY <2>2, FullInPhase, PhaseNames DEF TeamInv
  <2>4. todo = {}
    BY <2>1, OutsideLoops DEF AllAt, TeamInv
  <2>5. FullStage(FinishLabels)'
    BY <1>2, <1>3, <1>4, <2>3, <2>4, PhaseNames DEF FullStage
  <2> QED
    BY <2>2, <2>5, FullInPhaseNext, PhaseNames
<1>11. CASE NextIteration
  <2>1. AllAt("finish_done") /\ pc' = [u \in Threads |-> "while"]
    BY <1>11 DEF NextIteration, Barrier
  <2>2. Inside(FinishLabels) /\ Inside(HeadLabels)'
    BY <2>1, BeforeBarrier, BehindBarrier
  <2>3. FullStage(FinishLabels)
    BY <2>2, FullInPhase, PhaseNames DEF TeamInv
  <2>4. FullStage(HeadLabels)'
    BY <1>2, <1>3, <1>4, <2>3, PhaseNames DEF FullStage
  <2> QED
    BY <2>2, <2>4, FullInPhaseNext, PhaseNames
<1> QED
  BY <1>5, <1>6, <1>7, <1>8, <1>9, <1>10, <1>11 DEF BarrierStep

\* The full mailboxes are those listed, after every step.
LEMMA FullNextInv ==
  ASSUME TypeOK, MailboxInv, TeamInv, SpreadInv, SendsInLoop', [Next]_vars
  PROVE  FullInv'
<1>1. FullInv
  BY DEF SpreadInv, FullInv
<1>2. CASE UNCHANGED vars
  BY <1>1, <1>2 DEF vars, teamVars, mailboxVars, listVars, FullInv, CollectedOnce, FullAreListed,
     ListsUsed, Collected, ToList, At, Merged, ToSwap, AnyAt
<1>3. ASSUME NEW t \in Threads, ThreadStep(t) PROVE FullInv'
  <2>1. CASE \E i \in todo : SwapMailbox(t, i)
    BY <1>1, <2>1, FullSwap
  <2>2. CASE \A i \in todo : ~SwapMailbox(t, i)
    BY <1>1, <1>3, <2>2, FullPass, FullSend, FullMerge
  <2> QED
    BY <2>1, <2>2
<1> QED
  BY <1>1, <1>2, <1>3, FullBarrier DEF Next

------------------------------------------------------------------------------
(* The counter, and the length of the merged list.                         *)

\* How many vertices the threads that have counted theirs have listed.
Counted == UNION {Collected(t) : t \in {u \in Threads : CountedBy(u)}}

\* CountExact, phase by phase.
CountStage(P) ==
  /\ P = HeadLabels => ip_superstep = 0 \/ ip_active_vertices = Len(ip_all_spread_vertices)
  /\ P = StartLabels /\ claimed => ip_active_vertices = 0
  /\ P = ComputeLabels => ip_active_vertices = 0
  /\ P = CountLabels => ip_active_vertices = Cardinality(Counted)
  /\ P = MergeLabels /\ ~claimed => ip_active_vertices = Cardinality(Counted)
  /\ P = MergeLabels /\ claimed => ip_active_vertices = Len(ip_all_spread_vertices)
  /\ P \in {SwapLabels, FinishLabels} => ip_active_vertices = Len(ip_all_spread_vertices)

\* Phase by phase, CountExact says what CountStage says.
LEMMA CountInPhase ==
  \A P \in Phases : Inside(P) => (CountExact <=> CountStage(P))
<1> SUFFICES ASSUME NEW P \in Phases, Inside(P) PROVE CountExact <=> CountStage(P)
  OBVIOUS
<1>1. /\ AnyAt(HeadLabels) <=> P = HeadLabels
      /\ AnyAt(StartLabels) <=> P = StartLabels
      /\ AnyAt(ComputeLabels) <=> P = ComputeLabels
      /\ AnyAt(CountLabels) <=> P = CountLabels
      /\ AnyAt(MergeLabels) <=> P = MergeLabels
  BY DEF Inside
<1>2. CASE P = HeadLabels
  BY <1>1, <1>2, PhaseNames DEF CountExact, CountStage
<1>3. CASE P = StartLabels
  BY <1>1, <1>3, PhaseNames DEF CountExact, CountStage
<1>4. CASE P = ComputeLabels
  BY <1>1, <1>4, PhaseNames DEF CountExact, CountStage
<1>5. CASE P = CountLabels
  BY <1>1, <1>5, PhaseNames DEF CountExact, CountStage, Counted
<1>6. CASE P = MergeLabels
  BY <1>1, <1>6, PhaseNames DEF CountExact, CountStage, Counted
<1>7. CASE P \in {SwapLabels, FinishLabels}
  BY <1>1, <1>7, PhaseNames DEF CountExact, CountStage
<1> QED
  BY <1>2, <1>3, <1>4, <1>5, <1>6, <1>7 DEF Phases

\* So it does behind a step.
LEMMA CountInPhaseNext ==
  (\A P \in Phases : Inside(P) => (CountExact <=> CountStage(P)))'
BY CountInPhase, PTL

\* A step that changes neither the counter nor the merged list.
LEMMA CountKept ==
  ASSUME NEW P \in Phases, Inside(P), Inside(P)', CountExact,
         UNCHANGED <<ip_active_vertices, ip_all_spread_vertices>>,
         P = HeadLabels => UNCHANGED ip_superstep,
         P \in {StartLabels, MergeLabels} => UNCHANGED claimed,
         P \in {CountLabels, MergeLabels} => Counted' = Counted
  PROVE  CountExact'
<1>1. CountStage(P)
  BY CountInPhase
<1>2. CountStage(P)'
  BY <1>1, PhaseNames DEF CountStage
<1> QED
  BY <1>2, CountInPhaseNext

\* The counter behind a thread's step, but for those of the counting and the merge.
LEMMA CountPass ==
  ASSUME TypeOK, MailboxInv, TeamInv, CountExact, NEW t \in Threads, ThreadStep(t),
         ~Count(t), ~MergeSingle(t)
  PROVE  CountExact'
<1>1. CASE While(t)
  <2>1. /\ UNCHANGED <<ip_active_vertices, ip_all_spread_vertices, ip_superstep>>
        /\ \E to \in HeadLabels : Move(t, "while", to)
    BY <1>1, LabelNames DEF While, engineVars, listVars
  <2>2. Inside(HeadLabels) /\ Inside(HeadLabels)'
    BY <2>1, MoveTests, PhaseNames, LabelNames DEF TeamInv
  <2> QED
    BY <2>1, <2>2, CountKept, PhaseNames
<1>2. CASE StartSingle(t)
  <2>1. Move(t, "start", "start_done") /\ ip_active_vertices' = 0
    BY <1>2 DEF StartSingle, EnterSingle
  <2>2. Inside(StartLabels)'
    BY <2>1, MoveTests, PhaseNames, LabelNames DEF TeamInv
  <2>3. CountStage(StartLabels)'
    BY <2>1, PhaseNames DEF CountStage
  <2> QED
    BY <2>2, <2>3, CountInPhaseNext, PhaseNames
<1>3. CASE SkipStart(t)
  <2>1. /\ Move(t, "start", "start_done")
        /\ UNCHANGED <<ip_active_vertices, ip_all_spread_vertices, claimed>>
    BY <1>3 DEF SkipStart, SkipSingle, listVars
  <2>2. Inside(StartLabels) /\ Inside(StartLabels)'
    BY <2>1, MoveTests, PhaseNames, LabelNames DEF TeamInv
  <2> QED
    BY <2>1, <2>2, CountKept, PhaseNames
<1>4. CASE (\E i \in todo : ComputeVertex(t, i)) \/ BroadcastDone(t) \/ LeaveCompute(t)
  <2>1. /\ UNCHANGED <<ip_active_vertices, ip_all_spread_vertices>>
        /\ \E from, to \in ComputeLabels : Move(t, from, to)
    BY <1>4, LabelNames DEF ComputeVertex, BroadcastDone, EndBroadcast, LeaveCompute, LeaveLoop, listVars
  <2>2. Inside(ComputeLabels) /\ Inside(ComputeLabels)'
    BY <2>1, MoveTests, PhaseNames DEF TeamInv
  <2> QED
    BY <2>1, <2>2, CountKept, PhaseNames
<1>5. CASE BroadcastNext(t) \/ BroadcastStep(t)
  <2>1. SendStep(t) => send[t] # Idle
    BY SendStepLocal
  <2>2. pc[t] = "send" /\ UNCHANGED <<pc, ip_active_vertices, ip_all_spread_vertices>>
    BY <1>5, <2>1 DEF BroadcastNext, SendToNext, BroadcastStep, TeamInv, SendsInLoop, teamVars, listVars
  <2>3. Inside(ComputeLabels) /\ Inside(ComputeLabels)'
    BY <2>2, StayTests, PhaseNames, LabelNames DEF TeamInv
  <2> QED
    BY <2>2, <2>3, CountKept, PhaseNames
<1>6. CASE SkipMerge(t)
  <2>1. /\ Move(t, "merge", "merge_done")
        /\ UNCHANGED <<ip_active_vertices, ip_all_spread_vertices, claimed>>
        /\ UNCHANGED ip_all_spread_vertices_omp
    BY <1>6 DEF SkipMerge, SkipSingle, listVars
  <2>2. Inside(MergeLabels) /\ Inside(MergeLabels)'
    BY <2>1, MoveTests, PhaseNames, LabelNames DEF TeamInv
  <2>3. \A u \in Threads : CountedBy(u) /\ CountedBy(u)' /\ Collected(u)' = Collected(u)
    BY <2>1, <2>2 DEF Inside, CountedBy, Collected
  <2>4. Counted' = Counted
    BY <2>3 DEF Counted
  <2> QED
    BY <2>1, <2>2, <2>4, CountKept, PhaseNames
<1>7. CASE (\E i \in todo : SwapMailbox(t, i)) \/ LeaveSwap(t)
  <2>1. /\ UNCHANGED <<ip_active_vertices, ip_all_spread_vertices>>
        /\ \E from, to \in SwapLabels : Move(t, from, to)
    BY <1>7, LabelNames DEF SwapMailbox, LeaveSwap, LeaveLoop, listVars
  <2>2. Inside(SwapLabels) /\ Inside(SwapLabels)'
    BY <2>1, MoveTests, PhaseNames DEF TeamInv
  <2> QED
    BY <2>1, <2>2, CountKept, PhaseNames
<1>8. CASE EndSuperstep(t)
  <2>1. /\ UNCHANGED <<ip_active_vertices, ip_all_spread_vertices>>
        /\ Move(t, "finish", "finish_done")
    BY <1>8 DEF EndSuperstep, FinishSingle, SkipFinish, EnterSingle, SkipSingle, listVars
  <2>2. Inside(FinishLabels) /\ Inside(FinishLabels)'
    BY <2>1, MoveTests, PhaseNames, LabelNames DEF TeamInv
  <2> QED
    BY <2>1, <2>2, CountKept, PhaseNames
<1> QED
  BY <1>1, <1>2, <1>3, <1>4, <1>5, <1>6, <1>7, <1>8 DEF ThreadStep

\* A thread adds the length of its list, whose vertices no other list has.
LEMMA CountAdds ==
  ASSUME TypeOK, TeamInv, CollectedOnce, CountExact, NEW t \in Threads, Count(t)
  PROVE  CountExact'
<1>1. /\ Move(t, "count", "counted")
      /\ ip_active_vertices' = ip_active_vertices + Len(ip_all_spread_vertices_omp[t])
      /\ UNCHANGED ip_all_spread_vertices_omp
  BY DEF Count, listVars
<1>2. /\ Inside(CountLabels) /\ Inside(CountLabels)'
      /\ pc[t] = "count" /\ pc'[t] = "counted" /\ \A u \in Threads \ {t} : pc'[u] = pc[u]
  BY <1>1, MoveTests, PhaseNames, LabelNames DEF TeamInv
<1>3. ip_active_vertices = Cardinality(Counted)
  BY <1>2, CountInPhase, PhaseNames DEF CountStage
<1>4. /\ ip_all_spread_vertices_omp[t] \in Seq(Vertices) /\ Once(ip_all_spread_vertices_omp[t])
      /\ \A u \in Threads : Collected(u) \subseteq Vertices
  BY LengthOfList DEF TypeOK, CollectedOnce, Collected
<1>5. /\ IsFiniteSet(Collected(t))
      /\ Cardinality(Collected(t)) = Len(ip_all_spread_vertices_omp[t])
  BY <1>4, LengthOfList DEF Collected
<1>6. /\ "count" # "counted" /\ "counted" \notin MergeLabels /\ "count" \notin MergeLabels
      /\ \A u \in Threads : Collected(u)' = Collected(u)
  BY <1>1 DEF MergeLabels, Collected
<1>7. /\ ~CountedBy(t) /\ CountedBy(t)'
      /\ \A u \in Threads \ {t} : CountedBy(u)' <=> CountedBy(u)
  BY <1>2, <1>6 DEF CountedBy
<1>8. Counted' = Counted \cup Collected(t)
  BY <1>6, <1>7 DEF Counted
<1>9. Counted \cap Collected(t) = {} /\ Counted \subseteq Vertices
  <2>1. Counted \subseteq Vertices
    BY <1>4 DEF Counted
  <2>2. ASSUME NEW d \in Counted PROVE d \notin Collected(t)
    <3>1. PICK u \in Threads : CountedBy(u) /\ d \in Collected(u)
      BY <2>2 DEF Counted
    <3>2. u # t /\ d \in Vertices
      BY <1>4, <1>7, <3>1
    <3> QED
      BY <3>1, <3>2 DEF CollectedOnce
  <2> QED
    BY <2>1, <2>2
<1>10. IsFiniteSet(Counted)
  BY <1>9, VerticesAssumption, FS_Subset
<1>11. Cardinality(Counted \cup Collected(t)) = Cardinality(Counted) + Cardinality(Collected(t))
  <2>1. Cardinality(Counted \cap Collected(t)) = 0
    BY <1>9, FS_EmptySet
  <2>2. /\ Cardinality(Counted \cup Collected(t)) =
             Cardinality(Counted) + Cardinality(Collected(t)) - Cardinality(Counted \cap Collected(t))
        /\ Cardinality(Counted) \in Nat /\ Cardinality(Collected(t)) \in Nat
    BY <1>5, <1>10, FS_Union, FS_CardinalityType
  <2> QED
    BY <2>1, <2>2
<1>12. ip_active_vertices' = Cardinality(Counted')
  BY <1>1, <1>3, <1>5, <1>8, <1>11
<1>13. CountStage(CountLabels)'
  BY <1>12, PhaseNames DEF CountStage
<1> QED
  BY <1>2, <1>13, CountInPhaseNext, PhaseNames

\* Everybody has counted when a thread merges: the counter is the length of the list
\* that it writes, and the list has room for it.
LEMMA CountMerges ==
  ASSUME TypeOK, TeamInv, CollectedOnce, CountExact, [Next]_vars, NEW t \in Threads,
         MergeSingle(t)
  PROVE  CountExact' /\ MergeFits'
<1>1. /\ ~claimed /\ claimed' /\ Move(t, "merge", "merge_done")
      /\ UNCHANGED ip_active_vertices
      /\ max_size' = IF max_size < ip_active_vertices THEN ip_active_vertices ELSE max_size
  BY DEF MergeSingle, EnterSingle
<1>2. Inside(MergeLabels) /\ Inside(MergeLabels)'
  BY <1>1, MoveTests, PhaseNames, LabelNames DEF TeamInv
<1>3. ip_active_vertices = Cardinality(Counted)
  BY <1>1, <1>2, CountInPhase, PhaseNames DEF CountStage
<1>4. Counted = UNION {Collected(u) : u \in Threads}
  <2>1. \A u \in Threads : CountedBy(u)
    BY <1>2 DEF Inside, CountedBy
  <2> QED
    BY <2>1 DEF Counted
<1>5. /\ ip_all_spread_vertices' \in Seq(Vertices) /\ Once(ip_all_spread_vertices')
      /\ Elements(ip_all_spread_vertices') = UNION {Collected(u) : u \in Threads}
  BY ListedOnceNext DEF TeamInv, ListedOnce
<1>6. Cardinality(Elements(ip_all_spread_vertices')) = Len(ip_all_spread_vertices')
  BY <1>5, LengthOfList
<1>7. ip_active_vertices' = Len(ip_all_spread_vertices')
  BY <1>1, <1>3, <1>4, <1>5, <1>6
<1>8. CountStage(MergeLabels)'
  BY <1>1, <1>7, PhaseNames DEF CountStage
<1>9. MergeFits'
  BY <1>1, <1>7 DEF TypeOK, MergeFits
<1> QED
  BY <1>2, <1>8, <1>9, CountInPhaseNext, PhaseNames

\* The barriers.
LEMMA CountBarrier ==
  ASSUME TypeOK, TeamInv, CountExact, BarrierStep
  PROVE  CountExact'
<1>1. UNCHANGED <<ip_active_vertices, ip_superstep, ip_all_spread_vertices_omp, ip_all_spread_vertices>>
  BY DEF BarrierStep, EnterLoop, BeginCompute, EndCompute, EndCount, BeginSwap, BeginFinish,
     NextIteration, engineVars, listVars
<1>2. \A u \in Threads : Collected(u)' = Collected(u)
  BY <1>1 DEF Collected
<1>3. CASE EnterLoop
  <2>1. pc' = [u \in Threads |-> "start"] /\ ~claimed'
    BY <1>3 DEF EnterLoop, Barrier
  <2>2. Inside(StartLabels)'
    BY <2>1, BehindBarrier
  <2>3. CountStage(StartLabels)'
    BY <2>1, PhaseNames DEF CountStage
  <2> QED
    BY <2>2, <2>3, CountInPhaseNext, PhaseNames
<1>4. CASE BeginCompute
  <2>1. AllAt("start_done") /\ pc' = [u \in Threads |-> "compute"]
    BY <1>4 DEF BeginCompute, Barrier
  <2>2. Inside(StartLabels) /\ Inside(ComputeLabels)'
    BY <2>1, BeforeBarrier, BehindBarrier
  <2>3. claimed
    BY <2>1, ThreadsAssumption DEF AllAt, TeamInv, SingleEntered, AnyAt
  <2>4. ip_active_vertices = 0
    BY <2>2, <2>3, CountInPhase, PhaseNames DEF CountStage
  <2>5. CountStage(ComputeLabels)'
    BY <1>1, <2>4, PhaseNames DEF CountStage
  <2> QED
    BY <2>2, <2>5, CountInPhaseNext, PhaseNames
<1>5. CASE EndCompute
  <2>1. AllAt("compute_done") /\ pc' = [u \in Threads |-> "count"]
    BY <1>5 DEF EndCompute, Barrier
  <2>2. Inside(ComputeLabels) /\ Inside(CountLabels)'
    BY <2>1, BeforeBarrier, BehindBarrier
  <2>3. ip_active_vertices = 0
    BY <2>2, CountInPhase, PhaseNames DEF CountStage
  <2>4. \A u \in Threads : ~CountedBy(u)'
    BY <2>1 DEF CountedBy, MergeLabels
  <2>5. Counted' = {}
    BY <2>4 DEF Counted
  <2>6. ip_active_vertices' = Cardinality(Counted')
    BY <1>1, <2>3, <2>5, FS_EmptySet
  <2>7. CountStage(CountLabels)'
    BY <2>6, PhaseNames DEF CountStage
  <2> QED
    BY <2>2, <2>7, CountInPhaseNext, PhaseNames
<1>6. CASE EndCount
  <2>1. AllAt("counted") /\ pc' = [u \in Threads |-> "merge"] /\ ~claimed'
    BY <1>6 DEF EndCount, Barrier
  <2>2. Inside(CountLabels) /\ Inside(MergeLabels)'
    BY <2>1, BeforeBarrier, BehindBarrier
  <2>3. ip_active_vertices = Cardinality(Counted)
    BY <2>2, CountInPhase, PhaseNames DEF CountStage
  <2>4. \A u \in Threads : CountedBy(u) /\ CountedBy(u)'
    BY <2>1, LabelNames DEF CountedBy, AllAt
  <2>5. Counted' = Counted
    BY <1>2, <2>4 DEF Counted
  <2>6. CountStage(MergeLabels)'
    BY <1>1, <2>1, <2>3, <2>5, PhaseNames DEF CountStage
  <2> QED
    BY <2>2, <2>6, CountInPhaseNext, PhaseNames
<1>7. CASE BeginSwap
  <2>1. AllAt("merge_done") /\ pc' = [u \in Threads |-> "swap"]
    BY <1>7 DEF BeginSwap, Barrier
  <2>2. Inside(MergeLabels) /\ Inside(SwapLabels)'
    BY <2>1, BeforeBarrier, BehindBarrier
  <2>3. claimed
    BY <2>1, ThreadsAssumption DEF AllAt, TeamInv, SingleEntered, AnyAt
  <2>4. ip_active_vertices = Len(ip_all_spread_vertices)
    BY <2>2, <2>3, CountInPhase, PhaseNames DEF CountStage
  <2>5. CountStage(SwapLabels)'
    BY <1>1, <2>4, PhaseNames DEF CountStage
  <2> QED
    BY <2>2, <2>5, CountInPhaseNext, PhaseNames
<1>8. CASE BeginFinish
  <2>1. AllAt("swap_done") /\ pc' = [u \in Threads |-> "finish"]
    BY <1>8 DEF BeginFinish, Barrier
  <2>2. Inside(SwapLabels) /\ Inside(FinishLabels)'
    BY <2>1, BeforeBarrier, BehindBarrier
  <2>3. ip_active_vertices = Len(ip_all_spread_vertices)
    BY <2>2, CountInPhase, PhaseNames DEF CountStage
  <2>4. CountStage(FinishLabels)'
    BY <1>1, <2>3, PhaseNames DEF CountStage
  <2> QED
    BY <2>2, <2>4, CountInPhaseNext, PhaseNames
<1>9. CASE NextIteration
  <2>1. AllAt("finish_done") /\ pc' = [u \in Threads |-> "while"]
    BY <1>9 DEF NextIteration, Barrier
  <2>2. Inside(FinishLabels) /\ Inside(HeadLabels)'
    BY <2>1, BeforeBarrier, BehindBarrier
  <2>3. ip_active_vertices = Len(ip_all_spread_vertices)
    BY <2>2, CountInPhase, PhaseNames DEF CountStage
  <2>4. CountStage(HeadLabels)'
    BY <1>1, <2>3, PhaseNames DEF CountStage
  <2> QED
    BY <2>2, <2>4, CountInPhaseNext, PhaseNames
<1> QED
  BY <1>3, <1>4, <1>5, <1>6, <1>7, <1>8, <1>9 DEF BarrierStep

\* The counter is exact, and the merged list has room, after every step.
LEMMA CountNextInv ==
  ASSUME TypeOK, MailboxInv, TeamInv, SpreadInv, [Next]_vars
  PROVE  CountExact' /\ MergeFits'
<1>1. CollectedOnce /\ CountExact /\ MergeFits
  BY DEF SpreadInv
<1>2. ASSUME UNCHANGED <<ip_all_spread_vertices, max_size>> PROVE MergeFits'
  BY <1>1, <1>2 DEF MergeFits
<1>3. CASE UNCHANGED vars
  <2>1. CountExact'
    BY <1>1, <1>3 DEF vars, teamVars, engineVars, listVars, CountExact, Collected, CountedBy, AnyAt
  <2>2. MergeFits'
    BY <1>2, <1>3 DEF vars, listVars
  <2> QED
    BY <2>1, <2>2
<1>4. ASSUME NEW t \in Threads, ThreadStep(t) PROVE CountExact' /\ MergeFits'
  <2>1. CASE MergeSingle(t)
    BY <1>1, <2>1, CountMerges
  <2>2. CASE ~MergeSingle(t)
    <3>1. UNCHANGED <<ip_all_spread_vertices, max_size>>
      BY <1>4, <2>2 DEF ThreadStep, While, StartSingle, SkipStart, ComputeVertex, BroadcastNext, SendToNext,
         BroadcastStep, BroadcastDone, EndBroadcast, LeaveCompute, Count, SkipMerge, SwapMailbox, LeaveSwap,
         EndSuperstep, listVars
    <3>2. CountExact'
      BY <1>1, <1>4, <2>2, CountPass, CountAdds
    <3> QED
      BY <1>2, <3>1, <3>2
  <2> QED
    BY <2>1, <2>2
<1>5. CASE BarrierStep
  <2>1. UNCHANGED <<ip_all_spread_vertices, max_size>>
    BY <1>5 DEF BarrierStep, EnterLoop, BeginCompute, EndCompute, EndCount, BeginSwap,
       BeginFinish, NextIteration, listVars
  <2> QED
    BY <1>1, <1>2, <1>5, <2>1, CountBarrier
<1> QED
  BY <1>3, <1>4, <1>5 DEF Next

------------------------------------------------------------------------------
(* The invariant, and what it says at the barriers.                        *)

\* SpreadInv holds initially...
LEMMA SpreadInitInv == Init => SpreadInv
<1> SUFFICES ASSUME Init PROVE SpreadInv
  OBVIOUS
<1>1. \A u \in Threads : pc[u] = "while" /\ send[u] = Idle
  BY DEF Init, TeamInit, MailboxInit
<1>2. Inside(HeadLabels) /\ SendsInLoop
  BY <1>1, PhaseTests, PhaseNames, LabelNames DEF SendsInLoop
<1>3. CollectedOnce
  BY DEF Init, CollectedOnce, Collected, Elements, Once
<1>4. FullStage(HeadLabels)
  BY <1>3, PhaseNames DEF Init, MailboxInit, FullStage, ListsEmpty
<1>5. CountStage(HeadLabels)
  BY PhaseNames DEF Init, EngineInit, CountStage
<1>6. MergeFits
  BY DEF Init, MergeFits
<1>7. FullInv /\ CountExact
  BY <1>2, <1>4, <1>5, FullInPhase, CountInPhase, PhaseNames
<1> QED
  BY <1>6, <1>7 DEF SpreadInv, FullInv

\* Everything together is inductive.
LEMMA SpreadInvariant ==
  ASSUME ProgramTyped PROVE Spec => [](TypeOK /\ MailboxInv /\ TeamInv /\ SpreadInv)
<1>1. Init => TypeOK /\ MailboxInv /\ TeamInv /\ SpreadInv
  BY InitTyped, TeamInitInv, SpreadInitInv
<1>2. TypeOK /\ MailboxInv /\ TeamInv /\ SpreadInv /\ [Next]_vars
        => (TypeOK /\ MailboxInv /\ TeamInv /\ SpreadInv)'
  <2> SUFFICES ASSUME TypeOK, MailboxInv, TeamInv, SpreadInv, [Next]_vars
               PROVE  (TypeOK /\ MailboxInv /\ TeamInv /\ SpreadInv)'
    OBVIOUS
  <2>1. SendsInLoop'
    BY SendsNext
  <2>2. SpreadInv'
    BY <2>1, FullNextInv, CountNextInv DEF SpreadInv, FullInv
  <2> QED
    BY <2>2, NextTyped, MailboxNextInv, TeamNextInv
<1> QED
  BY <1>1, <1>2, PTL DEF Spec

\* The values of the variables keep to their types: the vertices to run are vertices,
\* never more of them than there are, and the loops stay within the list.
THEOREM CombinerSpreadTyped ==
  ASSUME ProgramTyped PROVE Spec => []TypeOK
BY SpreadInvariant, PTL

\* However the threads interleave in ip_send_message, each list its own first
\* messages and one of them merges the lists, the merged list is exactly the vertices
\* that received a message, each once.
THEOREM SpreadListIsExact ==
  ASSUME ProgramTyped PROVE Spec => []SpreadListExact
<1>1. TypeOK /\ TeamInv /\ SpreadInv => SpreadListExact
  <2> SUFFICES ASSUME TypeOK, TeamInv, SpreadInv, AllAt("merge_done")
               PROVE  /\ \A d \in Vertices : has_message_next[d] <=>
                           \E i \in DOMAIN ip_all_spread_vertices : ip_all_spread_vertices[i] = d
                      /\ Once(ip_all_spread_vertices)
    BY DEF SpreadListExact, Once
  <2>1. Inside(MergeLabels)
    BY BeforeBarrier
  <2>2. claimed
    BY ThreadsAssumption DEF AllAt, TeamInv, SingleEntered, AnyAt
  <2>3. FullStage(MergeLabels)
    BY <2>1, FullInPhase, PhaseNames DEF TeamInv, SpreadInv, FullInv
  <2>4. \A d \in Vertices : has_message_next[d] <=> d \in Elements(ip_all_spread_vertices)
    BY <2>2, <2>3 DEF FullStage
  <2> QED
    BY <2>4 DEF Elements, TeamInv, ListedOnce
<1> QED
  BY <1>1, SpreadInvariant, PTL

\* The thread that merges never writes beyond the merged list, which was made as long
\* as the threads counted: nobody merges before everybody has counted, no vertex is
\* counted twice.
THEOREM MergeHasRoom ==
  ASSUME ProgramTyped PROVE Spec => []MergeFits
<1>1. SpreadInv => MergeFits
  BY DEF SpreadInv
<1> QED
  BY <1>1, SpreadInvariant, PTL

------------------------------------------------------------------------------
(* The delivery of broadcasts, phase by phase.                             *)

\* What the mailboxes hold, and what is about to be read.
MailboxesHold == \A d \in Vertices : Arrived(d) = Received(out_neighbours, sent, d)
ListsReceivers ==
  \A d \in Vertices :
    d \in Elements(ip_all_spread_vertices) <=> Received(out_neighbours, sent, d) # None
DeliveryStage(P) ==
  /\ P = HeadLabels /\ AnyAt({"entered"}) => ToRun # << >>
  /\ P \in {StartLabels, ComputeLabels} => ToRun # << >>
  /\ P = ComputeLabels => ArrivedExact /\ RunsOnce /\ SendsForBroadcast
  /\ P \in {CountLabels, MergeLabels} => MailboxesHold
  /\ P = SwapLabels => ListsReceivers
  /\ P = FinishLabels /\ claimed => ip_superstep # 0

\* DeliveryInv says what DeliveryStage says of the phase that the threads are in.
LEMMA DeliveryInPhase ==
  \A P \in Phases : Inside(P) /\ SendsInLoop => (DeliveryInv <=> DeliveryStage(P))
<1> SUFFICES ASSUME NEW P \in Phases, Inside(P), SendsInLoop
             PROVE  DeliveryInv <=> DeliveryStage(P)
  OBVIOUS
<1>1. /\ AnyAt(ComputeLabels) <=> P = ComputeLabels
      /\ AnyAt(SwapLabels) <=> P = SwapLabels
      /\ AnyAt(FinishLabels) <=> P = FinishLabels
      /\ AnyAt(CountLabels \cup MergeLabels) <=> P \in {CountLabels, MergeLabels}
  BY DEF Inside, AnyAt
<1>2. SomeToRun <=> /\ P = HeadLabels /\ AnyAt({"entered"}) => ToRun # << >>
                    /\ P \in {StartLabels, ComputeLabels} => ToRun # << >>
  <2>1. AnyAt({"entered"} \cup StartLabels \cup ComputeLabels) <=>
          AnyAt({"entered"}) \/ P \in {StartLabels, ComputeLabels}
    BY DEF Inside, AnyAt
  <2>2. AnyAt({"entered"}) => P = HeadLabels
    <3>1. AnyAt({"entered"}) => AnyAt(HeadLabels)
      BY LabelNames DEF AnyAt
    <3> QED
      BY <3>1 DEF Inside
  <2> QED
    BY <2>1, <2>2 DEF SomeToRun
<1>3. P # ComputeLabels => SendsForBroadcast /\ ArrivedExact /\ RunsOnce
  BY <1>1, AllAreIdle DEF SendsForBroadcast, ArrivedExact, RunsOnce
<1>4. AllArrived <=> /\ P \in {CountLabels, MergeLabels} => MailboxesHold
                     /\ P = SwapLabels => ListsReceivers
  BY <1>1 DEF AllArrived, MailboxesHold, ListsReceivers
<1>5. SuperstepCounted <=> (P = FinishLabels /\ claimed => ip_superstep # 0)
  BY <1>1 DEF SuperstepCounted
<1> QED
  BY <1>2, <1>3, <1>4, <1>5 DEF DeliveryInv, DeliveryStage

\* So it does behind a step.
LEMMA DeliveryInPhaseNext ==
  (\A P \in Phases : Inside(P) /\ SendsInLoop => (DeliveryInv <=> DeliveryStage(P)))'
BY DeliveryInPhase, PTL

\* What the lemmas about broadcasts suppose.
LEMMA SpreadBroadcasts == TypeOK /\ MailboxInv /\ TeamInv => BroadcastInv
BY DEF TypeOK, TeamInv, BroadcastInv

\* A mailbox is full exactly when something has arrived in it.
LEMMA FullHasArrived ==
  ASSUME TypeOK, MailboxInv, NEW d \in Vertices
  PROVE  /\ has_message_next[d] <=> Arrived(d) # None
         /\ has_message_next[d] => Arrived(d) = message_next[d]
BY NoneAssumption DEF Arrived, MailboxInv, CombinesIntoFullBox

\* The list that the compute loop goes over names no vertex when there is none to run.
LEMMA ToRunEmpty ==
  ASSUME TypeOK, TeamInv
  PROVE  /\ ToRun = << >> <=> Elements(ToRun) = {}
         /\ ip_superstep = 0 => ToRun # << >> /\ Elements(ToRun) = Vertices
         /\ ip_superstep # 0 => ToRun = ip_all_spread_vertices
<1>1. ToRun \in Seq(Vertices)
  BY Positions DEF TeamInv
<1>2. ToRun = << >> <=> Elements(ToRun) = {}
  <2>1. ASSUME ToRun # << >> PROVE 1 \in DOMAIN ToRun
    BY <1>1, <2>1
  <2> QED
    BY <2>1 DEF Elements
<1>3. ASSUME ip_superstep = 0 PROVE Elements(ToRun) = Vertices
  <2>1. ToRun = Enumeration(Vertices)
    BY <1>3 DEF ToRun
  <2>2. \A v : v \in Vertices <=> \E i \in DOMAIN ToRun : ToRun[i] = v
    BY <2>1, EnumerationLists, VerticesAssumption
  <2> QED
    BY <2>2 DEF Elements
<1>4. ip_superstep = 0 => ToRun # << >>
  BY <1>2, <1>3, VerticesAssumption
<1> QED
  BY <1>2, <1>3, <1>4 DEF ToRun

\* The steps at the head of a superstep.
LEMMA SpreadDeliveryHead ==
  ASSUME TypeOK, TeamInv, SpreadInv, DeliveryInv, SendsInLoop', NEW t \in Threads,
         While(t) \/ StartSingle(t) \/ SkipStart(t)
  PROVE  DeliveryInv'
<1>1. UNCHANGED ToRun
  BY DEF While, StartSingle, SkipStart, engineVars, listVars, ToRun
<1>2. CASE While(t)
  <2>1. PICK to \in HeadLabels :
          /\ Move(t, "while", to)
          /\ to = "entered" => ip_superstep = 0 \/ ip_active_vertices > 0
    BY <1>2, LabelNames DEF While
  <2>2. /\ Inside(HeadLabels) /\ Inside(HeadLabels)' /\ pc'[t] = to
        /\ \A u \in Threads \ {t} : pc'[u] = pc[u]
    BY <2>1, MoveTests, PhaseNames, LabelNames DEF TeamInv
  <2>3. DeliveryStage(HeadLabels) /\ CountStage(HeadLabels)
    BY <2>2, DeliveryInPhase, CountInPhase, PhaseNames DEF TeamInv, SpreadInv
  <2>4. ASSUME to = "entered" PROVE ToRun # << >>
    <3>1. CASE ip_superstep = 0
      BY <3>1, ToRunEmpty
    <3>2. CASE ip_superstep # 0
      <4>1. Len(ip_all_spread_vertices) > 0
        BY <2>1, <2>3, <2>4, <3>2 DEF CountStage
      <4> QED
        BY <3>2, <4>1, ToRunEmpty
    <3> QED
      BY <3>1, <3>2
  <2>5. AnyAt({"entered"})' => AnyAt({"entered"}) \/ to = "entered"
    BY <2>2 DEF AnyAt
  <2>6. DeliveryStage(HeadLabels)'
    BY <1>1, <2>3, <2>4, <2>5, PhaseNames DEF DeliveryStage
  <2> QED
    BY <2>2, <2>6, DeliveryInPhaseNext, PhaseNames
<1>3. CASE StartSingle(t) \/ SkipStart(t)
  <2>1. Move(t, "start", "start_done")
    BY <1>3 DEF StartSingle, SkipStart, EnterSingle, SkipSingle
  <2>2. Inside(StartLabels) /\ Inside(StartLabels)'
    BY <2>1, MoveTests, PhaseNames, LabelNames DEF TeamInv
  <2>3. DeliveryStage(StartLabels)
    BY <2>2, DeliveryInPhase, PhaseNames DEF TeamInv
  <2>4. DeliveryStage(StartLabels)'
    BY <1>1, <2>3, PhaseNames DEF DeliveryStage
  <2> QED
    BY <2>2, <2>4, DeliveryInPhaseNext, PhaseNames
<1> QED
  BY <1>2, <1>3

\* In the compute loop the list stays as it is.
LEMMA SpreadDeliveryLoop ==
  ASSUME DeliveryInv, SendsInLoop, SendsInLoop', Inside(ComputeLabels), Inside(ComputeLabels)',
         UNCHANGED ToRun, ArrivedExact', RunsOnce', SendsForBroadcast'
  PROVE  DeliveryInv'
<1>1. DeliveryStage(ComputeLabels)
  BY DeliveryInPhase, PhaseNames
<1>2. DeliveryStage(ComputeLabels)'
  BY <1>1, PhaseNames DEF DeliveryStage
<1> QED
  BY <1>2, DeliveryInPhaseNext, PhaseNames

\* A vertex that runs.
LEMMA SpreadDeliveryCompute ==
  ASSUME ProgramTyped, TypeOK, MailboxInv, TeamInv, DeliveryInv, SendsInLoop',
         NEW t \in Threads, NEW i \in todo, ComputeVertex(t, i)
  PROVE  /\ DeliveryInv'
         /\ i \in DOMAIN ToRun /\ ToRun[i] \in Vertices \ ran
<1>1. Move(t, "compute", "send") /\ todo' = todo \ {i} /\ UNCHANGED mailboxVars
  BY DEF ComputeVertex, TakeIteration
<1>2. /\ Inside(ComputeLabels) /\ Inside(ComputeLabels)' /\ pc[t] = "compute" /\ pc'[t] = "send"
      /\ \A u \in Threads \ {t} : pc'[u] = pc[u]
  BY <1>1, MoveTests, PhaseNames, LabelNames DEF TeamInv
<1>3. /\ todo \subseteq DOMAIN ToRun /\ \A j \in DOMAIN ToRun : ToRun[j] \in Vertices
      /\ Once(ToRun)
  BY <1>2, Positions DEF TeamInv, Inside, IterationsLeft
<1>4. PICK v \in Vertices : v = ToRun[i]
  BY <1>3
<1>5. RunsOnce /\ SendsForBroadcast /\ ArrivedExact
  BY DEF DeliveryInv
<1>6. v \in Left /\ v \notin ran /\ sent[v] = None
  BY <1>2, <1>4, <1>5 DEF RunsOnce, Left, Inside
<1>7. PICK outcome \in Outcomes(v) : RunVertex(v, outcome) /\ StartBroadcast(t, v, outcome)
  BY <1>4 DEF ComputeVertex
<1>8. /\ ran' = ran \cup {v} /\ sent' = [sent EXCEPT ![v] = outcome.message]
      /\ \A w \in Vertices \ {v} : sent'[w] = sent[w]
      /\ \A u \in Threads \ {t} : broadcast'[u] = broadcast[u]
      /\ UNCHANGED <<out_neighbours, ip_superstep, ip_all_spread_vertices>>
  <2>1. UNCHANGED ip_all_spread_vertices
    BY DEF ComputeVertex, listVars
  <2>2. /\ ran' = ran \cup {v} /\ sent' = [sent EXCEPT ![v] = outcome.message]
        /\ UNCHANGED <<out_neighbours, ip_superstep>>
    BY <1>7 DEF RunVertex, jobVars
  <2>3. DOMAIN sent = Vertices /\ DOMAIN broadcast = Threads
    BY DEF TypeOK, EngineTypeOK
  <2>4. \A u \in Threads \ {t} : broadcast'[u] = broadcast[u]
    BY <1>7, <2>3 DEF StartBroadcast
  <2>5. \A w \in Vertices \ {v} : sent'[w] = sent[w]
    BY <2>2, <2>3
  <2> QED
    BY <2>1, <2>2, <2>4, <2>5
<1>9. UNCHANGED ToRun
  BY <1>8 DEF ToRun
<1>10. ArrivedExact'
  BY <1>1, <1>2, <1>5, <1>6, <1>7, <1>8, SpreadBroadcasts, ArrivedCompute
<1>11. SendsForBroadcast'
  <2>1. send[t] = Idle
    BY <1>2 DEF TeamInv, SendsInLoop
  <2>2. \A u \in Threads : send[u] = Idle \/ (Sending(u)' <=> Sending(u))
    BY <1>2, <1>8, <2>1 DEF Sending
  <2> QED
    BY <1>1, <1>5, <2>2, SendsKept DEF mailboxVars
<1>12. RunsOnce'
  <2>1. Left' = Left \ {v}
    BY <1>1, <1>3, <1>4, <1>9 DEF Left, Once
  <2>2. /\ ran \cap Left = {} /\ ran \cup Left = Elements(ToRun)
        /\ \A w \in Vertices \ ran : sent[w] = None
    BY <1>2, <1>5 DEF RunsOnce, Inside
  <2> QED
    BY <1>6, <1>8, <1>9, <2>1, <2>2 DEF RunsOnce, Elements
<1> QED
  BY <1>2, <1>3, <1>4, <1>6, <1>9, <1>10, <1>11, <1>12, SpreadDeliveryLoop DEF TeamInv

\* The calls of ip_send_message, the end of a broadcast and that of the loop.
LEMMA SpreadDeliverySend ==
  ASSUME OrderFree, IntegralMessages, TypeOK, MailboxInv, TeamInv, DeliveryInv, SendsInLoop',
         NEW t \in Threads,
         BroadcastNext(t) \/ BroadcastStep(t) \/ BroadcastDone(t) \/ LeaveCompute(t)
  PROVE  DeliveryInv'
<1>1. /\ UNCHANGED <<out_neighbours, sent, ran, todo, ip_superstep, ip_all_spread_vertices>>
  BY DEF BroadcastNext, BroadcastStep, BroadcastDone, LeaveCompute, LeaveLoop, teamVars, engineVars,
     jobVars, historyVars, listVars
<1>2. UNCHANGED ToRun
  BY <1>1 DEF ToRun
<1>3. UNCHANGED Left
  BY <1>1, <1>2 DEF Left
<1>4. ArrivedExact /\ SendsForBroadcast /\ BroadcastInv
  BY SpreadBroadcasts DEF DeliveryInv
<1>5. ASSUME Inside(ComputeLabels), Inside(ComputeLabels)', ArrivedExact', SendsForBroadcast'
      PROVE  DeliveryInv'
  <2>1. RunsOnce'
    BY <1>1, <1>2, <1>3, <1>5 DEF DeliveryInv, RunsOnce, Inside, Elements
  <2> QED
    BY <1>2, <1>5, <2>1, SpreadDeliveryLoop DEF TeamInv
<1>6. CASE BroadcastNext(t) \/ BroadcastStep(t)
  <2>1. UNCHANGED pc /\ pc[t] = "send"
    <3>1. SendStep(t) => send[t] # Idle
      BY SendStepLocal
    <3> QED
      BY <1>6, <3>1 DEF BroadcastNext, SendToNext, BroadcastStep, TeamInv, SendsInLoop, teamVars
  <2>2. ArrivedExact' /\ SendsForBroadcast'
    <3>1. CASE BroadcastNext(t)
      BY <1>1, <1>4, <2>1, <3>1, ArrivedNext DEF BroadcastNext
    <3>2. CASE BroadcastStep(t)
      BY <1>1, <1>4, <2>1, <3>2, ArrivedStep DEF BroadcastStep
    <3> QED
      BY <1>6, <3>1, <3>2
  <2>3. Inside(ComputeLabels) /\ Inside(ComputeLabels)'
    BY <2>1, StayTests, PhaseNames, LabelNames DEF TeamInv
  <2> QED
    BY <1>5, <2>2, <2>3
<1>7. CASE BroadcastDone(t) \/ LeaveCompute(t)
  <2>1. PICK from \in ComputeLabels, to \in ComputeLabels :
          /\ Move(t, from, to) /\ send[t] = Idle /\ UNCHANGED mailboxVars
          /\ \/ to = "compute" /\ EndBroadcast(t)
             \/ from = "compute" /\ to # "send" /\ UNCHANGED broadcast
    BY <1>7, LabelNames DEF BroadcastDone, EndBroadcast, LeaveCompute, LeaveLoop, Move, TeamInv,
       SendsInLoop
  <2>2. /\ Inside(ComputeLabels) /\ Inside(ComputeLabels)' /\ pc[t] = from /\ pc'[t] = to
        /\ \A u \in Threads \ {t} : pc'[u] = pc[u]
    BY <2>1, MoveTests, PhaseNames DEF TeamInv
  <2>3. ArrivedExact'
    BY <1>1, <1>4, <2>1, <2>2, ArrivedDone, ArrivedPass
  <2>4. SendsForBroadcast'
    <3>1. \A u \in Threads \ {t} : broadcast'[u] = broadcast[u]
      BY <2>1 DEF EndBroadcast, TypeOK
    <3>2. \A u \in Threads : send[u] = Idle \/ (Sending(u)' <=> Sending(u))
      BY <2>1, <2>2, <3>1 DEF Sending
    <3> QED
      BY <1>4, <2>1, <3>2, SendsKept DEF mailboxVars
  <2> QED
    BY <1>5, <2>2, <2>3, <2>4
<1> QED
  BY <1>6, <1>7

\* Counting, merging and the mailbox update: the mailboxes still hold what they held,
\* or the list is still that of the receivers.
LEMMA SpreadDeliveryQuiet ==
  ASSUME TypeOK, TeamInv, DeliveryInv, SendsInLoop', NEW t \in Threads,
         \/ Count(t) \/ MergeSingle(t) \/ SkipMerge(t)
         \/ (\E i \in todo : SwapMailbox(t, i)) \/ LeaveSwap(t) \/ EndSuperstep(t)
  PROVE  DeliveryInv'
<1>1. CASE Count(t) \/ MergeSingle(t) \/ SkipMerge(t)
  <2>1. UNCHANGED <<out_neighbours, sent, has_message_next, message_next>>
    BY <1>1 DEF Count, MergeSingle, SkipMerge, engineVars, jobVars, historyVars, mailboxVars
  <2>2. PICK P \in {CountLabels, MergeLabels} : \E from, to \in P : Move(t, from, to)
    BY <1>1, LabelNames DEF Count, MergeSingle, SkipMerge, EnterSingle, SkipSingle
  <2>3. P \in Phases /\ Inside(P) /\ Inside(P)'
    <3>1. P \in Phases
      BY PhaseNames
    <3> QED
      BY <2>2, <3>1, MoveTests DEF TeamInv
  <2>4. MailboxesHold
    BY <2>3, DeliveryInPhase DEF TeamInv, DeliveryStage
  <2>5. MailboxesHold'
    BY <2>1, <2>4 DEF MailboxesHold, Arrived
  <2>6. DeliveryStage(P)'
    BY <2>2, <2>5, PhaseNames DEF DeliveryStage
  <2> QED
    BY <2>3, <2>6, DeliveryInPhaseNext
<1>2. CASE (\E i \in todo : SwapMailbox(t, i)) \/ LeaveSwap(t)
  <2>1. UNCHANGED <<out_neighbours, sent, ip_all_spread_vertices>>
    BY <1>2 DEF SwapMailbox, LeaveSwap, engineVars, jobVars, historyVars, listVars
  <2>2. \E from, to \in SwapLabels : Move(t, from, to)
    BY <1>2, LabelNames DEF SwapMailbox, LeaveSwap, LeaveLoop
  <2>3. Inside(SwapLabels) /\ Inside(SwapLabels)'
    BY <2>2, MoveTests, PhaseNames DEF TeamInv
  <2>4. ListsReceivers
    BY <2>3, DeliveryInPhase, PhaseNames DEF TeamInv, DeliveryStage
  <2>5. ListsReceivers'
    BY <2>1, <2>4 DEF ListsReceivers, Elements
  <2>6. DeliveryStage(SwapLabels)'
    BY <2>5, PhaseNames DEF DeliveryStage
  <2> QED
    BY <2>3, <2>6, DeliveryInPhaseNext, PhaseNames
<1>3. CASE EndSuperstep(t)
  <2>1. /\ Move(t, "finish", "finish_done")
        /\ ip_superstep' = ip_superstep + 1 \/ UNCHANGED <<claimed, ip_superstep>>
    BY <1>3 DEF EndSuperstep, FinishSingle, SkipFinish, EnterSingle, SkipSingle, engineVars
  <2>2. Inside(FinishLabels) /\ Inside(FinishLabels)'
    BY <2>1, MoveTests, PhaseNames, LabelNames DEF TeamInv
  <2>3. claimed => ip_superstep # 0
    BY <2>2, DeliveryInPhase, PhaseNames DEF TeamInv, DeliveryStage
  <2>4. claimed' => ip_superstep' # 0
    <3>1. ip_superstep \in Nat
      BY DEF TypeOK, EngineTypeOK
    <3>2. CASE ip_superstep' = ip_superstep + 1
      BY <3>1, <3>2
    <3>3. CASE UNCHANGED <<claimed, ip_superstep>>
      BY <2>3, <3>3
    <3> QED
      BY <2>1, <3>2, <3>3
  <2>5. DeliveryStage(FinishLabels)'
    BY <2>4, PhaseNames DEF DeliveryStage
  <2> QED
    BY <2>2, <2>5, DeliveryInPhaseNext, PhaseNames
<1> QED
  BY <1>1, <1>2, <1>3

\* The barriers.
LEMMA SpreadDeliveryBarrier ==
  ASSUME OrderFree, TypeOK, MailboxInv, TeamInv, SpreadInv, DeliveryInv, SendsInLoop', BarrierStep
  PROVE  DeliveryInv'
<1>1. /\ UNCHANGED <<mailboxVars, out_neighbours, ip_superstep, ip_all_spread_vertices>>
      /\ BeginCompute \/ UNCHANGED sent
  BY DEF BarrierStep, EnterLoop, BeginCompute, EndCompute, EndCount, BeginSwap, BeginFinish,
     NextIteration, engineVars, jobVars, historyVars, listVars
<1>2. UNCHANGED ToRun
  BY <1>1 DEF ToRun
<1>3. CASE EnterLoop
  <2>1. AllAt("entered") /\ pc' = [u \in Threads |-> "start"]
    BY <1>3 DEF EnterLoop, Barrier
  <2>2. Inside(HeadLabels) /\ Inside(StartLabels)'
    BY <2>1, BeforeBarrier, BehindBarrier
  <2>3. ToRun # << >>
    <3>1. AnyAt({"entered"})
      BY <2>1, ThreadsAssumption DEF AllAt, AnyAt
    <3> QED
      BY <2>2, <3>1, DeliveryInPhase, PhaseNames DEF TeamInv, DeliveryStage
  <2>4. DeliveryStage(StartLabels)'
    BY <1>2, <2>3, PhaseNames DEF DeliveryStage
  <2> QED
    BY <2>2, <2>4, DeliveryInPhaseNext, PhaseNames
<1>4. CASE BeginCompute
  <2>1. /\ AllAt("start_done") /\ pc' = [u \in Threads |-> "compute"]
        /\ todo' = DOMAIN ToRun /\ sent' = Nothing /\ ran' = {}
    BY <1>4 DEF BeginCompute, Barrier, NewHistory
  <2>2. Inside(StartLabels) /\ Inside(ComputeLabels)'
    BY <2>1, BeforeBarrier, BehindBarrier
  <2>3. ToRun # << >>
    BY <2>2, DeliveryInPhase, PhaseNames DEF TeamInv, DeliveryStage
  <2>4. \A d \in Vertices : ~has_message_next[d]
    <3>1. FullStage(StartLabels)
      BY <2>2, FullInPhase, PhaseNames DEF TeamInv, SpreadInv, FullInv
    <3> QED
      BY <3>1, PhaseNames DEF FullStage
  <2>5. ArrivedExact'
    BY <1>1, <2>1, <2>4, SpreadBroadcasts, ArrivedBegin
  <2>6. RunsOnce'
    BY <1>2, <2>1 DEF RunsOnce, Left, Elements, Nothing
  <2>7. SendsForBroadcast'
    <3>1. \A u \in Threads : send[u] = Idle
      BY <2>2, AllAreIdle, PhaseNames DEF TeamInv
    <3> QED
      BY <1>1, <3>1 DEF SendsForBroadcast, mailboxVars
  <2>8. DeliveryStage(ComputeLabels)'
    BY <1>2, <2>3, <2>5, <2>6, <2>7, PhaseNames DEF DeliveryStage
  <2> QED
    BY <2>2, <2>8, DeliveryInPhaseNext, PhaseNames
<1>5. CASE EndCompute
  <2>1. AllAt("compute_done") /\ pc' = [u \in Threads |-> "count"] /\ UNCHANGED sent
    BY <1>5 DEF EndCompute, Barrier, engineVars, historyVars
  <2>2. Inside(CountLabels)'
    BY <2>1, BehindBarrier
  <2>3. MailboxesHold
    BY <2>1, SpreadBroadcasts, LoopDelivered DEF DeliveryInv, BroadcastDelivered, MailboxesHold
  <2>4. MailboxesHold'
    BY <1>1, <2>1, <2>3 DEF MailboxesHold, Arrived, mailboxVars
  <2>5. DeliveryStage(CountLabels)'
    BY <2>4, PhaseNames DEF DeliveryStage
  <2> QED
    BY <2>2, <2>5, DeliveryInPhaseNext, PhaseNames
<1>6. CASE EndCount
  <2>1. AllAt("counted") /\ pc' = [u \in Threads |-> "merge"] /\ UNCHANGED sent
    BY <1>6 DEF EndCount, Barrier, engineVars, historyVars
  <2>2. Inside(CountLabels) /\ Inside(MergeLabels)'
    BY <2>1, BeforeBarrier, BehindBarrier
  <2>3. MailboxesHold
    BY <2>2, DeliveryInPhase, PhaseNames DEF TeamInv, DeliveryStage
  <2>4. MailboxesHold'
    BY <1>1, <2>1, <2>3 DEF MailboxesHold, Arrived, mailboxVars
  <2>5. DeliveryStage(MergeLabels)'
    BY <2>4, PhaseNames DEF DeliveryStage
  <2> QED
    BY <2>2, <2>5, DeliveryInPhaseNext, PhaseNames
<1>7. CASE BeginSwap
  <2>1. AllAt("merge_done") /\ pc' = [u \in Threads |-> "swap"] /\ UNCHANGED sent
    BY <1>7 DEF BeginSwap, Barrier, engineVars, historyVars
  <2>2. Inside(MergeLabels) /\ Inside(SwapLabels)'
    BY <2>1, BeforeBarrier, BehindBarrier
  <2>3. MailboxesHold
    BY <2>2, DeliveryInPhase, PhaseNames DEF TeamInv, DeliveryStage
  <2>4. \A d \in Vertices : has_message_next[d] <=> d \in Elements(ip_all_spread_vertices)
    <3>1. claimed
      BY <2>1, ThreadsAssumption DEF AllAt, TeamInv, SingleEntered, AnyAt
    <3>2. FullStage(MergeLabels)
      BY <2>2, FullInPhase, PhaseNames DEF TeamInv, SpreadInv, FullInv
    <3> QED
      BY <3>1, <3>2 DEF FullStage
  <2>5. ListsReceivers
    BY <2>3, <2>4, FullHasArrived DEF ListsReceivers, MailboxesHold
  <2>6. ListsReceivers'
    BY <1>1, <2>1, <2>5 DEF ListsReceivers, Elements
  <2>7. DeliveryStage(SwapLabels)'
    BY <2>6, PhaseNames DEF DeliveryStage
  <2> QED
    BY <2>2, <2>7, DeliveryInPhaseNext, PhaseNames
<1>8. CASE BeginFinish
  <2>1. pc' = [u \in Threads |-> "finish"] /\ ~claimed'
    BY <1>8 DEF BeginFinish, Barrier
  <2>2. DeliveryStage(FinishLabels)'
    BY <2>1, PhaseNames DEF DeliveryStage
  <2> QED
    BY <2>1, <2>2, BehindBarrier, DeliveryInPhaseNext, PhaseNames
<1>9. CASE NextIteration
  <2>1. pc' = [u \in Threads |-> "while"]
    BY <1>9 DEF NextIteration, Barrier
  <2>2. ~AnyAt({"entered"})'
    BY <2>1 DEF AnyAt
  <2>3. DeliveryStage(HeadLabels)'
    BY <2>2, PhaseNames DEF DeliveryStage
  <2> QED
    BY <2>1, <2>3, BehindBarrier, DeliveryInPhaseNext, PhaseNames
<1> QED
  BY <1>3, <1>4, <1>5, <1>6, <1>7, <1>8, <1>9 DEF BarrierStep

\* DeliveryInv holds initially...
LEMMA SpreadDeliveryInit == Init => DeliveryInv
<1> SUFFICES ASSUME Init PROVE DeliveryInv
  OBVIOUS
<1>1. \A u \in Threads : pc[u] = "while" /\ send[u] = Idle
  BY DEF Init, TeamInit, MailboxInit
<1>2. Inside(HeadLabels) /\ SendsInLoop /\ ~AnyAt({"entered"})
  BY <1>1, PhaseTests, PhaseNames, LabelNames DEF SendsInLoop, AnyAt
<1>3. DeliveryStage(HeadLabels)
  BY <1>2, PhaseNames DEF DeliveryStage
<1> QED
  BY <1>2, <1>3, DeliveryInPhase, PhaseNames

\* ... and after every step.
LEMMA SpreadDeliveryNext ==
  ASSUME ProgramTyped, OrderFree, IntegralMessages, TypeOK, MailboxInv, TeamInv, SpreadInv,
         DeliveryInv, [Next]_vars
  PROVE  DeliveryInv'
<1>0. SendsInLoop'
  BY SendsNext
<1>1. ASSUME NEW t \in Threads, ThreadStep(t) PROVE DeliveryInv'
  <2>1. CASE While(t) \/ StartSingle(t) \/ SkipStart(t)
    BY <1>0, <2>1, SpreadDeliveryHead
  <2>2. ASSUME NEW i \in todo, ComputeVertex(t, i) PROVE DeliveryInv'
    BY <1>0, <2>2, SpreadDeliveryCompute
  <2>3. CASE BroadcastNext(t) \/ BroadcastStep(t) \/ BroadcastDone(t) \/ LeaveCompute(t)
    BY <1>0, <2>3, SpreadDeliverySend
  <2>4. CASE \/ Count(t) \/ MergeSingle(t) \/ SkipMerge(t)
             \/ (\E i \in todo : SwapMailbox(t, i)) \/ LeaveSwap(t) \/ EndSuperstep(t)
    BY <1>0, <2>4, SpreadDeliveryQuiet
  <2> QED
    BY <1>1, <2>1, <2>2, <2>3, <2>4 DEF ThreadStep
<1>2. CASE BarrierStep
  BY <1>0, <1>2, SpreadDeliveryBarrier
<1>3. CASE UNCHANGED vars
  <2>1. UNCHANGED <<pc, claimed, todo, sent, ran, out_neighbours, broadcast, mailboxVars,
                    ip_superstep, ip_all_spread_vertices>>
    BY <1>3 DEF vars, teamVars, engineVars, historyVars, jobVars, listVars
  <2>2. UNCHANGED <<ToRun>>
    BY <2>1 DEF ToRun
  <2>3. RunsOnce' /\ SomeToRun' /\ AllArrived' /\ SuperstepCounted'
    BY <2>1, <2>2 DEF DeliveryInv, RunsOnce, Left, Elements, SomeToRun, AllArrived, Arrived,
       SuperstepCounted, AnyAt, mailboxVars
  <2>4. SendsForBroadcast'
    BY <2>1 DEF DeliveryInv, SendsForBroadcast, Sending, mailboxVars
  <2>5. ArrivedExact'
    <3>1. ASSUME AnyAt(ComputeLabels) PROVE ArrivedExact'
      <4>1. PICK sender : Names(sender) /\ Holds(sender)
        BY <3>1 DEF DeliveryInv, ArrivedExact, Names, Holds
      <4>2. \A u \in Threads : Sending(u)' <=> Sending(u)
        BY <2>1 DEF Sending
      <4>3. Names(sender)' /\ Holds(sender)'
        BY <2>1, <4>1, <4>2, NamesKept
      <4> QED
        BY <4>3 DEF ArrivedExact, Names, Holds
    <3> QED
      BY <2>1, <3>1 DEF ArrivedExact, AnyAt
  <2> QED
    BY <2>3, <2>4, <2>5 DEF DeliveryInv
<1> QED
  BY <1>1, <1>2, <1>3 DEF Next

\* All of it is inductive.
LEMMA SpreadDeliveryInvariant ==
  ASSUME ProgramTyped, OrderFree, IntegralMessages
  PROVE  Spec => [](TypeOK /\ MailboxInv /\ TeamInv /\ SpreadInv /\ DeliveryInv)
<1>1. Init => DeliveryInv
  BY SpreadDeliveryInit
<1>2. (TypeOK /\ MailboxInv /\ TeamInv /\ SpreadInv) /\ DeliveryInv /\ [Next]_vars => DeliveryInv'
  BY SpreadDeliveryNext
<1> QED
  BY <1>1, <1>2, SpreadInvariant, PTL DEF Spec

------------------------------------------------------------------------------
(* The superstep semantics.                                                *)

\* It combines the messages as VertexProgram says.
LEMMA SuperstepReceived ==
  ASSUME NEW out, NEW s, NEW v
  PROVE  Superstep!Received(out, s, v) = Received(out, s, v)
BY Zenon DEF Superstep!Received, Received, Superstep!CombinedOver, CombinedOver,
   Superstep!EdgesInto, EdgesInto, Superstep!Merge, Merge, Superstep!MapThenFoldSet, MapThenFoldSet

\* Its variables, as ImplementsBSP maps them.
absSuperstep == IF Delivering \/ (Finishing /\ ~claimed) THEN ip_superstep + 1 ELSE ip_superstep
absActive == [v \in Vertices |-> Waiting(v)]
absInbox == [v \in Vertices |->
  IF Delivering /\ has_message_next[v] THEN message_next[v] ELSE Unread(v)]
absSent == IF Computing THEN sent ELSE Nothing
absRan == IF Computing THEN ran ELSE {}

\* The same, by the phase that the threads are in.
DeliveryLabels == {CountLabels, MergeLabels, SwapLabels}
HasTurn(v) == \E i \in todo : ToRun[i] = v
Receives(v) == Received(out_neighbours, sent, v) # None
InList(v) == \E i \in DOMAIN ip_all_spread_vertices : ip_all_spread_vertices[i] = v
InToRun(v) == \E i \in DOMAIN ToRun : ToRun[i] = v
StepIn(P) ==
  IF P \in DeliveryLabels \/ (P = FinishLabels /\ ~claimed)
  THEN ip_superstep + 1 ELSE ip_superstep
ActiveIn(P, v) ==
  IF P = ComputeLabels THEN HasTurn(v)
  ELSE IF P \in DeliveryLabels THEN Receives(v)
  ELSE IF P = FinishLabels THEN InList(v)
  ELSE InToRun(v)
InboxIn(P, v) ==
  IF P \in DeliveryLabels /\ has_message_next[v] THEN message_next[v]
  ELSE IF ActiveIn(P, v) \/ (P = ComputeLabels /\ v \in ran) THEN NextMessage(v) ELSE None
MapsTo(P) ==
  /\ absSuperstep = StepIn(P)
  /\ absActive = [v \in Vertices |-> ActiveIn(P, v)]
  /\ absInbox = [v \in Vertices |-> InboxIn(P, v)]
  /\ absSent = IF P = ComputeLabels THEN sent ELSE Nothing
  /\ absRan = IF P = ComputeLabels THEN ran ELSE {}
  /\ AnyAt({"exit"}) => P = HeadLabels

\* The phase decides what the state maps to.
LEMMA Mapped == \A P \in Phases : Inside(P) => MapsTo(P)
<1> SUFFICES ASSUME NEW P \in Phases, Inside(P) PROVE MapsTo(P)
  OBVIOUS
<1>1. \A u \in Threads : pc[u] \in P
  BY DEF Inside
<1>2. Computing <=> P = ComputeLabels
  <2>1. CASE P = ComputeLabels
    <3>1. \A u \in Threads : pc[u] \in {"compute", "send", "compute_done"}
      BY <1>1, <2>1 DEF ComputeLabels
    <3> QED
      BY <2>1, <3>1 DEF Computing, AnyAt, AllAt
  <2>2. CASE P # ComputeLabels
    <3>1. \A u \in Threads : pc[u] \notin ComputeLabels
      BY <2>2 DEF Inside, AnyAt
    <3>2. \A u \in Threads : pc[u] \notin {"compute", "send", "compute_done"}
      BY <3>1 DEF ComputeLabels
    <3> QED
      BY <2>2, <3>2, ThreadsAssumption DEF Computing, AnyAt, AllAt
  <2> QED
    BY <2>1, <2>2
<1>3. Delivering <=> P \in DeliveryLabels
  <2>1. Delivering <=> AnyAt(CountLabels) \/ AnyAt(MergeLabels) \/ AnyAt(SwapLabels)
    BY DEF Delivering, AnyAt, CountLabels, MergeLabels, SwapLabels
  <2> QED
    BY <2>1 DEF Inside, DeliveryLabels
<1>4. Finishing <=> P = FinishLabels
  BY DEF Inside, Finishing, FinishLabels
<1>5. AnyAt({"exit"}) => P = HeadLabels
  <2>1. AnyAt({"exit"}) => AnyAt(HeadLabels)
    BY DEF AnyAt, HeadLabels
  <2> QED
    BY <2>1 DEF Inside
<1>6. ASSUME NEW v \in Vertices PROVE Waiting(v) = ActiveIn(P, v)
  BY <1>2, <1>3, <1>4, PhaseNames
     DEF Waiting, ActiveIn, HasTurn, Receives, InList, InToRun, DeliveryLabels
<1>7. absSuperstep = StepIn(P)
  BY <1>3, <1>4 DEF absSuperstep, StepIn
<1>8. absActive = [v \in Vertices |-> ActiveIn(P, v)]
  BY <1>6, Zenon DEF absActive
<1>9. ASSUME NEW v \in Vertices
      PROVE  (IF Delivering /\ has_message_next[v] THEN message_next[v] ELSE Unread(v)) =
             InboxIn(P, v)
  BY <1>2, <1>3, <1>6 DEF InboxIn, Unread
<1>10. absInbox = [v \in Vertices |-> InboxIn(P, v)]
  BY <1>9, Zenon DEF absInbox
<1> QED
  BY <1>2, <1>5, <1>7, <1>8, <1>10 DEF MapsTo, absSent, absRan

\* So it is behind a step.
LEMMA MappedNext == (\A P \in Phases : Inside(P) => MapsTo(P))'
BY Mapped, PTL

\* A step that leaves all of this as it was is a stutter.
LEMMA SuperstepKept ==
  ASSUME UNCHANGED <<jobVars, value>>, absSuperstep' = absSuperstep, absActive' = absActive,
         absInbox' = absInbox, absSent' = absSent, absRan' = absRan,
         AnyAt({"exit"})' <=> AnyAt({"exit"})
  PROVE  UNCHANGED Superstep!vars
<1>1. AnyAt({"exit"})' = AnyAt({"exit"})
  BY DEF AnyAt
<1> QED
  BY <1>1 DEF Superstep!vars, jobVars, absSuperstep, absActive, absInbox, absSent, absRan

\* A step within a phase, or from one to the next, that keeps what the phases show.
LEMMA PhaseStutters ==
  ASSUME NEW P \in Phases, NEW Q \in Phases, MapsTo(P), MapsTo(Q)',
         AnyAt({"exit"})' <=> AnyAt({"exit"}), UNCHANGED <<jobVars, value>>,
         StepIn(Q)' = StepIn(P),
         P = ComputeLabels => Q = ComputeLabels /\ UNCHANGED <<sent, ran>>,
         P # ComputeLabels /\ Q = ComputeLabels => sent' = Nothing /\ ran' = {},
         \A v \in Vertices : /\ ActiveIn(Q, v)' = ActiveIn(P, v)
                             /\ InboxIn(Q, v)' = InboxIn(P, v)
  PROVE  UNCHANGED Superstep!vars
<1>1. absSuperstep' = absSuperstep
  BY DEF MapsTo
<1>2. absSent' = absSent /\ absRan' = absRan
  BY DEF MapsTo, Nothing
<1>3. /\ absActive = [v \in Vertices |-> ActiveIn(P, v)]
      /\ absActive' = [v \in Vertices |-> ActiveIn(Q, v)']
      /\ absInbox = [v \in Vertices |-> InboxIn(P, v)]
      /\ absInbox' = [v \in Vertices |-> InboxIn(Q, v)']
  BY Zenon DEF MapsTo
<1>4. absActive' = absActive /\ absInbox' = absInbox
  BY <1>3, Zenon
<1> QED
  BY <1>1, <1>2, <1>4, SuperstepKept

\* What a step within phase P leaves as it was when the superstep semantics does not
\* see it.
Unseen(P) ==
  /\ UNCHANGED <<jobVars, boxVars, value, sent, ran>>
  /\ P = FinishLabels \/ UNCHANGED ip_superstep
  /\ P = ComputeLabels => UNCHANGED todo
  /\ P \in DeliveryLabels => UNCHANGED <<has_message_next, message_next>>
  /\ P \in DeliveryLabels \/ UNCHANGED ip_all_spread_vertices

\* The steps of a thread within a phase that the superstep semantics does not see.
LEMMA QuietPhase ==
  ASSUME NEW P \in Phases, Inside(P), Inside(P)', Unseen(P), StepIn(P)' = StepIn(P),
         AnyAt({"exit"})' <=> AnyAt({"exit"})
  PROVE  UNCHANGED Superstep!vars
<1>1. MapsTo(P) /\ MapsTo(P)'
  BY Mapped, MappedNext
<1>2. UNCHANGED <<out_neighbours, has_message, message, sent, ran>>
  BY DEF Unseen, jobVars, boxVars
<1>3. ASSUME NEW v \in Vertices
      PROVE  ActiveIn(P, v)' = ActiveIn(P, v) /\ InboxIn(P, v)' = InboxIn(P, v)
  <2>1. Receives(v)' = Receives(v) /\ NextMessage(v)' = NextMessage(v)
    BY <1>2 DEF Receives, NextMessage
  <2>2. P \notin DeliveryLabels \cup {FinishLabels} => UNCHANGED ToRun
    BY DEF Unseen, ToRun
  <2>3. P = ComputeLabels => HasTurn(v)' = HasTurn(v)
    BY <2>2, PhaseNames DEF HasTurn, Unseen, DeliveryLabels
  <2>4. P = FinishLabels => InList(v)' = InList(v)
    BY PhaseNames DEF InList, Unseen, DeliveryLabels
  <2>5. P \notin DeliveryLabels \cup {FinishLabels} => InToRun(v)' = InToRun(v)
    BY <2>2 DEF InToRun
  <2>6. ActiveIn(P, v)' = ActiveIn(P, v)
    BY <2>1, <2>3, <2>4, <2>5 DEF ActiveIn
  <2>7. P \in DeliveryLabels => UNCHANGED <<has_message_next, message_next>>
    BY DEF Unseen
  <2> QED
    BY <1>2, <2>1, <2>6, <2>7 DEF InboxIn
<1> QED
  BY <1>1, <1>2, <1>3, PhaseStutters DEF Unseen

\* A thread's step from label to label of such a phase.
LEMMA QuietMove ==
  ASSUME TypeOK, TeamInv, NEW P \in Phases \ {FinishLabels}, NEW from \in P, NEW to \in P \ {"exit"},
         NEW t \in Threads, Move(t, from, to), from # "exit", Unseen(P)
  PROVE  UNCHANGED Superstep!vars
<1>1. /\ Inside(P) /\ Inside(P)' /\ pc[t] = from /\ pc'[t] = to
      /\ \A u \in Threads \ {t} : pc'[u] = pc[u]
  BY MoveTests DEF TeamInv
<1>2. AnyAt({"exit"})' <=> AnyAt({"exit"})
  BY <1>1 DEF AnyAt
<1>3. StepIn(P)' = StepIn(P)
  BY DEF Unseen, StepIn
<1> QED
  BY <1>1, <1>2, <1>3, QuietPhase

\* The steps of a thread that change nothing of the abstract superstep.
LEMMA QuietSteps ==
  ASSUME TypeOK, MailboxInv, TeamInv, NEW t \in Threads,
         \/ StartSingle(t) \/ SkipStart(t)
         \/ BroadcastNext(t) \/ BroadcastStep(t) \/ BroadcastDone(t) \/ LeaveCompute(t)
         \/ Count(t) \/ MergeSingle(t) \/ SkipMerge(t) \/ LeaveSwap(t) \/ EndSuperstep(t)
  PROVE  UNCHANGED Superstep!vars
<1>1. UNCHANGED <<jobVars, boxVars, value, sent, ran>>
  BY DEF StartSingle, SkipStart, BroadcastNext, BroadcastStep, BroadcastDone, LeaveCompute, Count,
     MergeSingle, SkipMerge, LeaveSwap, EndSuperstep, FinishSingle, SkipFinish, engineVars, historyVars
<1>2. CASE StartSingle(t) \/ SkipStart(t)
  <2>1. Move(t, "start", "start_done") /\ UNCHANGED <<ip_superstep, ip_all_spread_vertices>>
    BY <1>2 DEF StartSingle, SkipStart, EnterSingle, SkipSingle, engineVars, listVars
  <2>2. Unseen(StartLabels)
    BY <1>1, <2>1, PhaseNames DEF Unseen, DeliveryLabels
  <2> QED
    BY <2>1, <2>2, QuietMove, PhaseNames, LabelNames
<1>3. CASE BroadcastNext(t) \/ BroadcastStep(t)
  <2>1. /\ pc[t] = "send" /\ UNCHANGED <<pc, todo, ip_superstep, ip_all_spread_vertices>>
    <3>1. SendStep(t) => send[t] # Idle
      BY SendStepLocal
    <3> QED
      BY <1>3, <3>1 DEF BroadcastNext, SendToNext, BroadcastStep, TeamInv, SendsInLoop, teamVars,
         engineVars, listVars
  <2>2. Inside(ComputeLabels) /\ Inside(ComputeLabels)'
    BY <2>1, StayTests, PhaseNames, LabelNames DEF TeamInv
  <2>3. AnyAt({"exit"})' <=> AnyAt({"exit"})
    BY <2>1 DEF AnyAt
  <2>4. Unseen(ComputeLabels) /\ StepIn(ComputeLabels)' = StepIn(ComputeLabels)
    BY <1>1, <2>1, PhaseNames DEF Unseen, StepIn, DeliveryLabels
  <2> QED
    BY <2>2, <2>3, <2>4, QuietPhase, PhaseNames
<1>4. CASE BroadcastDone(t) \/ LeaveCompute(t)
  <2>1. /\ Move(t, "send", "compute") \/ Move(t, "compute", "compute_done")
        /\ UNCHANGED <<todo, ip_superstep, ip_all_spread_vertices>>
    BY <1>4 DEF BroadcastDone, EndBroadcast, LeaveCompute, LeaveLoop, engineVars, listVars
  <2>2. Unseen(ComputeLabels)
    BY <1>1, <2>1, PhaseNames DEF Unseen, DeliveryLabels
  <2> QED
    BY <2>1, <2>2, QuietMove, PhaseNames, LabelNames
<1>5. CASE Count(t) \/ MergeSingle(t) \/ SkipMerge(t) \/ LeaveSwap(t)
  <2>1. /\ \/ Move(t, "count", "counted") \/ Move(t, "merge", "merge_done")
           \/ Move(t, "swap", "swap_done")
        /\ UNCHANGED <<ip_superstep, has_message_next, message_next>>
    BY <1>5 DEF Count, MergeSingle, SkipMerge, LeaveSwap, LeaveLoop, EnterSingle, SkipSingle,
       engineVars, mailboxVars
  <2>2. \A P \in DeliveryLabels : Unseen(P)
    BY <1>1, <2>1, PhaseNames DEF Unseen, DeliveryLabels
  <2> QED
    BY <2>1, <2>2, QuietMove, PhaseNames, LabelNames DEF DeliveryLabels
<1>6. CASE EndSuperstep(t)
  <2>1. /\ Move(t, "finish", "finish_done") /\ UNCHANGED ip_all_spread_vertices
        /\ \/ ~claimed /\ claimed' = TRUE /\ ip_superstep' = ip_superstep + 1
           \/ claimed /\ UNCHANGED <<claimed, ip_superstep>>
    BY <1>6 DEF EndSuperstep, FinishSingle, SkipFinish, EnterSingle, SkipSingle, engineVars, listVars
  <2>2. /\ Inside(FinishLabels) /\ Inside(FinishLabels)'
        /\ \A u \in Threads : pc[u] \in FinishLabels /\ pc'[u] \in FinishLabels
    BY <2>1, MoveTests, PhaseNames, LabelNames DEF TeamInv, Inside
  <2>3. ~AnyAt({"exit"}) /\ ~AnyAt({"exit"})'
    BY <2>2 DEF AnyAt, FinishLabels
  <2>4. StepIn(FinishLabels)' = StepIn(FinishLabels)
    BY <2>1, PhaseNames DEF StepIn, DeliveryLabels
  <2>5. Unseen(FinishLabels)
    BY <1>1, <2>1, PhaseNames DEF Unseen, DeliveryLabels
  <2> QED
    BY <2>2, <2>3, <2>4, <2>5, QuietPhase, PhaseNames
<1> QED
  BY <1>2, <1>3, <1>4, <1>5, <1>6

\* The mailbox of a listed vertex is updated: the vertex can then read what the
\* superstep semantics already gave it.
LEMMA SwapStutters ==
  ASSUME TypeOK, TeamInv, SpreadInv, DeliveryInv, NEW t \in Threads, NEW i \in todo,
         SwapMailbox(t, i)
  PROVE  UNCHANGED Superstep!vars
<1>1. Move(t, "swap", "swap")
  BY DEF SwapMailbox
<1>2. Inside(SwapLabels) /\ Inside(SwapLabels)' /\ pc[t] = "swap"
  BY <1>1, MoveTests, PhaseNames, LabelNames DEF TeamInv
<1>3. PICK v \in Vertices : /\ v = ip_all_spread_vertices[i]
                            /\ i \in DOMAIN ip_all_spread_vertices /\ has_message_next[v]
  BY <1>2, SwapFindsFull
<1>4. /\ has_message' = [has_message EXCEPT ![v] = TRUE]
      /\ message' = [message EXCEPT ![v] = message_next[v]]
      /\ has_message_next' = [has_message_next EXCEPT ![v] = FALSE]
      /\ UNCHANGED <<application, out_neighbours, value, ip_superstep, sent, ran, message_next>>
  BY <1>3 DEF SwapMailbox, jobVars, historyVars
<1>5. /\ has_message \in [Vertices -> BOOLEAN]
      /\ message \in [Vertices -> Messages \cup {None}]
      /\ has_message_next \in [Vertices -> BOOLEAN]
  BY DEF TypeOK, EngineTypeOK, MailboxTypeOK, MailboxShape
<1>6. MapsTo(SwapLabels) /\ MapsTo(SwapLabels)'
  BY <1>2, Mapped, MappedNext, PhaseNames
<1>7. ~AnyAt({"exit"}) /\ ~AnyAt({"exit"})'
  BY <1>6, PhaseNames DEF MapsTo
<1>8. Receives(v)
  <2>1. ListsReceivers
    BY <1>2, DeliveryInPhase, PhaseNames DEF TeamInv, DeliveryStage
  <2> QED
    BY <1>3, <2>1 DEF ListsReceivers, Elements, Receives
<1>9. StepIn(SwapLabels)' = StepIn(SwapLabels)
  BY <1>4, PhaseNames DEF StepIn, DeliveryLabels
<1>10. ASSUME NEW w \in Vertices
       PROVE  /\ ActiveIn(SwapLabels, w)' = ActiveIn(SwapLabels, w)
              /\ InboxIn(SwapLabels, w)' = InboxIn(SwapLabels, w)
  <2>1. Receives(w)' = Receives(w)
    BY <1>4 DEF Receives
  <2>2. /\ ActiveIn(SwapLabels, w) = Receives(w) /\ ActiveIn(SwapLabels, w)' = Receives(w)'
    BY PhaseNames DEF ActiveIn, DeliveryLabels
  <2>3. /\ InboxIn(SwapLabels, w) =
             IF has_message_next[w] THEN message_next[w]
             ELSE IF Receives(w) THEN NextMessage(w) ELSE None
        /\ InboxIn(SwapLabels, w)' =
             IF has_message_next'[w] THEN message_next'[w]
             ELSE IF Receives(w)' THEN NextMessage(w)' ELSE None
    BY <2>2, PhaseNames DEF InboxIn, DeliveryLabels
  <2>4. CASE w = v
    <3>1. NextMessage(v)' = message_next[v] /\ ~has_message_next'[v]
      BY <1>4, <1>5 DEF NextMessage
    <3> QED
      BY <1>3, <1>8, <2>1, <2>2, <2>3, <2>4, <3>1
  <2>5. CASE w # v
    <3>1. /\ NextMessage(w)' = NextMessage(w) /\ has_message_next'[w] = has_message_next[w]
          /\ message_next'[w] = message_next[w]
      BY <1>4, <1>5, <2>5 DEF NextMessage
    <3> QED
      BY <2>1, <2>2, <2>3, <3>1
  <2> QED
    BY <2>4, <2>5
<1> QED
  BY <1>4, <1>6, <1>7, <1>9, <1>10, PhaseStutters, PhaseNames DEF jobVars

\* The barriers that the superstep semantics does not see: the ways to tell which
\* vertices are to run agree where one takes over from the other.
LEMMA QuietBarriers ==
  ASSUME TypeOK, TeamInv, SpreadInv, DeliveryInv,
         EnterLoop \/ BeginCompute \/ EndCount \/ BeginSwap \/ BeginFinish \/ NextIteration
  PROVE  UNCHANGED Superstep!vars
<1>1. /\ UNCHANGED <<jobVars, boxVars, value, ip_superstep, ip_all_spread_vertices>>
      /\ UNCHANGED <<out_neighbours, has_message, message, has_message_next, message_next>>
      /\ BeginCompute \/ UNCHANGED <<sent, ran>>
  BY DEF EnterLoop, BeginCompute, EndCount, BeginSwap, BeginFinish, NextIteration, engineVars,
     historyVars, listVars, mailboxVars, jobVars, boxVars
<1>2. UNCHANGED ToRun
  BY <1>1 DEF ToRun
<1>3. \A v \in Vertices : /\ NextMessage(v)' = NextMessage(v)
                          /\ InList(v)' = InList(v) /\ InToRun(v)' = InToRun(v)
  BY <1>1, <1>2 DEF NextMessage, InList, InToRun
<1>4. UNCHANGED <<sent>> => \A v \in Vertices : Receives(v)' = Receives(v)
  BY <1>1 DEF Receives
<1>5. CASE EnterLoop
  <2>1. Barrier("entered", "start", {}) /\ UNCHANGED <<sent, ran>>
    BY <1>5 DEF EnterLoop, engineVars, historyVars
  <2>2. /\ Inside(HeadLabels) /\ Inside(StartLabels)'
        /\ \A u \in Threads : pc[u] = "entered" /\ pc'[u] = "start"
    BY <2>1, BeforeBarrier, BehindBarrier DEF Barrier, AllAt
  <2>3. MapsTo(HeadLabels) /\ MapsTo(StartLabels)'
    BY <2>2, Mapped, MappedNext, PhaseNames
  <2>4. ~AnyAt({"exit"}) /\ ~AnyAt({"exit"})'
    BY <2>2 DEF AnyAt
  <2>5. StepIn(StartLabels)' = StepIn(HeadLabels)
    BY <1>1, PhaseNames DEF StepIn, DeliveryLabels
  <2>6. \A v \in Vertices : /\ ActiveIn(StartLabels, v)' = ActiveIn(HeadLabels, v)
                            /\ InboxIn(StartLabels, v)' = InboxIn(HeadLabels, v)
    BY <1>3, PhaseNames DEF ActiveIn, InboxIn, DeliveryLabels
  <2> QED
    BY <1>1, <2>3, <2>4, <2>5, <2>6, PhaseStutters, PhaseNames
<1>6. CASE BeginCompute
  <2>1. /\ Barrier("start_done", "compute", DOMAIN ToRun)
        /\ sent' = Nothing /\ ran' = {}
    BY <1>6 DEF BeginCompute, NewHistory
  <2>2. /\ Inside(StartLabels) /\ Inside(ComputeLabels)'
        /\ \A u \in Threads : pc[u] = "start_done" /\ pc'[u] = "compute"
    BY <2>1, BeforeBarrier, BehindBarrier DEF Barrier, AllAt
  <2>3. MapsTo(StartLabels) /\ MapsTo(ComputeLabels)'
    BY <2>2, Mapped, MappedNext, PhaseNames
  <2>4. ~AnyAt({"exit"}) /\ ~AnyAt({"exit"})'
    BY <2>2 DEF AnyAt
  <2>5. StepIn(ComputeLabels)' = StepIn(StartLabels)
    BY <1>1, PhaseNames DEF StepIn, DeliveryLabels
  <2>6. \A v \in Vertices : HasTurn(v)' = InToRun(v)
    BY <1>2, <2>1 DEF Barrier, HasTurn, InToRun
  <2>7. \A v \in Vertices : /\ ActiveIn(ComputeLabels, v)' = ActiveIn(StartLabels, v)
                            /\ InboxIn(ComputeLabels, v)' = InboxIn(StartLabels, v)
    BY <1>3, <2>1, <2>6, PhaseNames DEF ActiveIn, InboxIn, DeliveryLabels
  <2> QED
    BY <1>1, <2>1, <2>3, <2>4, <2>5, <2>7, PhaseStutters, PhaseNames
<1>7. CASE EndCount \/ BeginSwap
  <2>1. PICK P \in DeliveryLabels, Q \in DeliveryLabels :
          /\ Inside(P) /\ Inside(Q)' /\ UNCHANGED <<sent, ran>>
          /\ ~AnyAt({"exit"}) /\ ~AnyAt({"exit"})'
    <3>1. CASE EndCount
      <4>1. Barrier("counted", "merge", {}) /\ UNCHANGED <<sent, ran>>
        BY <3>1 DEF EndCount, engineVars, historyVars
      <4>2. Inside(CountLabels) /\ Inside(MergeLabels)'
        BY <4>1, BeforeBarrier, BehindBarrier DEF Barrier
      <4>3. ~AnyAt({"exit"}) /\ ~AnyAt({"exit"})'
        BY <4>1 DEF Barrier, AllAt, AnyAt
      <4> QED
        BY <4>1, <4>2, <4>3 DEF DeliveryLabels
    <3>2. CASE BeginSwap
      <4>1. Barrier("merge_done", "swap", DOMAIN ip_all_spread_vertices) /\ UNCHANGED <<sent, ran>>
        BY <3>2 DEF BeginSwap, engineVars, historyVars
      <4>2. Inside(MergeLabels) /\ Inside(SwapLabels)'
        BY <4>1, BeforeBarrier, BehindBarrier DEF Barrier
      <4>3. ~AnyAt({"exit"}) /\ ~AnyAt({"exit"})'
        BY <4>1 DEF Barrier, AllAt, AnyAt
      <4> QED
        BY <4>1, <4>2, <4>3 DEF DeliveryLabels
    <3> QED
      BY <1>7, <3>1, <3>2
  <2>2. /\ P \in Phases /\ Q \in Phases /\ P # ComputeLabels /\ Q # ComputeLabels
        /\ P # FinishLabels /\ Q # FinishLabels
    BY PhaseNames DEF DeliveryLabels
  <2>3. MapsTo(P) /\ MapsTo(Q)'
    BY <2>1, <2>2, Mapped, MappedNext
  <2>4. StepIn(Q)' = StepIn(P)
    BY <1>1 DEF StepIn
  <2>5. ASSUME NEW v \in Vertices
        PROVE  /\ ActiveIn(Q, v)' = ActiveIn(P, v)
               /\ InboxIn(Q, v)' = InboxIn(P, v)
    <3>1. Receives(v)' = Receives(v) /\ NextMessage(v)' = NextMessage(v)
      BY <1>3, <1>4, <2>1
    <3>2. ActiveIn(Q, v)' = Receives(v)' /\ ActiveIn(P, v) = Receives(v)
      BY <2>2 DEF ActiveIn
    <3> QED
      BY <1>1, <2>2, <3>1, <3>2 DEF InboxIn
  <2> QED
    BY <1>1, <2>1, <2>2, <2>3, <2>4, <2>5, PhaseStutters
<1>8. CASE BeginFinish
  <2>1. Barrier("swap_done", "finish", {}) /\ UNCHANGED <<sent, ran>>
    BY <1>8 DEF BeginFinish, engineVars, historyVars
  <2>2. /\ Inside(SwapLabels) /\ Inside(FinishLabels)'
        /\ (\A u \in Threads : pc[u] = "swap_done" /\ pc'[u] = "finish") /\ ~claimed'
    BY <2>1, BeforeBarrier, BehindBarrier DEF Barrier, AllAt
  <2>3. MapsTo(SwapLabels) /\ MapsTo(FinishLabels)'
    BY <2>2, Mapped, MappedNext, PhaseNames
  <2>4. ~AnyAt({"exit"}) /\ ~AnyAt({"exit"})'
    BY <2>2 DEF AnyAt
  <2>5. StepIn(FinishLabels)' = StepIn(SwapLabels)
    BY <1>1, <2>2, PhaseNames DEF StepIn, DeliveryLabels
  <2>6. \A v \in Vertices : InList(v) = Receives(v)
    <3>1. ListsReceivers
      BY <2>2, DeliveryInPhase, PhaseNames DEF TeamInv, DeliveryStage
    <3> QED
      BY <3>1 DEF ListsReceivers, Elements, InList, Receives
  <2>7. \A v \in Vertices : ~has_message_next[v]
    <3>1. FullStage(SwapLabels)
      BY <2>2, FullInPhase, PhaseNames DEF TeamInv, SpreadInv, FullInv
    <3>2. todo = {}
      BY <2>2, OutsideLoops DEF TeamInv
    <3> QED
      BY <3>1, <3>2, PhaseNames DEF FullStage
  <2>8. \A v \in Vertices : /\ ActiveIn(FinishLabels, v)' = ActiveIn(SwapLabels, v)
                            /\ InboxIn(FinishLabels, v)' = InboxIn(SwapLabels, v)
    BY <1>3, <2>6, <2>7, PhaseNames DEF ActiveIn, InboxIn, DeliveryLabels
  <2> QED
    BY <1>1, <2>1, <2>3, <2>4, <2>5, <2>8, PhaseStutters, PhaseNames
<1>9. CASE NextIteration
  <2>1. Barrier("finish_done", "while", {}) /\ UNCHANGED <<sent, ran>>
    BY <1>9 DEF NextIteration, engineVars, historyVars
  <2>2. /\ Inside(FinishLabels) /\ Inside(HeadLabels)'
        /\ \A u \in Threads : pc[u] = "finish_done" /\ pc'[u] = "while"
    BY <2>1, BeforeBarrier, BehindBarrier DEF Barrier, AllAt
  <2>3. MapsTo(FinishLabels) /\ MapsTo(HeadLabels)'
    BY <2>2, Mapped, MappedNext, PhaseNames
  <2>4. ~AnyAt({"exit"}) /\ ~AnyAt({"exit"})'
    BY <2>2 DEF AnyAt
  <2>5. claimed
    BY <2>2, ThreadsAssumption DEF TeamInv, SingleEntered, AnyAt
  <2>6. StepIn(HeadLabels)' = StepIn(FinishLabels)
    BY <1>1, <2>5, PhaseNames DEF StepIn, DeliveryLabels
  <2>7. \A v \in Vertices : InToRun(v) = InList(v)
    <3>1. ip_superstep # 0
      BY <2>2, <2>5, DeliveryInPhase, PhaseNames DEF TeamInv, DeliveryStage
    <3>2. ToRun = ip_all_spread_vertices
      BY <3>1 DEF ToRun
    <3> QED
      BY <3>2 DEF InToRun, InList
  <2>8. \A v \in Vertices : /\ ActiveIn(HeadLabels, v)' = ActiveIn(FinishLabels, v)
                            /\ InboxIn(HeadLabels, v)' = InboxIn(FinishLabels, v)
    BY <1>3, <2>7, PhaseNames DEF ActiveIn, InboxIn, DeliveryLabels
  <2> QED
    BY <1>1, <2>1, <2>3, <2>4, <2>6, <2>8, PhaseStutters, PhaseNames
<1> QED
  BY <1>5, <1>6, <1>7, <1>8, <1>9

\* The first thread that leaves the loop returns: no vertex is listed.
LEMMA WhileReturns ==
  ASSUME TypeOK, TeamInv, SpreadInv, NEW t \in Threads, While(t)
  PROVE  Superstep!Return \/ UNCHANGED Superstep!vars
<1>1. PICK to \in {"entered", "exit"} :
        /\ Move(t, "while", to)
        /\ to = "exit" => ip_superstep # 0 /\ ~(ip_active_vertices > 0)
  BY DEF While
<1>2. UNCHANGED <<jobVars, boxVars, value, ip_superstep, sent, ran, ip_all_spread_vertices>>
  BY DEF While, engineVars, historyVars, listVars
<1>3. /\ Inside(HeadLabels) /\ Inside(HeadLabels)' /\ pc[t] = "while" /\ pc'[t] = to
      /\ \A u \in Threads \ {t} : pc'[u] = pc[u]
  BY <1>1, MoveTests, PhaseNames, LabelNames DEF TeamInv
<1>4. MapsTo(HeadLabels) /\ MapsTo(HeadLabels)'
  BY <1>3, Mapped, MappedNext, PhaseNames
<1>5. StepIn(HeadLabels)' = StepIn(HeadLabels)
  BY <1>2, PhaseNames DEF StepIn, DeliveryLabels
<1>6. CASE AnyAt({"exit"})' <=> AnyAt({"exit"})
  <2>1. Unseen(HeadLabels)
    BY <1>2, PhaseNames DEF Unseen, DeliveryLabels
  <2> QED
    BY <1>3, <1>5, <1>6, <2>1, QuietPhase, PhaseNames
<1>7. CASE ~(AnyAt({"exit"})' <=> AnyAt({"exit"}))
  <2>1. to = "exit" /\ ~AnyAt({"exit"}) /\ AnyAt({"exit"})'
    BY <1>3, <1>7 DEF AnyAt
  <2>2. \A v \in Vertices : ~InToRun(v)
    <3>1. CountStage(HeadLabels)
      BY <1>3, CountInPhase, PhaseNames DEF SpreadInv
    <3>2. /\ ip_superstep # 0 /\ ip_active_vertices = Len(ip_all_spread_vertices)
          /\ ~(ip_active_vertices > 0)
      BY <1>1, <2>1, <3>1 DEF CountStage
    <3>3. ToRun = ip_all_spread_vertices /\ ip_all_spread_vertices \in Seq(Vertices)
      BY <3>2 DEF ToRun, TypeOK
    <3>4. DOMAIN ToRun = {}
      BY <3>2, <3>3
    <3> QED
      BY <3>4 DEF InToRun
  <2>3. \A v \in Vertices : ~ActiveIn(HeadLabels, v)
    BY <2>2, PhaseNames DEF ActiveIn, DeliveryLabels
  <2>4. absRan = {} /\ \A v \in Vertices : ~absActive[v]
    BY <1>4, <2>3, PhaseNames DEF MapsTo
  <2>5. ~Superstep!InSuperstep
    BY <2>4 DEF Superstep!InSuperstep, absRan, absActive
  <2>6. \A v \in Vertices : /\ ActiveIn(HeadLabels, v)' = ActiveIn(HeadLabels, v)
                            /\ InboxIn(HeadLabels, v)' = InboxIn(HeadLabels, v)
    <3>1. UNCHANGED ToRun
      BY <1>2 DEF ToRun
    <3>2. \A v \in Vertices : InToRun(v)' = InToRun(v) /\ NextMessage(v)' = NextMessage(v)
      BY <1>2, <3>1 DEF InToRun, NextMessage, boxVars
    <3> QED
      BY <3>2, PhaseNames DEF ActiveIn, InboxIn, DeliveryLabels
  <2>7. /\ absSuperstep' = absSuperstep /\ absSent' = absSent /\ absRan' = absRan
    BY <1>4, <1>5, PhaseNames DEF MapsTo, Nothing
  <2>8. /\ absActive = [v \in Vertices |-> ActiveIn(HeadLabels, v)]
        /\ absActive' = [v \in Vertices |-> ActiveIn(HeadLabels, v)']
        /\ absInbox = [v \in Vertices |-> InboxIn(HeadLabels, v)]
        /\ absInbox' = [v \in Vertices |-> InboxIn(HeadLabels, v)']
    BY <1>4, Zenon DEF MapsTo
  <2>9. absActive' = absActive /\ absInbox' = absInbox
    BY <2>6, <2>8, Zenon
  <2>10. AnyAt({"exit"})' = TRUE /\ AnyAt({"exit"}) = FALSE
    BY <2>1 DEF AnyAt
  <2> QED
    BY <1>2, <2>5, <2>7, <2>9, <2>10
       DEF Superstep!Return, jobVars, absSuperstep, absActive, absInbox, absSent, absRan
<1> QED
  BY <1>6, <1>7

\* The run of a listed vertex is one step of the superstep semantics.
LEMMA ComputeComputes ==
  ASSUME ProgramTyped, TypeOK, MailboxInv, TeamInv, DeliveryInv, SendsInLoop', NEW t \in Threads,
         NEW i \in todo, ComputeVertex(t, i)
  PROVE  \E v \in Vertices : Superstep!Compute(v)
<1>0. PICK v \in Vertices : v = ToRun[i] /\ v \notin ran /\ i \in DOMAIN ToRun
  BY SpreadDeliveryCompute
<1>1. /\ Move(t, "compute", "send") /\ todo' = todo \ {i}
      /\ UNCHANGED <<ip_superstep, ip_all_spread_vertices>>
  BY DEF ComputeVertex, TakeIteration, listVars, RunVertex
<1>2. Inside(ComputeLabels) /\ Inside(ComputeLabels)'
  BY <1>1, MoveTests, PhaseNames, LabelNames DEF TeamInv
<1>3. MapsTo(ComputeLabels) /\ MapsTo(ComputeLabels)'
  BY <1>2, Mapped, MappedNext, PhaseNames
<1>4. todo \subseteq DOMAIN ToRun /\ Once(ToRun) /\ UNCHANGED ToRun
  BY <1>1, <1>2, Positions DEF TeamInv, Inside, IterationsLeft, ToRun
<1>5. PICK outcome \in Outcomes(v) : RunVertex(v, outcome)
  BY <1>0 DEF ComputeVertex
<1>6. /\ value' = [value EXCEPT ![v] = outcome.value]
      /\ has_message' = [has_message EXCEPT ![v] = @ /\ ~outcome.reads]
      /\ sent' = [sent EXCEPT ![v] = outcome.message]
      /\ ran' = ran \cup {v}
      /\ UNCHANGED <<application, out_neighbours, message>>
  BY <1>5 DEF RunVertex, jobVars
<1>7. /\ HasTurn(v) /\ ~HasTurn(v)'
      /\ \A w \in Vertices \ {v} : HasTurn(w)' <=> HasTurn(w)
  BY <1>0, <1>1, <1>4 DEF HasTurn, Once
<1>8. has_message \in [Vertices -> BOOLEAN] /\ outcome.reads \in BOOLEAN
  BY <1>5, OutcomeTyped DEF TypeOK, EngineTypeOK
<1>9. /\ \A w \in Vertices : InboxIn(ComputeLabels, w) =
           IF HasTurn(w) \/ w \in ran THEN NextMessage(w) ELSE None
      /\ \A w \in Vertices : InboxIn(ComputeLabels, w)' =
           IF HasTurn(w)' \/ w \in ran' THEN NextMessage(w)' ELSE None
  BY PhaseNames DEF InboxIn, ActiveIn, DeliveryLabels
<1>10. /\ absInbox[v] = NextMessage(v)
       /\ absInbox' = [absInbox EXCEPT ![v] = IF outcome.reads THEN None ELSE @]
  <2>1. \A w \in Vertices \ {v} : NextMessage(w)' = NextMessage(w)
    BY <1>6, <1>8 DEF NextMessage
  <2>2. NextMessage(v)' = IF outcome.reads THEN None ELSE NextMessage(v)
    <3>1. has_message'[v] <=> has_message[v] /\ ~outcome.reads
      BY <1>6, <1>8
    <3> QED
      BY <1>6, <1>8, <3>1 DEF NextMessage
  <2>3. \A w \in Vertices \ {v} : InboxIn(ComputeLabels, w)' = InboxIn(ComputeLabels, w)
    BY <1>6, <1>7, <1>9, <2>1
  <2>4. /\ InboxIn(ComputeLabels, v) = NextMessage(v)
        /\ InboxIn(ComputeLabels, v)' = NextMessage(v)'
    BY <1>6, <1>7, <1>9
  <2>5. /\ absInbox = [w \in Vertices |-> InboxIn(ComputeLabels, w)]
        /\ absInbox' = [w \in Vertices |-> InboxIn(ComputeLabels, w)']
    BY <1>3, Zenon DEF MapsTo
  <2>6. absInbox[v] = NextMessage(v)
    BY <2>4, <2>5
  <2>7. \A w \in Vertices : absInbox'[w] =
          IF w = v THEN IF outcome.reads THEN None ELSE NextMessage(v) ELSE absInbox[w]
    BY <2>2, <2>3, <2>4, <2>5
  <2> QED
    BY <2>5, <2>6, <2>7
<1>11. absActive[v] /\ absActive' = [absActive EXCEPT ![v] = FALSE /\ ~outcome.halts]
  <2>1. /\ absActive = [w \in Vertices |-> ActiveIn(ComputeLabels, w)]
        /\ absActive' = [w \in Vertices |-> ActiveIn(ComputeLabels, w)']
    BY <1>3, Zenon DEF MapsTo
  <2>2. \A w \in Vertices \ {v} : ActiveIn(ComputeLabels, w)' = ActiveIn(ComputeLabels, w)
    BY <1>7 DEF ActiveIn, HasTurn
  <2>3. ActiveIn(ComputeLabels, v) = TRUE /\ ActiveIn(ComputeLabels, v)' = FALSE
    BY <1>7 DEF ActiveIn, HasTurn
  <2> QED
    BY <2>1, <2>2, <2>3
<1>12. /\ absSuperstep = ip_superstep /\ absSuperstep' = ip_superstep' /\ absSent = sent
       /\ absSent' = sent' /\ absRan = ran /\ absRan' = ran'
  BY <1>3, PhaseNames DEF MapsTo, StepIn, DeliveryLabels
<1>13. ~AnyAt({"exit"}) /\ ~AnyAt({"exit"})'
  BY <1>3, PhaseNames DEF MapsTo
<1>14. Superstep!InSuperstep /\ Superstep!Runnable(v)
  BY <1>11, <1>13 DEF Superstep!InSuperstep, Superstep!Runnable, absActive
<1>15. outcome \in Program(application, absSuperstep, v, value[v], absInbox[v], Len(out_neighbours[v]))
  BY <1>5, <1>10, <1>12 DEF Outcomes
<1>16. AnyAt({"exit"})' = AnyAt({"exit"})
  BY <1>13 DEF AnyAt
<1>17. Superstep!Compute(v)
  BY <1>0, <1>1, <1>6, <1>10, <1>11, <1>12, <1>14, <1>15, <1>16
     DEF Superstep!Compute, absSuperstep, absActive, absInbox, absSent, absRan
<1> QED
  BY <1>17

\* The barrier behind the compute loop is where the next superstep begins: the vertices
\* of the list have run, and what was broadcast is in the mailboxes.
LEMMA CountNextSuperstep ==
  ASSUME OrderFree, TypeOK, MailboxInv, TeamInv, DeliveryInv, EndCompute
  PROVE  Superstep!NextSuperstep
<1>1. /\ Barrier("compute_done", "count", {})
      /\ UNCHANGED <<application, out_neighbours, value, ip_superstep, has_message, message,
                     has_message_next, message_next, sent, ran>>
  BY DEF EndCompute, engineVars, jobVars, boxVars, historyVars, mailboxVars
<1>2. /\ Inside(ComputeLabels) /\ Inside(CountLabels)'
      /\ \A u \in Threads : pc[u] = "compute_done" /\ pc'[u] = "count"
  BY <1>1, BeforeBarrier, BehindBarrier DEF Barrier, AllAt
<1>3. MapsTo(ComputeLabels) /\ MapsTo(CountLabels)'
  BY <1>2, Mapped, MappedNext, PhaseNames
<1>4. AnyAt({"exit"}) = FALSE /\ AnyAt({"exit"})' = FALSE
  BY <1>2 DEF AnyAt
<1>5. todo = {}
  BY <1>2, OutsideLoops DEF TeamInv
<1>6. ran # {}
  <2>1. RunsOnce /\ ToRun # << >>
    BY <1>2, DeliveryInPhase, PhaseNames DEF TeamInv, DeliveryStage
  <2>2. Elements(ToRun) # {}
    BY <2>1, ToRunEmpty
  <2> QED
    BY <1>2, <1>5, <2>1, <2>2, PhaseNames DEF RunsOnce, Left, Inside
<1>7. /\ absSuperstep = ip_superstep /\ absSuperstep' = ip_superstep + 1 /\ absSent = sent
      /\ absSent' = Nothing /\ absRan = ran /\ absRan' = {}
  <2>1. StepIn(ComputeLabels) = ip_superstep /\ StepIn(CountLabels)' = ip_superstep + 1
    BY <1>1, PhaseNames DEF StepIn, DeliveryLabels
  <2> QED
    BY <1>3, <2>1, PhaseNames DEF MapsTo, Nothing
<1>8. \A v \in Vertices : absActive[v] = FALSE
  BY <1>3, <1>5 DEF MapsTo, ActiveIn, HasTurn
<1>9. \A v \in Vertices : ~Superstep!Runnable(v)
  BY <1>8 DEF Superstep!Runnable, absActive
<1>10. \A v \in Vertices : Receives(v)' = Receives(v)
  BY <1>1 DEF Receives
<1>11. absInbox' = [v \in Vertices |->
         LET new == Superstep!Received(out_neighbours, absSent, v)
         IN  IF new = None /\ FALSE THEN absInbox[v] ELSE new]
  <2>1. \A v \in Vertices : Arrived(v) = Received(out_neighbours, sent, v)
    <3>1. AllAt("compute_done")
      BY <1>1 DEF Barrier
    <3> QED
      BY <3>1, SpreadBroadcasts, LoopDelivered DEF DeliveryInv, BroadcastDelivered
  <2>2. ASSUME NEW v \in Vertices
        PROVE  InboxIn(CountLabels, v)' = Received(out_neighbours, sent, v)
    <3>1. ActiveIn(CountLabels, v)' = Receives(v)'
      BY PhaseNames DEF ActiveIn, DeliveryLabels
    <3>2. InboxIn(CountLabels, v)' =
            IF has_message_next'[v] THEN message_next'[v]
            ELSE IF Receives(v)' THEN NextMessage(v)' ELSE None
      BY <3>1, PhaseNames DEF InboxIn, DeliveryLabels
    <3> QED
      BY <1>1, <1>10, <2>1, <3>2 DEF Arrived, Receives
  <2>3. absInbox' = [v \in Vertices |-> InboxIn(CountLabels, v)']
    BY <1>3, Zenon DEF MapsTo
  <2>4. absInbox' = [v \in Vertices |-> Received(out_neighbours, sent, v)]
    BY <2>2, <2>3, Zenon
  <2>5. \A v \in Vertices : Received(out_neighbours, sent, v) =
          LET new == Superstep!Received(out_neighbours, absSent, v)
          IN  IF new = None /\ FALSE THEN absInbox[v] ELSE new
    BY <1>7, SuperstepReceived
  <2> QED
    BY <2>4, <2>5, Zenon
<1>12. absActive' = [v \in Vertices |->
         absActive[v] \/ Superstep!Received(out_neighbours, absSent, v) # None]
  <2>1. absActive' = [v \in Vertices |-> ActiveIn(CountLabels, v)']
    BY <1>3, Zenon DEF MapsTo
  <2>2. ASSUME NEW v \in Vertices
        PROVE  ActiveIn(CountLabels, v)' =
                 (absActive[v] \/ Superstep!Received(out_neighbours, absSent, v) # None)
    <3>1. ActiveIn(CountLabels, v)' = Receives(v)'
      BY PhaseNames DEF ActiveIn, DeliveryLabels
    <3>2. Receives(v) = (Superstep!Received(out_neighbours, absSent, v) # None)
      BY <1>7, SuperstepReceived DEF Receives
    <3> QED
      BY <1>8, <1>10, <3>1, <3>2
  <2> QED
    BY <2>1, <2>2, Zenon
<1> QED
  BY <1>1, <1>4, <1>6, <1>7, <1>9, <1>11, <1>12
     DEF Superstep!NextSuperstep, absSuperstep, absActive, absInbox, absSent, absRan, Nothing

\* A run starts where the superstep semantics starts.
LEMMA SuperstepInit == Init => Superstep!Init
<1> SUFFICES ASSUME Init PROVE Superstep!Init
  OBVIOUS
<1>1. \A u \in Threads : pc[u] = "while"
  BY DEF Init, TeamInit
<1>2. /\ ~Delivering /\ ~Finishing /\ ~Computing /\ AnyAt({"exit"}) = FALSE
  BY <1>1, ThreadsAssumption DEF Delivering, Finishing, Computing, AnyAt, AllAt
<1>3. ASSUME NEW v \in Vertices PROVE Waiting(v) = TRUE /\ Unread(v) = None
  <2>1. \E i \in DOMAIN ToRun : ToRun[i] = v
    <3>1. ToRun = Enumeration(Vertices)
      BY DEF Init, EngineInit, ToRun
    <3> QED
      BY <3>1, EnumerationLists
  <2>2. NextMessage(v) = None
    BY DEF Init, EngineInit, NextMessage
  <2> QED
    BY <1>2, <2>1, <2>2 DEF Waiting, Unread
<1>4. /\ absSuperstep = 0 /\ absSent = Nothing /\ absRan = {}
      /\ absActive = [v \in Vertices |-> TRUE] /\ absInbox = Nothing
  BY <1>2, <1>3 DEF Init, EngineInit, absSuperstep, absSent, absRan, absActive, absInbox, Nothing
<1>5. /\ \E job \in Jobs : application = job[1] /\ out_neighbours = job[2]
      /\ value = Nothing
  BY DEF Init, EngineInit
<1> QED
  BY <1>2, <1>4, <1>5
     DEF Superstep!Init, absSuperstep, absActive, absInbox, absSent, absRan, Nothing

\* Every step of ip_run is a step of the superstep semantics, or none.
LEMMA SuperstepStep ==
  ASSUME ProgramTyped, OrderFree, TypeOK, MailboxInv, TeamInv, SpreadInv, DeliveryInv, [Next]_vars
  PROVE  [Superstep!Next]_(Superstep!vars)
<1>0. SendsInLoop'
  BY SendsNext
<1>1. ASSUME NEW t \in Threads, ThreadStep(t) PROVE [Superstep!Next]_(Superstep!vars)
  <2>1. CASE While(t)
    BY <2>1, WhileReturns DEF Superstep!Next
  <2>2. CASE \/ StartSingle(t) \/ SkipStart(t)
             \/ BroadcastNext(t) \/ BroadcastStep(t) \/ BroadcastDone(t) \/ LeaveCompute(t)
             \/ Count(t) \/ MergeSingle(t) \/ SkipMerge(t) \/ LeaveSwap(t) \/ EndSuperstep(t)
    BY <2>2, QuietSteps
  <2>3. ASSUME NEW i \in todo, ComputeVertex(t, i) PROVE Superstep!Next
    BY <1>0, <2>3, ComputeComputes DEF Superstep!Next
  <2>4. ASSUME NEW i \in todo, SwapMailbox(t, i) PROVE UNCHANGED Superstep!vars
    BY <2>4, SwapStutters
  <2> QED
    BY <1>1, <2>1, <2>2, <2>3, <2>4 DEF ThreadStep
<1>2. CASE BarrierStep
  BY <1>0, <1>2, QuietBarriers, CountNextSuperstep DEF BarrierStep, Superstep!Next
<1>3. CASE UNCHANGED vars
  <2>1. UNCHANGED <<pc, claimed, todo, jobVars, out_neighbours, value, ip_superstep, sent, ran,
                    has_message, message, has_message_next, message_next, ip_all_spread_vertices>>
    BY <1>3 DEF vars, teamVars, engineVars, jobVars, boxVars, historyVars, mailboxVars, listVars
  <2>2. /\ (Delivering' <=> Delivering) /\ (Computing' <=> Computing)
        /\ (Finishing' <=> Finishing) /\ (AnyAt({"exit"})' <=> AnyAt({"exit"})) /\ UNCHANGED ToRun
    BY <2>1 DEF Delivering, Computing, Finishing, AnyAt, AllAt, ToRun
  <2>3. absSuperstep' = absSuperstep /\ absSent' = absSent /\ absRan' = absRan
    BY <2>1, <2>2 DEF absSuperstep, absSent, absRan, Nothing
  <2>4. \A v \in Vertices : Waiting(v)' = Waiting(v)
    BY <2>1, <2>2 DEF Waiting
  <2>5. \A v \in Vertices : Unread(v)' = Unread(v)
    BY <2>1, <2>2, <2>4 DEF Unread, NextMessage
  <2>6. absActive' = absActive /\ absInbox' = absInbox
    BY <2>1, <2>2, <2>4, <2>5 DEF absActive, absInbox
  <2> QED
    BY <2>1, <2>2, <2>3, <2>6, SuperstepKept
<1> QED
  BY <1>1, <1>2, <1>3 DEF Next

\* ip_run of the push version with a list of the vertices to run computes what the
\* superstep semantics says, for every team of threads, every graph and every
\* ip_compute that keeps to its types and combines in an order-free way: the locks and
\* the compare-and-swap lose no message, the merged lists run every receiver once, and
\* the mailbox update hands over exactly what was broadcast.
THEOREM CombinerSpreadImplementsBSP ==
  ASSUME ProgramTyped, OrderFree, IntegralMessages
  PROVE  Spec => ImplementsBSP
<1>1. Init => Superstep!Init
  BY SuperstepInit
<1>2. TypeOK /\ MailboxInv /\ TeamInv /\ SpreadInv /\ DeliveryInv /\ [Next]_vars =>
        [Superstep!Next]_(Superstep!vars)
  BY SuperstepStep
<1>3. Spec => [](TypeOK /\ MailboxInv /\ TeamInv /\ SpreadInv /\ DeliveryInv)
  BY SpreadDeliveryInvariant
<1> QED
  BY <1>1, <1>2, <1>3, PTL DEF Spec, ImplementsBSP, Superstep!Spec

------------------------------------------------------------------------------
(* What cc.c and sssp.c compute with this version.                         *)

\* The proofs about the superstep semantics, for what this version implements.
Answers == INSTANCE Apps_proofs WITH
  KeepsUnread <- FALSE,
  VotesCount <- FALSE,
  superstep <- IF Delivering \/ (Finishing /\ ~claimed) THEN ip_superstep + 1
               ELSE ip_superstep,
  active <- [v \in Vertices |-> Waiting(v)],
  inbox <- [v \in Vertices |->
    IF Delivering /\ has_message_next[v] THEN message_next[v] ELSE Unread(v)],
  sent <- IF Computing THEN sent ELSE Nothing,
  ran <- IF Computing THEN ran ELSE {},
  returned <- AnyAt({"exit"})

\* The notions of those proofs are the ones of this module.
LEMMA SameNotions ==
  /\ \A out, u, d : Answers!Leads(out, u, d) = Leads(out, u, d)
  /\ \A out, s, d : Answers!Received(out, s, d) = Received(out, s, d)
  /\ \A out, v : Answers!ComponentLabel(out, v) = ComponentLabel(out, v)
  /\ \A out, v : Answers!Distance(out, v) = Distance(out, v)
  /\ Answers!N = N
<1>1. \A out, u, d : Answers!Leads(out, u, d) = Leads(out, u, d)
  BY Zenon DEF Leads, Answers!Leads
<1>2. \A s, E : Answers!CombinedOver(s, E) = CombinedOver(s, E)
  BY Zenon DEF Answers!CombinedOver, CombinedOver, Answers!MapThenFoldSet, MapThenFoldSet,
               Answers!Merge, Merge
<1>3. \A out, s, d : Answers!Received(out, s, d) = Received(out, s, d)
  BY <1>2, Zenon DEF Answers!EdgesInto, EdgesInto, Answers!Received, Received
<1>4. Answers!N = N
  BY Zenon DEF Answers!N, N, Answers!Cardinality, Cardinality
<1>5. \A out, v : Answers!Within(out, v) = Within(out, v)
  BY Zenon DEF Answers!Within, Within
<1>6. \A out, v : Answers!ComponentLabel(out, v) = ComponentLabel(out, v)
  BY <1>4, <1>5, Zenon DEF Answers!ComponentLabel, ComponentLabel
<1>7. \A out, v : Answers!Distance(out, v) = Distance(out, v)
  <2>1. ASSUME NEW out, NEW u, NEW v
        PROVE  Answers!DistanceFrom(out, u, v) = DistanceFrom(out, u, v)
    <3>1. Answers!Within(out, u) = Within(out, u)
      BY <1>5
    <3> QED
      BY <1>4, <3>1 DEF Answers!DistanceFrom, DistanceFrom
  <2> QED
    BY <2>1, Zenon DEF Answers!Distance, Distance
<1> QED
  BY <1>1, <1>3, <1>4, <1>6, <1>7

\* So is what they suppose.
LEMMA SameSuppositions ==
  /\ RunsCC => Answers!RunsCC
  /\ RunsSSSP => Answers!RunsSSSP
  /\ CombinesLeast => Answers!ReceivesLeast
<1>1. \A a, b : Answers!MinCombine(a, b) = MinCombine(a, b)
  BY Zenon DEF Answers!MinCombine, MinCombine
<1>2. CombinesLeast => Answers!CombinesLeast
  BY <1>1, Zenon DEF Answers!CombinesLeast, CombinesLeast
<1>3. ASSUME NEW s, NEW v, NEW x, NEW in, NEW degree
      PROVE  Answers!CCCompute(s, v, x, in, degree) = CCCompute(s, v, x, in, degree)
  BY Zenon DEF Answers!CCCompute, CCCompute, Answers!Result, Result, Answers!Improved, Improved
<1>4. ASSUME NEW s, NEW v, NEW x, NEW in, NEW degree
      PROVE  Answers!SSSPCompute(s, v, x, in, degree) = SSSPCompute(s, v, x, in, degree)
  BY Zenon DEF Answers!SSSPCompute, SSSPCompute, Answers!Result, Result,
               Answers!Improved, Improved
<1>5. Is("cc", CCCompute) => Answers!Is("cc", Answers!CCCompute)
  BY <1>3, Zenon DEF Is, Answers!Is
<1>6. Is("sssp", SSSPCompute) => Answers!Is("sssp", Answers!SSSPCompute)
  BY <1>4, Zenon DEF Is, Answers!Is
<1>7. \A out : Undirected(out) => Answers!Undirected(out)
  BY SameNotions, Zenon DEF Undirected, Answers!Undirected
<1>8. RunsCC => Answers!RunsCC
  BY <1>2, <1>5, <1>7, Zenon DEF RunsCC, Answers!RunsCC
<1>9. RunsSSSP => Answers!RunsSSSP
  BY <1>2, <1>6, SameNotions, Zenon DEF RunsSSSP, Answers!RunsSSSP
<1>10. CombinesLeast => Answers!ReceivesLeast
  <2> SUFFICES ASSUME CombinesLeast, NEW out \in [Vertices -> Seq(Vertices)],
                      NEW s \in [Vertices -> Messages \cup {None}], NEW d \in Vertices
               PROVE  LET in == Answers!Received(out, s, d)
                      IN  /\ in \in Messages \cup {None}
                          /\ in # None =>
                               \E u \in Vertices : Answers!Leads(out, u, d) /\ s[u] = in
                          /\ \A u \in Vertices : Answers!Leads(out, u, d) /\ s[u] # None =>
                               in # None /\ in <= s[u]
    BY Zenon DEF Answers!ReceivesLeast, Answers!Graphs
  <2> DEFINE in == Received(out, s, d)
  <2>1. /\ in \in Messages \cup {None}
        /\ in # None => \E u \in Vertices : Leads(out, u, d) /\ s[u] = in
        /\ \A u \in Vertices : Leads(out, u, d) /\ s[u] # None => in # None /\ in <= s[u]
    BY ReceivedIsLeast DEF Maybe
  <2>2. Answers!Received(out, s, d) = in
    BY SameNotions
  <2>3. \A u \in Vertices : Answers!Leads(out, u, d) <=> Leads(out, u, d)
    BY SameNotions
  <2> HIDE DEF in
  <2> QED
    BY <2>1, <2>2, <2>3
<1> QED
  BY <1>8, <1>9, <1>10

\* So is the superstep semantics.
LEMMA SameSupersteps == Superstep!Spec => Answers!Spec
<1>1. Superstep!Init => Answers!Init
  BY DEF Superstep!Init, Answers!Init
<1>2. Superstep!Next => Answers!Next
  BY DEF Superstep!Next, Answers!Next, Superstep!Compute, Answers!Compute,
         Superstep!NextSuperstep, Answers!NextSuperstep, Superstep!Return, Answers!Return,
         Superstep!InSuperstep, Answers!InSuperstep, Superstep!Runnable, Answers!Runnable,
         Superstep!vars, Answers!vars, Superstep!Received, Answers!Received,
         Superstep!CombinedOver, Answers!CombinedOver, Superstep!EdgesInto, Answers!EdgesInto,
         Superstep!MapThenFoldSet, Answers!MapThenFoldSet, Superstep!Merge, Answers!Merge
<1>3. [Superstep!Next]_(Superstep!vars) => [Answers!Next]_(Answers!vars)
  BY <1>2 DEF Superstep!vars, Answers!vars
<1> QED
  BY <1>1, <1>3, PTL DEF Superstep!Spec, Answers!Spec

\* What those proofs take from the modules they extend.
LEMMA SameAssumptions ==
  Answers!VerticesAssumption /\ Answers!NoneAssumption /\ Answers!JobsAssumption
BY VerticesAssumption, NoneAssumption, JobsAssumption, Zenon DEF IsFiniteSet, Answers!IsFiniteSet

\* cc.c labels every vertex with the least identifier of its component, in the push version with a list
\* for every undirected graph and every team of threads.
THEOREM CombinerSpreadFindsComponents ==
  ASSUME ProgramTyped, RunsCC, IntegralMessages PROVE Spec => []CCResult
<1>1. CombinesLeast
  BY DEF RunsCC
<1>2. OrderFree
  BY <1>1, LeastOrderFree
<1>3. Answers!RunsCC /\ Answers!ReceivesLeast
  BY <1>1, SameSuppositions
<1>4. Answers!ComponentsFound => CCResult
  <2>1. Terminated => AnyAt({"exit"})
    BY ThreadsAssumption DEF Terminated, AllAt, AnyAt
  <2> QED
    BY <2>1, SameNotions DEF CCResult, Answers!ComponentsFound
<1> QED
  BY <1>2, <1>3, <1>4, CombinerSpreadImplementsBSP, SameSupersteps, SameAssumptions,
     Answers!ComponentsInSupersteps, PTL DEF ImplementsBSP

\* sssp.c labels every vertex with its distance from the source, in the push version with a list
\* for every graph and every team of threads.
THEOREM CombinerSpreadFindsDistances ==
  ASSUME ProgramTyped, RunsSSSP, IntegralMessages PROVE Spec => []SSSPResult
<1>1. CombinesLeast
  BY DEF RunsSSSP
<1>2. OrderFree
  BY <1>1, LeastOrderFree
<1>3. Answers!RunsSSSP /\ Answers!ReceivesLeast
  BY <1>1, SameSuppositions
<1>4. Answers!DistancesFound => SSSPResult
  <2>1. Terminated => AnyAt({"exit"})
    BY ThreadsAssumption DEF Terminated, AllAt, AnyAt
  <2> QED
    BY <2>1, SameNotions DEF SSSPResult, Answers!DistancesFound
<1> QED
  BY <1>2, <1>3, <1>4, CombinerSpreadImplementsBSP, SameSupersteps, SameAssumptions,
     Answers!DistancesInSupersteps, PTL DEF ImplementsBSP
==============================================================================
