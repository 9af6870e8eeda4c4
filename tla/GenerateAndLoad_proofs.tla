------------------------- MODULE GenerateAndLoad_proofs -------------------------
(***************************************************************************)
(* For every graph, every number of vertices and every team of threads: the *)
(* generator writes a proper graph, and the loader gives every vertex the  *)
(* lists that the files were written from.                                 *)
(***************************************************************************)
EXTENDS GenerateAndLoad, TLAPS, FiniteSetTheorems, SequenceTheorems

------------------------------------------------------------------------------
(* Numbers.                                                                *)

\* A non-empty set of numbers has a smallest one.
LEMMA SmallestNumber ==
  ASSUME NEW S \in SUBSET Nat, S # {}
  PROVE  \E n \in S : \A m \in S : n <= m
<1>1. PICK k \in S : TRUE
  OBVIOUS
<1> DEFINE all == 1 .. k
           bad == {1 .. m : m \in {x \in S : x <= k}}
<1>2. IsFiniteSet(all)
  <2>1. 1 \in Int /\ k \in Int
    OBVIOUS
  <2> QED
    BY <2>1, FS_Interval
<1>3. IsWellFoundedOn(StrictSubsetOrdering(all), SUBSET all)
  BY <1>2, FS_StrictSubsetOrderingWellFounded, FS_FiniteSubsetsOfFinite
<1>4. bad \subseteq SUBSET all /\ bad # {}
  OBVIOUS
<1>5. PICK T \in bad : \A U \in bad : <<U, T>> \notin StrictSubsetOrdering(all)
  <2> HIDE DEF all, bad
  <2> QED
    BY <1>3, <1>4, WFMin
<1>6. PICK n \in {x \in S : x <= k} : T = 1 .. n
  BY <1>5
<1>7. ASSUME NEW m \in S, m < n PROVE FALSE
  <2>1. m \in Nat /\ n \in Nat /\ k \in Nat /\ m <= k /\ n <= k
    BY <1>6, <1>7
  <2>2. 1 .. m \in bad /\ 1 .. m \subseteq T
    BY <1>6, <1>7, <2>1
  <2>3. T \in SUBSET all /\ 1 .. m \in SUBSET all
    BY <1>4, <1>5, <2>2
  <2>4. n \in 1 .. n /\ n \notin 1 .. m
    BY <1>7, <2>1
  <2>5. 1 .. m # T
    BY <1>6, <2>4
  <2>6. <<1 .. m, T>> \in StrictSubsetOrdering(all)
    <3> HIDE DEF all
    <3> QED
      BY <2>2, <2>3, <2>5 DEF StrictSubsetOrdering
  <2> QED
    BY <1>5, <2>2, <2>6
<1> QED
  BY <1>6, <1>7

\* If something goes wrong for a number up to n, it first goes wrong somewhere: not at
\* 0, or it is right for the number before.
LEMMA FirstWrong ==
  ASSUME NEW n \in Nat, NEW bad \in SUBSET (0 .. n), bad # {}
  PROVE  \E k \in bad : k = 0 \/ (k \in 1 .. n /\ k - 1 \in 0 .. n /\ k - 1 \notin bad)
<1>1. PICK k \in bad : \A l \in bad : k <= l
  <2>1. bad \in SUBSET Nat
    OBVIOUS
  <2> QED
    BY <2>1, SmallestNumber
<1>2. k = 0 \/ (k \in 1 .. n /\ k - 1 \in 0 .. n /\ ~(k <= k - 1))
  OBVIOUS
<1> QED
  BY <1>1, <1>2

\* The quotient and the remainder of a division.
LEMMA Division ==
  ASSUME NEW a \in Nat, NEW b \in Nat \ {0}
  PROVE  /\ a \div b \in Nat /\ a % b \in Nat
         /\ a = (b * (a \div b)) + (a % b)
         /\ a % b < b
OBVIOUS

\* A product of numbers.
LEMMA Products ==
  ASSUME NEW a \in Nat, NEW b \in Nat, NEW c \in Nat
  PROVE  /\ a * b \in Nat
         /\ a * (b + c) = (a * b) + (a * c)
         /\ a <= b => a * c <= b * c
         /\ a # 0 => b <= a * b
OBVIOUS

------------------------------------------------------------------------------
(* Lists, one behind the other.                                            *)

\* f[k] is the first k of the lists, one behind the other, for every k up to n.
IsJoin(f, n, lists) ==
  f = [k \in 1 .. n |-> IF k = 1 THEN lists[k] ELSE f[k - 1] \o lists[k]]

\* What joins lists says of each of them.
LEMMA JoinEquation ==
  ASSUME NEW lists, NEW n, NEW f, IsJoin(f, n, lists), NEW k \in 1 .. n
  PROVE  f[k] = IF k = 1 THEN lists[k] ELSE f[k - 1] \o lists[k]
BY Zenon DEF IsJoin

\* It exists.
LEMMA JoinExists ==
  ASSUME NEW lists, NEW n \in Nat PROVE \E f : IsJoin(f, n, lists)
<1> DEFINE bad == {m \in 0 .. n : ~\E f : IsJoin(f, m, lists)}
<1>1. ASSUME bad # {} PROVE FALSE
  <2>1. PICK m \in bad : m = 0 \/ (m \in 1 .. n /\ m - 1 \in 0 .. n /\ m - 1 \notin bad)
    <3>1. bad \in SUBSET (0 .. n)
      OBVIOUS
    <3> HIDE DEF bad
    <3> QED
      BY <1>1, <3>1, FirstWrong
  <2>2. CASE m = 0
    <3> DEFINE f == [k \in 1 .. 0 |-> << >>]
    <3>1. f = [k \in 1 .. 0 |-> IF k = 1 THEN lists[k] ELSE f[k - 1] \o lists[k]]
      <4>1. 1 .. 0 = {}
        OBVIOUS
      <4> QED
        BY <4>1
    <3>2. IsJoin(f, m, lists)
      BY <2>2, <3>1 DEF IsJoin
    <3> QED
      BY <2>1, <3>2
  <2>3. CASE m # 0
    <3>1. m \in 1 .. n
      BY <2>1, <2>3
    <3>2. PICK g : IsJoin(g, m - 1, lists)
      BY <2>1, <2>3
    <3> DEFINE last == IF m = 1 THEN lists[m] ELSE g[m - 1] \o lists[m]
               f == [k \in 1 .. m |-> IF k = m THEN last ELSE g[k]]
    <3>3. \A k \in 1 .. m - 1 : f[k] = g[k]
      BY <3>1
    <3>4. \A k \in 1 .. m - 1 : g[k] = IF k = 1 THEN lists[k] ELSE g[k - 1] \o lists[k]
      <4>1. m - 1 \in Nat
        BY <3>1
      <4> QED
        BY <3>2, <4>1, JoinEquation
    <3>5. ASSUME NEW k \in 1 .. m
          PROVE  f[k] = IF k = 1 THEN lists[k] ELSE f[k - 1] \o lists[k]
      <4>1. CASE k = m
        <5>1. f[m] = last /\ (m # 1 => f[m - 1] = g[m - 1])
          BY <3>1, <3>3
        <5> HIDE DEF f
        <5> QED
          BY <4>1, <5>1
      <4>2. CASE k # m
        <5>1. k \in 1 .. m - 1
          BY <4>2, <3>1
        <5>2. k # 1 => k - 1 \in 1 .. m - 1
          BY <5>1, <3>1
        <5>3. f[k] = g[k] /\ (k # 1 => f[k - 1] = g[k - 1])
          BY <3>3, <5>1, <5>2
        <5> HIDE DEF f
        <5> QED
          BY <3>4, <5>1, <5>3
      <4> QED
        BY <4>1, <4>2
    <3>6. IsJoin(f, m, lists)
      <4>1. f = [k \in 1 .. m |-> f[k]]
        OBVIOUS
      <4> HIDE DEF f
      <4> QED
        BY <3>5, <4>1 DEF IsJoin
    <3> QED
      BY <3>6, <2>1
  <2> QED
    BY <2>2, <2>3
<1>2. n \in 0 .. n
  OBVIOUS
<1> QED
  BY <1>1, <1>2

\* FlattenSeq is the last of the joins.
LEMMA FlattenIsJoin ==
  ASSUME NEW lists, NEW n \in Nat, Len(lists) = n
  PROVE  \E f : /\ IsJoin(f, n, lists)
                /\ FlattenSeq(lists) = IF n = 0 THEN lists ELSE f[n]
<1> DEFINE f == CHOOSE g : IsJoin(g, Len(lists), lists)
<1>1. FlattenSeq(lists) = IF Len(lists) = 0 THEN lists ELSE f[Len(lists)]
  BY Zenon DEF FlattenSeq, IsJoin
<1>2. \E g : IsJoin(g, Len(lists), lists)
  BY JoinExists
<1>3. IsJoin(f, Len(lists), lists)
  BY <1>2, Zenon
<1> HIDE DEF f
<1> QED
  BY <1>1, <1>3

\* The first m lists of a are those of b.
SameLists(a, b, m) == \A k \in 1 .. m : a[k] = b[k]

\* Two joins of the same first lists agree.
LEMMA JoinsAgree ==
  ASSUME NEW a, NEW b, NEW m \in Nat, NEW n \in Nat, m <= n, NEW f, NEW g,
         IsJoin(f, m, a), IsJoin(g, n, b), SameLists(a, b, m),
         NEW k \in 1 .. m
  PROVE  f[k] = g[k]
<1> DEFINE bad == {i \in 0 .. m : i # 0 /\ f[i] # g[i]}
<1>1. ASSUME bad # {} PROVE FALSE
  <2>1. PICK i \in bad : i = 0 \/ (i \in 1 .. m /\ i - 1 \in 0 .. m /\ i - 1 \notin bad)
    <3>1. bad \in SUBSET (0 .. m)
      OBVIOUS
    <3> HIDE DEF bad
    <3> QED
      BY <1>1, <3>1, FirstWrong
  <2>2. /\ i \in 1 .. m /\ i \in 1 .. n /\ f[i] # g[i]
        /\ i # 1 => f[i - 1] = g[i - 1]
    BY <2>1
  <2>3. f[i] = IF i = 1 THEN a[i] ELSE f[i - 1] \o a[i]
    BY <2>2, JoinEquation
  <2>4. g[i] = IF i = 1 THEN b[i] ELSE g[i - 1] \o b[i]
    BY <2>2, JoinEquation
  <2> QED
    BY <2>2, <2>3, <2>4 DEF SameLists
<1>2. k \notin bad
  BY <1>1
<1> QED
  BY <1>2

\* With one list more.
LEMMA FlattenStep ==
  ASSUME NEW S, NEW a \in Seq(Seq(S)), NEW n \in Nat, Len(a) = n + 1,
         NEW b, Len(b) = n, \A k \in 1 .. n : b[k] = a[k], n = 0 => b = << >>
  PROVE  FlattenSeq(a) = FlattenSeq(b) \o a[n + 1]
<1>1. PICK f : IsJoin(f, n + 1, a) /\ FlattenSeq(a) = f[n + 1]
  <2>1. n + 1 \in Nat /\ n + 1 # 0
    OBVIOUS
  <2> QED
    BY <2>1, FlattenIsJoin
<1>2. PICK g : IsJoin(g, n, b) /\ FlattenSeq(b) = IF n = 0 THEN b ELSE g[n]
  BY FlattenIsJoin
<1>3. n + 1 \in 1 .. n + 1 /\ a[n + 1] \in Seq(S)
  BY ElementOfSeq
<1>4. f[n + 1] = IF n + 1 = 1 THEN a[n + 1] ELSE f[(n + 1) - 1] \o a[n + 1]
  BY <1>1, <1>3, JoinEquation
<1>5. CASE n = 0
  <2>1. << >> \o a[n + 1] = a[n + 1]
    BY <1>3, ConcatEmptySeq
  <2> QED
    BY <1>1, <1>2, <1>4, <1>5, <2>1
<1>6. CASE n # 0
  <2>1. n \in 1 .. n /\ n + 1 \in Nat /\ n <= n + 1
    BY <1>6
  <2>2. SameLists(b, a, n)
    BY DEF SameLists
  <2>3. g[n] = f[n]
    BY <1>1, <1>2, <2>1, <2>2, JoinsAgree
  <2>4. (n + 1) - 1 = n /\ n + 1 # 1
    BY <1>6
  <2>5. f[n + 1] = f[n] \o a[n + 1]
    BY <1>4, <2>4
  <2> QED
    BY <1>1, <1>2, <1>6, <2>3, <2>5
<1> QED
  BY <1>5, <1>6

------------------------------------------------------------------------------
(* The files of a graph.                                                   *)

Graphs == [Locations -> Seq(Locations)]

\* The lists of the first n vertices.
FirstLists(out, n) == [i \in 1 .. n |-> out[i - 1]]

\* They are a sequence of lists.
LEMMA FirstListsTyped ==
  ASSUME NEW out \in Graphs, NEW n \in 0 .. VertexCount
  PROVE  /\ FirstLists(out, n) \in Seq(Seq(Locations))
         /\ Len(FirstLists(out, n)) = n
         /\ \A i \in 1 .. n : FirstLists(out, n)[i] = out[i - 1]
<1>1. n \in Nat /\ \A i \in 1 .. n : i - 1 \in Locations
  BY VertexCountAssumption DEF Locations
<1>2. \A i \in 1 .. n : out[i - 1] \in Seq(Locations)
  BY <1>1 DEF Graphs
<1>3. FirstLists(out, n) \in [1 .. n -> Seq(Locations)]
  BY <1>2 DEF FirstLists
<1> QED
  BY <1>1, <1>3 DEF FirstLists

\* One list more is put behind the others.
LEMMA ConcatenatedStep ==
  ASSUME NEW out \in Graphs, NEW v \in Locations
  PROVE  Concatenated(out, v + 1) = Concatenated(out, v) \o out[v]
<1>1. v \in Nat /\ v \in 0 .. VertexCount /\ v + 1 \in 0 .. VertexCount
  BY VertexCountAssumption DEF Locations
<1> DEFINE a == FirstLists(out, v + 1)
           b == FirstLists(out, v)
<1>2. /\ a \in Seq(Seq(Locations)) /\ Len(a) = v + 1
      /\ b \in Seq(Seq(Locations)) /\ Len(b) = v
      /\ \A i \in 1 .. v + 1 : a[i] = out[i - 1]
      /\ \A i \in 1 .. v : b[i] = out[i - 1]
  BY <1>1, FirstListsTyped
<1>3. FlattenSeq(a) = Concatenated(out, v + 1) /\ FlattenSeq(b) = Concatenated(out, v)
  BY DEF Concatenated, FirstLists
<1> HIDE DEF a, b
<1>4. \A k \in 1 .. v : b[k] = a[k]
  <2>1. \A k \in 1 .. v : k \in 1 .. v + 1
    BY <1>1
  <2>2. \A k \in 1 .. v : b[k] = out[k - 1]
    BY <1>2
  <2>3. \A k \in 1 .. v + 1 : a[k] = out[k - 1]
    BY <1>2
  <2> QED
    BY <2>1, <2>2, <2>3, Zenon
<1>5. v = 0 => b = << >>
  BY <1>2
<1>6. v + 1 \in 1 .. v + 1 /\ (v + 1) - 1 = v
  BY <1>1
<1>7. a[v + 1] = out[v]
  BY <1>2, <1>6
<1>8. FlattenSeq(a) = FlattenSeq(b) \o a[v + 1]
  BY <1>1, <1>2, <1>4, <1>5, FlattenStep, ZenonT(30)
<1> QED
  BY <1>3, <1>7, <1>8

\* No list: nothing.
LEMMA ConcatenatedNone ==
  ASSUME NEW out \in Graphs PROVE Concatenated(out, 0) = << >>
<1>1. 0 \in 0 .. VertexCount
  BY VertexCountAssumption
<1>2. FirstLists(out, 0) = << >>
  BY <1>1, FirstListsTyped
<1>3. FlattenSeq(<< >>) = << >>
  BY DEF FlattenSeq
<1> QED
  BY <1>2, <1>3 DEF Concatenated, FirstLists

\* The concatenation is a list of vertices.
LEMMA ConcatenatedTyped ==
  ASSUME NEW out \in Graphs, NEW n \in 0 .. VertexCount
  PROVE  Concatenated(out, n) \in Seq(Locations) /\ Offset(out, n) \in Nat
<1> DEFINE bad == {m \in 0 .. n : Concatenated(out, m) \notin Seq(Locations)}
<1>1. n \in Nat /\ n <= VertexCount /\ VertexCount \in Nat
  BY VertexCountAssumption
<1>2. ASSUME bad # {} PROVE FALSE
  <2>1. PICK m \in bad : m = 0 \/ (m \in 1 .. n /\ m - 1 \in 0 .. n /\ m - 1 \notin bad)
    <3>1. bad \in SUBSET (0 .. n)
      OBVIOUS
    <3> HIDE DEF bad
    <3> QED
      BY <1>1, <1>2, <3>1, FirstWrong
  <2>2. CASE m = 0
    <3>1. Concatenated(out, 0) = << >> /\ << >> \in Seq(Locations)
      BY ConcatenatedNone, EmptySeq
    <3> QED
      BY <2>1, <2>2, <3>1
  <2>3. CASE m # 0
    <3>1. m - 1 \in Locations /\ (m - 1) + 1 = m
      BY <1>1, <2>1, <2>3 DEF Locations
    <3>2. Concatenated(out, m) = Concatenated(out, m - 1) \o out[m - 1]
      BY <3>1, ConcatenatedStep
    <3>3. out[m - 1] \in Seq(Locations) /\ Concatenated(out, m - 1) \in Seq(Locations)
      BY <2>1, <2>3, <3>1 DEF Graphs
    <3>4. Concatenated(out, m) \in Seq(Locations)
      BY <3>2, <3>3, ConcatProperties
    <3> QED
      BY <2>1, <3>4
  <2> QED
    BY <2>2, <2>3
<1>3. n \notin bad
  BY <1>2
<1>4. Concatenated(out, n) \in Seq(Locations)
  BY <1>1, <1>3
<1> QED
  BY <1>4, LenProperties DEF Offset

\* The first lists are where they were when more are put behind them.
LEMMA PrefixKept ==
  ASSUME NEW out \in Graphs, NEW n \in 0 .. VertexCount, NEW m \in 0 .. n
  PROVE  /\ Offset(out, m) <= Offset(out, n)
         /\ \A k \in 1 .. Offset(out, m) : Concatenated(out, n)[k] = Concatenated(out, m)[k]
<1> DEFINE kept(l) ==
             /\ Offset(out, m) <= Offset(out, l)
             /\ \A k \in 1 .. Offset(out, m) : Concatenated(out, l)[k] = Concatenated(out, m)[k]
           bad == {l \in 0 .. n : m <= l /\ ~kept(l)}
<1>1. /\ n \in Nat /\ n <= VertexCount /\ VertexCount \in Nat
      /\ m \in Nat /\ m <= n /\ m \in 0 .. VertexCount
  BY VertexCountAssumption
<1>2. Offset(out, m) \in Nat
  BY <1>1, ConcatenatedTyped
<1>3. kept(m)
  BY <1>2
<1>4. ASSUME bad # {} PROVE FALSE
  <2>1. PICK l \in bad : l = 0 \/ (l \in 1 .. n /\ l - 1 \in 0 .. n /\ l - 1 \notin bad)
    <3>1. bad \in SUBSET (0 .. n)
      OBVIOUS
    <3> HIDE DEF bad
    <3> QED
      BY <1>1, <1>4, <3>1, FirstWrong
  <2>2. l \in 0 .. n /\ m <= l /\ ~kept(l)
    <3> HIDE DEF kept
    <3> QED
      BY <2>1
  <2>3. l # m
    <3> HIDE DEF kept
    <3> QED
      BY <1>3, <2>2
  <2>4. /\ l - 1 \in 0 .. n /\ m <= l - 1
        /\ l - 1 \in Locations /\ (l - 1) + 1 = l
        /\ l - 1 \in 0 .. VertexCount /\ l \in 0 .. VertexCount
    BY <1>1, <2>2, <2>3 DEF Locations
  <2>5. kept(l - 1)
    <3>1. l # 0
      BY <1>1, <2>2, <2>3
    <3> HIDE DEF kept
    <3> QED
      BY <2>1, <2>4, <3>1
  <2>6. Concatenated(out, l) = Concatenated(out, l - 1) \o out[l - 1]
    BY <2>4, ConcatenatedStep
  <2>7. /\ Concatenated(out, l - 1) \in Seq(Locations) /\ out[l - 1] \in Seq(Locations)
        /\ Offset(out, l - 1) \in Nat
    BY <2>4, ConcatenatedTyped DEF Graphs
  <2>8. /\ Offset(out, l) = Offset(out, l - 1) + Len(out[l - 1])
        /\ Len(out[l - 1]) \in Nat
        /\ \A k \in 1 .. Offset(out, l - 1) : Concatenated(out, l)[k] = Concatenated(out, l - 1)[k]
    BY <2>6, <2>7, ConcatProperties, LenProperties DEF Offset
  <2>9. kept(l)
    BY <1>2, <2>5, <2>7, <2>8
  <2> QED
    BY <2>2, <2>9
<1>5. kept(n)
  <2> HIDE DEF kept
  <2> QED
    BY <1>1, <1>4
<1> QED
  BY <1>5

\* Where the list of a vertex is in the .adj file.
LEMMA ListOfVertex ==
  ASSUME NEW out \in Graphs, NEW v \in Locations
  PROVE  /\ Offset(out, v) \in Nat /\ Len(out[v]) \in Nat
         /\ Offset(out, v + 1) = Offset(out, v) + Len(out[v])
         /\ Offset(out, v + 1) <= Offset(out, VertexCount)
         /\ \A k \in 1 .. Len(out[v]) :
              Concatenated(out, VertexCount)[Offset(out, v) + k] = out[v][k]
<1>1. /\ v \in Nat /\ v \in 0 .. VertexCount /\ v + 1 \in 0 .. VertexCount
      /\ VertexCount \in 0 .. VertexCount
  BY VertexCountAssumption DEF Locations
<1>2. Concatenated(out, v + 1) = Concatenated(out, v) \o out[v]
  BY ConcatenatedStep
<1>3. /\ Concatenated(out, v) \in Seq(Locations) /\ out[v] \in Seq(Locations)
      /\ Offset(out, v) \in Nat
  BY <1>1, ConcatenatedTyped DEF Graphs
<1>4. /\ Len(out[v]) \in Nat
      /\ Offset(out, v + 1) = Offset(out, v) + Len(out[v])
  BY <1>2, <1>3, ConcatProperties, LenProperties DEF Offset
<1>5. \A k \in 1 .. Len(out[v]) : Concatenated(out, v + 1)[Offset(out, v) + k] = out[v][k]
  <2> TAKE k \in 1 .. Len(out[v])
  <2>1. /\ Offset(out, v) + k \in 1 .. Len(Concatenated(out, v)) + Len(out[v])
        /\ ~(Offset(out, v) + k <= Len(Concatenated(out, v)))
        /\ (Offset(out, v) + k) - Len(Concatenated(out, v)) = k
    BY <1>3, <1>4 DEF Offset
  <2>2. (Concatenated(out, v) \o out[v])[Offset(out, v) + k] =
          IF Offset(out, v) + k <= Len(Concatenated(out, v))
          THEN Concatenated(out, v)[Offset(out, v) + k]
          ELSE out[v][(Offset(out, v) + k) - Len(Concatenated(out, v))]
    BY <1>3, <2>1, ConcatProperties
  <2> QED
    BY <1>2, <2>1, <2>2
<1>6. /\ Offset(out, v + 1) <= Offset(out, VertexCount)
      /\ \A k \in 1 .. Offset(out, v + 1) :
           Concatenated(out, VertexCount)[k] = Concatenated(out, v + 1)[k]
  BY <1>1, PrefixKept
<1>7. \A k \in 1 .. Len(out[v]) : Offset(out, v) + k \in 1 .. Offset(out, v + 1)
  BY <1>3, <1>4
<1> QED
  BY <1>3, <1>4, <1>5, <1>6, <1>7

\* The offsets start at 0 and grow.
LEMMA OffsetsGrow ==
  ASSUME NEW out \in Graphs, NEW n \in 0 .. VertexCount, NEW m \in 0 .. n
  PROVE  /\ Offset(out, 0) = 0
         /\ Offset(out, m) \in Nat /\ Offset(out, n) \in Nat
         /\ Offset(out, m) <= Offset(out, n)
<1>1. m \in 0 .. VertexCount
  BY VertexCountAssumption
<1>2. Offset(out, 0) = 0
  BY ConcatenatedNone DEF Offset
<1> QED
  BY <1>1, <1>2, ConcatenatedTyped, PrefixKept

\* The first lists are all that a concatenation depends on.
LEMMA SameConcatenated ==
  ASSUME NEW a, NEW b, NEW n \in Nat, \A v \in 0 .. n - 1 : a[v] = b[v]
  PROVE  Concatenated(a, n) = Concatenated(b, n) /\ Offset(a, n) = Offset(b, n)
<1>1. \A i \in 1 .. n : i - 1 \in 0 .. n - 1
  OBVIOUS
<1>2. [i \in 1 .. n |-> a[i - 1]] = [i \in 1 .. n |-> b[i - 1]]
  BY <1>1
<1> QED
  BY <1>2 DEF Concatenated, Offset

\* n lists of length w.
Uniform(a, S, n, w) ==
  /\ a \in Seq(Seq(S)) /\ n \in Nat /\ Len(a) = n /\ w \in {1, 2}
  /\ \A i \in 1 .. n : Len(a[i]) = w

\* They are in b, one behind the other.
LinedUp(b, a, S, n, w) ==
  /\ b \in Seq(S)
  /\ Len(b) = w * n
  /\ \A i \in 1 .. n, j \in 1 .. w : b[w * (i - 1) + j] = a[i][j]

\* So FlattenSeq puts them.
LEMMA FlattenUniform ==
  ASSUME NEW S, NEW a, NEW n, NEW w, Uniform(a, S, n, w)
  PROVE  LinedUp(FlattenSeq(a), a, S, n, w)
<1>a. /\ a \in Seq(Seq(S)) /\ n \in Nat /\ Len(a) = n /\ w \in {1, 2}
      /\ \A i \in 1 .. n : Len(a[i]) = w
  BY DEF Uniform
<1>1. PICK f : IsJoin(f, n, a) /\ FlattenSeq(a) = IF n = 0 THEN a ELSE f[n]
  BY <1>a, FlattenIsJoin
<1> DEFINE good(m) ==
             /\ f[m] \in Seq(S)
             /\ Len(f[m]) = w * m
             /\ \A i \in 1 .. m, j \in 1 .. w : f[m][w * (i - 1) + j] = a[i][j]
           bad == {m \in 0 .. n : m # 0 /\ ~good(m)}
<1>2. ASSUME bad # {} PROVE FALSE
  <2>1. PICK m \in bad : m = 0 \/ (m \in 1 .. n /\ m - 1 \in 0 .. n /\ m - 1 \notin bad)
    <3>1. bad \in SUBSET (0 .. n)
      OBVIOUS
    <3> HIDE DEF bad
    <3> QED
      BY <1>a, <1>2, <3>1, FirstWrong
  <2>2. m \in 1 .. n /\ ~good(m) /\ (m # 1 => good(m - 1))
    <3> HIDE DEF good
    <3> QED
      BY <2>1
  <2>3. f[m] = IF m = 1 THEN a[m] ELSE f[m - 1] \o a[m]
    <3> HIDE DEF good
    <3> QED
      BY <1>1, <2>2, JoinEquation
  <2>4. a[m] \in Seq(S) /\ Len(a[m]) = w
    <3> HIDE DEF good
    <3> QED
      BY <1>a, <2>2, ElementOfSeq
  <2>5. CASE m = 1
    <3>1. \A j \in 1 .. w : w * (1 - 1) + j = j
      BY <1>a
    <3>2. w * 1 = w
      BY <1>a
    <3>3. f[1] = a[1] /\ \A i \in 1 .. 1 : i = 1
      BY <2>3, <2>5
    <3>4. good(1)
      BY <1>a, <2>4, <2>5, <3>1, <3>2, <3>3
    <3> QED
      BY <2>2, <2>5, <3>4
  <2>6. CASE m # 1
    <3> DEFINE g == f[m - 1]
    <3>1. /\ g \in Seq(S) /\ Len(g) = w * (m - 1)
          /\ \A i \in 1 .. m - 1, j \in 1 .. w : g[w * (i - 1) + j] = a[i][j]
      BY <1>a, <2>2, <2>6
    <3>2. f[m] = g \o a[m]
      BY <2>3, <2>6
    <3> HIDE DEF g
    <3>3. /\ f[m] \in Seq(S) /\ Len(f[m]) = w * (m - 1) + w
          /\ \A k \in 1 .. w * (m - 1) + w :
               f[m][k] = IF k <= w * (m - 1) THEN g[k] ELSE a[m][k - w * (m - 1)]
      <4> DEFINE q == w * (m - 1)
      <4>0. g \in Seq(S) /\ a[m] \in Seq(S)
        BY <1>a, <2>4, <3>1
      <4>1. /\ g \o a[m] \in Seq(S)
            /\ Len(g \o a[m]) = Len(g) + Len(a[m])
            /\ \A k \in 1 .. Len(g) + Len(a[m]) :
                 (g \o a[m])[k] = IF k <= Len(g) THEN g[k] ELSE a[m][k - Len(g)]
        BY <4>0, ConcatProperties
      <4>2. Len(g) = q /\ Len(a[m]) = w
        BY <1>a, <2>4, <3>1
      <4> HIDE DEF q
      <4>3. /\ f[m] \in Seq(S) /\ Len(f[m]) = q + w
            /\ \A k \in 1 .. q + w : f[m][k] = IF k <= q THEN g[k] ELSE a[m][k - q]
        BY <3>2, <4>1, <4>2, Zenon
      <4> QED
        BY <4>3 DEF q
    <3>4. w * (m - 1) + w = w * m
      BY <1>a, <2>2
    <3>5. ASSUME NEW i \in 1 .. m, NEW j \in 1 .. w
          PROVE  f[m][w * (i - 1) + j] = a[i][j]
      <4> DEFINE k == w * (i - 1) + j
      <4>1. CASE i = m
        <5>1. /\ k \in 1 .. w * (m - 1) + w
              /\ ~(k <= w * (m - 1))
              /\ k - w * (m - 1) = j
          BY <1>a, <2>2, <4>1
        <5> HIDE DEF k
        <5>2. f[m][k] = a[m][j]
          BY <1>a, <3>3, <5>1
        <5> QED
          BY <4>1, <5>2 DEF k
      <4>2. CASE i # m
        <5>1. /\ i \in 1 .. m - 1
              /\ k \in 1 .. w * (m - 1) + w
              /\ k <= w * (m - 1)
          <6>1. m \in Nat /\ i \in Nat /\ i + 1 <= m /\ 1 <= i
            BY <1>a, <2>2, <4>2
          <6>2. CASE w = 1
            BY <6>1, <6>2
          <6>3. CASE w = 2
            BY <6>1, <6>3
          <6> QED
            BY <1>a, <6>2, <6>3
        <5>2. g[k] = a[i][j]
          BY <1>a, <3>1, <5>1
        <5> HIDE DEF k
        <5>3. f[m][k] = g[k]
          BY <1>a, <3>3, <5>1
        <5> QED
          BY <5>2, <5>3 DEF k
      <4> QED
        BY <4>1, <4>2
    <3>6. good(m)
      BY <1>a, <3>3, <3>4, <3>5
    <3> QED
      BY <2>2, <3>6
  <2> QED
    BY <2>5, <2>6
<1>3. CASE n = 0
  <2>1. FlattenSeq(a) = << >>
    BY <1>a, <1>1, <1>3
  <2> QED
    BY <1>a, <1>3, <2>1 DEF LinedUp
<1>4. CASE n # 0
  <2>1. good(n)
    <3>1. n \in 0 .. n
      BY <1>a
    <3> HIDE DEF good
    <3> QED
      BY <1>2, <1>4, <3>1
  <2>2. FlattenSeq(a) = f[n]
    BY <1>1, <1>4
  <2> QED
    BY <2>1, <2>2 DEF LinedUp
<1> QED
  BY <1>3, <1>4

\* What the files of a graph say of it, with offsets of one word...
LEMMA FilesOfOneWord ==
  ASSUME NEW out \in Graphs
  PROVE  FilesOf(out, 1) =
           [edges |-> Offset(out, VertexCount),
            idx |-> [i \in 1 .. VertexCount |-> Offset(out, i - 1)],
            adj |-> Concatenated(out, VertexCount)]
<1> DEFINE a == [i \in 1 .. VertexCount |-> <<Offset(out, i - 1)>>]
           offsets == [i \in 1 .. VertexCount |-> Offset(out, i - 1)]
<1>1. VertexCount \in Nat
  BY VertexCountAssumption
<1>2. ASSUME NEW i \in 1 .. VertexCount PROVE Offset(out, i - 1) \in Nat
  <2>1. i - 1 \in 0 .. VertexCount
    BY <1>1
  <2> QED
    BY <2>1, ConcatenatedTyped
<1>3. /\ a \in Seq(Seq(Nat)) /\ Len(a) = VertexCount
      /\ \A i \in 1 .. VertexCount : a[i] = <<Offset(out, i - 1)>> /\ Len(a[i]) = 1
      /\ offsets \in Seq(Nat) /\ Len(offsets) = VertexCount
  BY <1>1, <1>2
<1> HIDE DEF a
<1>4. /\ FlattenSeq(a) \in Seq(Nat)
      /\ Len(FlattenSeq(a)) = 1 * VertexCount
      /\ \A i \in 1 .. VertexCount, j \in 1 .. 1 : FlattenSeq(a)[1 * (i - 1) + j] = a[i][j]
  <2>1. Uniform(a, Nat, VertexCount, 1)
    BY <1>1, <1>3 DEF Uniform
  <2>2. LinedUp(FlattenSeq(a), a, Nat, VertexCount, 1)
    BY <2>1, FlattenUniform
  <2> QED
    BY <2>2 DEF LinedUp
<1>5. \A i \in 1 .. VertexCount : FlattenSeq(a)[i] = Offset(out, i - 1)
  <2> TAKE i \in 1 .. VertexCount
  <2>1. 1 * (i - 1) + 1 = i /\ 1 \in 1 .. 1
    OBVIOUS
  <2>2. FlattenSeq(a)[1 * (i - 1) + 1] = a[i][1]
    BY <1>4, <2>1
  <2>3. a[i][1] = Offset(out, i - 1)
    BY <1>3
  <2> QED
    BY <2>1, <2>2, <2>3
<1>6. Len(FlattenSeq(a)) = VertexCount
  BY <1>1, <1>4
<1>7. FlattenSeq(a) = offsets
  <2>1. \A i \in 1 .. Len(offsets) : FlattenSeq(a)[i] = offsets[i]
    BY <1>3, <1>5
  <2> HIDE DEF offsets
  <2> QED
    BY <1>3, <1>4, <1>6, <2>1, SeqEqual
<1>8. FilesOf(out, 1) = [edges |-> Offset(out, VertexCount), idx |-> FlattenSeq(a),
                         adj |-> Concatenated(out, VertexCount)]
  BY DEF FilesOf, Offset, a
<1> QED
  BY <1>7, <1>8

\* ... and with offsets of two words.
LEMMA FilesOfTwoWords ==
  ASSUME NEW out \in Graphs
  PROVE  LET idx == FilesOf(out, 2).idx
         IN /\ FilesOf(out, 2).edges = Offset(out, VertexCount)
            /\ FilesOf(out, 2).adj = Concatenated(out, VertexCount)
            /\ idx \in Seq(Nat)
            /\ Len(idx) = 2 * VertexCount
            /\ \A v \in Locations :
                 idx[2 * v + 1] + IdLimit * idx[2 * v + 2] = Offset(out, v)
<1> DEFINE low(i) == Offset(out, i - 1) % IdLimit
           high(i) == Offset(out, i - 1) \div IdLimit
           a == [i \in 1 .. VertexCount |-> <<low(i), high(i)>>]
<1>1. VertexCount \in Nat /\ IdLimit \in Nat \ {0}
  BY VertexCountAssumption
<1>2. ASSUME NEW i \in 1 .. VertexCount
      PROVE  /\ low(i) \in Nat /\ high(i) \in Nat
             /\ Offset(out, i - 1) = (IdLimit * high(i)) + low(i)
  <2>1. i - 1 \in 0 .. VertexCount
    BY <1>1
  <2>2. Offset(out, i - 1) \in Nat
    BY <2>1, ConcatenatedTyped
  <2> QED
    BY <1>1, <2>2, Division
<1> HIDE DEF low, high
<1>3. /\ a \in Seq(Seq(Nat)) /\ Len(a) = VertexCount
      /\ \A i \in 1 .. VertexCount : a[i] = <<low(i), high(i)>> /\ Len(a[i]) = 2
  BY <1>1, <1>2
<1>4. FilesOf(out, 2) = [edges |-> Offset(out, VertexCount), idx |-> FlattenSeq(a),
                         adj |-> Concatenated(out, VertexCount)]
  BY DEF FilesOf, Offset, a, low, high
<1> HIDE DEF a
<1>5. /\ FlattenSeq(a) \in Seq(Nat)
      /\ Len(FlattenSeq(a)) = 2 * VertexCount
      /\ \A i \in 1 .. VertexCount, j \in 1 .. 2 : FlattenSeq(a)[2 * (i - 1) + j] = a[i][j]
  <2>1. Uniform(a, Nat, VertexCount, 2)
    BY <1>1, <1>3 DEF Uniform
  <2>2. LinedUp(FlattenSeq(a), a, Nat, VertexCount, 2)
    BY <2>1, FlattenUniform
  <2> QED
    BY <2>2 DEF LinedUp
<1>6. ASSUME NEW v \in Locations
      PROVE  FlattenSeq(a)[2 * v + 1] + IdLimit * FlattenSeq(a)[2 * v + 2] = Offset(out, v)
  <2>1. v + 1 \in 1 .. VertexCount /\ (v + 1) - 1 = v /\ 1 \in 1 .. 2 /\ 2 \in 1 .. 2
    BY <1>1 DEF Locations
  <2>2. /\ FlattenSeq(a)[2 * ((v + 1) - 1) + 1] = a[v + 1][1]
        /\ FlattenSeq(a)[2 * ((v + 1) - 1) + 2] = a[v + 1][2]
    BY <1>5, <2>1
  <2>3. a[v + 1][1] = low(v + 1) /\ a[v + 1][2] = high(v + 1)
    BY <1>3, <2>1
  <2>4. FlattenSeq(a)[2 * v + 1] = low(v + 1) /\ FlattenSeq(a)[2 * v + 2] = high(v + 1)
    BY <2>1, <2>2, <2>3
  <2>5. Offset(out, v) = (IdLimit * high(v + 1)) + low(v + 1)
    BY <1>2, <2>1
  <2>6. low(v + 1) \in Nat /\ IdLimit * high(v + 1) \in Nat
    BY <1>1, <1>2, <2>1, Products
  <2>7. low(v + 1) + IdLimit * high(v + 1) = (IdLimit * high(v + 1)) + low(v + 1)
    BY <2>6
  <2> QED
    BY <2>4, <2>5, <2>7
<1> QED
  BY <1>4, <1>5, <1>6

------------------------------------------------------------------------------
(* nextID.                                                                 *)

\* A remainder that changes nothing.
LEMMA SmallRemainder ==
  ASSUME NEW a \in Nat, NEW b \in Nat, a < b PROVE a % b = a
OBVIOUS

\* For fewer exclusions than there are other vertices, nextID returns a vertex, and
\* never the first exclusion, which is the source itself: the loop of nextID passes
\* it or stops below it.
LEMMA NextIDProper ==
  ASSUME NEW vertices \in Nat, NEW limit \in Nat, vertices < limit,
         NEW passed \in Seq(Nat), Len(passed) \in 1 .. vertices - 1,
         NEW d \in NextIDs(vertices, passed, limit)
  PROVE  d \in 0 .. vertices - 1 /\ d # passed[1]
<1> DEFINE n == Len(passed)
<1>1. n \in Nat /\ 1 <= n /\ n <= vertices - 1
  OBVIOUS
<1>2. ((vertices - 1) - n) % limit = (vertices - 1) - n
  BY <1>1, SmallRemainder
<1>3. PICK r \in 0 .. (vertices - 1) - n : d = SkippingExclusions(passed, r, limit)
  BY <1>2 DEF NextIDs
<1> DEFINE stops == {i \in 0 .. n - 1 : passed[i + 1] > (r + i) % limit}
           k == IF stops = {} THEN n ELSE Min(stops)
<1>4. d = (r + k) % limit
  BY <1>3 DEF SkippingExclusions
<1>5. passed[1] \in Nat
  BY <1>1
<1>6. k \in 0 .. n /\ (k = 0 <=> 0 \in stops)
  <2>1. CASE stops = {}
    <3> HIDE DEF stops
    <3>1. k = n /\ 0 \notin stops
      BY <2>1
    <3> HIDE DEF k
    <3> QED
      BY <1>1, <3>1
  <2>2. CASE stops # {}
    <3>1. stops \in SUBSET Nat
      BY <1>1
    <3>2. stops \subseteq 0 .. n
      BY <1>1
    <3>3. 0 \in Nat /\ \A i \in Nat : i <= 0 => i = 0
      OBVIOUS
    <3> HIDE DEF stops
    <3>4. \E i \in stops : \A j \in stops : i <= j
      BY <2>2, <3>1, SmallestNumber
    <3>5. Min(stops) \in stops /\ \A j \in stops : Min(stops) <= j
      BY <3>4 DEF Min
    <3>6. Min(stops) = 0 <=> 0 \in stops
      BY <3>1, <3>3, <3>5
    <3> QED
      BY <2>2, <3>2, <3>5, <3>6
  <2> QED
    BY <2>1, <2>2
<1>7. 0 \in stops <=> passed[1] > r
  <2>1. 0 \in 0 .. n - 1 /\ r + 0 = r /\ r \in Nat /\ r < limit
    BY <1>1, <1>3
  <2>2. r % limit = r
    BY <2>1, SmallRemainder
  <2> QED
    BY <2>1, <2>2
<1> HIDE DEF k, stops
<1>8. r + k \in Nat /\ r + k <= vertices - 1
  BY <1>1, <1>3, <1>6
<1>9. d = r + k
  BY <1>4, <1>8, SmallRemainder, SMTT(30)
<1> QED
  BY <1>1, <1>3, <1>5, <1>6, <1>7, <1>8, <1>9

------------------------------------------------------------------------------
(* The shares of the threads.                                              *)

\* The number of vertices is the chunk times the number of threads, and the rest.
LEMMA ChunkFacts ==
  /\ ip_thread_count \in Nat \ {0} /\ VertexCount \in Nat \ {0}
  /\ Chunk \in Nat
  /\ VertexCount % ip_thread_count \in Nat
  /\ VertexCount = (ip_thread_count * Chunk) + (VertexCount % ip_thread_count)
  /\ VertexCount % ip_thread_count < ip_thread_count
BY VertexCountAssumption, ThreadsAssumption, Division DEF Chunk

\* The shares lie one behind the other, the first at 0 and the last up to the last
\* vertex.
LEMMA ShareBounds ==
  ASSUME NEW t \in Threads
  PROVE  /\ t \in Nat
         /\ Start(t) \in 0 .. VertexCount /\ End(t) \in 0 .. VertexCount
         /\ Start(t) <= End(t)
         /\ t = 0 => Start(t) = 0
         /\ IsLast(t) => End(t) = VertexCount
         /\ ~IsLast(t) => t + 1 \in Threads /\ End(t) = Start(t + 1)
<1>1. t \in Nat /\ t < ip_thread_count
  BY ChunkFacts DEF Threads
<1> DEFINE c == Chunk
           p == ip_thread_count
           q == VertexCount % ip_thread_count
<1>2. c \in Nat /\ p \in Nat /\ q \in Nat /\ VertexCount = (p * c) + q
  BY ChunkFacts
<1>3. Start(t) = c * t /\ Start(t + 1) = c * (t + 1)
  BY DEF Start
<1>4. End(t) = c * t + IF IsLast(t) THEN c + q ELSE c
  BY DEF End, Start, ChunkOf
<1>5. IsLast(t) <=> t + 1 = p
  BY <1>1, <1>2 DEF IsLast
<1> HIDE DEF c, p, q
<1>6. c * (t + 1) = (c * t) + c /\ c * t \in Nat /\ p * c = c * p
  BY <1>1, <1>2, Products
<1>7. t + 1 <= p
  BY <1>1, <1>2 DEF p
<1>8. c * (t + 1) <= c * p
  <2>1. (t + 1) * c <= p * c
    BY <1>1, <1>2, <1>7, Products
  <2> QED
    BY <1>1, <1>2, <2>1
<1>9. t = 0 => c * t = 0
  BY <1>2
<1>10. IsLast(t) => c * (t + 1) = c * p
  BY <1>5
<1>11. ~IsLast(t) => t + 1 \in Threads
  BY <1>1, <1>2, <1>5, <1>7 DEF Threads, p
<1>12. c * t \in Nat /\ c * p \in Nat /\ c * (t + 1) \in Nat /\ VertexCount = (c * p) + q
  BY <1>1, <1>2, <1>6, Products
<1> QED
  BY <1>1, <1>2, <1>3, <1>4, <1>6, <1>8, <1>9, <1>10, <1>11, <1>12

\* They cover the vertices.
LEMMA SharesCover ==
  ASSUME NEW v \in Locations PROVE \E t \in Threads : v \in Share(t)
<1> DEFINE last == ip_thread_count - 1
           bad == {t \in 0 .. last : ~(Start(t) <= v)}
<1>1. last \in Nat /\ last \in Threads /\ Threads = 0 .. last /\ v \in Nat /\ v < VertexCount
  BY ChunkFacts DEF Threads, Locations
<1>2. SUFFICES ASSUME \A t \in Threads : v \notin Share(t) PROVE FALSE
  OBVIOUS
<1> HIDE DEF last
<1>3. ASSUME bad # {} PROVE FALSE
  <2>1. PICK t \in bad : t = 0 \/ (t \in 1 .. last /\ t - 1 \in 0 .. last /\ t - 1 \notin bad)
    <3>1. bad \in SUBSET (0 .. last)
      OBVIOUS
    <3> HIDE DEF bad
    <3> QED
      BY <1>1, <1>3, <3>1, FirstWrong
  <2>2. CASE t = 0
    BY <1>1, <2>1, <2>2, ShareBounds
  <2>3. CASE t # 0
    <3>1. t - 1 \in Threads /\ (t - 1) + 1 = t /\ Start(t - 1) <= v
      BY <1>1, <2>1, <2>3
    <3>2. ~IsLast(t - 1)
      BY <1>1, <2>1, <2>3 DEF IsLast, last
    <3>3. End(t - 1) = Start(t) /\ Start(t - 1) \in Nat /\ End(t - 1) \in Nat
      BY <3>1, <3>2, ShareBounds
    <3>4. Start(t) <= v
      BY <1>1, <1>2, <3>1, <3>3 DEF Share
    <3> QED
      BY <2>1, <3>4
  <2> QED
    BY <2>2, <2>3
<1>4. Start(last) <= v
  BY <1>1, <1>3
<1>5. End(last) = VertexCount /\ Start(last) \in Nat
  <2>1. IsLast(last)
    BY DEF IsLast, last
  <2> QED
    BY <1>1, <2>1, ShareBounds
<1> QED
  BY <1>1, <1>2, <1>4, <1>5, VertexCountAssumption DEF Share

\* What is in a share is a vertex.
LEMMA ShareOfVertices ==
  ASSUME NEW t \in Threads
  PROVE  /\ Share(t) \subseteq Locations
         /\ \A v : v \in Share(t) <=> v \in Nat /\ Start(t) <= v /\ v < End(t)
<1>1. Start(t) \in Nat /\ End(t) \in Nat /\ End(t) <= VertexCount /\ VertexCount \in Nat
  BY ShareBounds, VertexCountAssumption
<1> QED
  BY <1>1 DEF Share, Locations

\* With as many vertices as threads, no share is empty.
LEMMA SharesNotEmpty ==
  ASSUME ip_thread_count <= VertexCount, NEW t \in Threads
  PROVE  Start(t) < End(t) /\ Start(t) \in Share(t) /\ Start(t) \in Locations
<1>1. Chunk # 0
  <2>1. ASSUME Chunk = 0 PROVE FALSE
    <3>1. ip_thread_count * Chunk = 0
      BY <2>1, ChunkFacts
    <3> QED
      BY <3>1, ChunkFacts
  <2> QED
    BY <2>1
<1>2. Start(t) < End(t)
  <2>1. End(t) = Start(t) + ChunkOf(t) /\ Start(t) \in Nat
    BY ShareBounds DEF End
  <2>2. ChunkOf(t) \in Nat /\ ChunkOf(t) >= 1
    BY <1>1, ChunkFacts DEF ChunkOf
  <2> QED
    BY <2>1, <2>2
<1> QED
  BY <1>2, ShareBounds, ShareOfVertices

\* The range a thread initialises is its share, if it is one of vertices at all.
LEMMA RangeIsShare ==
  ASSUME NEW t \in Threads, LastArgument(t) \in Locations
  PROVE  Start(t) .. LastArgument(t) = Share(t)
<1>1. Start(t) \in Nat /\ End(t) \in Nat /\ End(t) <= VertexCount
  BY ShareBounds, VertexCountAssumption
<1>2. VertexCount < IdLimit /\ VertexCount \in Nat /\ IdLimit \in Nat
  BY VertexCountAssumption
<1>3. LastArgument(t) = (End(t) - 1) % IdLimit
  <2>1. ChunkOf(t) \in Nat
    BY ChunkFacts DEF ChunkOf
  <2>2. Start(t) + (ChunkOf(t) - 1) = (Start(t) + ChunkOf(t)) - 1
    BY <1>1, <2>1
  <2> QED
    BY <2>2 DEF LastArgument, End
<1>4. CASE End(t) = 0
  <2>1. (0 - 1) % IdLimit = IdLimit - 1
    BY <1>2
  <2> QED
    BY <1>2, <1>3, <1>4, <2>1 DEF Locations
<1>5. CASE End(t) # 0
  <2>1. LastArgument(t) = End(t) - 1
    BY <1>1, <1>2, <1>3, <1>5, SmallRemainder
  <2> QED
    BY <2>1 DEF Share
<1> QED
  BY <1>4, <1>5

\* If the ranges of all threads are ranges of vertices, there are as many vertices as
\* threads.
LEMMA RangesProper ==
  ASSUME \A t \in Threads : LastArgument(t) \in Locations
  PROVE  ip_thread_count <= VertexCount
<1> SUFFICES ASSUME VertexCount < ip_thread_count PROVE FALSE
  BY ChunkFacts
<1>1. Chunk = 0
  <2>1. CASE Chunk # 0
    <3>1. ip_thread_count <= Chunk * ip_thread_count
      BY <2>1, ChunkFacts, Products
    <3>2. Chunk * ip_thread_count = ip_thread_count * Chunk
      BY ChunkFacts
    <3>3. ip_thread_count * Chunk \in Nat
      BY ChunkFacts, Products
    <3> QED
      BY <3>1, <3>2, <3>3, ChunkFacts
  <2> QED
    BY <2>1
<1>2. 0 \in Threads /\ ~IsLast(0)
  BY ChunkFacts DEF Threads, IsLast
<1>3. LastArgument(0) = (0 - 1) % IdLimit
  <2>1. Start(0) = 0 /\ ChunkOf(0) = 0
    BY <1>1, <1>2 DEF Start, ChunkOf
  <2> QED
    BY <2>1 DEF LastArgument
<1>4. (0 - 1) % IdLimit = IdLimit - 1
  BY VertexCountAssumption
<1> QED
  BY <1>2, <1>3, <1>4, VertexCountAssumption DEF Locations

------------------------------------------------------------------------------
(* How often a vertex occurs in a list.                                    *)

\* Not at all in an empty one.
LEMMA NoOccurrence ==
  ASSUME NEW x PROVE Occurrences(x, << >>) = 0
<1>1. {k \in DOMAIN << >> : << >>[k] = x} = {}
  OBVIOUS
<1> QED
  BY <1>1, FS_EmptySet DEF Occurrences

\* An entry behind a list adds one occurrence, of what the entry is.
LEMMA OccurrencesAppend ==
  ASSUME NEW S, NEW list \in Seq(S), NEW y \in S, NEW x
  PROVE  /\ Occurrences(x, list) \in Nat
         /\ Occurrences(x, Append(list, y)) = Occurrences(x, list) + IF x = y THEN 1 ELSE 0
<1> DEFINE longer == Append(list, y)
           n == Len(list)
           before == {k \in 1 .. n : list[k] = x}
           after == {k \in 1 .. n + 1 : longer[k] = x}
<1>1. /\ n \in Nat /\ DOMAIN list = 1 .. n /\ DOMAIN longer = 1 .. n + 1
      /\ longer[n + 1] = y
      /\ \A k \in 1 .. n : longer[k] = list[k]
  <2>1. /\ n \in Nat /\ DOMAIN list = 1 .. n
    BY LenProperties
  <2>2. /\ longer \in Seq(S) /\ Len(longer) = n + 1 /\ longer[n + 1] = y
        /\ \A k \in 1 .. n : longer[k] = list[k]
    BY AppendProperties
  <2>3. DOMAIN longer = 1 .. n + 1
    BY <2>2, LenProperties
  <2> QED
    BY <2>1, <2>2, <2>3
<1>2. Occurrences(x, list) = Cardinality(before) /\ Occurrences(x, longer) = Cardinality(after)
  BY <1>1 DEF Occurrences
<1>3. IsFiniteSet(before)
  <2>1. IsFiniteSet(1 .. n)
    BY <1>1, FS_Interval
  <2>2. before \subseteq 1 .. n
    OBVIOUS
  <2> QED
    BY <2>1, <2>2, FS_Subset
<1>4. Cardinality(before) \in Nat
  BY <1>3, FS_CardinalityType
<1>5. n + 1 \notin before
  BY <1>1
<1>6. CASE x = y
  <2>1. after = before \cup {n + 1}
    BY <1>1, <1>6
  <2>2. Cardinality(after) = Cardinality(before) + 1
    BY <1>3, <1>5, <2>1, FS_AddElement
  <2> QED
    BY <1>2, <1>4, <1>6, <2>2
<1>7. CASE x # y
  <2>1. after = before
    BY <1>1, <1>7
  <2>2. Cardinality(before) + 0 = Cardinality(before)
    BY <1>4
  <2> HIDE DEF before, after, longer
  <2>3. Occurrences(x, longer) = Occurrences(x, list) + 0 /\ Occurrences(x, list) \in Nat
    BY <1>2, <1>4, <2>1, <2>2
  <2> QED
    BY <1>7, <2>3 DEF longer
<1> QED
  BY <1>6, <1>7

\* The first entries of a list, one more and all of them.
LEMMA FirstEntries ==
  ASSUME NEW S, NEW list \in Seq(S)
  PROVE  /\ \A k \in 0 .. Len(list) : SubSeq(list, 1, k) \in Seq(S)
         /\ \A k \in Nat : k + 1 \in 1 .. Len(list) =>
              SubSeq(list, 1, k + 1) = Append(SubSeq(list, 1, k), list[k + 1])
         /\ SubSeq(list, 1, Len(list)) = list
<1>1. /\ Len(list) \in Nat
      /\ \A i \in 1 .. Len(list) : list[i] \in S
  BY LenProperties, ElementOfSeq
<1>2. ASSUME NEW k \in 0 .. Len(list)
      PROVE  /\ SubSeq(list, 1, k) \in Seq(S) /\ Len(SubSeq(list, 1, k)) = k
             /\ \A i \in 1 .. k : SubSeq(list, 1, k)[i] = list[i]
  <2>1. 1 \in Int /\ k \in Int /\ k \in Nat /\ \A i \in 1 .. k : list[i] \in S
    BY <1>1
  <2>2. /\ SubSeq(list, 1, k) \in Seq(S)
        /\ Len(SubSeq(list, 1, k)) = IF 1 <= k THEN k - 1 + 1 ELSE 0
        /\ \A i \in 1 .. k - 1 + 1 : SubSeq(list, 1, k)[i] = list[1 + i - 1]
    BY <2>1, SubSeqProperties
  <2>3. \A i \in 1 .. k : i \in 1 .. k - 1 + 1 /\ 1 + i - 1 = i
    BY <2>1
  <2> QED
    BY <2>1, <2>2, <2>3
<1>3. ASSUME NEW k \in Nat, k + 1 \in 1 .. Len(list)
      PROVE  SubSeq(list, 1, k + 1) = Append(SubSeq(list, 1, k), list[k + 1])
  <2>1. k \in 0 .. Len(list) /\ k + 1 \in 0 .. Len(list) /\ list[k + 1] \in S
    BY <1>1, <1>3
  <2> DEFINE a == SubSeq(list, 1, k + 1)
             b == SubSeq(list, 1, k)
             c == Append(b, list[k + 1])
  <2>2. /\ a \in Seq(S) /\ Len(a) = k + 1 /\ \A i \in 1 .. k + 1 : a[i] = list[i]
        /\ b \in Seq(S) /\ Len(b) = k /\ \A i \in 1 .. k : b[i] = list[i]
    BY <1>2, <2>1
  <2> HIDE DEF a, b
  <2>3. /\ c \in Seq(S) /\ Len(c) = k + 1 /\ c[k + 1] = list[k + 1]
        /\ \A i \in 1 .. k : c[i] = b[i]
    BY <2>1, <2>2, AppendProperties
  <2> HIDE DEF c
  <2>4. \A i \in 1 .. k + 1 : a[i] = c[i]
    BY <2>2, <2>3
  <2>5. a = c
    BY <2>2, <2>3, <2>4, SeqEqual
  <2> QED
    BY <2>5 DEF a, b, c
<1>4. SubSeq(list, 1, Len(list)) = list
  <2> DEFINE a == SubSeq(list, 1, Len(list))
  <2>1. Len(list) \in 0 .. Len(list)
    BY <1>1
  <2>2. a \in Seq(S) /\ Len(a) = Len(list) /\ \A i \in 1 .. Len(list) : a[i] = list[i]
    BY <1>2, <2>1
  <2> HIDE DEF a
  <2>3. a = list
    BY <2>2, SeqEqual
  <2> QED
    BY <2>3 DEF a
<1> QED
  BY <1>2, <1>3, <1>4

------------------------------------------------------------------------------
(* The invariants.                                                         *)

\* How many vertices have an offset in the .idx file.
Begun == IF numberOfEdges = None THEN source ELSE source + 1

\* No list is longer than asked for, and none has its own vertex.
ProperLists ==
  \A v \in Locations :
    /\ Len(graph[v]) <= maxOutDegree
    /\ \A i \in DOMAIN graph[v] : graph[v][i] # v

\* What the generator has drawn is what it has written.
Drawing ==
  /\ "directed" \in build
  /\ ProperLists
  /\ files.idx = [i \in 1 .. Begun |-> Offset(graph, i - 1)]
  /\ files.adj = Concatenated(graph, Begun)
  /\ \A v \in Locations : v >= Begun => graph[v] = << >>
  /\ totalNumberOfEdges = Offset(graph, source) + IF numberOfEdges = None THEN 0 ELSE numberOfEdges
  /\ numberOfEdges # None =>
       /\ source < VertexCount
       /\ exclusions # << >>
       /\ exclusions[1] = source
       /\ Len(exclusions) = Len(graph[source]) + 1
       /\ Len(graph[source]) <= numberOfEdges
       /\ numberOfEdges <= VertexCount - 1
       /\ numberOfEdges <= maxOutDegree

\* The files are those of the graph.
Complete ==
  /\ \E words \in {1, Words(build)} : files = FilesOf(graph, words)
  /\ "directed" \notin build => Symmetric(graph)
  /\ exclusions # << >> => ProperLists

FilesInv == IF Generated THEN Complete ELSE Drawing

\* The labels between two barriers.
Phases ==
  {{"config"}, {"init", "undefined", "initialised"}, {"offsets", "offsets_read"},
   {"edges", "read", "first", "connect", "connected"},
   {"mirror"}, {"free"}, {"loaded"}, {"exit"}}

\* No thread is past a barrier that another one has not reached.
SamePhase == \E P \in Phases : \A t \in Threads : pc[t] \in P

\* Nothing is loaded before the generator is done.
ConfigInv ==
  \A t \in Threads :
    /\ pc[t] = "config" <=> ip_edges_count = None
    /\ pc[t] # "config" => Generated /\ ip_edges_count = files.edges
    /\ pc[t] = "config" => all_offsets = None /\ all_out_neighbours = None
    /\ pc[t] # "config" =>
         /\ all_offsets \in [Locations -> Nat \cup {None}]
         /\ all_out_neighbours \in [0 .. ip_edges_count - 1 -> Locations \cup {None}]

\* Every thread has a vertex.
SharesInv ==
  \A t \in Threads :
    /\ pc[t] = "initialised" => LastArgument(t) \in Locations
    /\ pc[t] \notin {"config", "init", "undefined", "initialised"} =>
         ip_thread_count <= VertexCount

\* No list is connected before the edges are read.
Early == {"config", "init", "undefined", "initialised", "offsets", "offsets_read", "exit"}

Undirected == "directed" \notin build

\* What the counts of the neighbours may be.
CountsInv ==
  \A t \in Threads, v \in Locations :
    /\ pc[t] \in {"config", "init", "undefined", "initialised"} =>
         out_neighbour_count[v] \in {None, 0} /\ in_neighbour_count[v] \in {None, 0}
    /\ pc[t] \notin {"config", "init", "undefined"} /\ v \in Share(t) =>
         out_neighbour_count[v] \in {0, Len(graph[v])}
    /\ pc[t] \notin {"config", "init", "undefined", "mirror", "free", "loaded"} /\ v \in Share(t) =>
         in_neighbour_count[v] \in IF Undirected THEN {0, Len(graph[v])} ELSE {0}

\* The offsets are those of the files.
OffsetsInv ==
  \A t \in Threads :
    /\ pc[t] = "offsets_read" =>
         /\ Words(build) * End(t) <= Len(files.idx)
         /\ \A v \in Share(t) : all_offsets[v] = OffsetRead(v)
    /\ pc[t] \notin Early \cup {"loaded"} => all_offsets = [v \in Locations |-> Offset(graph, v)]

\* Who reads the edges, and from where.
CriticalInv ==
  \A t \in Threads :
    /\ pc[t] = "read" <=> critical = t
    /\ pc[t] = "read" => position = Offset(graph, Start(t))

\* The edges of a share that has been read.
EdgesRead(t) ==
  \A e \in Offset(graph, Start(t)) .. Offset(graph, End(t)) - 1 :
    all_out_neighbours[e] = files.adj[e + 1]

\* Vertex v has been connected to its list, and its count set.
ListSet(v) ==
  /\ "out_ids" \in build => out_neighbours[v] = Offset(graph, v)
  /\ "in_ids" \in build /\ Undirected => in_neighbours[v] = Offset(graph, v)
CountSet(v) ==
  /\ "out_count" \in build => out_neighbour_count[v] = Len(graph[v])
  /\ "in_count" \in build /\ Undirected => in_neighbour_count[v] = Len(graph[v])

ConnectInv ==
  \A t \in Threads :
    /\ pc[t] \in {"first", "connect", "connected", "mirror", "free"} => EdgesRead(t)
    /\ pc[t] = "loaded" /\ ("out_ids" \in build \/ Undirected) => EdgesRead(t)
    /\ pc[t] = "connect" =>
         /\ next[t] \in Start(t) .. End(t)
         /\ t = 0 => next[t] # 0
         /\ \A v \in Share(t) : v < next[t] => ListSet(v)
         /\ \A v \in Share(t) : v + 1 < next[t] => CountSet(v)
    /\ pc[t] \in {"connected", "mirror", "free", "loaded"} =>
         \A v \in Share(t) : ListSet(v) /\ CountSet(v)

\* The list of in-neighbours of v that the mirroring has built so far.
Mirrored(v) == IF in_neighbours[v] = None THEN << >> ELSE in_neighbours[v]

\* How many edges of u the mirroring has been over.
EdgesDone(u) ==
  IF u < mirror.i THEN Len(graph[u]) ELSE IF u = mirror.i THEN mirror.j - Offset(graph, u) ELSE 0

MirrorInv ==
  /\ mirror.j \in Offset(graph, mirror.i) .. Offset(graph, mirror.i + 1)
  /\ \A v \in Locations :
       /\ Mirrored(v) \in Seq(Locations)
       /\ in_neighbour_count[v] = Len(Mirrored(v))
       /\ \A u \in Locations :
            Occurrences(u, Mirrored(v)) = Occurrences(v, SubSeq(graph[u], 1, EdgesDone(u)))

Mirrors == {"directed", "in_ids"} \subseteq build

MirroringInv ==
  /\ mirror \in [i : Locations, j : Nat]
  /\ in_neighbours = [v \in Locations |-> in_neighbours[v]]
  /\ \A t \in Threads :
       /\ pc[t] \notin {"mirror", "free", "loaded"} =>
            /\ mirror = [i |-> 0, j |-> 0]
            /\ "directed" \in build => \A v \in Locations : in_neighbours[v] = None
       /\ pc[t] \in {"mirror", "free", "loaded"} /\ Mirrors => MirrorInv
       /\ pc[t] \in {"free", "loaded"} /\ Mirrors =>
            mirror = [i |-> VertexCount - 1, j |-> ip_edges_count]

LoaderInv ==
  /\ SamePhase /\ ConfigInv /\ SharesInv /\ CountsInv /\ OffsetsInv /\ CriticalInv
  /\ ConnectInv /\ MirroringInv /\ ProperBuild(build)

Inv == TypeOK /\ FilesInv /\ LoaderInv

------------------------------------------------------------------------------
(* The generator.                                                          *)

\* What the generator and the files are like.
GeneratorState == FilesTypeOK /\ GeneratorTypeOK /\ FilesInv

\* A number is not the mark of a file that was never written.
LEMMA NumbersAreNotNone ==
  /\ \A n \in Nat : n # None
  /\ \A list \in Seq(Locations) : list # None
<1>1. None \notin Nat /\ None \notin Seq(Nat)
  BY NoneAssumption
<1>2. Locations \subseteq Nat
  BY VertexCountAssumption DEF Locations
<1>3. \A list \in Seq(Locations) : list \in Seq(Nat)
  BY <1>2, SeqMonotonic
<1> QED
  BY <1>1, <1>3

\* Before it is done, its variables have their types and its files are those drawn.
LEMMA DrawingTypes ==
  ASSUME GeneratorState, ~Generated
  PROVE  /\ graph \in Graphs /\ files.edges = None
         /\ files = [edges |-> None, idx |-> files.idx, adj |-> files.adj]
         /\ files.idx \in Seq(Nat) /\ files.adj \in Seq(Locations)
         /\ maxOutDegree \in Nat /\ source \in 0 .. VertexCount
         /\ exclusions \in Seq(Locations) /\ numberOfEdges \in Nat \cup {None}
         /\ totalNumberOfEdges \in Nat
         /\ VertexCount \in Nat \ {0} /\ Drawing
<1>1. files.edges = None /\ Drawing
  BY DEF GeneratorState, FilesInv, Generated
<1>2. files = [edges |-> files.edges, idx |-> files.idx, adj |-> files.adj]
  BY DEF GeneratorState, FilesTypeOK
<1> QED
  BY <1>1, <1>2, VertexCountAssumption DEF GeneratorState, FilesTypeOK, GeneratorTypeOK, Graphs

\* What is appended to the second of two lists is behind both.
LEMMA ConcatAppend ==
  ASSUME NEW S, NEW a \in Seq(S), NEW b \in Seq(S), NEW x \in S
  PROVE  a \o Append(b, x) = Append(a \o b, x)
<1>1. <<x>> \in Seq(S)
  OBVIOUS
<1>2. a \o b \in Seq(S)
  BY ConcatProperties
<1>3. Append(b, x) = b \o <<x>> /\ Append(a \o b, x) = (a \o b) \o <<x>>
  BY <1>2, AppendIsConcat
<1> DEFINE one == <<x>>
<1> HIDE DEF one
<1>4. (a \o b) \o one = a \o (b \o one)
  BY <1>1, ConcatAssociative DEF one
<1> QED
  BY <1>3, <1>4 DEF one

\* A new source begins with an empty list.
LEMMA DrawDegreeKeeps ==
  ASSUME GeneratorState, ~Generated, DrawDegree, build' = build PROVE GeneratorState'
<1>0. /\ graph \in Graphs /\ files.edges = None
      /\ files = [edges |-> None, idx |-> files.idx, adj |-> files.adj]
      /\ files.idx \in Seq(Nat) /\ files.adj \in Seq(Locations)
      /\ maxOutDegree \in Nat /\ source \in 0 .. VertexCount
      /\ exclusions \in Seq(Locations) /\ numberOfEdges \in Nat \cup {None}
      /\ totalNumberOfEdges \in Nat
      /\ VertexCount \in Nat \ {0} /\ Drawing
  BY DrawingTypes
<1> USE <1>0
<1>1. PICK random \in 0 .. maxOutDegree :
        /\ numberOfEdges' = Smaller(random, VertexCount - 1)
        /\ totalNumberOfEdges' = totalNumberOfEdges + numberOfEdges'
  BY DEF DrawDegree
<1>2. /\ source < VertexCount /\ numberOfEdges = None /\ exclusions' = <<source>>
      /\ files' = [files EXCEPT !.idx = Append(@, totalNumberOfEdges)]
      /\ maxOutDegree' = maxOutDegree /\ source' = source /\ graph' = graph
  BY DEF DrawDegree
<1>3. /\ numberOfEdges' \in Nat /\ numberOfEdges' <= VertexCount - 1
      /\ numberOfEdges' <= maxOutDegree /\ totalNumberOfEdges' \in Nat
  BY <1>1, SMTT(30) DEF Smaller
<1>4. numberOfEdges' # None
  BY <1>3, NumbersAreNotNone
<1>5. source \in Locations /\ source \in Nat
  BY <1>2 DEF Locations
<1>6. /\ Begun = source /\ graph[source] = << >>
      /\ totalNumberOfEdges = Offset(graph, source)
      /\ files.idx = [i \in 1 .. source |-> Offset(graph, i - 1)]
      /\ files.adj = Concatenated(graph, source)
      /\ \A v \in Locations : v >= source => graph[v] = << >>
  <2>1. Begun = source
    BY <1>2 DEF Begun
  <2>2. Offset(graph, source) \in Nat
    BY ConcatenatedTyped
  <2> QED
    BY <1>2, <1>5, <2>1, <2>2 DEF Drawing
<1>7. Begun' = source + 1
  BY <1>2, <1>4 DEF Begun
<1>8. files' = [edges |-> None, idx |-> Append(files.idx, totalNumberOfEdges), adj |-> files.adj]
  BY <1>2
<1>9. [i \in 1 .. source + 1 |-> Offset(graph, i - 1)] = Append(files.idx, totalNumberOfEdges)
  <2> DEFINE longer == [i \in 1 .. source + 1 |-> Offset(graph, i - 1)]
  <2>1. \A i \in 1 .. source + 1 : i - 1 \in 0 .. VertexCount
    BY <1>5, <1>2
  <2>2. \A i \in 1 .. source + 1 : Offset(graph, i - 1) \in Nat
    <3>1. \A n \in 0 .. VertexCount : Offset(graph, n) \in Nat
      BY ConcatenatedTyped
    <3> QED
      BY <2>1, <3>1
  <2>3. longer \in Seq(Nat) /\ Len(longer) = source + 1
    <3>1. longer \in [1 .. source + 1 -> Nat]
      BY <2>2
    <3>2. source + 1 \in Nat
      BY <1>5
    <3> HIDE DEF longer
    <3> QED
      BY <3>1, <3>2, SMTT(30)
  <2>4. Len(files.idx) = source /\ \A i \in 1 .. source : files.idx[i] = Offset(graph, i - 1)
    BY <1>5, <1>6
  <2>5. /\ Append(files.idx, totalNumberOfEdges) \in Seq(Nat)
        /\ Len(Append(files.idx, totalNumberOfEdges)) = source + 1
        /\ \A i \in 1 .. source : Append(files.idx, totalNumberOfEdges)[i] = files.idx[i]
        /\ Append(files.idx, totalNumberOfEdges)[source + 1] = totalNumberOfEdges
    <3>1. files.idx \in Seq(Nat) /\ totalNumberOfEdges \in Nat
      OBVIOUS
    <3> QED
      BY <1>5, <2>4, <3>1, AppendProperties
  <2>6. \A i \in 1 .. source + 1 : i \in 1 .. source \/ (i = source + 1 /\ i - 1 = source)
    BY <1>5, SMTT(30)
  <2>7. \A i \in 1 .. source + 1 : longer[i] = Append(files.idx, totalNumberOfEdges)[i]
    BY <1>6, <2>4, <2>5, <2>6
  <2> HIDE DEF longer
  <2>8. longer = Append(files.idx, totalNumberOfEdges)
    BY <2>3, <2>5, <2>7, SeqEqual
  <2> QED
    BY <2>8 DEF longer
<1>10. Concatenated(graph, source + 1) = files.adj
  <2>1. Concatenated(graph, source + 1) = files.adj \o << >>
    BY <1>5, <1>6, ConcatenatedStep
  <2> QED
    BY <2>1, ConcatEmptySeq
<1>11. Drawing'
  <2>1. exclusions' # << >> /\ exclusions'[1] = source /\ Len(exclusions') = 1
    BY <1>2
  <2>2. Len(graph[source]) = 0
    BY <1>6
  <2>3. ProperLists'
    <3>1. ProperLists
      BY DEF Drawing
    <3> QED
      BY <1>2, <3>1 DEF ProperLists
  <2>4. /\ files'.idx = [i \in 1 .. Begun' |-> Offset(graph', i - 1)]
        /\ files'.adj = Concatenated(graph', Begun')
    BY <1>2, <1>7, <1>8, <1>9, <1>10
  <2>5. \A v \in Locations : v >= Begun' => graph'[v] = << >>
    <3>1. \A v \in Locations : v >= source + 1 => v >= source
      BY <1>5, VertexCountAssumption DEF Locations
    <3> QED
      BY <1>2, <1>6, <1>7, <3>1
  <2>6. totalNumberOfEdges' = Offset(graph', source') +
          IF numberOfEdges' = None THEN 0 ELSE numberOfEdges'
    BY <1>1, <1>2, <1>4, <1>6
  <2>7. "directed" \in build'
    BY DEF Drawing
  <2> QED
    <3>1. /\ source' < VertexCount /\ exclusions' # << >> /\ exclusions'[1] = source'
          /\ Len(exclusions') = Len(graph'[source']) + 1
          /\ Len(graph'[source']) <= numberOfEdges'
          /\ numberOfEdges' <= VertexCount - 1 /\ numberOfEdges' <= maxOutDegree'
      BY <1>2, <1>3, <2>1, <2>2
    <3> HIDE <1>0
    <3> QED
      BY <2>3, <2>4, <2>5, <2>6, <2>7, <3>1 DEF Drawing
<1>12. exclusions' \in Seq(Locations)
  BY <1>2, <1>5
<1>13. Append(files.idx, totalNumberOfEdges) \in Seq(Nat)
  BY AppendProperties
<1>14. FilesTypeOK'
  BY <1>2, <1>8, <1>13 DEF FilesTypeOK, Graphs
<1>15. GeneratorTypeOK'
  BY <1>2, <1>3, <1>12 DEF GeneratorTypeOK
<1>16. ~Generated'
  BY <1>8 DEF Generated
<1> QED
  BY <1>11, <1>14, <1>15, <1>16 DEF GeneratorState, FilesInv

\* An edge goes behind the others, to another vertex.
LEMMA DrawEdgeKeeps ==
  ASSUME GeneratorState, ~Generated, DrawEdge, build' = build PROVE GeneratorState'
<1>0. /\ graph \in Graphs /\ files.edges = None
      /\ files = [edges |-> None, idx |-> files.idx, adj |-> files.adj]
      /\ files.idx \in Seq(Nat) /\ files.adj \in Seq(Locations)
      /\ maxOutDegree \in Nat /\ source \in 0 .. VertexCount
      /\ exclusions \in Seq(Locations) /\ numberOfEdges \in Nat \cup {None}
      /\ totalNumberOfEdges \in Nat
      /\ VertexCount \in Nat \ {0} /\ Drawing
  BY DrawingTypes
<1> USE <1>0
<1>1. PICK d \in NextIDs(VertexCount, exclusions, IdLimit) :
        /\ exclusions' = Append(exclusions, d)
        /\ files' = [files EXCEPT !.adj = Append(@, d)]
        /\ graph' = [graph EXCEPT ![source] = Append(@, d)]
  BY DEF DrawEdge
<1>2. /\ numberOfEdges # None /\ Len(exclusions) <= numberOfEdges
      /\ maxOutDegree' = maxOutDegree /\ source' = source
      /\ numberOfEdges' = numberOfEdges /\ totalNumberOfEdges' = totalNumberOfEdges
  BY DEF DrawEdge
<1>3. /\ source \in Locations /\ source \in Nat /\ exclusions # << >> /\ exclusions[1] = source
      /\ Len(exclusions) = Len(graph[source]) + 1
      /\ numberOfEdges \in Nat /\ numberOfEdges <= VertexCount - 1 /\ numberOfEdges <= maxOutDegree
      /\ graph[source] \in Seq(Locations) /\ Len(graph[source]) \in Nat
  <2>1. source < VertexCount /\ source \in Locations
    BY <1>2 DEF Drawing, Locations
  <2> QED
    BY <1>2, <2>1 DEF Drawing, Graphs
<1>4. d \in Locations /\ d # source
  <2>1. Locations \subseteq Nat
    BY DEF Locations
  <2>2. exclusions \in Seq(Nat) /\ Len(exclusions) \in 1 .. VertexCount - 1
    BY <1>2, <1>3, <2>1, SeqMonotonic, SMTT(30)
  <2>3. VertexCount \in Nat /\ IdLimit \in Nat /\ VertexCount < IdLimit
    BY VertexCountAssumption
  <2>4. d \in 0 .. VertexCount - 1 /\ d # exclusions[1]
    BY <1>1, <2>2, <2>3, NextIDProper
  <2> QED
    BY <1>3, <2>4 DEF Locations
<1>5. /\ Append(graph[source], d) \in Seq(Locations)
      /\ Len(Append(graph[source], d)) = Len(graph[source]) + 1
      /\ \A i \in 1 .. Len(graph[source]) : Append(graph[source], d)[i] = graph[source][i]
      /\ Append(graph[source], d)[Len(graph[source]) + 1] = d
  BY <1>3, <1>4, AppendProperties
<1>6. /\ graph' \in Graphs /\ graph'[source] = Append(graph[source], d)
      /\ \A v \in Locations \ {source} : graph'[v] = graph[v]
  BY <1>1, <1>3, <1>5 DEF Graphs
<1>7. /\ Begun = source + 1 /\ Begun' = source + 1
      /\ files.idx = [i \in 1 .. source + 1 |-> Offset(graph, i - 1)]
      /\ files.adj = Concatenated(graph, source + 1)
      /\ \A v \in Locations : v >= source + 1 => graph[v] = << >>
      /\ totalNumberOfEdges = Offset(graph, source) + numberOfEdges
  <2>1. Begun = source + 1 /\ Begun' = source + 1
    BY <1>2 DEF Begun
  <2> QED
    BY <1>2, <2>1 DEF Drawing
<1>8. \A n \in 0 .. source : /\ Offset(graph', n) = Offset(graph, n)
                             /\ Concatenated(graph', n) = Concatenated(graph, n)
  <2> TAKE n \in 0 .. source
  <2>1. n \in Nat /\ n <= source /\ source \in Nat /\ source < VertexCount
    BY <1>3 DEF Locations
  <2>2. ASSUME NEW v \in 0 .. n - 1 PROVE graph'[v] = graph[v]
    <3>1. v \in Locations \ {source}
      BY <2>1 DEF Locations
    <3> QED
      BY <1>6, <3>1
  <2> QED
    BY <2>1, <2>2, SameConcatenated
<1>9. Concatenated(graph', source + 1) = Append(files.adj, d)
  <2> DEFINE before == Concatenated(graph, source)
  <2>1. before \in Seq(Locations)
    BY ConcatenatedTyped
  <2>2. Concatenated(graph', source + 1) = before \o Append(graph[source], d)
    <3>1. source \in 0 .. source
      BY <1>3
    <3> QED
      BY <1>3, <1>6, <1>8, <3>1, ConcatenatedStep
  <2>3. files.adj = before \o graph[source]
    BY <1>3, <1>7, ConcatenatedStep
  <2> HIDE DEF before
  <2>4. before \o Append(graph[source], d) = Append(before \o graph[source], d)
    <3>1. PICK a, b, x : /\ a \in Seq(Locations) /\ b \in Seq(Locations) /\ x \in Locations
                         /\ a = before /\ b = graph[source] /\ x = d
      BY <1>3, <1>4, <2>1
    <3>2. a \in Seq(Locations) /\ b \in Seq(Locations) /\ x \in Locations
      BY <3>1
    <3> HIDE <1>0
    <3>3. a \o Append(b, x) = Append(a \o b, x)
      BY <3>2, ConcatAppend
    <3> QED
      BY <3>1, <3>3
  <2> QED
    BY <2>2, <2>3, <2>4
<1>10. files' = [edges |-> None, idx |-> files.idx, adj |-> Append(files.adj, d)]
  BY <1>1
<1>11. Drawing'
  <2>1. files'.idx = [i \in 1 .. Begun' |-> Offset(graph', i - 1)]
    <3>1. \A i \in 1 .. source + 1 : i - 1 \in 0 .. source
      BY <1>3, SMTT(30)
    <3>2. [i \in 1 .. source + 1 |-> Offset(graph, i - 1)] =
            [i \in 1 .. source + 1 |-> Offset(graph', i - 1)]
      BY <1>8, <3>1
    <3> QED
      BY <1>7, <1>10, <3>2
  <2>2. files'.adj = Concatenated(graph', Begun')
    BY <1>7, <1>9, <1>10
  <2>3. \A v \in Locations : v >= Begun' => graph'[v] = << >>
    <3>1. \A v \in Locations : v >= source + 1 => v # source
      BY <1>3
    <3> QED
      BY <1>6, <1>7, <3>1
  <2>4. totalNumberOfEdges' = Offset(graph', source') +
          IF numberOfEdges' = None THEN 0 ELSE numberOfEdges'
    <3>1. source \in 0 .. source
      BY <1>3
    <3> QED
      BY <1>2, <1>7, <1>8, <3>1
  <2>5. ProperLists'
    <3>1. ProperLists
      BY DEF Drawing
    <3>2. ASSUME NEW v \in Locations
          PROVE  /\ Len(graph'[v]) <= maxOutDegree
                 /\ \A i \in DOMAIN graph'[v] : graph'[v][i] # v
      <4>1. CASE v = source
        <5>1. Len(graph'[v]) <= maxOutDegree
          BY <1>2, <1>3, <1>5, <1>6, <4>1, SMTT(30)
        <5>2. /\ DOMAIN Append(graph[source], d) = 1 .. Len(graph[source]) + 1
              /\ DOMAIN graph[source] = 1 .. Len(graph[source])
          BY <1>3, <1>5, LenProperties
        <5>3. \A i \in 1 .. Len(graph[source]) : graph[source][i] # source
          BY <1>3, <3>1, <5>2 DEF ProperLists
        <5>4. \A i \in 1 .. Len(graph[source]) + 1 :
                i \in 1 .. Len(graph[source]) \/ i = Len(graph[source]) + 1
          BY <1>3
        <5> QED
          BY <1>4, <1>5, <1>6, <4>1, <5>1, <5>2, <5>3, <5>4
      <4>2. CASE v # source
        BY <1>6, <3>1, <4>2 DEF ProperLists
      <4> QED
        BY <4>1, <4>2
    <3> QED
      BY <1>2, <3>2 DEF ProperLists
  <2>6. /\ exclusions' # << >> /\ exclusions'[1] = source
        /\ Len(exclusions') = Len(graph'[source]) + 1
    <3>1. /\ Append(exclusions, d) # << >>
          /\ Len(Append(exclusions, d)) = Len(exclusions) + 1
          /\ \A i \in 1 .. Len(exclusions) : Append(exclusions, d)[i] = exclusions[i]
      BY <1>4, AppendProperties, SMTT(30)
    <3>2. 1 \in 1 .. Len(exclusions)
      BY <1>3
    <3> QED
      BY <1>1, <1>3, <1>5, <1>6, <3>1, <3>2
  <2>7. Len(graph'[source]) <= numberOfEdges
    BY <1>2, <1>3, <1>5, <1>6
  <2>8. source < VertexCount /\ "directed" \in build'
    BY <1>2 DEF Drawing
  <2> QED
    BY <1>2, <1>3, <2>1, <2>2, <2>3, <2>4, <2>5, <2>6, <2>7, <2>8 DEF Drawing
<1>12. exclusions' \in Seq(Locations) /\ Append(files.adj, d) \in Seq(Locations)
  BY <1>1, <1>4, AppendProperties
<1>13. FilesTypeOK'
  BY <1>6, <1>10, <1>12 DEF FilesTypeOK, Graphs
<1>14. GeneratorTypeOK'
  BY <1>2, <1>12 DEF GeneratorTypeOK
<1>15. ~Generated'
  BY <1>10 DEF Generated
<1> QED
  BY <1>11, <1>13, <1>14, <1>15 DEF GeneratorState, FilesInv

\* The list of a source is complete.
LEMMA NextSourceKeeps ==
  ASSUME GeneratorState, ~Generated, NextSource, build' = build PROVE GeneratorState'
<1>0. /\ graph \in Graphs /\ files.edges = None
      /\ files = [edges |-> None, idx |-> files.idx, adj |-> files.adj]
      /\ files.idx \in Seq(Nat) /\ files.adj \in Seq(Locations)
      /\ maxOutDegree \in Nat /\ source \in 0 .. VertexCount
      /\ exclusions \in Seq(Locations) /\ numberOfEdges \in Nat \cup {None}
      /\ totalNumberOfEdges \in Nat
      /\ VertexCount \in Nat \ {0} /\ Drawing
  BY DrawingTypes
<1> USE <1>0
<1>1. /\ numberOfEdges # None /\ Len(exclusions) > numberOfEdges
      /\ source' = source + 1 /\ numberOfEdges' = None
      /\ maxOutDegree' = maxOutDegree /\ exclusions' = exclusions
      /\ totalNumberOfEdges' = totalNumberOfEdges /\ graph' = graph /\ files' = files
  BY DEF NextSource
<1>2. /\ source \in Locations /\ source \in Nat /\ source < VertexCount
      /\ Len(exclusions) = Len(graph[source]) + 1 /\ Len(graph[source]) <= numberOfEdges
      /\ numberOfEdges \in Nat /\ graph[source] \in Seq(Locations) /\ Len(graph[source]) \in Nat
  <2>1. source < VertexCount /\ source \in Locations
    BY <1>1 DEF Drawing, Locations
  <2> QED
    BY <1>1, <2>1 DEF Drawing, Graphs
<1>3. Len(graph[source]) = numberOfEdges
  BY <1>1, <1>2
<1>4. Begun = source + 1 /\ Begun' = source + 1
  BY <1>1 DEF Begun
<1>5. totalNumberOfEdges = Offset(graph, source + 1)
  <2>1. totalNumberOfEdges = Offset(graph, source) + numberOfEdges
    BY <1>1 DEF Drawing
  <2> QED
    BY <1>2, <1>3, <2>1, ListOfVertex
<1>6. Offset(graph, source + 1) + 0 = Offset(graph, source + 1)
  BY <1>5
<1>7. ProperLists'
  BY <1>1 DEF Drawing, ProperLists
<1>8. Drawing'
  BY <1>1, <1>4, <1>5, <1>6, <1>7 DEF Drawing
<1>9. GeneratorTypeOK'
  BY <1>1, <1>2 DEF GeneratorTypeOK
<1>10. FilesTypeOK' /\ ~Generated'
  BY <1>1 DEF GeneratorState, FilesTypeOK, Generated
<1> QED
  BY <1>8, <1>9, <1>10 DEF GeneratorState, FilesInv

\* The files are complete.
LEMMA WriteConfigKeeps ==
  ASSUME GeneratorState, ~Generated, WriteConfig, build' = build PROVE GeneratorState'
<1>0. /\ graph \in Graphs /\ files.edges = None
      /\ files = [edges |-> None, idx |-> files.idx, adj |-> files.adj]
      /\ files.idx \in Seq(Nat) /\ files.adj \in Seq(Locations)
      /\ maxOutDegree \in Nat /\ source \in 0 .. VertexCount
      /\ exclusions \in Seq(Locations) /\ numberOfEdges \in Nat \cup {None}
      /\ totalNumberOfEdges \in Nat
      /\ VertexCount \in Nat \ {0} /\ Drawing
  BY DrawingTypes
<1> USE <1>0
<1>1. /\ source = VertexCount /\ files' = [files EXCEPT !.edges = totalNumberOfEdges]
      /\ generatorVars' = generatorVars /\ graph' = graph
      /\ maxOutDegree' = maxOutDegree /\ drawVars' = drawVars
  BY DEF WriteConfig, generatorVars
<1>2. source' = source /\ exclusions' = exclusions /\ numberOfEdges' = numberOfEdges
      /\ totalNumberOfEdges' = totalNumberOfEdges
  BY <1>1 DEF drawVars
<1>3. numberOfEdges = None
  BY <1>1 DEF Drawing
<1>4. Begun = VertexCount
  BY <1>1, <1>3 DEF Begun
<1>5. Offset(graph, VertexCount) \in Nat
  BY ConcatenatedTyped
<1>6. /\ totalNumberOfEdges = Offset(graph, VertexCount)
      /\ files.idx = [i \in 1 .. VertexCount |-> Offset(graph, i - 1)]
      /\ files.adj = Concatenated(graph, VertexCount)
  BY <1>1, <1>3, <1>4, <1>5 DEF Drawing
<1>7. files' = [edges |-> totalNumberOfEdges, idx |-> files.idx, adj |-> files.adj]
  BY <1>1
<1>8. files' = FilesOf(graph', 1)
  BY <1>1, <1>6, <1>7, FilesOfOneWord
<1>9. ProperLists' /\ "directed" \in build'
  BY <1>1 DEF Drawing, ProperLists
<1>10. Complete'
  BY <1>8, <1>9 DEF Complete
<1>11. Generated'
  BY <1>7, NumbersAreNotNone DEF Generated
<1>12. FilesTypeOK'
  BY <1>1, <1>7 DEF FilesTypeOK, Graphs
<1>13. GeneratorTypeOK'
  BY <1>1, <1>2 DEF GeneratorTypeOK
<1> QED
  BY <1>10, <1>11, <1>12, <1>13 DEF GeneratorState, FilesInv

\* The generator keeps to its files and its types.
LEMMA GenerateKeeps ==
  ASSUME GeneratorState, Generate PROVE GeneratorState'
<1>1. ~Generated /\ GeneratorStep /\ build' = build
  BY DEF Generate
<1> QED
  BY <1>1, DrawDegreeKeeps, DrawEdgeKeeps, NextSourceKeeps, WriteConfigKeeps DEF GeneratorStep

\* So do the threads, which read the files only.
LEMMA LoaderKeepsFiles ==
  ASSUME GeneratorState, UNCHANGED <<generatorVars, sharedVars>> PROVE GeneratorState'
<1>1. /\ graph' = graph /\ files' = files /\ build' = build /\ maxOutDegree' = maxOutDegree
      /\ source' = source /\ exclusions' = exclusions /\ numberOfEdges' = numberOfEdges
      /\ totalNumberOfEdges' = totalNumberOfEdges
  BY DEF generatorVars, drawVars, sharedVars
<1>2. FilesTypeOK' /\ GeneratorTypeOK'
  BY <1>1 DEF GeneratorState, FilesTypeOK, GeneratorTypeOK
<1>3. ProperLists' <=> ProperLists
  BY <1>1 DEF ProperLists
<1>4. Begun' = Begun /\ (Generated' <=> Generated)
  BY <1>1 DEF Begun, Generated
<1>5. Drawing => Drawing'
  BY <1>1, <1>3, <1>4 DEF Drawing
<1>6. Complete => Complete'
  BY <1>1, <1>3 DEF Complete
<1> QED
  BY <1>2, <1>4, <1>5, <1>6 DEF GeneratorState, FilesInv

\* At first nothing is drawn, or the files have been written by another tool.
LEMMA GeneratorInit ==
  ASSUME Init PROVE GeneratorState /\ ProperBuild(build)
<1>1. /\ maxOutDegree \in MaxOutDegrees /\ source = 0 /\ exclusions = << >>
      /\ numberOfEdges = None /\ totalNumberOfEdges = 0
  BY DEF Init, GeneratorStart
<1>2. GeneratorTypeOK
  BY <1>1, GeneratorAssumption, VertexCountAssumption DEF GeneratorTypeOK
<1>3. CASE NoFiles /\ build \in Builds
  <2>1. /\ graph = [v \in Locations |-> << >>]
        /\ files = [edges |-> None, idx |-> << >>, adj |-> << >>]
    BY <1>3 DEF NoFiles
  <2>2. graph \in Graphs /\ FilesTypeOK
    BY <2>1 DEF Graphs, FilesTypeOK
  <2>3. ProperBuild(build) /\ "directed" \in build
    BY <1>3, GeneratorAssumption
  <2>4. Begun = 0 /\ ~Generated
    BY <1>1, <2>1 DEF Begun, Generated
  <2>5. Concatenated(graph, 0) = << >> /\ Offset(graph, 0) = 0
    <3>1. Concatenated(graph, 0) = << >>
      BY <2>2, ConcatenatedNone
    <3> QED
      BY <3>1 DEF Offset
  <2>6. ProperLists
    <3>1. maxOutDegree \in Nat
      BY <1>2 DEF GeneratorTypeOK
    <3> QED
      BY <2>1, <3>1 DEF ProperLists
  <2>7. << >> = [i \in 1 .. 0 |-> Offset(graph, i - 1)]
    OBVIOUS
  <2>8. Drawing
    BY <1>1, <2>1, <2>3, <2>4, <2>5, <2>6, <2>7 DEF Drawing
  <2> QED
    BY <1>2, <2>2, <2>3, <2>4, <2>8 DEF GeneratorState, FilesInv
<1>4. CASE \E s \in Stored : /\ graph = s[1] /\ files = FilesOf(s[1], Words(s[2]))
                             /\ build = s[2]
  <2>1. PICK s \in Stored : /\ graph = s[1] /\ files = FilesOf(s[1], Words(s[2]))
                            /\ build = s[2]
    BY <1>4
  <2>2. /\ graph \in Graphs /\ ProperBuild(build)
        /\ "directed" \notin build => Symmetric(graph)
    BY <2>1, StoredAssumption DEF Graphs
  <2>3. files = FilesOf(graph, Words(build)) /\ Words(build) \in {1, 2}
    BY <2>1 DEF Words
  <2>4. /\ files = [edges |-> files.edges, idx |-> files.idx, adj |-> files.adj]
        /\ files.edges = Offset(graph, VertexCount)
        /\ files.adj = Concatenated(graph, VertexCount)
    BY <2>3 DEF FilesOf, Offset
  <2>5. files.idx \in Seq(Nat)
    <3>1. CASE Words(build) = 1
      <4> DEFINE offsets == [i \in 1 .. VertexCount |-> Offset(graph, i - 1)]
      <4>1. FilesOf(graph, 1) = [edges |-> Offset(graph, VertexCount), idx |-> offsets,
                                 adj |-> Concatenated(graph, VertexCount)]
        BY <2>2, FilesOfOneWord, Zenon
      <4>2. VertexCount \in Nat /\ \A i \in 1 .. VertexCount : i - 1 \in 0 .. VertexCount
        BY VertexCountAssumption
      <4>3. \A n \in 0 .. VertexCount : Offset(graph, n) \in Nat
        BY <2>2, ConcatenatedTyped
      <4>4. offsets \in [1 .. VertexCount -> Nat]
        BY <4>2, <4>3
      <4> HIDE DEF offsets
      <4>5. offsets \in Seq(Nat)
        BY <4>2, <4>4
      <4> QED
        BY <2>3, <3>1, <4>1, <4>5
    <3>2. CASE Words(build) = 2
      BY <2>2, <2>3, <3>2, FilesOfTwoWords
    <3> QED
      BY <2>3, <3>1, <3>2
  <2>6. /\ Offset(graph, VertexCount) \in Nat
        /\ Concatenated(graph, VertexCount) \in Seq(Locations)
    <3>1. VertexCount \in 0 .. VertexCount
      BY VertexCountAssumption
    <3> QED
      BY <2>2, <3>1, ConcatenatedTyped
  <2>7. FilesTypeOK
    BY <2>2, <2>4, <2>5, <2>6 DEF FilesTypeOK, Graphs
  <2>8. Generated
    BY <2>4, <2>6, NumbersAreNotNone DEF Generated
  <2>9. Complete
    BY <1>1, <2>2, <2>3 DEF Complete
  <2> QED
    BY <1>2, <2>2, <2>7, <2>8, <2>9 DEF GeneratorState, FilesInv
<1> QED
  BY <1>3, <1>4 DEF Init

------------------------------------------------------------------------------
(* The loader.                                                             *)

\* What the loader is like.
LoaderState == LoaderTypeOK /\ LoaderInv

\* There is a first thread, and none of them is the mark of an empty critical section.
LEMMA ThreadFacts == 0 \in Threads /\ \A t \in Threads : t \in Nat /\ t # None
<1>1. 0 \in Threads /\ \A t \in Threads : t \in Nat
  BY ThreadsAssumption DEF Threads
<1> QED
  BY <1>1, NumbersAreNotNone

\* A vertex is a number up to which the offsets of the files go.
LEMMA LocationFacts ==
  /\ VertexCount \in Nat \ {0} /\ VertexCount \in 0 .. VertexCount
  /\ 0 \in Locations /\ VertexCount - 1 \in Locations
  /\ \A v \in Locations : /\ v \in Nat /\ v < VertexCount
                          /\ v \in 0 .. VertexCount /\ v + 1 \in 0 .. VertexCount
BY VertexCountAssumption DEF Locations

\* The invariant is made of the parts.
LEMMA InvParts ==
  ASSUME Inv
  PROVE  /\ GeneratorState /\ LoaderState
         /\ LoaderTypeOK /\ SamePhase /\ ConfigInv /\ SharesInv /\ CountsInv /\ OffsetsInv
         /\ CriticalInv /\ ConnectInv /\ MirroringInv /\ ProperBuild(build)
         /\ graph \in Graphs
BY DEF Inv, TypeOK, GeneratorState, LoaderState, LoaderInv, FilesTypeOK, Graphs

\* All threads are between the same two barriers.
LEMMA PhaseOfAll ==
  ASSUME SamePhase, NEW P \in Phases, NEW t \in Threads, pc[t] \in P
  PROVE  \A u \in Threads : pc[u] \in P
<1>1. PICK Q \in Phases : \A u \in Threads : pc[u] \in Q
  BY DEF SamePhase
<1>2. pc[t] \in Q
  BY <1>1
<1>3. P = Q
  BY <1>2 DEF Phases
<1> QED
  BY <1>1, <1>3

\* A thread goes to another label between the same two barriers.
LEMMA ThreadMoves ==
  ASSUME SamePhase, pc \in [Threads -> PCs], NEW P \in Phases, NEW t \in Threads, pc[t] \in P,
         NEW label \in P, label \in PCs, Goto(t, label)
  PROVE  /\ pc' \in [Threads -> PCs] /\ pc'[t] = label
         /\ \A u \in Threads : pc[u] \in P /\ pc'[u] \in P
         /\ \A u \in Threads \ {t} : pc'[u] = pc[u]
         /\ SamePhase'
<1>1. \A u \in Threads : pc[u] \in P
  BY PhaseOfAll
<1>2. /\ pc' \in [Threads -> PCs] /\ pc'[t] = label
      /\ \A u \in Threads \ {t} : pc'[u] = pc[u]
  BY DEF Goto
<1>3. \A u \in Threads : pc'[u] \in P
  BY <1>1, <1>2
<1>4. SamePhase'
  BY <1>3 DEF SamePhase
<1> QED
  BY <1>1, <1>2, <1>3, <1>4

\* The threads go on together.
LEMMA ThreadsMove ==
  ASSUME NEW label, {label} \in Phases, label \in PCs, pc' = [t \in Threads |-> label]
  PROVE  /\ pc' \in [Threads -> PCs] /\ \A u \in Threads : pc'[u] = label
         /\ SamePhase'
<1>1. pc' \in [Threads -> PCs] /\ \A u \in Threads : pc'[u] = label
  OBVIOUS
<1>2. \A u \in Threads : pc'[u] \in {label}
  BY <1>1
<1>3. SamePhase'
  BY <1>2 DEF SamePhase
<1> QED
  BY <1>1, <1>3

\* The files that are complete, and what the threads read in them.
LEMMA FileFacts ==
  ASSUME Inv, Generated
  PROVE  /\ files.edges = Offset(graph, VertexCount)
         /\ files.adj = Concatenated(graph, VertexCount)
         /\ files.adj \in Seq(Locations)
         /\ Len(files.adj) = Offset(graph, VertexCount)
         /\ "directed" \notin build => Symmetric(graph)
         /\ Words(build) * VertexCount <= Len(files.idx) =>
              \A v \in Locations : OffsetRead(v) = Offset(graph, v)
<1>1. graph \in Graphs /\ Complete
  BY InvParts DEF GeneratorState, FilesInv
<1>2. PICK words \in {1, Words(build)} : files = FilesOf(graph, words)
  BY <1>1 DEF Complete
<1>3. files.edges = Offset(graph, VertexCount) /\ files.adj = Concatenated(graph, VertexCount)
  BY <1>2 DEF FilesOf, Offset
<1>4. files.adj \in Seq(Locations) /\ Len(files.adj) = Offset(graph, VertexCount)
  BY <1>1, <1>3, LocationFacts, ConcatenatedTyped DEF Offset
<1>5. ASSUME Words(build) * VertexCount <= Len(files.idx), NEW v \in Locations
      PROVE  OffsetRead(v) = Offset(graph, v)
  <2>1. CASE words = 1
    <3> DEFINE offsets == [i \in 1 .. VertexCount |-> Offset(graph, i - 1)]
    <3>1. FilesOf(graph, 1) = [edges |-> Offset(graph, VertexCount), idx |-> offsets,
                               adj |-> Concatenated(graph, VertexCount)]
      BY <1>1, FilesOfOneWord, Zenon
    <3>2. offsets[v + 1] = Offset(graph, v) /\ Len(offsets) = VertexCount
      BY LocationFacts, SMTT(30)
    <3> HIDE DEF offsets
    <3>3. files.idx[v + 1] = Offset(graph, v) /\ Len(files.idx) = VertexCount
      BY <1>2, <2>1, <3>1, <3>2
    <3>4. Words(build) = 1
      BY <1>5, <3>3, LocationFacts DEF Words
    <3> QED
      BY <3>3, <3>4 DEF OffsetRead
  <2>2. CASE words # 1
    <3>1. words = 2 /\ Words(build) = 2
      BY <2>2 DEF Words
    <3>2. files.idx[2 * v + 1] + IdLimit * files.idx[2 * v + 2] = Offset(graph, v)
      BY <1>1, <1>2, <3>1, FilesOfTwoWords
    <3> QED
      BY <3>1, <3>2 DEF OffsetRead
  <2> QED
    BY <2>1, <2>2
<1>6. "directed" \notin build => Symmetric(graph)
  BY <1>1 DEF Complete
<1> QED
  BY <1>3, <1>4, <1>5, <1>6

\* From the time the offsets are known: where the edges of a share begin and end.
LEMMA OffsetFacts ==
  ASSUME Inv, NEW s \in Threads, pc[s] \notin Early \cup {"loaded"}
  PROVE  /\ Generated /\ ip_thread_count <= VertexCount
         /\ ip_edges_count = Offset(graph, VertexCount) /\ ip_edges_count \in Nat
         /\ all_offsets = [v \in Locations |-> Offset(graph, v)]
         /\ all_out_neighbours \in [0 .. ip_edges_count - 1 -> Locations \cup {None}]
         /\ \A n \in 0 .. VertexCount :
              Offset(graph, n) \in Nat /\ Offset(graph, n) <= ip_edges_count
         /\ \A t \in Threads :
              /\ Start(t) \in Locations /\ Start(t) < End(t)
              /\ EdgeStart(t) = Offset(graph, Start(t))
              /\ EdgeEnd(t) = Offset(graph, End(t))
              /\ Offset(graph, Start(t)) <= Offset(graph, End(t))
<1>1. /\ Generated /\ ip_edges_count = files.edges /\ ip_thread_count <= VertexCount
      /\ all_offsets = [v \in Locations |-> Offset(graph, v)]
      /\ all_out_neighbours \in [0 .. ip_edges_count - 1 -> Locations \cup {None}]
      /\ graph \in Graphs
  BY InvParts DEF ConfigInv, SharesInv, OffsetsInv, Early
<1>2. ip_edges_count = Offset(graph, VertexCount)
  BY <1>1, FileFacts
<1>3. ip_edges_count \in Nat
  BY <1>1, <1>2, LocationFacts, ConcatenatedTyped
<1>4. ASSUME NEW n \in 0 .. VertexCount
      PROVE  Offset(graph, n) \in Nat /\ Offset(graph, n) <= ip_edges_count
  BY <1>1, <1>2, LocationFacts, OffsetsGrow
<1>5. ASSUME NEW t \in Threads
      PROVE  /\ Start(t) \in Locations /\ Start(t) < End(t)
             /\ EdgeStart(t) = Offset(graph, Start(t))
             /\ EdgeEnd(t) = Offset(graph, End(t))
             /\ Offset(graph, Start(t)) <= Offset(graph, End(t))
  <2>1. Start(t) \in Locations /\ Start(t) < End(t)
    BY <1>1, SharesNotEmpty
  <2>2. EdgeStart(t) = Offset(graph, Start(t))
    BY <1>1, <2>1 DEF EdgeStart
  <2>3. EdgeEnd(t) = Offset(graph, End(t))
    <3>1. CASE IsLast(t)
      BY <1>2, <3>1, ShareBounds DEF EdgeEnd
    <3>2. CASE ~IsLast(t)
      <4>1. End(t) \in Locations
        BY <1>1, <3>2, ShareBounds, SharesNotEmpty
      <4> QED
        BY <1>1, <3>2, <4>1 DEF EdgeEnd
    <3> QED
      BY <3>1, <3>2
  <2>4. End(t) \in 0 .. VertexCount /\ Start(t) \in 0 .. End(t)
    BY <2>1, ShareBounds
  <2>5. Offset(graph, Start(t)) <= Offset(graph, End(t))
    BY <1>1, <2>4, OffsetsGrow
  <2> QED
    BY <2>1, <2>2, <2>3, <2>5
<1> QED
  BY <1>1, <1>2, <1>3, <1>4, <1>5

\* What the threads share and never change.
LEMMA SharedSame ==
  ASSUME UNCHANGED sharedVars
  PROVE  /\ graph' = graph /\ files' = files /\ build' = build
         /\ (Generated' <=> Generated) /\ Words(build') = Words(build)
         /\ (ProperBuild(build) => ProperBuild(build'))
BY DEF sharedVars, Generated

\* The memory of the offsets and of the edges is allocated.
LEMMA LoadConfigKeeps ==
  ASSUME Inv, LoadConfig PROVE LoaderState'
<1> USE InvParts, SharedSame, ThreadFacts
<1>1. /\ \A t \in Threads : pc[t] = "config"
      /\ files.edges # None /\ pc' = [t \in Threads |-> "init"]
      /\ ip_edges_count' = files.edges
      /\ all_offsets' = [v \in Locations |-> None]
      /\ all_out_neighbours' = [e \in 0 .. files.edges - 1 |-> None]
      /\ UNCHANGED <<graph, files, build, position, critical, next, out_neighbours,
                     out_neighbour_count, in_neighbours, in_neighbour_count, mirror>>
      /\ UNCHANGED sharedVars
  BY DEF LoadConfig, sharedVars, outVars, inVars
<1>2. /\ pc' \in [Threads -> PCs] /\ (\A u \in Threads : pc'[u] = "init")
      /\ SamePhase'
  <2>1. {"init", "undefined", "initialised"} \in Phases /\ "init" \in PCs
    BY DEF Phases, PCs
  <2>2. pc' \in [Threads -> PCs] /\ \A u \in Threads : pc'[u] = "init"
    BY <1>1, <2>1
  <2> QED
    BY <2>1, <2>2 DEF SamePhase
<1>3. files.edges \in Nat
  BY <1>1 DEF GeneratorState, FilesTypeOK
<1>4. /\ all_offsets' \in [Locations -> Nat \cup {None}]
      /\ all_out_neighbours' \in [0 .. ip_edges_count' - 1 -> Locations \cup {None}]
  BY <1>1
<1>5. position = 0
  BY <1>1 DEF LoaderTypeOK, ConfigInv
<1>6. LoaderTypeOK'
  <2>1. position' \in 0 .. IF ip_edges_count' = None THEN 0 ELSE ip_edges_count'
    BY <1>1, <1>3, <1>5
  <2> QED
    BY <1>1, <1>2, <1>3, <1>4, <2>1 DEF LoaderTypeOK
<1>7. ConfigInv'
  BY <1>1, <1>2, <1>3, <1>4, NumbersAreNotNone DEF ConfigInv, Generated
<1>8. SharesInv' /\ OffsetsInv' /\ ConnectInv'
  BY <1>2 DEF SharesInv, OffsetsInv, ConnectInv, Early
<1>9. CountsInv'
  BY <1>1, <1>2 DEF CountsInv
<1>10. CriticalInv'
  BY <1>1, <1>2 DEF CriticalInv
<1>11. MirroringInv'
  BY <1>1, <1>2 DEF MirroringInv
<1>12. ProperBuild(build)'
  BY <1>1
<1> QED
  BY <1>2, <1>6, <1>7, <1>8, <1>9, <1>10, <1>11, <1>12 DEF LoaderState, LoaderInv

\* The counts of a share are set to 0.
LEMMA InitShareKeeps ==
  ASSUME Inv, NEW t \in Threads, InitShare(t) PROVE LoaderState'
<1> USE InvParts, SharedSame, ThreadFacts
<1> DEFINE P == {"init", "undefined", "initialised"}
<1>1. /\ pc[t] = "init"
      /\ UNCHANGED <<graph, files, build, ip_edges_count, all_offsets, all_out_neighbours, position,
                     critical, next, out_neighbours, in_neighbours, mirror>>
      /\ UNCHANGED sharedVars
  BY DEF InitShare, sharedVars, fileVars
<1>2. PICK label \in P : /\ Goto(t, label)
                         /\ label \in {"undefined", "initialised"}
                         /\ label = "initialised" => LastArgument(t) \in Locations
  BY DEF InitShare
<1>3. /\ pc' \in [Threads -> PCs] /\ pc'[t] = label
      /\ \A u \in Threads : pc[u] \in P /\ pc'[u] \in P
      /\ \A u \in Threads \ {t} : pc'[u] = pc[u]
      /\ SamePhase'
  <2>1. P \in Phases /\ pc[t] \in P /\ label \in PCs /\ pc \in [Threads -> PCs]
    BY <1>1 DEF Phases, PCs, LoaderTypeOK
  <2> HIDE DEF P
  <2> QED
    BY <1>2, <2>1, ThreadMoves
<1>4. \A v \in Locations : /\ out_neighbour_count'[v] \in {None, 0}
                           /\ in_neighbour_count'[v] \in {None, 0}
  <2>1. \A v \in Locations : /\ out_neighbour_count[v] \in {None, 0}
                             /\ in_neighbour_count[v] \in {None, 0}
    BY <1>1 DEF CountsInv
  <2>2. CASE LastArgument(t) \in Locations
    BY <2>1, <2>2 DEF InitShare
  <2>3. CASE LastArgument(t) \notin Locations
    BY <2>1, <2>3 DEF InitShare
  <2> QED
    BY <2>2, <2>3
<1>5. /\ out_neighbour_count' \in [Locations -> Nat \cup {None}]
      /\ in_neighbour_count' \in [Locations -> Nat \cup {None}]
  <2>1. \/ out_neighbour_count' = out_neighbour_count
        \/ out_neighbour_count' = [v \in Locations |-> out_neighbour_count'[v]]
    BY DEF InitShare
  <2>2. \/ in_neighbour_count' = in_neighbour_count
        \/ in_neighbour_count' = [v \in Locations |-> in_neighbour_count'[v]]
    BY DEF InitShare
  <2>3. /\ out_neighbour_count \in [Locations -> Nat \cup {None}]
        /\ in_neighbour_count \in [Locations -> Nat \cup {None}]
    BY DEF LoaderTypeOK
  <2> QED
    BY <1>4, <2>1, <2>2, <2>3
<1>6. LoaderTypeOK'
  BY <1>1, <1>3, <1>5 DEF LoaderTypeOK
<1>7. ConfigInv'
  BY <1>1, <1>3 DEF ConfigInv, Generated
<1>8. SharesInv'
  BY <1>2, <1>3 DEF SharesInv
<1>9. OffsetsInv' /\ ConnectInv'
  BY <1>3 DEF OffsetsInv, ConnectInv, Early
<1>10. CountsInv'
  <2>1. ASSUME NEW u \in Threads, NEW v \in Share(u), pc'[u] = "initialised"
        PROVE  out_neighbour_count'[v] = 0 /\ in_neighbour_count'[v] = 0
    <3>1. v \in Locations
      BY ShareOfVertices
    <3>2. CASE u = t
      <4>1. LastArgument(t) \in Locations
        BY <1>2, <1>3, <2>1, <3>2
      <4>2. v \in Start(t) .. LastArgument(t)
        BY <3>2, <4>1, RangeIsShare
      <4> QED
        BY <3>1, <4>1, <4>2 DEF InitShare
    <3>3. CASE u # t
      <4>1. /\ out_neighbour_count[v] = 0 /\ in_neighbour_count[v] = 0
        <5>1. pc[u] = "initialised"
          BY <1>3, <2>1, <3>3
        <5>2. /\ out_neighbour_count[v] \in {0, Len(graph[v])} \cap {None, 0}
              /\ in_neighbour_count[v] \in {0, Len(graph[v])} \cap {None, 0}
          BY <3>1, <5>1 DEF CountsInv
        <5>3. Len(graph[v]) # None
          BY <3>1, ListOfVertex, NumbersAreNotNone
        <5> QED
          BY <5>2, <5>3
      <4>2. \/ out_neighbour_count' = out_neighbour_count /\ in_neighbour_count' = in_neighbour_count
            \/ out_neighbour_count'[v] \in {0, out_neighbour_count[v]} /\ in_neighbour_count'[v] \in {0, in_neighbour_count[v]}
        BY <3>1 DEF InitShare
      <4> QED
        BY <4>1, <4>2
    <3> QED
      BY <3>2, <3>3
  <2> QED
    BY <1>3, <1>4, <2>1 DEF CountsInv
<1>11. CriticalInv'
  BY <1>1, <1>3 DEF CriticalInv
<1>12. MirroringInv'
  BY <1>1, <1>3 DEF MirroringInv
<1>13. ProperBuild(build)'
  BY <1>1
<1> QED
  BY <1>3, <1>6, <1>7, <1>8, <1>9, <1>10, <1>11, <1>12, <1>13 DEF LoaderState, LoaderInv

\* Every range is one of vertices, so there are no more threads than vertices.
LEMMA JoinInitialisedKeeps ==
  ASSUME Inv, Join("initialised", "offsets") PROVE LoaderState'
<1> USE InvParts, SharedSame, ThreadFacts
<1>1. /\ \A t \in Threads : pc[t] = "initialised"
      /\ pc' = [t \in Threads |-> "offsets"]
      /\ UNCHANGED <<graph, files, build, ip_edges_count, all_offsets, all_out_neighbours, position,
                     critical, next, out_neighbours, out_neighbour_count, in_neighbours,
                     in_neighbour_count, mirror>>
      /\ UNCHANGED sharedVars
  BY DEF Join, sharedVars, fileVars, outVars, inVars
<1>2. /\ pc' \in [Threads -> PCs] /\ (\A u \in Threads : pc'[u] = "offsets")
      /\ SamePhase'
  <2>1. {"offsets", "offsets_read"} \in Phases /\ "offsets" \in PCs
    BY DEF Phases, PCs
  <2>2. pc' \in [Threads -> PCs] /\ \A u \in Threads : pc'[u] = "offsets"
    BY <1>1, <2>1
  <2> QED
    BY <2>1, <2>2 DEF SamePhase
<1>3. LoaderTypeOK'
  BY <1>1, <1>2 DEF LoaderTypeOK
<1>4. ConfigInv'
  BY <1>1, <1>2 DEF ConfigInv, Generated
<1>5. SharesInv'
  <2>1. \A t \in Threads : LastArgument(t) \in Locations
    BY <1>1 DEF SharesInv
  <2> QED
    BY <1>2, <2>1, RangesProper DEF SharesInv
<1>6. OffsetsInv' /\ ConnectInv'
  BY <1>2 DEF OffsetsInv, ConnectInv, Early
<1>7. CountsInv'
  BY <1>1, <1>2 DEF CountsInv, Undirected
<1>8. CriticalInv'
  BY <1>1, <1>2 DEF CriticalInv
<1>9. MirroringInv'
  BY <1>1, <1>2 DEF MirroringInv
<1>10. ProperBuild(build)'
  BY <1>1
<1> QED
  BY <1>2, <1>3, <1>4, <1>5, <1>6, <1>7, <1>8, <1>9, <1>10 DEF LoaderState, LoaderInv

\* A share of the offsets is read.
LEMMA ReadOffsetsKeeps ==
  ASSUME Inv, NEW t \in Threads, ReadOffsets(t) PROVE LoaderState'
<1> USE InvParts, SharedSame, ThreadFacts
<1> DEFINE P == {"offsets", "offsets_read"}
<1>1. /\ pc[t] = "offsets" /\ Goto(t, "offsets_read")
      /\ Words(build) * End(t) <= Len(files.idx)
      /\ all_offsets' = [v \in Locations |-> IF v \in Share(t) THEN OffsetRead(v) ELSE all_offsets[v]]
      /\ UNCHANGED <<graph, files, build, ip_edges_count, all_out_neighbours, position,
                     critical, next, out_neighbours, out_neighbour_count, in_neighbours,
                     in_neighbour_count, mirror>>
      /\ UNCHANGED sharedVars
  BY DEF ReadOffsets, sharedVars, outVars, inVars
<1>2. /\ pc' \in [Threads -> PCs] /\ pc'[t] = "offsets_read"
      /\ \A u \in Threads : pc[u] \in P /\ pc'[u] \in P
      /\ \A u \in Threads \ {t} : pc'[u] = pc[u]
      /\ SamePhase'
  <2>1. P \in Phases /\ pc[t] \in P /\ "offsets_read" \in P /\ "offsets_read" \in PCs
        /\ pc \in [Threads -> PCs]
    BY <1>1 DEF Phases, PCs, LoaderTypeOK
  <2> HIDE DEF P
  <2> QED
    BY <1>1, <2>1, ThreadMoves
<1>3. /\ ip_thread_count <= VertexCount /\ Generated /\ ip_edges_count # None
      /\ all_offsets \in [Locations -> Nat \cup {None}]
  BY <1>1 DEF SharesInv, ConfigInv
<1>4. ASSUME NEW v \in Share(t) PROVE OffsetRead(v) \in Nat
  <2>1. v \in Nat /\ v + 1 <= End(t) /\ End(t) \in Nat
    BY ShareOfVertices, ShareBounds
  <2>2. files.idx \in Seq(Nat) /\ IdLimit \in Nat
    BY VertexCountAssumption DEF GeneratorState, FilesTypeOK
  <2>3. CASE Words(build) = 1
    <3>1. v + 1 \in 1 .. Len(files.idx)
      BY <1>1, <2>1, <2>2, <2>3
    <3>2. files.idx[v + 1] \in Nat
      BY <2>2, <3>1, ElementOfSeq
    <3> QED
      BY <2>3, <3>2 DEF OffsetRead
  <2>4. CASE Words(build) # 1
    <3>1. Words(build) = 2
      BY <2>4 DEF Words
    <3>2. 2 * v + 1 \in 1 .. Len(files.idx) /\ 2 * v + 2 \in 1 .. Len(files.idx)
      BY <1>1, <2>1, <2>2, <3>1, SMTT(30)
    <3>3. files.idx[2 * v + 1] \in Nat /\ files.idx[2 * v + 2] \in Nat
      BY <2>2, <3>2, ElementOfSeq
    <3>4. IdLimit * files.idx[2 * v + 2] \in Nat
      BY <2>2, <3>3, Products
    <3> QED
      BY <2>4, <3>3, <3>4 DEF OffsetRead
  <2> QED
    BY <2>3, <2>4
<1>5. all_offsets' \in [Locations -> Nat \cup {None}]
  BY <1>1, <1>3, <1>4
<1>6. LoaderTypeOK'
  BY <1>1, <1>2, <1>5 DEF LoaderTypeOK
<1>7. ConfigInv'
  BY <1>1, <1>2, <1>5 DEF ConfigInv, Generated
<1>8. SharesInv'
  BY <1>2, <1>3 DEF SharesInv
<1>9. OffsetsInv'
  <2>1. \A v : OffsetRead(v)' = OffsetRead(v)
    BY <1>1 DEF OffsetRead
  <2>2. ASSUME NEW u \in Threads, pc'[u] = "offsets_read"
        PROVE  /\ Words(build) * End(u) <= Len(files.idx)
               /\ \A v \in Share(u) : all_offsets'[v] = OffsetRead(v)
    <3>1. \A v \in Share(u) : v \in Locations
      BY ShareOfVertices
    <3>2. CASE u = t
      BY <1>1, <3>1, <3>2
    <3>3. CASE u # t
      <4>1. pc[u] = "offsets_read"
        BY <1>2, <2>2, <3>3
      <4>2. /\ Words(build) * End(u) <= Len(files.idx)
            /\ \A v \in Share(u) : all_offsets[v] = OffsetRead(v)
        BY <4>1 DEF OffsetsInv
      <4> QED
        BY <1>1, <3>1, <4>2
    <3> QED
      BY <3>2, <3>3
  <2>3. \A u \in Threads : pc'[u] \in Early
    BY <1>2 DEF Early
  <2> QED
    BY <1>1, <2>1, <2>2, <2>3 DEF OffsetsInv
<1>10. ConnectInv'
  BY <1>2 DEF ConnectInv
<1>11. CountsInv'
  BY <1>1, <1>2 DEF CountsInv, Undirected
<1>12. CriticalInv'
  BY <1>1, <1>2 DEF CriticalInv
<1>13. MirroringInv'
  BY <1>1, <1>2 DEF MirroringInv
<1>14. ProperBuild(build)'
  BY <1>1
<1> QED
  BY <1>2, <1>6, <1>7, <1>8, <1>9, <1>10, <1>11, <1>12, <1>13, <1>14 DEF LoaderState, LoaderInv

\* The .idx file is too short.
LEMMA RefuseOffsetsKeeps ==
  ASSUME Inv, NEW t \in Threads, RefuseOffsets(t) PROVE LoaderState'
<1> USE InvParts, SharedSame, ThreadFacts
<1>1. /\ pc[t] = "offsets" /\ pc' = [u \in Threads |-> "exit"]
      /\ UNCHANGED <<graph, files, build, ip_edges_count, all_offsets, all_out_neighbours, position,
                     critical, next, out_neighbours, out_neighbour_count, in_neighbours,
                     in_neighbour_count, mirror>>
      /\ UNCHANGED sharedVars
  BY DEF RefuseOffsets, sharedVars, fileVars, outVars, inVars
<1>2. /\ pc' \in [Threads -> PCs] /\ (\A u \in Threads : pc'[u] = "exit")
      /\ SamePhase'
  <2>1. {"exit"} \in Phases /\ "exit" \in PCs
    BY DEF Phases, PCs
  <2>2. pc' \in [Threads -> PCs] /\ \A u \in Threads : pc'[u] = "exit"
    BY <1>1, <2>1
  <2> QED
    BY <2>1, <2>2 DEF SamePhase
<1>3. \A u \in Threads : pc[u] \in {"offsets", "offsets_read"}
  <2>1. {"offsets", "offsets_read"} \in Phases /\ pc[t] \in {"offsets", "offsets_read"}
    BY <1>1 DEF Phases
  <2> QED
    BY <2>1, PhaseOfAll
<1>4. LoaderTypeOK'
  BY <1>1, <1>2 DEF LoaderTypeOK
<1>5. ConfigInv'
  BY <1>1, <1>2, <1>3 DEF ConfigInv, Generated
<1>6. SharesInv' /\ OffsetsInv' /\ ConnectInv'
  BY <1>1, <1>2 DEF SharesInv, OffsetsInv, ConnectInv, Early
<1>7. CountsInv'
  BY <1>1, <1>2, <1>3 DEF CountsInv, Undirected
<1>8. CriticalInv'
  BY <1>1, <1>2, <1>3 DEF CriticalInv
<1>9. MirroringInv'
  BY <1>1, <1>2, <1>3 DEF MirroringInv
<1>10. ProperBuild(build)'
  BY <1>1
<1> QED
  BY <1>2, <1>4, <1>5, <1>6, <1>7, <1>8, <1>9, <1>10 DEF LoaderState, LoaderInv

\* Every thread could read its share, the last one too: the offsets are those of the
\* graph.
LEMMA JoinOffsetsKeeps ==
  ASSUME Inv, Join("offsets_read", "edges") PROVE LoaderState'
<1> USE InvParts, SharedSame, ThreadFacts
<1>1. /\ \A t \in Threads : pc[t] = "offsets_read"
      /\ pc' = [t \in Threads |-> "edges"]
      /\ UNCHANGED <<graph, files, build, ip_edges_count, all_offsets, all_out_neighbours, position,
                     critical, next, out_neighbours, out_neighbour_count, in_neighbours,
                     in_neighbour_count, mirror>>
      /\ UNCHANGED sharedVars
  BY DEF Join, sharedVars, fileVars, outVars, inVars
<1>2. /\ pc' \in [Threads -> PCs] /\ (\A u \in Threads : pc'[u] = "edges")
      /\ SamePhase'
  <2>1. /\ {"edges", "read", "first", "connect", "connected"} \in Phases
        /\ "edges" \in {"edges", "read", "first", "connect", "connected"} /\ "edges" \in PCs
    BY DEF Phases, PCs
  <2>2. pc' \in [Threads -> PCs] /\ \A u \in Threads : pc'[u] = "edges"
    BY <1>1, <2>1
  <2> QED
    BY <2>1, <2>2 DEF SamePhase
<1>3. LoaderTypeOK'
  BY <1>1, <1>2 DEF LoaderTypeOK
<1>4. ConfigInv'
  BY <1>1, <1>2 DEF ConfigInv, Generated
<1>5. SharesInv' /\ ConnectInv'
  BY <1>1, <1>2 DEF SharesInv, ConnectInv
<1>6. all_offsets = [v \in Locations |-> Offset(graph, v)]
  <2>1. Generated /\ all_offsets \in [Locations -> Nat \cup {None}]
    BY <1>1 DEF ConfigInv
  <2>2. ip_thread_count - 1 \in Threads /\ IsLast(ip_thread_count - 1)
    BY ThreadsAssumption DEF Threads, IsLast
  <2>3. Words(build) * VertexCount <= Len(files.idx)
    BY <1>1, <2>2, ShareBounds DEF OffsetsInv
  <2>4. ASSUME NEW v \in Locations PROVE all_offsets[v] = Offset(graph, v)
    <3>1. PICK u \in Threads : v \in Share(u)
      BY SharesCover
    <3>2. all_offsets[v] = OffsetRead(v)
      BY <1>1, <3>1 DEF OffsetsInv
    <3> QED
      BY <2>1, <2>3, <3>2, FileFacts
  <2> QED
    BY <2>1, <2>4
<1>7. OffsetsInv'
  BY <1>1, <1>2, <1>6 DEF OffsetsInv
<1>8. CountsInv'
  BY <1>1, <1>2 DEF CountsInv, Undirected
<1>9. CriticalInv'
  BY <1>1, <1>2 DEF CriticalInv
<1>10. MirroringInv'
  BY <1>1, <1>2 DEF MirroringInv
<1>11. ProperBuild(build)'
  BY <1>1
<1> QED
  BY <1>2, <1>3, <1>4, <1>5, <1>7, <1>8, <1>9, <1>10, <1>11 DEF LoaderState, LoaderInv

\* The labels between the reading of the offsets and the mirroring.
Edges == {"edges", "read", "first", "connect", "connected"}

\* What the steps of those labels have in common.
LEMMA EdgesStep ==
  ASSUME Inv, NEW t \in Threads, pc[t] \in Edges, NEW label \in Edges, Goto(t, label),
         UNCHANGED <<sharedVars, ip_edges_count, all_offsets>>,
         all_out_neighbours' \in [0 .. ip_edges_count - 1 -> Locations \cup {None}]
  PROVE  /\ pc' \in [Threads -> PCs] /\ pc'[t] = label
         /\ \A u \in Threads : pc[u] \in Edges /\ pc'[u] \in Edges
         /\ \A u \in Threads \ {t} : pc'[u] = pc[u]
         /\ SamePhase' /\ ConfigInv' /\ SharesInv' /\ OffsetsInv' /\ ProperBuild(build)'
<1> USE InvParts, SharedSame, ThreadFacts
<1>1. UNCHANGED <<graph, files, build, ip_edges_count, all_offsets>>
  BY DEF sharedVars
<1>2. /\ pc' \in [Threads -> PCs] /\ pc'[t] = label
      /\ \A u \in Threads : pc[u] \in Edges /\ pc'[u] \in Edges
      /\ \A u \in Threads \ {t} : pc'[u] = pc[u]
      /\ SamePhase'
  <2>1. Edges \in Phases /\ label \in PCs /\ pc \in [Threads -> PCs]
    BY DEF Edges, Phases, PCs, LoaderTypeOK
  <2> QED
    BY <2>1, ThreadMoves
<1>3. /\ Generated /\ ip_edges_count = files.edges /\ ip_edges_count # None
      /\ all_offsets \in [Locations -> Nat \cup {None}]
      /\ ip_thread_count <= VertexCount
      /\ all_offsets = [v \in Locations |-> Offset(graph, v)]
  BY DEF Edges, ConfigInv, SharesInv, OffsetsInv, Early
<1>4. ConfigInv'
  BY <1>1, <1>2, <1>3 DEF ConfigInv, Generated, Edges
<1>5. SharesInv'
  BY <1>2, <1>3 DEF SharesInv, Edges
<1>6. OffsetsInv'
  BY <1>1, <1>2, <1>3 DEF OffsetsInv, Edges
<1> QED
  BY <1>1, <1>2, <1>4, <1>5, <1>6

\* A thread enters the critical section and seeks.
LEMMA SeekKeeps ==
  ASSUME Inv, NEW t \in Threads, Seek(t) PROVE LoaderState'
<1> USE InvParts, SharedSame, ThreadFacts
<1>1. /\ pc[t] = "edges" /\ Goto(t, "read") /\ critical = None /\ critical' = t
      /\ position' = EdgeStart(t)
      /\ UNCHANGED <<graph, files, build, ip_edges_count, all_offsets, all_out_neighbours,
                     next, out_neighbours, out_neighbour_count, in_neighbours,
                     in_neighbour_count, mirror>>
      /\ UNCHANGED sharedVars
  BY DEF Seek, sharedVars, outVars, inVars
<1>2. pc[t] \notin Early \cup {"loaded"} /\ pc[t] \in Edges /\ "read" \in Edges
  BY <1>1 DEF Early, Edges
<1>3. /\ EdgeStart(t) = Offset(graph, Start(t)) /\ Start(t) \in 0 .. VertexCount
      /\ ip_edges_count \in Nat
      /\ \A n \in 0 .. VertexCount : Offset(graph, n) \in Nat /\ Offset(graph, n) <= ip_edges_count
      /\ all_out_neighbours \in [0 .. ip_edges_count - 1 -> Locations \cup {None}]
  BY <1>2, OffsetFacts, ShareBounds
<1>4. /\ pc' \in [Threads -> PCs] /\ pc'[t] = "read"
      /\ \A u \in Threads : pc[u] \in Edges /\ pc'[u] \in Edges
      /\ \A u \in Threads \ {t} : pc'[u] = pc[u]
      /\ SamePhase' /\ ConfigInv' /\ SharesInv' /\ OffsetsInv' /\ ProperBuild(build)'
  BY <1>1, <1>2, <1>3, EdgesStep
<1>5. LoaderTypeOK'
  <2>1. position' \in 0 .. ip_edges_count'
    BY <1>1, <1>3
  <2> QED
    BY <1>1, <1>3, <1>4, <2>1, NumbersAreNotNone DEF LoaderTypeOK
<1>6. CountsInv'
  BY <1>1, <1>4 DEF CountsInv, Undirected, Edges
<1>7. CriticalInv'
  BY <1>1, <1>3, <1>4 DEF CriticalInv
<1>8. ConnectInv'
  <2>1. \A u \in Threads : EdgesRead(u) => EdgesRead(u)'
    BY <1>1 DEF EdgesRead
  <2>2. \A v \in Locations : (ListSet(v) => ListSet(v)') /\ (CountSet(v) => CountSet(v)')
    BY <1>1 DEF ListSet, CountSet, Undirected
  <2>3. \A u \in Threads : \A v \in Share(u) : v \in Locations
    BY ShareOfVertices
  <2> QED
    BY <1>1, <1>4, <2>1, <2>2, <2>3 DEF ConnectInv, Edges
<1>9. MirroringInv'
  BY <1>1, <1>4 DEF MirroringInv, Edges
<1> QED
  BY <1>4, <1>5, <1>6, <1>7, <1>8, <1>9 DEF LoaderState, LoaderInv

\* It reads its edges, and leaves the critical section.
LEMMA ReadKeeps ==
  ASSUME Inv, NEW t \in Threads, Read(t) PROVE LoaderState'
<1> USE InvParts, SharedSame, ThreadFacts
<1>1. /\ pc[t] = "read" /\ Goto(t, "first") /\ critical' = None
      /\ UNCHANGED <<graph, files, build, ip_edges_count, all_offsets,
                     next, out_neighbours, out_neighbour_count, in_neighbours,
                     in_neighbour_count, mirror>>
      /\ UNCHANGED sharedVars
  BY DEF Read, sharedVars, outVars, inVars
<1>2. pc[t] \notin Early \cup {"loaded"} /\ pc[t] \in Edges /\ "first" \in Edges
  BY <1>1 DEF Early, Edges
<1>3. PICK from, to :
        /\ from = Offset(graph, Start(t)) /\ to = Offset(graph, End(t))
        /\ from = EdgeStart(t) /\ to = EdgeEnd(t)
        /\ from \in Nat /\ to \in Nat /\ from <= to /\ to <= ip_edges_count
  BY <1>2, OffsetFacts, ShareBounds
<1>4. /\ ip_edges_count \in Nat /\ Generated
      /\ all_out_neighbours \in [0 .. ip_edges_count - 1 -> Locations \cup {None}]
      /\ files.adj \in Seq(Locations) /\ Len(files.adj) = ip_edges_count
  BY <1>2, OffsetFacts, FileFacts
<1>5. position = from
  BY <1>1, <1>3 DEF CriticalInv
<1>6. /\ all_out_neighbours' =
           [e \in DOMAIN all_out_neighbours |->
             IF e \in from .. to - 1 THEN files.adj[position + e - from + 1]
             ELSE all_out_neighbours[e]]
      /\ position' = position + (to - from)
  BY <1>3, Zenon DEF Read
<1>7. position' = to
  BY <1>3, <1>5, <1>6
<1>8. ASSUME NEW e \in 0 .. ip_edges_count - 1
      PROVE  /\ e \in from .. to - 1 => all_out_neighbours'[e] = files.adj[e + 1]
             /\ e \notin from .. to - 1 => all_out_neighbours'[e] = all_out_neighbours[e]
  <2>1. e \in from .. to - 1 => position + e - from + 1 = e + 1
    BY <1>3, <1>5
  <2> QED
    BY <1>4, <1>6, <2>1
<1>9. all_out_neighbours' \in [0 .. ip_edges_count - 1 -> Locations \cup {None}]
  <2>1. ASSUME NEW e \in 0 .. ip_edges_count - 1
        PROVE  all_out_neighbours'[e] \in Locations \cup {None}
    <3>1. e + 1 \in 1 .. Len(files.adj)
      BY <1>4
    <3>2. files.adj[e + 1] \in Locations
      BY <1>4, <3>1, ElementOfSeq
    <3> QED
      BY <1>4, <1>8, <3>2
  <2>2. DOMAIN all_out_neighbours = 0 .. ip_edges_count - 1
    BY <1>4
  <2>3. all_out_neighbours' = [e \in 0 .. ip_edges_count - 1 |-> all_out_neighbours'[e]]
    BY <1>6, <2>2
  <2> QED
    BY <2>1, <2>3
<1>10. /\ pc' \in [Threads -> PCs] /\ pc'[t] = "first"
       /\ \A u \in Threads : pc[u] \in Edges /\ pc'[u] \in Edges
       /\ \A u \in Threads \ {t} : pc'[u] = pc[u]
       /\ SamePhase' /\ ConfigInv' /\ SharesInv' /\ OffsetsInv' /\ ProperBuild(build)'
  BY <1>1, <1>2, <1>9, EdgesStep
<1>11. LoaderTypeOK'
  <2>1. position' \in 0 .. ip_edges_count'
    BY <1>1, <1>3, <1>4, <1>7
  <2> QED
    BY <1>1, <1>4, <1>9, <1>10, <2>1, NumbersAreNotNone DEF LoaderTypeOK
<1>12. CountsInv'
  BY <1>1, <1>10 DEF CountsInv, Undirected, Edges
<1>13. CriticalInv'
  BY <1>1, <1>10 DEF CriticalInv
<1>14. ConnectInv'
  <2>1. ASSUME NEW u \in Threads, EdgesRead(u) \/ u = t PROVE EdgesRead(u)'
    <3>1. ASSUME NEW e \in Offset(graph, Start(u)) .. Offset(graph, End(u)) - 1
          PROVE  all_out_neighbours'[e] = files.adj[e + 1]
      <4>1. e \in 0 .. ip_edges_count - 1
        <5>1. /\ Offset(graph, Start(u)) \in Nat /\ Offset(graph, End(u)) \in Nat
              /\ Offset(graph, End(u)) <= ip_edges_count
          BY <1>2, OffsetFacts, ShareBounds
        <5> QED
          BY <1>4, <5>1
      <4>2. CASE u = t
        BY <1>3, <1>8, <3>1, <4>1, <4>2
      <4>3. CASE EdgesRead(u)
        <5>1. all_out_neighbours[e] = files.adj[e + 1]
          BY <3>1, <4>3 DEF EdgesRead
        <5> QED
          BY <1>8, <4>1, <5>1
      <4> QED
        BY <2>1, <4>2, <4>3
    <3> QED
      BY <1>1, <3>1 DEF EdgesRead
  <2>2. \A v \in Locations : (ListSet(v) => ListSet(v)') /\ (CountSet(v) => CountSet(v)')
    BY <1>1 DEF ListSet, CountSet, Undirected
  <2>3. \A u \in Threads : \A v \in Share(u) : v \in Locations
    BY ShareOfVertices
  <2> QED
    BY <1>1, <1>10, <2>1, <2>2, <2>3 DEF ConnectInv, Edges
<1>15. MirroringInv'
  BY <1>1, <1>10 DEF MirroringInv, Edges
<1> QED
  BY <1>10, <1>11, <1>12, <1>13, <1>14, <1>15 DEF LoaderState, LoaderInv

\* A vertex gets its list.
LEMMA ListsConnected ==
  ASSUME Inv, NEW n \in Locations, NEW e \in Nat, e = Offset(graph, n), ConnectLists(n, e),
         UNCHANGED <<graph, build>>
  PROVE  /\ out_neighbours' \in [Locations -> Nat \cup {None}]
         /\ in_neighbours' = [v \in Locations |-> in_neighbours'[v]]
         /\ "directed" \in build => in_neighbours' = in_neighbours
         /\ ListSet(n)'
         /\ \A v \in Locations : ListSet(v) => ListSet(v)'
<1>1. /\ out_neighbours \in [Locations -> Nat \cup {None}]
      /\ in_neighbours = [v \in Locations |-> in_neighbours[v]]
  BY InvParts DEF LoaderTypeOK, MirroringInv
<1>2. /\ out_neighbours' = IF "out_ids" \in build THEN [out_neighbours EXCEPT ![n] = e]
                           ELSE out_neighbours
      /\ in_neighbours' = IF "in_ids" \in build /\ "directed" \notin build
                          THEN [in_neighbours EXCEPT ![n] = e] ELSE in_neighbours
  BY DEF ConnectLists, Assign
<1>3. out_neighbours' \in [Locations -> Nat \cup {None}]
  BY <1>1, <1>2
<1>4. PICK field : field = in_neighbours /\ field = [v \in Locations |-> field[v]]
  BY <1>1
<1>5. in_neighbours' = [v \in Locations |-> in_neighbours'[v]]
  BY <1>2, <1>4
<1>6. "directed" \in build => in_neighbours' = in_neighbours
  BY <1>2
<1>7. ASSUME NEW v \in Locations, v = n \/ ListSet(v) PROVE ListSet(v)'
  <2>1. "out_ids" \in build => out_neighbours'[v] = Offset(graph, v)
    <3>1. v # n /\ "out_ids" \in build => out_neighbours[v] = Offset(graph, v)
      BY <1>7 DEF ListSet
    <3> QED
      BY <1>1, <1>2, <3>1
  <2>2. "in_ids" \in build /\ "directed" \notin build => in_neighbours'[v] = Offset(graph, v)
    <3>1. v # n /\ "in_ids" \in build /\ "directed" \notin build => in_neighbours[v] = Offset(graph, v)
      BY <1>7 DEF ListSet, Undirected
    <3> QED
      BY <1>2, <1>4, <3>1
  <2> QED
    BY <2>1, <2>2 DEF ListSet, Undirected
<1> QED
  BY <1>3, <1>5, <1>6, <1>7

\* A vertex gets its count.
LEMMA VertexCounted ==
  ASSUME Inv, NEW n \in Locations, NEW c \in Nat, c = Len(graph[n]), CountNeighbours(n, c),
         UNCHANGED <<graph, build>>
  PROVE  /\ out_neighbour_count' \in [Locations -> Nat \cup {None}]
         /\ in_neighbour_count' \in [Locations -> Nat \cup {None}]
         /\ \A v \in Locations :
              /\ out_neighbour_count'[v] \in {out_neighbour_count[v], Len(graph[v])}
              /\ in_neighbour_count'[v] \in {in_neighbour_count[v]} \cup
                   IF Undirected THEN {Len(graph[v])} ELSE {}
         /\ CountSet(n)'
         /\ \A v \in Locations : CountSet(v) => CountSet(v)'
<1>1. /\ out_neighbour_count \in [Locations -> Nat \cup {None}]
      /\ in_neighbour_count \in [Locations -> Nat \cup {None}]
  BY InvParts DEF LoaderTypeOK
<1>2. /\ out_neighbour_count' = IF "out_count" \in build
                                THEN [out_neighbour_count EXCEPT ![n] = c]
                                ELSE out_neighbour_count
      /\ in_neighbour_count' = IF "in_count" \in build /\ "directed" \notin build
                               THEN [in_neighbour_count EXCEPT ![n] = c]
                               ELSE in_neighbour_count
  BY DEF CountNeighbours, Assign
<1>3. /\ out_neighbour_count' \in [Locations -> Nat \cup {None}]
      /\ in_neighbour_count' \in [Locations -> Nat \cup {None}]
  BY <1>1, <1>2
<1>4. \A v \in Locations :
        /\ out_neighbour_count'[v] \in {out_neighbour_count[v], Len(graph[v])}
        /\ in_neighbour_count'[v] \in {in_neighbour_count[v]} \cup
             IF Undirected THEN {Len(graph[v])} ELSE {}
  BY <1>1, <1>2 DEF Undirected
<1>5. ASSUME NEW v \in Locations, v = n \/ CountSet(v) PROVE CountSet(v)'
  <2>1. "out_count" \in build => out_neighbour_count'[v] = Len(graph[v])
    <3>1. v # n /\ "out_count" \in build => out_neighbour_count[v] = Len(graph[v])
      BY <1>5 DEF CountSet
    <3> QED
      BY <1>1, <1>2, <3>1
  <2>2. "in_count" \in build /\ "directed" \notin build => in_neighbour_count'[v] = Len(graph[v])
    <3>1. v # n /\ "in_count" \in build /\ "directed" \notin build =>
            in_neighbour_count[v] = Len(graph[v])
      BY <1>5 DEF CountSet, Undirected
    <3> QED
      BY <1>1, <1>2, <3>1
  <2> QED
    BY <2>1, <2>2 DEF CountSet, Undirected
<1> QED
  BY <1>3, <1>4, <1>5

\* The loop variable of a thread that connects is that of a vertex behind the first.
LEMMA NextFacts ==
  ASSUME Inv, NEW t \in Threads, pc[t] = "connect"
  PROVE  /\ next[t] \in Nat /\ next[t] - 1 \in Locations
         /\ Start(t) <= next[t] /\ next[t] <= End(t)
         /\ Start(t) \in Nat /\ End(t) \in Nat /\ End(t) <= VertexCount
<1>1. /\ next[t] \in Start(t) .. End(t) /\ (t = 0 => next[t] # 0)
      /\ ip_thread_count <= VertexCount
  BY InvParts DEF ConnectInv, SharesInv
<1>2. /\ Start(t) \in Nat /\ End(t) \in Nat /\ End(t) <= VertexCount /\ t \in Nat
      /\ VertexCount \in Nat
  BY ShareBounds, LocationFacts
<1>3. t # 0 => Start(t) # 0
  <2>1. SUFFICES ASSUME t # 0 PROVE Start(t) # 0
    OBVIOUS
  <2>2. t - 1 \in Threads /\ ~IsLast(t - 1) /\ (t - 1) + 1 = t
    BY <1>2, <2>1, ThreadsAssumption DEF Threads, IsLast
  <2>3. End(t - 1) = Start(t)
    BY <2>2, ShareBounds
  <2>4. Start(t - 1) < End(t - 1) /\ Start(t - 1) \in Nat
    BY <1>1, <2>2, SharesNotEmpty, ShareBounds
  <2> QED
    BY <1>2, <2>3, <2>4
<1> QED
  BY <1>1, <1>2, <1>3 DEF Locations

\* The lists of the vertices behind one another have their offsets' distance.
LEMMA CountOfVertex ==
  ASSUME Inv, NEW s \in Threads, pc[s] \notin Early \cup {"loaded"}, NEW n \in 1 .. VertexCount
  PROVE  /\ n - 1 \in Locations /\ all_offsets[n - 1] = Offset(graph, n - 1)
         /\ Len(graph[n - 1]) \in Nat
         /\ Offset(graph, n) - Offset(graph, n - 1) = Len(graph[n - 1])
         /\ n # VertexCount => n \in Locations /\ all_offsets[n] = Offset(graph, n)
<1>1. /\ n - 1 \in Locations /\ (n - 1) + 1 = n
      /\ n # VertexCount => n \in Locations
  BY LocationFacts DEF Locations
<1>2. all_offsets = [v \in Locations |-> Offset(graph, v)] /\ graph \in Graphs
  BY OffsetFacts, InvParts
<1>3. /\ Offset(graph, n - 1) \in Nat /\ Len(graph[n - 1]) \in Nat
      /\ Offset(graph, n) = Offset(graph, n - 1) + Len(graph[n - 1])
  <2>1. /\ Offset(graph, n - 1) \in Nat /\ Len(graph[n - 1]) \in Nat
        /\ Offset(graph, (n - 1) + 1) = Offset(graph, n - 1) + Len(graph[n - 1])
    BY <1>1, <1>2, ListOfVertex
  <2> QED
    BY <1>1, <2>1
<1>4. Offset(graph, n) - Offset(graph, n - 1) = Len(graph[n - 1])
  BY <1>3
<1> QED
  BY <1>1, <1>2, <1>3, <1>4

\* The first thread connects vertex 0, the others nothing yet.
LEMMA ConnectFirstKeeps ==
  ASSUME Inv, NEW t \in Threads, ConnectFirst(t) PROVE LoaderState'
<1> USE InvParts, SharedSame, ThreadFacts
<1>1. /\ pc[t] = "first" /\ Goto(t, "connect")
      /\ next' = [next EXCEPT ![t] = IF t = 0 THEN 1 ELSE Start(t)]
      /\ IF t = 0 THEN ConnectLists(0, 0) ELSE UNCHANGED <<out_neighbours, in_neighbours>>
      /\ UNCHANGED <<graph, files, build, ip_edges_count, all_offsets, all_out_neighbours,
                     position, critical, out_neighbour_count, in_neighbour_count, mirror>>
      /\ UNCHANGED sharedVars
  BY DEF ConnectFirst, sharedVars, fileVars
<1>2. pc[t] \notin Early \cup {"loaded"} /\ pc[t] \in Edges /\ "connect" \in Edges
  BY <1>1 DEF Early, Edges
<1>3. /\ Start(t) \in Nat /\ End(t) \in Nat /\ End(t) <= VertexCount /\ Start(t) < End(t)
      /\ t = 0 => Start(t) = 0
      /\ all_out_neighbours \in [0 .. ip_edges_count - 1 -> Locations \cup {None}]
      /\ VertexCount \in Nat
  <2>1. /\ Start(t) < End(t)
        /\ all_out_neighbours \in [0 .. ip_edges_count - 1 -> Locations \cup {None}]
    BY <1>2, OffsetFacts
  <2> QED
    BY <2>1, ShareBounds, LocationFacts
<1>4. /\ pc' \in [Threads -> PCs] /\ pc'[t] = "connect"
      /\ \A u \in Threads : pc[u] \in Edges /\ pc'[u] \in Edges
      /\ \A u \in Threads \ {t} : pc'[u] = pc[u]
      /\ SamePhase' /\ ConfigInv' /\ SharesInv' /\ OffsetsInv' /\ ProperBuild(build)'
  BY <1>1, <1>2, <1>3, EdgesStep
<1>5. /\ out_neighbours' \in [Locations -> Nat \cup {None}]
      /\ in_neighbours' = [v \in Locations |-> in_neighbours'[v]]
      /\ "directed" \in build => in_neighbours' = in_neighbours
      /\ t = 0 => ListSet(0)'
      /\ \A v \in Locations : ListSet(v) => ListSet(v)'
  <2>1. CASE t = 0
    <3>1. 0 = Offset(graph, 0) /\ 0 \in Locations /\ 0 \in Nat
      BY LocationFacts, ConcatenatedNone DEF Offset
    <3>2. ConnectLists(0, 0) /\ UNCHANGED <<graph, build>>
      BY <1>1, <2>1
    <3> HIDE InvParts, SharedSame, ThreadFacts
    <3> QED
      BY <3>1, <3>2, ListsConnected
  <2>2. CASE t # 0
    <3>1. \A v \in Locations : ListSet(v) => ListSet(v)'
      BY <1>1, <2>2 DEF ListSet, Undirected
    <3> QED
      BY <1>1, <2>2, <3>1 DEF LoaderTypeOK, MirroringInv
  <2> QED
    BY <2>1, <2>2
<1>6. /\ next' \in [Threads -> 0 .. VertexCount]
      /\ next'[t] = IF t = 0 THEN 1 ELSE Start(t)
      /\ \A u \in Threads \ {t} : next'[u] = next[u]
  <2>1. next \in [Threads -> 0 .. VertexCount]
    BY DEF LoaderTypeOK
  <2>2. (IF t = 0 THEN 1 ELSE Start(t)) \in 0 .. VertexCount
    BY <1>3
  <2> QED
    BY <1>1, <2>1, <2>2
<1>7. LoaderTypeOK'
  BY <1>1, <1>4, <1>5, <1>6 DEF LoaderTypeOK
<1>8. CountsInv'
  BY <1>1, <1>4 DEF CountsInv, Undirected, Edges
<1>9. CriticalInv'
  BY <1>1, <1>4 DEF CriticalInv
<1>10. ConnectInv'
  <2>1. \A u \in Threads : EdgesRead(u) => EdgesRead(u)'
    BY <1>1 DEF EdgesRead
  <2>2. \A v \in Locations : CountSet(v) => CountSet(v)'
    BY <1>1 DEF CountSet, Undirected
  <2>3. \A u \in Threads : \A v \in Share(u) : v \in Locations
    BY ShareOfVertices
  <2>4. EdgesRead(t)
    BY <1>1 DEF ConnectInv
  <2>5. /\ next'[t] \in Start(t) .. End(t) /\ (t = 0 => next'[t] # 0)
        /\ \A v \in Share(t) : v < next'[t] => t = 0 /\ v = 0
        /\ \A v \in Share(t) : ~(v + 1 < next'[t])
    <3>1. \A v \in Share(t) : v \in Nat /\ Start(t) <= v
      BY ShareOfVertices
    <3> QED
      BY <1>3, <1>6, <3>1
  <2>6. ASSUME NEW u \in Threads \ {t}, pc'[u] = "connect"
        PROVE  /\ next'[u] \in Start(u) .. End(u) /\ (u = 0 => next'[u] # 0)
               /\ \A v \in Share(u) : v < next'[u] => ListSet(v)'
               /\ \A v \in Share(u) : v + 1 < next'[u] => CountSet(v)'
    <3>1. pc[u] = "connect" /\ next'[u] = next[u]
      BY <1>4, <1>6, <2>6
    <3> QED
      BY <1>5, <2>2, <2>3, <3>1 DEF ConnectInv
  <2>7. ASSUME NEW u \in Threads, pc'[u] \in {"first", "connect", "connected"}
        PROVE  EdgesRead(u)'
    BY <1>4, <2>1, <2>4, <2>7 DEF ConnectInv
  <2>8. ASSUME NEW u \in Threads, pc'[u] = "connected"
        PROVE  \A v \in Share(u) : ListSet(v)' /\ CountSet(v)'
    <3>1. pc[u] = "connected"
      BY <1>4, <2>8
    <3> QED
      BY <1>5, <2>2, <2>3, <3>1 DEF ConnectInv
  <2>9. \A u \in Threads : pc'[u] \notin {"mirror", "free", "loaded"}
    BY <1>4 DEF Edges
  <2>10. ASSUME NEW u \in Threads, pc'[u] = "connect"
         PROVE  /\ next'[u] \in Start(u) .. End(u) /\ (u = 0 => next'[u] # 0)
                /\ \A v \in Share(u) : v < next'[u] => ListSet(v)'
                /\ \A v \in Share(u) : v + 1 < next'[u] => CountSet(v)'
    <3>1. CASE u = t
      BY <1>5, <2>5, <3>1
    <3>2. CASE u # t
      BY <2>6, <2>10, <3>2
    <3> QED
      BY <3>1, <3>2
  <2> QED
    BY <2>7, <2>8, <2>9, <2>10 DEF ConnectInv
<1>11. MirroringInv'
  BY <1>1, <1>4, <1>5 DEF MirroringInv, Edges
<1> QED
  BY <1>4, <1>7, <1>8, <1>9, <1>10, <1>11 DEF LoaderState, LoaderInv

\* A vertex gets its list, and the one before it its count.
LEMMA ConnectKeeps ==
  ASSUME Inv, NEW t \in Threads, Connect(t) PROVE LoaderState'
<1> USE InvParts, SharedSame, ThreadFacts
<1>1. /\ pc[t] = "connect" /\ next[t] < End(t)
      /\ ConnectLists(next[t], all_offsets[next[t]])
      /\ CountNeighbours(next[t] - 1, all_offsets[next[t]] - all_offsets[next[t] - 1])
      /\ next' = [next EXCEPT ![t] = @ + 1]
      /\ UNCHANGED <<graph, files, build, pc, ip_edges_count, all_offsets, all_out_neighbours,
                     position, critical, mirror>>
      /\ UNCHANGED sharedVars
  BY DEF Connect, sharedVars, fileVars
<1>2. pc[t] \notin Early \cup {"loaded"} /\ pc[t] \in Edges
  BY <1>1 DEF Early, Edges
<1>3. PICK n : /\ n = next[t] /\ n \in Nat /\ n - 1 \in Locations /\ n < End(t)
               /\ Start(t) <= n /\ Start(t) \in Nat /\ End(t) \in Nat /\ End(t) <= VertexCount
  BY <1>1, NextFacts
<1>4. n \in 1 .. VertexCount /\ n # VertexCount /\ n \in Locations
  BY <1>3, LocationFacts DEF Locations
<1>5. /\ all_offsets[n - 1] = Offset(graph, n - 1) /\ all_offsets[n] = Offset(graph, n)
      /\ Len(graph[n - 1]) \in Nat
      /\ Offset(graph, n) - Offset(graph, n - 1) = Len(graph[n - 1])
  BY <1>2, <1>4, CountOfVertex
<1>6. Offset(graph, n) \in Nat
  BY <1>4, ListOfVertex
<1>7. /\ ConnectLists(n, Offset(graph, n)) /\ CountNeighbours(n - 1, Len(graph[n - 1]))
      /\ UNCHANGED <<graph, build>>
  BY <1>1, <1>3, <1>5
<1>8. /\ out_neighbours' \in [Locations -> Nat \cup {None}]
      /\ in_neighbours' = [v \in Locations |-> in_neighbours'[v]]
      /\ "directed" \in build => in_neighbours' = in_neighbours
      /\ ListSet(n)'
      /\ \A v \in Locations : ListSet(v) => ListSet(v)'
  <2> HIDE InvParts, SharedSame, ThreadFacts
  <2> QED
    BY <1>4, <1>6, <1>7, ListsConnected
<1>9. /\ out_neighbour_count' \in [Locations -> Nat \cup {None}]
      /\ in_neighbour_count' \in [Locations -> Nat \cup {None}]
      /\ \A v \in Locations :
           /\ out_neighbour_count'[v] \in {out_neighbour_count[v], Len(graph[v])}
           /\ in_neighbour_count'[v] \in {in_neighbour_count[v]} \cup
                IF Undirected THEN {Len(graph[v])} ELSE {}
      /\ CountSet(n - 1)'
      /\ \A v \in Locations : CountSet(v) => CountSet(v)'
  <2> HIDE InvParts, SharedSame, ThreadFacts
  <2> QED
    BY <1>3, <1>5, <1>7, VertexCounted
<1>10. /\ next' \in [Threads -> 0 .. VertexCount] /\ next'[t] = n + 1
       /\ \A u \in Threads \ {t} : next'[u] = next[u]
  <2>1. next \in [Threads -> 0 .. VertexCount]
    BY DEF LoaderTypeOK
  <2>2. n + 1 \in 0 .. VertexCount
    BY <1>3, LocationFacts
  <2> QED
    BY <1>1, <1>3, <2>1, <2>2
<1>11. \A u \in Threads : pc[u] \in Edges
  <2>1. Edges \in Phases
    BY DEF Edges, Phases
  <2> QED
    BY <1>2, <2>1, PhaseOfAll
<1>12. LoaderTypeOK'
  BY <1>1, <1>8, <1>9, <1>10 DEF LoaderTypeOK
<1>13. SamePhase' /\ ConfigInv' /\ SharesInv' /\ ProperBuild(build)'
  BY <1>1 DEF SamePhase, ConfigInv, SharesInv, Generated
<1>14. OffsetsInv'
  BY <1>1, <1>11 DEF OffsetsInv, Edges
<1>15. CountsInv'
  <2>1. \A u \in Threads : \A v \in Share(u) : v \in Locations
    BY ShareOfVertices
  <2> QED
    BY <1>1, <1>9, <1>11, <2>1 DEF CountsInv, Undirected, Edges
<1>16. CriticalInv'
  BY <1>1 DEF CriticalInv
<1>17. ConnectInv'
  <2>1. \A u \in Threads : EdgesRead(u) => EdgesRead(u)'
    BY <1>1 DEF EdgesRead
  <2>2. \A u \in Threads : \A v \in Share(u) : v \in Locations
    BY ShareOfVertices
  <2>3. ASSUME NEW u \in Threads, pc'[u] = "connect"
        PROVE  /\ next'[u] \in Start(u) .. End(u) /\ (u = 0 => next'[u] # 0)
               /\ \A v \in Share(u) : v < next'[u] => ListSet(v)'
               /\ \A v \in Share(u) : v + 1 < next'[u] => CountSet(v)'
    <3>1. /\ next[u] \in Start(u) .. End(u) /\ (u = 0 => next[u] # 0)
          /\ \A v \in Share(u) : v < next[u] => ListSet(v)
          /\ \A v \in Share(u) : v + 1 < next[u] => CountSet(v)
      BY <1>1, <2>3 DEF ConnectInv
    <3>2. CASE u = t
      <4>1. \A v \in Share(u) : v \in Nat
        BY ShareOfVertices
      <4>2. next'[u] \in Start(u) .. End(u) /\ (u = 0 => next'[u] # 0)
        BY <1>3, <1>10, <3>2
      <4>3. ASSUME NEW v \in Share(u), v < next'[u] PROVE ListSet(v)'
        <5>1. v < next[u] \/ v = n
          BY <1>3, <1>10, <3>2, <4>1, <4>3
        <5> QED
          BY <1>8, <2>2, <3>1, <5>1
      <4>4. ASSUME NEW v \in Share(u), v + 1 < next'[u] PROVE CountSet(v)'
        <5>1. v + 1 < next[u] \/ v = n - 1
          BY <1>3, <1>10, <3>2, <4>1, <4>4
        <5> QED
          BY <1>9, <2>2, <3>1, <5>1
      <4> QED
        BY <4>2, <4>3, <4>4
    <3>3. CASE u # t
      <4>1. next'[u] = next[u]
        BY <1>10, <3>3
      <4> QED
        BY <1>8, <1>9, <2>2, <3>1, <4>1
    <3> QED
      BY <3>2, <3>3
  <2>4. ASSUME NEW u \in Threads, pc'[u] = "connected"
        PROVE  \A v \in Share(u) : ListSet(v)' /\ CountSet(v)'
    BY <1>1, <1>8, <1>9, <2>2, <2>4 DEF ConnectInv
  <2>5. ASSUME NEW u \in Threads, pc'[u] \in {"first", "connect", "connected"}
        PROVE  EdgesRead(u)'
    BY <1>1, <2>1, <2>5 DEF ConnectInv
  <2>6. \A u \in Threads : pc'[u] \notin {"mirror", "free", "loaded"}
    BY <1>1, <1>11 DEF Edges
  <2> QED
    BY <2>3, <2>4, <2>5, <2>6 DEF ConnectInv
<1>18. MirroringInv'
  BY <1>1, <1>8, <1>11 DEF MirroringInv, Edges
<1> QED
  BY <1>12, <1>13, <1>14, <1>15, <1>16, <1>17, <1>18 DEF LoaderState, LoaderInv

\* The last vertex of the share gets its count.
LEMMA ConnectLastKeeps ==
  ASSUME Inv, NEW t \in Threads, ConnectLast(t) PROVE LoaderState'
<1> USE InvParts, SharedSame, ThreadFacts
<1>1. /\ pc[t] = "connect" /\ next[t] = End(t) /\ Goto(t, "connected")
      /\ CountNeighbours(next[t] - 1, EdgeEnd(t) - all_offsets[next[t] - 1])
      /\ UNCHANGED <<graph, files, build, ip_edges_count, all_offsets, all_out_neighbours,
                     position, critical, next, out_neighbours, in_neighbours, mirror>>
      /\ UNCHANGED sharedVars
  BY DEF ConnectLast, sharedVars, fileVars
<1>2. pc[t] \notin Early \cup {"loaded"} /\ pc[t] \in Edges /\ "connected" \in Edges
  BY <1>1 DEF Early, Edges
<1>3. PICK n : /\ n = next[t] /\ n \in Nat /\ n - 1 \in Locations /\ n = End(t)
               /\ Start(t) \in Nat /\ n <= VertexCount
  BY <1>1, NextFacts
<1>4. n \in 1 .. VertexCount
  BY <1>3, LocationFacts DEF Locations
<1>5. /\ all_offsets[n - 1] = Offset(graph, n - 1)
      /\ Len(graph[n - 1]) \in Nat
      /\ Offset(graph, n) - Offset(graph, n - 1) = Len(graph[n - 1])
  BY <1>2, <1>4, CountOfVertex
<1>6. /\ EdgeEnd(t) = Offset(graph, n)
      /\ all_out_neighbours \in [0 .. ip_edges_count - 1 -> Locations \cup {None}]
  BY <1>2, <1>3, OffsetFacts
<1>7. CountNeighbours(n - 1, Len(graph[n - 1])) /\ UNCHANGED <<graph, build>>
  BY <1>1, <1>3, <1>5, <1>6
<1>8. /\ out_neighbour_count' \in [Locations -> Nat \cup {None}]
      /\ in_neighbour_count' \in [Locations -> Nat \cup {None}]
      /\ \A v \in Locations :
           /\ out_neighbour_count'[v] \in {out_neighbour_count[v], Len(graph[v])}
           /\ in_neighbour_count'[v] \in {in_neighbour_count[v]} \cup
                IF Undirected THEN {Len(graph[v])} ELSE {}
      /\ CountSet(n - 1)'
      /\ \A v \in Locations : CountSet(v) => CountSet(v)'
  <2> HIDE InvParts, SharedSame, ThreadFacts
  <2> QED
    BY <1>3, <1>5, <1>7, VertexCounted
<1>9. /\ pc' \in [Threads -> PCs] /\ pc'[t] = "connected"
      /\ \A u \in Threads : pc[u] \in Edges /\ pc'[u] \in Edges
      /\ \A u \in Threads \ {t} : pc'[u] = pc[u]
      /\ SamePhase' /\ ConfigInv' /\ SharesInv' /\ OffsetsInv' /\ ProperBuild(build)'
  BY <1>1, <1>2, <1>6, EdgesStep
<1>10. LoaderTypeOK'
  BY <1>1, <1>8, <1>9 DEF LoaderTypeOK
<1>11. CountsInv'
  <2>1. \A u \in Threads : \A v \in Share(u) : v \in Locations
    BY ShareOfVertices
  <2> QED
    BY <1>1, <1>8, <1>9, <2>1 DEF CountsInv, Undirected, Edges
<1>12. CriticalInv'
  BY <1>1, <1>9 DEF CriticalInv
<1>13. ConnectInv'
  <2>1. \A u \in Threads : EdgesRead(u) => EdgesRead(u)'
    BY <1>1 DEF EdgesRead
  <2>2. \A v \in Locations : ListSet(v) => ListSet(v)'
    BY <1>1 DEF ListSet, Undirected
  <2>3. \A u \in Threads : \A v \in Share(u) : v \in Locations
    BY ShareOfVertices
  <2>4. EdgesRead(t) /\ \A v \in Share(t) : ListSet(v)' /\ CountSet(v)'
    <3>1. /\ EdgesRead(t)
          /\ \A v \in Share(t) : v < n => ListSet(v)
          /\ \A v \in Share(t) : v + 1 < n => CountSet(v)
      BY <1>1, <1>3 DEF ConnectInv
    <3>2. \A v \in Share(t) : v \in Nat /\ v < n
      BY <1>3, ShareOfVertices
    <3>3. \A v \in Share(t) : v + 1 < n \/ v = n - 1
      BY <1>3, <3>2
    <3> QED
      BY <1>8, <2>2, <2>3, <3>1, <3>2, <3>3
  <2>5. ASSUME NEW u \in Threads, pc'[u] = "connect"
        PROVE  /\ next'[u] \in Start(u) .. End(u) /\ (u = 0 => next'[u] # 0)
               /\ \A v \in Share(u) : v < next'[u] => ListSet(v)'
               /\ \A v \in Share(u) : v + 1 < next'[u] => CountSet(v)'
    <3>1. pc[u] = "connect"
      BY <1>9, <2>5
    <3> QED
      BY <1>1, <1>8, <2>2, <2>3, <3>1 DEF ConnectInv
  <2>6. ASSUME NEW u \in Threads, pc'[u] \in {"first", "connect", "connected"}
        PROVE  EdgesRead(u)'
    BY <1>9, <2>1, <2>4, <2>6 DEF ConnectInv
  <2>7. ASSUME NEW u \in Threads, pc'[u] = "connected"
        PROVE  \A v \in Share(u) : ListSet(v)' /\ CountSet(v)'
    <3>1. CASE u = t
      BY <2>4, <3>1
    <3>2. CASE u # t
      <4>1. pc[u] = "connected"
        BY <1>9, <2>7, <3>2
      <4> QED
        BY <1>8, <2>2, <2>3, <4>1 DEF ConnectInv
    <3> QED
      BY <3>1, <3>2
  <2>8. \A u \in Threads : pc'[u] \notin {"mirror", "free", "loaded"}
    BY <1>9 DEF Edges
  <2> QED
    BY <2>5, <2>6, <2>7, <2>8 DEF ConnectInv
<1>14. MirroringInv'
  BY <1>1, <1>9 DEF MirroringInv, Edges
<1> QED
  BY <1>9, <1>10, <1>11, <1>12, <1>13, <1>14 DEF LoaderState, LoaderInv

\* Every vertex is connected, and the mirroring has been over no edge.
LEMMA JoinConnectedKeeps ==
  ASSUME Inv, Join("connected", "mirror") PROVE LoaderState'
<1> USE InvParts, SharedSame, ThreadFacts
<1>1. /\ \A t \in Threads : pc[t] = "connected"
      /\ pc' = [t \in Threads |-> "mirror"]
      /\ UNCHANGED <<graph, files, build, ip_edges_count, all_offsets, all_out_neighbours, position,
                     critical, next, out_neighbours, out_neighbour_count, in_neighbours,
                     in_neighbour_count, mirror>>
      /\ UNCHANGED sharedVars
  BY DEF Join, sharedVars, fileVars, outVars, inVars
<1>2. /\ pc' \in [Threads -> PCs] /\ (\A u \in Threads : pc'[u] = "mirror")
      /\ SamePhase'
  <2>1. {"mirror"} \in Phases /\ "mirror" \in PCs
    BY DEF Phases, PCs
  <2>2. pc' \in [Threads -> PCs] /\ \A u \in Threads : pc'[u] = "mirror"
    BY <1>1, <2>1
  <2> QED
    BY <2>1, <2>2 DEF SamePhase
<1>3. LoaderTypeOK'
  BY <1>1, <1>2 DEF LoaderTypeOK
<1>4. ConfigInv'
  BY <1>1, <1>2 DEF ConfigInv, Generated
<1>5. SharesInv' /\ OffsetsInv'
  BY <1>1, <1>2 DEF SharesInv, OffsetsInv, Early
<1>6. CountsInv'
  BY <1>1, <1>2 DEF CountsInv, Undirected
<1>7. CriticalInv'
  BY <1>1, <1>2 DEF CriticalInv
<1>8. ConnectInv'
  <2>1. \A u \in Threads : EdgesRead(u) => EdgesRead(u)'
    BY <1>1 DEF EdgesRead
  <2>2. \A v \in Locations : (ListSet(v) => ListSet(v)') /\ (CountSet(v) => CountSet(v)')
    BY <1>1 DEF ListSet, CountSet, Undirected
  <2>3. \A u \in Threads : \A v \in Share(u) : v \in Locations
    BY ShareOfVertices
  <2> QED
    BY <1>1, <1>2, <2>1, <2>2, <2>3 DEF ConnectInv
<1>9. MirroringInv'
  <2>1. ASSUME Mirrors PROVE MirrorInv
    <3>1. /\ mirror = [i |-> 0, j |-> 0] /\ \A v \in Locations : in_neighbours[v] = None
      BY <1>1, <2>1 DEF MirroringInv, Mirrors
    <3>2. Offset(graph, 0) = 0
      BY ConcatenatedNone DEF Offset
    <3>3. mirror.j \in Offset(graph, mirror.i) .. Offset(graph, mirror.i + 1)
      <4>1. Offset(graph, 0 + 1) \in Nat
        BY LocationFacts, ConcatenatedTyped
      <4> QED
        BY <3>1, <3>2, <4>1
    <3>4. ASSUME NEW v \in Locations
          PROVE  /\ Mirrored(v) = << >> /\ in_neighbour_count[v] = 0
      <4>1. PICK u \in Threads : v \in Share(u)
        BY SharesCover
      <4> QED
        BY <1>1, <2>1, <3>1, <4>1 DEF CountsInv, Undirected, Mirrors, Mirrored
    <3>5. \A u \in Locations : EdgesDone(u) = 0
      BY <3>1, <3>2, LocationFacts, SMTT(30) DEF EdgesDone
    <3>6. \A u \in Locations : SubSeq(graph[u], 1, 0) = << >>
      BY SubSeqEmpty
    <3>7. ASSUME NEW v \in Locations, NEW u \in Locations
          PROVE  Occurrences(u, Mirrored(v)) = Occurrences(v, SubSeq(graph[u], 1, EdgesDone(u)))
      <4>1. \A x : Occurrences(x, << >>) = 0
        BY NoOccurrence
      <4> QED
        BY <3>4, <3>5, <3>6, <4>1
    <3>8. ASSUME NEW v \in Locations
          PROVE  Mirrored(v) \in Seq(Locations) /\ in_neighbour_count[v] = Len(Mirrored(v))
      <4>1. << >> \in Seq(Locations) /\ Len(<< >>) = 0
        BY EmptySeq
      <4> QED
        BY <3>4, <4>1
    <3> QED
      BY <3>3, <3>7, <3>8 DEF MirrorInv
  <2>2. MirrorInv => MirrorInv'
    BY <1>1 DEF MirrorInv, Mirrored, EdgesDone
  <2>3. Mirrors' <=> Mirrors
    BY <1>1 DEF Mirrors
  <2> QED
    BY <1>1, <1>2, <2>1, <2>2, <2>3 DEF MirroringInv
<1>10. ProperBuild(build)'
  BY <1>1
<1> QED
  BY <1>2, <1>3, <1>4, <1>5, <1>6, <1>7, <1>8, <1>9, <1>10 DEF LoaderState, LoaderInv

\* The step of the mirroring over edge j, which is of vertex i and leads to d.
LEMMA EdgeMirrored ==
  ASSUME Inv, Mirroring, mirror.j < MirrorEnd(mirror.i)
  PROVE  LET i == mirror.i
             k == mirror.j - Offset(graph, i)
             d == all_out_neighbours[mirror.j]
         IN /\ i \in Locations /\ k \in Nat /\ k + 1 \in 1 .. Len(graph[i])
            /\ mirror.j + 1 <= Offset(graph, i + 1)
            /\ d \in Locations /\ d = graph[i][k + 1]
            /\ \A u \in Locations : EdgesDone(u) = IF u < i THEN Len(graph[u])
                                                  ELSE IF u = i THEN k ELSE 0
<1> USE InvParts, ThreadFacts
<1> DEFINE i == mirror.i
           j == mirror.j
           k == j - Offset(graph, i)
<1>1. /\ \A t \in Threads : pc[t] = "mirror"
      /\ Mirrors
  BY DEF Mirroring, Mirrors
<1>2. /\ MirrorInv /\ i \in Locations /\ i \in Nat /\ i < VertexCount /\ j \in Nat
      /\ VertexCount \in Nat
  BY <1>1, LocationFacts DEF MirroringInv
<1>3. pc[0] \notin Early \cup {"loaded"} /\ 0 \in Threads
  BY <1>1 DEF Early
<1>4. MirrorEnd(i) = Offset(graph, i + 1)
  <2>1. all_offsets = [v \in Locations |-> Offset(graph, v)] /\ ip_edges_count = Offset(graph, VertexCount)
    BY <1>3, OffsetFacts
  <2>2. CASE i = VertexCount - 1
    <3>1. i + 1 = VertexCount
      BY <1>2, <2>2
    <3> QED
      BY <2>1, <2>2, <3>1 DEF MirrorEnd
  <2>3. CASE i # VertexCount - 1
    <3>1. i + 1 \in Locations
      BY <1>2, <2>3 DEF Locations
    <3> QED
      BY <2>1, <2>3, <3>1 DEF MirrorEnd
  <2> QED
    BY <2>2, <2>3
<1>5. /\ Offset(graph, i) \in Nat /\ Len(graph[i]) \in Nat
      /\ Offset(graph, i + 1) = Offset(graph, i) + Len(graph[i])
      /\ \A l \in 1 .. Len(graph[i]) :
           Concatenated(graph, VertexCount)[Offset(graph, i) + l] = graph[i][l]
  BY <1>2, ListOfVertex
<1>6. Offset(graph, i) <= j /\ j < Offset(graph, i + 1)
  <2>1. j \in Offset(graph, i) .. Offset(graph, i + 1)
    BY <1>2 DEF MirrorInv
  <2> QED
    BY <1>2, <1>4, <1>5, <2>1
<1>7. k \in Nat /\ k + 1 \in 1 .. Len(graph[i]) /\ j + 1 = Offset(graph, i) + (k + 1)
  BY <1>2, <1>5, <1>6, SMTT(30)
<1>8. all_out_neighbours[j] = files.adj[j + 1]
  <2>1. PICK t \in Threads : i \in Share(t)
    BY <1>2, SharesCover
  <2>2. EdgesRead(t)
    BY <1>1, <2>1 DEF ConnectInv
  <2>3. Start(t) \in 0 .. i /\ i + 1 \in 0 .. End(t) /\ End(t) \in 0 .. VertexCount /\ i \in 0 .. VertexCount
    BY <1>2, <2>1, ShareOfVertices, ShareBounds
  <2>4. Offset(graph, Start(t)) <= Offset(graph, i) /\ Offset(graph, Start(t)) \in Nat
    BY <2>3, OffsetsGrow
  <2>5. Offset(graph, i + 1) <= Offset(graph, End(t)) /\ Offset(graph, End(t)) \in Nat
    BY <2>3, OffsetsGrow
  <2>6. j \in Offset(graph, Start(t)) .. Offset(graph, End(t)) - 1
    BY <1>2, <1>5, <1>6, <2>4, <2>5
  <2> QED
    BY <2>2, <2>6 DEF EdgesRead
<1>9. all_out_neighbours[j] = graph[i][k + 1]
  <2>1. files.adj = Concatenated(graph, VertexCount)
    BY <1>3, OffsetFacts, FileFacts
  <2>2. Concatenated(graph, VertexCount)[Offset(graph, i) + (k + 1)] = graph[i][k + 1]
    BY <1>5, <1>7
  <2> QED
    BY <1>7, <1>8, <2>1, <2>2
<1>10. graph[i][k + 1] \in Locations
  <2>1. graph[i] \in Seq(Locations)
    BY <1>2 DEF Graphs
  <2> QED
    BY <1>7, <2>1, ElementOfSeq
<1>11. \A u \in Locations : EdgesDone(u) = IF u < i THEN Len(graph[u]) ELSE IF u = i THEN k ELSE 0
  BY DEF EdgesDone
<1> QED
  BY <1>2, <1>5, <1>6, <1>7, <1>9, <1>10, <1>11

\* The source of the edge joins the in-neighbours of its end.
LEMMA MirrorEdgeKeeps ==
  ASSUME Inv, MirrorEdge PROVE LoaderState'
<1> USE InvParts, SharedSame, ThreadFacts
<1>1. /\ Mirroring /\ mirror.j < MirrorEnd(mirror.i)
      /\ mirror' = [mirror EXCEPT !.j = @ + 1]
      /\ UNCHANGED <<graph, files, build, pc, ip_edges_count, all_offsets, all_out_neighbours,
                     position, critical, next, out_neighbours, out_neighbour_count>>
      /\ UNCHANGED sharedVars
  BY DEF MirrorEdge, sharedVars, fileVars, outVars
<1>2. (\A t \in Threads : pc[t] = "mirror") /\ Mirrors
  BY <1>1 DEF Mirroring, Mirrors
<1>3. PICK i, j, k, d :
        /\ i = mirror.i /\ j = mirror.j /\ k = j - Offset(graph, i) /\ d = all_out_neighbours[j]
        /\ i \in Locations /\ k \in Nat /\ k + 1 \in 1 .. Len(graph[i])
        /\ j + 1 <= Offset(graph, i + 1)
        /\ d \in Locations /\ d = graph[i][k + 1]
        /\ \A u \in Locations : EdgesDone(u) = IF u < i THEN Len(graph[u]) ELSE IF u = i THEN k ELSE 0
  BY <1>1, EdgeMirrored
<1>4. MirrorInv /\ mirror \in [i : Locations, j : Nat] /\ j \in Nat
  BY <1>2, <1>3 DEF MirroringInv
<1>5. /\ mirror' = [i |-> i, j |-> j + 1] /\ mirror'.i = i /\ mirror'.j = j + 1
      /\ mirror' \in [i : Locations, j : Nat]
  BY <1>1, <1>3, <1>4
<1>6. /\ in_neighbours' = [in_neighbours EXCEPT ![d] = Append(IF @ = None THEN << >> ELSE @, i)]
      /\ in_neighbour_count' = [in_neighbour_count EXCEPT ![d] = @ + 1]
  BY <1>3 DEF MirrorEdge
<1>7. Mirrored(d) \in Seq(Locations) /\ Append(Mirrored(d), i) \in Seq(Locations)
  <2>1. Mirrored(d) \in Seq(Locations)
    BY <1>3, <1>4 DEF MirrorInv
  <2> QED
    BY <1>3, <2>1, AppendProperties
<1>8. /\ in_neighbours' = [v \in Locations |-> in_neighbours'[v]]
      /\ in_neighbours'[d] = Append(Mirrored(d), i)
      /\ \A v \in Locations \ {d} : in_neighbours'[v] = in_neighbours[v]
  <2>1. PICK field : field = in_neighbours /\ field = [v \in Locations |-> field[v]]
    BY DEF MirroringInv
  <2>2. in_neighbours' = [field EXCEPT ![d] = Append(Mirrored(d), i)]
    BY <1>6, <2>1 DEF Mirrored
  <2>3. PICK more : more = in_neighbours' /\ more = [field EXCEPT ![d] = Append(Mirrored(d), i)]
    BY <2>2
  <2> QED
    BY <1>3, <2>1, <2>3
<1>9. /\ Mirrored(d)' = Append(Mirrored(d), i)
      /\ \A v \in Locations \ {d} : Mirrored(v)' = Mirrored(v)
  BY <1>7, <1>8, NumbersAreNotNone DEF Mirrored
<1>10. /\ in_neighbour_count' \in [Locations -> Nat \cup {None}]
       /\ in_neighbour_count'[d] = in_neighbour_count[d] + 1
       /\ \A v \in Locations \ {d} : in_neighbour_count'[v] = in_neighbour_count[v]
  <2>1. /\ in_neighbour_count \in [Locations -> Nat \cup {None}]
        /\ in_neighbour_count[d] \in Nat
    <3>1. in_neighbour_count[d] = Len(Mirrored(d))
      BY <1>3, <1>4 DEF MirrorInv
    <3> QED
      BY <1>7, <3>1, LenProperties DEF LoaderTypeOK
  <2> QED
    BY <1>3, <1>6, <2>1, SMTT(30)
<1>11. LoaderTypeOK'
  BY <1>1, <1>5, <1>10 DEF LoaderTypeOK
<1>12. SamePhase' /\ ConfigInv' /\ SharesInv' /\ ProperBuild(build)' /\ CriticalInv'
  BY <1>1 DEF SamePhase, ConfigInv, SharesInv, Generated, CriticalInv
<1>13. OffsetsInv'
  BY <1>1, <1>2 DEF OffsetsInv
<1>14. CountsInv'
  BY <1>1, <1>2 DEF CountsInv
<1>15. ConnectInv'
  <2>1. \A u \in Threads : EdgesRead(u) => EdgesRead(u)'
    BY <1>1 DEF EdgesRead
  <2>2. \A v \in Locations : (ListSet(v) => ListSet(v)') /\ (CountSet(v) => CountSet(v)')
    <3>1. ~Undirected
      BY <1>2 DEF Mirrors, Undirected
    <3> QED
      BY <1>1, <3>1 DEF ListSet, CountSet, Undirected
  <2>3. \A u \in Threads : \A v \in Share(u) : v \in Locations
    BY ShareOfVertices
  <2> QED
    BY <1>1, <1>2, <2>1, <2>2, <2>3 DEF ConnectInv
<1>16. MirrorInv'
  <2>1. mirror'.j \in Offset(graph, mirror'.i) .. Offset(graph, mirror'.i + 1)
    <3>1. Offset(graph, i) \in Nat /\ Offset(graph, i + 1) \in Nat
      BY <1>3, LocationFacts, ConcatenatedTyped
    <3> QED
      BY <1>3, <1>4, <1>5, <3>1
  <2>2. ASSUME NEW v \in Locations
        PROVE  /\ Mirrored(v)' \in Seq(Locations)
               /\ in_neighbour_count'[v] = Len(Mirrored(v)')
    <3>1. Mirrored(v) \in Seq(Locations) /\ in_neighbour_count[v] = Len(Mirrored(v))
      BY <1>4 DEF MirrorInv
    <3>2. CASE v = d
      <4>1. Len(Append(Mirrored(d), i)) = Len(Mirrored(d)) + 1
        BY <1>3, <1>7, AppendProperties
      <4> QED
        BY <1>7, <1>9, <1>10, <3>1, <3>2, <4>1
    <3>3. CASE v # d
      BY <1>9, <1>10, <3>1, <3>3
    <3> QED
      BY <3>2, <3>3
  <2>3. \A u \in Locations : EdgesDone(u)' = IF u < i THEN Len(graph[u]) ELSE IF u = i THEN k + 1 ELSE 0
    <3>1. Offset(graph, i) \in Nat
      BY <1>3, LocationFacts, ConcatenatedTyped
    <3>2. (j + 1) - Offset(graph, i) = k + 1
      BY <1>3, <1>4, <3>1
    <3> QED
      BY <1>1, <1>5, <3>2 DEF EdgesDone
  <2>4. ASSUME NEW v \in Locations, NEW u \in Locations
        PROVE  Occurrences(u, Mirrored(v)') = Occurrences(v, SubSeq(graph[u], 1, EdgesDone(u)'))
    <3>1. Occurrences(u, Mirrored(v)) = Occurrences(v, SubSeq(graph[u], 1, EdgesDone(u)))
      BY <1>4 DEF MirrorInv
    <3>2. Occurrences(u, Mirrored(v)') =
            Occurrences(u, Mirrored(v)) + IF u = i /\ v = d THEN 1 ELSE 0
      <4>1. Mirrored(v) \in Seq(Locations)
        BY <1>4 DEF MirrorInv
      <4>2. /\ Occurrences(u, Mirrored(v)) \in Nat
            /\ Occurrences(u, Append(Mirrored(v), i)) =
                 Occurrences(u, Mirrored(v)) + IF u = i THEN 1 ELSE 0
        BY <1>3, <4>1, OccurrencesAppend
      <4>3. CASE v = d
        BY <1>9, <4>2, <4>3
      <4>4. CASE v # d
        <5>1. Mirrored(v)' = Mirrored(v)
          BY <1>9, <4>4
        <5>2. Occurrences(u, Mirrored(v)) + 0 = Occurrences(u, Mirrored(v))
          BY <4>2
        <5> QED
          BY <4>4, <5>1, <5>2
      <4> QED
        BY <4>3, <4>4
    <3>3. Occurrences(v, SubSeq(graph[u], 1, EdgesDone(u)')) =
            Occurrences(v, SubSeq(graph[u], 1, EdgesDone(u))) + IF u = i /\ v = d THEN 1 ELSE 0
      <4>1. graph[u] \in Seq(Locations) /\ Len(graph[u]) \in Nat /\ u \in Nat /\ i \in Nat
        BY <1>3, LocationFacts, ListOfVertex DEF Graphs
      <4>2. EdgesDone(u) \in 0 .. Len(graph[u])
        BY <1>3, <4>1
      <4>3. SubSeq(graph[u], 1, EdgesDone(u)) \in Seq(Locations)
        BY <4>1, <4>2, FirstEntries
      <4>4. Occurrences(v, SubSeq(graph[u], 1, EdgesDone(u))) \in Nat
        BY <1>3, <4>3, OccurrencesAppend
      <4>5. CASE u = i
        <5>1. EdgesDone(u) = k /\ EdgesDone(u)' = k + 1
          BY <1>3, <2>3, <4>1, <4>5
        <5>2. SubSeq(graph[i], 1, k + 1) = Append(SubSeq(graph[i], 1, k), d)
          BY <1>3, <4>1, <4>5, FirstEntries, SMTT(30)
        <5>3. Occurrences(v, Append(SubSeq(graph[i], 1, k), d)) =
                Occurrences(v, SubSeq(graph[i], 1, k)) + IF v = d THEN 1 ELSE 0
          <6>1. SubSeq(graph[i], 1, k) \in Seq(Locations) /\ d \in Locations
            BY <1>3, <4>3, <4>5, <5>1
          <6> HIDE InvParts, SharedSame, ThreadFacts
          <6> QED
            BY <6>1, OccurrencesAppend
        <5> QED
          BY <4>5, <5>1, <5>2, <5>3
      <4>6. CASE u # i
        <5>1. EdgesDone(u)' = EdgesDone(u)
          BY <1>3, <2>3, <4>6
        <5> QED
          BY <4>4, <4>6, <5>1
      <4> QED
        BY <4>5, <4>6
    <3> QED
      BY <3>1, <3>2, <3>3
  <2> QED
    BY <1>1, <2>1, <2>2, <2>4 DEF MirrorInv
<1>17. MirroringInv'
  BY <1>1, <1>2, <1>5, <1>8, <1>16 DEF MirroringInv
<1> QED
  BY <1>11, <1>12, <1>13, <1>14, <1>15, <1>17 DEF LoaderState, LoaderInv

\* The mirroring goes on with the list of the next vertex, which starts where the one
\* before it ends.
LEMMA MirrorNextVertexKeeps ==
  ASSUME Inv, MirrorNextVertex PROVE LoaderState'
<1> USE InvParts, SharedSame, ThreadFacts
<1>1. /\ Mirroring /\ mirror.j = MirrorEnd(mirror.i) /\ mirror.i < VertexCount - 1
      /\ mirror' = [i |-> mirror.i + 1, j |-> all_offsets[mirror.i + 1]]
      /\ UNCHANGED <<graph, files, build, pc, ip_edges_count, all_offsets, all_out_neighbours,
                     position, critical, next, out_neighbours, out_neighbour_count,
                     in_neighbours, in_neighbour_count>>
      /\ UNCHANGED sharedVars
  BY DEF MirrorNextVertex, sharedVars, fileVars, outVars, inVars
<1>2. (\A t \in Threads : pc[t] = "mirror") /\ Mirrors
  BY <1>1 DEF Mirroring, Mirrors
<1>3. PICK i, j : i = mirror.i /\ j = mirror.j /\ i \in Locations /\ j \in Nat /\ MirrorInv
  BY <1>2 DEF MirroringInv
<1>4. /\ i \in Nat /\ VertexCount \in Nat /\ i # VertexCount - 1 /\ i + 1 \in Locations
      /\ i + 2 \in 0 .. VertexCount /\ i + 1 \in 0 .. i + 2
  BY <1>1, <1>3, LocationFacts DEF Locations
<1>5. all_offsets = [v \in Locations |-> Offset(graph, v)]
  <2>1. pc[0] \notin Early \cup {"loaded"}
    BY <1>2 DEF Early
  <2> QED
    BY <2>1, OffsetFacts
<1>6. j = Offset(graph, i + 1) /\ mirror' = [i |-> i + 1, j |-> j]
  BY <1>1, <1>3, <1>4, <1>5 DEF MirrorEnd
<1>7. mirror' \in [i : Locations, j : Nat]
  BY <1>3, <1>4, <1>6
<1>8. LoaderTypeOK'
  BY <1>1, <1>7 DEF LoaderTypeOK
<1>9. SamePhase' /\ ConfigInv' /\ SharesInv' /\ ProperBuild(build)' /\ CriticalInv' /\ CountsInv'
  BY <1>1 DEF SamePhase, ConfigInv, SharesInv, Generated, CriticalInv, CountsInv, Undirected
<1>10. OffsetsInv'
  BY <1>1, <1>2 DEF OffsetsInv
<1>11. ConnectInv'
  <2>1. \A u \in Threads : EdgesRead(u) => EdgesRead(u)'
    BY <1>1 DEF EdgesRead
  <2>2. \A v \in Locations : (ListSet(v) => ListSet(v)') /\ (CountSet(v) => CountSet(v)')
    BY <1>1 DEF ListSet, CountSet, Undirected
  <2>3. \A u \in Threads : \A v \in Share(u) : v \in Locations
    BY ShareOfVertices
  <2> QED
    BY <1>1, <1>2, <2>1, <2>2, <2>3 DEF ConnectInv
<1>12. MirrorInv'
  <2>1. mirror'.j \in Offset(graph, mirror'.i) .. Offset(graph, mirror'.i + 1)
    <3>1. Offset(graph, i + 1) \in Nat /\ Offset(graph, i + 2) \in Nat
          /\ Offset(graph, i + 1) <= Offset(graph, i + 2)
      BY <1>4, OffsetsGrow
    <3>2. (i + 1) + 1 = i + 2
      BY <1>4
    <3> QED
      BY <1>6, <3>1, <3>2
  <2>2. ASSUME NEW u \in Locations PROVE EdgesDone(u)' = EdgesDone(u)
    <3>1. /\ u \in Nat /\ Offset(graph, u) \in Nat /\ Len(graph[u]) \in Nat
          /\ Offset(graph, u + 1) = Offset(graph, u) + Len(graph[u])
      BY LocationFacts, ListOfVertex
    <3>2. EdgesDone(u)' = IF u < i + 1 THEN Len(graph[u])
                          ELSE IF u = i + 1 THEN j - Offset(graph, u) ELSE 0
      BY <1>1, <1>6 DEF EdgesDone
    <3>3. EdgesDone(u) = IF u < i THEN Len(graph[u])
                         ELSE IF u = i THEN j - Offset(graph, u) ELSE 0
      BY <1>3 DEF EdgesDone
    <3>4. CASE u = i
      <4>1. j - Offset(graph, u) = Len(graph[u])
        BY <1>3, <1>6, <3>1, <3>4
      <4> QED
        BY <1>4, <3>2, <3>3, <3>4, <4>1
    <3>5. CASE u = i + 1
      <4>1. j - Offset(graph, u) = 0
        BY <1>3, <1>6, <3>1, <3>5
      <4> QED
        BY <1>4, <3>2, <3>3, <3>5, <4>1
    <3>6. CASE u # i /\ u # i + 1
      BY <1>4, <3>1, <3>2, <3>3, <3>6
    <3> QED
      BY <3>4, <3>5, <3>6
  <2>3. \A v \in Locations : Mirrored(v)' = Mirrored(v)
    BY <1>1 DEF Mirrored
  <2> QED
    BY <1>1, <1>3, <2>1, <2>2, <2>3 DEF MirrorInv
<1>13. MirroringInv'
  BY <1>1, <1>2, <1>7, <1>12 DEF MirroringInv
<1> QED
  BY <1>8, <1>9, <1>10, <1>11, <1>13 DEF LoaderState, LoaderInv

\* The mirroring has been over all edges, or there is none.
LEMMA EndMirrorKeeps ==
  ASSUME Inv, EndMirror PROVE LoaderState'
<1> USE InvParts, SharedSame, ThreadFacts
<1>1. /\ \A t \in Threads : pc[t] = "mirror"
      /\ pc' = [t \in Threads |-> "free"]
      /\ Mirroring => mirror = [i |-> VertexCount - 1, j |-> ip_edges_count]
      /\ UNCHANGED <<graph, files, build, ip_edges_count, all_offsets, all_out_neighbours, position,
                     critical, next, out_neighbours, out_neighbour_count, in_neighbours,
                     in_neighbour_count, mirror>>
      /\ UNCHANGED sharedVars
  BY DEF EndMirror, Join, sharedVars, fileVars, outVars, inVars
<1>2. /\ pc' \in [Threads -> PCs] /\ (\A u \in Threads : pc'[u] = "free")
      /\ SamePhase'
  <2>1. {"free"} \in Phases /\ "free" \in PCs
    BY DEF Phases, PCs
  <2>2. pc' \in [Threads -> PCs] /\ \A u \in Threads : pc'[u] = "free"
    BY <1>1, <2>1
  <2> QED
    BY <2>1, <2>2 DEF SamePhase
<1>3. LoaderTypeOK'
  BY <1>1, <1>2 DEF LoaderTypeOK
<1>4. ConfigInv'
  BY <1>1, <1>2 DEF ConfigInv, Generated
<1>5. SharesInv' /\ OffsetsInv'
  BY <1>1, <1>2 DEF SharesInv, OffsetsInv, Early
<1>6. CountsInv'
  BY <1>1, <1>2 DEF CountsInv, Undirected
<1>7. CriticalInv'
  BY <1>1, <1>2 DEF CriticalInv
<1>8. ConnectInv'
  <2>1. \A u \in Threads : EdgesRead(u) => EdgesRead(u)'
    BY <1>1 DEF EdgesRead
  <2>2. \A v \in Locations : (ListSet(v) => ListSet(v)') /\ (CountSet(v) => CountSet(v)')
    BY <1>1 DEF ListSet, CountSet, Undirected
  <2>3. \A u \in Threads : \A v \in Share(u) : v \in Locations
    BY ShareOfVertices
  <2> QED
    BY <1>1, <1>2, <2>1, <2>2, <2>3 DEF ConnectInv
<1>9. MirroringInv'
  <2>1. Mirrors => MirrorInv /\ mirror = [i |-> VertexCount - 1, j |-> ip_edges_count]
    BY <1>1 DEF MirroringInv, Mirrors, Mirroring
  <2>2. MirrorInv => MirrorInv'
    BY <1>1 DEF MirrorInv, Mirrored, EdgesDone
  <2>3. Mirrors' <=> Mirrors
    BY <1>1 DEF Mirrors
  <2> QED
    BY <1>1, <1>2, <2>1, <2>2, <2>3 DEF MirroringInv
<1>10. ProperBuild(build)'
  BY <1>1
<1> QED
  BY <1>2, <1>3, <1>4, <1>5, <1>6, <1>7, <1>8, <1>9, <1>10 DEF LoaderState, LoaderInv

\* What only the mirroring needed is given back.
LEMMA FreeMemoryKeeps ==
  ASSUME Inv, FreeMemory PROVE LoaderState'
<1> USE InvParts, SharedSame, ThreadFacts
<1>1. /\ \A t \in Threads : pc[t] = "free"
      /\ pc' = [t \in Threads |-> "loaded"]
      /\ all_out_neighbours' = IF "directed" \in build /\ "out_ids" \notin build
                               THEN Freed(all_out_neighbours) ELSE all_out_neighbours
      /\ all_offsets' = IF "directed" \in build /\ "out_count" \notin build
                        THEN Freed(all_offsets) ELSE all_offsets
      /\ UNCHANGED <<graph, files, build, ip_edges_count, position,
                     critical, next, out_neighbours, out_neighbour_count, in_neighbours,
                     in_neighbour_count, mirror>>
      /\ UNCHANGED sharedVars
  BY DEF FreeMemory, sharedVars, outVars, inVars
<1>2. /\ pc' \in [Threads -> PCs] /\ (\A u \in Threads : pc'[u] = "loaded")
      /\ SamePhase'
  <2>1. {"loaded"} \in Phases /\ "loaded" \in PCs
    BY DEF Phases, PCs
  <2>2. pc' \in [Threads -> PCs] /\ \A u \in Threads : pc'[u] = "loaded"
    BY <1>1, <2>1
  <2> QED
    BY <2>1, <2>2 DEF SamePhase
<1>3. /\ all_offsets \in [Locations -> Nat \cup {None}]
      /\ all_out_neighbours \in [0 .. ip_edges_count - 1 -> Locations \cup {None}]
  BY <1>1 DEF ConfigInv
<1>4. /\ all_offsets' \in [Locations -> Nat \cup {None}]
      /\ all_out_neighbours' \in [0 .. ip_edges_count' - 1 -> Locations \cup {None}]
  BY <1>1, <1>3 DEF Freed
<1>5. LoaderTypeOK'
  BY <1>1, <1>2, <1>4 DEF LoaderTypeOK
<1>6. ConfigInv'
  BY <1>1, <1>2, <1>4 DEF ConfigInv, Generated
<1>7. SharesInv' /\ OffsetsInv'
  BY <1>1, <1>2 DEF SharesInv, OffsetsInv, Early
<1>8. CountsInv'
  BY <1>1, <1>2 DEF CountsInv, Undirected
<1>9. CriticalInv'
  BY <1>1, <1>2 DEF CriticalInv
<1>10. ConnectInv'
  <2>1. ("out_ids" \in build \/ Undirected) => \A u \in Threads : EdgesRead(u)'
    BY <1>1 DEF ConnectInv, EdgesRead, Undirected
  <2>2. \A v \in Locations : (ListSet(v) => ListSet(v)') /\ (CountSet(v) => CountSet(v)')
    BY <1>1 DEF ListSet, CountSet, Undirected
  <2>3. \A u \in Threads : \A v \in Share(u) : v \in Locations
    BY ShareOfVertices
  <2>4. Undirected' <=> Undirected
    BY <1>1 DEF Undirected
  <2> QED
    BY <1>1, <1>2, <2>1, <2>2, <2>3, <2>4 DEF ConnectInv
<1>11. MirroringInv'
  <2>1. MirrorInv => MirrorInv'
    BY <1>1 DEF MirrorInv, Mirrored, EdgesDone
  <2>2. Mirrors' <=> Mirrors
    BY <1>1 DEF Mirrors
  <2> QED
    BY <1>1, <1>2, <2>1, <2>2 DEF MirroringInv
<1>12. ProperBuild(build)'
  BY <1>1
<1> QED
  BY <1>2, <1>5, <1>6, <1>7, <1>8, <1>9, <1>10, <1>11, <1>12 DEF LoaderState, LoaderInv

------------------------------------------------------------------------------
(* The specification.                                                      *)

\* At first nothing is loaded.
LEMMA LoaderInit ==
  ASSUME Init PROVE LoaderTypeOK /\ LoaderInv
<1> USE ThreadFacts, LocationFacts
<1>1. /\ pc = [t \in Threads |-> "config"] /\ ip_edges_count = None
      /\ all_offsets = None /\ all_out_neighbours = None /\ position = 0 /\ critical = None
      /\ next = [t \in Threads |-> 0]
      /\ out_neighbours = [v \in Locations |-> None]
      /\ out_neighbour_count = [v \in Locations |-> None]
      /\ in_neighbours = [v \in Locations |-> None]
      /\ in_neighbour_count = [v \in Locations |-> None]
      /\ mirror = [i |-> 0, j |-> 0]
  BY DEF Init, LoaderStart
<1>2. ProperBuild(build) /\ build \in SUBSET Needs
  BY GeneratorInit DEF ProperBuild
<1>3. /\ pc \in [Threads -> PCs] /\ \A t \in Threads : pc[t] = "config"
  BY <1>1 DEF PCs
<1>4. LoaderTypeOK
  BY <1>1, <1>2, <1>3 DEF LoaderTypeOK
<1>5. SamePhase
  <2>1. {"config"} \in Phases /\ \A t \in Threads : pc[t] \in {"config"}
    BY <1>3 DEF Phases
  <2> QED
    BY <2>1 DEF SamePhase
<1>6. ConfigInv /\ SharesInv /\ OffsetsInv /\ CriticalInv /\ ConnectInv
  BY <1>1, <1>3 DEF ConfigInv, SharesInv, OffsetsInv, CriticalInv, ConnectInv, Early
<1>7. CountsInv
  BY <1>1, <1>3 DEF CountsInv
<1>8. MirroringInv
  BY <1>1, <1>3 DEF MirroringInv
<1> QED
  BY <1>2, <1>4, <1>5, <1>6, <1>7, <1>8 DEF LoaderInv

\* While the generator runs, the threads wait for its files.
LEMMA GenerateKeepsLoader ==
  ASSUME Inv, Generate PROVE LoaderState'
<1> USE InvParts, ThreadFacts
<1>1. /\ ~Generated
      /\ UNCHANGED <<build, pc, ip_edges_count, all_offsets, all_out_neighbours, position, critical,
                     next, out_neighbours, out_neighbour_count, in_neighbours, in_neighbour_count,
                     mirror>>
  BY DEF Generate, fileVars, outVars, inVars
<1>2. \A t \in Threads : pc[t] = "config"
  BY <1>1 DEF ConfigInv
<1>3. LoaderTypeOK' /\ SamePhase' /\ ProperBuild(build)'
  BY <1>1 DEF LoaderTypeOK, SamePhase
<1>4. ConfigInv' /\ SharesInv' /\ OffsetsInv' /\ CriticalInv' /\ ConnectInv'
  BY <1>1, <1>2 DEF ConfigInv, SharesInv, OffsetsInv, CriticalInv, ConnectInv, Early
<1>5. CountsInv' /\ MirroringInv'
  BY <1>1, <1>2 DEF CountsInv, MirroringInv
<1> QED
  BY <1>3, <1>4, <1>5 DEF LoaderState, LoaderInv

\* A step that changes nothing keeps everything.
LEMMA StutterKeeps ==
  ASSUME Inv, UNCHANGED vars PROVE LoaderState'
<1> USE InvParts
<1>1. UNCHANGED <<graph, files, build, pc, ip_edges_count, all_offsets, all_out_neighbours, position,
                  critical, next, out_neighbours, out_neighbour_count, in_neighbours,
                  in_neighbour_count, mirror>>
  BY DEF vars, loaderVars, sharedVars, fileVars, outVars, inVars
<1>2. LoaderTypeOK' /\ SamePhase' /\ ProperBuild(build)'
  BY <1>1 DEF LoaderTypeOK, SamePhase
<1>3. ConfigInv' /\ SharesInv' /\ CriticalInv' /\ CountsInv'
  BY <1>1 DEF ConfigInv, SharesInv, CriticalInv, CountsInv, Generated, Undirected
<1>4. OffsetsInv'
  <2>1. \A v : OffsetRead(v)' = OffsetRead(v)
    BY <1>1 DEF OffsetRead
  <2> QED
    BY <1>1, <2>1 DEF OffsetsInv
<1>5. ConnectInv'
  <2>1. \A u \in Threads : EdgesRead(u) => EdgesRead(u)'
    BY <1>1 DEF EdgesRead
  <2>2. \A v \in Locations : (ListSet(v) => ListSet(v)') /\ (CountSet(v) => CountSet(v)')
    BY <1>1 DEF ListSet, CountSet, Undirected
  <2>3. \A u \in Threads : \A v \in Share(u) : v \in Locations
    BY ShareOfVertices
  <2>4. Undirected' <=> Undirected
    BY <1>1 DEF Undirected
  <2> QED
    BY <1>1, <2>1, <2>2, <2>3, <2>4 DEF ConnectInv
<1>6. MirroringInv'
  <2>1. MirrorInv => MirrorInv'
    BY <1>1 DEF MirrorInv, Mirrored, EdgesDone
  <2>2. Mirrors' <=> Mirrors
    BY <1>1 DEF Mirrors
  <2> QED
    BY <1>1, <2>1, <2>2 DEF MirroringInv
<1> QED
  BY <1>2, <1>3, <1>4, <1>5, <1>6 DEF LoaderState, LoaderInv

\* What a thread does alone keeps the invariant.
LEMMA ThreadStepKeeps ==
  ASSUME Inv, NEW t \in Threads, ThreadStep(t) PROVE LoaderState'
BY InitShareKeeps, ReadOffsetsKeeps, RefuseOffsetsKeeps, SeekKeeps, ReadKeeps, ConnectFirstKeeps,
   ConnectKeeps, ConnectLastKeeps DEF ThreadStep

\* So does what they do together, or one of them for all.
LEMMA MasterStepKeeps ==
  ASSUME Inv, MasterStep PROVE LoaderState'
BY LoadConfigKeeps, JoinInitialisedKeeps, JoinOffsetsKeeps, JoinConnectedKeeps, MirrorEdgeKeeps,
   MirrorNextVertexKeeps, EndMirrorKeeps, FreeMemoryKeeps DEF MasterStep

\* No step of the loader changes the graph, the files or the application.
LEMMA LoaderReadsFiles ==
  /\ \A t \in Threads : ThreadStep(t) => UNCHANGED sharedVars
  /\ MasterStep => UNCHANGED sharedVars
<1>1. \A t \in Threads : ThreadStep(t) => UNCHANGED sharedVars
  BY DEF ThreadStep, InitShare, ReadOffsets, RefuseOffsets, Seek, Read, ConnectFirst, Connect,
         ConnectLast
<1>2. MasterStep => UNCHANGED sharedVars
  BY DEF MasterStep, LoadConfig, Join, MirrorEdge, MirrorNextVertex, EndMirror, FreeMemory
<1> QED
  BY <1>1, <1>2

\* The invariant holds, for every number of vertices and of threads, every file and
\* every application.
LEMMA InvHolds == Spec => []Inv
<1>1. Init => Inv
  BY GeneratorInit, LoaderInit DEF Inv, TypeOK, GeneratorState
<1>2. ASSUME Inv, [Next]_vars PROVE Inv'
  <2>1. GeneratorState /\ (GeneratorState' /\ LoaderState' => Inv')
    BY <1>2, InvParts DEF Inv, TypeOK, GeneratorState, LoaderState
  <2>2. CASE Generate
    BY <1>2, <2>1, <2>2, GenerateKeeps, GenerateKeepsLoader
  <2>3. CASE \E t \in Threads : Load(t)
    <3>1. PICK t \in Threads : ThreadStep(t) /\ UNCHANGED generatorVars
      BY <2>3 DEF Load
    <3>2. UNCHANGED <<generatorVars, sharedVars>>
      BY <3>1, LoaderReadsFiles
    <3> QED
      BY <1>2, <2>1, <3>1, <3>2, ThreadStepKeeps, LoaderKeepsFiles
  <2>4. CASE LoadTogether
    <3>1. MasterStep /\ UNCHANGED generatorVars
      BY <2>4 DEF LoadTogether
    <3>2. UNCHANGED <<generatorVars, sharedVars>>
      BY <3>1, LoaderReadsFiles
    <3> QED
      BY <1>2, <2>1, <3>1, <3>2, MasterStepKeeps, LoaderKeepsFiles
  <2>5. CASE UNCHANGED vars
    <3>1. UNCHANGED <<generatorVars, sharedVars>>
      BY <2>5 DEF vars, loaderVars
    <3> QED
      BY <1>2, <2>1, <2>5, <3>1, StutterKeeps, LoaderKeepsFiles
  <2> QED
    BY <1>2, <2>2, <2>3, <2>4, <2>5 DEF Next
<1> QED
  BY <1>1, <1>2, PTL DEF Spec

\* The variables have their types.
THEOREM TypeCorrect == Spec => []TypeOK
<1>1. Inv => TypeOK
  BY DEF Inv
<1> QED
  BY <1>1, InvHolds, PTL

\* Every neighbour that the generator draws is another vertex, and no vertex gets more
\* neighbours than asked for: graph_generator_ligra.cpp, for any number of vertices, any
\* --maxOutDegree and whatever rand and the distribution give.
THEOREM NeighboursAreProper == Spec => []ProperNeighbours
<1>1. ASSUME Inv PROVE ProperNeighbours
  <2>1. graph \in Graphs /\ (Drawing \/ Complete)
    BY <1>1, InvParts DEF GeneratorState, FilesInv
  <2>2. exclusions # << >> => ProperLists
    BY <2>1 DEF Drawing, Complete
  <2>3. ASSUME NEW v \in Locations, NEW i \in DOMAIN graph[v] PROVE graph[v][i] \in Locations
    <3>1. graph[v] \in Seq(Locations)
      BY <2>1 DEF Graphs
    <3>2. i \in 1 .. Len(graph[v])
      BY <2>3, <3>1, LenProperties
    <3> QED
      BY <3>1, <3>2, ElementOfSeq
  <2> QED
    BY <2>2, <2>3 DEF ProperNeighbours, ProperLists
<1> QED
  BY <1>1, InvHolds, PTL

\* The entries of a vertex in the edges that were read are its list.
LEMMA EntriesOfVertex ==
  ASSUME Inv, NEW v \in Locations, Loaded, \A t \in Threads : EdgesRead(t)
  PROVE  /\ graph[v] \in Seq(Locations) /\ Len(graph[v]) \in Nat
         /\ Entries(Offset(graph, v), Len(graph[v])) = graph[v]
<1> USE InvParts, ThreadFacts
<1>1. Generated
  BY DEF Loaded, ConfigInv
<1>2. files.adj = Concatenated(graph, VertexCount)
  BY <1>1, FileFacts
<1>3. /\ v \in Nat /\ Offset(graph, v) \in Nat /\ Len(graph[v]) \in Nat
      /\ Offset(graph, v + 1) = Offset(graph, v) + Len(graph[v])
      /\ \A k \in 1 .. Len(graph[v]) : files.adj[Offset(graph, v) + k] = graph[v][k]
      /\ graph[v] \in Seq(Locations)
  <2>1. graph \in Graphs /\ graph[v] \in Seq(Locations) /\ v \in Nat
    BY LocationFacts DEF Graphs
  <2>2. /\ Offset(graph, v) \in Nat /\ Len(graph[v]) \in Nat
        /\ Offset(graph, v + 1) = Offset(graph, v) + Len(graph[v])
        /\ \A k \in 1 .. Len(graph[v]) :
             Concatenated(graph, VertexCount)[Offset(graph, v) + k] = graph[v][k]
    BY <2>1, ListOfVertex
  <2> QED
    BY <1>2, <2>1, <2>2
<1>4. PICK t \in Threads : v \in Share(t)
  BY SharesCover
<1>5. /\ Offset(graph, Start(t)) <= Offset(graph, v) /\ Offset(graph, Start(t)) \in Nat
      /\ Offset(graph, v + 1) <= Offset(graph, End(t)) /\ Offset(graph, End(t)) \in Nat
  <2>1. Start(t) \in 0 .. v /\ v + 1 \in 0 .. End(t) /\ End(t) \in 0 .. VertexCount /\ v \in 0 .. VertexCount
    BY <1>3, <1>4, ShareOfVertices, ShareBounds, LocationFacts
  <2>2. Offset(graph, Start(t)) <= Offset(graph, v) /\ Offset(graph, Start(t)) \in Nat
    BY <2>1, OffsetsGrow
  <2>3. Offset(graph, v + 1) <= Offset(graph, End(t)) /\ Offset(graph, End(t)) \in Nat
    BY <2>1, OffsetsGrow
  <2> QED
    BY <2>2, <2>3
<1>6. ASSUME NEW k \in 1 .. Len(graph[v])
      PROVE  all_out_neighbours[Offset(graph, v) + k - 1] = graph[v][k]
  <2>1. Offset(graph, v) + k - 1 \in Offset(graph, Start(t)) .. Offset(graph, End(t)) - 1
    BY <1>3, <1>5, SMTT(30)
  <2>2. (Offset(graph, v) + k - 1) + 1 = Offset(graph, v) + k
    BY <1>3
  <2>3. all_out_neighbours[Offset(graph, v) + k - 1] = files.adj[(Offset(graph, v) + k - 1) + 1]
    BY <2>1 DEF EdgesRead
  <2> QED
    BY <1>3, <2>2, <2>3
<1>7. Entries(Offset(graph, v), Len(graph[v])) = [k \in 1 .. Len(graph[v]) |-> graph[v][k]]
  BY <1>6 DEF Entries
<1>8. graph[v] = [k \in 1 .. Len(graph[v]) |-> graph[v][k]]
  BY <1>3, LenProperties
<1> QED
  BY <1>3, <1>7, <1>8

\* When the graph is loaded, every vertex has the list of neighbours, and the count of
\* them, that the files were written from: ip_load_graph, for any number of threads and of
\* vertices, any lists and any order in which the threads read and connect their shares.
THEOREM GraphIsLoaded == Spec => []LoadsGraph
<1>1. ASSUME Inv PROVE LoadsGraph
  <2> USE <1>1, InvParts
  <2>1. SUFFICES ASSUME Loaded, NEW v \in Locations
                 PROVE  /\ "out_count" \in build => out_neighbour_count[v] = Len(graph[v])
                        /\ "out_ids" \in build =>
                             Entries(out_neighbours[v], Len(graph[v])) = graph[v]
    BY DEF LoadsGraph
  <2>2. PICK t \in Threads : v \in Share(t)
    BY SharesCover
  <2>3. ListSet(v) /\ CountSet(v)
    BY <2>1, <2>2 DEF Loaded, ConnectInv
  <2>4. "out_ids" \in build => \A u \in Threads : EdgesRead(u)
    BY <2>1 DEF Loaded, ConnectInv
  <2>5. "out_ids" \in build => Entries(Offset(graph, v), Len(graph[v])) = graph[v]
    BY <2>1, <2>4, EntriesOfVertex
  <2> QED
    BY <2>3, <2>5 DEF ListSet, CountSet
<1> QED
  BY <1>1, InvHolds, PTL

\* When the graph is loaded, directed or not, the in-neighbours of a vertex are the sources
\* of the edges that lead to it, one per edge, and the count is that of the list.
THEOREM EdgesAreMirrored == Spec => []MirrorsEdges
<1>1. ASSUME Inv PROVE MirrorsEdges
  <2> USE <1>1, InvParts, ThreadFacts
  <2>1. SUFFICES ASSUME Loaded, "in_ids" \in build, NEW v \in Locations
                 PROVE  /\ in_neighbour_count[v] = Len(InList(v))
                        /\ \A u \in Locations :
                             Occurrences(u, InList(v)) = Occurrences(v, graph[u])
    BY DEF MirrorsEdges
  <2>2. "in_count" \in build
    BY <2>1 DEF ProperBuild
  <2>3. Generated /\ ip_edges_count = files.edges
    BY <2>1 DEF Loaded, ConfigInv
  <2>4. CASE "directed" \notin build
    <3>1. PICK t \in Threads : v \in Share(t)
      BY SharesCover
    <3>2. in_neighbours[v] = Offset(graph, v) /\ in_neighbour_count[v] = Len(graph[v])
      BY <2>1, <2>2, <2>4, <3>1 DEF Loaded, ConnectInv, ListSet, CountSet, Undirected
    <3>3. \A u \in Threads : EdgesRead(u)
      BY <2>1, <2>4 DEF Loaded, ConnectInv, Undirected
    <3>4. InList(v) = graph[v]
      BY <2>1, <2>4, <3>2, <3>3, EntriesOfVertex DEF InList
    <3>5. Symmetric(graph)
      BY <2>3, <2>4, FileFacts
    <3> QED
      BY <3>2, <3>4, <3>5 DEF Symmetric
  <2>5. CASE "directed" \in build
    <3>1. MirrorInv /\ mirror = [i |-> VertexCount - 1, j |-> ip_edges_count]
      BY <2>1, <2>5 DEF Loaded, MirroringInv, Mirrors
    <3>2. InList(v) = Mirrored(v)
      BY <2>5 DEF InList, Mirrored
    <3>3. ASSUME NEW u \in Locations PROVE SubSeq(graph[u], 1, EdgesDone(u)) = graph[u]
      <4>1. /\ graph[u] \in Seq(Locations) /\ u \in Nat /\ u < VertexCount /\ VertexCount \in Nat
            /\ Offset(graph, u) \in Nat /\ Len(graph[u]) \in Nat
            /\ Offset(graph, u + 1) = Offset(graph, u) + Len(graph[u])
        BY LocationFacts, ListOfVertex DEF Graphs
      <4>2. EdgesDone(u) = Len(graph[u])
        <5>1. ip_edges_count = Offset(graph, VertexCount)
          BY <2>3, FileFacts
        <5>2. CASE u = VertexCount - 1
          <6>1. u + 1 = VertexCount
            BY <4>1, <5>2
          <6>2. ip_edges_count - Offset(graph, u) = Len(graph[u])
            BY <4>1, <5>1, <6>1
          <6> QED
            BY <3>1, <4>1, <5>2, <6>2 DEF EdgesDone
        <5>3. CASE u # VertexCount - 1
          BY <3>1, <4>1, <5>3 DEF EdgesDone
        <5> QED
          BY <5>2, <5>3
      <4> QED
        BY <4>1, <4>2, FirstEntries
    <3> QED
      BY <3>1, <3>2, <3>3 DEF MirrorInv
  <2> QED
    BY <2>4, <2>5
<1> QED
  BY <1>1, InvHolds, PTL

\* What a thread that connects writes into a count is the length of the list.
LEMMA CountsWritten ==
  ASSUME Inv, NEW t \in Threads, Connect(t) \/ ConnectLast(t)
  PROVE  \A v \in Locations : out_neighbour_count'[v] \in {out_neighbour_count[v], Len(graph[v])}
<1>1. /\ pc[t] = "connect" /\ UNCHANGED <<graph, build>>
  BY DEF Connect, ConnectLast, sharedVars
<1>2. pc[t] \notin Early \cup {"loaded"}
  BY <1>1 DEF Early
<1>3. PICK n : /\ n = next[t] /\ n \in Nat /\ n - 1 \in Locations /\ n <= End(t)
               /\ End(t) \in Nat /\ End(t) <= VertexCount
  BY <1>1, NextFacts
<1>4. n \in 1 .. VertexCount /\ VertexCount \in Nat
  BY <1>3, LocationFacts DEF Locations
<1>5. /\ all_offsets[n - 1] = Offset(graph, n - 1)
      /\ Len(graph[n - 1]) \in Nat
      /\ Offset(graph, n) - Offset(graph, n - 1) = Len(graph[n - 1])
      /\ n # VertexCount => all_offsets[n] = Offset(graph, n)
  BY <1>2, <1>4, CountOfVertex
<1>6. CASE Connect(t)
  <2>1. n # VertexCount
    BY <1>3, <1>4, <1>6 DEF Connect
  <2>2. CountNeighbours(n - 1, Len(graph[n - 1]))
    BY <1>3, <1>5, <1>6, <2>1 DEF Connect
  <2> QED
    BY <1>1, <1>3, <1>5, <2>2, VertexCounted
<1>7. CASE ConnectLast(t)
  <2>1. EdgeEnd(t) = Offset(graph, End(t))
    BY <1>2, OffsetFacts
  <2>2. CountNeighbours(n - 1, Len(graph[n - 1]))
    BY <1>3, <1>5, <1>7, <2>1 DEF ConnectLast
  <2> QED
    BY <1>1, <1>3, <1>5, <2>2, VertexCounted
<1> QED
  BY <1>6, <1>7

\* The count of the last vertex of a share is written by two threads without protection,
\* and still never changes once it is set.
THEOREM CountsNeverDiffer == Spec => CountsAgree
<1> DEFINE Kept == \A v \in Locations :
             out_neighbour_count[v] \notin {0, None} =>
               out_neighbour_count'[v] = out_neighbour_count[v]
<1>1. ASSUME Inv, [Next]_vars PROVE [Kept]_loaderVars
  <2> USE <1>1, InvParts, ThreadFacts
  <2>1. ASSUME UNCHANGED out_neighbour_count PROVE Kept
    BY <2>1
  <2>2. ASSUME NEW t \in Threads, ThreadStep(t) PROVE Kept
    <3>1. CASE InitShare(t)
      <4>1. \A v \in Locations : out_neighbour_count[v] \in {None, 0}
        BY <3>1 DEF InitShare, CountsInv
      <4> QED
        BY <4>1
    <3>2. CASE Connect(t) \/ ConnectLast(t)
      <4>1. \A v \in Locations : out_neighbour_count'[v] \in {out_neighbour_count[v], Len(graph[v])}
        BY <3>2, CountsWritten
      <4>2. \A u \in Threads : pc[u] \in Edges
        <5>1. Edges \in Phases /\ pc[t] \in Edges
          BY <3>2 DEF Edges, Phases, Connect, ConnectLast
        <5> QED
          BY <5>1, PhaseOfAll
      <4>3. ASSUME NEW v \in Locations PROVE out_neighbour_count[v] \in {0, Len(graph[v])}
        <5>1. PICK u \in Threads : v \in Share(u)
          BY SharesCover
        <5> QED
          BY <4>2, <5>1 DEF CountsInv, Edges
      <4> QED
        BY <4>1, <4>3
    <3>3. CASE ReadOffsets(t) \/ RefuseOffsets(t) \/ Seek(t) \/ Read(t) \/ ConnectFirst(t)
      <4>1. UNCHANGED out_neighbour_count
        BY <3>3 DEF ReadOffsets, RefuseOffsets, Seek, Read, ConnectFirst, outVars
      <4> QED
        BY <2>1, <4>1
    <3> QED
      BY <2>2, <3>1, <3>2, <3>3 DEF ThreadStep
  <2>3. ASSUME MasterStep PROVE Kept
    <3>1. UNCHANGED out_neighbour_count
      BY <2>3 DEF MasterStep, LoadConfig, Join, MirrorEdge, MirrorNextVertex, EndMirror, FreeMemory,
                  outVars
    <3> QED
      BY <2>1, <3>1
  <2>4. ASSUME Generate PROVE Kept
    <3>1. UNCHANGED out_neighbour_count
      BY <2>4 DEF Generate, outVars
    <3> QED
      BY <2>1, <3>1
  <2>5. UNCHANGED vars => UNCHANGED loaderVars
    BY DEF vars
  <2> QED
    BY <2>2, <2>3, <2>4, <2>5 DEF Next, Load, LoadTogether
<1> QED
  BY <1>1, InvHolds, PTL DEF Spec, CountsAgree
==============================================================================
