----------------------------- MODULE Apps_proofs -----------------------------
(***************************************************************************)
(* The applications satisfy what the proofs about the engines suppose of   *)
(* a program, that their ip_compute keeps to the types; and the superstep  *)
(* semantics computes with cc.c the components of a graph and with sssp.c  *)
(* the distances from a vertex.                                            *)
(***************************************************************************)
EXTENDS BSP, Apps, TLAPS, FiniteSetTheorems

------------------------------------------------------------------------------
(* The types.                                                              *)

\* A result has the fields it is given.
LEMMA ResultTyped ==
  ASSUME NEW x \in Values \cup {None}, NEW m \in Messages \cup {None},
         NEW halts \in BOOLEAN, NEW reads \in BOOLEAN,
         NEW r \in Result(x, m, halts, reads)
  PROVE  /\ r.value \in Values \cup {None}
         /\ r.message \in Messages \cup {None}
         /\ r.halts \in BOOLEAN
         /\ r.reads \in BOOLEAN
<1>1. r = [value |-> x, message |-> m, halts |-> halts, reads |-> reads]
  BY DEF Result
<1> QED
  BY <1>1

\* cc.c broadcasts its identifier, or a message it read.
LEMMA CCKeepsTypes ==
  ASSUME Vertices \subseteq Messages, Messages \subseteq Values
  PROVE  KeepsTypes(CCCompute)
<1> SUFFICES ASSUME NEW s \in Nat, NEW v \in Vertices, NEW degree \in Nat,
                    NEW x \in Values \cup {None}, NEW in \in Messages \cup {None},
                    NEW r \in CCCompute(s, v, x, in, degree)
             PROVE  /\ r.value \in Values \cup {None}
                    /\ r.message \in Messages \cup {None}
                    /\ r.halts \in BOOLEAN
                    /\ r.reads \in BOOLEAN
  BY DEF KeepsTypes
<1>1. CASE s = 0
  <2>1. r \in Result(v, v, TRUE, FALSE)
    BY <1>1 DEF CCCompute
  <2> QED
    BY <2>1, ResultTyped
<1>2. CASE s # 0
  <2> DEFINE new == Improved(x, in)
             out == IF new # x THEN new ELSE None
  <2>1. r \in Result(new, out, TRUE, TRUE)
    BY <1>2 DEF CCCompute
  <2>2. new \in Values \cup {None} /\ out \in Messages \cup {None}
    BY DEF Improved
  <2> QED
    BY <2>1, <2>2, ResultTyped
<1> QED
  BY <1>1, <1>2

\* sssp.c adds one to a distance; in the natural numbers nothing wraps.
LEMMA SSSPKeepsTypes ==
  ASSUME Messages = Nat, Values = Nat, UINT_MAX \in Nat
  PROVE  KeepsTypes(SSSPCompute)
<1> SUFFICES ASSUME NEW s \in Nat, NEW v \in Vertices, NEW degree \in Nat,
                    NEW x \in Values \cup {None}, NEW in \in Messages \cup {None},
                    NEW r \in SSSPCompute(s, v, x, in, degree)
             PROVE  /\ r.value \in Values \cup {None}
                    /\ r.message \in Messages \cup {None}
                    /\ r.halts \in BOOLEAN
                    /\ r.reads \in BOOLEAN
  BY DEF KeepsTypes
<1>1. Improved(UINT_MAX, in) \in Nat
  BY DEF Improved
<1> DEFINE m_initial == Improved(UINT_MAX, in)
<1>2. \/ r \in Result(0, 1, TRUE, FALSE)
      \/ r \in Result(UINT_MAX, None, TRUE, FALSE)
      \/ r \in Result(m_initial, m_initial + 1, TRUE, TRUE)
      \/ r \in Result(x, None, TRUE, TRUE)
  BY Zenon DEF SSSPCompute
<1>3. 0 \in Nat /\ 1 \in Nat /\ m_initial + 1 \in Nat
  BY <1>1
<1> HIDE DEF m_initial
<1>4. CASE r \in Result(0, 1, TRUE, FALSE)
  BY <1>3, <1>4, ResultTyped
<1>5. CASE r \in Result(UINT_MAX, None, TRUE, FALSE)
  BY <1>5, ResultTyped
<1>6. CASE r \in Result(m_initial, m_initial + 1, TRUE, TRUE)
  BY <1>1, <1>3, <1>6, ResultTyped DEF m_initial
<1>7. CASE r \in Result(x, None, TRUE, TRUE)
  BY <1>7, ResultTyped
<1> QED
  BY <1>2, <1>4, <1>5, <1>6, <1>7

\* pagerank.c divides a rank among the neighbours.
LEMMA PageRankKeepsTypes ==
  ASSUME Messages = Nat, Values = Nat, One \in Nat, ROUND \in Nat
  PROVE  KeepsTypes(PageRankCompute)
<1> SUFFICES ASSUME NEW s \in Nat, NEW v \in Vertices, NEW degree \in Nat,
                    NEW x \in Values \cup {None}, NEW in \in Messages \cup {None},
                    NEW r \in PageRankCompute(s, v, x, in, degree)
             PROVE  /\ r.value \in Values \cup {None}
                    /\ r.message \in Messages \cup {None}
                    /\ r.halts \in BOOLEAN
                    /\ r.reads \in BOOLEAN
  BY DEF KeepsTypes
<1>1. N \in Nat /\ N > 0
  BY VerticesAssumption, FS_CardinalityType, FS_EmptySet DEF N
<1>2. Rank(s, in) \in Nat
  <2> DEFINE sum == IF in = None THEN 0 ELSE in
  <2>1. \A a \in Nat, b \in Nat \ {0} : a \div b \in Nat
    OBVIOUS
  <2>2. sum \in Nat
    OBVIOUS
  <2>3. /\ One \div N \in Nat
        /\ (15 * One) \div (100 * N) \in Nat
        /\ (85 * sum) \div 100 \in Nat
    BY <1>1, <2>1, <2>2
  <2>4. Rank(s, in) = IF s = 0 THEN One \div N
                      ELSE ((15 * One) \div (100 * N)) + ((85 * sum) \div 100)
    BY Zenon DEF Rank
  <2> QED
    BY <2>3, <2>4
<1> DEFINE share == IF s < ROUND /\ degree > 0 THEN Rank(s, in) \div degree ELSE None
<1>3. share \in Messages \cup {None}
  BY <1>2
<1> DEFINE halts == s >= ROUND
           reads == s # 0
<1>4. r \in Result(Rank(s, in), share, halts, reads)
  BY Zenon DEF PageRankCompute
<1>5. halts \in BOOLEAN /\ reads \in BOOLEAN
  OBVIOUS
<1> HIDE DEF share, halts, reads
<1>6. Rank(s, in) \in Values \cup {None}
  BY <1>2
<1> QED
  BY <1>3, <1>4, <1>5, <1>6, ResultTyped, Zenon

\* In what order pagerank.c adds makes no difference in fixed point.
LEMMA SumOrderFree ==
  ASSUME Messages = Nat, One \in Nat,
         \A a, b \in Messages : Combine(a, b) = SumCombine(a, b)
  PROVE  OrderFree
<1>1. \A a, b \in Nat : SumCombine(a, b) \in Nat /\ SumCombine(a, b) = SumCombine(b, a)
  BY DEF SumCombine
<1>2. \A a, b, c \in Nat : SumCombine(SumCombine(a, b), c) = SumCombine(a, SumCombine(b, c))
  BY DEF SumCombine
<1>3. ASSUME NEW a \in Messages, NEW b \in Messages, NEW c \in Messages
      PROVE  Combine(Combine(a, b), c) = Combine(a, Combine(b, c))
  BY <1>1, <1>2
<1> QED
  BY <1>1, <1>3 DEF OrderFree

\* Whatever an ip_compute does, it keeps to the types if its identifiers, one
\* larger, are messages and what it reads may be its value.
LEMMA AnyKeepsTypes ==
  ASSUME \A v \in Vertices : v + 1 \in Messages, Messages \subseteq Values
  PROVE  KeepsTypes(AnyCompute)
<1> SUFFICES ASSUME NEW s \in Nat, NEW v \in Vertices, NEW degree \in Nat,
                    NEW x \in Values \cup {None}, NEW in \in Messages \cup {None},
                    NEW r \in AnyCompute(s, v, x, in, degree)
             PROVE  /\ r.value \in Values \cup {None}
                    /\ r.message \in Messages \cup {None}
                    /\ r.halts \in BOOLEAN
                    /\ r.reads \in BOOLEAN
  BY DEF KeepsTypes
<1>1. in \in Values \cup {None}
  OBVIOUS
<1>2. r \in Result(in, None, TRUE, TRUE) \/ r \in FreeResults(v, x, in)
  BY Zenon DEF AnyCompute
<1>3. CASE r \in Result(in, None, TRUE, TRUE)
  BY <1>1, <1>3, ResultTyped
<1>4. CASE r \in FreeResults(v, x, in)
  <2>1. PICK message \in {None, v + 1}, halts \in BOOLEAN, reads \in BOOLEAN :
          r = [value |-> IF reads THEN in ELSE x, message |-> message,
               halts |-> halts, reads |-> reads]
    BY <1>4 DEF FreeResults
  <2>2. message \in Messages \cup {None}
    OBVIOUS
  <2> QED
    BY <1>1, <2>1, <2>2
<1> QED
  BY <1>2, <1>3, <1>4

------------------------------------------------------------------------------
(* Paths: the recursion of Within.                                         *)

\* Numbers are well ordered.
LEMMA LeastNumber ==
  ASSUME NEW S \in SUBSET Nat, S # {}
  PROVE  \E n \in S : \A m \in S : n <= m
<1>1. PICK n \in S : \A m \in S : <<m, n>> \notin OpToRel(<, Nat)
  BY NatLessThanWellFounded, WFMin
<1>2. ASSUME NEW m \in S PROVE n <= m
  <2>1. <<m, n>> \in Nat \X Nat
    OBVIOUS
  <2>2. ~(m < n)
    BY <1>1, <2>1 DEF OpToRel
  <2> QED
    BY <2>2
<1> QED
  BY <1>2

\* Induction, over a set instead of a formula.
LEMMA Induction ==
  ASSUME NEW S \in SUBSET Nat, 0 \in S, \A k \in S : k + 1 \in S
  PROVE  S = Nat
<1> DEFINE bad == Nat \ S
<1>1. ASSUME bad # {} PROVE FALSE
  <2>1. PICK n \in bad : \A m \in bad : n <= m
    <3>1. bad \in SUBSET Nat
      OBVIOUS
    <3> HIDE DEF bad
    <3> QED
      BY <1>1, <3>1, LeastNumber
  <2>2. n \in Nat /\ n # 0
    BY <2>1
  <2>3. n - 1 \in Nat /\ n - 1 \notin bad
    BY <2>1, <2>2
  <2>4. (n - 1) + 1 \in S /\ (n - 1) + 1 = n
    BY <2>2, <2>3
  <2> QED
    BY <2>1, <2>4
<1> QED
  BY <1>1

\* The vertices of a set and those that its edges lead to.
Spread(out, S) == S \cup UNION {{out[u][i] : i \in DOMAIN out[u]} : u \in S}

\* What Within gives for paths of at most n edges.
WithinTo(n, g, out, v) ==
  g = [k \in 0 .. n |-> IF k = 0 THEN {v} ELSE Spread(out, g[k - 1])]

\* Its equations.
LEMMA WithinToSteps ==
  ASSUME NEW n \in Nat, NEW g, NEW out, NEW v, WithinTo(n, g, out, v)
  PROVE  /\ g[0] = {v}
         /\ \A k \in Nat : k + 1 <= n => g[k + 1] = Spread(out, g[k])
<1>1. \A k \in 0 .. n : g[k] = IF k = 0 THEN {v} ELSE Spread(out, g[k - 1])
  BY Zenon DEF WithinTo
<1>2. 0 \in 0 .. n
  OBVIOUS
<1>3. \A k \in Nat : k + 1 <= n => k + 1 \in 0 .. n /\ k + 1 # 0 /\ (k + 1) - 1 = k
  OBVIOUS
<1> QED
  BY <1>1, <1>2, <1>3

\* They determine it.
LEMMA WithinToAgree ==
  ASSUME NEW n \in Nat, NEW g, NEW m \in Nat, NEW h, NEW out, NEW v,
         WithinTo(n, g, out, v), WithinTo(m, h, out, v),
         NEW k \in Nat, k <= n, k <= m
  PROVE  g[k] = h[k]
<1> DEFINE S == {j \in Nat : j <= n /\ j <= m => g[j] = h[j]}
<1>0. /\ g[0] = {v} /\ h[0] = {v}
      /\ \A j \in Nat : j + 1 <= n => g[j + 1] = Spread(out, g[j])
      /\ \A j \in Nat : j + 1 <= m => h[j + 1] = Spread(out, h[j])
  BY WithinToSteps
<1>1. 0 \in S
  BY <1>0
<1>2. ASSUME NEW j \in S PROVE j + 1 \in S
  <2>1. j + 1 <= n /\ j + 1 <= m => g[j + 1] = Spread(out, g[j]) /\ h[j + 1] = Spread(out, h[j])
    BY <1>0
  <2>2. j + 1 <= n /\ j + 1 <= m => j <= n /\ j <= m
    OBVIOUS
  <2> QED
    BY <1>2, <2>1, <2>2
<1>3. S \in SUBSET Nat
  OBVIOUS
<1> HIDE DEF S
<1>4. S = Nat
  BY <1>1, <1>2, <1>3, Induction
<1> QED
  BY <1>4 DEF S

\* It exists.
LEMMA WithinToExists ==
  ASSUME NEW out, NEW v, NEW n \in Nat
  PROVE  \E g : WithinTo(n, g, out, v)
<1> DEFINE S == {m \in Nat : \E g : WithinTo(m, g, out, v)}
<1>1. 0 \in S
  <2> DEFINE g == [k \in 0 .. 0 |-> {v}]
  <2>1. g = [k \in 0 .. 0 |-> IF k = 0 THEN {v} ELSE Spread(out, g[k - 1])]
    OBVIOUS
  <2> QED
    BY <2>1 DEF WithinTo
<1>2. ASSUME NEW m \in S PROVE m + 1 \in S
  <2>1. PICK g : WithinTo(m, g, out, v)
    BY <1>2
  <2> DEFINE f == [k \in 0 .. m + 1 |-> IF k = m + 1 THEN Spread(out, g[m]) ELSE g[k]]
  <2>2. \A k \in 0 .. m : k \in 0 .. m + 1 /\ k # m + 1
    OBVIOUS
  <2>3. \A k \in 0 .. m : f[k] = g[k]
    BY <2>2
  <2>4. f[m + 1] = Spread(out, g[m])
    OBVIOUS
  <2>5. \A k \in 0 .. m : g[k] = IF k = 0 THEN {v} ELSE Spread(out, g[k - 1])
    BY <2>1, Zenon DEF WithinTo
  <2>6. f = [k \in 0 .. m + 1 |-> f[k]]
    OBVIOUS
  <2> HIDE DEF f
  <2>7. ASSUME NEW k \in 0 .. m + 1
        PROVE  f[k] = IF k = 0 THEN {v} ELSE Spread(out, f[k - 1])
    <3>1. CASE k = m + 1
      <4>1. m \in 0 .. m /\ k # 0 /\ k - 1 = m
        BY <3>1
      <4> QED
        BY <2>3, <2>4, <3>1, <4>1
    <3>2. CASE k # m + 1
      <4>1. k \in 0 .. m /\ (k # 0 => k - 1 \in 0 .. m)
        BY <3>2
      <4> QED
        BY <2>3, <2>5, <4>1
    <3> QED
      BY <3>1, <3>2
  <2>8. f = [k \in 0 .. m + 1 |-> IF k = 0 THEN {v} ELSE Spread(out, f[k - 1])]
    BY <2>6, <2>7
  <2> QED
    BY <2>8 DEF WithinTo
<1>3. S \in SUBSET Nat
  OBVIOUS
<1> HIDE DEF S
<1>4. S = Nat
  BY <1>1, <1>2, <1>3, Induction
<1> QED
  BY <1>4 DEF S

\* The equations of Within.
LEMMA WithinSteps ==
  ASSUME NEW out, NEW v
  PROVE  /\ Within(out, v)[0] = {v}
         /\ \A k \in Nat : Within(out, v)[k + 1] = Spread(out, Within(out, v)[k])
<1> DEFINE part(n) == CHOOSE g : WithinTo(n, g, out, v)
           w == [n \in Nat |-> part(n)[n]]
<1>1. \A n \in Nat : WithinTo(n, part(n), out, v)
  BY WithinToExists
<1>2. w[0] = {v}
  BY <1>1, WithinToSteps
<1>3. ASSUME NEW k \in Nat PROVE w[k + 1] = Spread(out, w[k])
  <2>1. WithinTo(k + 1, part(k + 1), out, v) /\ WithinTo(k, part(k), out, v)
    BY <1>1
  <2>2. k + 1 \in Nat /\ k <= k + 1 /\ k <= k /\ k + 1 <= k + 1
    OBVIOUS
  <2> HIDE DEF part
  <2>3. part(k + 1)[k] = part(k)[k]
    BY <2>1, <2>2, WithinToAgree
  <2>4. part(k + 1)[k + 1] = Spread(out, part(k + 1)[k])
    BY <2>1, <2>2, WithinToSteps
  <2> QED
    BY <2>2, <2>3, <2>4
<1>4. w = [n \in Nat |-> w[n]]
  OBVIOUS
<1> HIDE DEF w
<1>5. \A n \in Nat : w[n] = IF n = 0 THEN {v} ELSE Spread(out, w[n - 1])
  <2> SUFFICES ASSUME NEW n \in Nat, n # 0 PROVE w[n] = Spread(out, w[n - 1])
    BY <1>2
  <2>1. n - 1 \in Nat /\ (n - 1) + 1 = n
    OBVIOUS
  <2> QED
    BY <1>3, <2>1
<1>6. w = [n \in Nat |-> IF n = 0 THEN {v} ELSE Spread(out, w[n - 1])]
  BY <1>4, <1>5
<1> DEFINE equation(g) ==
      g = [n \in Nat |-> IF n = 0 THEN {v}
                         ELSE g[n - 1] \cup
                                UNION {{out[u][i] : i \in DOMAIN out[u]} : u \in g[n - 1]}]
<1>7. equation(w)
  BY <1>6, Zenon DEF Spread
<1>8. Within(out, v) = CHOOSE g : equation(g)
  BY Zenon DEF Within
<1>9. equation(Within(out, v))
  <2> HIDE DEF equation
  <2> QED
    BY <1>7, <1>8
<1> DEFINE W == Within(out, v)
<1>10. \A n \in Nat : W[n] = IF n = 0 THEN {v} ELSE Spread(out, W[n - 1])
  BY <1>9, Zenon DEF Spread
<1> HIDE DEF W
<1>11. \A k \in Nat : k + 1 \in Nat /\ k + 1 # 0 /\ (k + 1) - 1 = k
  OBVIOUS
<1>12. W[0] = {v} /\ \A k \in Nat : W[k + 1] = Spread(out, W[k])
  BY <1>10, <1>11
<1> QED
  BY <1>12 DEF W

Graphs == [Vertices -> Seq(Vertices)]

\* What edges lead to.
LEMMA SpreadAlongEdges ==
  ASSUME NEW out \in Graphs, NEW S \in SUBSET Vertices
  PROVE  /\ Spread(out, S) \in SUBSET Vertices
         /\ \A w : w \in Spread(out, S) <=> w \in S \/ \E u \in S : Leads(out, u, w)
<1>1. \A u \in Vertices : \A i \in DOMAIN out[u] : out[u][i] \in Vertices
  BY DEF Graphs
<1>2. \A w : w \in Spread(out, S) <=> w \in S \/ \E u \in S : Leads(out, u, w)
  <2> SUFFICES ASSUME NEW w
               PROVE  w \in UNION {{out[u][i] : i \in DOMAIN out[u]} : u \in S}
                        <=> \E u \in S : Leads(out, u, w)
    BY DEF Spread
  <2> QED
    BY DEF Leads
<1>3. \A w : w \in Spread(out, S) => w \in Vertices
  BY <1>1, <1>2 DEF Leads
<1> QED
  BY <1>2, <1>3

\* One edge more.
LEMMA WithinEdge ==
  ASSUME NEW out \in Graphs, NEW v \in Vertices, NEW k \in Nat
  PROVE  /\ Within(out, v)[k] \in SUBSET Vertices
         /\ \A w : w \in Within(out, v)[k + 1] <=>
              w \in Within(out, v)[k] \/ \E u \in Within(out, v)[k] : Leads(out, u, w)
<1> DEFINE W == Within(out, v)
           S == {j \in Nat : W[j] \in SUBSET Vertices}
<1>1. W[0] = {v} /\ \A j \in Nat : W[j + 1] = Spread(out, W[j])
  BY WithinSteps
<1> HIDE DEF W
<1>2. 0 \in S
  BY <1>1
<1>3. ASSUME NEW j \in S PROVE j + 1 \in S
  BY <1>1, <1>3, SpreadAlongEdges
<1>4. S \in SUBSET Nat
  OBVIOUS
<1>5. k \in S
  <2> HIDE DEF S
  <2> QED
    BY <1>2, <1>3, <1>4, Induction
<1>6. W[k] \in SUBSET Vertices /\ W[k + 1] = Spread(out, W[k])
  BY <1>1, <1>5
<1> QED
  BY <1>6, SpreadAlongEdges DEF W

\* Longer paths lead to more vertices.
LEMMA WithinGrows ==
  ASSUME NEW out \in Graphs, NEW v \in Vertices, NEW j \in Nat, NEW k \in Nat, j <= k
  PROVE  Within(out, v)[j] \subseteq Within(out, v)[k]
<1> DEFINE W == Within(out, v)
           S == {i \in Nat : W[j] \subseteq W[j + i]}
<1>1. \A i \in Nat : W[i] \subseteq W[i + 1]
  BY WithinEdge
<1> HIDE DEF W
<1>2. j + 0 = j /\ \A i \in Nat : j + (i + 1) = (j + i) + 1 /\ j + i \in Nat
  OBVIOUS
<1>3. 0 \in S
  BY <1>2
<1>4. ASSUME NEW i \in S PROVE i + 1 \in S
  <2>1. W[j] \subseteq W[j + i] /\ W[j + i] \subseteq W[(j + i) + 1]
    BY <1>1, <1>2, <1>4
  <2> QED
    BY <1>2, <2>1
<1>5. S \in SUBSET Nat
  OBVIOUS
<1> HIDE DEF S
<1>6. S = Nat
  BY <1>3, <1>4, <1>5, Induction
<1>7. k - j \in Nat /\ j + (k - j) = k
  OBVIOUS
<1> QED
  BY <1>6, <1>7 DEF S, W

\* When one edge more leads nowhere new, no longer path does.
LEMMA WithinStops ==
  ASSUME NEW out \in Graphs, NEW v \in Vertices, NEW k \in Nat,
         Within(out, v)[k + 1] = Within(out, v)[k], NEW j \in Nat
  PROVE  Within(out, v)[j] \subseteq Within(out, v)[k]
<1> DEFINE W == Within(out, v)
           S == {i \in Nat : W[k + i] = W[k]}
<1>1. \A i \in Nat : W[i + 1] = Spread(out, W[i])
  BY WithinSteps
<1>2. W[k + 1] = W[k]
  OBVIOUS
<1>3. j <= k => W[j] \subseteq W[k]
  BY WithinGrows
<1> HIDE DEF W
<1>4. k + 0 = k /\ \A i \in Nat : k + (i + 1) = (k + i) + 1 /\ k + i \in Nat
  OBVIOUS
<1>5. 0 \in S
  BY <1>4
<1>6. ASSUME NEW i \in S PROVE i + 1 \in S
  <2>1. W[k + i] = W[k] /\ W[(k + i) + 1] = Spread(out, W[k + i]) /\ W[k + 1] = Spread(out, W[k])
    BY <1>1, <1>4, <1>6
  <2> QED
    BY <1>2, <1>4, <2>1
<1>7. S \in SUBSET Nat
  OBVIOUS
<1> HIDE DEF S
<1>8. S = Nat
  BY <1>5, <1>6, <1>7, Induction
<1>9. CASE j <= k
  BY <1>3, <1>9 DEF W
<1>10. CASE j > k
  <2>1. j - k \in Nat /\ k + (j - k) = j
    BY <1>10
  <2> QED
    BY <1>8, <2>1 DEF S, W
<1> QED
  BY <1>9, <1>10

\* A path to a vertex need not be longer than there are vertices.
LEMMA WithinAll ==
  ASSUME NEW out \in Graphs, NEW v \in Vertices, NEW j \in Nat
  PROVE  N \in Nat /\ Within(out, v)[j] \subseteq Within(out, v)[N]
<1> DEFINE W == Within(out, v)
           S == {n \in Nat : n + 1 <= Cardinality(W[n]) \/ \E k \in 0 .. n - 1 : W[k + 1] = W[k]}
<1>1. N \in Nat
  BY VerticesAssumption, FS_CardinalityType DEF N
<1>2. \A k \in Nat : W[k] \in SUBSET Vertices /\ W[k] \subseteq W[k + 1]
  BY WithinEdge
<1>3. W[0] = {v}
  BY WithinSteps
<1>4. \A k \in Nat : W[k + 1] = W[k] => \A i \in Nat : W[i] \subseteq W[k]
  BY WithinStops
<1>5. \A k \in Nat : k <= N => W[k] \subseteq W[N]
  BY <1>1, WithinGrows
<1> HIDE DEF W
<1>6. \A k \in Nat : IsFiniteSet(W[k]) /\ Cardinality(W[k]) \in Nat /\ Cardinality(W[k]) <= N
  <2> SUFFICES ASSUME NEW k \in Nat
               PROVE  IsFiniteSet(W[k]) /\ Cardinality(W[k]) \in Nat /\ Cardinality(W[k]) <= N
    OBVIOUS
  <2>1. IsFiniteSet(W[k]) /\ Cardinality(W[k]) <= Cardinality(Vertices)
    BY <1>2, VerticesAssumption, FS_Subset
  <2> QED
    BY <2>1, FS_CardinalityType DEF N
<1>7. 0 \in S
  <2>1. Cardinality(W[0]) = 1
    BY <1>3, FS_Singleton
  <2>2. 0 + 1 <= 1
    OBVIOUS
  <2> QED
    BY <2>1, <2>2
<1>8. ASSUME NEW n \in S PROVE n + 1 \in S
  <2>1. CASE \E k \in 0 .. n - 1 : W[k + 1] = W[k]
    <3>1. 0 .. n - 1 \subseteq 0 .. (n + 1) - 1
      OBVIOUS
    <3> QED
      BY <2>1, <3>1
  <2>2. CASE W[n + 1] = W[n]
    <3>1. n \in 0 .. (n + 1) - 1
      OBVIOUS
    <3> QED
      BY <2>2, <3>1
  <2>3. CASE n + 1 <= Cardinality(W[n]) /\ W[n + 1] # W[n]
    <3>1. /\ IsFiniteSet(W[n + 1]) /\ W[n] \subseteq W[n + 1] /\ W[n] # W[n + 1]
          /\ Cardinality(W[n]) \in Nat /\ Cardinality(W[n + 1]) \in Nat
      BY <1>2, <1>6, <2>3
    <3>2. Cardinality(W[n]) < Cardinality(W[n + 1])
      BY <3>1, FS_Subset
    <3> QED
      BY <2>3, <3>1, <3>2
  <2> QED
    BY <1>8, <2>1, <2>2, <2>3
<1>9. S \in SUBSET Nat
  OBVIOUS
<1>10. N \in S
  <2> HIDE DEF S
  <2> QED
    BY <1>1, <1>7, <1>8, <1>9, Induction
<1>11. PICK k \in 0 .. N - 1 : W[k + 1] = W[k]
  <2>1. ~(N + 1 <= Cardinality(W[N]))
    BY <1>1, <1>6
  <2> QED
    BY <1>10, <2>1
<1>12. W[j] \subseteq W[k] /\ W[k] \subseteq W[N]
  BY <1>1, <1>4, <1>5, <1>11
<1> QED
  BY <1>1, <1>12 DEF W

------------------------------------------------------------------------------
(* What cc.c and sssp.c have in common: each vertex has a label, and tells *)
(* its neighbours a label when its own becomes smaller.                    *)

\* The label of a vertex in superstep 0.
Start(app, v) ==
  IF app = "cc" THEN v ELSE IF v = start_vertex THEN 0 ELSE UINT_MAX

\* What an edge adds to a label.
Cost(app) == IF app = "cc" THEN 0 ELSE 1

\* The label of a vertex that has nothing to tell.
Unset(app) == IF app = "cc" THEN None ELSE UINT_MAX

\* The labels.
Labels(app) ==
  IF app = "cc" THEN Messages ELSE {x \in Messages \cup {0, UINT_MAX} : x <= UINT_MAX}

\* The labels that a vertex may rightly have: there is a path for them.
Right(app, out, v) ==
  IF app = "cc" THEN Within(out, v)[N] ELSE {k \in Nat : v \in Within(out, start_vertex)[k]}

Runs(app) == (app = "cc" /\ RunsCC) \/ (app = "sssp" /\ RunsSSSP)

\* Labels are numbers.
LEMMA LabelFacts ==
  ASSUME NEW app, Runs(app)
  PROVE  /\ Messages \subseteq Nat /\ None \notin Messages /\ CombinesLeast
         /\ Labels(app) \subseteq Nat /\ Labels(app) \subseteq Values
         /\ Cost(app) \in Nat
         /\ \A v \in Vertices : Start(app, v) \in Labels(app)
         /\ \A x \in Labels(app) : x # Unset(app) => x + Cost(app) \in Messages
<1>1. CombinesLeast /\ Messages \subseteq Nat /\ Messages \subseteq Values
  BY DEF Runs, RunsCC, RunsSSSP, CombinesLeast
<1>2. CASE app = "cc" /\ RunsCC
  <2>1. Labels(app) = Messages /\ Cost(app) = 0 /\ \A v \in Vertices : Start(app, v) = v
    BY <1>2 DEF Labels, Cost, Start
  <2>2. Vertices \subseteq Messages
    BY <1>2 DEF RunsCC
  <2>3. ASSUME NEW x \in Labels(app) PROVE x + Cost(app) \in Messages
    <3>1. x \in Messages
      BY <2>1
    <3>2. x \in Nat
      BY <1>1, <3>1
    <3>3. x + 0 = x
      BY <3>2
    <3> QED
      BY <2>1, <3>1, <3>3
  <2>4. Labels(app) \subseteq Nat /\ Labels(app) \subseteq Values
    BY <1>1, <2>1
  <2>5. 0 \in Nat
    OBVIOUS
  <2> QED
    BY <1>1, <2>1, <2>2, <2>3, <2>4, <2>5, NoneAssumption, Zenon
<1>3. CASE app = "sssp" /\ RunsSSSP
  <2>1. app # "cc"
    BY <1>3
  <2>2. UINT_MAX \in Nat /\ 0 <= UINT_MAX /\ UINT_MAX \in Values /\ 0 \in Values
    BY <1>3 DEF RunsSSSP
  <2>3. Labels(app) = {x \in Messages \cup {0, UINT_MAX} : x <= UINT_MAX}
    BY <2>1 DEF Labels
  <2>4. \A v \in Vertices : Start(app, v) \in {0, UINT_MAX}
    BY <2>1 DEF Start
  <2>5. 0 \in Labels(app) /\ UINT_MAX \in Labels(app)
    BY <2>2, <2>3
  <2>6. ASSUME NEW x \in Labels(app) PROVE x \in Nat /\ x \in Values
    <3>1. x \in Messages \/ x = 0 \/ x = UINT_MAX
      BY <2>3
    <3>2. CASE x \in Messages
      BY <1>1, <3>2
    <3>3. CASE x = 0
      <4>1. 0 \in Nat /\ 0 \in Values
        BY <2>2
      <4> QED
        BY <3>3, <4>1, Zenon
    <3>4. CASE x = UINT_MAX
      BY <2>2, <3>4, Zenon
    <3> QED
      BY <3>1, <3>2, <3>3, <3>4
  <2>7. Cost(app) = 1
    BY <2>1 DEF Cost
  <2>9. ASSUME NEW x \in Labels(app), x # Unset(app) PROVE x + 1 \in Messages
    <3>1. x \in Nat /\ x <= UINT_MAX /\ x # UINT_MAX
      BY <2>1, <2>3, <2>6, <2>9 DEF Unset
    <3>2. x + 1 \in 1 .. UINT_MAX
      BY <2>2, <3>1
    <3> QED
      BY <1>3, <3>2 DEF RunsSSSP
  <2>8. Messages \subseteq Nat /\ None \notin Messages
    BY <1>1, NoneAssumption
  <2> QED
    BY <1>1, <2>4, <2>5, <2>6, <2>7, <2>8, <2>9
<1> QED
  BY <1>2, <1>3 DEF Runs

\* In superstep 0 a vertex takes its first label and tells it.
LEMMA FirstRun ==
  ASSUME NEW app, Runs(app), NEW v \in Vertices, NEW degree \in Nat,
         NEW x \in Values \cup {None}, NEW in \in Messages \cup {None},
         NEW r \in Program(app, 0, v, x, in, degree)
  PROVE  /\ r.value = Start(app, v) /\ r.halts = TRUE /\ r.reads = FALSE
         /\ r.message = IF Start(app, v) = Unset(app) THEN None
                        ELSE Start(app, v) + Cost(app)
<1>0. 0 \in Nat
  OBVIOUS
<1>1. CASE app = "cc" /\ RunsCC
  <2>1. Program(app, 0, v, x, in, degree) = CCCompute(0, v, x, in, degree)
    BY <1>0, <1>1 DEF RunsCC, Is
  <2>2. r \in Result(v, v, TRUE, FALSE)
    BY <2>1 DEF CCCompute
  <2>3. v \in Nat /\ v # None /\ v + 0 = v
    BY <1>1, NoneAssumption DEF RunsCC, CombinesLeast
  <2>4. r.value = v /\ r.message = v /\ r.halts = TRUE /\ r.reads = FALSE
    BY <2>2 DEF Result
  <2> QED
    BY <1>1, <2>3, <2>4 DEF Start, Unset, Cost
<1>2. CASE app = "sssp" /\ RunsSSSP
  <2>1. app # "cc"
    BY <1>2
  <2>2. Program(app, 0, v, x, in, degree) = SSSPCompute(0, v, x, in, degree)
    BY <1>0, <1>2 DEF RunsSSSP, Is
  <2>3. UINT_MAX \in Nat /\ UINT_MAX # 0 /\ 0 + 1 = 1
    <3>1. N \in Nat /\ N # 0
      BY VerticesAssumption, FS_CardinalityType, FS_EmptySet DEF N
    <3> QED
      BY <1>2, <3>1 DEF RunsSSSP
  <2>4. CASE v = start_vertex
    <3>1. r \in Result(0, 1, TRUE, FALSE)
      BY <2>2, <2>4 DEF SSSPCompute
    <3>2. r.value = 0 /\ r.message = 1 /\ r.halts = TRUE /\ r.reads = FALSE
      BY <3>1 DEF Result
    <3> QED
      BY <2>1, <2>3, <2>4, <3>2 DEF Start, Unset, Cost
  <2>5. CASE v # start_vertex
    <3>1. r \in Result(UINT_MAX, None, TRUE, FALSE)
      BY <2>2, <2>5 DEF SSSPCompute
    <3>2. r.value = UINT_MAX /\ r.message = None /\ r.halts = TRUE /\ r.reads = FALSE
      BY <3>1 DEF Result
    <3> QED
      BY <2>1, <2>5, <3>2 DEF Start, Unset
  <2> QED
    BY <2>4, <2>5
<1> QED
  BY <1>1, <1>2 DEF Runs

\* A message smaller than the label.
Better(in, x) == in # None /\ in < x

\* In a later superstep it takes a smaller label that it is told and tells it.
LEMMA LaterRun ==
  ASSUME NEW app, Runs(app), NEW v \in Vertices, NEW degree \in Nat,
         NEW s \in Nat, s # 0,
         NEW x \in Labels(app), NEW in \in Messages \cup {None},
         NEW r \in Program(app, s, v, x, in, degree)
  PROVE  /\ r.value = IF Better(in, x) THEN in ELSE x
         /\ r.message = IF Better(in, x) THEN in + Cost(app) ELSE None
         /\ r.halts = TRUE /\ r.reads = TRUE
         /\ Better(in, x) => in \in Labels(app) /\ in # Unset(app)
<1>0. /\ Messages \subseteq Nat /\ None \notin Messages /\ x \in Values \cup {None} /\ x \in Nat
      /\ in # None => in \in Nat
  BY LabelFacts
<1>1. CASE app = "cc" /\ RunsCC
  <2>1. Program(app, s, v, x, in, degree) = CCCompute(s, v, x, in, degree)
    BY <1>0, <1>1 DEF RunsCC, Is
  <2> DEFINE new == Improved(x, in)
             m == IF new # x THEN new ELSE None
  <2>2. r \in Result(new, m, TRUE, TRUE)
    BY <2>1 DEF CCCompute
  <2>3. new = IF Better(in, x) THEN in ELSE x
    BY <1>0 DEF Improved, Better
  <2>4. m = IF Better(in, x) THEN in ELSE None
    <3> HIDE DEF new
    <3>1. Better(in, x) => in # x
      BY <1>0 DEF Better
    <3> QED
      BY <2>3, <3>1
  <2>5. r.value = new /\ r.message = m /\ r.halts = TRUE /\ r.reads = TRUE
    <3> HIDE DEF new, m
    <3> QED
      BY <2>2 DEF Result
  <2>6. Better(in, x) => in \in Messages /\ in + 0 = in
    BY <1>0 DEF Better
  <2> HIDE DEF new, m
  <2> QED
    BY <1>0, <1>1, <2>3, <2>4, <2>5, <2>6 DEF Cost, Unset, Labels
<1>2. CASE app = "sssp" /\ RunsSSSP
  <2>1. app # "cc" /\ UINT_MAX \in Nat /\ x <= UINT_MAX
    <3>1. app # "cc" /\ UINT_MAX \in Nat
      BY <1>2 DEF RunsSSSP
    <3> QED
      BY <3>1 DEF Labels
  <2>2. Program(app, s, v, x, in, degree) = SSSPCompute(s, v, x, in, degree)
    BY <1>0, <1>2 DEF RunsSSSP, Is
  <2> DEFINE m_initial == Improved(UINT_MAX, in)
  <2>3. /\ m_initial < x => r \in Result(m_initial, m_initial + 1, TRUE, TRUE)
        /\ ~(m_initial < x) => r \in Result(x, None, TRUE, TRUE)
    BY <2>2, Zenon DEF SSSPCompute
  <2>4. /\ Better(in, x) <=> m_initial < x
        /\ Better(in, x) => m_initial = in
    BY <1>0, <2>1 DEF Improved, Better
  <2> HIDE DEF m_initial
  <2>5. CASE Better(in, x)
    <3>1. r \in Result(in, in + 1, TRUE, TRUE)
      BY <2>3, <2>4, <2>5
    <3>2. r.value = in /\ r.message = in + 1 /\ r.halts = TRUE /\ r.reads = TRUE
      BY <3>1 DEF Result
    <3>3. in \in Messages /\ in \in Nat /\ in < UINT_MAX
      BY <1>0, <2>1, <2>5 DEF Better
    <3> QED
      BY <2>1, <2>5, <3>2, <3>3 DEF Cost, Unset, Labels
  <2>6. CASE ~Better(in, x)
    <3>1. r \in Result(x, None, TRUE, TRUE)
      BY <2>3, <2>4, <2>6
    <3>2. r.value = x /\ r.message = None /\ r.halts = TRUE /\ r.reads = TRUE
      BY <3>1 DEF Result
    <3> QED
      BY <2>6, <3>2
  <2> QED
    BY <2>5, <2>6
<1> QED
  BY <1>1, <1>2 DEF Runs

\* What a vertex reaches, so does one with an edge to it.
LEMMA WithinFrom ==
  ASSUME NEW out \in Graphs, NEW u \in Vertices, NEW v \in Vertices, Leads(out, u, v),
         NEW k \in Nat
  PROVE  Within(out, v)[k] \subseteq Within(out, u)[k + 1]
<1> DEFINE V == Within(out, v)
           U == Within(out, u)
           S == {j \in Nat : V[j] \subseteq U[j + 1]}
<1>1. V[0] = {v} /\ U[0] = {u}
  BY WithinSteps
<1>2. \A j \in Nat : \A w : w \in V[j + 1] <=> w \in V[j] \/ \E x \in V[j] : Leads(out, x, w)
  BY WithinEdge
<1>3. \A j \in Nat : \A w : w \in U[j + 1] <=> w \in U[j] \/ \E x \in U[j] : Leads(out, x, w)
  BY WithinEdge
<1> HIDE DEF V, U
<1>4. 0 \in S
  BY <1>1, <1>3
<1>5. ASSUME NEW j \in S PROVE j + 1 \in S
  <2>1. j \in Nat /\ j + 1 \in Nat /\ V[j] \subseteq U[j + 1]
    BY <1>5
  <2>2. ASSUME NEW w \in V[j + 1] PROVE w \in U[(j + 1) + 1]
    <3>1. w \in V[j] \/ \E x \in V[j] : Leads(out, x, w)
      BY <1>2, <2>1, <2>2
    <3>2. w \in U[j + 1] \/ \E x \in U[j + 1] : Leads(out, x, w)
      BY <2>1, <3>1
    <3> QED
      BY <1>3, <2>1, <3>2
  <2> QED
    BY <2>1, <2>2
<1>6. S \in SUBSET Nat
  OBVIOUS
<1> HIDE DEF S
<1>7. S = Nat
  BY <1>4, <1>5, <1>6, Induction
<1> QED
  BY <1>7 DEF S, V, U

\* The first label of a vertex is right, and so is what it is told by a neighbour
\* whose label is right.
LEMMA RightLabels ==
  ASSUME NEW app, Runs(app), NEW out \in Graphs, app = "cc" => Undirected(out)
  PROVE  /\ \A v \in Vertices : Right(app, out, v) \subseteq Nat
         /\ \A v \in Vertices : Start(app, v) # Unset(app) => Start(app, v) \in Right(app, out, v)
         /\ \A u, v \in Vertices : Leads(out, u, v) =>
              \A x \in Right(app, out, u) : x + Cost(app) \in Right(app, out, v)
<1>1. CASE app = "cc" /\ RunsCC
  <2>0. \A v \in Vertices : Right(app, out, v) = Within(out, v)[N] /\ Start(app, v) = v
    BY <1>1 DEF Right, Start
  <2>1. N \in Nat /\ N + 1 \in Nat /\ 0 \in Nat
    BY VerticesAssumption, FS_CardinalityType DEF N
  <2>2. Vertices \subseteq Nat
    BY <1>1 DEF RunsCC, CombinesLeast
  <2>3. \A v \in Vertices : Within(out, v)[N] \in SUBSET Vertices
    BY <2>1, WithinEdge
  <2>4. \A v \in Vertices : v \in Within(out, v)[N]
    BY <2>1, WithinSteps, WithinAll
  <2>5. ASSUME NEW u \in Vertices, NEW v \in Vertices, Leads(out, u, v),
               NEW x \in Within(out, u)[N]
        PROVE  x + 0 \in Within(out, v)[N]
    <3>1. Leads(out, v, u)
      BY <1>1, <2>5 DEF Undirected
    <3>2. x \in Within(out, v)[N + 1]
      BY <2>1, <3>1, WithinFrom
    <3>3. x \in Within(out, v)[N]
      BY <2>1, <3>2, WithinAll
    <3>4. x \in Nat
      BY <2>2, <2>3
    <3> QED
      BY <3>3, <3>4
  <2>6. Cost(app) = 0
    BY <1>1 DEF Cost
  <2>7. \A v \in Vertices : Right(app, out, v) \subseteq Nat /\ Start(app, v) \in Right(app, out, v)
    BY <2>0, <2>2, <2>3, <2>4
  <2>8. ASSUME NEW u \in Vertices, NEW v \in Vertices, Leads(out, u, v),
               NEW x \in Right(app, out, u)
        PROVE  x + Cost(app) \in Right(app, out, v)
    <3>1. x + 0 \in Within(out, v)[N]
      BY <2>0, <2>5, <2>8
    <3> QED
      BY <2>0, <2>6, <3>1
  <2> QED
    BY <2>7, <2>8
<1>2. CASE app = "sssp" /\ RunsSSSP
  <2>1. /\ app # "cc" /\ start_vertex \in Vertices /\ Cost(app) = 1 /\ Unset(app) = UINT_MAX
        /\ \A v \in Vertices : Right(app, out, v) = {k \in Nat : v \in Within(out, start_vertex)[k]}
    BY <1>2 DEF RunsSSSP, Cost, Unset, Right
  <2>2. \A v \in Vertices : Start(app, v) # Unset(app) => v = start_vertex /\ Start(app, v) = 0
    BY <2>1 DEF Start
  <2>3. start_vertex \in Within(out, start_vertex)[0] /\ 0 \in Nat
    BY WithinSteps
  <2>4. ASSUME NEW u \in Vertices, NEW v \in Vertices, Leads(out, u, v),
               NEW k \in Nat, u \in Within(out, start_vertex)[k]
        PROVE  k + 1 \in Nat /\ v \in Within(out, start_vertex)[k + 1]
    BY <2>1, <2>4, WithinEdge
  <2> QED
    BY <2>1, <2>2, <2>3, <2>4
<1> QED
  BY <1>1, <1>2 DEF Runs

------------------------------------------------------------------------------
(* The superstep semantics keeps the labels right and forgets none.        *)

\* What a vertex receives is the smallest of the messages sent to it.
ReceivesLeast ==
  \A out \in Graphs, s \in [Vertices -> Messages \cup {None}], d \in Vertices :
    /\ Received(out, s, d) \in Messages \cup {None}
    /\ Received(out, s, d) # None =>
         \E u \in Vertices : Leads(out, u, d) /\ s[u] = Received(out, s, d)
    /\ \A u \in Vertices : Leads(out, u, d) /\ s[u] # None =>
         Received(out, s, d) # None /\ Received(out, s, d) <= s[u]

Typed ==
  /\ out_neighbours \in Graphs
  /\ superstep \in Nat
  /\ value \in [Vertices -> Values \cup {None}]
  /\ active \in [Vertices -> BOOLEAN]
  /\ inbox \in [Vertices -> Messages \cup {None}]
  /\ sent \in [Vertices -> Messages \cup {None}]
  /\ ran \in SUBSET Vertices
  /\ returned \in BOOLEAN

\* cc.c and sssp.c halt and read their message: what a vertex can read is what was
\* sent to it in the superstep before.
Rounds ==
  /\ \A v \in Vertices : v \notin ran => sent[v] = None
  /\ \A v \in ran : ~active[v] /\ inbox[v] = None
  /\ \A v \in Vertices : inbox[v] # None => active[v]
  /\ superstep = 0 => \A v \in Vertices : inbox[v] = None /\ (v \notin ran => active[v])
  /\ returned => ran = {} /\ \A v \in Vertices : ~active[v]

Labelled(v) == superstep # 0 \/ v \in ran

\* The labels, and the messages, are right.
LabelsRight(app) ==
  /\ \A v \in Vertices : Labelled(v) =>
       /\ value[v] \in Labels(app)
       /\ value[v] <= Start(app, v)
       /\ value[v] # Unset(app) => value[v] \in Right(app, out_neighbours, v)
  /\ \A v \in Vertices : sent[v] # None =>
       /\ v \in ran /\ value[v] # Unset(app)
       /\ sent[v] = value[v] + Cost(app)
  /\ \A v \in Vertices : inbox[v] # None => inbox[v] \in Right(app, out_neighbours, v)

\* The label of w takes that of u into account, or will when w has read its message,
\* or when the messages of this superstep have arrived.
Told(app, u, w) ==
  \/ superstep # 0 /\ value[w] <= value[u] + Cost(app)
  \/ inbox[w] # None /\ inbox[w] <= value[u] + Cost(app)
  \/ sent[u] # None

NoneForgotten(app) ==
  \A u, w \in Vertices :
    Leads(out_neighbours, u, w) /\ Labelled(u) /\ value[u] # Unset(app) => Told(app, u, w)

Labelling(app) ==
  /\ app = "cc" => Undirected(out_neighbours)
  /\ Typed /\ Rounds /\ LabelsRight(app) /\ NoneForgotten(app)

\* Before the first superstep there is no label.
LEMMA LabellingInit ==
  ASSUME NEW app, Runs(app), application = app, Init
  PROVE  Labelling(app)
<1>1. PICK job \in Jobs : application = job[1] /\ out_neighbours = job[2]
  BY DEF Init
<1>2. out_neighbours \in Graphs
  BY <1>1, JobsAssumption DEF Graphs
<1>3. app = "cc" => Undirected(out_neighbours)
  BY <1>1 DEF Runs, RunsCC
<1>4. Typed
  BY <1>2 DEF Init, Typed
<1>5. Rounds
  BY DEF Init, Rounds
<1>6. LabelsRight(app) /\ NoneForgotten(app)
  BY DEF Init, LabelsRight, NoneForgotten, Labelled
<1> QED
  BY <1>3, <1>4, <1>5, <1>6 DEF Labelling

\* A vertex runs in superstep 0.
LEMMA LabellingFirst ==
  ASSUME NEW app, Runs(app), application = app, Labelling(app),
         NEW v \in Vertices, Compute(v), superstep = 0
  PROVE  Labelling(app)'
<1> USE DEF Labelling
<1>0. Typed /\ Rounds /\ LabelsRight(app) /\ NoneForgotten(app)
  OBVIOUS
<1>1. PICK r \in Program(app, superstep, v, value[v], inbox[v], Len(out_neighbours[v])) :
        /\ value' = [value EXCEPT ![v] = r.value]
        /\ active' = [active EXCEPT ![v] = VotesCount /\ ~r.halts]
        /\ inbox' = [inbox EXCEPT ![v] = IF r.reads THEN None ELSE @]
        /\ sent' = [sent EXCEPT ![v] = r.message]
  BY DEF Compute
<1>2. /\ ran' = ran \cup {v} /\ v \notin ran /\ ~returned
      /\ UNCHANGED <<application, out_neighbours, superstep, returned>>
  BY DEF Compute, InSuperstep
<1>3. /\ r.value = Start(app, v) /\ r.halts = TRUE /\ r.reads = FALSE
      /\ r.message = IF Start(app, v) = Unset(app) THEN None ELSE Start(app, v) + Cost(app)
  <2>1. Len(out_neighbours[v]) \in Nat /\ value[v] \in Values \cup {None}
        /\ inbox[v] \in Messages \cup {None}
    BY <1>0 DEF Typed, Graphs
  <2> QED
    BY <1>1, <2>1, FirstRun
<1>4. /\ Start(app, v) \in Labels(app) /\ Start(app, v) \in Nat /\ Start(app, v) \in Values
      /\ Start(app, v) # Unset(app) => r.message \in Messages /\ r.message # None
      /\ Start(app, v) # Unset(app) => Start(app, v) \in Right(app, out_neighbours, v)
  <2>1. out_neighbours \in Graphs
    BY <1>0 DEF Typed
  <2>2. Start(app, v) \in Labels(app) /\ Labels(app) \subseteq Nat /\ Labels(app) \subseteq Values
    BY LabelFacts
  <2>3. Start(app, v) # Unset(app) => Start(app, v) + Cost(app) \in Messages /\ None \notin Messages
    BY <2>2, LabelFacts
  <2>4. Start(app, v) # Unset(app) => Start(app, v) \in Right(app, out_neighbours, v)
    BY <2>1, RightLabels
  <2> QED
    BY <1>3, <2>2, <2>3, <2>4
<1>5. /\ value' \in [Vertices -> Values \cup {None}]
      /\ value'[v] = Start(app, v)
      /\ \A u \in Vertices : u # v => value'[u] = value[u]
  BY <1>0, <1>1, <1>3, <1>4 DEF Typed
<1>6. /\ active' \in [Vertices -> BOOLEAN]
      /\ ~active'[v]
      /\ \A u \in Vertices : u # v => active'[u] = active[u]
  BY <1>0, <1>1, <1>3 DEF Typed
<1>7. inbox' = inbox
  <2>1. inbox \in [Vertices -> Messages \cup {None}] /\ inbox' = [inbox EXCEPT ![v] = inbox[v]]
    BY <1>0, <1>1, <1>3 DEF Typed
  <2> QED
    BY <2>1
<1>8. /\ sent' \in [Vertices -> Messages \cup {None}]
      /\ sent'[v] = r.message
      /\ \A u \in Vertices : u # v => sent'[u] = sent[u]
  <2>1. r.message \in Messages \cup {None}
    BY <1>3, <1>4
  <2> QED
    BY <1>0, <1>1, <2>1 DEF Typed
<1>9. Typed'
  BY <1>0, <1>2, <1>5, <1>6, <1>7, <1>8 DEF Typed
<1>10. Rounds'
  BY <1>0, <1>2, <1>6, <1>7, <1>8 DEF Rounds, Typed
<1>11. LabelsRight(app)'
  <2>1. ASSUME NEW u \in Vertices, Labelled(u)'
        PROVE  /\ value'[u] \in Labels(app)
               /\ value'[u] <= Start(app, u)
               /\ value'[u] # Unset(app) => value'[u] \in Right(app, out_neighbours, u)
    <3>1. CASE u = v
      BY <1>4, <1>5, <3>1
    <3>2. CASE u # v
      <4>1. Labelled(u)
        BY <1>2, <2>1, <3>2 DEF Labelled
      <4> QED
        BY <1>0, <1>5, <3>2, <4>1 DEF LabelsRight
    <3> QED
      BY <3>1, <3>2
  <2>2. ASSUME NEW u \in Vertices, sent'[u] # None
        PROVE  u \in ran' /\ value'[u] # Unset(app) /\ sent'[u] = value'[u] + Cost(app)
    <3>1. CASE u = v
      BY <1>2, <1>3, <1>5, <1>8, <2>2, <3>1
    <3>2. CASE u # v
      BY <1>0, <1>2, <1>5, <1>8, <2>2, <3>2 DEF LabelsRight
    <3> QED
      BY <3>1, <3>2
  <2>3. ASSUME NEW u \in Vertices, inbox'[u] # None
        PROVE  inbox'[u] \in Right(app, out_neighbours, u)
    BY <1>0, <1>7, <2>3 DEF LabelsRight
  <2>4. out_neighbours' = out_neighbours
    BY <1>2
  <2> QED
    BY <2>1, <2>2, <2>3, <2>4 DEF LabelsRight
<1>12. NoneForgotten(app)'
  <2> SUFFICES ASSUME NEW u \in Vertices, NEW w \in Vertices,
                      Leads(out_neighbours, u, w), Labelled(u)', value'[u] # Unset(app)
               PROVE  Told(app, u, w)'
    BY <1>2 DEF NoneForgotten
  <2>1. CASE u = v
    <3>1. sent'[u] # None
      BY <1>4, <1>5, <1>8, <2>1
    <3> QED
      BY <3>1 DEF Told
  <2>2. CASE u # v
    <3>1. Labelled(u) /\ value[u] # Unset(app)
      BY <1>2, <1>5, <2>2 DEF Labelled
    <3>2. Told(app, u, w)
      BY <1>0, <3>1 DEF NoneForgotten
    <3> QED
      BY <1>2, <1>5, <1>7, <1>8, <2>2, <3>2 DEF Told
  <2> QED
    BY <2>1, <2>2
<1>13. (app = "cc" => Undirected(out_neighbours))'
  BY <1>2
<1> QED
  BY <1>9, <1>10, <1>11, <1>12, <1>13

\* A vertex runs in a later superstep.
LEMMA LabellingLater ==
  ASSUME NEW app, Runs(app), application = app, Labelling(app),
         NEW v \in Vertices, Compute(v), superstep # 0
  PROVE  Labelling(app)'
<1> USE DEF Labelling
<1>0. Typed /\ Rounds /\ LabelsRight(app) /\ NoneForgotten(app)
  OBVIOUS
<1> DEFINE old == value[v]
           in == inbox[v]
<1>1. PICK r \in Program(app, superstep, v, value[v], inbox[v], Len(out_neighbours[v])) :
        /\ value' = [value EXCEPT ![v] = r.value]
        /\ active' = [active EXCEPT ![v] = VotesCount /\ ~r.halts]
        /\ inbox' = [inbox EXCEPT ![v] = IF r.reads THEN None ELSE @]
        /\ sent' = [sent EXCEPT ![v] = r.message]
  BY DEF Compute
<1>2. /\ ran' = ran \cup {v} /\ v \notin ran /\ ~returned
      /\ UNCHANGED <<application, out_neighbours, superstep, returned>>
  BY DEF Compute, InSuperstep
<1>3. /\ old \in Labels(app) /\ old <= Start(app, v) /\ old \in Nat /\ Start(app, v) \in Nat
      /\ old # Unset(app) => old \in Right(app, out_neighbours, v)
      /\ in \in Messages \cup {None}
      /\ in # None => in \in Nat /\ in \in Right(app, out_neighbours, v)
  <2>1. Labels(app) \subseteq Nat /\ Messages \subseteq Nat /\ Start(app, v) \in Labels(app)
    BY LabelFacts
  <2>2. in \in Messages \cup {None}
    BY <1>0 DEF Typed
  <2>3. /\ old \in Labels(app) /\ old <= Start(app, v)
        /\ old # Unset(app) => old \in Right(app, out_neighbours, v)
        /\ in # None => in \in Right(app, out_neighbours, v)
    BY <1>0 DEF LabelsRight, Labelled
  <2> HIDE DEF old, in
  <2> QED
    BY <2>1, <2>2, <2>3
<1>4. /\ r.value = IF Better(in, old) THEN in ELSE old
      /\ r.message = IF Better(in, old) THEN in + Cost(app) ELSE None
      /\ r.halts = TRUE /\ r.reads = TRUE
      /\ Better(in, old) => in \in Labels(app) /\ in # Unset(app)
  <2>1. Len(out_neighbours[v]) \in Nat
    BY <1>0 DEF Typed, Graphs
  <2>2. superstep \in Nat
    BY <1>0 DEF Typed
  <2>3. r \in Program(app, superstep, v, old, in, Len(out_neighbours[v]))
    BY <1>1
  <2>4. old \in Labels(app) /\ in \in Messages \cup {None}
    BY <1>3
  <2> HIDE DEF old, in
  <2> QED
    BY <2>1, <2>2, <2>3, <2>4, LaterRun
<1> HIDE DEF old, in
<1> DEFINE new == r.value
           out == r.message
<1>5. /\ new \in Labels(app) /\ new \in Nat /\ new <= old /\ new <= Start(app, v)
      /\ new \in Values
      /\ new # Unset(app) => new \in Right(app, out_neighbours, v)
      /\ in # None => new <= in
      /\ out \in Messages \cup {None}
      /\ out # None => new # Unset(app) /\ out = new + Cost(app)
      /\ out = None => new = old
  <2>1. Labels(app) \subseteq Nat /\ Labels(app) \subseteq Values /\ None \notin Messages
        /\ Cost(app) \in Nat
    BY LabelFacts
  <2>2. CASE Better(in, old)
    <3>1. new = in /\ out = in + Cost(app) /\ in \in Labels(app) /\ in # Unset(app)
      BY <1>4, <2>2
    <3>2. in # None /\ in < old
      BY <2>2 DEF Better
    <3>3. in + Cost(app) \in Messages
      BY <3>1, LabelFacts
    <3>4. in \in Right(app, out_neighbours, v) /\ in \in Nat
      BY <1>3, <3>2
    <3> HIDE DEF new, out
    <3>5. in <= old /\ in <= Start(app, v) /\ in <= in
      BY <1>3, <3>2, <3>4
    <3>6. in \in Values
      BY <2>1, <3>1
    <3> QED
      BY <2>1, <3>1, <3>3, <3>4, <3>5, <3>6
  <2>3. CASE ~Better(in, old)
    <3>1. new = old /\ out = None
      BY <1>4, <2>3
    <3>2. in # None => old <= in
      BY <1>3, <2>3 DEF Better
    <3> HIDE DEF new, out
    <3>3. old <= old /\ old \in Values
      BY <1>3, <2>1
    <3> QED
      BY <1>3, <3>1, <3>2, <3>3
  <2> QED
    BY <2>2, <2>3
<1>6. /\ value' \in [Vertices -> Values \cup {None}]
      /\ value'[v] = new
      /\ \A u \in Vertices : u # v => value'[u] = value[u]
  BY <1>0, <1>1, <1>5 DEF Typed
<1>7. /\ active' \in [Vertices -> BOOLEAN]
      /\ ~active'[v]
      /\ \A u \in Vertices : u # v => active'[u] = active[u]
  BY <1>0, <1>1, <1>4 DEF Typed
<1>8. /\ inbox' \in [Vertices -> Messages \cup {None}]
      /\ inbox'[v] = None
      /\ \A u \in Vertices : u # v => inbox'[u] = inbox[u]
  BY <1>0, <1>1, <1>4 DEF Typed
<1>9. /\ sent' \in [Vertices -> Messages \cup {None}]
      /\ sent'[v] = out
      /\ \A u \in Vertices : u # v => sent'[u] = sent[u]
  BY <1>0, <1>1, <1>5 DEF Typed
<1> HIDE DEF new, out
<1>10. Typed'
  BY <1>0, <1>2, <1>6, <1>7, <1>8, <1>9 DEF Typed
<1>11. Rounds'
  BY <1>0, <1>2, <1>7, <1>8, <1>9 DEF Rounds, Typed
<1>12. LabelsRight(app)'
  <2>1. ASSUME NEW u \in Vertices
        PROVE  /\ value'[u] \in Labels(app)
               /\ value'[u] <= Start(app, u)
               /\ value'[u] # Unset(app) => value'[u] \in Right(app, out_neighbours, u)
    <3>1. CASE u = v
      BY <1>5, <1>6, <3>1
    <3>2. CASE u # v
      BY <1>0, <1>6, <3>2 DEF LabelsRight, Labelled
    <3> QED
      BY <3>1, <3>2
  <2>2. ASSUME NEW u \in Vertices, sent'[u] # None
        PROVE  u \in ran' /\ value'[u] # Unset(app) /\ sent'[u] = value'[u] + Cost(app)
    <3>1. CASE u = v
      BY <1>2, <1>5, <1>6, <1>9, <2>2, <3>1
    <3>2. CASE u # v
      BY <1>0, <1>2, <1>6, <1>9, <2>2, <3>2 DEF LabelsRight
    <3> QED
      BY <3>1, <3>2
  <2>3. ASSUME NEW u \in Vertices, inbox'[u] # None
        PROVE  inbox'[u] \in Right(app, out_neighbours, u)
    <3>1. u # v
      BY <1>8, <2>3
    <3> QED
      BY <1>0, <1>8, <2>3, <3>1 DEF LabelsRight
  <2>4. out_neighbours' = out_neighbours
    BY <1>2
  <2> QED
    BY <2>1, <2>2, <2>3, <2>4 DEF LabelsRight
<1>13. NoneForgotten(app)'
  <2> SUFFICES ASSUME NEW u \in Vertices, NEW w \in Vertices,
                      Leads(out_neighbours, u, w), value'[u] # Unset(app)
               PROVE  Told(app, u, w)'
    BY <1>2 DEF NoneForgotten
  <2>0. Cost(app) \in Nat
    BY LabelFacts
  <2>1. \A x \in Vertices : value[x] \in Nat
    <3>1. \A x \in Vertices : value[x] \in Labels(app)
      BY <1>0 DEF LabelsRight, Labelled
    <3> QED
      BY <3>1, LabelFacts
  <2>2. superstep' # 0 /\ value'[v] <= value[v]
    BY <1>2, <1>5, <1>6 DEF old
  <2>3. CASE u = v /\ out # None
    <3>1. sent'[u] # None
      BY <1>9, <2>3
    <3> QED
      BY <3>1 DEF Told
  <2>4. CASE u # v \/ out = None
    <3>1. value'[u] = value[u]
      BY <1>5, <1>6, <2>4 DEF old
    <3>2. Told(app, u, w)
      BY <1>0, <3>1 DEF NoneForgotten, Labelled
    <3>3. u = v => sent[u] = None
      BY <1>0, <1>2 DEF Rounds
    <3>4. CASE value[w] <= value[u] + Cost(app)
      <4>1. value'[w] <= value[u] + Cost(app)
        <5>1. CASE w = v
          <6>1. value'[v] \in Nat
            BY <1>5, <1>6
          <6> QED
            BY <2>0, <2>1, <2>2, <3>4, <5>1, <6>1
        <5>2. CASE w # v
          BY <1>6, <3>4, <5>2
        <5> QED
          BY <5>1, <5>2
      <4> QED
        BY <2>2, <3>1, <4>1 DEF Told
    <3>5. CASE inbox[w] # None /\ inbox[w] <= value[u] + Cost(app)
      <4>1. CASE w = v
        <5>1. value'[w] <= inbox[w] /\ value'[w] \in Nat /\ inbox[w] \in Nat
          BY <1>3, <1>5, <1>6, <3>5, <4>1 DEF in
        <5>2. value'[w] <= value[u] + Cost(app)
          BY <2>0, <2>1, <3>5, <5>1
        <5> QED
          BY <2>2, <3>1, <5>2 DEF Told
      <4>2. CASE w # v
        BY <1>8, <3>1, <3>5, <4>2 DEF Told
      <4> QED
        BY <4>1, <4>2
    <3>6. CASE sent[u] # None
      BY <1>9, <3>3, <3>6 DEF Told
    <3> QED
      BY <3>2, <3>4, <3>5, <3>6 DEF Told
  <2> QED
    BY <2>3, <2>4
<1>14. (app = "cc" => Undirected(out_neighbours))'
  BY <1>2
<1> QED
  BY <1>10, <1>11, <1>12, <1>13, <1>14

\* The superstep ends: the messages arrive.
LEMMA LabellingNextSuperstep ==
  ASSUME NEW app, Runs(app), ReceivesLeast, application = app, Labelling(app), NextSuperstep
  PROVE  Labelling(app)'
<1> USE DEF Labelling
<1>0. Typed /\ Rounds /\ LabelsRight(app) /\ NoneForgotten(app)
  OBVIOUS
<1> DEFINE arrived(v) == Received(out_neighbours, sent, v)
<1>1. /\ \A v \in Vertices : Runnable(v) => v \in ran
      /\ ran # {} /\ superstep' = superstep + 1 /\ superstep \in Nat
      /\ superstep' \in Nat /\ superstep' # 0
      /\ sent' = [v \in Vertices |-> None]
      /\ ran' = {}
      /\ UNCHANGED <<application, out_neighbours, value, returned>>
  BY <1>0 DEF NextSuperstep, Typed
<1>2. \A v \in Vertices : inbox[v] = None /\ ~active[v]
  BY <1>0, <1>1 DEF Rounds, Runnable
<1>3. \A v \in Vertices : Labelled(v)
  BY <1>0, <1>1, <1>2 DEF Rounds, Labelled
<1>4. \A v \in Vertices :
        /\ arrived(v) \in Messages \cup {None}
        /\ arrived(v) # None =>
             \E u \in Vertices : Leads(out_neighbours, u, v) /\ sent[u] = arrived(v)
        /\ \A u \in Vertices : Leads(out_neighbours, u, v) /\ sent[u] # None =>
             arrived(v) # None /\ arrived(v) <= sent[u]
  BY <1>0, Zenon DEF Typed, ReceivesLeast
<1>5. /\ inbox' \in [Vertices -> Messages \cup {None}]
      /\ \A v \in Vertices : inbox'[v] = arrived(v)
  <2>1. inbox' = [v \in Vertices |->
                    IF arrived(v) = None /\ KeepsUnread THEN inbox[v] ELSE arrived(v)]
    BY Zenon DEF NextSuperstep
  <2> HIDE DEF arrived
  <2>2. inbox' = [v \in Vertices |-> arrived(v)]
    BY <1>2, <2>1
  <2> QED
    BY <1>4, <2>2
<1>6. /\ active' \in [Vertices -> BOOLEAN]
      /\ \A v \in Vertices : active'[v] <=> arrived(v) # None
  <2>1. active' = [v \in Vertices |-> active[v] \/ arrived(v) # None]
    BY Zenon DEF NextSuperstep
  <2> HIDE DEF arrived
  <2> QED
    BY <1>2, <2>1
<1> HIDE DEF arrived
<1>7. Typed'
  BY <1>0, <1>1, <1>5, <1>6 DEF Typed
<1>8. Rounds'
  <2>1. ~returned
    BY <1>0, <1>1 DEF Rounds
  <2> QED
    BY <1>1, <1>5, <1>6, <2>1 DEF Rounds
<1>9. LabelsRight(app)'
  <2>1. ASSUME NEW v \in Vertices, inbox'[v] # None
        PROVE  inbox'[v] \in Right(app, out_neighbours, v)
    <3>1. PICK u \in Vertices : Leads(out_neighbours, u, v) /\ sent[u] = inbox'[v]
      BY <1>4, <1>5, <2>1
    <3>2. value[u] # Unset(app) /\ sent[u] = value[u] + Cost(app)
      BY <1>0, <2>1, <3>1 DEF LabelsRight
    <3>3. value[u] \in Right(app, out_neighbours, u)
      BY <1>0, <1>3, <3>2 DEF LabelsRight
    <3>4. out_neighbours \in Graphs /\ (app = "cc" => Undirected(out_neighbours))
      BY <1>0 DEF Typed
    <3> QED
      BY <3>1, <3>2, <3>3, <3>4, RightLabels
  <2>2. \A v \in Vertices :
          /\ value[v] \in Labels(app)
          /\ value[v] <= Start(app, v)
          /\ value[v] # Unset(app) => value[v] \in Right(app, out_neighbours, v)
    BY <1>0, <1>3 DEF LabelsRight
  <2>3. \A v \in Vertices : sent'[v] = None
    BY <1>1
  <2>4. value' = value /\ out_neighbours' = out_neighbours
    BY <1>1
  <2> QED
    BY <2>1, <2>2, <2>3, <2>4 DEF LabelsRight
<1>10. NoneForgotten(app)'
  <2> SUFFICES ASSUME NEW u \in Vertices, NEW w \in Vertices,
                      Leads(out_neighbours, u, w), value[u] # Unset(app)
               PROVE  Told(app, u, w)'
    BY <1>1 DEF NoneForgotten
  <2>1. Told(app, u, w)
    BY <1>0, <1>3 DEF NoneForgotten
  <2>2. CASE value[w] <= value[u] + Cost(app)
    BY <1>1, <2>2 DEF Told
  <2>3. CASE sent[u] # None
    <3>1. sent[u] = value[u] + Cost(app)
      BY <1>0, <2>3 DEF LabelsRight
    <3>2. inbox'[w] # None /\ inbox'[w] <= value[u] + Cost(app)
      BY <1>4, <1>5, <2>3, <3>1
    <3>3. value' = value
      BY <1>1
    <3> QED
      BY <3>2, <3>3 DEF Told
  <2> QED
    BY <1>2, <2>1, <2>2, <2>3 DEF Told
<1>11. (app = "cc" => Undirected(out_neighbours))'
  BY <1>1
<1> QED
  BY <1>7, <1>8, <1>9, <1>10, <1>11

\* ip_run returns.
LEMMA LabellingReturn ==
  ASSUME NEW app, Labelling(app), Return
  PROVE  Labelling(app)'
<1>1. /\ \A v \in Vertices : ~active[v]
      /\ ran = {} /\ returned' = TRUE
      /\ UNCHANGED <<application, out_neighbours, superstep, value, active, inbox, sent, ran>>
  BY DEF Return, InSuperstep
<1>2. Typed /\ Rounds /\ LabelsRight(app) /\ NoneForgotten(app)
  BY DEF Labelling
<1>3. Typed'
  BY <1>1, <1>2 DEF Typed
<1>4. Rounds'
  BY <1>1, <1>2 DEF Rounds
<1>5. LabelsRight(app)'
  BY <1>1, <1>2 DEF LabelsRight, Labelled
<1>6. NoneForgotten(app)'
  BY <1>1, <1>2 DEF NoneForgotten, Labelled, Told
<1>7. (app = "cc" => Undirected(out_neighbours))'
  BY <1>1 DEF Labelling
<1> QED
  BY <1>3, <1>4, <1>5, <1>6, <1>7 DEF Labelling

\* Every step.
LEMMA LabellingNext ==
  ASSUME NEW app, Runs(app), ReceivesLeast,
         application = app => Labelling(app), [Next]_vars
  PROVE  (application = app => Labelling(app))'
<1>1. application' = application
  BY DEF Next, Compute, NextSuperstep, Return, vars
<1> SUFFICES ASSUME application = app, Labelling(app) PROVE Labelling(app)'
  BY <1>1
<1>2. CASE \E v \in Vertices : Compute(v)
  BY <1>2, LabellingFirst, LabellingLater
<1>3. CASE NextSuperstep
  BY <1>3, LabellingNextSuperstep
<1>4. CASE Return
  BY <1>4, LabellingReturn
<1>5. CASE UNCHANGED vars
  BY <1>5 DEF vars, Labelling, Typed, Rounds, LabelsRight, NoneForgotten, Labelled, Told
<1> QED
  BY <1>2, <1>3, <1>4, <1>5 DEF Next

\* When ip_run is over every vertex has its label, and has told it to its neighbours.
LEMMA LabelsFinal ==
  ASSUME NEW app, Labelling(app), returned
  PROVE  /\ out_neighbours \in Graphs /\ (app = "cc" => Undirected(out_neighbours))
         /\ \A v \in Vertices :
              /\ value[v] \in Labels(app)
              /\ value[v] <= Start(app, v)
              /\ value[v] # Unset(app) => value[v] \in Right(app, out_neighbours, v)
         /\ \A u, w \in Vertices : Leads(out_neighbours, u, w) /\ value[u] # Unset(app) =>
              value[w] <= value[u] + Cost(app)
<1>1. Typed /\ Rounds /\ LabelsRight(app) /\ NoneForgotten(app)
  BY DEF Labelling
<1>2. ran = {} /\ \A v \in Vertices : ~active[v]
  BY <1>1 DEF Rounds
<1>3. superstep # 0
  BY <1>1, <1>2, VerticesAssumption DEF Rounds
<1>4. \A v \in Vertices : inbox[v] = None /\ sent[v] = None
  BY <1>1, <1>2 DEF Rounds
<1>5. ASSUME NEW u \in Vertices, NEW w \in Vertices,
             Leads(out_neighbours, u, w), value[u] # Unset(app)
      PROVE  value[w] <= value[u] + Cost(app)
  BY <1>1, <1>3, <1>4, <1>5 DEF NoneForgotten, Labelled, Told
<1> QED
  BY <1>1, <1>3, <1>5 DEF LabelsRight, Labelled, Typed, Labelling

\* cc.c: the labels are those of the components.
LEMMA ComponentsFinal ==
  ASSUME RunsCC, Labelling("cc"), returned, NEW v \in Vertices
  PROVE  value[v] = ComponentLabel(out_neighbours, v)
<1> DEFINE W == Within(out_neighbours, v)
           S == {k \in Nat : \A w \in W[k] : value[w] = value[v]}
<1>1. Runs("cc")
  BY DEF Runs
<1>2. /\ out_neighbours \in Graphs /\ Undirected(out_neighbours)
      /\ \A u \in Vertices :
           /\ value[u] \in Messages /\ value[u] <= u
           /\ value[u] # None => value[u] \in Within(out_neighbours, u)[N]
      /\ \A u, w \in Vertices : Leads(out_neighbours, u, w) /\ value[u] # None =>
           value[w] <= value[u] + 0
  BY LabelsFinal DEF Labels, Start, Unset, Right, Cost
<1>3. \A u \in Vertices : value[u] \in Nat /\ u \in Nat /\ value[u] # None
  BY <1>1, <1>2, LabelFacts DEF RunsCC
<1>4. ASSUME NEW u \in Vertices, NEW w \in Vertices, Leads(out_neighbours, u, w)
      PROVE  value[w] = value[u]
  <2>1. Leads(out_neighbours, w, u)
    BY <1>2, <1>4 DEF Undirected
  <2>2. value[w] <= value[u] + 0 /\ value[u] <= value[w] + 0
    BY <1>2, <1>3, <1>4, <2>1
  <2>3. value[u] \in Nat /\ value[w] \in Nat
    BY <1>3
  <2> QED
    BY <2>2, <2>3
<1>5. W[0] = {v}
  BY WithinSteps
<1>6. \A k \in Nat : W[k] \in SUBSET Vertices
        /\ \A w : w \in W[k + 1] <=> w \in W[k] \/ \E u \in W[k] : Leads(out_neighbours, u, w)
  BY <1>2, WithinEdge
<1>7. N \in Nat
  BY <1>2, WithinAll
<1>8. value[v] \in W[N]
  BY <1>2, <1>3
<1>9. ComponentLabel(out_neighbours, v) = CHOOSE u \in W[N] : \A w \in W[N] : u <= w
  BY DEF ComponentLabel
<1> HIDE DEF W
<1>10. 0 \in S
  BY <1>5
<1>11. ASSUME NEW k \in S PROVE k + 1 \in S
  <2>1. k \in Nat /\ k + 1 \in Nat /\ \A w \in W[k] : value[w] = value[v]
    BY <1>11
  <2>2. ASSUME NEW w \in W[k + 1] PROVE value[w] = value[v]
    <3>1. w \in Vertices
      BY <1>6, <2>1
    <3>2. w \in W[k] \/ \E u \in W[k] : Leads(out_neighbours, u, w)
      BY <1>6, <2>1
    <3>3. ASSUME NEW u \in W[k], Leads(out_neighbours, u, w) PROVE value[w] = value[v]
      BY <1>4, <1>6, <2>1, <3>1, <3>3
    <3> QED
      BY <2>1, <3>2, <3>3
  <2> QED
    BY <2>1, <2>2
<1>12. N \in S
  <2>1. S \in SUBSET Nat
    OBVIOUS
  <2> HIDE DEF S
  <2>2. S = Nat
    BY <1>10, <1>11, <2>1, Induction
  <2> QED
    BY <1>7, <2>2
<1>13. \A w \in W[N] : w \in Nat /\ value[v] <= w
  <2>1. ASSUME NEW w \in W[N] PROVE w \in Nat /\ value[v] <= w
    <3>1. w \in Vertices /\ value[w] = value[v]
      BY <1>6, <1>7, <1>12
    <3> QED
      BY <1>2, <1>3, <3>1
  <2> QED
    BY <2>1
<1>14. \A u \in W[N] : (\A w \in W[N] : u <= w) => u = value[v]
  <2>1. ASSUME NEW u \in W[N], \A w \in W[N] : u <= w PROVE u = value[v]
    <3>1. u <= value[v] /\ value[v] <= u /\ u \in Nat /\ value[v] \in Nat
      BY <1>3, <1>8, <1>13, <2>1
    <3> QED
      BY <3>1
  <2> QED
    BY <2>1
<1> QED
  BY <1>8, <1>9, <1>13, <1>14, Zenon

\* sssp.c: the labels are the distances.
LEMMA DistancesFinal ==
  ASSUME RunsSSSP, Labelling("sssp"), returned, NEW v \in Vertices
  PROVE  value[v] = Distance(out_neighbours, v)
<1> DEFINE W == Within(out_neighbours, start_vertex)
           S == {k \in Nat : \A w \in W[k] : value[w] <= k}
<1>1. Runs("sssp")
  BY DEF Runs
<1>2. /\ out_neighbours \in Graphs
      /\ \A u \in Vertices :
           /\ value[u] <= UINT_MAX
           /\ u = start_vertex => value[u] <= 0
           /\ value[u] # UINT_MAX => u \in W[value[u]]
      /\ \A u, w \in Vertices : Leads(out_neighbours, u, w) /\ value[u] # UINT_MAX =>
           value[w] <= value[u] + 1
  <2>1. /\ out_neighbours \in Graphs
        /\ \A u \in Vertices :
             /\ value[u] \in Labels("sssp")
             /\ value[u] <= Start("sssp", u)
             /\ value[u] # Unset("sssp") => value[u] \in Right("sssp", out_neighbours, u)
        /\ \A u, w \in Vertices : Leads(out_neighbours, u, w) /\ value[u] # Unset("sssp") =>
             value[w] <= value[u] + Cost("sssp")
    BY LabelsFinal
  <2>2. "sssp" # "cc"
    OBVIOUS
  <2>3. Unset("sssp") = UINT_MAX /\ Cost("sssp") = 1
    BY <2>2 DEF Unset, Cost
  <2>4. \A u \in Vertices : value[u] \in Labels("sssp") => value[u] <= UINT_MAX
    BY <2>2 DEF Labels
  <2>5. Start("sssp", start_vertex) = 0
    BY <2>2 DEF Start
  <2>6. \A u \in Vertices : value[u] \in Right("sssp", out_neighbours, u) => u \in W[value[u]]
    BY <2>2 DEF Right
  <2> QED
    BY <2>1, <2>3, <2>4, <2>5, <2>6
<1>3. \A u \in Vertices : value[u] \in Nat
  BY <1>1, LabelsFinal, LabelFacts
<1>4. start_vertex \in Vertices /\ UINT_MAX \in Nat /\ N <= UINT_MAX
  BY DEF RunsSSSP
<1>5. W[0] = {start_vertex}
  BY WithinSteps
<1>6. \A k \in Nat : W[k] \in SUBSET Vertices
        /\ \A w : w \in W[k + 1] <=> w \in W[k] \/ \E u \in W[k] : Leads(out_neighbours, u, w)
  BY <1>2, <1>4, WithinEdge
<1>7. N \in Nat /\ \A k \in Nat : W[k] \subseteq W[N]
  BY <1>2, <1>4, WithinAll
<1>8. Distance(out_neighbours, v) =
        IF v \notin W[N] THEN UINT_MAX
        ELSE CHOOSE k \in 0 .. N : v \in W[k] /\ \A j \in 0 .. k - 1 : v \notin W[j]
  BY Zenon DEF Distance, DistanceFrom
<1> HIDE DEF W
<1>9. 0 \in S
  BY <1>2, <1>4, <1>5
<1>10. ASSUME NEW k \in S PROVE k + 1 \in S
  <2>1. k \in Nat /\ k + 1 \in Nat /\ \A w \in W[k] : value[w] <= k
    BY <1>10
  <2>2. ASSUME NEW w \in W[k + 1] PROVE value[w] <= k + 1
    <3>1. w \in Vertices
      BY <1>6, <2>1
    <3>2. w \in W[k] \/ \E u \in W[k] : Leads(out_neighbours, u, w)
      BY <1>6, <2>1
    <3>3. ASSUME NEW u \in W[k], Leads(out_neighbours, u, w) PROVE value[w] <= k + 1
      <4>1. u \in Vertices /\ value[u] <= k
        BY <1>6, <2>1
      <4>2. value[u] \in Nat /\ value[w] \in Nat
        BY <1>3, <3>1, <4>1
      <4>3. CASE value[u] = UINT_MAX
        <5>1. value[w] <= UINT_MAX
          BY <1>2, <3>1
        <5> QED
          BY <1>4, <2>1, <4>1, <4>2, <4>3, <5>1
      <4>4. CASE value[u] # UINT_MAX
        <5>1. value[w] <= value[u] + 1
          BY <1>2, <3>1, <3>3, <4>1, <4>4
        <5> QED
          BY <2>1, <4>1, <4>2, <5>1
      <4> QED
        BY <4>3, <4>4
    <3>4. CASE w \in W[k]
      <4>1. value[w] <= k /\ value[w] \in Nat
        BY <1>3, <2>1, <3>1, <3>4
      <4> QED
        BY <2>1, <4>1
    <3> QED
      BY <3>2, <3>3, <3>4
  <2> QED
    BY <2>1, <2>2
<1>11. \A k \in Nat : \A w \in W[k] : value[w] <= k
  <2>1. S \in SUBSET Nat
    OBVIOUS
  <2> HIDE DEF S
  <2>2. S = Nat
    BY <1>9, <1>10, <2>1, Induction
  <2> QED
    BY <2>2 DEF S
<1>12. CASE v \notin W[N]
  <2>1. value[v] = UINT_MAX
    BY <1>2, <1>3, <1>7, <1>12
  <2> QED
    BY <1>8, <1>12, <2>1
<1>13. CASE v \in W[N]
  <2>1. value[v] <= N /\ value[v] \in Nat
    BY <1>3, <1>7, <1>11, <1>13
  <2>2. value[v] \in 0 .. N
    BY <1>7, <2>1
  <2>3. v \in W[value[v]]
    <3>1. CASE value[v] = UINT_MAX
      <4>1. value[v] = N
        BY <1>4, <1>7, <2>1, <3>1
      <4> QED
        BY <1>13, <4>1
    <3>2. CASE value[v] # UINT_MAX
      BY <1>2, <3>2
    <3> QED
      BY <3>1, <3>2
  <2>4. ASSUME NEW j \in 0 .. value[v] - 1 PROVE v \notin W[j]
    <3>1. j \in Nat /\ ~(value[v] <= j)
      BY <2>1
    <3> QED
      BY <1>11, <3>1
  <2>5. ASSUME NEW k \in 0 .. N, v \in W[k], \A j \in 0 .. k - 1 : v \notin W[j]
        PROVE  k = value[v]
    <3>1. k \in Nat /\ value[v] <= k
      BY <1>7, <1>11, <2>5
    <3>2. ~(value[v] < k)
      <4>1. value[v] < k => value[v] \in 0 .. k - 1
        BY <2>1, <3>1
      <4> QED
        BY <2>3, <2>5, <4>1
    <3> QED
      BY <2>1, <3>1, <3>2
  <2> QED
    BY <1>8, <1>13, <2>2, <2>3, <2>4, <2>5, Zenon
<1> QED
  BY <1>12, <1>13

\* When ip_run is over, the labels of cc.c are those of the components,
ComponentsFound ==
  returned /\ application = "cc" =>
    \A v \in Vertices : value[v] = ComponentLabel(out_neighbours, v)

\* and those of sssp.c the distances.
DistancesFound ==
  returned /\ application = "sssp" =>
    \A v \in Vertices : value[v] = Distance(out_neighbours, v)

\* cc.c labels every vertex with the least identifier of its component, when ip_run
\* keeps to the superstep semantics.
THEOREM ComponentsInSupersteps ==
  ASSUME RunsCC, ReceivesLeast PROVE Spec => []ComponentsFound
<1>0. Runs("cc")
  BY DEF Runs
<1>1. Init => (application = "cc" => Labelling("cc"))
  BY <1>0, LabellingInit
<1>2. (application = "cc" => Labelling("cc")) /\ [Next]_vars
        => (application = "cc" => Labelling("cc"))'
  BY <1>0, LabellingNext
<1>3. (application = "cc" => Labelling("cc")) => ComponentsFound
  BY ComponentsFinal DEF ComponentsFound
<1> QED
  BY <1>1, <1>2, <1>3, PTL DEF Spec

\* sssp.c labels every vertex with its distance from the source, when ip_run keeps
\* to the superstep semantics.
THEOREM DistancesInSupersteps ==
  ASSUME RunsSSSP, ReceivesLeast PROVE Spec => []DistancesFound
<1>0. Runs("sssp")
  BY DEF Runs
<1>1. Init => (application = "sssp" => Labelling("sssp"))
  BY <1>0, LabellingInit
<1>2. (application = "sssp" => Labelling("sssp")) /\ [Next]_vars
        => (application = "sssp" => Labelling("sssp"))'
  BY <1>0, LabellingNext
<1>3. (application = "sssp" => Labelling("sssp")) => DistancesFound
  BY DistancesFinal DEF DistancesFound
<1> QED
  BY <1>1, <1>2, <1>3, PTL DEF Spec
==============================================================================
