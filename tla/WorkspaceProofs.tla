--------------------------- MODULE WorkspaceProofs ---------------------------
(***************************************************************************)
(* Proofs about the step graph, continue and the commands on a data root,  *)
(* for every graph the constructor lets pass, every number of processes    *)
(* and of profiles, and every order in which artifacts are made, decided   *)
(* and fall.                                                               *)
(***************************************************************************)
EXTENDS Workspace, FiniteSetTheorems, WellFoundedInduction, TLAPS

-----------------------------------------------------------------------------
(* Induction over a set of numbers, and functions defined by it.           *)

LEMMA LeastExists ==
    ASSUME NEW S \in SUBSET Nat, S # {}
    PROVE  \E m \in S : \A x \in S : m <= x
  <1>1. PICK m \in S : \A x \in S : <<x, m>> \notin OpToRel(<, Nat)
    BY WFMin, NatLessThanWellFounded, Zenon
  <1>2. \A x \in S : ~(x < m)
    BY <1>1, Zenon DEF OpToRel
  <1> QED
    BY <1>2

LEMMA MinIsLeast ==
    ASSUME NEW S \in SUBSET Nat, S # {}
    PROVE  Min(S) \in S /\ \A x \in S : Min(S) <= x
  BY LeastExists DEF Min

LEMMA UpTo ==
    ASSUME NEW N \in Nat, NEW S, 0 \in S, \A n \in 0..(N - 1) : n \in S => n + 1 \in S
    PROVE  0..N \subseteq S
  <1> SUFFICES ASSUME (0..N) \ S # {} PROVE FALSE
    OBVIOUS
  <1>1. PICK m \in (0..N) \ S : \A x \in (0..N) \ S : m <= x
    BY LeastExists, (0..N) \ S \subseteq Nat, Zenon
  <1>2. m # 0 /\ m - 1 \in 0..(N - 1)
    BY <1>1
  <1>3. m - 1 \in S
    BY <1>1, <1>2
  <1>4. (m - 1) + 1 \in S
    BY <1>2, <1>3
  <1> QED
    BY <1>1, <1>4

(* A function on 0..N is defined by its value at 0 and by what each number *)
(* makes of the value before.                                              *)
Recursion(f, N, V, a, next) ==
    f \in [0..N -> V] /\ f[0] = a /\ \A n \in 1..N : f[n] = next[n][f[n - 1]]

LEMMA DefinedByRecursion ==
    ASSUME NEW N \in Nat, NEW V, NEW a \in V, NEW next \in [1..N -> [V -> V]]
    PROVE  \E f : Recursion(f, N, V, a, next)
  <1> DEFINE Upto(k) == \E f \in [0..k -> V] : f[0] = a /\ \A n \in 1..k : f[n] = next[n][f[n - 1]]
             S == {k \in 0..N : Upto(k)}
  <1>1. 0 \in S
    <2> DEFINE f == [n \in 0..0 |-> a]
    <2>1. f \in [0..0 -> V] /\ f[0] = a /\ \A n \in 1..0 : f[n] = next[n][f[n - 1]]
      OBVIOUS
    <2> HIDE DEF f
    <2>2. Upto(0)
      BY <2>1
    <2> QED
      BY <2>2
  <1>2. ASSUME NEW k \in 0..(N - 1), k \in S PROVE k + 1 \in S
    <2>1. PICK f \in [0..k -> V] : f[0] = a /\ \A n \in 1..k : f[n] = next[n][f[n - 1]]
      BY <1>2
    <2> DEFINE g == [n \in 0..(k + 1) |-> IF n \in 0..k THEN f[n] ELSE next[k + 1][f[k]]]
    <2>2. next[k + 1][f[k]] \in V
      BY <2>1
    <2>3. g \in [0..(k + 1) -> V] /\ g[0] = a
      BY <2>1, <2>2
    <2>4. \A n \in 1..(k + 1) : g[n] = next[n][g[n - 1]]
      <3> TAKE n \in 1..(k + 1)
      <3>1. CASE n \in 1..k
        <4>1. g[n] = f[n] /\ g[n - 1] = f[n - 1]
          BY <3>1
        <4> QED
          BY <3>1, <4>1, <2>1
      <3>2. CASE n = k + 1
        <4>1. g[n] = next[k + 1][f[k]] /\ g[n - 1] = f[k]
          BY <3>2
        <4> QED
          BY <3>2, <4>1
      <3> QED
        BY <3>1, <3>2
    <2>5. Upto(k + 1)
      BY <2>3, <2>4
    <2>6. k + 1 \in 0..N
      OBVIOUS
    <2> QED
      BY <2>5, <2>6
  <1> HIDE DEF S
  <1>3. 0..N \subseteq S
    BY <1>1, <1>2, UpTo, Zenon
  <1>4. N \in S
    BY <1>3
  <1>5. Upto(N)
    BY <1>4 DEF S
  <1> QED
    BY <1>5 DEF Recursion

-----------------------------------------------------------------------------
(* A graph the constructor lets pass: each artifact has one producer.      *)

IsGraph(g) == g.steps \in Seq(StepType) /\ GraphOK(g)

LEMMA StepsOfGraph ==
    ASSUME NEW g, IsGraph(g)
    PROVE  /\ Len(g.steps) \in Nat
           /\ DOMAIN g.steps = 1..Len(g.steps)
           /\ \A i \in 1..Len(g.steps) : g.steps[i] \in StepsOf(g)
           /\ \A s \in StepsOf(g) : \E i \in 1..Len(g.steps) : s = g.steps[i]
           /\ StepsOf(g) \subseteq StepType
  BY DEF IsGraph, StepsOf, ToSet

LEMMA OneProducer ==
    ASSUME NEW g, IsGraph(g), NEW s \in StepsOf(g), NEW a \in s.produces
    PROVE  a \in Artifacts(g) /\ Producer(g, a) = s
  <1>1. a \in Artifacts(g)
    BY Zenon DEF Artifacts
  <1>2. PICK i \in 1..Len(g.steps) : s = g.steps[i]
    BY StepsOfGraph, Zenon
  <1>3. ASSUME NEW t \in StepsOf(g), a \in t.produces PROVE t = s
    <2>1. PICK j \in 1..Len(g.steps) : t = g.steps[j]
      BY StepsOfGraph, Zenon
    <2>2. i # j => g.steps[i].produces \cap g.steps[j].produces = {}
      BY StepsOfGraph, Zenon DEF IsGraph, GraphOK
    <2> QED
      BY <1>2, <1>3, <2>1, <2>2, Zenon
  <1> QED
    BY <1>1, <1>3, Zenon DEF Producer

LEMMA ProducerMakes ==
    ASSUME NEW g, IsGraph(g), NEW a \in Artifacts(g)
    PROVE  Producer(g, a) \in StepsOf(g) /\ a \in Producer(g, a).produces
  <1>1. PICK s \in StepsOf(g) : a \in s.produces
    BY Zenon DEF Artifacts
  <1> QED
    BY <1>1, OneProducer, Zenon

LEMMA RequiresArtifacts ==
    ASSUME NEW g, IsGraph(g), NEW s \in StepsOf(g)
    PROVE  s.requires \subseteq Artifacts(g)
  BY Zenon DEF IsGraph, GraphOK

LEMMA StepsFinite ==
    ASSUME NEW g, IsGraph(g)
    PROVE  IsFiniteSet(StepsOf(g)) /\ Cardinality(StepsOf(g)) <= Len(g.steps)
  <1>1. g.steps \in Surjection(1..Len(g.steps), StepsOf(g))
    BY StepsOfGraph DEF Surjection, IsGraph
  <1>2. IsFiniteSet(1..Len(g.steps)) /\ Cardinality(1..Len(g.steps)) = Len(g.steps)
    BY StepsOfGraph, FS_Interval
  <1> QED
    BY <1>1, <1>2, FS_Surjection

LEMMA ProducersAreSteps ==
    ASSUME NEW g, IsGraph(g), NEW S \in SUBSET StepsOf(g)
    PROVE  Producers(g, S) \subseteq StepsOf(g)
  BY ProducerMakes, RequiresArtifacts, Zenon DEF Producers

LEMMA ProducersGrow ==
    ASSUME NEW g, NEW S, NEW T, S \subseteq T
    PROVE  Producers(g, S) \subseteq Producers(g, T)
  BY Zenon DEF Producers

-----------------------------------------------------------------------------
(* Upstream: the recursion reaches a set that is closed under producers.   *)

LEMMA WithinDefined ==
    ASSUME NEW g, IsGraph(g), NEW t \in StepsOf(g)
    PROVE  /\ Within(g, t) \in [0..Len(g.steps) -> SUBSET StepsOf(g)]
           /\ Within(g, t)[0] = Producers(g, {t})
           /\ \A n \in 0..(Len(g.steps) - 1) :
                Within(g, t)[n + 1] = Within(g, t)[n] \cup Producers(g, Within(g, t)[n])
  <1> DEFINE N == Len(g.steps)
             V == SUBSET StepsOf(g)
             next == [n \in 1..N |-> [S \in V |-> S \cup Producers(g, S)]]
             Wanted(f) == [n \in 0..N |-> IF n = 0 THEN Producers(g, {t})
                                          ELSE f[n - 1] \cup Producers(g, f[n - 1])]
  <1>1. N \in Nat /\ Producers(g, {t}) \in V /\ next \in [1..N -> [V -> V]]
    BY StepsOfGraph, ProducersAreSteps
  <1>2. PICK f : Recursion(f, N, V, Producers(g, {t}), next)
    <2> HIDE DEF N, V, next
    <2> QED
      BY <1>1, DefinedByRecursion, Zenon
  <1>3. \A n \in 1..N : f[n] = f[n - 1] \cup Producers(g, f[n - 1])
    <2> TAKE n \in 1..N
    <2>1. n - 1 \in 0..N /\ f[n - 1] \in V
      BY <1>1, <1>2 DEF Recursion
    <2>2. next[n][f[n - 1]] = f[n - 1] \cup Producers(g, f[n - 1])
      BY <2>1
    <2> QED
      BY <1>2, <2>2 DEF Recursion
  <1>4. f = Wanted(f)
    BY <1>1, <1>2, <1>3 DEF Recursion
  <1>5. Within(g, t) = CHOOSE h : h = Wanted(h)
    BY Zenon DEF Within
  <1>6. Within(g, t) = Wanted(Within(g, t))
    BY <1>4, <1>5, Zenon
  <1> HIDE DEF N, V, next
  <1> DEFINE W == Within(g, t)
             S == {n \in 0..N : W[n] \in V}
  <1>7. /\ DOMAIN W = 0..N /\ W = [n \in 0..N |-> W[n]]
        /\ W[0] = Producers(g, {t})
        /\ \A n \in 1..N : W[n] = W[n - 1] \cup Producers(g, W[n - 1])
    <2> HIDE DEF W
    <2>1. W = Wanted(W)
      BY <1>6 DEF W
    <2>2. ASSUME NEW h, W = Wanted(h)
          PROVE  /\ DOMAIN W = 0..N /\ W = [n \in 0..N |-> W[n]]
                 /\ W[0] = Producers(g, {t})
                 /\ \A n \in 1..N : W[n] = h[n - 1] \cup Producers(g, h[n - 1])
      BY <1>1, <2>2
    <2> QED
      BY <2>1, <2>2, Zenon
  <1>8. 0 \in S
    BY <1>1, <1>7
  <1>9. \A n \in 0..(N - 1) : n \in S => n + 1 \in S
    <2> SUFFICES ASSUME NEW n \in 0..(N - 1), n \in S PROVE n + 1 \in S
      OBVIOUS
    <2>1. n + 1 \in 1..N /\ (n + 1) - 1 = n /\ n + 1 \in 0..N
      BY <1>1
    <2>2. W[n + 1] = W[n] \cup Producers(g, W[n])
      BY <1>7, <2>1
    <2>3. W[n] \in V /\ Producers(g, W[n]) \subseteq StepsOf(g)
      BY ProducersAreSteps DEF V
    <2> QED
      BY <2>1, <2>2, <2>3 DEF V
  <1> HIDE DEF W, S
  <1>10. 0..N \subseteq S
    BY <1>1, <1>8, <1>9, UpTo, Zenon
  <1>11. \A n \in 0..N : W[n] \in V
    BY <1>10 DEF S
  <1>12. W \in [0..N -> V]
    BY <1>7, <1>11
  <1>13. \A n \in 0..(N - 1) : W[n + 1] = W[n] \cup Producers(g, W[n])
    <2> TAKE n \in 0..(N - 1)
    <2>1. n + 1 \in 1..N /\ (n + 1) - 1 = n
      BY <1>1
    <2> QED
      BY <1>7, <2>1
  <1> QED
    BY <1>7, <1>12, <1>13 DEF W, N, V

LEMMA WithinGrows ==
    ASSUME NEW g, IsGraph(g), NEW t \in StepsOf(g), NEW n \in 0..Len(g.steps)
    PROVE  Within(g, t)[n] \subseteq Upstream(g, t)
  <1> DEFINE N == Len(g.steps)
             W == Within(g, t)
             S == {k \in 0..N : k >= n => W[n] \subseteq W[k]}
  <1>r. \A k \in 0..(N - 1) : W[k + 1] = W[k] \cup Producers(g, W[k])
    BY WithinDefined, Zenon
  <1>1. N \in Nat
    BY StepsOfGraph
  <1>2. 0 \in S
    BY <1>1
  <1>3. \A k \in 0..(N - 1) : k \in S => k + 1 \in S
    <2> SUFFICES ASSUME NEW k \in 0..(N - 1), k \in S PROVE k + 1 \in S
      OBVIOUS
    <2>1. k + 1 \in 1..N /\ (k + 1) - 1 = k /\ k + 1 \in 0..N
      BY <1>1
    <2>2. W[k + 1] = W[k] \cup Producers(g, W[k])
      BY <1>r
    <2>3. CASE k + 1 = n
      BY <2>1, <2>3
    <2>4. CASE k + 1 # n
      <3>1. k + 1 >= n => k >= n
        BY <2>4, <1>1
      <3> QED
        BY <2>1, <2>2, <3>1
    <2> QED
      BY <2>3, <2>4
  <1> HIDE DEF S, W, N
  <1>4. 0..N \subseteq S
    BY <1>1, <1>2, <1>3, UpTo, Zenon
  <1>5. N \in S /\ N >= n
    BY <1>1, <1>4 DEF N
  <1> QED
    BY <1>5 DEF S, W, N, Upstream

(* As long as it is not closed it grows, and there are only so many steps. *)
LEMMA UpstreamClosed ==
    ASSUME NEW g, IsGraph(g), NEW t \in StepsOf(g)
    PROVE  /\ Upstream(g, t) \subseteq StepsOf(g)
           /\ Producers(g, {t}) \subseteq Upstream(g, t)
           /\ Producers(g, Upstream(g, t)) \subseteq Upstream(g, t)
  <1> DEFINE N == Len(g.steps)
             W == Within(g, t)
             Closed(T) == Producers(g, T) \subseteq T
             S == {k \in 0..N : Closed(W[k]) \/ Cardinality(W[k]) >= k + 1}
  <1>r. \A k \in 0..(N - 1) : W[k + 1] = W[k] \cup Producers(g, W[k])
    BY WithinDefined, ZenonT(30)
  <1>1. N \in Nat
    BY StepsOfGraph
  <1>2. \A k \in 0..N : /\ W[k] \in SUBSET StepsOf(g) /\ IsFiniteSet(W[k])
                        /\ Cardinality(W[k]) \in Nat /\ Cardinality(W[k]) <= N
    <2> TAKE k \in 0..N
    <2>1. W[k] \in SUBSET StepsOf(g)
      BY WithinDefined
    <2>2. IsFiniteSet(W[k]) /\ Cardinality(W[k]) <= Cardinality(StepsOf(g))
      BY <2>1, StepsFinite, FS_Subset
    <2>3. Cardinality(W[k]) \in Nat /\ Cardinality(StepsOf(g)) \in Nat
      BY <2>2, StepsFinite, FS_CardinalityType
    <2> QED
      BY <1>1, <2>1, <2>2, <2>3, StepsFinite
  <1>3. 0 \in S
    <2>1. 0 \in 0..N
      BY <1>1
    <2>2. CASE W[0] = {}
      <3>1. Closed(W[0])
        BY <2>2, Zenon DEF Producers
      <3> QED
        BY <2>1, <3>1
    <2>3. CASE W[0] # {}
      <3>1. Cardinality(W[0]) # 0
        BY <2>1, <2>3, <1>2, FS_EmptySet, Zenon
      <3> HIDE DEF W
      <3>2. Cardinality(W[0]) >= 0 + 1
        BY <2>1, <3>1, <1>2
      <3> QED
        BY <2>1, <3>2
    <2> QED
      BY <2>2, <2>3
  <1>4. \A k \in 0..(N - 1) : k \in S => k + 1 \in S
    <2> SUFFICES ASSUME NEW k \in 0..(N - 1), k \in S PROVE k + 1 \in S
      OBVIOUS
    <2>1. k + 1 \in 1..N /\ (k + 1) - 1 = k /\ k + 1 \in 0..N /\ k \in 0..N
      BY <1>1
    <2>2. W[k + 1] = W[k] \cup Producers(g, W[k])
      BY <1>r
    <2>3. CASE Closed(W[k])
      <3>1. W[k + 1] = W[k]
        BY <2>2, <2>3
      <3>2. Closed(W[k + 1])
        BY <2>3, <3>1
      <3> QED
        BY <2>1, <3>2
    <2>4. CASE ~Closed(W[k])
      <3>1. Cardinality(W[k]) >= k + 1
        BY <2>4
      <3>2. W[k] \in SUBSET W[k + 1] /\ W[k] # W[k + 1]
        BY <2>2, <2>4
      <3>3. Cardinality(W[k]) <= Cardinality(W[k + 1]) /\ Cardinality(W[k + 1]) # Cardinality(W[k])
        BY <3>2, <2>1, <1>2, FS_Subset, Zenon
      <3> HIDE DEF W
      <3>4. Cardinality(W[k + 1]) >= (k + 1) + 1
        BY <3>1, <3>3, <2>1, <1>2
      <3> QED
        BY <2>1, <3>4
    <2> QED
      BY <2>3, <2>4
  <1> HIDE DEF S, N, W, Closed
  <1>5. 0..N \subseteq S
    BY <1>1, <1>3, <1>4, UpTo, Zenon
  <1>6. N \in S /\ N \in 0..N
    BY <1>1, <1>5
  <1>7. ~(Cardinality(W[N]) >= N + 1)
    BY <1>1, <1>2, <1>6
  <1>8. Closed(W[N])
    BY <1>6, <1>7 DEF S
  <1>9. Upstream(g, t) = W[N]
    BY DEF Upstream, W, N
  <1>10. Producers(g, {t}) \subseteq Upstream(g, t)
    <2>1. 0 \in 0..Len(g.steps)
      BY StepsOfGraph
    <2> QED
      BY <2>1, WithinGrows, WithinDefined, Zenon
  <1> QED
    BY <1>2, <1>6, <1>8, <1>9, <1>10 DEF Closed

LEMMA UpstreamOfProducer ==
    ASSUME NEW g, IsGraph(g), NEW t \in StepsOf(g), NEW s \in Producers(g, {t})
    PROVE  s \in StepsOf(g) /\ Upstream(g, s) \subseteq Upstream(g, t)
  <1> DEFINE N == Len(g.steps)
             W == Within(g, s)
             U == Upstream(g, t)
             S == {k \in 0..N : W[k] \subseteq U}
  <1>0. s \in StepsOf(g)
    BY ProducersAreSteps
  <1>r. \A k \in 0..(N - 1) : W[k + 1] = W[k] \cup Producers(g, W[k])
    BY <1>0, WithinDefined, ZenonT(30)
  <1>1. N \in Nat
    BY StepsOfGraph
  <1>2. 0 \in S
    <2>1. W[0] = Producers(g, {s})
      BY <1>0, WithinDefined, Zenon
    <2>2. {s} \subseteq U
      BY UpstreamClosed
    <2>3. Producers(g, {s}) \subseteq Producers(g, U)
      BY <2>2, ProducersGrow, Zenon
    <2>4. W[0] \subseteq U
      BY <2>1, <2>3, UpstreamClosed, Zenon
    <2> QED
      BY <1>1, <2>4
  <1>3. \A k \in 0..(N - 1) : k \in S => k + 1 \in S
    <2> SUFFICES ASSUME NEW k \in 0..(N - 1), k \in S PROVE k + 1 \in S
      OBVIOUS
    <2>1. k + 1 \in 1..N /\ (k + 1) - 1 = k /\ k + 1 \in 0..N
      BY <1>1
    <2>2. W[k + 1] = W[k] \cup Producers(g, W[k])
      BY <1>r
    <2>3. Producers(g, W[k]) \subseteq Producers(g, U)
      BY ProducersGrow, Zenon
    <2>4. Producers(g, U) \subseteq U
      BY UpstreamClosed
    <2> QED
      BY <2>1, <2>2, <2>3, <2>4
  <1> HIDE DEF S
  <1>4. 0..N \subseteq S
    BY <1>1, <1>2, <1>3, UpTo, Zenon
  <1>5. N \in S
    BY <1>1, <1>4
  <1> QED
    BY <1>0, <1>5, Zenon DEF S, Upstream

-----------------------------------------------------------------------------
(* Paths: what the search of check_egress_gates finds are the simple walks *)
(* from its source to its destination, all of them.                        *)

Walk(g, p) ==
    /\ p \in Seq(StepsOf(g)) /\ Len(p) >= 1
    /\ \A i \in 1..(Len(p) - 1) : Follows(p[i], p[i + 1])
    /\ \A i, j \in 1..Len(p) : i # j => p[i] # p[j]

LEMMA LongerAreSequences ==
    ASSUME NEW g, NEW S \in SUBSET Seq(StepsOf(g)), NEW dst
    PROVE  UNION {Longer(g, path) : path \in {q \in S : Last(q) # dst}} \in SUBSET Seq(StepsOf(g))
  BY DEF Longer

(* The paths one step longer than those of S.                              *)
Far(g, dst, S) == UNION {Longer(g, path) : path \in {q \in S : Last(q) # dst}}

LEMMA FarIs ==
    ASSUME NEW g, NEW dst, NEW S, NEW path
    PROVE  path \in Far(g, dst, S) <=> \E q \in S : Last(q) # dst /\ path \in Longer(g, q)
  BY Zenon DEF Far

LEMMA ReachDefined ==
    ASSUME NEW g, IsGraph(g), NEW src \in StepsOf(g), NEW dst
    PROVE  /\ Reach(g, src, dst) \in [0..Len(g.steps) -> SUBSET Seq(StepsOf(g))]
           /\ Reach(g, src, dst)[0] = {<<src>>}
           /\ \A n \in 0..(Len(g.steps) - 1) :
                Reach(g, src, dst)[n + 1] = Far(g, dst, Reach(g, src, dst)[n])
  <1> DEFINE N == Len(g.steps)
             V == SUBSET Seq(StepsOf(g))
             base == {<<src>>}
             next == [n \in 1..N |-> [S \in V |-> Far(g, dst, S)]]
  <1>0. \A S \in V : Far(g, dst, S) \in V
    BY LongerAreSequences DEF Far
  <1>1. N \in Nat /\ base \in V /\ next \in [1..N -> [V -> V]]
    <2>1. next \in [1..N -> [V -> V]]
      BY <1>0
    <2>2. base \in V
      OBVIOUS
    <2> QED
      BY <2>1, <2>2, StepsOfGraph
  <1> HIDE DEF base
  <1>2. PICK f : Recursion(f, N, V, base, next)
    <2> HIDE DEF N, V, next
    <2> QED
      BY <1>1, DefinedByRecursion, Zenon
  <1> DEFINE Wanted(h) == [n \in 0..N |-> IF n = 0 THEN base ELSE Far(g, dst, h[n - 1])]
  <1>3. \A n \in 1..N : f[n] = Far(g, dst, f[n - 1])
    <2> TAKE n \in 1..N
    <2>1. n - 1 \in 0..N /\ f[n - 1] \in V
      BY <1>1, <1>2 DEF Recursion
    <2>2. next[n][f[n - 1]] = Far(g, dst, f[n - 1])
      BY <2>1
    <2> QED
      BY <1>2, <2>2 DEF Recursion
  <1>4. f = Wanted(f)
    BY <1>1, <1>2, <1>3 DEF Recursion
  <1>5. Reach(g, src, dst) = CHOOSE h : h = Wanted(h)
    BY Zenon DEF Reach, Far, base
  <1>6. Reach(g, src, dst) = Wanted(Reach(g, src, dst))
    BY <1>4, <1>5, Zenon
  <1> HIDE DEF N, V, next
  <1> DEFINE W == Reach(g, src, dst)
             S == {n \in 0..N : W[n] \in V}
  <1>7. /\ DOMAIN W = 0..N /\ W = [n \in 0..N |-> W[n]]
        /\ W[0] = base
        /\ \A n \in 1..N : W[n] = Far(g, dst, W[n - 1])
    <2> HIDE DEF W
    <2>1. W = Wanted(W)
      BY <1>6 DEF W
    <2>2. ASSUME NEW h, W = Wanted(h)
          PROVE  /\ DOMAIN W = 0..N /\ W = [n \in 0..N |-> W[n]]
                 /\ W[0] = base
                 /\ \A n \in 1..N : W[n] = Far(g, dst, h[n - 1])
      BY <1>1, <2>2
    <2> QED
      BY <2>1, <2>2, Zenon
  <1>13. \A n \in 0..(N - 1) : W[n + 1] = Far(g, dst, W[n])
    <2> TAKE n \in 0..(N - 1)
    <2>1. n + 1 \in 1..N /\ (n + 1) - 1 = n
      BY <1>1
    <2> QED
      BY <1>7, <2>1
  <1> HIDE DEF W
  <1>8. 0 \in S
    BY <1>1, <1>7
  <1>9. \A n \in 0..(N - 1) : n \in S => n + 1 \in S
    <2> SUFFICES ASSUME NEW n \in 0..(N - 1), n \in S PROVE n + 1 \in S
      OBVIOUS
    <2>1. n + 1 \in 0..N
      BY <1>1
    <2> QED
      BY <1>0, <1>13, <2>1
  <1> HIDE DEF S
  <1>10. 0..N \subseteq S
    BY <1>1, <1>8, <1>9, UpTo, Zenon
  <1>11. W \in [0..N -> V]
    <2>1. \A n \in 0..N : W[n] \in V
      BY <1>10 DEF S
    <2> QED
      BY <1>7, <2>1
  <1> QED
    BY <1>7, <1>11, <1>13 DEF W, N, V, base

LEMMA ReachGrows ==
    ASSUME NEW g, IsGraph(g), NEW src \in StepsOf(g), NEW dst, NEW n \in 0..(Len(g.steps) - 1),
           NEW path \in Reach(g, src, dst)[n + 1]
    PROVE  \E q \in Reach(g, src, dst)[n] : path \in Longer(g, q)
  <1>1. Reach(g, src, dst)[n + 1] = Far(g, dst, Reach(g, src, dst)[n])
    BY ReachDefined
  <1> QED
    BY <1>1, FarIs

LEMMA PathIsWalk ==
    ASSUME NEW g, IsGraph(g), NEW src \in StepsOf(g), NEW dst, NEW p \in Paths(g, src, dst)
    PROVE  Walk(g, p) /\ p[1] = src /\ p[Len(p)] = dst
  <1> DEFINE N == Len(g.steps)
             R == Reach(g, src, dst)
             S == {n \in 0..N : \A q \in R[n] : Walk(g, q) /\ q[1] = src}
  <1>1. N \in Nat
    BY StepsOfGraph
  <1>2. 0 \in S
    <2>1. R[0] = {<<src>>}
      BY ReachDefined
    <2>2. Walk(g, <<src>>) /\ <<src>>[1] = src
      BY DEF Walk
    <2> QED
      BY <1>1, <2>1, <2>2
  <1>3. \A n \in 0..(N - 1) : n \in S => n + 1 \in S
    <2> SUFFICES ASSUME NEW n \in 0..(N - 1), n \in S, NEW q \in R[n + 1]
                 PROVE  Walk(g, q) /\ q[1] = src
      BY <1>1
    <2>1. PICK o \in R[n] : q \in Longer(g, o)
      BY <1>1, ReachGrows, Zenon
    <2>2. Walk(g, o) /\ o[1] = src
      OBVIOUS
    <2>3. PICK t \in StepsOf(g) : q = Append(o, t) /\ Follows(Last(o), t) /\ t \notin ToSet(o)
      BY <2>1, Zenon DEF Longer
    <2>4. o \in Seq(StepsOf(g)) /\ Len(o) \in Nat /\ Len(o) >= 1 /\ Last(o) = o[Len(o)]
      BY <2>2 DEF Walk, Last
    <2>5. /\ q \in Seq(StepsOf(g)) /\ Len(q) = Len(o) + 1 /\ q[Len(o) + 1] = t
          /\ \A i \in 1..Len(o) : q[i] = o[i]
      BY <2>3, <2>4
    <2>6. \A i \in 1..Len(o) : o[i] # t
      BY <2>3, <2>4 DEF ToSet
    <2>7. ASSUME NEW i \in 1..(Len(q) - 1) PROVE Follows(q[i], q[i + 1])
      <3>1. CASE i = Len(o)
        BY <2>3, <2>4, <2>5, <3>1
      <3>2. CASE i # Len(o)
        <4>1. i \in 1..(Len(o) - 1) /\ i \in 1..Len(o) /\ i + 1 \in 1..Len(o)
          BY <2>4, <2>5, <3>2
        <4> QED
          BY <2>2, <2>5, <4>1 DEF Walk
      <3> QED
        BY <3>1, <3>2
    <2>8. ASSUME NEW i \in 1..Len(q), NEW j \in 1..Len(q), i # j PROVE q[i] # q[j]
      <3>1. (i \in 1..Len(o) \/ i = Len(o) + 1) /\ (j \in 1..Len(o) \/ j = Len(o) + 1)
        BY <2>4, <2>5
      <3> QED
        BY <2>2, <2>5, <2>6, <2>8, <3>1 DEF Walk
    <2> QED
      BY <2>2, <2>4, <2>5, <2>7, <2>8 DEF Walk
  <1> HIDE DEF S, N, R
  <1>4. 0..N \subseteq S
    BY <1>1, <1>2, <1>3, UpTo, Zenon
  <1>5. PICK n \in 0..N : p \in R[n]
    BY Zenon DEF Paths, N, R
  <1>6. Walk(g, p) /\ p[1] = src
    BY <1>4, <1>5 DEF S
  <1>7. Last(p) = dst
    BY Zenon DEF Paths
  <1> QED
    BY <1>6, <1>7 DEF Last

LEMMA WalkIsPath ==
    ASSUME NEW g, IsGraph(g), NEW p, Walk(g, p)
    PROVE  p \in Paths(g, p[1], p[Len(p)])
  <1> DEFINE N == Len(g.steps)
             M == Len(p) - 1
             R == Reach(g, p[1], p[Len(p)])
             Begins(q, n) == q \in Seq(StepsOf(g)) /\ Len(q) = n /\ \A i \in 1..n : q[i] = p[i]
             S == {k \in 0..M : \E q \in R[k] : Begins(q, k + 1)}
  <1>1. N \in Nat /\ p \in Seq(StepsOf(g)) /\ M \in Nat /\ p[1] \in StepsOf(g) /\ Len(p) = M + 1
    BY StepsOfGraph DEF Walk
  <1>r. /\ R[0] = {<<p[1]>>}
        /\ \A n \in 0..(N - 1) :
            R[n + 1] = Far(g, p[Len(p)], R[n])
    <2>1. \A dst : /\ Reach(g, p[1], dst)[0] = {<<p[1]>>}
                   /\ \A n \in 0..(Len(g.steps) - 1) :
                        Reach(g, p[1], dst)[n + 1] = Far(g, dst, Reach(g, p[1], dst)[n])
      BY <1>1, ReachDefined
    <2> QED
      BY <2>1, Zenon
  <1>2. M <= N
    <2>1. p \in Injection(1..Len(p), StepsOf(g))
      BY <1>1 DEF Walk, Injection, IsInjective
    <2>2. Cardinality(1..Len(p)) <= Cardinality(StepsOf(g))
      BY <2>1, StepsFinite, FS_Injection
    <2>3. Cardinality(1..Len(p)) = Len(p)
      BY <1>1, FS_Interval
    <2>4. Cardinality(StepsOf(g)) \in Nat
      BY StepsFinite, FS_CardinalityType
    <2> QED
      BY <1>1, <2>2, <2>3, <2>4, StepsFinite
  <1> HIDE DEF M, N, R
  <1>3. 0 \in S
    <2> DEFINE q == <<p[1]>>
    <2>1. Begins(q, 0 + 1)
      BY <1>1
    <2>2. q \in R[0]
      BY <1>r
    <2> HIDE DEF q, Begins
    <2> QED
      BY <1>1, <2>1, <2>2
  <1>4. \A k \in 0..(M - 1) : k \in S => k + 1 \in S
    <2> SUFFICES ASSUME NEW k \in 0..(M - 1), k \in S PROVE k + 1 \in S
      OBVIOUS
    <2>0. PICK q \in R[k] : Begins(q, k + 1)
      OBVIOUS
    <2> DEFINE t == p[k + 2]
    <2>1. /\ k \in 0..(N - 1) /\ k + 1 \in 0..M /\ k + 1 \in 1..M
          /\ k + 1 \in 1..Len(p) /\ k + 2 \in 1..Len(p) /\ k + 1 # Len(p)
      BY <1>1, <1>2
    <2>2. t \in StepsOf(g)
      BY <1>1, <2>1
    <2>3. Last(q) = p[k + 1] /\ p[k + 1] # p[Len(p)]
      <3>1. Last(q) = p[k + 1]
        BY <2>0, <2>1 DEF Last
      <3>2. Len(p) \in 1..Len(p)
        BY <1>1
      <3> QED
        BY <2>1, <3>1, <3>2 DEF Walk
    <2>4. Follows(Last(q), t)
      <3>1. k + 1 \in 1..(Len(p) - 1) /\ (k + 1) + 1 = k + 2
        BY <1>1
      <3> QED
        BY <2>3, <3>1 DEF Walk
    <2>5. t \notin ToSet(q)
      <3>1. \A i \in 1..(k + 1) : i \in 1..Len(p) /\ i # k + 2
        BY <1>1, <2>1
      <3>2. \A i \in 1..(k + 1) : p[i] # t
        BY <2>1, <3>1 DEF Walk
      <3>3. DOMAIN q = 1..(k + 1)
        BY <2>0
      <3> HIDE DEF t
      <3> QED
        BY <2>0, <3>2, <3>3 DEF ToSet
    <2>6. Begins(Append(q, t), (k + 1) + 1)
      BY <2>0, <2>1, <2>2
    <2>7. Append(q, t) \in Longer(g, q)
      BY <2>2, <2>4, <2>5, Zenon DEF Longer
    <2>9. R[k + 1] = Far(g, p[Len(p)], R[k])
      BY <1>r, <2>1
    <2> HIDE DEF t, Begins
    <2>10. Append(q, t) \in R[k + 1]
      BY <2>0, <2>3, <2>7, <2>9, FarIs
    <2> QED
      BY <2>1, <2>6, <2>10
  <1> HIDE DEF S
  <1>5. 0..M \subseteq S
    BY <1>1, <1>3, <1>4, UpTo, Zenon
  <1>6. PICK q \in R[M] : Begins(q, M + 1)
    BY <1>1, <1>5 DEF S
  <1>7. q = p
    BY <1>1, <1>6
  <1>8. M \in 0..N /\ Last(p) = p[Len(p)]
    BY <1>1, <1>2 DEF Last
  <1> QED
    BY <1>6, <1>7, <1>8, Zenon DEF Paths, R, N

LEMMA WalkStartsUpstream ==
    ASSUME NEW g, IsGraph(g), NEW p, Walk(g, p)
    PROVE  p[1] \in Upstream(g, p[Len(p)]) \/ p[1] = p[Len(p)]
  <1> DEFINE M == Len(p) - 1
             U == Upstream(g, p[Len(p)])
             S == {k \in 0..M : p[Len(p) - k] \in U \cup {p[Len(p)]}}
  <1>1. p \in Seq(StepsOf(g)) /\ M \in Nat /\ Len(p) = M + 1 /\ p[Len(p)] \in StepsOf(g)
    BY DEF Walk
  <1>2. 0 \in S
    BY <1>1
  <1>3. \A k \in 0..(M - 1) : k \in S => k + 1 \in S
    <2> SUFFICES ASSUME NEW k \in 0..(M - 1), k \in S PROVE k + 1 \in S
      OBVIOUS
    <2> DEFINE i == Len(p) - (k + 1)
    <2>1. i \in 1..(Len(p) - 1) /\ i + 1 = Len(p) - k /\ i \in 1..Len(p) /\ k + 1 \in 0..M
      BY <1>1
    <2>2. PICK a \in p[i].produces : a \in p[i + 1].requires
      BY <2>1, Zenon DEF Walk, Follows
    <2>3. p[i] \in StepsOf(g)
      BY <1>1, <2>1
    <2>4. Producer(g, a) = p[i]
      BY <2>2, <2>3, OneProducer, Zenon
    <2>5. p[i] \in Producers(g, {p[i + 1]})
      BY <2>2, <2>4, Zenon DEF Producers
    <2>6. p[i + 1] \in U \cup {p[Len(p)]}
      BY <2>1
    <2>7. p[i] \in U
      <3>1. CASE p[i + 1] = p[Len(p)]
        BY <1>1, <2>5, <3>1, UpstreamClosed
      <3>2. CASE p[i + 1] \in U
        <4>1. Producers(g, {p[i + 1]}) \subseteq Producers(g, U)
          BY <3>2, ProducersGrow
        <4>2. Producers(g, U) \subseteq U
          BY <1>1, UpstreamClosed, Zenon
        <4> QED
          BY <2>5, <4>1, <4>2, Zenon
      <3> QED
        BY <2>6, <3>1, <3>2
    <2> QED
      BY <2>1, <2>7
  <1> HIDE DEF S
  <1>4. 0..M \subseteq S
    BY <1>1, <1>2, <1>3, UpTo
  <1>5. p[Len(p) - M] \in U \cup {p[Len(p)]}
    <2>1. M \in S
      BY <1>1, <1>4
    <2> QED
      BY <2>1 DEF S
  <1>6. Len(p) - M = 1
    BY <1>1
  <1> QED
    BY <1>5, <1>6

-----------------------------------------------------------------------------
(* What carries model output.  H is usable, R of it is raw: an artifact is *)
(* raw exactly if its producer makes it so of what it rests on, and then   *)
(* a walk without a gate leads to it from a model step.                    *)

Spreads(s, R) == s.kind = "model" \/ (~s.human_gate /\ s.requires \cap R # {})
Tainted(g, s) ==
    \E p : Walk(g, p) /\ Ungated(p) /\ p[1].kind = "model" /\ p[Len(p)] = s
RawSound(g, H, R) ==
    /\ R \subseteq H /\ H \subseteq Artifacts(g)
    /\ \A a \in H : /\ Producer(g, a).requires \subseteq H
                    /\ a \in R <=> Spreads(Producer(g, a), R)
    /\ \A a \in R : Tainted(g, Producer(g, a))
Resting(g, a) ==
    {a} \cup UNION {s.produces : s \in {s \in StepsOf(g) : Producer(g, a) \in Upstream(g, s)}}

LEMMA TaintBegins ==
    ASSUME NEW g, IsGraph(g), NEW s \in StepsOf(g), s.kind = "model"
    PROVE  Tainted(g, s)
  <1> DEFINE p == <<s>>
  <1>1. Walk(g, p) /\ Ungated(p) /\ p[1].kind = "model" /\ p[Len(p)] = s
    BY DEF Walk, Ungated
  <1> QED
    BY <1>1, Zenon DEF Tainted

(* A walk that meets the step already ends there; another is made longer.  *)
LEMMA TaintSpreads ==
    ASSUME NEW g, IsGraph(g), NEW t \in StepsOf(g), Tainted(g, t),
           NEW s \in StepsOf(g), ~s.human_gate, Follows(t, s)
    PROVE  Tainted(g, s)
  <1>1. PICK p : Walk(g, p) /\ Ungated(p) /\ p[1].kind = "model" /\ p[Len(p)] = t
    BY Zenon DEF Tainted
  <1>2. p \in Seq(StepsOf(g)) /\ Len(p) \in Nat /\ Len(p) >= 1
    BY <1>1 DEF Walk
  <1>3. CASE \E i \in 1..Len(p) : p[i] = s
    <2>1. PICK i \in 1..Len(p) : p[i] = s
      BY <1>3
    <2> DEFINE q == SubSeq(p, 1, i)
    <2>2. q \in Seq(StepsOf(g)) /\ Len(q) = i /\ \A j \in 1..i : q[j] = p[j]
      BY <1>2
    <2>3. i >= 1 /\ i <= Len(p) /\ i \in Nat
      BY <1>2
    <2> HIDE DEF q
    <2>4. \A j \in 1..(Len(q) - 1) : Follows(q[j], q[j + 1])
      <3> TAKE j \in 1..(Len(q) - 1)
      <3>1. j \in 1..(Len(p) - 1) /\ q[j] = p[j] /\ q[j + 1] = p[j + 1]
        BY <1>2, <2>2, <2>3
      <3> QED
        BY <1>1, <3>1 DEF Walk
    <2>5. \A j, k \in 1..Len(q) : j # k => q[j] # q[k]
      <3> TAKE j, k \in 1..Len(q)
      <3>1. j \in 1..Len(p) /\ k \in 1..Len(p) /\ q[j] = p[j] /\ q[k] = p[k]
        BY <1>2, <2>2, <2>3
      <3> QED
        BY <1>1, <3>1 DEF Walk
    <2>6. Ungated(q)
      BY <1>1, <1>2, <2>2, <2>3 DEF Ungated
    <2>7. q[1] = p[1] /\ q[Len(q)] = s
      BY <2>1, <2>2, <2>3
    <2>8. Walk(g, q)
      BY <2>2, <2>3, <2>4, <2>5 DEF Walk
    <2> QED
      BY <1>1, <2>6, <2>7, <2>8, Zenon DEF Tainted
  <1>4. CASE ~\E i \in 1..Len(p) : p[i] = s
    <2> DEFINE q == Append(p, s)
               n == Len(p)
    <2>2. /\ q \in Seq(StepsOf(g)) /\ Len(q) = n + 1 /\ q[n + 1] = s
          /\ \A j \in 1..n : q[j] = p[j]
      BY <1>2
    <2>3. n \in Nat /\ n >= 1
      BY <1>2
    <2> HIDE DEF q
    <2>4. \A j \in 1..(Len(q) - 1) : Follows(q[j], q[j + 1])
      <3> TAKE j \in 1..(Len(q) - 1)
      <3>1. CASE j = n
        BY <1>1, <2>2, <2>3, <3>1
      <3>2. CASE j # n
        <4>1. j \in 1..(n - 1) /\ q[j] = p[j] /\ q[j + 1] = p[j + 1]
          BY <2>2, <2>3, <3>2
        <4> QED
          BY <1>1, <4>1 DEF Walk
      <3> QED
        BY <3>1, <3>2
    <2>5. \A j, k \in 1..Len(q) : j # k => q[j] # q[k]
      <3> TAKE j, k \in 1..Len(q)
      <3>1. (j \in 1..n \/ j = n + 1) /\ (k \in 1..n \/ k = n + 1)
        BY <2>2, <2>3
      <3> QED
        BY <1>1, <1>4, <2>2, <3>1 DEF Walk
    <2>6. Ungated(q)
      <3> SUFFICES ASSUME NEW j \in 2..Len(q) PROVE ~q[j].human_gate
        BY DEF Ungated
      <3>1. j \in 2..n \/ j = n + 1
        BY <2>2, <2>3
      <3>2. j \in 2..n => j \in 1..n
        BY <2>3
      <3> QED
        BY <1>1, <2>2, <3>1, <3>2 DEF Ungated
    <2>7. q[1] = p[1] /\ q[Len(q)] = s
      BY <2>2, <2>3
    <2>8. Walk(g, q)
      BY <2>2, <2>3, <2>4, <2>5 DEF Walk
    <2> QED
      BY <1>1, <2>6, <2>7, <2>8, Zenon DEF Tainted
  <1> QED
    BY <1>3, <1>4

LEMMA ProduceRaw ==
    ASSUME NEW g, IsGraph(g), NEW H, NEW R, RawSound(g, H, R),
           NEW s \in StepsOf(g), s.requires \subseteq H
    PROVE  RawSound(g, H \cup s.produces,
                    (R \ s.produces) \cup (IF Spreads(s, R) THEN s.produces ELSE {}))
  <1> DEFINE H2 == H \cup s.produces
             R2 == (R \ s.produces) \cup (IF Spreads(s, R) THEN s.produces ELSE {})
  <1>1. s.produces \subseteq Artifacts(g) /\ \A a \in s.produces : Producer(g, a) = s
    BY OneProducer, Zenon
  <1>2. \A a \in H : a \in R2 <=> a \in R
    BY <1>1, Zenon DEF RawSound
  <1>3. \A a \in s.produces : a \in R2 <=> Spreads(s, R)
    OBVIOUS
  <1>4. R2 \subseteq H2 /\ H2 \subseteq Artifacts(g)
    BY <1>1 DEF RawSound
  <1> HIDE DEF R2
  <1>5. \A a \in H2 : Producer(g, a).requires \subseteq H
    BY <1>1, Zenon DEF RawSound
  <1>6. \A a \in H2 : Spreads(Producer(g, a), R2) <=> Spreads(Producer(g, a), R)
    <2> TAKE a \in H2
    <2>1. Producer(g, a).requires \cap R2 = Producer(g, a).requires \cap R
      BY <1>2, <1>5
    <2> QED
      BY <2>1, Zenon DEF Spreads
  <1>7. \A a \in H2 : a \in R2 <=> Spreads(Producer(g, a), R2)
    <2> TAKE a \in H2
    <2>1. CASE a \in s.produces
      BY <1>1, <1>3, <1>6, <2>1, Zenon
    <2>2. CASE a \in H
      <3>1. a \in R <=> Spreads(Producer(g, a), R)
        BY <2>2, Zenon DEF RawSound
      <3> QED
        BY <1>2, <1>6, <2>2, <3>1, Zenon
    <2> QED
      BY <2>1, <2>2
  <1>8. ASSUME NEW a \in R2 PROVE Tainted(g, Producer(g, a))
    <2>1. CASE a \in R
      BY <2>1, Zenon DEF RawSound
    <2>2. CASE a \notin R
      <3>1. a \in s.produces /\ Spreads(s, R)
        BY <1>2, <1>3, <1>4, <1>8, <2>2
      <3>2. Producer(g, a) = s
        BY <1>1, <3>1
      <3>3. CASE s.kind = "model"
        BY <3>2, <3>3, TaintBegins
      <3>4. CASE ~s.human_gate /\ s.requires \cap R # {}
        <4>1. PICK b \in R : b \in s.requires
          BY <3>4
        <4>2. b \in Artifacts(g) /\ Tainted(g, Producer(g, b))
          BY <4>1, Zenon DEF RawSound
        <4>3. Producer(g, b) \in StepsOf(g) /\ b \in Producer(g, b).produces
          BY <4>2, ProducerMakes
        <4>4. Follows(Producer(g, b), s)
          BY <4>1, <4>3 DEF Follows
        <4> QED
          BY <3>2, <3>4, <4>2, <4>3, <4>4, TaintSpreads, Zenon
      <3> QED
        BY <3>1, <3>3, <3>4, Zenon DEF Spreads
    <2> QED
      BY <2>1, <2>2
  <1>9. \A a \in H2 : Producer(g, a).requires \subseteq H2
    BY <1>5, Zenon
  <1>10. RawSound(g, H2, R2)
    <2> HIDE DEF H2
    <2> QED
      BY <1>4, <1>7, <1>8, <1>9, Zenon DEF RawSound
  <1> QED
    BY <1>10 DEF R2

LEMMA FallRaw ==
    ASSUME NEW g, IsGraph(g), NEW H, NEW R, RawSound(g, H, R), NEW a \in H
    PROVE  RawSound(g, H \ Resting(g, a), R \ Resting(g, a))
  <1> DEFINE F == Resting(g, a)
             H2 == H \ F
             R2 == R \ F
  <1>1. ASSUME NEW b \in H2, NEW c \in Producer(g, b).requires PROVE c \in H2
    <2> DEFINE t == Producer(g, b)
               s == Producer(g, c)
    <2>1. b \in H /\ c \in H /\ b \in Artifacts(g) /\ c \in Artifacts(g) /\ a \in Artifacts(g)
      BY Zenon DEF RawSound
    <2>2. t \in StepsOf(g) /\ b \in t.produces /\ s \in Producers(g, {t})
      BY <2>1, ProducerMakes, Zenon DEF Producers
    <2>3. Producer(g, a) \notin Upstream(g, t)
      BY <2>2, Zenon DEF Resting
    <2>4. c # a
      BY <2>2, <2>3, UpstreamClosed, Zenon
    <2>5. ASSUME NEW u \in StepsOf(g), Producer(g, a) \in Upstream(g, u), c \in u.produces
          PROVE  FALSE
      <3>1. u = s
        BY <2>5, OneProducer, Zenon
      <3> QED
        BY <2>2, <2>3, <2>5, <3>1, UpstreamOfProducer, Zenon
    <2>6. c \notin F
      BY <2>4, <2>5, Zenon DEF Resting
    <2> QED
      BY <2>1, <2>6
  <1>2. R2 \subseteq H2 /\ H2 \subseteq Artifacts(g)
    BY DEF RawSound
  <1>3. \A b \in H2 : b \in R2 <=> Spreads(Producer(g, b), R2)
    <2> TAKE b \in H2
    <2>1. Producer(g, b).requires \cap R2 = Producer(g, b).requires \cap R
      <3>1. Producer(g, b).requires \subseteq H2
        BY <1>1
      <3> QED
        BY <3>1
    <2>2. b \in R2 <=> b \in R
      OBVIOUS
    <2>3. b \in R <=> Spreads(Producer(g, b), R)
      BY Zenon DEF RawSound
    <2> QED
      BY <2>1, <2>2, <2>3, Zenon DEF Spreads
  <1>4. \A b \in R2 : Tainted(g, Producer(g, b))
    BY Zenon DEF RawSound
  <1> HIDE DEF H2, R2, F
  <1>5. RawSound(g, H2, R2)
    BY <1>1, <1>2, <1>3, <1>4, Zenon DEF RawSound
  <1> QED
    BY <1>5 DEF H2, R2, F

Leaving(g) == UNION {s.produces : s \in {s \in StepsOf(g) : s.leaves_system}}

LEMMA Violation ==
    ASSUME NEW g, NEW p
    PROVE  p \in EgressViolations(g) <=>
               \E e \in StepsOf(g) : /\ e.leaves_system
                                     /\ \E m \in Models(g, e) : p \in Paths(g, m, e) /\ Ungated(p)
  <1> DEFINE X(e) == {{path \in Paths(g, m, e) : Ungated(path)} : m \in Models(g, e)}
  <1>1. \A e : p \in UNION X(e) <=> \E m \in Models(g, e) : p \in Paths(g, m, e) /\ Ungated(p)
    OBVIOUS
  <1>2. EgressViolations(g) = UNION {UNION X(e) : e \in {e \in StepsOf(g) : e.leaves_system}}
    BY Zenon DEF EgressViolations
  <1> HIDE DEF X
  <1>3. p \in EgressViolations(g) <=> \E e \in StepsOf(g) : e.leaves_system /\ p \in UNION X(e)
    BY <1>2
  <1> QED
    BY <1>1, <1>3, Zenon

(* What check_egress_gates passes lets nothing out ...                     *)
LEMMA NothingOut ==
    ASSUME NEW g, IsGraph(g), NEW H, NEW R, RawSound(g, H, R), EgressViolations(g) = {}
    PROVE  Leaving(g) \cap R = {}
  <1> SUFFICES ASSUME NEW a \in R, a \in Leaving(g) PROVE FALSE
    OBVIOUS
  <1>1. PICK e \in StepsOf(g) : e.leaves_system /\ a \in e.produces
    BY Zenon DEF Leaving
  <1>2. Producer(g, a) = e
    BY <1>1, OneProducer
  <1>3. Tainted(g, e)
    BY <1>2, Zenon DEF RawSound
  <1>4. PICK p : Walk(g, p) /\ Ungated(p) /\ p[1].kind = "model" /\ p[Len(p)] = e
    BY <1>3, Zenon DEF Tainted
  <1>5. p[1] \in StepsOf(g)
    BY <1>4 DEF Walk
  <1>6. p[1] \in Models(g, e)
    BY <1>4, <1>5, WalkStartsUpstream, Zenon DEF Models
  <1>7. p \in Paths(g, p[1], e)
    BY <1>4, WalkIsPath, Zenon
  <1> QED
    BY <1>1, <1>4, <1>6, <1>7, Violation, Zenon

(* ... and what it objects to does, once everything was made.              *)
LEMMA SomethingOut ==
    ASSUME NEW g, IsGraph(g), NEW R, RawSound(g, Artifacts(g), R), EgressViolations(g) # {},
           \A s \in StepsOf(g) : s.leaves_system => s.produces # {}
    PROVE  Leaving(g) \cap R # {}
  <1>1. PICK e \in StepsOf(g) : e.leaves_system /\ \E m \in Models(g, e) : \E p \in Paths(g, m, e) : Ungated(p)
    BY Violation, Zenon
  <1>2. PICK m \in Models(g, e) : \E p \in Paths(g, m, e) : Ungated(p)
    BY <1>1
  <1>3. m \in StepsOf(g) /\ m.kind = "model"
    BY <1>2, Zenon DEF Models
  <1>4. PICK p \in Paths(g, m, e) : Ungated(p)
    BY <1>2
  <1>5. Walk(g, p) /\ p[1] = m /\ p[Len(p)] = e
    BY <1>3, <1>4, PathIsWalk
  <1>6. ASSUME NEW s \in StepsOf(g), Spreads(s, R) PROVE s.produces \subseteq R
    <2> SUFFICES ASSUME NEW a \in s.produces PROVE a \in R
      BY Zenon
    <2>1. a \in Artifacts(g) /\ Producer(g, a) = s
      BY OneProducer
    <2> QED
      BY <1>6, <2>1, Zenon DEF RawSound
  <1> DEFINE M == Len(p) - 1
             S == {k \in 0..M : p[k + 1].produces \subseteq R}
  <1>7. p \in Seq(StepsOf(g)) /\ M \in Nat /\ Len(p) = M + 1
    BY <1>5 DEF Walk
  <1>8. 0 \in S
    <2>1. m.produces \subseteq R
      BY <1>3, <1>6, Zenon DEF Spreads
    <2> QED
      BY <1>5, <1>7, <2>1
  <1>9. \A k \in 0..(M - 1) : k \in S => k + 1 \in S
    <2> SUFFICES ASSUME NEW k \in 0..(M - 1), k \in S PROVE k + 1 \in S
      OBVIOUS
    <2> DEFINE s == p[k + 1]
               t == p[(k + 1) + 1]
    <2>1. /\ k + 1 \in 1..(Len(p) - 1) /\ (k + 1) + 1 \in 2..Len(p) /\ k + 1 \in 0..M
          /\ (k + 1) + 1 \in 1..Len(p)
      BY <1>7
    <2>2. Follows(s, t) /\ t \in StepsOf(g)
      BY <1>5, <1>7, <2>1 DEF Walk
    <2>3. ~t.human_gate
      BY <1>4, <2>1 DEF Ungated
    <2>4. s.produces \subseteq R
      OBVIOUS
    <2>5. t.produces \subseteq R
      <3> HIDE DEF s, t
      <3>1. Spreads(t, R)
        BY <2>2, <2>3, <2>4 DEF Spreads, Follows
      <3> QED
        BY <2>2, <3>1, <1>6, Zenon
    <2> QED
      BY <2>1, <2>5
  <1> HIDE DEF S
  <1>10. 0..M \subseteq S
    BY <1>7, <1>8, <1>9, UpTo, Zenon
  <1>11. M \in S
    BY <1>7, <1>10
  <1>12. e.produces \subseteq R
    BY <1>5, <1>7, <1>11 DEF S
  <1>13. e.produces # {}
    BY <1>1
  <1> QED
    BY <1>1, <1>12, <1>13, Zenon DEF Leaving

-----------------------------------------------------------------------------
(* The order: every step comes once, behind what it needs.                 *)

Ordered(g, q) ==
    /\ q \in Seq(StepsOf(g))
    /\ \A i, j \in 1..Len(q) : i # j => q[i] # q[j]
    /\ \A i \in 1..Len(q) : \A a \in q[i].requires : \E j \in 1..(i - 1) : a \in q[j].produces

LEMMA AppendOrdered ==
    ASSUME NEW g, NEW q, Ordered(g, q), NEW s \in StepsOf(g), s \notin ToSet(q),
           s.requires \subseteq Done(q)
    PROVE  Ordered(g, Append(q, s))
  <1> DEFINE o == Append(q, s)
             n == Len(q)
  <1>1. q \in Seq(StepsOf(g)) /\ n \in Nat /\ DOMAIN q = 1..n
    BY DEF Ordered
  <1>2. o \in Seq(StepsOf(g)) /\ Len(o) = n + 1 /\ o[n + 1] = s /\ \A i \in 1..n : o[i] = q[i]
    BY <1>1
  <1> HIDE DEF o
  <1>3. \A i \in 1..n : q[i] # s
    BY <1>1 DEF ToSet
  <1>4. \A i, j \in 1..Len(o) : i # j => o[i] # o[j]
    <2> TAKE i, j \in 1..Len(o)
    <2>1. (i \in 1..n \/ i = n + 1) /\ (j \in 1..n \/ j = n + 1)
      BY <1>1, <1>2
    <2> QED
      BY <1>2, <1>3, <2>1 DEF Ordered
  <1>5. ASSUME NEW i \in 1..Len(o), NEW a \in o[i].requires
        PROVE  \E j \in 1..(i - 1) : a \in o[j].produces
    <2>1. CASE i \in 1..n
      <3>1. PICK j \in 1..(i - 1) : a \in q[j].produces
        BY <1>2, <1>5, <2>1 DEF Ordered
      <3>2. j \in 1..n
        BY <1>1, <2>1
      <3> QED
        BY <1>2, <3>1, <3>2
    <2>2. CASE i = n + 1
      <3>1. PICK t \in ToSet(q) : a \in t.produces
        BY <1>2, <1>5, <2>2, Zenon DEF Done
      <3>2. PICK j \in 1..n : t = q[j]
        BY <1>1, <3>1 DEF ToSet
      <3> QED
        BY <1>1, <1>2, <2>2, <3>1, <3>2
    <2> QED
      BY <1>1, <1>2, <2>1, <2>2
  <1>6. Ordered(g, o)
    BY <1>2, <1>4, <1>5 DEF Ordered
  <1> QED
    BY <1>6 DEF o

LEMMA TakeNextOrdered ==
    ASSUME NEW g, IsGraph(g), NEW q, Ordered(g, q)
    PROVE  Ordered(g, TakeNext(g, q))
  <1>1. ASSUME NEW i \in Ready(g, q) PROVE Ordered(g, Append(q, g.steps[i]))
    <2>1. g.steps[i] \in StepsOf(g) /\ g.steps[i] \notin ToSet(q) /\ g.steps[i].requires \subseteq Done(q)
      BY <1>1, StepsOfGraph DEF Ready
    <2> QED
      BY <2>1, AppendOrdered, Zenon
  <1>2. CASE Ready(g, q) = {}
    BY <1>2, Zenon DEF TakeNext
  <1>3. CASE Ready(g, q) # {}
    <2>1. Ready(g, q) \subseteq Nat /\ Behind(g, q) \subseteq Ready(g, q)
      BY StepsOfGraph DEF Ready, Behind
    <2>2. CASE q = << >> \/ Behind(g, q) = {}
      <3>1. Min(Ready(g, q)) \in Ready(g, q)
        BY <1>3, <2>1, MinIsLeast
      <3> QED
        BY <1>1, <1>3, <2>2, <3>1, Zenon DEF TakeNext
    <2>3. CASE ~(q = << >> \/ Behind(g, q) = {})
      <3>1. Min(Behind(g, q)) \in Behind(g, q)
        BY <2>1, <2>3, MinIsLeast
      <3> QED
        BY <1>1, <1>3, <2>1, <2>3, <3>1, Zenon DEF TakeNext
    <2> QED
      BY <2>2, <2>3
  <1> QED
    BY <1>2, <1>3

LEMMA TopologicalOrdered ==
    ASSUME NEW g, IsGraph(g)
    PROVE  Ordered(g, Topological(g))
  <1> DEFINE N == Len(g.steps)
             V == {q \in Seq(StepsOf(g)) : Ordered(g, q)}
             base == << >>
             next == [n \in 1..N |-> [q \in V |-> TakeNext(g, q)]]
  <1>0. \A q : q \in V <=> Ordered(g, q)
    BY Zenon DEF Ordered
  <1>1. N \in Nat /\ base \in V /\ next \in [1..N -> [V -> V]]
    <2>1. \A q \in V : TakeNext(g, q) \in V
      BY <1>0, TakeNextOrdered, Zenon
    <2>2. next \in [1..N -> [V -> V]]
      <3> HIDE DEF V
      <3> QED
        BY <2>1
    <2>3. base \in V
      BY DEF Ordered
    <2> QED
      BY <2>2, <2>3, StepsOfGraph
  <1> HIDE DEF base
  <1>2. PICK f : Recursion(f, N, V, base, next)
    <2> HIDE DEF N, V, next
    <2> QED
      BY <1>1, DefinedByRecursion, Zenon
  <1> HIDE DEF V
  <1> DEFINE Wanted(h) == [n \in 0..N |-> IF n = 0 THEN base ELSE TakeNext(g, h[n - 1])]
  <1>3. \A n \in 1..N : f[n] = TakeNext(g, f[n - 1])
    <2> TAKE n \in 1..N
    <2>1. n - 1 \in 0..N /\ f[n - 1] \in V
      BY <1>1, <1>2 DEF Recursion
    <2>2. next[n][f[n - 1]] = TakeNext(g, f[n - 1])
      BY <2>1
    <2> QED
      BY <1>2, <2>2 DEF Recursion
  <1>4. f = Wanted(f)
    BY <1>1, <1>2, <1>3 DEF Recursion
  <1>5. Passes(g) = CHOOSE h : h = Wanted(h)
    BY Zenon DEF Passes, base
  <1>6. Passes(g) = Wanted(Passes(g))
    BY <1>4, <1>5, Zenon
  <1> HIDE DEF N, next
  <1> DEFINE W == Passes(g)
             S == {n \in 0..N : W[n] \in V}
  <1>7. W[0] = base /\ \A n \in 1..N : W[n] = TakeNext(g, W[n - 1])
    <2> HIDE DEF W
    <2>1. W = Wanted(W)
      BY <1>6 DEF W
    <2>2. ASSUME NEW h, W = Wanted(h)
          PROVE  W[0] = base /\ \A n \in 1..N : W[n] = TakeNext(g, h[n - 1])
      BY <1>1, <2>2
    <2> QED
      BY <2>1, <2>2, Zenon
  <1> HIDE DEF W
  <1>8. 0 \in S
    BY <1>1, <1>7
  <1>9. \A n \in 0..(N - 1) : n \in S => n + 1 \in S
    <2> SUFFICES ASSUME NEW n \in 0..(N - 1), n \in S PROVE n + 1 \in S
      OBVIOUS
    <2>1. n + 1 \in 1..N /\ (n + 1) - 1 = n /\ n + 1 \in 0..N
      BY <1>1
    <2>2. W[n + 1] = TakeNext(g, W[n])
      BY <1>7, <2>1
    <2>3. TakeNext(g, W[n]) \in V
      BY <1>0, TakeNextOrdered, Zenon
    <2> QED
      BY <2>1, <2>2, <2>3
  <1> HIDE DEF S
  <1>10. 0..N \subseteq S
    BY <1>1, <1>8, <1>9, UpTo, Zenon
  <1>11. N \in S
    BY <1>1, <1>10
  <1> QED
    BY <1>0, <1>11, Zenon DEF S, W, N, Topological

-----------------------------------------------------------------------------
(* The plan: what it takes along and what it notes at a gate, step by step *)
(* of the order, said without the pass that computes it.                   *)

PlanType == [have : SUBSET STRING, steps : SUBSET STRING, gates : SUBSET STRING]

LEMMA NamesUnique ==
    ASSUME NEW g, IsGraph(g), NEW s \in StepsOf(g), NEW t \in StepsOf(g), s.name = t.name
    PROVE  s = t
  <1>1. PICK i \in 1..Len(g.steps) : s = g.steps[i]
    BY StepsOfGraph, Zenon
  <1>2. PICK j \in 1..Len(g.steps) : t = g.steps[j]
    BY StepsOfGraph, Zenon
  <1>3. i # j => g.steps[i].name # g.steps[j].name
    BY StepsOfGraph, Zenon DEF IsGraph, GraphOK
  <1> QED
    BY <1>1, <1>2, <1>3

LEMMA PlannedDefined ==
    ASSUME NEW g, IsGraph(g), NEW order \in Seq(StepsOf(g)), NEW h \in SUBSET STRING
    PROVE  /\ Planned(order, h) \in [0..Len(order) -> PlanType]
           /\ Planned(order, h)[0] = NothingPlanned(h)
           /\ \A n \in 0..(Len(order) - 1) :
                Planned(order, h)[n + 1] = Consider(Planned(order, h)[n], order[n + 1])
  <1> DEFINE N == Len(order)
             V == PlanType
             base == NothingPlanned(h)
             next == [n \in 1..N |-> [p \in V |-> Consider(p, order[n])]]
  <1>0. ASSUME NEW n \in 1..N, NEW p \in V PROVE Consider(p, order[n]) \in V
    <2>1. order[n] \in StepType
      BY StepsOfGraph
    <2> QED
      BY <1>0, <2>1 DEF Consider, PlanType, StepType
  <1>1. N \in Nat /\ base \in V /\ next \in [1..N -> [V -> V]]
    <2>1. next \in [1..N -> [V -> V]]
      <3> HIDE DEF V, N
      <3> QED
        BY <1>0
    <2>2. base \in V
      BY DEF NothingPlanned, PlanType
    <2> QED
      BY <2>1, <2>2
  <1> HIDE DEF base
  <1>2. PICK f : Recursion(f, N, V, base, next)
    <2> HIDE DEF N, V, next
    <2> QED
      BY <1>1, DefinedByRecursion, Zenon
  <1> HIDE DEF V
  <1> DEFINE Wanted(k) == [n \in 0..N |-> IF n = 0 THEN base ELSE Consider(k[n - 1], order[n])]
  <1>3. \A n \in 1..N : f[n] = Consider(f[n - 1], order[n])
    <2> TAKE n \in 1..N
    <2>1. n - 1 \in 0..N /\ f[n - 1] \in V
      BY <1>1, <1>2 DEF Recursion
    <2>2. next[n][f[n - 1]] = Consider(f[n - 1], order[n])
      BY <2>1
    <2> QED
      BY <1>2, <2>2 DEF Recursion
  <1>4. f = Wanted(f)
    BY <1>1, <1>2, <1>3 DEF Recursion
  <1>5. Planned(order, h) = CHOOSE k : k = Wanted(k)
    BY Zenon DEF Planned, base
  <1>6. Planned(order, h) = Wanted(Planned(order, h))
    BY <1>4, <1>5, Zenon
  <1> HIDE DEF N, next
  <1> DEFINE W == Planned(order, h)
             S == {n \in 0..N : W[n] \in V}
  <1>7. /\ DOMAIN W = 0..N /\ W = [n \in 0..N |-> W[n]]
        /\ W[0] = base /\ \A n \in 1..N : W[n] = Consider(W[n - 1], order[n])
    <2> HIDE DEF W
    <2>1. W = Wanted(W)
      BY <1>6 DEF W
    <2>2. ASSUME NEW k, W = Wanted(k)
          PROVE  /\ DOMAIN W = 0..N /\ W = [n \in 0..N |-> W[n]]
                 /\ W[0] = base /\ \A n \in 1..N : W[n] = Consider(k[n - 1], order[n])
      BY <1>1, <2>2
    <2> QED
      BY <2>1, <2>2, Zenon
  <1> HIDE DEF W
  <1>8. 0 \in S
    BY <1>1, <1>7
  <1>13. \A n \in 0..(N - 1) : W[n + 1] = Consider(W[n], order[n + 1])
    <2> TAKE n \in 0..(N - 1)
    <2>1. n + 1 \in 1..N /\ (n + 1) - 1 = n
      BY <1>1
    <2> QED
      BY <1>7, <2>1
  <1>9. \A n \in 0..(N - 1) : n \in S => n + 1 \in S
    <2> SUFFICES ASSUME NEW n \in 0..(N - 1), n \in S PROVE n + 1 \in S
      OBVIOUS
    <2>1. n + 1 \in 1..N /\ n + 1 \in 0..N
      BY <1>1
    <2>2. Consider(W[n], order[n + 1]) \in V
      BY <1>0, <2>1
    <2> QED
      BY <1>13, <2>1, <2>2
  <1> HIDE DEF S
  <1>10. 0..N \subseteq S
    BY <1>1, <1>8, <1>9, UpTo, Zenon
  <1>11. W \in [0..N -> V]
    <2>1. \A n \in 0..N : W[n] \in V
      BY <1>10 DEF S
    <2> QED
      BY <1>7, <2>1
  <1> QED
    BY <1>7, <1>11, <1>13 DEF W, N, V, base

(* P is the plan for h of the first n steps of the order.                  *)
PlansFor(P, order, h, n) ==
    /\ P \in PlanType
    /\ P.have = h \cup UNION {order[i].produces : i \in {i \in 1..n : order[i].name \in P.steps}}
    /\ P.steps \cup P.gates \subseteq {order[i].name : i \in 1..n}
    /\ \A i \in 1..n :
         LET todo == ~(order[i].produces \subseteq h) /\ order[i].requires \subseteq P.have
         IN  /\ order[i].name \in P.steps <=> todo /\ ~order[i].human_gate
             /\ order[i].name \in P.gates <=> todo /\ order[i].human_gate

LEMMA ApartInOrder ==
    ASSUME NEW g, IsGraph(g), NEW order, Ordered(g, order),
           NEW i \in 1..Len(order), NEW j \in 1..Len(order), i # j
    PROVE  /\ order[i].name # order[j].name
           /\ order[i].produces \cap order[j].produces = {}
  <1>1. order[i] \in StepsOf(g) /\ order[j] \in StepsOf(g) /\ order[i] # order[j]
    BY DEF Ordered
  <1>2. order[i].name # order[j].name
    BY <1>1, NamesUnique
  <1>3. ASSUME NEW a \in order[i].produces, a \in order[j].produces PROVE FALSE
    <2>1. Producer(g, a) = order[i]
      BY <1>1, OneProducer
    <2>2. Producer(g, a) = order[j]
      BY <1>1, <1>3, OneProducer
    <2> QED
      BY <1>1, <2>1, <2>2
  <1> QED
    BY <1>2, <1>3

LEMMA ConsiderPlans ==
    ASSUME NEW g, IsGraph(g), NEW order, Ordered(g, order), NEW h \in SUBSET STRING,
           NEW n \in 0..(Len(order) - 1), NEW P, PlansFor(P, order, h, n)
    PROVE  PlansFor(Consider(P, order[n + 1]), order, h, n + 1)
  <1> DEFINE s == order[n + 1]
             Q == Consider(P, order[n + 1])
             m == n + 1
             Made(X, k) == UNION {order[i].produces : i \in {i \in 1..k : order[i].name \in X}}
  <1>1. /\ order \in Seq(StepsOf(g)) /\ n \in Nat /\ m \in 1..Len(order)
        /\ \A i \in 1..n : i \in 1..Len(order) /\ i # m /\ i \in 1..m
        /\ \A i \in 1..m : i \in 1..n \/ i = m
        /\ m \in 1..m /\ s \in StepType
    <2>1. order \in Seq(StepsOf(g))
      BY DEF Ordered
    <2>2. m \in 1..Len(order)
      BY <2>1
    <2>3. s \in StepType
      BY <2>1, <2>2, StepsOfGraph
    <2> QED
      BY <2>1, <2>2, <2>3
  <1>2. P \in PlanType
    BY DEF PlansFor
  <1>3. \A i \in 1..n : order[i].name # s.name /\ order[i].produces \cap s.produces = {}
    BY <1>1, ApartInOrder
  <1>4. \A i \in 1..m : order[i].requires \cap s.produces = {}
    <2> SUFFICES ASSUME NEW i \in 1..m, NEW a \in order[i].requires, a \in s.produces PROVE FALSE
      OBVIOUS
    <2>1. i \in 1..Len(order)
      BY <1>1
    <2>2. PICK j \in 1..(i - 1) : a \in order[j].produces
      BY <2>1 DEF Ordered
    <2>3. j \in 1..n
      BY <1>1, <2>1
    <2> QED
      BY <1>3, <2>2, <2>3
  <1>5. s.name \notin P.steps /\ s.name \notin P.gates
    BY <1>3 DEF PlansFor
  <1>6. s.produces \subseteq P.have <=> s.produces \subseteq h
    <2>1. P.have = h \cup Made(P.steps, n)
      BY DEF PlansFor
    <2>2. s.produces \cap Made(P.steps, n) = {}
      BY <1>3
    <2> QED
      BY <2>1, <2>2
  <1> DEFINE todo == ~(s.produces \subseteq h) /\ s.requires \subseteq P.have
  <1> HIDE DEF s, m
  <1>7. /\ todo /\ ~s.human_gate => Q = [P EXCEPT !.steps = @ \cup {s.name}, !.have = @ \cup s.produces]
        /\ todo /\ s.human_gate => Q = [P EXCEPT !.gates = @ \cup {s.name}]
        /\ ~todo => Q = P
    BY <1>6, Zenon DEF Consider, s
  <1>8. /\ Q \in PlanType
        /\ Q.steps = P.steps \cup (IF todo /\ ~s.human_gate THEN {s.name} ELSE {})
        /\ Q.have = P.have \cup (IF todo /\ ~s.human_gate THEN s.produces ELSE {})
        /\ Q.gates = P.gates \cup (IF todo /\ s.human_gate THEN {s.name} ELSE {})
    <2>1. s.name \in STRING /\ s.produces \in SUBSET STRING
      BY <1>1 DEF StepType
    <2> HIDE DEF Q, todo
    <2>2. CASE todo /\ ~s.human_gate
      BY <1>2, <1>7, <2>1, <2>2 DEF PlanType
    <2>3. CASE todo /\ s.human_gate
      BY <1>2, <1>7, <2>1, <2>3 DEF PlanType
    <2>4. CASE ~todo
      BY <1>2, <1>7, <2>1, <2>4 DEF PlanType
    <2> QED
      BY <2>2, <2>3, <2>4
  <1> HIDE DEF Q
  <1>9. Q.have = h \cup Made(Q.steps, m)
    <2>1. P.have = h \cup Made(P.steps, n)
      BY DEF PlansFor
    <2>2. ASSUME NEW x PROVE x \in Made(Q.steps, m) <=>
             x \in Made(P.steps, n) \/ (s.name \in Q.steps /\ x \in s.produces)
      <3>1. \A i \in 1..n : order[i].name \in Q.steps <=> order[i].name \in P.steps
        BY <1>3, <1>8
      <3>2. order[m] = s
        BY DEF s, m
      <3> QED
        BY <1>1, <3>1, <3>2
    <2>3. s.name \in Q.steps <=> todo /\ ~s.human_gate
      BY <1>5, <1>8
    <2> HIDE DEF Made, todo
    <2> QED
      BY <1>8, <2>1, <2>2, <2>3
  <1>10. Q.steps \cup Q.gates \subseteq {order[i].name : i \in 1..m}
    <2>1. P.steps \cup P.gates \subseteq {order[i].name : i \in 1..n}
      BY DEF PlansFor
    <2>2. order[m] = s
      BY DEF s, m
    <2> HIDE DEF todo
    <2>3. \A x \in Q.steps \cup Q.gates : x \in P.steps \cup P.gates \/ x = s.name
      BY <1>8
    <2> QED
      BY <1>1, <2>1, <2>2, <2>3
  <1>11. ASSUME NEW i \in 1..m
         PROVE  LET due == ~(order[i].produces \subseteq h) /\ order[i].requires \subseteq Q.have
                IN  /\ order[i].name \in Q.steps <=> due /\ ~order[i].human_gate
                    /\ order[i].name \in Q.gates <=> due /\ order[i].human_gate
    <2>1. order[i].requires \subseteq Q.have <=> order[i].requires \subseteq P.have
      <3> HIDE DEF todo
      <3> QED
        BY <1>4, <1>8
    <2>2. CASE i = m
      <3>1. order[i] = s
        BY <2>2 DEF s, m
      <3> HIDE DEF s, m
      <3> QED
        BY <1>5, <1>8, <2>1, <3>1
    <2>3. CASE i \in 1..n
      <3>1. /\ order[i].name \in Q.steps <=> order[i].name \in P.steps
            /\ order[i].name \in Q.gates <=> order[i].name \in P.gates
        <4> HIDE DEF todo
        <4> QED
          BY <1>3, <1>8, <2>3
      <3> HIDE DEF todo
      <3> QED
        BY <2>1, <2>3, <3>1, Zenon DEF PlansFor
    <2> QED
      BY <1>1, <2>2, <2>3
  <1>12. PlansFor(Q, order, h, m)
    BY <1>8, <1>9, <1>10, <1>11, Zenon DEF PlansFor
  <1> QED
    BY <1>12 DEF Q, m

LEMMA PlanPlans ==
    ASSUME NEW g, IsGraph(g), NEW order, Ordered(g, order), NEW h \in SUBSET STRING
    PROVE  PlansFor(PlanOf(order, h), order, h, Len(order))
  <1> DEFINE N == Len(order)
             W == Planned(order, h)
             S == {n \in 0..N : PlansFor(W[n], order, h, n)}
  <1>1. N \in Nat /\ order \in Seq(StepsOf(g))
    BY DEF Ordered
  <1>2. 0 \in S
    <2>1. W[0] = NothingPlanned(h)
      BY <1>1, PlannedDefined, Zenon
    <2>2. PlansFor(NothingPlanned(h), order, h, 0)
      BY DEF NothingPlanned, PlansFor, PlanType
    <2> QED
      BY <1>1, <2>1, <2>2
  <1>r. \A n \in 0..(N - 1) : W[n + 1] = Consider(W[n], order[n + 1])
    BY <1>1, PlannedDefined, Zenon
  <1>3. \A n \in 0..(N - 1) : n \in S => n + 1 \in S
    <2> SUFFICES ASSUME NEW n \in 0..(N - 1), n \in S PROVE n + 1 \in S
      OBVIOUS
    <2>1. PlansFor(Consider(W[n], order[n + 1]), order, h, n + 1)
      <3>1. PlansFor(W[n], order, h, n)
        OBVIOUS
      <3> QED
        BY <3>1, ConsiderPlans, Zenon
    <2> QED
      BY <1>1, <1>r, <2>1
  <1> HIDE DEF S
  <1>4. 0..N \subseteq S
    BY <1>1, <1>2, <1>3, UpTo, Zenon
  <1>5. N \in S
    BY <1>1, <1>4
  <1> QED
    BY <1>5, Zenon DEF S, N, W, PlanOf

-----------------------------------------------------------------------------
(* The graphs of the source, step by step.                                 *)

Block(profile) == IF profile = "manual" THEN ManualBlock ELSE ModelBlock
OfBlocks == {"pii.spans", "transcript.pseudonymised.draft", "transcript.pseudonymised.final",
             "transcript.pseudonymised.confirmed", "replacement.report", "pseudonymisation.cases"}
OfSource == {"transcript.revision", "transcript.confirmed"}
Reviewed == "transcript.pseudonymised.confirmed"

LEMMA DefaultBehind ==
    ASSUME NEW i \in 3..16
    PROVE  /\ DefaultSteps[i].requires \cap (OfSource \cup OfBlocks) \subseteq {"transcript.confirmed"}
           /\ DefaultSteps[i].produces \cap (OfSource \cup OfBlocks) = {}
           /\ DefaultSteps[i].name # "ingest"
           /\ \E n, k, r, p : DefaultSteps[i] = Step(n, k, r, p)
  <1>1. \/ i = 3 \/ i = 4 \/ i = 5 \/ i = 6 \/ i = 7 \/ i = 8 \/ i = 9
        \/ i = 10 \/ i = 11 \/ i = 12 \/ i = 13 \/ i = 14 \/ i = 15 \/ i = 16
    OBVIOUS
  <1>2. DefaultSteps[i].requires \cap (OfSource \cup OfBlocks) \subseteq {"transcript.confirmed"}
    BY <1>1 DEF DefaultSteps, Step, Ingest, TranscriptConfirm, Confirms, OfSource, OfBlocks
  <1>3. DefaultSteps[i].produces \cap (OfSource \cup OfBlocks) = {}
    BY <1>1 DEF DefaultSteps, Step, Ingest, TranscriptConfirm, Confirms, OfSource, OfBlocks
  <1>4. DefaultSteps[i].name # "ingest"
    BY <1>1 DEF DefaultSteps, Step, Ingest, TranscriptConfirm, Confirms
  <1>5. \E n, k, r, p : DefaultSteps[i] = Step(n, k, r, p)
    BY <1>1 DEF DefaultSteps
  <1> QED
    BY <1>2, <1>3, <1>4, <1>5

LEMMA BlockSteps ==
    ASSUME NEW profile, NEW s \in ToSet(Block(profile))
    PROVE  /\ s.produces \subseteq OfBlocks
           /\ Reviewed \in s.produces => s.name = "pseudonymisation.review"
  <1>1. CASE profile = "manual"
    <2>1. DOMAIN ManualBlock = 1..5
      BY DEF ManualBlock
    <2>2. PICK i \in 1..5 : s = ManualBlock[i]
      BY <1>1, <2>1 DEF ToSet, Block
    <2>3. i = 1 \/ i = 2 \/ i = 3 \/ i = 4 \/ i = 5
      OBVIOUS
    <2>4. /\ ManualBlock[1].produces = {"pii.spans"}
          /\ ManualBlock[2].produces = {"transcript.pseudonymised.draft"}
          /\ ManualBlock[3].produces = {"pseudonymisation.cases"}
          /\ ManualBlock[4].produces = {"transcript.pseudonymised.final", "replacement.report"}
          /\ ManualBlock[5].produces = {"transcript.pseudonymised.confirmed"}
          /\ ManualBlock[5].name = "pseudonymisation.review"
      BY DEF ManualBlock, Step, Confirms, Reads
    <2> QED
      BY <2>2, <2>3, <2>4 DEF OfBlocks, Reviewed
  <1>2. CASE profile # "manual"
    <2>1. DOMAIN ModelBlock = 1..3
      BY DEF ModelBlock
    <2>2. PICK i \in 1..3 : s = ModelBlock[i]
      BY <1>2, <2>1 DEF ToSet, Block
    <2>3. i = 1 \/ i = 2 \/ i = 3
      OBVIOUS
    <2>4. s.produces \subseteq OfBlocks
      BY <2>2, <2>3 DEF ModelBlock, Step, Confirms, OfBlocks
    <2>5. Reviewed \in s.produces => s.name = "pseudonymisation.review"
      BY <2>2, <2>3 DEF ModelBlock, Step, Confirms, Reviewed
    <2> QED
      BY <2>4, <2>5
  <1> QED
    BY <1>1, <1>2

LEMMA ToSetConcat ==
    ASSUME NEW T, NEW a \in Seq(T), NEW b \in Seq(T)
    PROVE  a \o b \in Seq(T) /\ ToSet(a \o b) = ToSet(a) \cup ToSet(b)
  <1>1. /\ a \o b \in Seq(T) /\ Len(a \o b) = Len(a) + Len(b)
        /\ \A i \in 1..Len(a) : (a \o b)[i] = a[i]
        /\ \A i \in 1..Len(b) : (a \o b)[i + Len(a)] = b[i]
        /\ Len(a) \in Nat /\ Len(b) \in Nat
        /\ DOMAIN a = 1..Len(a) /\ DOMAIN b = 1..Len(b) /\ DOMAIN (a \o b) = 1..(Len(a) + Len(b))
    OBVIOUS
  <1>2. ASSUME NEW x \in ToSet(a \o b) PROVE x \in ToSet(a) \cup ToSet(b)
    <2>1. PICK i \in 1..(Len(a) + Len(b)) : x = (a \o b)[i]
      BY <1>1, <1>2 DEF ToSet
    <2>2. CASE i \in 1..Len(a)
      BY <1>1, <2>1, <2>2 DEF ToSet
    <2>3. CASE i \notin 1..Len(a)
      <3>1. i - Len(a) \in 1..Len(b) /\ (i - Len(a)) + Len(a) = i
        BY <1>1, <2>3
      <3> QED
        BY <1>1, <2>1, <3>1 DEF ToSet
    <2> QED
      BY <2>2, <2>3
  <1>3. ASSUME NEW x \in ToSet(a) PROVE x \in ToSet(a \o b)
    BY <1>1, <1>3 DEF ToSet
  <1>4. ASSUME NEW x \in ToSet(b) PROVE x \in ToSet(a \o b)
    <2>1. PICK i \in 1..Len(b) : x = b[i]
      BY <1>1, <1>4 DEF ToSet
    <2>2. i + Len(a) \in 1..(Len(a) + Len(b))
      BY <1>1
    <2> QED
      BY <1>1, <2>1, <2>2 DEF ToSet
  <1> QED
    BY <1>1, <1>2, <1>3, <1>4

LEMMA BuiltSteps ==
    ASSUME NEW profile, profile # "sandbox"
    PROVE  /\ \A s \in StepsOf(BuildGraph(profile)) :
                \/ s \in {Ingest, TranscriptConfirm} \/ s \in ToSet(Block(profile))
                \/ \E i \in 3..16 : s = Rewired(DefaultSteps[i], Block(profile), profile = "manual")
           /\ ToSet(Block(profile)) \subseteq StepsOf(BuildGraph(profile))
           /\ \A i \in 3..16 : Rewired(DefaultSteps[i], Block(profile), profile = "manual")
                                   \in StepsOf(BuildGraph(profile))
           /\ BuildGraph(profile).profile = profile
  <1> DEFINE block == Block(profile)
             rest == SubSeq(DefaultSteps, 3, Len(DefaultSteps))
             rewired == [i \in DOMAIN rest |-> Rewired(rest[i], block, profile = "manual")]
             head == <<Ingest, TranscriptConfirm>>
             n == Len(block)
             g == BuildGraph(profile)
  <1>1. Len(DefaultSteps) = 16 /\ DefaultSteps \in Seq({DefaultSteps[i] : i \in 1..16})
    BY DEF DefaultSteps
  <1>2. DOMAIN rest = 1..14 /\ \A i \in 1..14 : rest[i] = DefaultSteps[i + 2]
    BY <1>1
  <1>3. /\ rewired = [i \in 1..14 |-> Rewired(DefaultSteps[i + 2], block, profile = "manual")]
    BY <1>2
  <1>4. block \in Seq(ToSet(block)) /\ n \in Nat /\ DOMAIN block = 1..n
    <2>1. CASE profile = "manual"
      <3>1. \E a, b, c, d, e : ManualBlock = <<a, b, c, d, e>>
        BY Zenon DEF ManualBlock
      <3>2. block = ManualBlock
        BY <2>1 DEF Block
      <3> QED
        BY <3>1, <3>2 DEF ToSet
    <2>2. CASE profile # "manual"
      <3>1. \E a, b, c : ModelBlock = <<a, b, c>>
        BY Zenon DEF ModelBlock
      <3>2. block = ModelBlock
        BY <2>2 DEF Block
      <3> QED
        BY <3>1, <3>2 DEF ToSet
    <2> QED
      BY <2>1, <2>2
  <1>5. g.steps = head \o block \o rewired /\ g.profile = profile
    BY Zenon DEF BuildGraph, Graph, Block
  <1> HIDE DEF block, rest
  <1> DEFINE T == {head[i] : i \in 1..2} \cup ToSet(block) \cup {rewired[i] : i \in 1..14}
  <1>6. head \in Seq(T) /\ block \in Seq(T) /\ rewired \in Seq(T)
    <2>1. head \in Seq(T)
      OBVIOUS
    <2>2. block \in Seq(T)
      <3> HIDE DEF head, rewired
      <3> QED
        BY <1>4
    <2>3. rewired \in Seq(T)
      <3> HIDE DEF head
      <3> QED
        BY <1>3
    <2> QED
      BY <2>1, <2>2, <2>3
  <1>7. ToSet(head) = {Ingest, TranscriptConfirm}
    BY DEF ToSet
  <1>8. ToSet(rewired) = {Rewired(DefaultSteps[i], block, profile = "manual") : i \in 3..16}
    <2>1. DOMAIN rewired = 1..14
      BY <1>3
    <2>2. ASSUME NEW i \in 3..16
          PROVE  i - 2 \in 1..14 /\ rewired[i - 2] = Rewired(DefaultSteps[i], block, profile = "manual")
      <3>1. i - 2 \in 1..14 /\ (i - 2) + 2 = i
        OBVIOUS
      <3> QED
        BY <1>3, <3>1
    <2>3. ASSUME NEW i \in 1..14
          PROVE  i + 2 \in 3..16 /\ rewired[i] = Rewired(DefaultSteps[i + 2], block, profile = "manual")
      BY <1>3
    <2> HIDE DEF rewired
    <2> QED
      BY <2>1, <2>2, <2>3 DEF ToSet
  <1>9. StepsOf(g) = ToSet(head) \cup ToSet(block) \cup ToSet(rewired)
    <2> HIDE DEF head, rewired, T
    <2>0. \A x, y \in Seq(T) : x \o y \in Seq(T) /\ ToSet(x \o y) = ToSet(x) \cup ToSet(y)
      BY ToSetConcat, Zenon
    <2>1. head \o block \in Seq(T) /\ ToSet(head \o block) = ToSet(head) \cup ToSet(block)
      BY <1>6, <2>0, Zenon
    <2>2. ToSet((head \o block) \o rewired) = ToSet(head \o block) \cup ToSet(rewired)
      BY <1>6, <2>0, <2>1, Zenon
    <2> QED
      BY <1>5, <2>1, <2>2 DEF StepsOf
  <1> HIDE DEF head, rewired, g, T
  <1>10. /\ \A s \in StepsOf(g) :
                \/ s \in {Ingest, TranscriptConfirm} \/ s \in ToSet(block)
                \/ \E i \in 3..16 : s = Rewired(DefaultSteps[i], block, profile = "manual")
         /\ ToSet(block) \subseteq StepsOf(g)
         /\ \A i \in 3..16 : Rewired(DefaultSteps[i], block, profile = "manual") \in StepsOf(g)
    BY <1>7, <1>8, <1>9
  <1> QED
    BY <1>5, <1>10 DEF g, block

(* A pseudonymised profile: from the text of the source nothing is made    *)
(* but inside the block, and what is reviewed there is of the source no    *)
(* longer.                                                                 *)
LEMMA NoDirectStep ==
    ASSUME NEW profile \in {"model", "manual"}, NEW s \in StepsOf(BuildGraph(profile)),
           NEW P \in SUBSET ((OfSource \cup OfBlocks) \ {Reviewed}),
           s.name = "ingest" \/ (s.name # "pseudonymisation.review" /\ s.requires \cap P # {})
    PROVE  s.produces \subseteq (OfSource \cup OfBlocks) \ {Reviewed}
  <1>1. \/ s \in {Ingest, TranscriptConfirm} \/ s \in ToSet(Block(profile))
        \/ \E i \in 3..16 : s = Rewired(DefaultSteps[i], Block(profile), profile = "manual")
    BY BuiltSteps
  <1>2. CASE s \in {Ingest, TranscriptConfirm}
    <2>1. s.produces \subseteq OfSource
      BY <1>2 DEF Ingest, TranscriptConfirm, Step, Confirms, OfSource
    <2> QED
      BY <2>1 DEF OfSource, Reviewed
  <1>3. CASE s \in ToSet(Block(profile))
    <2>1. s.produces \subseteq OfBlocks /\ (Reviewed \in s.produces => s.name = "pseudonymisation.review")
      BY <1>3, BlockSteps
    <2>2. s.name # "ingest" \/ Reviewed \notin s.produces
      BY <2>1
    <2> QED
      BY <2>1, <2>2
  <1>4. CASE \E i \in 3..16 : s = Rewired(DefaultSteps[i], Block(profile), profile = "manual")
    <2>1. PICK i \in 3..16 : s = Rewired(DefaultSteps[i], Block(profile), profile = "manual")
      BY <1>4
    <2> DEFINE d == DefaultSteps[i]
    <2>2. /\ d.requires \cap (OfSource \cup OfBlocks) \subseteq {"transcript.confirmed"}
          /\ d.produces \cap (OfSource \cup OfBlocks) = {}
          /\ d.name # "ingest"
      BY DefaultBehind
    <2>3. \A t \in ToSet(Block(profile)) : d.produces \cap t.produces = {}
      <3> TAKE t \in ToSet(Block(profile))
      <3>1. t.produces \subseteq OfBlocks
        BY BlockSteps
      <3> QED
        BY <2>2, <3>1
    <2>4. PICK n, k, r, p : d = Step(n, k, r, p)
      BY DefaultBehind, Zenon
    <2> HIDE DEF d
    <2>5. CASE "transcript.confirmed" \in d.requires
      <3>1. /\ s.requires = (d.requires \ {"transcript.confirmed"}) \cup {Reviewed}
            /\ s.name = d.name
        <4>1. s = [d EXCEPT !.requires = (d.requires \ {"transcript.confirmed"})
                                            \cup {"transcript.pseudonymised.confirmed"},
                            !.reads_text = IF profile = "manual" THEN "transcript.pseudonymised.final"
                                           ELSE d.reads_text]
          BY <2>1, <2>3, <2>5, Zenon DEF Rewired, d
        <4> QED
          BY <2>4, <4>1 DEF Step, Reviewed
      <3> QED
        BY <2>2, <3>1
    <2>6. CASE "transcript.confirmed" \notin d.requires
      <3>1. s = d
        BY <2>1, <2>6, Zenon DEF Rewired, d
      <3> QED
        BY <2>2, <2>6, <3>1
    <2> QED
      BY <2>5, <2>6
  <1> QED
    BY <1>1, <1>2, <1>3, <1>4

(* A gate nobody built lies behind a step nobody built.                    *)
LEMMA DefaultGates ==
    /\ \A i \in 1..16 : DefaultSteps[i].human_gate =>
           DefaultSteps[i].name \in Gate \/ i = 11 \/ i = 14
    /\ DefaultSteps[10].produces = {"analysis.draft"} /\ DefaultSteps[10].name = "analysis.summarise"
    /\ DefaultSteps[11].requires = {"analysis.draft"}
    /\ DefaultSteps[11].produces = {"analysis.confirmed"} /\ DefaultSteps[11].name = "analysis.confirm"
    /\ DefaultSteps[14].requires = {"analysis.confirmed"}
  <1>1. ASSUME NEW i \in 1..16, DefaultSteps[i].human_gate
        PROVE  DefaultSteps[i].name \in Gate \/ i = 11 \/ i = 14
    <2>1. \/ i = 1 \/ i = 2 \/ i = 3 \/ i = 4 \/ i = 5 \/ i = 6 \/ i = 7 \/ i = 8 \/ i = 9
          \/ i = 10 \/ i = 11 \/ i = 12 \/ i = 13 \/ i = 14 \/ i = 15 \/ i = 16
      OBVIOUS
    <2>2. \A n, r, p : /\ Step(n, "model", r, p).human_gate = FALSE
                       /\ Step(n, "deterministic", r, p).human_gate = FALSE
                       /\ Step(n, "egress", r, p).human_gate = FALSE
      BY DEF Step
    <2>3. i \notin {1, 3, 4, 6, 8, 10, 12, 15, 16}
      BY <1>1, <2>2 DEF DefaultSteps, Ingest
    <2>4. /\ DefaultSteps[2].name = "transcript.confirm" /\ DefaultSteps[5].name = "l1.review"
          /\ DefaultSteps[7].name = "metadata.confirm" /\ DefaultSteps[9].name = "abstract.confirm"
          /\ DefaultSteps[13].name = "release.approve"
      BY DEF DefaultSteps, Step, TranscriptConfirm, Confirms
    <2> QED
      BY <2>1, <2>3, <2>4 DEF Gate
  <1>2. /\ DefaultSteps[10].produces = {"analysis.draft"} /\ DefaultSteps[10].name = "analysis.summarise"
        /\ DefaultSteps[11].requires = {"analysis.draft"}
        /\ DefaultSteps[11].produces = {"analysis.confirmed"} /\ DefaultSteps[11].name = "analysis.confirm"
        /\ DefaultSteps[14].requires = {"analysis.confirmed"}
    BY DEF DefaultSteps, Step
  <1> QED
    BY <1>1, <1>2

LEMMA AnalysisUnbuilt ==
    ASSUME NEW id, IsGraph(GraphOf(id)), GraphOf(id).profile \in {"sandbox", "model", "manual"},
           {DefaultSteps[10], DefaultSteps[11]} \subseteq StepsOf(GraphOf(id)),
           NEW s \in {DefaultSteps[11], DefaultSteps[14]}
    PROVE  \E a \in s.requires : Mode(id, Producer(GraphOf(id), a)) = "unbuilt"
  <1>1. ASSUME NEW t, t.name \in {"analysis.summarise", "analysis.confirm"}
        PROVE  Mode(id, t) = "unbuilt"
    BY <1>1 DEF Mode, Gate, Run, ManualGate, ManualRun
  <1>2. CASE s = DefaultSteps[11]
    <2>1. Producer(GraphOf(id), "analysis.draft") = DefaultSteps[10]
      BY DefaultGates, OneProducer
    <2>2. Mode(id, DefaultSteps[10]) = "unbuilt"
      BY <1>1, DefaultGates
    <2> QED
      BY <1>2, <2>1, <2>2, DefaultGates
  <1>3. CASE s = DefaultSteps[14]
    <2>1. Producer(GraphOf(id), "analysis.confirmed") = DefaultSteps[11]
      BY DefaultGates, OneProducer
    <2>2. Mode(id, DefaultSteps[11]) = "unbuilt"
      BY <1>1, DefaultGates
    <2> QED
      BY <1>3, <2>1, <2>2, DefaultGates
  <1> QED
    BY <1>2, <1>3

LEMMA UnbuiltGates ==
    ASSUME NEW id, Yielded(GraphOf(id)), NEW s \in StepsOf(GraphOf(id)), s.human_gate,
           Mode(id, s) = "unbuilt"
    PROVE  \E a \in s.requires : Mode(id, Producer(GraphOf(id), a)) = "unbuilt"
  <1> DEFINE g == GraphOf(id)
  <1>1. IsGraph(g) /\ g.profile \in {"sandbox", "model", "manual", "test"}
        /\ (g.profile # "test" => g = BuildGraph(g.profile))
    BY Zenon DEF Yielded, IsGraph
  <1>2. g.profile # "test"
    BY Zenon DEF Mode
  <1>3. ASSUME NEW n, s = DefaultSteps[n], n \in 1..16, DefaultSteps[10] \in StepsOf(g), DefaultSteps[11] \in StepsOf(g)
        PROVE  \E a \in s.requires : Mode(id, Producer(GraphOf(id), a)) = "unbuilt"
    <2>1. s.name \notin Gate
      BY <1>2, Zenon DEF Mode
    <2>2. n = 11 \/ n = 14
      BY <1>3, <2>1, DefaultGates
    <2> QED
      BY <1>1, <1>2, <1>3, <2>2, AnalysisUnbuilt
  <1>4. CASE g.profile = "sandbox"
    <2>1. g.steps = DefaultSteps
      <3>1. g = Graph("sandbox", DefaultSteps, BaseContracts)
        BY <1>1, <1>4, Zenon DEF BuildGraph
      <3> QED
        BY <3>1 DEF Graph
    <2>2. Len(DefaultSteps) = 16 /\ DOMAIN DefaultSteps = 1..16
      BY DEF DefaultSteps
    <2>3. PICK n \in 1..16 : s = DefaultSteps[n]
      BY <2>1, <2>2 DEF StepsOf, ToSet
    <2>4. DefaultSteps[10] \in StepsOf(g) /\ DefaultSteps[11] \in StepsOf(g)
      BY <2>1, <2>2 DEF StepsOf, ToSet
    <2> QED
      BY <1>3, <2>3, <2>4
  <1>5. CASE g.profile \in {"model", "manual"}
    <2> DEFINE profile == g.profile
               At(i) == Rewired(DefaultSteps[i], Block(profile), profile = "manual")
    <2>0. g = BuildGraph(profile) /\ profile # "sandbox"
      BY <1>1, <1>5
    <2>1. \/ s \in {Ingest, TranscriptConfirm} \/ s \in ToSet(Block(profile))
          \/ \E i \in 3..16 : s = At(i)
      BY <2>0, BuiltSteps
    <2>2. ASSUME NEW i \in {10, 11, 14} PROVE At(i) = DefaultSteps[i]
      <3>1. "transcript.confirmed" \notin DefaultSteps[i].requires
        BY DEF DefaultSteps, Step
      <3> QED
        BY <3>1, Zenon DEF Rewired
    <2>3. DefaultSteps[10] \in StepsOf(g) /\ DefaultSteps[11] \in StepsOf(g)
      <3>1. At(10) \in StepsOf(g) /\ At(11) \in StepsOf(g)
        BY <2>0, BuiltSteps
      <3> QED
        BY <2>2, <3>1
    <2>4. CASE s \in {Ingest, TranscriptConfirm}
      <3>1. Ingest.name = "ingest" /\ TranscriptConfirm.name \in Gate
        BY DEF Ingest, TranscriptConfirm, Step, Confirms, Gate
      <3> QED
        BY <1>2, <2>4, <3>1 DEF Mode
    <2>5. CASE \E i \in 3..16 : s = At(i)
      <3>1. PICK i \in 3..16 : s = At(i)
        BY <2>5
      <3>2. PICK n, k, r, p : DefaultSteps[i] = Step(n, k, r, p)
        BY DefaultBehind, Zenon
      <3>3. s.name = DefaultSteps[i].name /\ s.human_gate = DefaultSteps[i].human_gate
        BY <3>1, <3>2 DEF Rewired, Step
      <3>4. s.name \notin Gate
        BY <1>2, Zenon DEF Mode
      <3>5. i = 11 \/ i = 14
        BY <3>3, <3>4, DefaultGates
      <3> QED
        BY <1>3, <2>2, <2>3, <3>1, <3>5
    <2>6. CASE s \in ToSet(Block(profile))
      <3>1. CASE profile = "manual"
        <4>1. /\ ManualBlock[1].name = "pii.mark" /\ ManualBlock[3].name = "pseudonymisation.cases"
              /\ ManualBlock[5].name = "pseudonymisation.review"
          BY DEF ManualBlock, Step, Confirms, Reads
        <4>6. DOMAIN ManualBlock = 1..5
          BY DEF ManualBlock
        <4>5. ManualBlock[2].human_gate = FALSE /\ ManualBlock[4].human_gate = FALSE
          <5>1. \A n, r, p : Reads(Step(n, "deterministic", r, p), "transcript.revision").human_gate = FALSE
            BY DEF Step, Reads
          <5> QED
            BY <5>1 DEF ManualBlock
        <4>2. PICK i \in 1..5 : s = ManualBlock[i]
          BY <2>6, <3>1, <4>6 DEF Block, ToSet
        <4>3. i = 1 \/ i = 2 \/ i = 3 \/ i = 4 \/ i = 5
          OBVIOUS
        <4>4. s.name \in ManualGate
          BY <4>1, <4>2, <4>3, <4>5 DEF ManualGate
        <4> QED
          BY <1>2, <3>1, <4>4 DEF Mode
      <3>2. CASE profile = "model"
        <4>1. /\ DOMAIN ModelBlock = 1..3
              /\ ModelBlock[2].name = "pseudonymise"
              /\ "replacement.report" \in ModelBlock[2].produces
              /\ "replacement.report" \in ModelBlock[3].requires
          BY DEF ModelBlock, Step, Confirms
        <4>2. PICK i \in 1..3 : s = ModelBlock[i]
          BY <2>6, <3>2, <4>1 DEF Block, ToSet
        <4>7. ModelBlock[1].human_gate = FALSE /\ ModelBlock[2].human_gate = FALSE
          <5>1. \A n, r, p : /\ Step(n, "deterministic", r, p).human_gate = FALSE
                             /\ Step(n, "model", r, p).human_gate = FALSE
            BY DEF Step
          <5> QED
            BY <5>1 DEF ModelBlock
        <4>3. s = ModelBlock[3]
          BY <4>2, <4>7
        <4>4. ModelBlock[2] \in StepsOf(g)
          <5>1. ModelBlock[2] \in ToSet(Block(profile))
            BY <3>2, <4>1 DEF Block, ToSet
          <5> QED
            BY <2>0, <5>1, BuiltSteps
        <4>5. Producer(g, "replacement.report") = ModelBlock[2]
          BY <1>1, <4>1, <4>4, OneProducer
        <4>6. Mode(id, ModelBlock[2]) = "unbuilt"
          BY <3>2, <4>1 DEF Mode, Gate, Run
        <4> QED
          BY <4>1, <4>3, <4>5, <4>6
      <3> QED
        BY <1>5, <3>1, <3>2
    <2> QED
      BY <2>1, <2>4, <2>5, <2>6
  <1> QED
    BY <1>1, <1>2, <1>4, <1>5

-----------------------------------------------------------------------------
(* The inductive invariant.  Each profile in use yields the graph it was   *)
(* built with; what is usable, raw and plain under it is what its steps    *)
(* made of one another; and a run knows what it attempted and executed,    *)
(* and, while nobody disturbs it, where on its plan it is.                 *)

GraphsInv ==
    /\ findings \in {"none", "config", "found"}
    /\ DOMAIN have = DOMAIN graphs /\ DOMAIN raw = DOMAIN graphs /\ DOMAIN plain = DOMAIN graphs
    /\ \A id \in DOMAIN graphs :
         id \notin {None, Torn} /\ Yielded(GraphOf(id)) /\ graphs[id] = Built(GraphOf(id))

(* What nobody built makes nothing; and in a pseudonymised profile the     *)
(* text of the source stays before the review.                             *)
PlainInv(id) ==
    GraphOf(id).profile \in {"model", "manual"} =>
        plain[id] \subseteq (OfSource \cup OfBlocks) \ {Reviewed}
BuiltInv(id) == \A a \in have[id] : Mode(id, Producer(GraphOf(id), a)) # "unbuilt"
DataInv ==
    \A id \in DOMAIN graphs :
        RawSound(GraphOf(id), have[id], raw[id]) /\ PlainInv(id) /\ BuiltInv(id)

At == {"idle", "bind", "first", "create", "compare", "write", "sync", "index", "enter", "replace",
       "view", "step", "after"}
Loop == {"view", "step", "after"}
Reports ==
    {"none", "NOT_INITIALISED", "BINDING_INVALID", "UNBOUND", "MISMATCH", "STOP", "LEDGER_UNBOUND",
     "INITIALISED", "NO_WORKSPACE", "TARGET", "UPGRADED", "REGISTRY_INVALID", "LEDGER_INVALID",
     "OWNERSHIP", "CONFIG", "FINDINGS", "HANDLER", "HALT", "GATE", "INPUT_REQUIRED",
     "CONFIRM_REQUIRED", "NOT_BUILT", "COMPLETE"}
RunType ==
    [at : At, id : DOMAIN graphs \cup {None}, confirm : BOOLEAN, step : STRING \cup {None},
     attempted : SUBSET STRING, executed : SUBSET STRING, report : Reports,
     plan : PlanType \cup {None}, unnamed : SUBSET STRING, asPlanned : BOOLEAN]

(* From h, which was usable when it was made, the plan has come to what    *)
(* was executed.                                                           *)
MadeBy(order, names) == UNION {order[i].produces : i \in {i \in 1..Len(order) : order[i].name \in names}}
OnPlan(r, h) ==
    LET order == graphs[r.id].order
    IN  /\ r.plan = PlanOf(order, h)
        /\ have[r.id] = h \cup MadeBy(order, r.executed)
        /\ r.executed \subseteq r.plan.steps
        /\ \A i \in 1..Len(order) : order[i].name \in r.plan.steps => Mode(r.id, order[i]) = "run"
        /\ r.at = "step" => r.step \in r.plan.steps

InLoop(r) ==
    /\ RegistryFits(r.id)
    /\ r.at # "step" => r.attempted = r.executed
    /\ r.at = "step" =>
         /\ r.attempted = r.executed \cup {r.step} /\ r.step \notin r.executed
         /\ \E s \in StepsOf(GraphOf(r.id)) : s.name = r.step /\ Mode(r.id, s) = "run"

RunOK(r) ==
    /\ r \in RunType
    /\ r.at # "idle" => r.id \in DOMAIN graphs
    /\ r.at \in Loop => InLoop(r)
    /\ r.plan # None => r.at \in Loop /\ r.confirm /\ \E h \in SUBSET STRING : OnPlan(r, h)
    /\ r.unnamed \subseteq r.executed
    /\ r.asPlanned
RunInv == run = [p \in Active |-> run[p]] /\ \A p \in Active : RunOK(run[p])

ContinueInv == GraphsInv /\ DataInv /\ RunInv

(* The binding: one init at most has created it and is still busy with it, *)
(* and until it is replaced or taken back, what was written under it, and  *)
(* what runs, has its contract.                                            *)
Creating == {"write", "sync"}
BindInv ==
    /\ binding \in {None, Torn} \cup DOMAIN graphs
    /\ journal \in Seq(DOMAIN graphs)
    /\ changes \in Nat
    /\ \A p \in Active : run[p].at \in Creating =>
         binding # None /\ \A q \in Active : run[q].at \in Creating => p = q
    /\ \A p \in Active : run[p].at = "sync" => binding # Torn
    /\ changes = 0 =>
         /\ \A i \in 2..Len(journal) : binding \in DOMAIN graphs /\ SameContract(binding, journal[i])
         /\ \A p \in Active : run[p].at \in Loop =>
              binding \in DOMAIN graphs /\ SameContract(binding, run[p].id)

LEMMA GraphFacts ==
    ASSUME GraphsInv, NEW id \in DOMAIN graphs
    PROVE  /\ IsGraph(GraphOf(id)) /\ Yielded(GraphOf(id))
           /\ Ordered(GraphOf(id), graphs[id].order)
           /\ graphs[id].sound <=> EgressViolations(GraphOf(id)) = {}
           /\ graphs[id].leaving = Leaving(GraphOf(id))
           /\ \A a \in Artifacts(GraphOf(id)) : graphs[id].resting[a] = Resting(GraphOf(id), a)
           /\ StepsOf(GraphOf(id)) \subseteq StepType
           /\ Artifacts(GraphOf(id)) \subseteq STRING
  <1> DEFINE g == GraphOf(id)
  <1>1. Yielded(g) /\ graphs[id] = Built(g)
    BY DEF GraphsInv
  <1> HIDE DEF g
  <1>2. IsGraph(g)
    BY <1>1, Zenon DEF Yielded, IsGraph
  <1>3. Ordered(g, Topological(g))
    BY <1>2, TopologicalOrdered
  <1>4. /\ graphs[id].order = Topological(g)
        /\ graphs[id].sound = (EgressViolations(g) = {})
        /\ graphs[id].leaving = Leaving(g)
        /\ graphs[id].resting = [a \in Artifacts(g) |-> Resting(g, a)]
    <2>1. graphs[id] = [graph |-> g, order |-> Topological(g), sound |-> EgressViolations(g) = {},
                        leaving |-> Leaving(g), resting |-> [a \in Artifacts(g) |-> Resting(g, a)]]
      BY <1>1 DEF Built, Leaving, Resting
    <2> QED
      BY <2>1
  <1>5. StepsOf(g) \subseteq StepType
    BY <1>2, StepsOfGraph
  <1>6. Artifacts(g) \subseteq STRING
    BY <1>5 DEF Artifacts, StepType
  <1> QED
    BY <1>1, <1>2, <1>3, <1>4, <1>5, <1>6 DEF g

LEMMA Unchanged ==
    ASSUME UNCHANGED graphs
    PROVE  /\ \A id : GraphOf(id)' = GraphOf(id)
           /\ \A id, s : Mode(id, s)' = Mode(id, s)
           /\ \A id : RegistryFits(id)' <=> RegistryFits(id)
  <1>1. \A id : GraphOf(id)' = GraphOf(id)
    BY DEF GraphOf
  <1>2. \A id, s : Mode(id, s)' = Mode(id, s)
    BY <1>1 DEF Mode
  <1>3. \A id : RegistryFits(id)' <=> RegistryFits(id)
    BY <1>1, <1>2 DEF RegistryFits
  <1> QED
    BY <1>1, <1>2, <1>3

LEMMA NoRunOK == NoRun \in RunType /\ RunOK(NoRun)
  <1>1. /\ "idle" \in At /\ None \in DOMAIN graphs \cup {None} /\ None \in STRING \cup {None}
        /\ {} \in SUBSET STRING /\ None \in PlanType \cup {None} /\ "none" \in Reports
        /\ FALSE \in BOOLEAN /\ TRUE \in BOOLEAN
    BY DEF At, Reports
  <1>2. NoRun \in RunType
    BY <1>1, Zenon DEF NoRun, RunType
  <1>3. /\ NoRun.at = "idle" /\ NoRun.plan = None /\ NoRun.unnamed = {} /\ NoRun.asPlanned = TRUE
    BY DEF NoRun
  <1> QED
    BY <1>2, <1>3 DEF RunOK, Loop

LEMMA InitContinue == Init => ContinueInv
  <1> SUFFICES ASSUME Init PROVE ContinueInv
    OBVIOUS
  <1>0. PICK s \in Scenarios :
            /\ \E ids \in s.profiles :
                 /\ graphs = [id \in ids |-> Built(Yields(id))]
                 /\ have = [id \in ids |-> {}] /\ raw = [id \in ids |-> {}] /\ plain = [id \in ids |-> {}]
            /\ run = [p \in s.processes |-> NoRun] /\ findings = "none"
    BY Zenon DEF Init
  <1>1. PICK ids \in s.profiles :
            /\ graphs = [id \in ids |-> Built(Yields(id))]
            /\ have = [id \in ids |-> {}] /\ raw = [id \in ids |-> {}] /\ plain = [id \in ids |-> {}]
    BY <1>0
  <1>2. \A id \in ids : id \notin {None, Torn} /\ Yielded(Yields(id))
    BY WorkspaceAssumption
  <1>3. \A id \in ids : GraphOf(id) = Yields(id) /\ graphs[id] = Built(GraphOf(id))
    BY <1>1 DEF GraphOf, Built
  <1>4. GraphsInv
    BY <1>0, <1>1, <1>2, <1>3 DEF GraphsInv
  <1>5. DataInv
    BY <1>1 DEF DataInv, RawSound, PlainInv, BuiltInv
  <1>6. RunInv
    <2>1. run = [p \in Active |-> run[p]] /\ \A p \in Active : run[p] = NoRun
      BY <1>0 DEF Active
    <2> QED
      BY <2>1, NoRunOK DEF RunInv
  <1> QED
    BY <1>4, <1>5, <1>6 DEF ContinueInv

(* A step that somebody built and that found its inputs.                   *)
LEMMA ProduceKeeps ==
    ASSUME GraphsInv, DataInv, UNCHANGED <<graphs, findings>>, NEW id \in DOMAIN graphs,
           NEW s \in StepsOf(GraphOf(id)), s.requires \subseteq have[id], Mode(id, s) # "unbuilt",
           Produce(s, id)
    PROVE  GraphsInv' /\ DataInv'
  <1> DEFINE g == GraphOf(id)
  <1>1. GraphsInv'
    BY Unchanged DEF GraphsInv, Produce
  <1>2. ASSUME NEW i \in DOMAIN graphs
        PROVE  (RawSound(GraphOf(i), have[i], raw[i]) /\ PlainInv(i) /\ BuiltInv(i))'
    <2>1. CASE i # id
      <3>1. have'[i] = have[i] /\ raw'[i] = raw[i] /\ plain'[i] = plain[i]
        BY <2>1 DEF GraphsInv, Produce
      <3> QED
        BY <3>1, Unchanged DEF DataInv, PlainInv, BuiltInv
    <2>2. CASE i = id
      <3>1. /\ have'[id] = have[id] \cup s.produces
            /\ raw'[id] = (raw[id] \ s.produces) \cup (IF MakesRaw(s, id) THEN s.produces ELSE {})
            /\ plain'[id] = (plain[id] \ s.produces) \cup (IF MakesPlain(s, id) THEN s.produces ELSE {})
        BY DEF GraphsInv, Produce
      <3>2. IsGraph(g) /\ Yielded(g) /\ RawSound(g, have[id], raw[id]) /\ PlainInv(id) /\ BuiltInv(id)
        BY GraphFacts DEF DataInv
      <3>3. RawSound(g, have'[id], raw'[id])
        <4>1. MakesRaw(s, id) <=> Spreads(s, raw[id])
          BY Zenon DEF MakesRaw, Spreads
        <4> QED
          BY <3>1, <3>2, <4>1, ProduceRaw
      <3>4. PlainInv(id)'
        <4> SUFFICES ASSUME g.profile \in {"model", "manual"}
                     PROVE  plain'[id] \subseteq (OfSource \cup OfBlocks) \ {Reviewed}
          BY Unchanged DEF PlainInv
        <4>1. plain[id] \subseteq (OfSource \cup OfBlocks) \ {Reviewed}
          BY <3>2 DEF PlainInv
        <4>2. g = BuildGraph(g.profile)
          BY <3>2 DEF Yielded
        <4>3. MakesPlain(s, id) => s.produces \subseteq (OfSource \cup OfBlocks) \ {Reviewed}
          BY <4>1, <4>2, NoDirectStep DEF MakesPlain
        <4> QED
          BY <3>1, <4>1, <4>3
      <3>5. BuiltInv(id)'
        <4>1. \A a \in s.produces : Producer(g, a) = s
          BY <3>2, OneProducer
        <4> QED
          BY <3>1, <3>2, <4>1, Unchanged DEF BuiltInv
      <3> QED
        BY <2>2, <3>3, <3>4, <3>5, Unchanged
    <2> QED
      BY <2>1, <2>2
  <1> QED
    BY <1>1, <1>2 DEF DataInv

LEMMA FallKeeps ==
    ASSUME GraphsInv, DataInv, NEW id \in DOMAIN graphs, NEW a, Fall(id, a)
    PROVE  GraphsInv' /\ DataInv'
  <1> DEFINE g == GraphOf(id)
             F == Resting(g, a)
  <1>0. UNCHANGED graphs
    BY DEF Fall
  <1>1. GraphsInv'
    BY <1>0, Unchanged DEF GraphsInv, Fall
  <1>2. RawSound(g, have[id], raw[id]) /\ PlainInv(id) /\ BuiltInv(id) /\ a \in have[id]
    BY DEF DataInv, Fall
  <1>3. a \in Artifacts(g)
    BY <1>2 DEF RawSound
  <1>4. graphs[id].resting[a] = F
    BY <1>3, GraphFacts
  <1>5. have'[id] = have[id] \ F /\ raw'[id] = raw[id] \ F /\ plain'[id] = plain[id] \ F
    BY <1>4 DEF Fall, GraphsInv
  <1>6. \A i \in DOMAIN graphs : i # id =>
            have'[i] = have[i] /\ raw'[i] = raw[i] /\ plain'[i] = plain[i]
    BY DEF Fall, GraphsInv
  <1>7. RawSound(g, have'[id], raw'[id])
    BY <1>2, <1>5, FallRaw, GraphFacts
  <1> HIDE DEF F
  <1>8. (PlainInv(id) /\ BuiltInv(id))'
    BY <1>0, <1>2, <1>5, Unchanged DEF PlainInv, BuiltInv
  <1> QED
    BY <1>0, <1>1, <1>6, <1>7, <1>8, Unchanged DEF DataInv, PlainInv, BuiltInv

LEMMA RunStays ==
    ASSUME NEW p \in Active, RunOK(run[p]), UNCHANGED graphs,
           \/ run'[p] = run[p] /\ UNCHANGED have
           \/ run'[p] = [run[p] EXCEPT !.plan = None]
    PROVE  RunOK(run[p])'
  <1>1. CASE run'[p] = run[p] /\ UNCHANGED have
    BY <1>1, Unchanged DEF RunOK, RunType, InLoop, OnPlan
  <1>2. CASE run'[p] = [run[p] EXCEPT !.plan = None]
    <2>1. run[p] \in RunType
      BY DEF RunOK
    <2>2. run'[p] \in RunType /\ run'[p].plan = None
      BY <1>2, <2>1 DEF RunType
    <2>3. /\ run'[p].at = run[p].at /\ run'[p].id = run[p].id /\ run'[p].attempted = run[p].attempted
          /\ run'[p].executed = run[p].executed /\ run'[p].step = run[p].step
          /\ run'[p].unnamed = run[p].unnamed /\ run'[p].asPlanned = run[p].asPlanned
      BY <1>2, <2>1 DEF RunType
    <2> QED
      BY <2>2, <2>3, Unchanged DEF RunOK, InLoop, RunType
  <1> QED
    BY <1>1, <1>2

LEMMA RunEnds ==
    ASSUME NEW p \in Active, UNCHANGED graphs, NEW r, RunOK(r), NEW report \in Reports,
           run'[p] = EndedAs(r, report)
    PROVE  RunOK(run[p])'
  <1>1. r \in RunType
    BY DEF RunOK
  <1>2. run'[p] \in RunType
    BY <1>1 DEF EndedAs, RunType, At
  <1>3. /\ run'[p].at = "idle" /\ run'[p].plan = None
        /\ run'[p].unnamed = r.unnamed /\ run'[p].executed = r.executed /\ run'[p].asPlanned = r.asPlanned
    BY <1>1 DEF EndedAs, RunType
  <1> QED
    BY <1>2, <1>3 DEF RunOK, RunType, Loop

LEMMA RunRefused ==
    ASSUME NEW p \in Active, UNCHANGED graphs, NEW id \in DOMAIN graphs, NEW report \in Reports,
           run'[p] = EndedAs([NoRun EXCEPT !.id = id], report)
    PROVE  RunOK(run[p])'
  <1> DEFINE r == [NoRun EXCEPT !.id = id]
  <1>1. r \in RunType
    BY NoRunOK DEF RunType
  <1>2. r.at = "idle" /\ r.plan = None /\ r.unnamed = {} /\ r.asPlanned = TRUE
    BY DEF NoRun
  <1>3. RunOK(r)
    BY <1>1, <1>2 DEF RunOK, Loop
  <1> QED
    BY <1>3, RunEnds

(* A command that binds, at its next place.                                *)
Binding == {"bind", "first", "create", "compare", "write", "sync", "index", "enter", "replace"}

LEMMA RunBinds ==
    ASSUME NEW p \in Active, UNCHANGED graphs, NEW at \in Binding,
           \/ \E id \in DOMAIN graphs : run'[p] = [NoRun EXCEPT !.at = at, !.id = id]
           \/ /\ RunOK(run[p]) /\ run[p].at \in Binding /\ run'[p] = [run[p] EXCEPT !.at = at]
    PROVE  RunOK(run[p])'
  <1>1. CASE RunOK(run[p]) /\ run[p].at \in Binding /\ run'[p] = [run[p] EXCEPT !.at = at]
    <2>1. run[p] \in RunType /\ run[p].plan = None /\ run[p].id \in DOMAIN graphs
      BY <1>1 DEF RunOK, Binding, Loop
    <2>2. run'[p] \in RunType
      BY <1>1, <2>1 DEF RunType, Binding, At
    <2>3. /\ run'[p].at = at /\ run'[p].id = run[p].id /\ run'[p].plan = None
          /\ run'[p].unnamed = run[p].unnamed /\ run'[p].executed = run[p].executed
          /\ run'[p].asPlanned = run[p].asPlanned
      BY <1>1, <2>1 DEF RunType
    <2> QED
      BY <1>1, <2>1, <2>2, <2>3 DEF RunOK, RunType, Loop, Binding
  <1>2. CASE \E id \in DOMAIN graphs : run'[p] = [NoRun EXCEPT !.at = at, !.id = id]
    <2>1. PICK id \in DOMAIN graphs : run'[p] = [NoRun EXCEPT !.at = at, !.id = id]
      BY <1>2
    <2>2. run'[p] \in RunType
      BY <2>1, NoRunOK DEF RunType, Binding, At
    <2>3. /\ run'[p].at = at /\ run'[p].id = id /\ run'[p].plan = None
          /\ run'[p].unnamed = {} /\ run'[p].asPlanned = TRUE
      BY <2>1 DEF NoRun
    <2> QED
      BY <2>2, <2>3 DEF RunOK, RunType, Loop, Binding
  <1> QED
    BY <1>1, <1>2

LEMMA RunKilled ==
    ASSUME NEW p \in Active, UNCHANGED graphs, run'[p] = NoRun
    PROVE  RunOK(run[p])'
  <1>1. run'[p] \in RunType
    BY NoRunOK
  <1>2. /\ run'[p].at = "idle" /\ run'[p].plan = None /\ run'[p].unnamed = {}
        /\ run'[p].asPlanned = TRUE
    BY DEF NoRun
  <1> QED
    BY <1>1, <1>2 DEF RunOK, RunType, Loop

-----------------------------------------------------------------------------
(* The view: what is pending, and what becomes of it.                      *)

LEMMA ModeIsOne == \A id, s : Mode(id, s) \in {"gate", "input", "run", "unbuilt"}
  BY DEF Mode

LEMMA PendingFacts ==
    ASSUME GraphsInv, NEW id \in DOMAIN graphs
    PROVE  /\ DOMAIN graphs[id].order = 1..Len(graphs[id].order) /\ Len(graphs[id].order) \in Nat
           /\ \A i \in 1..Len(graphs[id].order) : StepAt(id, i) \in StepsOf(GraphOf(id))
           /\ Pending(id, have[id]) =
                {i \in 1..Len(graphs[id].order) : /\ StepAt(id, i).requires \subseteq have[id]
                                                  /\ ~ (StepAt(id, i).produces \subseteq have[id])}
  <1>1. graphs[id].order \in Seq(StepsOf(GraphOf(id)))
    BY GraphFacts DEF Ordered
  <1>2. DOMAIN graphs[id].order = 1..Len(graphs[id].order) /\ Len(graphs[id].order) \in Nat
    BY <1>1
  <1> QED
    BY <1>1, <1>2 DEF Pending, StepAt

(* What is pending and neither a gate, an input, deferred nor unbuilt is   *)
(* cheap and built: the run has attempted it, and what it attempted at a   *)
(* view it has executed.                                                   *)
LEMMA OnlyExecutedUnnamed ==
    ASSUME GraphsInv, NEW r, RunOK(r), r.at = "view", Candidates(r) = {},
           NEW i \in Pending(r.id, have[r.id])
    PROVE  LET s == StepAt(r.id, i)
           IN  \/ s.human_gate /\ Mode(r.id, s) # "unbuilt"
               \/ Mode(r.id, s) = "input"
               \/ Mode(r.id, s) = "run" /\ ~s.cheap
               \/ Mode(r.id, s) = "unbuilt"
               \/ s.name \in r.executed
  <1> DEFINE s == StepAt(r.id, i)
  <1>1. r.id \in DOMAIN graphs /\ RegistryFits(r.id) /\ r.attempted = r.executed
    BY DEF RunOK, InLoop, Loop
  <1>2. s \in StepsOf(GraphOf(r.id))
    BY <1>1, PendingFacts
  <1>3. ~MayRun(r, s)
    BY DEF Candidates
  <1>4. CASE Mode(r.id, s) = "gate"
    <2>1. s.human_gate
      BY <1>1, <1>2, <1>4 DEF RegistryFits
    <2> QED
      BY <1>4, <2>1
  <1>5. CASE Mode(r.id, s) = "run"
    <2>1. s.cheap => s.name \in r.attempted
      BY <1>3, <1>5 DEF MayRun
    <2> QED
      BY <1>1, <1>5, <2>1
  <1>6. CASE Mode(r.id, s) \in {"input", "unbuilt"}
    BY <1>6
  <1> QED
    BY <1>4, <1>5, <1>6, ModeIsOne

(* On its plan, a run that finds something to do finds a planned step ...  *)
LEMMA NextIsPlanned ==
    ASSUME GraphsInv, NEW r, RunOK(r), r.at = "view", NEW h \in SUBSET STRING, OnPlan(r, h),
           NEW i \in Candidates(r)
    PROVE  StepAt(r.id, i).name \in r.plan.steps
  <1> DEFINE order == graphs[r.id].order
             s == order[i]
  <1>1. r.id \in DOMAIN graphs /\ RegistryFits(r.id)
    BY DEF RunOK, InLoop, Loop
  <1>2. /\ i \in 1..Len(order) /\ s \in StepsOf(GraphOf(r.id))
        /\ s.requires \subseteq have[r.id] /\ ~(s.produces \subseteq have[r.id])
        /\ Mode(r.id, s) = "run"
    BY <1>1, PendingFacts DEF Candidates, MayRun, StepAt
  <1>3. PlansFor(r.plan, order, h, Len(order))
    BY <1>1, GraphFacts, PlanPlans DEF OnPlan
  <1>4. ~s.human_gate
    BY <1>1, <1>2 DEF RegistryFits
  <1>5. have[r.id] \subseteq r.plan.have /\ h \subseteq have[r.id]
    BY <1>3 DEF OnPlan, PlansFor, MadeBy
  <1> HIDE DEF order
  <1>6. s.name \in r.plan.steps
    BY <1>2, <1>3, <1>4, <1>5 DEF PlansFor
  <1> QED
    BY <1>6 DEF StepAt, order

(* ... and one that finds nothing has done them all: the first of the      *)
(* order that were left would find what it needs.                          *)
LEMMA AllPlannedDone ==
    ASSUME GraphsInv, NEW r, RunOK(r), r.at = "view", NEW h \in SUBSET STRING, OnPlan(r, h),
           r.confirm, Candidates(r) = {}
    PROVE  r.executed = r.plan.steps /\ have[r.id] = r.plan.have
  <1> DEFINE order == graphs[r.id].order
             g == GraphOf(r.id)
             n == Len(order)
             H == have[r.id]
             S == {i \in 1..n : order[i].name \in r.plan.steps \ r.executed}
  <1>1. /\ r.id \in DOMAIN graphs /\ RegistryFits(r.id) /\ r.attempted = r.executed
    BY DEF RunOK, InLoop, Loop
  <1>2. IsGraph(g) /\ Ordered(g, order)
    BY <1>1, GraphFacts
  <1>3. PlansFor(r.plan, order, h, n)
    BY <1>2, PlanPlans DEF OnPlan
  <1>4. /\ H = h \cup MadeBy(order, r.executed) /\ r.executed \subseteq r.plan.steps
        /\ \A i \in 1..n : order[i].name \in r.plan.steps => Mode(r.id, order[i]) = "run"
    BY DEF OnPlan
  <1>5. n \in Nat /\ \A i \in 1..n : order[i] \in StepsOf(g)
    BY <1>2 DEF Ordered
  <1>6. r.plan.have = h \cup MadeBy(order, r.plan.steps)
    BY <1>3 DEF PlansFor, MadeBy
  <1>7. Pending(r.id, H) = {i \in 1..n : order[i].requires \subseteq H /\ ~(order[i].produces \subseteq H)}
    BY <1>1, PendingFacts DEF StepAt
  <1>8. \A i \in Pending(r.id, H) : ~(order[i].name \notin r.attempted /\ Mode(r.id, order[i]) = "run")
    BY DEF Candidates, MayRun, StepAt
  <1> HIDE DEF order, g, n, H
  <1>9. S = {}
    <2> SUFFICES ASSUME S # {} PROVE FALSE
      OBVIOUS
    <2>1. S \in SUBSET Nat
      BY <1>5
    <2>2. PICK j \in S : \A i \in S : j <= i
      BY <2>1, LeastExists
    <2>3. j \in 1..n /\ order[j].name \in r.plan.steps /\ order[j].name \notin r.executed
      BY <2>2
    <2>4. order[j].requires \subseteq r.plan.have /\ ~(order[j].produces \subseteq h)
      BY <1>3, <2>3 DEF PlansFor
    <2>5. ASSUME NEW a \in order[j].requires PROVE a \in H
      <3>1. PICK k \in 1..(j - 1) : a \in order[k].produces
        BY <1>2, <2>3 DEF Ordered, n
      <3>2. k \in 1..n /\ k < j
        BY <1>5, <2>3
      <3>3. CASE a \in h
        BY <1>4, <3>3
      <3>4. CASE a \notin h
        <4>1. PICK m \in 1..n : a \in order[m].produces /\ order[m].name \in r.plan.steps
          BY <1>6, <2>4, <3>4 DEF MadeBy, n
        <4>2. m = k
          BY <1>2, <3>1, <3>2, <4>1, ApartInOrder DEF n
        <4>3. order[k].name \in r.executed
          BY <2>2, <3>2, <4>1, <4>2, <1>5
        <4> QED
          BY <1>4, <3>1, <3>2, <4>3 DEF MadeBy, n
      <3> QED
        BY <3>3, <3>4
    <2>6. PICK b \in order[j].produces : b \notin h
      BY <2>4
    <2>7. b \notin H
      <3> SUFFICES ASSUME b \in H PROVE FALSE
        OBVIOUS
      <3>1. PICK m \in 1..n : b \in order[m].produces /\ order[m].name \in r.executed
        BY <1>4, <2>6 DEF MadeBy, n
      <3>2. m = j
        BY <1>2, <2>3, <2>6, <3>1, ApartInOrder DEF n
      <3> QED
        BY <2>3, <3>1, <3>2
    <2>8. j \in Pending(r.id, H)
      BY <1>7, <2>3, <2>5, <2>6, <2>7
    <2> QED
      BY <1>1, <1>4, <1>8, <2>3, <2>8
  <1>10. r.plan.steps \subseteq {order[i].name : i \in 1..n}
    BY <1>3 DEF PlansFor
  <1>11. r.executed = r.plan.steps
    <2>1. ASSUME NEW x \in r.plan.steps PROVE x \in r.executed
      <3>1. PICK i \in 1..n : x = order[i].name
        BY <1>10, <2>1
      <3> QED
        BY <1>9, <2>1, <3>1
    <2> QED
      BY <1>4, <2>1
  <1> QED
    BY <1>4, <1>6, <1>11 DEF H

(* A gate it stops at is a gate of the plan, and the other way round: a    *)
(* gate nobody built never finds what it needs.                            *)
LEMMA GatesAsPlanned ==
    ASSUME GraphsInv, DataInv, NEW r, RunOK(r), r.at = "view", NEW h \in SUBSET STRING, OnPlan(r, h),
           r.confirm, Candidates(r) = {}
    PROVE  LET pending == {StepAt(r.id, i) : i \in Pending(r.id, have[r.id])}
           IN  {s.name : s \in AtTheDoor(r, pending)} = r.plan.gates
  <1> DEFINE order == graphs[r.id].order
             g == GraphOf(r.id)
             n == Len(order)
             H == have[r.id]
             pending == {StepAt(r.id, i) : i \in Pending(r.id, H)}
  <1>1. r.id \in DOMAIN graphs
    BY DEF RunOK, Loop
  <1>2. IsGraph(g) /\ Ordered(g, order) /\ Yielded(g)
    BY <1>1, GraphFacts
  <1>3. PlansFor(r.plan, order, h, n)
    BY <1>2, PlanPlans DEF OnPlan
  <1>4. r.plan.have = H
    BY AllPlannedDone
  <1>5. n \in Nat /\ \A i \in 1..n : order[i] \in StepsOf(g)
    BY <1>2 DEF Ordered
  <1>6. Pending(r.id, H) = {i \in 1..n : order[i].requires \subseteq H /\ ~(order[i].produces \subseteq H)}
    BY <1>1, PendingFacts DEF StepAt
  <1>7. \A a \in H : Mode(r.id, Producer(g, a)) # "unbuilt"
    BY <1>1 DEF DataInv, BuiltInv
  <1>8. pending = {order[i] : i \in Pending(r.id, H)}
    BY DEF StepAt
  <1>9. /\ r.plan.have = h \cup MadeBy(order, r.plan.steps)
        /\ r.plan.gates \subseteq {order[i].name : i \in 1..n}
        /\ \A i \in 1..n :
             /\ order[i].name \in r.plan.steps => ~order[i].human_gate
             /\ order[i].name \in r.plan.gates <=>
                    ~(order[i].produces \subseteq h) /\ order[i].requires \subseteq H /\ order[i].human_gate
    BY <1>3, <1>4 DEF PlansFor, MadeBy
  <1>10. ASSUME NEW i \in 1..n, order[i].human_gate
         PROVE  order[i].produces \subseteq h <=> order[i].produces \subseteq H
    <2>1. ASSUME NEW a \in order[i].produces, a \in H, a \notin h PROVE FALSE
      <3>0. a \in MadeBy(order, r.plan.steps)
        BY <1>4, <1>9, <2>1, Zenon
      <3>1. PICK m \in 1..n : a \in order[m].produces /\ order[m].name \in r.plan.steps
        BY <3>0, Zenon DEF MadeBy
      <3>2. m = i
        BY <1>2, <2>1, <3>1, ApartInOrder
      <3> QED
        BY <1>9, <1>10, <3>1, <3>2
    <2>2. h \subseteq H
      BY <1>4, <1>9
    <2> QED
      BY <2>1, <2>2
  <1>11. ASSUME NEW i \in Pending(r.id, H), order[i].human_gate
         PROVE  Mode(r.id, order[i]) # "unbuilt"
    <2>1. i \in 1..n /\ order[i].requires \subseteq H /\ order[i] \in StepsOf(g)
      BY <1>5, <1>6
    <2> QED
      BY <1>2, <1>7, <1>11, <2>1, UnbuiltGates
  <1> HIDE DEF order, g, n, H
  <1>12. \A i \in 1..n : order[i].name \in r.plan.gates <=> i \in Pending(r.id, H) /\ order[i].human_gate
    BY <1>6, <1>9, <1>10
  <1>13. AtTheDoor(r, pending) = {order[i] : i \in {i \in Pending(r.id, H) : order[i].human_gate}}
    BY <1>8, <1>11 DEF AtTheDoor
  <1>14. {s.name : s \in AtTheDoor(r, pending)} = {order[i].name : i \in {i \in Pending(r.id, H) : order[i].human_gate}}
    BY <1>13
  <1>15. {s.name : s \in AtTheDoor(r, pending)} = r.plan.gates
    <2>1. Pending(r.id, H) \subseteq 1..n
      BY <1>6
    <2>2. ASSUME NEW x \in r.plan.gates
          PROVE  x \in {order[i].name : i \in {i \in Pending(r.id, H) : order[i].human_gate}}
      <3>1. PICK i \in 1..n : x = order[i].name
        BY <1>9, <2>2
      <3> QED
        BY <1>12, <2>2, <3>1
    <2>3. ASSUME NEW i \in Pending(r.id, H), order[i].human_gate
          PROVE  order[i].name \in r.plan.gates
      BY <1>12, <2>1, <2>3
    <2>4. {order[i].name : i \in {i \in Pending(r.id, H) : order[i].human_gate}} = r.plan.gates
      BY <2>2, <2>3
    <2> QED
      BY <1>14, <2>4
  <1> QED
    BY <1>15 DEF H

-----------------------------------------------------------------------------
(* Every step keeps the invariant.                                         *)

LEMMA ViewKeeps ==
    ASSUME ContinueInv, NEW p \in Active, View(p)
    PROVE  RunOK(run[p])'
  <1> DEFINE r == run[p]
             pending == {StepAt(r.id, i) : i \in Pending(r.id, have[r.id])}
  <1>1. GraphsInv /\ DataInv /\ RunOK(r) /\ r.at = "view" /\ UNCHANGED <<graphs, have>>
    BY DEF ContinueInv, RunInv, View, recordVars
  <1>2. /\ r \in RunType /\ r.id \in DOMAIN graphs /\ RegistryFits(r.id) /\ r.attempted = r.executed
        /\ r.plan # None => r.confirm /\ \E h \in SUBSET STRING : OnPlan(r, h)
        /\ r.unnamed \subseteq r.executed /\ r.asPlanned
    BY <1>1 DEF RunOK, InLoop, Loop
  <1>3. CASE findings # "none"
    <2>1. \E report \in {"CONFIG", "FINDINGS"} : run'[p] = EndedAs(r, report)
      BY <1>1, <1>3 DEF View, GraphsInv, Active
    <2>2. PICK report \in Reports : run'[p] = EndedAs(r, report)
      BY <2>1 DEF Reports
    <2> QED
      BY <1>1, <2>2, RunEnds
  <1>4. CASE findings = "none" /\ Candidates(r) = {}
    <2> DEFINE U == {s.name : s \in pending \ (AtTheDoor(r, pending) \cup Inputs(r, pending)
                                            \cup Deferred(r, pending) \cup Unbuilt(r, pending))}
               B == r.plan # None => /\ r.executed = r.plan.steps
                                     /\ {s.name : s \in AtTheDoor(r, pending)} = r.plan.gates
               report == CASE AtTheDoor(r, pending) # {} -> "GATE"
                           [] Inputs(r, pending) # {} -> "INPUT_REQUIRED"
                           [] Deferred(r, pending) # {} -> "CONFIRM_REQUIRED"
                           [] Unbuilt(r, pending) # {} -> "NOT_BUILT"
                           [] OTHER -> "COMPLETE"
    <2>1. run'[p] = Outcome(r)
      BY <1>4 DEF View, Active
    <2>2. Outcome(r) = [EndedAs(r, report) EXCEPT !.unnamed = U, !.asPlanned = B]
      BY Zenon DEF Outcome
    <2>3. B = TRUE
      <3> SUFFICES ASSUME r.plan # None
                   PROVE  /\ r.executed = r.plan.steps
                          /\ {s.name : s \in AtTheDoor(r, pending)} = r.plan.gates
        OBVIOUS
      <3>1. PICK h \in SUBSET STRING : OnPlan(r, h)
        BY <1>2
      <3>2. r.confirm
        BY <1>2
      <3>3. r.executed = r.plan.steps
        BY <1>1, <1>4, <3>1, <3>2, AllPlannedDone
      <3>4. {s.name : s \in AtTheDoor(r, pending)} = r.plan.gates
        BY <1>1, <1>4, <3>1, <3>2, GatesAsPlanned
      <3> QED
        BY <3>3, <3>4
    <2>4. U \subseteq r.executed
      <3> SUFFICES ASSUME NEW s \in pending, s \notin AtTheDoor(r, pending), s \notin Inputs(r, pending),
                          s \notin Deferred(r, pending), s \notin Unbuilt(r, pending)
                   PROVE  s.name \in r.executed
        OBVIOUS
      <3>1. PICK i \in Pending(r.id, have[r.id]) : s = StepAt(r.id, i)
        OBVIOUS
      <3>2. \/ s.human_gate /\ Mode(r.id, s) # "unbuilt"
            \/ Mode(r.id, s) = "input"
            \/ Mode(r.id, s) = "run" /\ ~s.cheap
            \/ Mode(r.id, s) = "unbuilt"
            \/ s.name \in r.executed
        BY <1>1, <1>4, <3>1, OnlyExecutedUnnamed
      <3> HIDE DEF pending
      <3> QED
        BY <3>2 DEF AtTheDoor, Inputs, Deferred, Unbuilt
    <2>5. report \in Reports
      BY DEF Reports
    <2> HIDE DEF U, B, report, pending
    <2>6. /\ run'[p] \in RunType /\ run'[p].at = "idle" /\ run'[p].plan = None
          /\ run'[p].unnamed = U /\ run'[p].executed = r.executed /\ run'[p].asPlanned = TRUE
      <3>1. run'[p] = [EndedAs(r, report) EXCEPT !.unnamed = U, !.asPlanned = TRUE]
        BY <2>1, <2>2, <2>3
      <3>2. EndedAs(r, report) \in RunType
        BY <1>2, <2>5 DEF EndedAs, RunType, At
      <3>3. /\ EndedAs(r, report).at = "idle" /\ EndedAs(r, report).plan = None
            /\ EndedAs(r, report).executed = r.executed
        BY <1>2 DEF EndedAs, RunType
      <3>4. U \in SUBSET STRING
        BY <1>2, <2>4 DEF RunType
      <3> QED
        BY <3>1, <3>2, <3>3, <3>4 DEF RunType
    <2> QED
      BY <1>1, <2>4, <2>6 DEF RunOK, RunType, Loop
  <1>5. CASE findings = "none" /\ Candidates(r) # {}
    <2> DEFINE i == Min(Candidates(r))
               s == StepAt(r.id, i)
    <2>1. run'[p] = [r EXCEPT !.at = "step", !.step = s.name, !.attempted = r.attempted \cup {s.name}]
      BY <1>5 DEF View, Active
    <2>2. i \in Candidates(r)
      <3>1. Candidates(r) \in SUBSET Nat
        BY <1>1, <1>2, PendingFacts DEF Candidates
      <3> QED
        BY <1>5, <3>1, MinIsLeast
    <2>3. /\ s \in StepsOf(GraphOf(r.id)) /\ s.name \notin r.attempted /\ Mode(r.id, s) = "run"
      BY <1>1, <1>2, <2>2, PendingFacts DEF Candidates, MayRun
    <2>4. s.name \in STRING
      BY <1>1, <1>2, <2>3, GraphFacts DEF StepType
    <2>5. ASSUME NEW h \in SUBSET STRING, OnPlan(r, h) PROVE s.name \in r.plan.steps
      BY <1>1, <2>2, <2>5, NextIsPlanned
    <2> HIDE DEF s, i
    <2>6. /\ run'[p] \in RunType /\ run'[p].at = "step" /\ run'[p].plan = r.plan /\ run'[p].id = r.id
          /\ run'[p].attempted = r.executed \cup {s.name} /\ run'[p].executed = r.executed
          /\ run'[p].step = s.name /\ run'[p].confirm = r.confirm
          /\ run'[p].unnamed = r.unnamed /\ run'[p].asPlanned = r.asPlanned
      <3>1. r.attempted \cup {s.name} \in SUBSET STRING
        BY <1>2, <2>4 DEF RunType
      <3>2. "step" \in At /\ s.name \in STRING \cup {None}
        BY <2>4 DEF At
      <3> HIDE DEF r
      <3>3. run'[p] \in RunType
        BY <1>2, <2>1, <3>1, <3>2, ZenonT(40) DEF RunType
      <3> QED
        BY <1>2, <2>1, <3>3, ZenonT(40) DEF RunType
    <2>7. InLoop(run[p])'
      BY <1>1, <1>2, <2>3, <2>6, Unchanged DEF InLoop
    <2>8. ASSUME r.plan # None PROVE \E h \in SUBSET STRING : OnPlan(run[p], h)'
      <3>1. PICK h \in SUBSET STRING : OnPlan(r, h)
        BY <1>2, <2>8
      <3>2. OnPlan(run[p], h)'
        <4>1. graphs' = graphs /\ have' = have
          BY <1>1
        <4>2. \A id, t : Mode(id, t)' = Mode(id, t)
          BY <4>1, Unchanged, Zenon
        <4>3. /\ r.plan = PlanOf(graphs[r.id].order, h)
              /\ have[r.id] = h \cup MadeBy(graphs[r.id].order, r.executed)
              /\ r.executed \subseteq r.plan.steps
              /\ \A k \in 1..Len(graphs[r.id].order) :
                   graphs[r.id].order[k].name \in r.plan.steps => Mode(r.id, graphs[r.id].order[k]) = "run"
          BY <3>1, Zenon DEF OnPlan
        <4>4. run'[p].step \in r.plan.steps
          BY <2>5, <2>6, <3>1, Zenon
        <4>5. /\ run'[p].plan = r.plan /\ run'[p].id = r.id /\ run'[p].executed = r.executed
          BY <2>6
        <4> HIDE DEF r
        <4> QED
          BY <4>1, <4>2, <4>3, <4>4, <4>5 DEF OnPlan
      <3> QED
        BY <3>2
    <2>9. (run[p] \in RunType)'
      BY <1>1, <2>6 DEF RunType
    <2> QED
      BY <1>1, <1>2, <2>6, <2>7, <2>8, <2>9 DEF RunOK, Loop
  <1> QED
    BY <1>3, <1>4, <1>5

LEMMA NamedIs ==
    ASSUME GraphsInv, NEW id \in DOMAIN graphs, NEW t \in StepsOf(GraphOf(id))
    PROVE  Named(id, t.name) = t
  <1>1. IsGraph(GraphOf(id))
    BY GraphFacts
  <1>2. \A s \in StepsOf(GraphOf(id)) : s.name = t.name => s = t
    BY <1>1, NamesUnique
  <1> QED
    BY <1>2 DEF Named

LEMMA MadeOneMore ==
    ASSUME GraphsInv, NEW id \in DOMAIN graphs, NEW j \in 1..Len(graphs[id].order), NEW X
    PROVE  MadeBy(graphs[id].order, X \cup {graphs[id].order[j].name})
                = MadeBy(graphs[id].order, X) \cup graphs[id].order[j].produces
  <1> DEFINE order == graphs[id].order
             g == GraphOf(id)
  <1>1. IsGraph(g) /\ Ordered(g, order)
    BY GraphFacts
  <1>2. \A i \in 1..Len(order) : order[i].name = order[j].name => i = j
    BY <1>1, ApartInOrder
  <1> HIDE DEF order
  <1>3. MadeBy(order, X \cup {order[j].name}) = MadeBy(order, X) \cup order[j].produces
    BY <1>2, j \in 1..Len(order) DEF MadeBy, order
  <1> QED
    BY <1>3 DEF order

LEMMA HandleKeeps ==
    ASSUME ContinueInv, NEW p \in Active, Handle(p)
    PROVE  ContinueInv'
  <1> DEFINE r == run[p]
             g == GraphOf(r.id)
  <1>1. GraphsInv /\ DataInv /\ RunInv /\ RunOK(r) /\ r.at = "step" /\ UNCHANGED <<graphs, findings>>
    BY DEF ContinueInv, RunInv, Handle
  <1>2. /\ r \in RunType /\ r.id \in DOMAIN graphs /\ InLoop(r)
        /\ r.plan # None => r.confirm /\ \E h \in SUBSET STRING : OnPlan(r, h)
        /\ r.unnamed \subseteq r.executed /\ r.asPlanned
    BY <1>1 DEF RunOK, Loop
  <1>3. PICK t \in StepsOf(g) : t.name = r.step /\ Mode(r.id, t) = "run"
    BY <1>1, <1>2 DEF InLoop
  <1>4. Named(r.id, r.step) = t
    BY <1>1, <1>2, <1>3, NamedIs
  <1>5. IsGraph(g) /\ Ordered(g, graphs[r.id].order) /\ t.name \in STRING
    BY <1>1, <1>2, <1>3, GraphFacts DEF StepType
  <1>6. CASE /\ t.requires \subseteq have[r.id]
             /\ Produce(t, r.id)
             /\ run' = [Disturbed EXCEPT ![p] = [r EXCEPT !.at = "after",
                                                          !.executed = r.executed \cup {t.name}]]
    <2>1. GraphsInv' /\ DataInv'
      BY <1>1, <1>2, <1>3, <1>6, ProduceKeeps
    <2>2. /\ DOMAIN run' = Active
          /\ run' = [q \in DOMAIN run' |-> run'[q]]
          /\ \A q \in Active : q # p => run'[q] = [run[q] EXCEPT !.plan = None]
          /\ run'[p] = [r EXCEPT !.at = "after", !.executed = r.executed \cup {t.name}]
      BY <1>6 DEF Disturbed, Active
    <2>3. \A q \in Active : q # p => RunOK(run[q])'
      BY <1>1, <2>2, RunStays DEF RunInv
    <2>4. RunOK(run[p])'
      <3> HIDE DEF g
      <3>1. r.executed \cup {t.name} \in SUBSET STRING
        BY <1>2, <1>5 DEF RunType
      <3>2. run'[p] \in RunType
        <4>1. "after" \in At
          BY DEF At
        <4>2. r \in RunType
          BY <1>2
        <4>3. run'[p] = [r EXCEPT !.at = "after", !.executed = r.executed \cup {t.name}]
          BY <2>2
        <4> HIDE DEF r
        <4> QED
          BY <3>1, <4>1, <4>2, <4>3 DEF RunType
      <3>3. /\ run'[p].at = "after" /\ run'[p].plan = r.plan /\ run'[p].id = r.id
            /\ run'[p].attempted = r.attempted /\ run'[p].executed = r.executed \cup {t.name}
            /\ run'[p].confirm = r.confirm
            /\ run'[p].unnamed = r.unnamed /\ run'[p].asPlanned = r.asPlanned
        <4> HIDE DEF r
        <4> QED
          BY <1>2, <2>2, ZenonT(40) DEF RunType
      <3>4. InLoop(run[p])'
        BY <1>1, <1>2, <1>3, <3>3, Unchanged DEF InLoop
      <3>5. ASSUME r.plan # None PROVE \E h \in SUBSET STRING : OnPlan(run[p], h)'
        <4> DEFINE order == graphs[r.id].order
        <4>1. PICK h \in SUBSET STRING : OnPlan(r, h)
          BY <1>2, <3>5
        <4>2. /\ r.plan = PlanOf(order, h) /\ have[r.id] = h \cup MadeBy(order, r.executed)
              /\ r.executed \subseteq r.plan.steps /\ t.name \in r.plan.steps
              /\ \A i \in 1..Len(order) : order[i].name \in r.plan.steps => Mode(r.id, order[i]) = "run"
          BY <1>1, <1>3, <4>1 DEF OnPlan
        <4>3. PICK j \in 1..Len(order) : order[j].name = t.name
          <5>1. PlansFor(r.plan, order, h, Len(order))
            BY <1>5, <4>2, PlanPlans
          <5> QED
            BY <4>2, <5>1 DEF PlansFor
        <4>4. order[j] = t
          BY <1>1, <1>2, <1>3, <1>5, <4>3, NamesUnique, PendingFacts DEF StepAt, g
        <4>5. MadeBy(order, r.executed \cup {t.name}) = MadeBy(order, r.executed) \cup t.produces
          BY <1>1, <1>2, <4>4, MadeOneMore
        <4>6. have'[r.id] = have[r.id] \cup t.produces
          BY <1>1, <1>2, <1>6 DEF Produce, GraphsInv
        <4> HIDE DEF order
        <4>7. have'[r.id] = h \cup MadeBy(order, r.executed \cup {t.name})
          BY <4>2, <4>5, <4>6
        <4>8. order = (graphs[r.id].order)' /\ \A i : Mode(r.id, order[i])' = Mode(r.id, order[i])
          BY <1>1, <3>3, Unchanged DEF order
        <4>9. OnPlan(run[p], h)'
          BY <1>1, <3>3, <4>2, <4>7, <4>8, Unchanged DEF OnPlan, order
        <4> QED
          BY <4>9
      <3>6. (run[p] \in RunType)'
        BY <1>1, <3>2 DEF RunType
      <3> QED
        BY <1>1, <1>2, <3>3, <3>4, <3>5, <3>6 DEF RunOK, Loop
    <2> QED
      BY <2>1, <2>2, <2>3, <2>4 DEF ContinueInv, RunInv, Active
  <1>7. CASE /\ \E report \in {"HANDLER", "HALT"} : run' = [run EXCEPT ![p] = EndedAs(r, report)]
             /\ UNCHANGED <<have, raw, plain>>
    <2>1. PICK report \in Reports : run' = [run EXCEPT ![p] = EndedAs(r, report)]
      BY <1>7 DEF Reports
    <2>2. GraphsInv' /\ DataInv'
      BY <1>1, <1>7, Unchanged DEF GraphsInv, DataInv, PlainInv, BuiltInv
    <2>3. RunOK(run[p])'
      BY <1>1, <2>1, RunEnds DEF Active
    <2>4. \A q \in Active : q # p => RunOK(run[q])'
      BY <1>1, <1>7, <2>1, RunStays DEF RunInv, Active
    <2> QED
      BY <2>1, <2>2, <2>3, <2>4 DEF ContinueInv, RunInv, Active
  <1> QED
    BY <1>4, <1>6, <1>7 DEF Handle

LEMMA AfterKeeps ==
    ASSUME ContinueInv, NEW p \in Active, After(p)
    PROVE  RunOK(run[p])'
  <1> DEFINE r == run[p]
  <1>1. RunOK(r) /\ r.at = "after" /\ UNCHANGED <<graphs, have>>
    BY DEF ContinueInv, RunInv, After, recordVars
  <1>2. /\ r \in RunType /\ r.id \in DOMAIN graphs /\ InLoop(r)
        /\ r.plan # None => r.confirm /\ \E h \in SUBSET STRING : OnPlan(r, h)
        /\ r.unnamed \subseteq r.executed /\ r.asPlanned
    BY <1>1 DEF RunOK, Loop
  <1>3. CASE run'[p] = EndedAs(r, "HANDLER")
    <2>1. "HANDLER" \in Reports
      BY DEF Reports
    <2> QED
      BY <1>1, <1>3, <2>1, RunEnds
  <1>4. CASE run'[p] = [r EXCEPT !.at = "view", !.step = None]
    <2>1. run'[p] \in RunType
      <3>1. "view" \in At /\ None \in STRING \cup {None}
        BY DEF At
      <3> HIDE DEF r
      <3> QED
        BY <1>2, <1>4, <3>1, ZenonT(40) DEF RunType
    <2>2. /\ run'[p].at = "view" /\ run'[p].plan = r.plan /\ run'[p].id = r.id
          /\ run'[p].attempted = r.attempted /\ run'[p].executed = r.executed
          /\ run'[p].confirm = r.confirm
          /\ run'[p].unnamed = r.unnamed /\ run'[p].asPlanned = r.asPlanned
      <3> HIDE DEF r
      <3> QED
        BY <1>2, <1>4 DEF RunType
    <2>3. InLoop(run[p])'
      BY <1>1, <1>2, <2>2, Unchanged DEF InLoop
    <2>4. ASSUME r.plan # None PROVE \E h \in SUBSET STRING : OnPlan(run[p], h)'
      <3>1. PICK h \in SUBSET STRING : OnPlan(r, h)
        BY <1>2, <2>4
      <3>2. OnPlan(run[p], h)'
        BY <1>1, <2>2, <3>1, Unchanged, SMTT(30) DEF OnPlan
      <3> QED
        BY <3>2
    <2>5. (run[p] \in RunType)'
      BY <1>1, <2>1 DEF RunType
    <2> QED
      BY <1>1, <1>2, <2>2, <2>3, <2>4, <2>5 DEF RunOK, Loop
  <1> QED
    BY <1>3, <1>4 DEF After, Active

LEMMA LoopKeeps ==
    ASSUME ContinueInv, NEW p \in Active, ContinueStep(p)
    PROVE  ContinueInv'
  <1>1. CASE View(p) \/ After(p)
    <2>1. /\ UNCHANGED recordVars /\ DOMAIN run' = Active /\ run' = [q \in DOMAIN run' |-> run'[q]]
          /\ \A q \in Active : q # p => run'[q] = run[q]
      BY <1>1 DEF View, After, Active
    <2>2. GraphsInv' /\ DataInv'
      BY <2>1, Unchanged DEF ContinueInv, GraphsInv, DataInv, PlainInv, BuiltInv, recordVars
    <2>3. RunOK(run[p])'
      BY <1>1, ViewKeeps, AfterKeeps
    <2>4. \A q \in Active : q # p => RunOK(run[q])'
      BY <2>1, RunStays DEF ContinueInv, RunInv, recordVars
    <2> QED
      BY <2>1, <2>2, <2>3, <2>4 DEF ContinueInv, RunInv, Active
  <1> QED
    BY <1>1, HandleKeeps DEF ContinueStep

LEMMA OneRun ==
    ASSUME ContinueInv, UNCHANGED recordVars, NEW p \in Active, NEW v,
           run' = [run EXCEPT ![p] = v], RunOK(run[p])'
    PROVE  ContinueInv'
  <1>1. GraphsInv' /\ DataInv'
    BY Unchanged DEF ContinueInv, GraphsInv, DataInv, PlainInv, BuiltInv, recordVars
  <1>2. \A q \in Active : q # p => RunOK(run[q])'
    BY RunStays DEF ContinueInv, RunInv, recordVars, Active
  <1> QED
    BY <1>1, <1>2 DEF ContinueInv, RunInv, Active

LEMMA HaltsAreReports ==
    \A id, ok : BindingHalt(id, ok) \in Reports /\ ContinueHalt(id) \in Reports
  <1>1. \A id, ok : BindingHalt(id, ok) \in Reports
    BY DEF BindingHalt, Reports
  <1>2. \A id : BindingHalt(id, FALSE) \in Reports
    BY <1>1
  <1>3. \A id : ContinueHalt(id) \in Reports
    BY <1>2 DEF ContinueHalt, Reports
  <1> QED
    BY <1>1, <1>3

LEMMA StartKeeps ==
    ASSUME ContinueInv, NEW p \in Active, NEW id \in InUse, NEW confirm \in BOOLEAN,
           StartContinue(p, id, confirm)
    PROVE  ContinueInv'
  <1>1. GraphsInv /\ DataInv /\ id \in DOMAIN graphs /\ UNCHANGED recordVars /\ UNCHANGED graphs /\ UNCHANGED have
    BY DEF ContinueInv, GraphsInv, InUse, StartContinue, recordVars
  <1>2. CASE ContinueHalt(id) # "none"
    <2>1. run' = [run EXCEPT ![p] = EndedAs([NoRun EXCEPT !.id = id], ContinueHalt(id))]
      BY <1>2 DEF StartContinue
    <2>2. RunOK(run[p])'
      <3>1. run'[p] = EndedAs([NoRun EXCEPT !.id = id], ContinueHalt(id))
        BY <2>1 DEF Active
      <3> QED
        BY <1>1, <3>1, HaltsAreReports, RunRefused
    <2> QED
      BY <1>1, <2>1, <2>2, OneRun
  <1>3. CASE ContinueHalt(id) = "none"
    <2> DEFINE plan == Foretold(id, confirm)
               order == graphs[id].order
    <2>1. run' = [run EXCEPT ![p] = [NoRun EXCEPT !.at = "view", !.id = id, !.confirm = confirm,
                                                  !.plan = plan]]
      BY <1>3 DEF StartContinue, Running
    <2>2. RegistryFits(id)
      BY <1>3 DEF ContinueHalt
    <2>3. have[id] \in SUBSET STRING
      BY <1>1, GraphFacts DEF DataInv, RawSound
    <2>4. PlansFor(PlanOf(order, have[id]), order, have[id], Len(order))
      BY <1>1, <2>3, GraphFacts, PlanPlans
    <2>5. /\ plan \in PlanType \cup {None}
          /\ plan # None => /\ confirm /\ plan = PlanOf(order, have[id])
                            /\ \A name \in plan.steps : Mode(id, Named(id, name)) = "run"
      BY <2>4 DEF Foretold, PlansFor
    <2> HIDE DEF plan
    <2>6. /\ run'[p].at = "view" /\ run'[p].id = id /\ run'[p].confirm = confirm
          /\ run'[p].plan = plan /\ run'[p].attempted = {} /\ run'[p].executed = {}
          /\ run'[p].unnamed = {} /\ run'[p].asPlanned = TRUE
      BY <2>1 DEF NoRun, Active
    <2>7. run'[p] \in RunType
      <3>1. "view" \in At /\ NoRun \in RunType
        BY NoRunOK DEF At
      <3>2. run'[p] = [NoRun EXCEPT !.at = "view", !.id = id, !.confirm = confirm, !.plan = plan]
        BY <2>1 DEF Active
      <3> QED
        BY <1>1, <2>5, <3>1, <3>2 DEF RunType
    <2>8. InLoop(run[p])'
      BY <1>1, <2>2, <2>6, Unchanged DEF InLoop
    <2>0. PICK h \in SUBSET STRING : h = have[id]
      BY <2>3
    <2>9. ASSUME plan # None PROVE OnPlan(run[p], h)'
      <3>1. \A i \in 1..Len(order) : order[i].name \in plan.steps => Mode(id, order[i]) = "run"
        BY <1>1, <2>5, <2>9, NamedIs, PendingFacts DEF StepAt
      <3>2. MadeBy(order, {}) = {}
        BY DEF MadeBy
      <3> QED
        BY <1>1, <2>0, <2>5, <2>6, <2>9, <3>1, <3>2, Unchanged DEF OnPlan
    <2>11. ASSUME plan # None PROVE \E x \in SUBSET STRING : OnPlan(run[p], x)'
      BY <2>9, <2>11, Zenon
    <2>12. (run[p] \in RunType)'
      BY <1>1, <2>7 DEF RunType
    <2>10. RunOK(run[p])'
      BY <1>1, <2>5, <2>6, <2>8, <2>11, <2>12 DEF RunOK, Loop
    <2> QED
      BY <1>1, <2>1, <2>10, OneRun
  <1> QED
    BY <1>2, <1>3

(* What a command does that sets up or replaces the binding, once begun.   *)
Sets(p) ==
    \/ Bind(p) \/ First(p) \/ Create(p) \/ Compare(p)
    \/ WriteBinding(p) \/ SyncBinding(p) \/ WriteFails(p)
    \/ Index(p) \/ EnterJournal(p) \/ Replace(p)

LEMMA SetsGoes ==
    ASSUME NEW p \in Active, Sets(p)
    PROVE  /\ run[p].at \in Binding /\ UNCHANGED recordVars
           /\ \/ \E at \in Binding \ {"bind", "replace"} : Goes(p, at)
              \/ \E report \in {"STOP", "LEDGER_UNBOUND", "INITIALISED", "UPGRADED"} : Ends(p, run[p].id, report)
  <1>1. CASE Bind(p) \/ First(p) \/ Create(p)
    BY <1>1 DEF Bind, First, Create, Binding
  <1>2. CASE Compare(p) \/ WriteBinding(p) \/ SyncBinding(p)
    BY <1>2 DEF Compare, WriteBinding, SyncBinding, Binding
  <1>3. CASE WriteFails(p) \/ Index(p)
    BY <1>3 DEF WriteFails, Index, Binding
  <1>4. CASE EnterJournal(p) \/ Replace(p)
    BY <1>4 DEF EnterJournal, Replace, Binding
  <1> QED
    BY <1>1, <1>2, <1>3, <1>4 DEF Sets

LEMMA BindsKeeps ==
    ASSUME ContinueInv, NEW p \in Active, Sets(p)
    PROVE  ContinueInv'
  <1>1. /\ RunOK(run[p]) /\ run[p].at \in Binding /\ run[p].id \in DOMAIN graphs
        /\ UNCHANGED recordVars /\ UNCHANGED graphs
    BY SetsGoes DEF ContinueInv, RunInv, RunOK, Binding, recordVars
  <1>2. \/ \E at \in Binding : Goes(p, at)
        \/ \E report \in {"STOP", "LEDGER_UNBOUND", "INITIALISED", "UPGRADED"} : Ends(p, run[p].id, report)
    BY SetsGoes
  <1>3. CASE \E at \in Binding : Goes(p, at)
    <2>1. PICK at \in Binding : run' = [run EXCEPT ![p] = [run[p] EXCEPT !.at = at]]
      BY <1>3 DEF Goes
    <2>2. RunOK(run[p])'
      BY <1>1, <2>1, RunBinds DEF Active
    <2> QED
      BY <1>1, <2>1, <2>2, OneRun
  <1>4. CASE \E report \in {"STOP", "LEDGER_UNBOUND", "INITIALISED", "UPGRADED"} : Ends(p, run[p].id, report)
    <2>1. PICK report \in Reports : run' = [run EXCEPT ![p] = EndedAs([NoRun EXCEPT !.id = run[p].id], report)]
      BY <1>4 DEF Ends, Reports
    <2>2. RunOK(run[p])'
      <3>1. run'[p] = EndedAs([NoRun EXCEPT !.id = run[p].id], report)
        BY <2>1 DEF Active
      <3> QED
        BY <1>1, <3>1, RunRefused
    <2> QED
      BY <1>1, <2>1, <2>2, OneRun
  <1> QED
    BY <1>2, <1>3, <1>4

LEMMA UpgradeHalts ==
    \A id, target : UpgradeHalt(id, target) # "none" =>
        UpgradeHalt(id, target) \in {"NO_WORKSPACE", "TARGET", "BINDING_INVALID", "UPGRADED"}
  BY DEF UpgradeHalt

LEMMA CommandsKeep ==
    ASSUME ContinueInv, NEW p \in Active, NEW id \in InUse,
           StartInit(p, id) \/ \E target \in InUse : Upgrade(p, id, target)
    PROVE  ContinueInv'
  <1>1. id \in DOMAIN graphs /\ UNCHANGED recordVars /\ UNCHANGED graphs
    BY DEF ContinueInv, GraphsInv, InUse, StartInit, Upgrade, recordVars
  <1>2. \/ \E at \in {"bind", "replace"} : run' = [run EXCEPT ![p] = [NoRun EXCEPT !.at = at, !.id = id]]
        \/ \E report \in Reports : Ends(p, id, report)
    <2>1. CASE StartInit(p, id)
      BY <2>1, HaltsAreReports DEF StartInit
    <2>2. CASE \E target \in InUse : Upgrade(p, id, target)
      BY <2>2, UpgradeHalts DEF Upgrade, Reports, Replacing
    <2> QED
      BY <2>1, <2>2
  <1>3. CASE \E at \in {"bind", "replace"} : run' = [run EXCEPT ![p] = [NoRun EXCEPT !.at = at, !.id = id]]
    <2>1. PICK at \in {"bind", "replace"} : run' = [run EXCEPT ![p] = [NoRun EXCEPT !.at = at, !.id = id]]
      BY <1>3
    <2>2. RunOK(run[p])'
      <3>1. run'[p] = [NoRun EXCEPT !.at = at, !.id = id] /\ at \in Binding
        BY <2>1 DEF Active, Binding
      <3> QED
        BY <1>1, <3>1, RunBinds
    <2> QED
      BY <1>1, <2>1, <2>2, OneRun
  <1>4. CASE \E report \in Reports : Ends(p, id, report)
    <2>1. PICK report \in Reports : run' = [run EXCEPT ![p] = EndedAs([NoRun EXCEPT !.id = id], report)]
      BY <1>4 DEF Ends
    <2>2. RunOK(run[p])'
      <3>1. run'[p] = EndedAs([NoRun EXCEPT !.id = id], report)
        BY <2>1 DEF Active
      <3> QED
        BY <1>1, <3>1, RunRefused
    <2> QED
      BY <1>1, <2>1, <2>2, OneRun
  <1> QED
    BY <1>2, <1>3, <1>4

(* What anybody else writes voids the plans.                               *)
LEMMA DisturbedKeeps ==
    ASSUME ContinueInv, UNCHANGED graphs, GraphsInv', DataInv', run' = Disturbed
    PROVE  ContinueInv'
  <1>1. /\ DOMAIN run' = Active /\ run' = [q \in DOMAIN run' |-> run'[q]]
        /\ \A q \in Active : run'[q] = [run[q] EXCEPT !.plan = None]
    BY DEF Disturbed, Active
  <1>2. \A q \in Active : RunOK(run[q])'
    BY <1>1, RunStays DEF ContinueInv, RunInv
  <1> QED
    BY <1>1, <1>2 DEF ContinueInv, RunInv, Active

LEMMA NextContinue == ContinueInv /\ [Next]_vars => ContinueInv'
  <1> SUFFICES ASSUME ContinueInv, [Next]_vars PROVE ContinueInv'
    OBVIOUS
  <1>1. ASSUME UNCHANGED <<recordVars, run>> PROVE ContinueInv'
    <2>1. GraphsInv' /\ DataInv'
      BY <1>1, Unchanged DEF ContinueInv, GraphsInv, DataInv, PlainInv, BuiltInv, recordVars
    <2>2. \A q \in Active : RunOK(run[q])'
      BY <1>1, RunStays DEF ContinueInv, RunInv, recordVars
    <2> QED
      BY <1>1, <2>1, <2>2 DEF ContinueInv, RunInv, Active
  <1>2. CASE UNCHANGED vars
    BY <1>1, <1>2 DEF vars
  <1>3. ASSUME NEW p \in Active, NEW id \in InUse,
               \/ StartInit(p, id) \/ \E target \in InUse : Upgrade(p, id, target)
               \/ \E confirm \in BOOLEAN : StartContinue(p, id, confirm)
        PROVE  ContinueInv'
    BY <1>3, CommandsKeep, StartKeeps
  <1>4. ASSUME NEW p \in Active, Continue(p) PROVE ContinueInv'
    BY <1>4, LoopKeeps DEF Continue
  <1>5. ASSUME NEW p \in Active, Kill(p) PROVE ContinueInv'
    <2>1. run' = [run EXCEPT ![p] = NoRun] /\ UNCHANGED recordVars /\ UNCHANGED graphs
      BY <1>5 DEF Kill, recordVars
    <2>2. RunOK(run[p])'
      BY <2>1, RunKilled DEF Active
    <2> QED
      BY <2>1, <2>2, OneRun
  <1>6. ASSUME NEW id \in InUse, Act(id) PROVE ContinueInv'
    <2>1. PICK s \in StepsOf(GraphOf(id)) : Decide(id, s)
      BY <1>6 DEF Act
    <2>2. /\ id \in DOMAIN graphs /\ s.requires \subseteq have[id] /\ Mode(id, s) # "unbuilt"
          /\ Produce(s, id) /\ UNCHANGED <<graphs, findings>>
      BY <2>1 DEF Decide, InUse, ContinueInv, GraphsInv
    <2>3. GraphsInv' /\ DataInv'
      BY <2>2, ProduceKeeps DEF ContinueInv
    <2> QED
      BY <1>6, <2>2, <2>3, DisturbedKeeps DEF Act
  <1>7. CASE Falls
    <2>1. run' = Disturbed
      BY <1>7 DEF Falls
    <2>2. CASE \E id \in InUse : \E a \in have[id] : Fall(id, a)
      <3>0. InUse = DOMAIN graphs
        BY DEF InUse, ContinueInv, GraphsInv
      <3>1. PICK id \in DOMAIN graphs : \E a : Fall(id, a)
        BY <2>2, <3>0
      <3>2. GraphsInv' /\ DataInv' /\ UNCHANGED graphs
        BY <3>1, FallKeeps DEF ContinueInv, Fall
      <3> QED
        BY <2>1, <3>2, DisturbedKeeps
    <2>3. CASE \E found \in {"none", "config", "found"} : Report(found)
      <3>1. UNCHANGED <<graphs, have, raw, plain>> /\ findings' \in {"none", "config", "found"}
        BY <2>3 DEF Report
      <3>2. GraphsInv' /\ DataInv'
        BY <3>1, Unchanged DEF ContinueInv, GraphsInv, DataInv, PlainInv, BuiltInv
      <3> QED
        BY <2>1, <3>1, <3>2, DisturbedKeeps
    <2> QED
      BY <1>7, <2>2, <2>3 DEF Falls
  <1>8. CASE RemoveTorn \/ Outside
    <2>1. UNCHANGED <<recordVars, run>>
      <3>1. RemoveTorn => UNCHANGED <<recordVars, run>>
        BY DEF RemoveTorn, recordVars
      <3>2. Outside => UNCHANGED <<recordVars, run>>
        BY DEF Outside, recordVars
      <3> QED
        BY <1>8, <3>1, <3>2
    <2> QED
      BY <1>1, <2>1
  <1> QED
    BY <1>2, <1>3, <1>4, <1>5, <1>6, <1>7, <1>8, BindsKeeps DEF Next, Sets

(* What the other theorems rest on, for every profile, graph and scenario: *)
(* continue_record (application/steps.py) works on the graph its profile   *)
(* yields, model output and unreviewed text lie only where the graph lets  *)
(* them, and a run in its loop has done a part of the plan it was begun on *)
(* and reported the rest, or was disturbed and says so.                    *)
THEOREM ContinueInvariant == WorkspaceSpec => []ContinueInv
  <1> QED
    BY InitContinue, NextContinue, PTL DEF WorkspaceSpec

(* check_egress_gates judges declared paths; the theorem says that this is *)
(* what matters: in any graph the constructor lets pass and it has nothing *)
(* against, no model output leaves that no gate stood behind, whatever     *)
(* continue runs and humans decide and undo.                               *)
THEOREM NothingUnreviewed == WorkspaceSpec => []NothingUnreviewedLeaves
  <1>1. ASSUME ContinueInv PROVE NothingUnreviewedLeaves
    <2>1. ASSUME NEW id \in DOMAIN have
          PROVE  /\ graphs[id].sound => graphs[id].leaving \cap raw[id] = {}
                 /\ /\ have[id] = Artifacts(GraphOf(id)) /\ ~graphs[id].sound
                    /\ \A s \in StepsOf(GraphOf(id)) : s.leaves_system => s.produces # {}
                    => graphs[id].leaving \cap raw[id] # {}
      <3>1. id \in DOMAIN graphs /\ GraphsInv
        BY <1>1, <2>1 DEF ContinueInv, GraphsInv
      <3>2. RawSound(GraphOf(id), have[id], raw[id])
        BY <1>1, <3>1 DEF ContinueInv, DataInv
      <3>3. /\ IsGraph(GraphOf(id)) /\ graphs[id].leaving = Leaving(GraphOf(id))
            /\ graphs[id].sound <=> EgressViolations(GraphOf(id)) = {}
        BY <3>1, GraphFacts
      <3>4. EgressViolations(GraphOf(id)) = {} => Leaving(GraphOf(id)) \cap raw[id] = {}
        BY <3>2, <3>3, NothingOut
      <3>5. /\ have[id] = Artifacts(GraphOf(id)) /\ EgressViolations(GraphOf(id)) # {}
            /\ \A s \in StepsOf(GraphOf(id)) : s.leaves_system => s.produces # {}
            => Leaving(GraphOf(id)) \cap raw[id] # {}
        BY <3>2, <3>3, SomethingOut
      <3> QED
        BY <3>3, <3>4, <3>5
    <2> QED
      BY <2>1, Zenon DEF NothingUnreviewedLeaves
  <1> QED
    BY <1>1, ContinueInvariant, PTL

LEMMA BlocksMakeThese ==
    OfBlocks \subseteq UNION {s.produces : s \in ToSet(ModelBlock) \cup ToSet(ManualBlock)}
  <1>1. DOMAIN ManualBlock = 1..5
    BY DEF ManualBlock
  <1>2. DOMAIN ModelBlock = 1..3
    BY DEF ModelBlock
  <1>3. /\ "pii.spans" \in ManualBlock[1].produces
        /\ "transcript.pseudonymised.draft" \in ManualBlock[2].produces
        /\ "pseudonymisation.cases" \in ManualBlock[3].produces
        /\ "transcript.pseudonymised.final" \in ManualBlock[4].produces
        /\ "replacement.report" \in ManualBlock[4].produces
        /\ "transcript.pseudonymised.confirmed" \in ManualBlock[5].produces
    BY DEF ManualBlock, Step, Confirms, Reads
  <1>4. \A i \in 1..5 : ManualBlock[i] \in ToSet(ManualBlock)
    BY <1>1 DEF ToSet
  <1> QED
    BY <1>3, <1>4 DEF OfBlocks

(* build_graph of a pseudonymised profile: beyond the block nothing is     *)
(* made of text whose pseudonymisation no human reviewed.                  *)
THEOREM NoEdgeAround == WorkspaceSpec => []NoDirectEdge
  <1>1. ASSUME ContinueInv PROVE NoDirectEdge
    <2> SUFFICES ASSUME NEW id \in DOMAIN have, GraphOf(id).profile \in {"model", "manual"}
                 PROVE  plain[id] \subseteq {"transcript.revision", "transcript.confirmed"} \cup
                            ((UNION {s.produces : s \in ToSet(ModelBlock) \cup ToSet(ManualBlock)})
                                \ {"transcript.pseudonymised.confirmed"})
      BY Zenon DEF NoDirectEdge
    <2>1. id \in DOMAIN graphs
      BY <1>1 DEF ContinueInv, GraphsInv
    <2>2. plain[id] \subseteq (OfSource \cup OfBlocks) \ {Reviewed}
      BY <1>1, <2>1 DEF ContinueInv, DataInv, PlainInv
    <2> DEFINE U == UNION {s.produces : s \in ToSet(ModelBlock) \cup ToSet(ManualBlock)}
    <2>3. OfBlocks \subseteq U
      BY BlocksMakeThese
    <2> HIDE DEF OfBlocks, U
    <2>4. plain[id] \subseteq OfSource \cup (U \ {Reviewed})
      BY <2>2, <2>3
    <2>5. plain[id] \subseteq {"transcript.revision", "transcript.confirmed"} \cup
                (U \ {"transcript.pseudonymised.confirmed"})
      BY <2>4 DEF OfSource, Reviewed
    <2> QED
      BY <2>5 DEF U
  <1> QED
    BY <1>1, ContinueInvariant, PTL

(* continue_record: what it leaves pending it has executed itself or       *)
(* names.                                                                  *)
THEOREM EverythingNamed == WorkspaceSpec => []PendingIsNamed
  <1>1. ContinueInv => PendingIsNamed
    BY DEF ContinueInv, RunInv, RunOK, PendingIsNamed, Active
  <1> QED
    BY <1>1, ContinueInvariant, PTL

(* The plan of any graph the constructor lets pass is the run that follows *)
(* when nobody comes between.                                              *)
THEOREM PlanForetells == WorkspaceSpec => []PlanIsRun
  <1>1. ContinueInv => PlanIsRun
    BY DEF ContinueInv, RunInv, RunOK, PlanIsRun, Active
  <1> QED
    BY <1>1, ContinueInvariant, PTL

-----------------------------------------------------------------------------
(* The binding of the root.                                                *)

LEMMA SameContractIs ==
    /\ \A i : SameContract(i, i)
    /\ \A i, j : SameContract(i, j) => SameContract(j, i)
    /\ \A i, j, k : SameContract(i, j) /\ SameContract(j, k) => SameContract(i, k)
  BY DEF SameContract, MatchesContext

LEMMA BoundToCurrent ==
    ASSUME BindInv, NEW id, BindingHalt(id, FALSE) = "none"
    PROVE  binding \in DOMAIN graphs /\ binding # None /\ binding # Torn /\ SameContract(binding, id)
  <1>1. BindingState(id) = "current"
    BY DEF BindingHalt, BindingState
  <1> QED
    BY <1>1 DEF BindingState, BindInv

LEMMA InitBinding == Init => BindInv
  <1> SUFFICES ASSUME Init PROVE BindInv
    OBVIOUS
  <1>1. PICK s \in Scenarios :
            /\ \E ids \in s.profiles :
                 /\ graphs = [id \in ids |-> Built(Yields(id))]
                 /\ IF s.bound THEN \E id \in ids : binding = id /\ journal = <<id>>
                    ELSE binding = None /\ journal = << >>
            /\ run = [p \in s.processes |-> NoRun] /\ changes = 0
    BY Zenon DEF Init
  <1>2. \A p \in Active : run[p].at = "idle"
    BY <1>1 DEF NoRun, Active
  <1>3. DOMAIN graphs \in {ids : ids \in s.profiles}
    BY <1>1
  <1>4. \/ binding = None /\ journal = << >>
        \/ \E id \in DOMAIN graphs : binding = id /\ journal = <<id>>
    BY <1>1
  <1>5. journal \in Seq(DOMAIN graphs) /\ Len(journal) \in {0, 1} /\ binding \in {None, Torn} \cup DOMAIN graphs
    <2>1. CASE binding = None /\ journal = << >>
      BY <2>1
    <2>2. CASE \E id \in DOMAIN graphs : binding = id /\ journal = <<id>>
      <3>1. PICK id \in DOMAIN graphs : binding = id /\ journal = <<id>>
        BY <2>2
      <3> QED
        BY <3>1
    <2> QED
      BY <1>4, <2>1, <2>2
  <1> QED
    BY <1>1, <1>2, <1>5 DEF BindInv, Loop, Creating

LEMMA UnchangedContracts ==
    ASSUME UNCHANGED graphs
    PROVE  \A i, j : SameContract(i, j)' <=> SameContract(i, j)
  BY Unchanged DEF SameContract

(* A step that leaves the binding alone and lets nobody into the loop or   *)
(* to the writing of it.                                                   *)
LEMMA BindStays ==
    ASSUME BindInv, UNCHANGED <<graphs, binding, changes>>, DOMAIN run' = DOMAIN run,
           \A p \in Active : /\ run'[p].at \in Creating => run[p].at \in Creating
                             /\ run'[p].at = "sync" => run[p].at = "sync"
                             /\ run'[p].at \in Loop =>
                                    \/ run[p].at \in Loop /\ run'[p].id = run[p].id
                                    \/ binding \in DOMAIN graphs /\ SameContract(binding, run'[p].id),
           \/ UNCHANGED journal
           \/ journal = << >> /\ \E id \in DOMAIN graphs : journal' = <<id>>
           \/ \E id \in DOMAIN graphs : /\ journal' = Append(journal, id)
                                        /\ changes = 0 => binding \in DOMAIN graphs /\ SameContract(binding, id)
    PROVE  BindInv'
  <1>1. \A i, j : SameContract(i, j)' <=> SameContract(i, j)
    BY UnchangedContracts
  <1>2. journal' \in Seq(DOMAIN graphs)
    <2>1. journal \in Seq(DOMAIN graphs)
      BY DEF BindInv
    <2>2. \A id \in DOMAIN graphs : <<id>> \in Seq(DOMAIN graphs) /\ Append(journal, id) \in Seq(DOMAIN graphs)
      BY <2>1
    <2> QED
      BY <2>1, <2>2
  <1>3. ASSUME changes = 0, NEW i \in 2..Len(journal')
        PROVE  binding \in DOMAIN graphs /\ SameContract(binding, journal'[i])
    <2>1. CASE UNCHANGED journal
      BY <1>3, <2>1 DEF BindInv
    <2>2. CASE journal = << >> /\ \E id \in DOMAIN graphs : journal' = <<id>>
      BY <1>3, <2>2
    <2>3. CASE \E id \in DOMAIN graphs : /\ journal' = Append(journal, id)
                                         /\ changes = 0 => binding \in DOMAIN graphs /\ SameContract(binding, id)
      <3>1. PICK id \in DOMAIN graphs : journal' = Append(journal, id) /\ binding \in DOMAIN graphs
                                        /\ SameContract(binding, id)
        BY <1>3, <2>3
      <3>2. CASE i \in 2..Len(journal)
        BY <1>3, <3>1, <3>2 DEF BindInv
      <3>3. CASE i = Len(journal) + 1
        BY <3>1, <3>3 DEF BindInv
      <3> QED
        BY <1>3, <3>1, <3>2, <3>3 DEF BindInv
    <2> QED
      BY <2>1, <2>2, <2>3
  <1>4. \A p \in Active : /\ run'[p].at \in Creating =>
                                binding # None /\ \A q \in Active : run'[q].at \in Creating => p = q
                          /\ run'[p].at = "sync" => binding # Torn
    BY DEF BindInv
  <1>5. ASSUME changes = 0, NEW p \in Active, run'[p].at \in Loop
        PROVE  binding \in DOMAIN graphs /\ SameContract(binding, run'[p].id)
    BY <1>5 DEF BindInv
  <1> QED
    BY <1>1, <1>2, <1>3, <1>4, <1>5 DEF BindInv, Active

(* Who is elsewhere than before.                                           *)
LEMMA Moved ==
    ASSUME ContinueInv, NEW p \in Active, NEW v, run' = [run EXCEPT ![p] = v]
    PROVE  /\ DOMAIN run' = DOMAIN run /\ run'[p] = v
           /\ \A q \in Active : q # p => run'[q] = run[q]
  BY DEF Active

LEMMA Freshly ==
    \A id, at, report :
        /\ EndedAs([NoRun EXCEPT !.id = id], report).at = "idle"
        /\ [NoRun EXCEPT !.at = at, !.id = id].at = at
        /\ EndedAs([NoRun EXCEPT !.id = id], report).report = report
  BY DEF EndedAs, NoRun

LEMMA WhenGoes ==
    ASSUME ContinueInv, NEW p \in Active, NEW at, Goes(p, at)
    PROVE  /\ DOMAIN run' = DOMAIN run /\ run'[p].at = at
           /\ \A q \in Active : q # p => run'[q] = run[q]
  <1>1. run[p] \in RunType
    BY DEF ContinueInv, RunInv, RunOK
  <1>2. run' = [run EXCEPT ![p] = [run[p] EXCEPT !.at = at]]
    BY DEF Goes
  <1>3. [run[p] EXCEPT !.at = at].at = at
    BY <1>1 DEF RunType
  <1> QED
    BY <1>2, <1>3 DEF Active

LEMMA WhenEnds ==
    ASSUME NEW p \in Active, NEW id, NEW report, Ends(p, id, report)
    PROVE  /\ DOMAIN run' = DOMAIN run /\ run'[p].at = "idle" /\ run'[p].report = report
           /\ \A q \in Active : q # p => run'[q] = run[q]
  <1>1. run' = [run EXCEPT ![p] = EndedAs([NoRun EXCEPT !.id = id], report)]
    BY DEF Ends
  <1> QED
    BY <1>1, Freshly DEF Active

LEMMA GraphsStay ==
    ASSUME [Next]_vars
    PROVE  UNCHANGED graphs
  <1>1. UNCHANGED vars => UNCHANGED graphs
    BY DEF vars, recordVars
  <1>2. ASSUME NEW p \in Active, NEW id \in InUse,
               \/ StartInit(p, id) \/ \E target \in InUse : Upgrade(p, id, target)
               \/ \E confirm \in BOOLEAN : StartContinue(p, id, confirm)
        PROVE  UNCHANGED graphs
    BY <1>2 DEF StartInit, Upgrade, StartContinue, recordVars
  <1>3. ASSUME NEW p \in Active, Sets(p)
        PROVE  UNCHANGED graphs
    BY <1>3, SetsGoes DEF recordVars
  <1>4. ASSUME NEW p \in Active, Continue(p) \/ Kill(p) PROVE UNCHANGED graphs
    BY <1>4 DEF Continue, ContinueStep, View, Handle, After, Kill, recordVars
  <1>5. ASSUME NEW id \in InUse, Act(id) PROVE UNCHANGED graphs
    BY <1>5 DEF Act, Decide
  <1>6. Falls => UNCHANGED graphs
    BY DEF Falls, Fall, Report
  <1>7. RemoveTorn => UNCHANGED graphs
    BY DEF RemoveTorn, recordVars
  <1>8. Outside => UNCHANGED graphs
    BY DEF Outside, recordVars
  <1> QED
    BY <1>1, <1>2, <1>3, <1>4, <1>5, <1>6, <1>7, <1>8 DEF Next, Sets

LEMMA LoopPlace ==
    ASSUME ContinueInv, NEW p \in Active, View(p) \/ After(p)
    PROVE  run'[p].id = run[p].id /\ run'[p].at \in {"idle", "view", "step"}
  <1> DEFINE r == run[p]
  <1>1. r \in RunType
    BY DEF ContinueInv, RunInv, RunOK
  <1>2. \A report : EndedAs(r, report).id = r.id /\ EndedAs(r, report).at = "idle"
    BY <1>1 DEF EndedAs, RunType
  <1>3. ASSUME After(p) PROVE run'[p].id = run[p].id /\ run'[p].at \in {"idle", "view"}
    <2>1. run'[p] = [r EXCEPT !.at = "view", !.step = None] \/ run'[p] = EndedAs(r, "HANDLER")
      BY <1>3 DEF After, Active
    <2> HIDE DEF r
    <2>2. run'[p].id = r.id /\ run'[p].at \in {"idle", "view"}
      BY <1>1, <1>2, <2>1 DEF RunType
    <2> QED
      BY <2>2 DEF r
  <1>4. ASSUME View(p) PROVE run'[p].id = run[p].id /\ run'[p].at \in {"idle", "step"}
    <2>1. \/ \E report : run'[p] = EndedAs(r, report)
          \/ run'[p] = Outcome(r)
          \/ \E s : run'[p] = [r EXCEPT !.at = "step", !.step = s.name, !.attempted = @ \cup {s.name}]
      BY <1>4 DEF View, Active
    <2>2. Outcome(r).id = r.id /\ Outcome(r).at = "idle"
      <3>1. PICK report, u, b : Outcome(r) = [EndedAs(r, report) EXCEPT !.unnamed = u, !.asPlanned = b]
        BY Zenon DEF Outcome
      <3> QED
        BY <1>1, <1>2, <3>1 DEF EndedAs, RunType
    <2> HIDE DEF r
    <2>3. run'[p].id = r.id /\ run'[p].at \in {"idle", "step"}
      BY <1>1, <1>2, <2>1, <2>2 DEF RunType
    <2> QED
      BY <2>3 DEF r
  <1> QED
    BY <1>3, <1>4

LEMMA HandlePlace ==
    ASSUME ContinueInv, NEW p \in Active, Handle(p)
    PROVE  /\ DOMAIN run' = DOMAIN run
           /\ \A q \in Active : /\ run'[q].id = run[q].id
                                /\ q # p => run'[q].at = run[q].at
                                /\ q = p => run'[q].at \in {"idle", "after"}
  <1> DEFINE r == run[p]
  <1>1. \A q \in Active : run[q] \in RunType
    BY DEF ContinueInv, RunInv, RunOK
  <1>2. \A report : EndedAs(r, report).id = r.id /\ EndedAs(r, report).at = "idle"
    BY <1>1 DEF EndedAs, RunType
  <1>3. \/ \E name : run' = [Disturbed EXCEPT ![p] = [r EXCEPT !.at = "after", !.executed = @ \cup {name}]]
        \/ \E report : run' = [run EXCEPT ![p] = EndedAs(r, report)]
    BY DEF Handle
  <1>4. ASSUME NEW name,
               run' = [Disturbed EXCEPT ![p] = [r EXCEPT !.at = "after", !.executed = @ \cup {name}]]
        PROVE  /\ DOMAIN run' = DOMAIN run
               /\ \A q \in Active : /\ run'[q].id = run[q].id
                                    /\ q # p => run'[q].at = run[q].at
                                    /\ q = p => run'[q].at \in {"idle", "after"}
    <2>1. /\ DOMAIN run' = DOMAIN run
          /\ \A q \in Active : q # p => run'[q] = [run[q] EXCEPT !.plan = None]
          /\ run'[p] = [r EXCEPT !.at = "after", !.executed = @ \cup {name}]
      BY <1>4 DEF Disturbed, Active
    <2>2. \A q \in Active : [run[q] EXCEPT !.plan = None].id = run[q].id
                            /\ [run[q] EXCEPT !.plan = None].at = run[q].at
      BY <1>1 DEF RunType
    <2>3. /\ [r EXCEPT !.at = "after", !.executed = @ \cup {name}].id = r.id
          /\ [r EXCEPT !.at = "after", !.executed = @ \cup {name}].at = "after"
      BY <1>1 DEF RunType
    <2> QED
      BY <2>1, <2>2, <2>3
  <1>5. ASSUME NEW report, run' = [run EXCEPT ![p] = EndedAs(r, report)]
        PROVE  /\ DOMAIN run' = DOMAIN run
               /\ \A q \in Active : /\ run'[q].id = run[q].id
                                    /\ q # p => run'[q].at = run[q].at
                                    /\ q = p => run'[q].at \in {"idle", "after"}
    BY <1>2, <1>5 DEF Active
  <1> QED
    BY <1>3, <1>4, <1>5

LEMMA NextBinding ==
    ASSUME ContinueInv, BindInv, [Next]_vars
    PROVE  BindInv'
  <1>0. UNCHANGED graphs /\ InUse = DOMAIN graphs /\ \A p \in Active : run[p] \in RunType
    <2> QED
      BY GraphsStay DEF ContinueInv, GraphsInv, RunInv, RunOK, InUse
  <1>s. \A i, j : SameContract(i, j)' <=> SameContract(i, j)
    BY <1>0, UnchangedContracts
  <1>1. CASE UNCHANGED vars
    BY <1>0, <1>1, BindStays DEF vars, bindingVars
  <1>2. ASSUME NEW p \in Active, NEW id \in InUse, StartInit(p, id) PROVE BindInv'
    <2>1. UNCHANGED <<binding, journal, changes>>
      BY <1>2 DEF StartInit, bindingVars
    <2>2. \/ Ends(p, id, BindingHalt(id, TRUE))
          \/ run' = [run EXCEPT ![p] = [NoRun EXCEPT !.at = "bind", !.id = id]]
      BY <1>2 DEF StartInit
    <2>3. /\ DOMAIN run' = DOMAIN run /\ run'[p].at \in {"idle", "bind"}
          /\ \A q \in Active : q # p => run'[q] = run[q]
      <3>1. CASE Ends(p, id, BindingHalt(id, TRUE))
        BY <3>1, WhenEnds
      <3>2. CASE run' = [run EXCEPT ![p] = [NoRun EXCEPT !.at = "bind", !.id = id]]
        BY <3>2, Freshly DEF Active
      <3> QED
        BY <2>2, <3>1, <3>2
    <2> QED
      BY <1>0, <2>1, <2>3, BindStays DEF Loop, Creating
  <1>3. ASSUME NEW p \in Active, NEW id \in InUse, NEW confirm \in BOOLEAN, StartContinue(p, id, confirm)
        PROVE  BindInv'
    <2>1. UNCHANGED <<binding, journal, changes>>
      BY <1>3 DEF StartContinue, bindingVars
    <2>2. PICK v : /\ run' = [run EXCEPT ![p] = v] /\ v.at \in {"idle", "view"}
                   /\ v.at = "view" => v.id = id /\ ContinueHalt(id) = "none"
      <3>1. Running(id, confirm).at = "view" /\ Running(id, confirm).id = id
        BY DEF Running, NoRun
      <3>2. \/ run' = [run EXCEPT ![p] = EndedAs([NoRun EXCEPT !.id = id], ContinueHalt(id))]
            \/ ContinueHalt(id) = "none" /\ run' = [run EXCEPT ![p] = Running(id, confirm)]
        BY <1>3 DEF StartContinue
      <3> QED
        BY <3>1, <3>2, Freshly
    <2>3. DOMAIN run' = DOMAIN run /\ run'[p] = v /\ \A q \in Active : q # p => run'[q] = run[q]
      BY <2>2, Moved
    <2>4. ContinueHalt(id) = "none" => BindingHalt(id, FALSE) = "none"
      BY DEF ContinueHalt
    <2>5. v.at = "view" => binding \in DOMAIN graphs /\ SameContract(binding, v.id)
      BY <2>2, <2>4, BoundToCurrent
    <2> QED
      BY <1>0, <2>1, <2>2, <2>3, <2>5, BindStays DEF Loop, Creating
  <1>4. ASSUME NEW p \in Active, NEW id \in InUse, NEW target \in InUse, Upgrade(p, id, target)
        PROVE  BindInv'
    <2>1. UNCHANGED <<binding, journal, changes>>
      BY <1>4 DEF Upgrade, bindingVars
    <2>2. \/ \E report : Ends(p, id, report)
          \/ run' = [run EXCEPT ![p] = [NoRun EXCEPT !.at = "replace", !.id = id]]
      BY <1>4 DEF Upgrade, Replacing
    <2>3. /\ DOMAIN run' = DOMAIN run /\ run'[p].at \in {"idle", "replace"}
          /\ \A q \in Active : q # p => run'[q] = run[q]
      <3>1. CASE \E report : Ends(p, id, report)
        BY <3>1, WhenEnds
      <3>2. CASE run' = [run EXCEPT ![p] = [NoRun EXCEPT !.at = "replace", !.id = id]]
        BY <3>2, Freshly DEF Active
      <3> QED
        BY <2>2, <3>1, <3>2
    <2> QED
      BY <1>0, <2>1, <2>3, BindStays DEF Loop, Creating
  <1>5. ASSUME NEW p \in Active, Bind(p) \/ First(p) \/ Compare(p) \/ SyncBinding(p) \/ Index(p)
        PROVE  BindInv'
    <2>1. UNCHANGED <<binding, journal, changes>>
      BY <1>5 DEF Bind, First, Compare, SyncBinding, Index, bindingVars
    <2>2. \/ \E at \in {"index", "first", "create", "enter"} : Goes(p, at)
          \/ \E report : Ends(p, run[p].id, report)
      BY <1>5 DEF Bind, First, Compare, SyncBinding, Index
    <2>3. DOMAIN run' = DOMAIN run /\ run'[p].at \in {"idle", "index", "first", "create", "enter"}
          /\ \A q \in Active : q # p => run'[q] = run[q]
      BY <2>2, WhenGoes, WhenEnds
    <2> QED
      BY <1>0, <2>1, <2>3, BindStays DEF Loop, Creating
  <1>6. ASSUME NEW p \in Active, Create(p) PROVE BindInv'
    <2>1. UNCHANGED <<journal, changes>>
      BY <1>6 DEF Create
    <2>2. CASE Goes(p, "compare") /\ UNCHANGED binding
      <3>1. DOMAIN run' = DOMAIN run /\ run'[p].at = "compare" /\ \A q \in Active : q # p => run'[q] = run[q]
        BY <2>2, WhenGoes
      <3> QED
        BY <1>0, <2>1, <2>2, <3>1, BindStays DEF Loop, Creating
    <2>3. CASE binding = None /\ binding' = Torn /\ Goes(p, "write")
      <3>1. DOMAIN run' = DOMAIN run /\ run'[p].at = "write" /\ \A q \in Active : q # p => run'[q] = run[q]
        BY <2>3, WhenGoes
      <3>2. \A q \in Active : q # p => run'[q].at \notin Creating
        BY <2>3, <3>1 DEF BindInv
      <3>3. None \notin DOMAIN graphs
        BY DEF ContinueInv, GraphsInv
      <3>4. changes = 0 => /\ \A i \in 2..Len(journal') : FALSE
                           /\ \A q \in Active : run'[q].at \notin Loop
        BY <2>1, <2>3, <3>1, <3>3 DEF BindInv, Loop
      <3> QED
        BY <1>0, <2>1, <2>3, <3>1, <3>2, <3>4, WorkspaceAssumption DEF BindInv, Active, Creating
    <2> QED
      BY <1>6, <2>2, <2>3 DEF Create
  <1>7. ASSUME NEW p \in Active, WriteBinding(p) PROVE BindInv'
    <2>1. /\ run[p].at = "write" /\ UNCHANGED <<journal, changes>> /\ run[p].id \in DOMAIN graphs
          /\ binding' = IF binding = Torn THEN run[p].id ELSE binding
      BY <1>7 DEF WriteBinding, ContinueInv, RunInv, RunOK
    <2>2. DOMAIN run' = DOMAIN run /\ run'[p].at = "sync" /\ \A q \in Active : q # p => run'[q] = run[q]
      BY <1>7, WhenGoes DEF WriteBinding
    <2>3. binding # None /\ \A q \in Active : q # p => run'[q].at \notin Creating
      BY <2>1, <2>2 DEF BindInv, Creating
    <2>4. None \notin DOMAIN graphs /\ Torn \notin DOMAIN graphs
      BY DEF ContinueInv, GraphsInv
    <2>5. binding' \in DOMAIN graphs
      BY <2>1, <2>3 DEF BindInv
    <2>6. binding' # Torn /\ binding' # None
      BY <2>4, <2>5
    <2>7. ASSUME changes = 0
          PROVE  /\ \A i \in 2..Len(journal) : binding' \in DOMAIN graphs /\ SameContract(binding', journal[i])
                 /\ \A q \in Active : run'[q].at \in Loop =>
                        binding' \in DOMAIN graphs /\ SameContract(binding', run'[q].id)
      <3>1. run'[p].at \notin Loop
        BY <2>2 DEF Loop
      <3>2. CASE binding = Torn
        BY <2>2, <2>4, <2>7, <3>1, <3>2 DEF BindInv
      <3>3. CASE binding # Torn
        BY <2>1, <2>2, <2>7, <3>1, <3>3 DEF BindInv
      <3> QED
        BY <3>2, <3>3
    <2> QED
      BY <1>0, <1>s, <2>1, <2>2, <2>3, <2>5, <2>6, <2>7 DEF BindInv, Active
  <1>15. ASSUME NEW p \in Active, WriteFails(p) PROVE BindInv'
    <2>1. /\ run[p].at \in Creating /\ UNCHANGED journal /\ binding' = None
          /\ changes' = IF binding = Torn THEN changes ELSE changes + 1
      BY <1>15 DEF WriteFails, Creating
    <2>2. DOMAIN run' = DOMAIN run /\ run'[p].at = "idle" /\ \A q \in Active : q # p => run'[q] = run[q]
      BY <1>15, WhenEnds DEF WriteFails
    <2>3. \A q \in Active : run'[q].at \notin Creating
      BY <2>1, <2>2 DEF BindInv, Creating
    <2>4. changes' \in Nat /\ (changes' = 0 => changes = 0 /\ binding = Torn)
      BY <2>1 DEF BindInv
    <2>5. Torn \notin DOMAIN graphs
      BY DEF ContinueInv, GraphsInv
    <2>6. changes' = 0 => /\ \A i \in 2..Len(journal') : FALSE
                          /\ \A q \in Active : run'[q].at \notin Loop
      BY <2>1, <2>2, <2>4, <2>5 DEF BindInv, Loop
    <2> QED
      BY <1>0, <2>1, <2>2, <2>3, <2>4, <2>6 DEF BindInv, Active, Creating
  <1>16. ASSUME NEW p \in Active, Replace(p) PROVE BindInv'
    <2>1. /\ run[p].id \in DOMAIN graphs /\ UNCHANGED journal /\ binding' = run[p].id /\ changes' = changes + 1
      BY <1>16 DEF Replace, ContinueInv, RunInv, RunOK
    <2>2. \E report : Ends(p, run[p].id, report)
      BY <1>16 DEF Replace
    <2>3. DOMAIN run' = DOMAIN run /\ run'[p].at = "idle" /\ \A q \in Active : q # p => run'[q] = run[q]
      BY <2>2, WhenEnds
    <2>4. binding' # None /\ binding' # Torn
      BY <2>1 DEF ContinueInv, GraphsInv
    <2>5. changes' \in Nat /\ changes' # 0
      BY <2>1 DEF BindInv
    <2>6. \A q \in Active : run'[q].at \in Creating => \A r \in Active : run'[r].at \in Creating => q = r
      BY <2>3 DEF BindInv, Creating
    <2> QED
      BY <1>0, <2>1, <2>3, <2>4, <2>5, <2>6 DEF BindInv, Active
  <1>8. ASSUME NEW p \in Active, EnterJournal(p) PROVE BindInv'
    <2>1. /\ UNCHANGED <<binding, changes>> /\ run[p].id \in DOMAIN graphs
          /\ journal' = IF journal = << >> THEN <<run[p].id>> ELSE journal
      BY <1>8 DEF EnterJournal, ContinueInv, RunInv, RunOK
    <2>2. DOMAIN run' = DOMAIN run /\ run'[p].at = "idle" /\ \A q \in Active : q # p => run'[q] = run[q]
      BY <1>8, WhenEnds DEF EnterJournal
    <2> QED
      BY <1>0, <2>1, <2>2, BindStays DEF Loop, Creating
  <1>9. ASSUME NEW p \in Active, Continue(p) PROVE BindInv'
    <2>1. run[p].at \in Loop /\ run[p].id \in DOMAIN graphs
      BY <1>9 DEF Continue, ContinueStep, View, Handle, After, Loop, ContinueInv, RunInv, RunOK
    <2>2. UNCHANGED <<binding, changes>> /\ journal' = IF have' # have THEN Append(journal, run[p].id) ELSE journal
      BY <1>9 DEF Continue
    <2>3. /\ DOMAIN run' = DOMAIN run
          /\ \A q \in Active : /\ run'[q].id = run[q].id
                               /\ q # p => run'[q].at = run[q].at
                               /\ q = p => run'[q].at \in {"idle", "view", "step", "after"}
      <3>1. CASE View(p) \/ After(p)
        <4>1. DOMAIN run' = DOMAIN run /\ \A q \in Active : q # p => run'[q] = run[q]
          BY <3>1 DEF View, After, Active
        <4>2. run'[p].id = run[p].id /\ run'[p].at \in {"idle", "view", "step"}
          BY <3>1, LoopPlace
        <4> QED
          BY <4>1, <4>2
      <3>2. CASE Handle(p)
        BY <3>2, HandlePlace
      <3> QED
        BY <1>9, <3>1, <3>2 DEF Continue, ContinueStep
    <2>4. changes = 0 => binding \in DOMAIN graphs /\ SameContract(binding, run[p].id)
      BY <2>1 DEF BindInv
    <2> QED
      BY <1>0, <2>1, <2>2, <2>3, <2>4, BindStays DEF Loop, Creating
  <1>10. ASSUME NEW id \in InUse, Act(id) PROVE BindInv'
    <2>1. /\ UNCHANGED <<binding, changes>> /\ journal' = Append(journal, id) /\ run' = Disturbed
          /\ BindingHalt(id, FALSE) = "none"
      BY <1>10 DEF Act
    <2>2. DOMAIN run' = DOMAIN run /\ \A q \in Active : run'[q].at = run[q].at /\ run'[q].id = run[q].id
      BY <1>0, <2>1 DEF Disturbed, RunType, Active
    <2>3. binding \in DOMAIN graphs /\ SameContract(binding, id)
      BY <2>1, BoundToCurrent
    <2> QED
      BY <1>0, <2>1, <2>2, <2>3, BindStays DEF Loop, Creating
  <1>11. CASE Falls
    <2>1. UNCHANGED <<binding, journal, changes>> /\ run' = Disturbed
      BY <1>11 DEF Falls, bindingVars
    <2>2. DOMAIN run' = DOMAIN run /\ \A q \in Active : run'[q].at = run[q].at /\ run'[q].id = run[q].id
      BY <1>0, <2>1 DEF Disturbed, RunType, Active
    <2> QED
      BY <1>0, <2>1, <2>2, BindStays DEF Loop, Creating
  <1>12. ASSUME NEW p \in Active, Kill(p) PROVE BindInv'
    <2>1. UNCHANGED <<binding, journal, changes>> /\ run' = [run EXCEPT ![p] = NoRun]
      BY <1>12 DEF Kill, bindingVars
    <2>2. DOMAIN run' = DOMAIN run /\ run'[p].at = "idle" /\ \A q \in Active : q # p => run'[q] = run[q]
      BY <2>1 DEF NoRun, Active
    <2> QED
      BY <1>0, <2>1, <2>2, BindStays DEF Loop, Creating
  <1>13. CASE RemoveTorn
    <2>1. /\ binding = Torn /\ binding' = None /\ UNCHANGED <<run, journal, changes>>
          /\ \A q \in Active : run[q].at \notin Creating
      BY <1>13 DEF RemoveTorn, BindInv, Creating
    <2>2. Torn \notin DOMAIN graphs
      BY DEF ContinueInv, GraphsInv
    <2> QED
      BY <1>0, <2>1, <2>2 DEF BindInv, Active
  <1>14. CASE Outside
    <2>1. UNCHANGED <<binding, journal, changes, run>>
      BY <1>14 DEF Outside, bindingVars
    <2> QED
      BY <1>0, <2>1, BindStays
  <1> QED
    BY <1>1, <1>2, <1>3, <1>4, <1>5, <1>6, <1>7, <1>8, <1>9, <1>10, <1>11, <1>12, <1>13, <1>14, <1>15, <1>16 DEF Next

LEMMA BindInvariant == WorkspaceSpec => [](ContinueInv /\ BindInv)
  <1>1. Init => ContinueInv /\ BindInv
    BY InitContinue, InitBinding
  <1>2. ContinueInv /\ BindInv /\ [Next]_vars => (ContinueInv /\ BindInv)'
    BY NextContinue, NextBinding
  <1> QED
    BY <1>1, <1>2, PTL DEF WorkspaceSpec

(* init, graph-upgrade, continue and the humans' commands, racing one      *)
(* another in any number: until a binding is replaced, or one that could   *)
(* be read taken back, what is written after the first entry is written    *)
(* under one contract.                                                     *)
THEOREM OneContractHolds == WorkspaceSpec => []OneContract
  <1>1. ASSUME BindInv PROVE OneContract
    <2> SUFFICES ASSUME changes = 0, NEW i \in 2..Len(journal), NEW j \in 2..Len(journal)
                 PROVE  SameContract(journal[i], journal[j])
      BY DEF OneContract
    <2>1. SameContract(binding, journal[i]) /\ SameContract(binding, journal[j])
      BY <1>1 DEF BindInv
    <2> QED
      BY <2>1, SameContractIs
  <1> QED
    BY <1>1, BindInvariant, PTL

(* bind_graph_initially and graph-upgrade: who may replace or remove a     *)
(* binding that names a contract, also when its creator fails to make it   *)
(* durable after others have read it, and who one that is damaged.         *)
THEOREM BindingIsDisciplined == WorkspaceSpec => BindingDiscipline
  <1> DEFINE Readable == binding \in InUse /\ binding' # binding =>
                        \E p \in Active :
                            /\ run'[p].at = "idle"
                            /\ \/ run[p].at = "replace" /\ binding' = run[p].id
                               \/ run[p].at \in {"write", "sync"} /\ binding' = None
             Damaged == binding = Torn /\ binding' \in InUse =>
                        \E p \in Active : run[p].at \in {"write", "replace"} /\ binding' = run[p].id
             Untouched == binding = Torn => \A p \in Active : run'[p].at = "replace" => run[p].at = "replace"
  <1>1. ASSUME ContinueInv, BindInv, [Next]_vars PROVE Readable /\ Damaged
    <2>1. InUse = DOMAIN graphs /\ None \notin InUse /\ Torn \notin InUse
      BY <1>1 DEF ContinueInv, GraphsInv, InUse
    <2>2. CASE binding' = binding
      BY <2>1, <2>2
    <2>3. CASE binding' # binding
      <3>1. ~UNCHANGED vars
        BY <2>3 DEF vars, bindingVars
      <3>2. ASSUME NEW p \in Active, NEW id \in InUse,
                   \/ StartInit(p, id) \/ \E target \in InUse : Upgrade(p, id, target)
                   \/ \E confirm \in BOOLEAN : StartContinue(p, id, confirm)
            PROVE  binding' = binding
        BY <3>2 DEF StartInit, Upgrade, StartContinue, bindingVars
      <3>3. ASSUME NEW p \in Active, Create(p) PROVE Readable /\ Damaged
        BY <2>1, <2>3, <3>3, WorkspaceAssumption DEF Create
      <3>4. ASSUME NEW p \in Active, WriteBinding(p) PROVE Readable /\ Damaged
        BY <2>1, <2>3, <3>4 DEF WriteBinding
      <3>5. ASSUME NEW p \in Active, WriteFails(p) PROVE Readable /\ Damaged
        <4>1. run[p].at \in {"write", "sync"} /\ binding' = None /\ run'[p].at = "idle"
          BY <3>5, WhenEnds DEF WriteFails
        <4> QED
          BY <2>1, <4>1
      <3>6. ASSUME NEW p \in Active, Replace(p) PROVE Readable /\ Damaged
        <4>1. run[p].at = "replace" /\ binding' = run[p].id /\ run'[p].at = "idle"
          BY <3>6, WhenEnds DEF Replace
        <4> QED
          BY <4>1
      <3>7. ASSUME RemoveTorn PROVE Readable /\ Damaged
        BY <2>1, <3>7 DEF RemoveTorn
      <3>8. ASSUME NEW p \in Active,
                   \/ Bind(p) \/ First(p) \/ Compare(p) \/ SyncBinding(p)
                   \/ Index(p) \/ EnterJournal(p) \/ Continue(p) \/ Kill(p)
            PROVE  binding' = binding
        BY <3>8 DEF Bind, First, Compare, SyncBinding, Index, EnterJournal, Continue, Kill, bindingVars
      <3>9. ASSUME NEW id \in InUse, Act(id) PROVE binding' = binding
        BY <3>9 DEF Act
      <3>10. (Falls => binding' = binding) /\ (Outside => binding' = binding)
        BY DEF Falls, Outside, bindingVars
      <3> HIDE DEF Readable, Damaged
      <3> QED
        BY <1>1, <2>3, <3>1, <3>2, <3>3, <3>4, <3>5, <3>6, <3>7, <3>8, <3>9, <3>10 DEF Next
    <2> QED
      BY <2>2, <2>3
  <1>2. ASSUME ContinueInv, [Next]_vars PROVE Untouched
    <2> SUFFICES ASSUME binding = Torn, NEW p \in Active, run'[p].at = "replace", run[p].at # "replace"
                 PROVE  FALSE
      OBVIOUS
    <2>1. ASSUME NEW q \in Active, NEW id \in InUse, StartInit(q, id) PROVE FALSE
      <3>1. \/ Ends(q, id, BindingHalt(id, TRUE))
            \/ run' = [run EXCEPT ![q] = [NoRun EXCEPT !.at = "bind", !.id = id]]
        BY <2>1 DEF StartInit
      <3> QED
        BY <3>1, WhenEnds, Freshly DEF Active
    <2>2. ASSUME NEW q \in Active, NEW id \in InUse, NEW target \in InUse, Upgrade(q, id, target) PROVE FALSE
      <3>1. UpgradeHalt(id, target) # "none"
        BY DEF UpgradeHalt, BindingState, WorkspaceAssumption
      <3> QED
        BY <2>2, <3>1, WhenEnds DEF Upgrade
    <2>3. ASSUME NEW q \in Active, NEW id \in InUse, NEW confirm \in BOOLEAN, StartContinue(q, id, confirm)
          PROVE  FALSE
      <3>1. Running(id, confirm).at = "view"
        BY DEF Running, NoRun
      <3> QED
        BY <2>3, <3>1, Freshly DEF StartContinue, Active
    <2>4. ASSUME NEW q \in Active, Sets(q) PROVE FALSE
      BY <1>2, <2>4, SetsGoes, WhenGoes, WhenEnds
    <2>5. ASSUME NEW q \in Active, Continue(q) PROVE FALSE
      <3>1. CASE Handle(q)
        BY <1>2, <3>1, HandlePlace
      <3>2. CASE View(q) \/ After(q)
        <4>1. run'[q].at \in {"idle", "view", "step"}
          BY <1>2, <3>2, LoopPlace
        <4>2. q # p => run'[p] = run[p]
          BY <3>2 DEF View, After, Active
        <4> QED
          BY <4>1, <4>2
      <3> QED
        BY <2>5, <3>1, <3>2 DEF Continue, ContinueStep
    <2>6. ASSUME NEW q \in Active, Kill(q) PROVE FALSE
      BY <2>6 DEF Kill, NoRun, Active
    <2>7. ASSUME run' = Disturbed PROVE FALSE
      <3>1. run'[p] = [run[p] EXCEPT !.plan = None] /\ run[p] \in RunType
        BY <1>2, <2>7 DEF Disturbed, Active, ContinueInv, RunInv, RunOK
      <3> QED
        BY <3>1 DEF RunType
    <2>8. ASSUME UNCHANGED run PROVE FALSE
      BY <2>8
    <2>9. ((\E id \in InUse : Act(id)) => run' = Disturbed) /\ (Falls => run' = Disturbed)
      BY DEF Act, Falls
    <2>10. (UNCHANGED vars => UNCHANGED run) /\ (RemoveTorn => UNCHANGED run) /\ (Outside => UNCHANGED run)
      BY DEF vars, RemoveTorn, Outside
    <2> QED
      BY <1>2, <2>1, <2>2, <2>3, <2>4, <2>5, <2>6, <2>7, <2>8, <2>9, <2>10 DEF Next, Sets
  <1>3. ContinueInv /\ BindInv /\ [Next]_vars => [Readable /\ Damaged /\ Untouched]_vars
    BY <1>1, <1>2
  <1>4. [Readable /\ Damaged /\ Untouched]_vars
            <=> [/\ binding \in InUse /\ binding' # binding =>
                       \E p \in Active :
                           /\ run'[p].at = "idle"
                           /\ \/ run[p].at = "replace" /\ binding' = run[p].id
                              \/ run[p].at \in {"write", "sync"} /\ binding' = None
                 /\ binding = Torn /\ binding' \in InUse =>
                       \E p \in Active : run[p].at \in {"write", "replace"} /\ binding' = run[p].id
                 /\ binding = Torn => \A p \in Active : run'[p].at = "replace" => run[p].at = "replace"]_vars
    OBVIOUS
  <1> QED
    BY <1>3, <1>4, BindInvariant, PTL DEF WorkspaceSpec, BindingDiscipline

-----------------------------------------------------------------------------
(* Ownership: the fold keeps only what was decided.                        *)

LEMMA TakenDefined ==
    ASSUME transfers \in Seq(Transfers)
    PROVE  FromJournal \in Seq({t \in Range(transfers) : t.decided})
  <1> DEFINE N == Len(transfers)
             T == {t \in Range(transfers) : t.decided}
             V == Seq(T)
             next == [n \in 1..N |-> [v \in V |-> Take(v, transfers[n])]]
             Wanted(f) == [n \in 0..N |-> IF n = 0 THEN << >> ELSE Take(f[n - 1], transfers[n])]
  <1>1. N \in Nat /\ << >> \in V /\ \A n \in 1..N : transfers[n] \in Range(transfers)
    BY DEF Range
  <1>2. ASSUME NEW v \in V, NEW n \in 1..N PROVE Take(v, transfers[n]) \in V
    <2>1. CASE ValidTransfer(transfers[n], OwnerAfter(v, DefaultRuntime))
      <3>1. transfers[n] \in T
        BY <1>1, <2>1 DEF ValidTransfer
      <3> HIDE DEF T
      <3> QED
        BY <2>1, <3>1 DEF Take
    <2>2. CASE ~ValidTransfer(transfers[n], OwnerAfter(v, DefaultRuntime))
      BY <2>2 DEF Take
    <2> QED
      BY <2>1, <2>2
  <1> HIDE DEF V, N
  <1>3. next \in [1..N -> [V -> V]]
    BY <1>2
  <1> HIDE DEF next
  <1>4. PICK f : Recursion(f, N, V, << >>, next)
    BY <1>1, <1>3, DefinedByRecursion
  <1>5. f = Wanted(f)
    <2>1. f \in [0..N -> V] /\ f[0] = << >> /\ \A n \in 1..N : f[n] = next[n][f[n - 1]]
      BY <1>4 DEF Recursion
    <2>2. ASSUME NEW n \in 0..N PROVE f[n] = Wanted(f)[n]
      <3>1. CASE n = 0
        BY <2>1, <3>1
      <3>2. CASE n # 0
        <4>1. n \in 1..N /\ n - 1 \in 0..N
          BY <1>1, <3>2
        <4>2. f[n - 1] \in V
          BY <2>1, <4>1
        <4> QED
          BY <2>1, <3>2, <4>1, <4>2 DEF next
      <3> QED
        BY <3>1, <3>2
    <2> QED
      BY <2>1, <2>2
  <1>6. Taken = Wanted(Taken)
    <2>1. Taken = CHOOSE g : g = Wanted(g)
      BY Zenon DEF Taken, N
    <2> HIDE DEF Wanted
    <2> QED
      BY <1>5, <2>1, Zenon
  <1> DEFINE S == {n \in 0..N : Taken[n] \in V}
  <1>7. Taken[0] = << >> /\ \A n \in 1..N : Taken[n] = Take(Taken[n - 1], transfers[n])
    <2> SUFFICES ASSUME NEW h, h = Wanted(h)
                 PROVE  h[0] = << >> /\ \A n \in 1..N : h[n] = Take(h[n - 1], transfers[n])
      BY <1>6, Zenon
    <2> QED
      BY <1>1
  <1>8. 0 \in S
    BY <1>1, <1>7
  <1>9. ASSUME NEW n \in 0..(N - 1), n \in S PROVE n + 1 \in S
    <2>1. n + 1 \in 1..N /\ (n + 1) - 1 = n
      BY <1>1
    <2>2. Taken[n + 1] = Take(Taken[n], transfers[n + 1])
      BY <1>7, <2>1
    <2> QED
      BY <1>2, <1>9, <2>1, <2>2
  <1> HIDE DEF S
  <1>10. 0..N \subseteq S
    BY <1>1, <1>8, <1>9, UpTo
  <1>11. Taken[N] \in V
    BY <1>1, <1>10 DEF S
  <1> QED
    BY <1>11 DEF FromJournal, V, N

TransfersInv == transfers \in Seq(Transfers)

LEMMA TransfersInvariant == WorkspaceSpec => []TransfersInv
  <1>1. Init => TransfersInv
    <2> SUFFICES ASSUME Init PROVE TransfersInv
      OBVIOUS
    <2>1. PICK s \in Scenarios : transfers = s.transfers
      BY Zenon DEF Init
    <2> QED
      BY <2>1, WorkspaceAssumption DEF TransfersInv
  <1>2. ASSUME TransfersInv, [Next]_vars PROVE TransfersInv'
    <2>1. ASSUME UNCHANGED transfers PROVE TransfersInv'
      BY <1>2, <2>1 DEF TransfersInv
    <2>2. UNCHANGED vars => UNCHANGED transfers
      BY DEF vars, ownershipVars
    <2>3. ASSUME NEW p \in Active, NEW id \in InUse,
                 \/ StartInit(p, id) \/ \E target \in InUse : Upgrade(p, id, target)
                 \/ \E confirm \in BOOLEAN : StartContinue(p, id, confirm)
          PROVE  UNCHANGED transfers
      BY <2>3 DEF StartInit, Upgrade, StartContinue, ownershipVars
    <2>4. ASSUME NEW p \in Active, Sets(p) \/ Continue(p) \/ Kill(p)
          PROVE  UNCHANGED transfers
      <3>1. Bind(p) \/ First(p) \/ Create(p) \/ Compare(p) => UNCHANGED transfers
        BY DEF Bind, First, Create, Compare, ownershipVars
      <3>2. WriteBinding(p) \/ SyncBinding(p) \/ WriteFails(p) \/ Replace(p) => UNCHANGED transfers
        BY DEF WriteBinding, SyncBinding, WriteFails, Replace, ownershipVars
      <3>3. Index(p) \/ EnterJournal(p) \/ Continue(p) \/ Kill(p) => UNCHANGED transfers
        BY DEF Index, RebuildIndex, EnterJournal, Continue, Kill, ownershipVars
      <3> QED
        BY <2>4, <3>1, <3>2, <3>3 DEF Sets
    <2>5. ASSUME NEW id \in InUse, Act(id) PROVE UNCHANGED transfers
      BY <2>5 DEF Act, ownershipVars
    <2>6. Falls => UNCHANGED transfers
      BY DEF Falls, ownershipVars
    <2>7. RemoveTorn => UNCHANGED transfers
      BY DEF RemoveTorn, ownershipVars
    <2>8. CASE Outside
      <3>1. \/ UNCHANGED transfers
            \/ \E from, to \in Runtimes, ref \in TransferReferences, decided \in BOOLEAN :
                    transfers' = Append(transfers, Transfer(from, to, ref, decided))
        <4>1. \A ts : EditIndex(ts) => UNCHANGED transfers
          BY DEF EditIndex
        <4>2. \A t : Adopt(t) => transfers' = Append(transfers, t)
          BY DEF Adopt
        <4>3. \/ \E from, to \in Runtimes, ref \in TransferReferences, decided \in BOOLEAN :
                    Adopt(Transfer(from, to, ref, decided))
              \/ \E ts : EditIndex(ts)
          BY <2>8, Zenon DEF Outside
        <4> QED
          BY <4>1, <4>2, <4>3
      <3>2. \A from, to \in Runtimes, ref \in TransferReferences, decided \in BOOLEAN :
                Transfer(from, to, ref, decided) \in Transfers
        BY DEF Transfer, Transfers
      <3> QED
        BY <1>2, <2>1, <3>1, <3>2 DEF TransfersInv
    <2> QED
      BY <1>2, <2>1, <2>2, <2>3, <2>4, <2>5, <2>6, <2>7, <2>8 DEF Next, Sets
  <1> QED
    BY <1>1, <1>2, PTL DEF WorkspaceSpec

(* from_journal and verify_against: whatever another program enters and    *)
(* whoever edits the index, continue begins only on a record handed over   *)
(* by a decision.                                                          *)
THEOREM OwnedOnlyByDecision == WorkspaceSpec => OnlyWhatWasHandedOver
  <1> DEFINE Handed == \A p \in Active :
                DefaultRuntime # "ohpipe" /\ run[p].at = "idle" /\ run'[p].at = "view" =>
                    \E i \in DOMAIN transfers : transfers[i].decided /\ transfers[i].to = "ohpipe"
  <1>1. ASSUME TransfersInv, ContinueInv, [Next]_vars PROVE Handed
    <2> SUFFICES ASSUME NEW p \in Active, DefaultRuntime # "ohpipe", run[p].at = "idle", run'[p].at = "view"
                 PROVE  \E i \in DOMAIN transfers : transfers[i].decided /\ transfers[i].to = "ohpipe"
      OBVIOUS
    <2>1. OwnerOf = "ohpipe"
      <3>1. ASSUME NEW q \in Active, NEW id \in InUse, NEW confirm \in BOOLEAN, StartContinue(q, id, confirm)
            PROVE  OwnerOf = "ohpipe"
        <4>1. CASE ContinueHalt(id) = "none"
          BY <4>1 DEF ContinueHalt
        <4>2. CASE ContinueHalt(id) # "none"
          <5>1. Ends(q, id, ContinueHalt(id))
            BY <3>1, <4>2 DEF StartContinue, Ends
          <5>2. run'[p] = run[p] \/ run'[p].at = "idle"
            BY <5>1, WhenEnds
          <5> QED
            BY <5>2
        <4> QED
          BY <4>1, <4>2
      <3>2. ASSUME NEW q \in Active, NEW id \in InUse,
                   StartInit(q, id) \/ \E target \in InUse : Upgrade(q, id, target)
            PROVE  FALSE
        <4>1. \/ \E report : Ends(q, id, report)
              \/ \E at \in {"bind", "replace"} : run' = [run EXCEPT ![q] = [NoRun EXCEPT !.at = at, !.id = id]]
          BY <3>2 DEF StartInit, Upgrade, Replacing
        <4>2. CASE \E report : Ends(q, id, report)
          BY <4>2, WhenEnds
        <4>3. CASE \E at \in {"bind", "replace"} : run' = [run EXCEPT ![q] = [NoRun EXCEPT !.at = at, !.id = id]]
          BY <4>3, Freshly DEF Active
        <4> QED
          BY <4>1, <4>2, <4>3
      <3>3. ASSUME NEW q \in Active, Sets(q) PROVE FALSE
        <4>1. "view" \notin Binding
          BY DEF Binding
        <4> QED
          BY <1>1, <3>3, <4>1, SetsGoes, WhenGoes, WhenEnds
      <3>4. ASSUME NEW q \in Active, Continue(q) PROVE FALSE
        <4>1. q # p
          BY <3>4 DEF Continue, ContinueStep, View, Handle, After
        <4>2. CASE Handle(q)
          BY <1>1, <4>1, <4>2, HandlePlace
        <4>3. CASE View(q) \/ After(q)
          BY <4>1, <4>3 DEF View, After, Active
        <4> QED
          BY <3>4, <4>2, <4>3 DEF Continue, ContinueStep
      <3>5. ASSUME NEW q \in Active, Kill(q) PROVE FALSE
        BY <3>5 DEF Kill, NoRun, Active
      <3>6. ASSUME run' = Disturbed PROVE FALSE
        <4>1. run'[p] = [run[p] EXCEPT !.plan = None] /\ run[p] \in RunType
          BY <1>1, <3>6 DEF Disturbed, Active, ContinueInv, RunInv, RunOK
        <4>2. run'[p].at = run[p].at
          BY <4>1 DEF RunType
        <4> QED
          BY <4>2
      <3>7. ASSUME UNCHANGED run PROVE FALSE
        BY <3>7
      <3>8. (\E id \in InUse : Act(id)) => run' = Disturbed
        BY DEF Act
      <3>9. Falls => run' = Disturbed
        BY DEF Falls
      <3>10. UNCHANGED vars => UNCHANGED run
        BY DEF vars
      <3>11. RemoveTorn => UNCHANGED run
        BY DEF RemoveTorn
      <3>12. Outside => UNCHANGED run
        BY DEF Outside
      <3> QED
        BY <1>1, <3>1, <3>2, <3>3, <3>4, <3>5, <3>6, <3>7, <3>8, <3>9, <3>10, <3>11, <3>12 DEF Next, Sets
    <2>2. FromJournal # << >>
      BY <2>1 DEF OwnerOf, OwnerAfter
    <2>3. FromJournal \in Seq({t \in Range(transfers) : t.decided})
      BY <1>1, TakenDefined DEF TransfersInv
    <2>4. Last(FromJournal).to = "ohpipe"
      BY <2>1, <2>2 DEF OwnerOf, OwnerAfter
    <2>5. Last(FromJournal) \in {t \in Range(transfers) : t.decided}
      BY <2>2, <2>3 DEF Last
    <2> QED
      BY <2>4, <2>5 DEF Range
  <1>2. TransfersInv /\ ContinueInv /\ [Next]_vars => [Handed]_vars
    BY <1>1
  <1>3. WorkspaceSpec => [][Handed]_vars
    BY <1>2, ContinueInvariant, TransfersInvariant, PTL DEF WorkspaceSpec
  <1> QED
    BY <1>3 DEF OnlyWhatWasHandedOver

=============================================================================
