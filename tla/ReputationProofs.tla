-------------------------- MODULE ReputationProofs --------------------------
(***************************************************************************)
(* Standing, for every log: reach anchors the least set its vouches ask    *)
(* for; what can change whom a log anchors; and what another community     *)
(* re-derives from a bundle, as a selection of the log it comes from.      *)
(***************************************************************************)
EXTENDS Reputation, DataTheorems, FiniteSetTheorems

-----------------------------------------------------------------------------
(* Whom a set of edges reaches.                                            *)

Roots(L, p) == {m \in People : IsRoot(L, m, p)}

\* The edges are vouches before p among the people.
Among(L, live, p) ==
    p \in Nat /\ p >= 1 /\ \A e \in live : e \in 1 .. p - 1 /\ L[e].who \in People /\ L[e].of \in People

\* D has the subject of every edge whose voucher is in D or a root.
Complete(L, live, p, D) ==
    \A e \in live : L[e].who \in D \cup Roots(L, p) => L[e].of \in D

\* X has the roots and the subject of every edge whose voucher is in X.
Spans(L, live, p, X) ==
    Roots(L, p) \subseteq X /\ \A e \in live : L[e].who \in X => L[e].of \in X

LEMMA TryEdgeIs ==
    ASSUME NEW L, NEW p, NEW set, NEW e, L[e].who \in People, L[e].of \in People
    PROVE  /\ DOMAIN set \subseteq DOMAIN TryEdge(L, p, set, e)
           /\ DOMAIN TryEdge(L, p, set, e) \subseteq DOMAIN set \cup {L[e].who, L[e].of}
           /\ L[e].who \in DOMAIN set \cup Roots(L, p) => L[e].of \in DOMAIN TryEdge(L, p, set, e)
           /\ L[e].who \notin DOMAIN set \cup Roots(L, p) => TryEdge(L, p, set, e) = set
<1>1. CASE L[e].of \in DOMAIN set \/ (L[e].who \notin DOMAIN set /\ ~IsRoot(L, L[e].who, p))
  <2>1. TryEdge(L, p, set, e) = set
    BY <1>1 DEF TryEdge
  <2> QED
    BY <1>1, <2>1 DEF Roots
<1>2. CASE ~(L[e].of \in DOMAIN set \/ (L[e].who \notin DOMAIN set /\ ~IsRoot(L, L[e].who, p)))
  <2>1. DOMAIN TryEdge(L, p, set, e) = DOMAIN set \cup {L[e].who, L[e].of}
    BY <1>2 DEF TryEdge
  <2> QED
    BY <1>2, <2>1 DEF Roots
<1> QED
  BY <1>1, <1>2

IsPass(t, L, live, p, set, n) ==
    t = [i \in 0 .. n |-> IF i = 0 THEN set
                          ELSE IF i \in live THEN TryEdge(L, p, t[i - 1], i) ELSE t[i - 1]]

LEMMA PassExists ==
    ASSUME NEW L, NEW live, NEW p, NEW set, NEW n \in Nat
    PROVE  \E t : IsPass(t, L, live, p, set, n)
<1> DEFINE Bad == {k \in 0 .. n : ~ \E t : IsPass(t, L, live, p, set, k)}
           After(b, i) == IF i \in live THEN TryEdge(L, p, b, i) ELSE b
<1>1. SUFFICES ASSUME Bad # {} PROVE FALSE
  OBVIOUS
<1>2. Bad \subseteq Nat
  OBVIOUS
<1>3. PICK k \in Bad : \A m \in Bad : k <= m
  <2> HIDE DEF Bad
  <2> QED
    BY <1>1, <1>2, LeastNatural
<1>4. k # 0
  <2>1. IsPass([i \in 0 .. 0 |-> set], L, live, p, set, 0)
    BY DEF IsPass
  <2> QED
    BY <2>1
<1>5. k - 1 \in 0 .. n /\ k - 1 \notin Bad /\ k \in Nat
  BY <1>3, <1>4
<1>6. PICK t : IsPass(t, L, live, p, set, k - 1)
  BY <1>5
<1>7. \A i \in 0 .. k - 1 : t[i] = IF i = 0 THEN set ELSE After(t[i - 1], i)
  BY <1>6 DEF IsPass
<1> HIDE DEF After
<1> DEFINE u == [i \in 0 .. k |-> IF i < k THEN t[i] ELSE After(t[k - 1], k)]
<1>8. ASSUME NEW i \in 0 .. k
      PROVE  u[i] = IF i = 0 THEN set ELSE After(u[i - 1], i)
  <2>1. CASE i = k
    <3>1. k - 1 \in 0 .. k /\ k - 1 < k
      BY <1>4, <1>5
    <3> QED
      BY <1>4, <1>5, <2>1, <3>1
  <2>2. CASE i # k
    <3>1. i \in 0 .. k - 1 /\ (i # 0 => i - 1 \in 0 .. k /\ i - 1 < k) /\ i < k
      BY <1>5, <2>2
    <3> QED
      BY <1>7, <3>1
  <2> QED
    BY <2>1, <2>2
<1>9. u = [i \in 0 .. k |-> IF i = 0 THEN set ELSE After(u[i - 1], i)]
  <2>1. PICK w : w = u
    OBVIOUS
  <2>2. \A i \in 0 .. k : w[i] = IF i = 0 THEN set ELSE After(w[i - 1], i)
    BY <1>8, <2>1
  <2>3. w = [i \in 0 .. k |-> w[i]]
    BY <2>1
  <2> HIDE DEF u
  <2> QED
    BY <2>1, <2>2, <2>3
<1>10. IsPass(u, L, live, p, set, k)
  BY <1>9 DEF IsPass, After
<1> QED
  BY <1>10

PassTable(t, L, live, p, set) ==
    /\ PassOver(L, live, p, set) = t[p - 1] /\ t[0] = set
    /\ \A i \in 1 .. p - 1 : t[i] = IF i \in live THEN TryEdge(L, p, t[i - 1], i) ELSE t[i - 1]

LEMMA PassOverIs ==
    ASSUME NEW L, NEW live, NEW p, NEW set, Among(L, live, p)
    PROVE  \E t : PassTable(t, L, live, p, set)
<1> DEFINE Eq(t) == t = [i \in 0 .. p - 1 |->
                           IF i = 0 THEN set
                           ELSE IF i \in live THEN TryEdge(L, p, t[i - 1], i) ELSE t[i - 1]]
           w == CHOOSE t : Eq(t)
<1>1. PassOver(L, live, p, set) = w[p - 1]
  BY DEF PassOver
<1>2. p - 1 \in Nat
  BY DEF Among
<1>3. \E t : Eq(t)
  <2>1. PICK t : IsPass(t, L, live, p, set, p - 1)
    BY <1>2, PassExists
  <2>2. Eq(t)
    BY <2>1 DEF IsPass
  <2> QED
    BY <2>2
<1>4. Eq(w)
  BY <1>3
<1> HIDE DEF w
<1>5. w[0] = set
  BY <1>2, <1>4
<1>6. \A i \in 1 .. p - 1 : w[i] = IF i \in live THEN TryEdge(L, p, w[i - 1], i) ELSE w[i - 1]
  BY <1>2, <1>4
<1>7. PassTable(w, L, live, p, set)
  BY <1>1, <1>5, <1>6 DEF PassTable
<1> QED
  BY <1>7

\* A pass only adds, reaches the subject of every edge whose voucher it started
\* from, and adds nobody who is not on the way from a root.
LEMMA PassFacts ==
    ASSUME NEW L, NEW live, NEW p, NEW set, Among(L, live, p)
    PROVE  LET D == DOMAIN set
               E == DOMAIN PassOver(L, live, p, set)
           IN  /\ D \subseteq E
               /\ \A e \in live : L[e].who \in D \cup Roots(L, p) => L[e].of \in E
               /\ \A X : Spans(L, live, p, X) /\ D \subseteq X => E \subseteq X
<1>0. PICK t : PassTable(t, L, live, p, set)
  BY PassOverIs
<1>1. /\ PassOver(L, live, p, set) = t[p - 1] /\ t[0] = set
      /\ \A i \in 1 .. p - 1 : t[i] = IF i \in live THEN TryEdge(L, p, t[i - 1], i) ELSE t[i - 1]
  BY <1>0 DEF PassTable
<1>2. p - 1 \in Nat /\ p \in Nat /\ \A e \in live : e \in 1 .. p - 1 /\ L[e].who \in People /\ L[e].of \in People
  BY DEF Among
<1>3. \A i \in 1 .. p - 1 : DOMAIN t[i - 1] \subseteq DOMAIN t[i]
  <2> SUFFICES ASSUME NEW i \in 1 .. p - 1 PROVE DOMAIN t[i - 1] \subseteq DOMAIN t[i]
    OBVIOUS
  <2>1. CASE i \in live
    BY <1>1, <1>2, <2>1, TryEdgeIs
  <2>2. CASE i \notin live
    BY <1>1, <2>2
  <2> QED
    BY <2>1, <2>2
<1>4. ASSUME NEW k \in 0 .. p - 1 PROVE DOMAIN t[k] \subseteq DOMAIN t[p - 1]
  <2> DEFINE Bad == {j \in 0 .. p - 1 : k <= j /\ ~(DOMAIN t[k] \subseteq DOMAIN t[j])}
  <2>1. SUFFICES ASSUME Bad # {} PROVE FALSE
    BY <1>2
  <2>2. Bad \subseteq Nat
    OBVIOUS
  <2>3. PICK j \in Bad : \A m \in Bad : j <= m
    <3> HIDE DEF Bad
    <3> QED
      BY <2>1, <2>2, LeastNatural
  <2>4. j \in 0 .. p - 1 /\ k <= j /\ ~(DOMAIN t[k] \subseteq DOMAIN t[j])
    OBVIOUS
  <2>5. j # k
    BY <2>4
  <2>6. j \in 1 .. p - 1 /\ j - 1 \in 0 .. p - 1 /\ k <= j - 1 /\ ~(j <= j - 1)
    BY <1>2, <2>4, <2>5
  <2>7. DOMAIN t[k] \subseteq DOMAIN t[j - 1]
    <3>1. j - 1 \notin Bad
      <4> HIDE DEF Bad
      <4> QED
        BY <2>3, <2>6
    <3> QED
      BY <2>6, <3>1
  <2> QED
    BY <1>3, <2>4, <2>6, <2>7
<1>5. DOMAIN set \subseteq DOMAIN t[p - 1]
  BY <1>1, <1>2, <1>4
<1>6. ASSUME NEW e \in live, L[e].who \in DOMAIN set \cup Roots(L, p)
      PROVE  L[e].of \in DOMAIN t[p - 1]
  <2>1. e \in 1 .. p - 1 /\ e \in 0 .. p - 1 /\ e - 1 \in 0 .. p - 1
    BY <1>2
  <2>2. DOMAIN set \subseteq DOMAIN t[e - 1]
    <3> DEFINE Bad == {j \in 0 .. p - 1 : ~(DOMAIN set \subseteq DOMAIN t[j])}
    <3>1. SUFFICES ASSUME Bad # {} PROVE FALSE
      BY <2>1
    <3>2. Bad \subseteq Nat
      OBVIOUS
    <3>3. PICK j \in Bad : \A m \in Bad : j <= m
      <4> HIDE DEF Bad
      <4> QED
        BY <3>1, <3>2, LeastNatural
    <3>4. j \in 0 .. p - 1 /\ ~(DOMAIN set \subseteq DOMAIN t[j])
      OBVIOUS
    <3>5. j # 0
      BY <1>1, <3>4
    <3>6. j \in 1 .. p - 1 /\ j - 1 \in 0 .. p - 1 /\ ~(j <= j - 1)
      BY <1>2, <3>4, <3>5
    <3>7. j - 1 \notin Bad
      <4> HIDE DEF Bad
      <4> QED
        BY <3>3, <3>6
    <3> QED
      BY <1>3, <3>4, <3>6, <3>7
  <2>3. t[e] = TryEdge(L, p, t[e - 1], e)
    BY <1>1, <2>1
  <2>4. L[e].of \in DOMAIN t[e]
    BY <1>2, <1>6, <2>2, <2>3, TryEdgeIs
  <2> QED
    BY <1>4, <2>1, <2>4
<1>7. ASSUME NEW X, Spans(L, live, p, X), DOMAIN set \subseteq X
      PROVE  DOMAIN t[p - 1] \subseteq X
  <2> DEFINE Bad == {j \in 0 .. p - 1 : ~(DOMAIN t[j] \subseteq X)}
  <2>1. SUFFICES ASSUME Bad # {} PROVE FALSE
    BY <1>2
  <2>2. Bad \subseteq Nat
    OBVIOUS
  <2>3. PICK j \in Bad : \A m \in Bad : j <= m
    <3> HIDE DEF Bad
    <3> QED
      BY <2>1, <2>2, LeastNatural
  <2>4. j \in 0 .. p - 1 /\ ~(DOMAIN t[j] \subseteq X)
    OBVIOUS
  <2>5. j # 0
    BY <1>1, <1>7, <2>4
  <2>6. j \in 1 .. p - 1 /\ j - 1 \in 0 .. p - 1 /\ ~(j <= j - 1)
    BY <1>2, <2>4, <2>5
  <2>7. DOMAIN t[j - 1] \subseteq X
    <3>1. j - 1 \notin Bad
      <4> HIDE DEF Bad
      <4> QED
        BY <2>3, <2>6
    <3> QED
      BY <2>6, <3>1
  <2>8. CASE j \notin live
    BY <1>1, <2>4, <2>6, <2>7, <2>8
  <2>9. CASE j \in live
    <3>1. t[j] = TryEdge(L, p, t[j - 1], j)
      BY <1>1, <2>6, <2>9
    <3>2. CASE L[j].who \in DOMAIN t[j - 1] \cup Roots(L, p)
      <4>1. L[j].who \in X /\ L[j].of \in X
        BY <1>7, <2>7, <2>9, <3>2 DEF Spans
      <4>2. DOMAIN t[j] \subseteq DOMAIN t[j - 1] \cup {L[j].who, L[j].of}
        BY <1>2, <2>9, <3>1, TryEdgeIs
      <4> QED
        BY <2>4, <2>7, <4>1, <4>2
    <3>3. CASE L[j].who \notin DOMAIN t[j - 1] \cup Roots(L, p)
      <4>1. t[j] = t[j - 1]
        BY <1>2, <2>9, <3>1, <3>3, TryEdgeIs
      <4> QED
        BY <2>4, <2>7, <4>1
    <3> QED
      BY <3>2, <3>3
  <2> QED
    BY <2>8, <2>9
<1> QED
  BY <1>1, <1>5, <1>6, <1>7

\* A set that has everything keeps everything through a pass.
LEMMA CompleteKept ==
    ASSUME NEW L, NEW live, NEW p, NEW set, Among(L, live, p), Complete(L, live, p, DOMAIN set)
    PROVE  Complete(L, live, p, DOMAIN PassOver(L, live, p, set))
<1> DEFINE D == DOMAIN set
           E == DOMAIN PassOver(L, live, p, set)
<1>1. D \subseteq E /\ \A X : Spans(L, live, p, X) /\ D \subseteq X => E \subseteq X
  BY PassFacts
<1> HIDE DEF E
<1>2. Spans(L, live, p, D \cup Roots(L, p))
  BY DEF Spans, Complete
<1>3. E \subseteq D \cup Roots(L, p)
  BY <1>1, <1>2
<1>4. Complete(L, live, p, E)
  BY <1>1, <1>3 DEF Complete
<1> QED
  BY <1>4 DEF E

\* The edges whose subject has not been reached.
Waiting(L, live, D) == {e \in live : L[e].of \notin D}

\* A pass that does not find everything in place reaches another subject.
LEMMA PassReaches ==
    ASSUME NEW L, NEW live, NEW p, NEW set, Among(L, live, p), ~Complete(L, live, p, DOMAIN set)
    PROVE  LET U == Waiting(L, live, DOMAIN set)
               V == Waiting(L, live, DOMAIN PassOver(L, live, p, set))
           IN  /\ IsFiniteSet(U) /\ IsFiniteSet(V) /\ Cardinality(U) \in Nat /\ Cardinality(V) \in Nat
               /\ Cardinality(V) + 1 <= Cardinality(U)
<1> DEFINE E == DOMAIN PassOver(L, live, p, set)
           U == Waiting(L, live, DOMAIN set)
           V == Waiting(L, live, E)
<1>1. /\ DOMAIN set \subseteq E
      /\ \A e \in live : L[e].who \in DOMAIN set \cup Roots(L, p) => L[e].of \in E
  BY PassFacts
<1> HIDE DEF E
<1>2. PICK e \in live : L[e].who \in DOMAIN set \cup Roots(L, p) /\ L[e].of \notin DOMAIN set
  BY DEF Complete
<1>3. e \in U /\ e \notin V /\ V \subseteq U
  BY <1>1, <1>2 DEF Waiting
<1>4. IsFiniteSet(U)
  <2>1. p - 1 \in Int /\ U \subseteq 1 .. p - 1
    BY DEF Among, Waiting
  <2>2. IsFiniteSet(1 .. p - 1)
    BY <2>1, FS_Interval
  <2> QED
    BY <2>1, <2>2, FS_Subset
<1>5. IsFiniteSet(V) /\ V \subseteq U \ {e} /\ IsFiniteSet(U \ {e})
      /\ Cardinality(U \ {e}) = Cardinality(U) - 1
  <2>1. IsFiniteSet(V)
    BY <1>3, <1>4, FS_Subset
  <2>2. IsFiniteSet(U \ {e}) /\ Cardinality(U \ {e}) = Cardinality(U) - 1
    <3> HIDE DEF U
    <3> QED
      BY <1>3, <1>4, FS_RemoveElement
  <2> QED
    BY <1>3, <2>1, <2>2
<1>6. Cardinality(V) <= Cardinality(U \ {e})
  <2> HIDE DEF U, V
  <2> QED
    BY <1>5, FS_Subset
<1>7. Cardinality(U) \in Nat /\ Cardinality(V) \in Nat
  BY <1>4, <1>5, FS_CardinalityType
<1>8. Cardinality(V) + 1 <= Cardinality(U)
  <2> HIDE DEF U, V
  <2> QED
    BY <1>5, <1>6, <1>7
<1> QED
  BY <1>4, <1>5, <1>7, <1>8 DEF E

IsReach(t, L, live, p, n) ==
    t = [k \in 0 .. n |-> IF k = 0 THEN [m \in {} |-> 0] ELSE PassOver(L, live, p, t[k - 1])]

LEMMA ReachExists ==
    ASSUME NEW L, NEW live, NEW p, NEW n \in Nat
    PROVE  \E t : IsReach(t, L, live, p, n)
<1> DEFINE Bad == {k \in 0 .. n : ~ \E t : IsReach(t, L, live, p, k)}
           none == [m \in {} |-> 0]
<1>1. SUFFICES ASSUME Bad # {} PROVE FALSE
  OBVIOUS
<1>2. Bad \subseteq Nat
  OBVIOUS
<1>3. PICK k \in Bad : \A m \in Bad : k <= m
  <2> HIDE DEF Bad
  <2> QED
    BY <1>1, <1>2, LeastNatural
<1> HIDE DEF none
<1>4. k # 0
  <2>1. IsReach([i \in 0 .. 0 |-> none], L, live, p, 0)
    BY DEF IsReach, none
  <2> QED
    BY <2>1
<1>5. k - 1 \in 0 .. n /\ k - 1 \notin Bad /\ k \in Nat
  BY <1>3, <1>4
<1>6. PICK t : IsReach(t, L, live, p, k - 1)
  BY <1>5
<1>7. \A i \in 0 .. k - 1 : t[i] = IF i = 0 THEN none ELSE PassOver(L, live, p, t[i - 1])
  BY <1>6 DEF IsReach, none
<1> DEFINE u == [i \in 0 .. k |-> IF i < k THEN t[i] ELSE PassOver(L, live, p, t[k - 1])]
<1>8. ASSUME NEW i \in 0 .. k
      PROVE  u[i] = IF i = 0 THEN none ELSE PassOver(L, live, p, u[i - 1])
  <2>1. CASE i = k
    <3>1. k - 1 \in 0 .. k /\ k - 1 < k
      BY <1>4, <1>5
    <3> QED
      BY <1>4, <1>5, <2>1, <3>1
  <2>2. CASE i # k
    <3>1. i \in 0 .. k - 1 /\ (i # 0 => i - 1 \in 0 .. k /\ i - 1 < k) /\ i < k
      BY <1>5, <2>2
    <3> QED
      BY <1>7, <3>1
  <2> QED
    BY <2>1, <2>2
<1>9. IsReach(u, L, live, p, k)
  BY <1>8 DEF IsReach, none
<1> QED
  BY <1>9

ReachTable(t, L, live, p, n) ==
    n \in Nat /\ DOMAIN t[0] = {} /\ \A k \in 1 .. n : t[k] = PassOver(L, live, p, t[k - 1])

LEMMA ReachIs ==
    ASSUME NEW L, NEW edges, NEW p, NEW at, Among(L, LiveEdges(L, edges, p, at), p)
    PROVE  \E t : /\ ReachTable(t, L, LiveEdges(L, edges, p, at), p, Cardinality(LiveEdges(L, edges, p, at)))
                  /\ Reach(L, edges, p, at) = t[Cardinality(LiveEdges(L, edges, p, at))]
<1>1. PICK live : live = LiveEdges(L, edges, p, at)
  OBVIOUS
<1>2. PICK n : n = Cardinality(live)
  OBVIOUS
<1>3. n \in Nat
  <2>1. p - 1 \in Int /\ live \subseteq 1 .. p - 1
    BY <1>1 DEF Among
  <2>2. IsFiniteSet(live)
    <3>1. IsFiniteSet(1 .. p - 1)
      BY <2>1, FS_Interval
    <3> QED
      BY <2>1, <3>1, FS_Subset
  <2> QED
    BY <1>2, <2>2, FS_CardinalityType
<1> DEFINE Eq(t) == t = [k \in 0 .. n |-> IF k = 0 THEN [m \in {} |-> 0]
                                          ELSE PassOver(L, live, p, t[k - 1])]
           w == CHOOSE t : Eq(t)
<1>4. Reach(L, edges, p, at) = w[n]
  BY <1>1, <1>2 DEF Reach
<1>5. \E t : Eq(t)
  <2>1. PICK t : IsReach(t, L, live, p, n)
    BY <1>3, ReachExists
  <2>2. Eq(t)
    BY <2>1 DEF IsReach
  <2> QED
    BY <2>2
<1>6. Eq(w)
  BY <1>5
<1> HIDE DEF w
<1>7. w[0] = [m \in {} |-> 0] /\ \A k \in 1 .. n : w[k] = PassOver(L, live, p, w[k - 1])
  BY <1>3, <1>6
<1>8. ReachTable(w, L, live, p, n)
  BY <1>3, <1>7 DEF ReachTable
<1> QED
  BY <1>1, <1>2, <1>4, <1>8

\* Who is anchored at p.
Anchors(L, edges, p, at) == DOMAIN Reach(L, edges, p, at) \cup Roots(L, p)

\* reach (context.rs) ends with the least set that has the roots and the subject of
\* every live edge whose voucher it has: "the least fixed point of ADR-0038", whatever
\* the order of the edges, and with no more passes than there are edges.
THEOREM ReachIsLeast ==
    ASSUME NEW L, NEW edges, NEW p, NEW at, NEW live, live = LiveEdges(L, edges, p, at),
           Among(L, live, p)
    PROVE  /\ Spans(L, live, p, Anchors(L, edges, p, at))
           /\ \A X : Spans(L, live, p, X) => Anchors(L, edges, p, at) \subseteq X
<1>1. PICK n : n = Cardinality(live)
  OBVIOUS
<1>2. PICK t : ReachTable(t, L, live, p, n) /\ Reach(L, edges, p, at) = t[n]
  BY <1>1, ReachIs
<1>3. n \in Nat /\ DOMAIN t[0] = {} /\ \A k \in 1 .. n : t[k] = PassOver(L, live, p, t[k - 1])
  BY <1>2 DEF ReachTable
<1> DEFINE Fine(k) == \/ Complete(L, live, p, DOMAIN t[k])
                      \/ /\ Cardinality(Waiting(L, live, DOMAIN t[k])) \in Nat
                         /\ Cardinality(Waiting(L, live, DOMAIN t[k])) <= n - k
           Bad == {k \in 0 .. n : ~Fine(k)}
<1>4. Bad = {}
  <2>1. SUFFICES ASSUME Bad # {} PROVE FALSE
    OBVIOUS
  <2>2. Bad \subseteq Nat
    OBVIOUS
  <2>3. PICK k \in Bad : \A m \in Bad : k <= m
    <3> HIDE DEF Bad
    <3> QED
      BY <2>1, <2>2, LeastNatural
  <2>4. k \in 0 .. n /\ ~Fine(k)
    OBVIOUS
  <2>5. k # 0
    <3>1. Waiting(L, live, DOMAIN t[0]) = live
      BY <1>3 DEF Waiting
    <3> QED
      BY <1>1, <1>3, <2>4, <3>1
  <2>6. k \in 1 .. n /\ k - 1 \in 0 .. n /\ ~(k <= k - 1)
    BY <1>3, <2>4, <2>5
  <2>7. Fine(k - 1)
    <3>1. k - 1 \notin Bad
      <4> HIDE DEF Bad
      <4> QED
        BY <2>3, <2>6
    <3> QED
      BY <2>6, <3>1
  <2>8. t[k] = PassOver(L, live, p, t[k - 1])
    BY <1>3, <2>6
  <2>9. CASE Complete(L, live, p, DOMAIN t[k - 1])
    <3>1. Complete(L, live, p, DOMAIN t[k])
      BY <2>8, <2>9, CompleteKept
    <3> QED
      BY <2>4, <3>1
  <2>10. CASE ~Complete(L, live, p, DOMAIN t[k - 1])
    <3>1. PICK a : a = Cardinality(Waiting(L, live, DOMAIN t[k - 1]))
      OBVIOUS
    <3>2. PICK b : b = Cardinality(Waiting(L, live, DOMAIN t[k]))
      OBVIOUS
    <3>3. a \in Nat /\ a <= n - (k - 1)
      BY <2>7, <2>10, <3>1
    <3>4. b \in Nat /\ b + 1 <= a
      BY <2>8, <2>10, <3>1, <3>2, PassReaches
    <3>5. b <= n - k
      BY <1>3, <2>4, <3>3, <3>4
    <3> QED
      BY <2>4, <3>2, <3>4, <3>5
  <2> QED
    BY <2>9, <2>10
<1>5. Complete(L, live, p, DOMAIN t[n])
  <2>1. Fine(n)
    BY <1>3, <1>4
  <2>2. CASE Complete(L, live, p, DOMAIN t[n])
    BY <2>2
  <2>3. CASE ~Complete(L, live, p, DOMAIN t[n])
    <3>1. PICK b : b = Cardinality(Waiting(L, live, DOMAIN t[n]))
      OBVIOUS
    <3>2. b \in Nat /\ b <= n - n
      BY <2>1, <2>3, <3>1
    <3>3. b = 0
      BY <1>3, <3>2
    <3>4. IsFiniteSet(Waiting(L, live, DOMAIN t[n]))
      BY <2>3, PassReaches
    <3>5. Waiting(L, live, DOMAIN t[n]) = {}
      BY <3>1, <3>3, <3>4, FS_EmptySet
    <3> QED
      BY <3>5 DEF Waiting, Complete
  <2> QED
    BY <2>2, <2>3
<1>6. Spans(L, live, p, Anchors(L, edges, p, at))
  BY <1>2, <1>5 DEF Spans, Complete, Anchors
<1>7. ASSUME NEW X, Spans(L, live, p, X) PROVE Anchors(L, edges, p, at) \subseteq X
  <2> DEFINE Out == {k \in 0 .. n : ~(DOMAIN t[k] \subseteq X)}
  <2>1. Out = {}
    <3>1. SUFFICES ASSUME Out # {} PROVE FALSE
      OBVIOUS
    <3>2. Out \subseteq Nat
      OBVIOUS
    <3>3. PICK k \in Out : \A m \in Out : k <= m
      <4> HIDE DEF Out
      <4> QED
        BY <3>1, <3>2, LeastNatural
    <3>4. k \in 0 .. n /\ ~(DOMAIN t[k] \subseteq X)
      OBVIOUS
    <3>5. k # 0
      BY <1>3, <3>4
    <3>6. k \in 1 .. n /\ k - 1 \in 0 .. n /\ ~(k <= k - 1)
      BY <1>3, <3>4, <3>5
    <3>7. DOMAIN t[k - 1] \subseteq X
      <4>1. k - 1 \notin Out
        <5> HIDE DEF Out
        <5> QED
          BY <3>3, <3>6
      <4> QED
        BY <3>6, <4>1
    <3>8. t[k] = PassOver(L, live, p, t[k - 1])
      BY <1>3, <3>6
    <3> QED
      BY <1>7, <3>4, <3>7, <3>8, PassFacts
  <2>2. DOMAIN t[n] \subseteq X
    BY <1>3, <2>1
  <2> QED
    BY <1>2, <1>7, <2>2 DEF Spans, Anchors
<1> QED
  BY <1>6, <1>7

-----------------------------------------------------------------------------
(* What a log says at a position is in the entries before it.              *)

\* M is L with an entry more.
Grown(L, M) == Len(L) \in Nat /\ Len(M) = Len(L) + 1 /\ \A i \in 1 .. Len(L) : M[i] = L[i]

LEMMA GrownBy ==
    ASSUME NEW S, NEW L \in Seq(S), NEW x
    PROVE  Grown(L, Append(L, x)) /\ Append(L, x)[Len(L) + 1] = x
<1>1. PICK y : y = x
  OBVIOUS
<1>2. L \in Seq(S \cup {y}) /\ y \in S \cup {y}
  OBVIOUS
<1>3. Len(L) \in Nat /\ Len(Append(L, y)) = Len(L) + 1
      /\ (\A i \in 1 .. Len(L) : Append(L, y)[i] = L[i]) /\ Append(L, y)[Len(L) + 1] = y
  BY <1>2
<1> QED
  BY <1>1, <1>3 DEF Grown

Events(L, m, p) == {i \in EntriesOf(L, {"enroll", "revoke"}) : L[i].who = m /\ i < p}

LEMMA LastEventIs ==
    \A L, m, p : LastEvent(L, m, p) =
        IF Events(L, m, p) = {} THEN [kind |-> "revoke"] ELSE L[Max(Events(L, m, p))]
BY DEF LastEvent, Events

LEMMA EventsMax ==
    ASSUME NEW L, Len(L) \in Nat, NEW m, NEW p, Events(L, m, p) # {}
    PROVE  /\ Max(Events(L, m, p)) \in Events(L, m, p)
           /\ \A i \in Events(L, m, p) : i <= Max(Events(L, m, p))
<1>1. Events(L, m, p) \subseteq 1 .. Len(L)
  BY DEF Events, EntriesOf
<1> QED
  BY <1>1, MaxOfRange

LEMMA EventsLocal ==
    ASSUME NEW L, NEW M, Grown(L, M), NEW m, NEW p \in 1 .. Len(L) + 1
    PROVE  /\ Events(M, m, p) = Events(L, m, p)
           /\ LastEvent(M, m, p) = LastEvent(L, m, p)
           /\ EnrolledAt(M, m, p) <=> EnrolledAt(L, m, p)
           /\ IsRoot(M, m, p) <=> IsRoot(L, m, p)
<1>1. Len(L) \in Nat /\ Len(M) = Len(L) + 1 /\ \A i \in 1 .. Len(L) : M[i] = L[i]
  BY DEF Grown
<1>2. \A i : i \in 1 .. Len(M) /\ i < p <=> i \in 1 .. Len(L) /\ i < p
  BY <1>1
<1>3. \A i : i \in Events(M, m, p) <=> i \in Events(L, m, p)
  BY <1>1, <1>2 DEF Events, EntriesOf
<1>4. Events(M, m, p) = Events(L, m, p)
  BY <1>3
<1>5. LastEvent(M, m, p) = LastEvent(L, m, p)
  <2>1. CASE Events(L, m, p) = {}
    BY <1>4, <2>1, LastEventIs
  <2>2. CASE Events(L, m, p) # {}
    <3>1. Max(Events(L, m, p)) \in Events(L, m, p)
      BY <1>1, <2>2, EventsMax
    <3>2. PICK k : k = Max(Events(L, m, p))
      OBVIOUS
    <3>3. k \in 1 .. Len(L)
      BY <3>1, <3>2 DEF Events, EntriesOf
    <3> QED
      BY <1>1, <1>4, <2>2, <3>2, <3>3, LastEventIs
  <2> QED
    BY <2>1, <2>2
<1> QED
  BY <1>4, <1>5 DEF EnrolledAt, IsRoot

LEMMA RootsLocal ==
    ASSUME NEW L, NEW M, Grown(L, M), NEW p \in 1 .. Len(L) + 1
    PROVE  Roots(M, p) = Roots(L, p)
BY EventsLocal DEF Roots

LEMMA RevokedLocal ==
    ASSUME NEW L, NEW M, Grown(L, M), NEW m, NEW a, NEW p \in 1 .. Len(L) + 1
    PROVE  RevokedBetween(M, m, a, p) <=> RevokedBetween(L, m, a, p)
<1>1. Len(L) \in Nat /\ Len(M) = Len(L) + 1 /\ \A i \in 1 .. Len(L) : M[i] = L[i]
  BY DEF Grown
<1>2. \A i : i \in 1 .. Len(M) /\ i < p <=> i \in 1 .. Len(L) /\ i < p
  BY <1>1
<1> QED
  BY <1>1, <1>2 DEF RevokedBetween, EntriesOf

LEMMA LiveLocal ==
    ASSUME NEW L, NEW M, Grown(L, M), NEW edges, edges \subseteq 1 .. Len(L),
           NEW p \in 1 .. Len(L) + 1, NEW at
    PROVE  LiveEdges(M, edges, p, at) = LiveEdges(L, edges, p, at)
<1>1. \A e \in edges : M[e] = L[e]
  BY DEF Grown
<1>2. \A e \in edges : VoidAt(M, e, p) <=> VoidAt(L, e, p)
  BY <1>1, RevokedLocal DEF VoidAt
<1> QED
  BY <1>1, <1>2 DEF LiveEdges

LEMMA EligibleLocal ==
    ASSUME NEW L, NEW M, Grown(L, M), NEW i \in 1 .. Len(L)
    PROVE  EligibleVouch(M, i) <=> EligibleVouch(L, i)
<1>1. M[i] = L[i] /\ i \in 1 .. Len(L) + 1
  BY DEF Grown
<1> QED
  BY <1>1, EventsLocal DEF EligibleVouch

\* Where a trade was confirmed does not move.
LEMMA ConfirmedLocal ==
    ASSUME NEW L, NEW M, Grown(L, M), NEW t, NEW j \in 1 .. Len(L), L[j].kind = "confirm", L[j].trade = t
    PROVE  ConfirmedAt(M, t) = ConfirmedAt(L, t) /\ ConfirmedAt(L, t) \in 1 .. Len(L)
<1> DEFINE S == {i \in EntriesOf(L, {"confirm"}) : L[i].trade = t}
           T == {i \in EntriesOf(M, {"confirm"}) : M[i].trade = t}
<1>1. Len(L) \in Nat /\ Len(M) = Len(L) + 1 /\ \A i \in 1 .. Len(L) : M[i] = L[i]
  BY DEF Grown
<1>2. S \subseteq Nat /\ T \subseteq Nat /\ S # {} /\ S \subseteq 1 .. Len(L)
  BY <1>1 DEF EntriesOf
<1>3. S \subseteq T /\ \A i \in T : i \in S \/ i = Len(L) + 1
  <2>1. S \subseteq T
    BY <1>1 DEF EntriesOf
  <2>2. \A i \in 1 .. Len(M) : i \in 1 .. Len(L) \/ i = Len(L) + 1
    BY <1>1
  <2> QED
    BY <1>1, <2>1, <2>2 DEF EntriesOf
<1>4. ConfirmedAt(L, t) = Min(S) /\ ConfirmedAt(M, t) = Min(T)
  BY DEF ConfirmedAt
<1> HIDE DEF S, T
<1>5. Min(S) \in S /\ \A i \in S : Min(S) <= i
  BY <1>2, MinOfNaturals
<1>6. Min(T) \in T /\ \A i \in T : Min(T) <= i
  BY <1>2, <1>3, MinOfNaturals
<1>7. Min(T) = Min(S)
  <2>1. PICK a, b : a = Min(S) /\ b = Min(T)
    OBVIOUS
  <2>2. a \in 1 .. Len(L) /\ b \in Nat /\ b <= a
    BY <1>2, <1>3, <1>5, <1>6, <2>1
  <2>3. b \in S \/ b = Len(L) + 1
    BY <1>3, <1>6, <2>1
  <2>4. b \in S => a <= b
    BY <1>5, <2>1
  <2> QED
    BY <1>1, <2>1, <2>2, <2>3, <2>4
<1> QED
  BY <1>2, <1>4, <1>5, <1>7

\* Evidence and penalties, as read at an instant over the entries before one.
Counted(L, S, at, b) == {i \in S : L[i].at <= at /\ i < b}
TimesOf(L, S, at, b) == {L[i].at : i \in Counted(L, S, at, b)}
Accused(L, m) == {j \in EntriesOf(L, {"equivocation"}) : L[j].who = m}
Proven(L, m, at, b) == {i \in Counted(L, Accused(L, m), at, b) : ~Overturned(L, i, at, b)}

LEMMA ScoreIs ==
    \A L, m, at, b : ScoreRawBefore(L, m, at, b) =
        [trade |-> DimensionScore(TimesOf(L, TradeEvents(L, m), at, b),
                                  DimensionMax * Cardinality(Proven(L, m, at, b)), at),
         attestation |-> DimensionScore(TimesOf(L, AttestationEvents(L, m), at, b),
                                  Increment * Cardinality(Counted(L, Upheld(L, m), at, b))
                                    + DimensionMax * Cardinality(Proven(L, m, at, b)), at)]
BY DEF ScoreRawBefore, TimesOf, Counted, Proven, Accused

LEMMA TradeEventLocal ==
    ASSUME NEW L, NEW M, Grown(L, M), SettledIsConfirmed(L), NEW m, NEW i \in 1 .. Len(L)
    PROVE  i \in TradeEvents(M, m) <=> i \in TradeEvents(L, m)
<1>1. M[i] = L[i] /\ i \in 1 .. Len(M) /\ Len(L) \in Nat
  BY DEF Grown
<1>2. CASE L[i].kind # "settle"
  BY <1>1, <1>2 DEF TradeEvents, EntriesOf
<1>3. CASE L[i].kind = "settle"
  <2>1. PICK t : t = L[i].trade
    OBVIOUS
  <2>2. PICK j \in 1 .. i - 1 : L[j].kind = "confirm" /\ L[j].trade = t
    BY <1>3, <2>1 DEF SettledIsConfirmed
  <2>3. j \in 1 .. Len(L)
    BY <1>1, <2>2
  <2>4. PICK c : c = ConfirmedAt(L, t)
    OBVIOUS
  <2>5. ConfirmedAt(M, t) = c /\ c \in 1 .. Len(L) /\ c \in 1 .. Len(L) + 1
    BY <1>1, <2>2, <2>3, <2>4, ConfirmedLocal
  <2>6. \A n : EnrolledAt(M, n, c) <=> EnrolledAt(L, n, c)
    BY <2>5, EventsLocal
  <2>7. i \in TradeEvents(L, m) <=> /\ m \in {Trades[t].from, Trades[t].to}
                                    /\ EnrolledAt(L, Trades[t].from, c) /\ EnrolledAt(L, Trades[t].to, c)
    BY <1>3, <2>1, <2>4 DEF TradeEvents, EntriesOf
  <2>8. i \in TradeEvents(M, m) <=> /\ m \in {Trades[t].from, Trades[t].to}
                                    /\ EnrolledAt(M, Trades[t].from, c) /\ EnrolledAt(M, Trades[t].to, c)
    BY <1>1, <1>3, <2>1, <2>5 DEF TradeEvents, EntriesOf
  <2> QED
    BY <2>6, <2>7, <2>8
<1> QED
  BY <1>2, <1>3

\* A vouch is judged on the entries before it: none that comes later, whatever
\* its date, changes the judgement.
LEMMA JudgedLocal ==
    ASSUME NEW L, NEW M, Grown(L, M), SettledIsConfirmed(L), NEW i \in 1 .. Len(L)
    PROVE  Judged(M, i) <=> Judged(L, i)
<1>0. Len(L) \in Nat /\ Len(M) = Len(L) + 1 /\ (\A j \in 1 .. Len(L) : M[j] = L[j])
      /\ i \in Nat /\ i <= Len(L)
  BY DEF Grown
<1>1. PICK m, at : m = L[i].who /\ at = L[i].at
  OBVIOUS
<1>2. \A j : j \in 1 .. Len(M) /\ j < i <=> j \in 1 .. Len(L) /\ j < i
  BY <1>0
<1>3. \A K, j : j \in EntriesOf(M, K) /\ j < i <=> j \in EntriesOf(L, K) /\ j < i
  BY <1>0, <1>2 DEF EntriesOf
<1>4. \A K : EntriesOf(M, K) \subseteq 1 .. Len(M) /\ EntriesOf(L, K) \subseteq 1 .. Len(L)
  BY DEF EntriesOf
\* Sets of positions that agree before i count the same.
<1>5. ASSUME NEW S, NEW T, \A j : j \in T /\ j < i <=> j \in S /\ j < i, S \subseteq 1 .. Len(L)
      PROVE  Counted(M, T, at, i) = Counted(L, S, at, i) /\ TimesOf(M, T, at, i) = TimesOf(L, S, at, i)
  <2>1. \A j : j \in Counted(M, T, at, i) <=> j \in Counted(L, S, at, i)
    BY <1>0, <1>5 DEF Counted
  <2>2. Counted(M, T, at, i) = Counted(L, S, at, i) /\ Counted(L, S, at, i) \subseteq 1 .. Len(L)
    BY <1>5, <2>1 DEF Counted
  <2> QED
    BY <1>0, <2>2 DEF TimesOf
<1>6. \A j : j \in TradeEvents(M, m) /\ j < i <=> j \in TradeEvents(L, m) /\ j < i
  <2>1. TradeEvents(M, m) \subseteq 1 .. Len(M) /\ TradeEvents(L, m) \subseteq 1 .. Len(L)
    BY <1>4 DEF TradeEvents
  <2> QED
    BY <1>2, <2>1, TradeEventLocal
<1>7. TradeEvents(L, m) \subseteq 1 .. Len(L) /\ AttestationEvents(L, m) \subseteq 1 .. Len(L)
      /\ Upheld(L, m) \subseteq 1 .. Len(L) /\ Accused(L, m) \subseteq 1 .. Len(L)
  BY <1>4 DEF TradeEvents, AttestationEvents, Upheld, Accused
<1>8. \A j : j \in AttestationEvents(M, m) /\ j < i <=> j \in AttestationEvents(L, m) /\ j < i
  <2>1. \A j : j \in AttestationEvents(M, m) <=>
               \/ j \in TradeEvents(M, m) /\ Trades[M[j].trade].to = m
               \/ j \in EntriesOf(M, {"vouch"}) /\ M[j].who = m /\ EligibleVouch(M, j)
    BY DEF AttestationEvents
  <2>2. \A j : j \in AttestationEvents(L, m) <=>
               \/ j \in TradeEvents(L, m) /\ Trades[L[j].trade].to = m
               \/ j \in EntriesOf(L, {"vouch"}) /\ L[j].who = m /\ EligibleVouch(L, j)
    BY DEF AttestationEvents
  <2>3. \A j \in 1 .. Len(L) : M[j] = L[j] /\ (EligibleVouch(M, j) <=> EligibleVouch(L, j))
    BY <1>0, EligibleLocal
  <2>4. \A j : j \in TradeEvents(L, m) \/ j \in EntriesOf(L, {"vouch"}) => j \in 1 .. Len(L)
    BY <1>4, <1>7
  <2> QED
    BY <1>3, <1>6, <2>1, <2>2, <2>3, <2>4
<1>9. \A j : j \in Upheld(M, m) /\ j < i <=> j \in Upheld(L, m) /\ j < i
  <2> SUFFICES ASSUME NEW j, j < i PROVE j \in Upheld(M, m) <=> j \in Upheld(L, m)
    OBVIOUS
  <2>1. CASE j \notin EntriesOf(L, {"uphold"})
    BY <1>3, <2>1 DEF Upheld
  <2>2. CASE j \in EntriesOf(L, {"uphold"})
    <3>1. j \in EntriesOf(M, {"uphold"}) /\ M[j] = L[j] /\ j \in 1 .. Len(L)
      BY <1>0, <1>3, <1>4, <2>2
    <3>2. \A k : k \in EntriesOf(M, {"dispute"}) /\ k < j <=> k \in EntriesOf(L, {"dispute"}) /\ k < j
      <4>1. \A k : k \in EntriesOf(M, {"dispute"}) => k \in Int
        BY <1>0, <1>4
      <4>2. \A k : k \in EntriesOf(L, {"dispute"}) => k \in Int
        BY <1>0, <1>4
      <4>3. \A k \in Int : k < j => k < i
        BY <1>0, <3>1
      <4> QED
        BY <1>3, <4>1, <4>2, <4>3
    <3>3. \A k \in EntriesOf(L, {"dispute"}) : M[k] = L[k]
      BY <1>0, <1>4
    <3> QED
      BY <2>2, <3>1, <3>2, <3>3 DEF Upheld
  <2> QED
    BY <2>1, <2>2
<1>10. \A j : j \in Accused(M, m) /\ j < i <=> j \in Accused(L, m) /\ j < i
  <2>1. \A j \in EntriesOf(L, {"equivocation"}) : M[j] = L[j]
    BY <1>0, <1>4
  <2> QED
    BY <1>3, <2>1 DEF Accused
<1>11. \A j \in 1 .. Len(L) : Overturned(M, j, at, i) <=> Overturned(L, j, at, i)
  <2>1. \A k \in EntriesOf(L, {"overturn"}) : M[k] = L[k]
    BY <1>0, <1>4
  <2> QED
    BY <1>0, <1>3, <2>1 DEF Overturned
<1>12. Proven(M, m, at, i) = Proven(L, m, at, i)
  <2>1. Counted(M, Accused(M, m), at, i) = Counted(L, Accused(L, m), at, i)
    BY <1>5, <1>7, <1>10
  <2>2. Counted(L, Accused(L, m), at, i) \subseteq 1 .. Len(L)
    BY <1>7 DEF Counted
  <2> QED
    BY <1>11, <2>1, <2>2 DEF Proven
<1>13. /\ TimesOf(M, TradeEvents(M, m), at, i) = TimesOf(L, TradeEvents(L, m), at, i)
       /\ TimesOf(M, AttestationEvents(M, m), at, i) = TimesOf(L, AttestationEvents(L, m), at, i)
       /\ Counted(M, Upheld(M, m), at, i) = Counted(L, Upheld(L, m), at, i)
  <2>1. TimesOf(M, TradeEvents(M, m), at, i) = TimesOf(L, TradeEvents(L, m), at, i)
    BY <1>5, <1>6, <1>7
  <2>2. TimesOf(M, AttestationEvents(M, m), at, i) = TimesOf(L, AttestationEvents(L, m), at, i)
    BY <1>5, <1>7, <1>8
  <2>3. Counted(M, Upheld(M, m), at, i) = Counted(L, Upheld(L, m), at, i)
    BY <1>5, <1>7, <1>9
  <2> QED
    BY <2>1, <2>2, <2>3
<1>14. ScoreRawBefore(M, m, at, i) = ScoreRawBefore(L, m, at, i)
  BY <1>12, <1>13, ScoreIs
<1>15. M[i] = L[i]
  BY <1>0
<1> QED
  BY <1>1, <1>14, <1>15 DEF Judged

-----------------------------------------------------------------------------
(* The edges of a log.                                                     *)

IsRepLog(L) == L \in Seq(Entries) /\ SettledIsConfirmed(L) /\ EnrolledOnce(L)

LEMMA VouchIs ==
    ASSUME NEW L \in Seq(Entries), NEW i \in 1 .. Len(L), L[i].kind = "vouch"
    PROVE  L[i].who \in People /\ L[i].of \in People /\ L[i].at \in Int
<1>1. L[i] \in Entries
  OBVIOUS
<1> QED
  BY <1>1 DEF Entries

LEMMA AmongVouches ==
    ASSUME NEW L \in Seq(Entries), NEW edges, NEW p \in 1 .. Len(L) + 1, NEW at,
           \A e \in edges : e \in 1 .. Len(L) /\ L[e].kind = "vouch"
    PROVE  Among(L, LiveEdges(L, edges, p, at), p)
<1>1. Len(L) \in Nat /\ p \in Nat /\ p >= 1
  OBVIOUS
<1>2. \A e \in LiveEdges(L, edges, p, at) : e \in edges /\ e < p
  BY DEF LiveEdges
<1> QED
  BY <1>1, <1>2, VouchIs DEF Among

IsForming(t, L, n) ==
    t = [i \in 0 .. n |-> IF i = 0 THEN {} ELSE t[i - 1] \cup (IF Forms(L, t[i - 1], i) THEN {i} ELSE {})]

LEMMA FormingExists ==
    ASSUME NEW L, NEW n \in Nat
    PROVE  \E t : IsForming(t, L, n)
<1> DEFINE Bad == {k \in 0 .. n : ~ \E t : IsForming(t, L, k)}
           After(b, i) == b \cup (IF Forms(L, b, i) THEN {i} ELSE {})
<1>1. SUFFICES ASSUME Bad # {} PROVE FALSE
  OBVIOUS
<1>2. Bad \subseteq Nat
  OBVIOUS
<1>3. PICK k \in Bad : \A m \in Bad : k <= m
  <2> HIDE DEF Bad
  <2> QED
    BY <1>1, <1>2, LeastNatural
<1>4. k # 0
  <2>1. IsForming([i \in 0 .. 0 |-> {}], L, 0)
    BY DEF IsForming
  <2> QED
    BY <2>1
<1>5. k - 1 \in 0 .. n /\ k - 1 \notin Bad /\ k \in Nat
  BY <1>3, <1>4
<1>6. PICK t : IsForming(t, L, k - 1)
  BY <1>5
<1>7. \A i \in 0 .. k - 1 : t[i] = IF i = 0 THEN {} ELSE After(t[i - 1], i)
  BY <1>6 DEF IsForming
<1> HIDE DEF After
<1> DEFINE u == [i \in 0 .. k |-> IF i < k THEN t[i] ELSE After(t[k - 1], k)]
<1>8. ASSUME NEW i \in 0 .. k
      PROVE  u[i] = IF i = 0 THEN {} ELSE After(u[i - 1], i)
  <2>1. CASE i = k
    <3>1. k - 1 \in 0 .. k /\ k - 1 < k
      BY <1>4, <1>5
    <3> QED
      BY <1>4, <1>5, <2>1, <3>1
  <2>2. CASE i # k
    <3>1. i \in 0 .. k - 1 /\ (i # 0 => i - 1 \in 0 .. k /\ i - 1 < k) /\ i < k
      BY <1>5, <2>2
    <3> QED
      BY <1>7, <3>1
  <2> QED
    BY <2>1, <2>2
<1>9. u = [i \in 0 .. k |-> IF i = 0 THEN {} ELSE After(u[i - 1], i)]
  <2>1. PICK w : w = u
    OBVIOUS
  <2>2. \A i \in 0 .. k : w[i] = IF i = 0 THEN {} ELSE After(w[i - 1], i)
    BY <1>8, <2>1
  <2>3. w = [i \in 0 .. k |-> w[i]]
    BY <2>1
  <2> HIDE DEF u
  <2> QED
    BY <2>1, <2>2, <2>3
<1>10. IsForming(u, L, k)
  BY <1>9 DEF IsForming, After
<1> QED
  BY <1>10

\* The edges formed by the first i entries.
FormingTable(t, L) ==
    /\ t[0] = {} /\ Edges(L) = t[Len(L)]
    /\ \A i \in 1 .. Len(L) : t[i] = t[i - 1] \cup (IF Forms(L, t[i - 1], i) THEN {i} ELSE {})

LEMMA EdgesTable ==
    ASSUME NEW L, Len(L) \in Nat
    PROVE  \E t : FormingTable(t, L)
<1> DEFINE Eq(t) == t = [i \in 0 .. Len(L) |->
                           IF i = 0 THEN {}
                           ELSE t[i - 1] \cup (IF Forms(L, t[i - 1], i) THEN {i} ELSE {})]
           w == CHOOSE t : Eq(t)
<1>1. Edges(L) = w[Len(L)]
  BY DEF Edges
<1>2. \E t : Eq(t)
  <2>1. PICK t : IsForming(t, L, Len(L))
    BY FormingExists
  <2>2. Eq(t)
    BY <2>1 DEF IsForming
  <2> QED
    BY <2>2
<1>3. Eq(w)
  BY <1>2
<1> HIDE DEF w
<1>4. w[0] = {} /\ \A i \in 1 .. Len(L) : w[i] = w[i - 1] \cup (IF Forms(L, w[i - 1], i) THEN {i} ELSE {})
  <2>1. \A i \in 0 .. Len(L) :
           w[i] = IF i = 0 THEN {} ELSE w[i - 1] \cup (IF Forms(L, w[i - 1], i) THEN {i} ELSE {})
    BY <1>3, Zenon
  <2>2. 0 \in 0 .. Len(L) /\ \A i \in 1 .. Len(L) : i \in 0 .. Len(L) /\ i # 0
    OBVIOUS
  <2> QED
    BY <2>1, <2>2
<1>5. FormingTable(w, L)
  BY <1>1, <1>4 DEF FormingTable
<1> QED
  BY <1>5

\* The edges of a log are vouches in it whose parties were enrolled.
Vouches(L, S) == \A e \in S : e \in 1 .. Len(L) /\ L[e].kind = "vouch" /\ EligibleVouch(L, e)

LEMMA TableVouches ==
    ASSUME NEW L, Len(L) \in Nat, NEW t, FormingTable(t, L)
    PROVE  \A i \in 0 .. Len(L) : Vouches(L, t[i])
<1>1. t[0] = {} /\ \A i \in 1 .. Len(L) : t[i] = t[i - 1] \cup (IF Forms(L, t[i - 1], i) THEN {i} ELSE {})
  BY DEF FormingTable
<1> DEFINE Bad == {i \in 0 .. Len(L) : ~Vouches(L, t[i])}
<1>2. SUFFICES ASSUME Bad # {} PROVE FALSE
  OBVIOUS
<1>3. Bad \subseteq Nat
  OBVIOUS
<1>4. PICK i \in Bad : \A m \in Bad : i <= m
  <2> HIDE DEF Bad
  <2> QED
    BY <1>2, <1>3, LeastNatural
<1>5. i \in 0 .. Len(L) /\ ~Vouches(L, t[i])
  OBVIOUS
<1>6. i # 0
  BY <1>1, <1>5 DEF Vouches
<1>7. i \in 1 .. Len(L) /\ i - 1 \in 0 .. Len(L) /\ ~(i <= i - 1)
  BY <1>5, <1>6
<1>8. Vouches(L, t[i - 1])
  <2>1. i - 1 \notin Bad
    <3> HIDE DEF Bad
    <3> QED
      BY <1>4, <1>7
  <2> QED
    BY <1>7, <2>1
<1>9. Forms(L, t[i - 1], i) => L[i].kind = "vouch" /\ EligibleVouch(L, i)
  BY DEF Forms
<1>10. t[i] = t[i - 1] \cup (IF Forms(L, t[i - 1], i) THEN {i} ELSE {})
  BY <1>1, <1>7
<1> QED
  BY <1>5, <1>7, <1>8, <1>9, <1>10 DEF Vouches

LEMMA EdgesAreVouches ==
    ASSUME NEW L, Len(L) \in Nat
    PROVE  Vouches(L, Edges(L))
<1>1. PICK t : FormingTable(t, L)
  BY EdgesTable
<1>2. Edges(L) = t[Len(L)] /\ Len(L) \in 0 .. Len(L)
  BY <1>1 DEF FormingTable
<1> QED
  BY <1>1, <1>2, TableVouches

\* More roots and more live edges anchor more people.
LEMMA AnchorsMore ==
    ASSUME NEW L, NEW E, NEW p, NEW at, NEW M, NEW F, NEW q, NEW till,
           Among(L, LiveEdges(L, E, p, at), p), Among(M, LiveEdges(M, F, q, till), q),
           Roots(L, p) \subseteq Roots(M, q),
           \A e \in LiveEdges(L, E, p, at) : e \in LiveEdges(M, F, q, till) /\ M[e] = L[e]
    PROVE  Anchors(L, E, p, at) \subseteq Anchors(M, F, q, till)
<1>1. PICK a, b : a = LiveEdges(L, E, p, at) /\ b = LiveEdges(M, F, q, till)
  OBVIOUS
<1>2. PICK X : X = Anchors(M, F, q, till)
  OBVIOUS
<1>3. Spans(M, b, q, X)
  BY <1>1, <1>2, ReachIsLeast
<1>4. Spans(L, a, p, X)
  BY <1>1, <1>3 DEF Spans
<1> QED
  BY <1>1, <1>2, <1>4, ReachIsLeast

LEMMA AnchoredIs ==
    \A L, E, p, at : \A m \in People : AnchoredAt(L, E, m, p, at) <=> m \in Anchors(L, E, p, at)
BY DEF AnchoredAt, Anchors, Roots

LEMMA FormsLocal ==
    ASSUME NEW L, NEW M, Grown(L, M), IsRepLog(L), M \in Seq(Entries),
           NEW edges, Vouches(L, edges), NEW i \in 1 .. Len(L)
    PROVE  Forms(M, edges, i) <=> Forms(L, edges, i)
<1>0. L \in Seq(Entries) /\ SettledIsConfirmed(L) /\ Len(L) \in Nat /\ Len(M) = Len(L) + 1
      /\ (\A j \in 1 .. Len(L) : M[j] = L[j]) /\ i \in 1 .. Len(L) + 1 /\ i \in 1 .. Len(M) + 1
  BY DEF Grown, IsRepLog
<1>1. CASE L[i].kind # "vouch"
  BY <1>0, <1>1 DEF Forms
<1>2. CASE L[i].kind = "vouch"
  <2>1. L[i].who \in People /\ M[i] = L[i]
    BY <1>0, <1>2, VouchIs
  <2>2. EligibleVouch(M, i) <=> EligibleVouch(L, i)
    BY EligibleLocal
  <2>3. Judged(M, i) <=> Judged(L, i)
    BY <1>0, JudgedLocal
  <2>4. \A e \in edges : e \in 1 .. Len(L) /\ e \in 1 .. Len(M) /\ L[e].kind = "vouch" /\ M[e] = L[e]
    BY <1>0 DEF Vouches
  <2>5. LiveEdges(M, edges, i, Forever) = LiveEdges(L, edges, i, Forever)
    BY <1>0, <2>4, LiveLocal
  <2>6. Among(L, LiveEdges(L, edges, i, Forever), i) /\ Among(M, LiveEdges(M, edges, i, Forever), i)
    <3>1. Among(L, LiveEdges(L, edges, i, Forever), i)
      BY <1>0, <2>4, AmongVouches
    <3>2. \A e \in edges : e \in 1 .. Len(M) /\ M[e].kind = "vouch"
      BY <2>4
    <3>3. Among(M, LiveEdges(M, edges, i, Forever), i)
      BY <1>0, <3>2, AmongVouches
    <3> QED
      BY <3>1, <3>3
  <2>7. Roots(M, i) = Roots(L, i)
    BY <1>0, RootsLocal
  <2>8. \A e \in LiveEdges(L, edges, i, Forever) : M[e] = L[e]
    BY <2>4 DEF LiveEdges
  <2>9. Anchors(M, edges, i, Forever) = Anchors(L, edges, i, Forever)
    <3>1. Anchors(L, edges, i, Forever) \subseteq Anchors(M, edges, i, Forever)
      BY <2>5, <2>6, <2>7, <2>8, AnchorsMore
    <3>2. Anchors(M, edges, i, Forever) \subseteq Anchors(L, edges, i, Forever)
      BY <2>5, <2>6, <2>7, <2>8, AnchorsMore
    <3> QED
      BY <3>1, <3>2
  <2>10. AnchoredAt(M, edges, L[i].who, i, Forever) <=> AnchoredAt(L, edges, L[i].who, i, Forever)
    BY <2>1, <2>9, AnchoredIs
  <2> QED
    BY <1>2, <2>1, <2>2, <2>3, <2>10 DEF Forms
<1> QED
  BY <1>1, <1>2

\* An entry more keeps the edges there are, and forms one only if it is a vouch.
LEMMA EdgesGrow ==
    ASSUME NEW L, NEW M, Grown(L, M), IsRepLog(L), M \in Seq(Entries)
    PROVE  /\ Edges(L) \subseteq Edges(M)
           /\ \A e \in Edges(M) : e \in Edges(L) \/ (e = Len(M) /\ M[e].kind = "vouch")
<1>0. Len(L) \in Nat /\ Len(M) = Len(L) + 1 /\ Len(M) \in Nat
  BY DEF Grown
<1>1. PICK t : FormingTable(t, L)
  BY <1>0, EdgesTable
<1>2. PICK u : FormingTable(u, M)
  BY <1>0, EdgesTable
<1>3. t[0] = {} /\ Edges(L) = t[Len(L)]
      /\ \A i \in 1 .. Len(L) : t[i] = t[i - 1] \cup (IF Forms(L, t[i - 1], i) THEN {i} ELSE {})
  BY <1>1 DEF FormingTable
<1>4. u[0] = {} /\ Edges(M) = u[Len(M)]
      /\ \A i \in 1 .. Len(M) : u[i] = u[i - 1] \cup (IF Forms(M, u[i - 1], i) THEN {i} ELSE {})
  BY <1>2 DEF FormingTable
<1> DEFINE Bad == {i \in 0 .. Len(L) : u[i] # t[i]}
<1>5. Bad = {}
  <2>1. SUFFICES ASSUME Bad # {} PROVE FALSE
    OBVIOUS
  <2>2. Bad \subseteq Nat
    OBVIOUS
  <2>3. PICK i \in Bad : \A m \in Bad : i <= m
    <3> HIDE DEF Bad
    <3> QED
      BY <2>1, <2>2, LeastNatural
  <2>4. i \in 0 .. Len(L) /\ u[i] # t[i]
    OBVIOUS
  <2>5. i # 0
    BY <1>3, <1>4, <2>4
  <2>6. i \in 1 .. Len(L) /\ i \in 1 .. Len(M) /\ i - 1 \in 0 .. Len(L) /\ ~(i <= i - 1)
    BY <1>0, <2>4, <2>5
  <2>7. u[i - 1] = t[i - 1]
    <3>1. i - 1 \notin Bad
      <4> HIDE DEF Bad
      <4> QED
        BY <2>3, <2>6
    <3> QED
      BY <2>6, <3>1
  <2>8. Forms(M, t[i - 1], i) <=> Forms(L, t[i - 1], i)
    BY <1>0, <1>1, <2>6, TableVouches, FormsLocal
  <2>9. t[i] = t[i - 1] \cup (IF Forms(L, t[i - 1], i) THEN {i} ELSE {})
    BY <1>3, <2>6
  <2>10. u[i] = t[i - 1] \cup (IF Forms(M, t[i - 1], i) THEN {i} ELSE {})
    BY <1>4, <2>6, <2>7
  <2> QED
    BY <2>4, <2>8, <2>9, <2>10
<1>6. u[Len(L)] = Edges(L)
  BY <1>0, <1>3, <1>5
<1>7. Len(M) \in 1 .. Len(M) /\ Len(M) - 1 = Len(L)
  BY <1>0
<1>8. Edges(M) = Edges(L) \cup (IF Forms(M, Edges(L), Len(M)) THEN {Len(M)} ELSE {})
  BY <1>4, <1>6, <1>7
<1>9. Forms(M, Edges(L), Len(M)) => M[Len(M)].kind = "vouch"
  BY DEF Forms
<1> QED
  BY <1>8, <1>9

-----------------------------------------------------------------------------
(* What an entry, or a week, does to who is anchored.                      *)

\* The last thing said of a member's enrollment.
LEMMA EndEvent ==
    ASSUME NEW L, NEW M, Grown(L, M), NEW m, NEW x, x = M[Len(M)]
    PROVE  /\ x.kind \in {"enroll", "revoke"} /\ x.who = m => LastEvent(M, m, Len(M) + 1) = x
           /\ ~(x.kind \in {"enroll", "revoke"} /\ x.who = m) =>
                LastEvent(M, m, Len(M) + 1) = LastEvent(L, m, Len(L) + 1)
<1>1. Len(L) \in Nat /\ Len(M) = Len(L) + 1 /\ Len(M) \in Nat /\ \A i \in 1 .. Len(L) : M[i] = L[i]
  BY DEF Grown
<1>2. PICK A, B : A = Events(L, m, Len(L) + 1) /\ B = Events(M, m, Len(M) + 1)
  OBVIOUS
<1>3. A \subseteq 1 .. Len(L) /\ B \subseteq 1 .. Len(M)
  BY <1>2 DEF Events, EntriesOf
<1>4. \A i \in 1 .. Len(L) : i \in 1 .. Len(M) /\ i < Len(M) + 1 /\ i < Len(L) + 1
  BY <1>1
<1>5. \A i \in 1 .. Len(L) : i \in B <=> i \in A
  BY <1>1, <1>2, <1>4 DEF Events, EntriesOf
<1>6. Len(M) \in B <=> x.kind \in {"enroll", "revoke"} /\ x.who = m
  <2>1. Len(M) \in 1 .. Len(M) /\ Len(M) < Len(M) + 1
    BY <1>1
  <2> QED
    BY <1>2, <2>1 DEF Events, EntriesOf
<1>7. \A i \in B : i \in A \/ i = Len(M)
  <2>1. \A i \in 1 .. Len(M) : i \in 1 .. Len(L) \/ i = Len(M)
    BY <1>1
  <2> QED
    BY <1>3, <1>5, <2>1
<1>8. CASE x.kind \in {"enroll", "revoke"} /\ x.who = m
  <2>1. Len(M) \in B
    BY <1>6, <1>8
  <2>2. Max(B) \in B /\ \A i \in B : i <= Max(B)
    BY <1>1, <1>2, <2>1, EventsMax
  <2>3. Max(B) = Len(M)
    <3>1. PICK k : k = Max(B)
      OBVIOUS
    <3>2. k \in 1 .. Len(M) /\ Len(M) <= k
      BY <1>3, <2>1, <2>2, <3>1
    <3> QED
      BY <1>1, <3>1, <3>2
  <2>4. LastEvent(M, m, Len(M) + 1) = x
    BY <1>2, <2>1, <2>3, LastEventIs
  <2> QED
    BY <1>8, <2>4
<1>9. CASE ~(x.kind \in {"enroll", "revoke"} /\ x.who = m)
  <2>1. B = A
    BY <1>3, <1>5, <1>6, <1>7, <1>9
  <2>2. CASE A = {}
    <3>1. LastEvent(M, m, Len(M) + 1) = LastEvent(L, m, Len(L) + 1)
      BY <1>2, <2>1, <2>2, LastEventIs
    <3> QED
      BY <1>9, <3>1
  <2>3. CASE A # {}
    <3>1. Max(A) \in A
      BY <1>1, <1>2, <2>3, EventsMax
    <3>2. M[Max(A)] = L[Max(A)]
      BY <1>1, <1>3, <3>1
    <3>3. LastEvent(M, m, Len(M) + 1) = LastEvent(L, m, Len(L) + 1)
      BY <1>2, <2>1, <2>3, <3>2, LastEventIs
    <3> QED
      BY <1>9, <3>3
  <2> QED
    BY <2>2, <2>3
<1> QED
  BY <1>8, <1>9

LEMMA EndVoid ==
    ASSUME NEW L, NEW M, Grown(L, M), NEW e \in 1 .. Len(L), NEW x, x = M[Len(M)]
    PROVE  /\ VoidAt(L, e, Len(L) + 1) => VoidAt(M, e, Len(M) + 1)
           /\ x.kind # "revoke" /\ VoidAt(M, e, Len(M) + 1) => VoidAt(L, e, Len(L) + 1)
<1>1. Len(L) \in Nat /\ Len(M) = Len(L) + 1 /\ Len(M) \in Nat /\ \A i \in 1 .. Len(L) : M[i] = L[i]
  BY DEF Grown
<1>2. \A i \in 1 .. Len(L) : i \in 1 .. Len(M) /\ i < Len(M) + 1 /\ i < Len(L) + 1
  BY <1>1
<1>3. \A i \in 1 .. Len(M) : i \in 1 .. Len(L) \/ i = Len(M)
  BY <1>1
<1>4. \A m : RevokedBetween(L, m, e, Len(L) + 1) => RevokedBetween(M, m, e, Len(M) + 1)
  BY <1>1, <1>2 DEF RevokedBetween, EntriesOf
<1>5. x.kind # "revoke" =>
        \A m : RevokedBetween(M, m, e, Len(M) + 1) => RevokedBetween(L, m, e, Len(L) + 1)
  BY <1>1, <1>2, <1>3 DEF RevokedBetween, EntriesOf
<1>6. M[e] = L[e]
  BY <1>1
<1> QED
  BY <1>4, <1>5, <1>6 DEF VoidAt

LEMMA AnchoredSetIs ==
    \A L, at : AnchoredSet(L, at) = Anchors(L, Edges(L), Len(L) + 1, at)
BY DEF AnchoredSet, Anchors, Roots

LEMMA AmongEdges ==
    ASSUME NEW L \in Seq(Entries), NEW at
    PROVE  Among(L, LiveEdges(L, Edges(L), Len(L) + 1, at), Len(L) + 1)
<1>1. Len(L) \in Nat /\ Len(L) + 1 \in 1 .. Len(L) + 1
  OBVIOUS
<1>2. Vouches(L, Edges(L))
  BY <1>1, EdgesAreVouches
<1>3. \A e \in Edges(L) : e \in 1 .. Len(L) /\ L[e].kind = "vouch"
  BY <1>2 DEF Vouches
<1> QED
  BY <1>1, <1>3, AmongVouches

\* Nothing but a revocation takes an anchor.
LEMMA NoneLost ==
    ASSUME NEW L, NEW M, Grown(L, M), IsRepLog(L), M \in Seq(Entries), NEW at, NEW x, x = M[Len(M)],
           x.kind # "revoke",
           x.kind = "enroll" /\ x.basis # "founder" => ~EnrolledAt(L, x.who, Len(L) + 1)
    PROVE  AnchoredSet(L, at) \subseteq AnchoredSet(M, at)
<1>1. L \in Seq(Entries) /\ Len(L) \in Nat /\ \A i \in 1 .. Len(L) : M[i] = L[i]
  BY DEF Grown, IsRepLog
<1>2. ASSUME NEW m \in People, IsRoot(L, m, Len(L) + 1)
      PROVE  IsRoot(M, m, Len(M) + 1)
  <2>1. LastEvent(L, m, Len(L) + 1).kind = "enroll" /\ LastEvent(L, m, Len(L) + 1).basis = "founder"
    BY <1>2 DEF IsRoot, EnrolledAt
  <2>2. CASE x.kind \in {"enroll", "revoke"} /\ x.who = m
    <3>1. x.kind = "enroll" /\ EnrolledAt(L, x.who, Len(L) + 1)
      BY <2>1, <2>2 DEF EnrolledAt
    <3>2. LastEvent(M, m, Len(M) + 1) = x
      BY <2>2, EndEvent
    <3> QED
      BY <3>1, <3>2 DEF IsRoot, EnrolledAt
  <2>3. CASE ~(x.kind \in {"enroll", "revoke"} /\ x.who = m)
    <3>1. LastEvent(M, m, Len(M) + 1) = LastEvent(L, m, Len(L) + 1)
      BY <2>3, EndEvent
    <3> QED
      BY <2>1, <3>1 DEF IsRoot, EnrolledAt
  <2> QED
    BY <2>2, <2>3
<1>3. Roots(L, Len(L) + 1) \subseteq Roots(M, Len(M) + 1)
  BY <1>2 DEF Roots
<1>4. ASSUME NEW e \in LiveEdges(L, Edges(L), Len(L) + 1, at)
      PROVE  e \in LiveEdges(M, Edges(M), Len(M) + 1, at) /\ M[e] = L[e]
  <2>1. e \in Edges(L) /\ L[e].at <= at /\ ~VoidAt(L, e, Len(L) + 1)
    BY DEF LiveEdges
  <2>2. e \in 1 .. Len(L)
    BY <1>1, <2>1, EdgesAreVouches DEF Vouches
  <2>3. e \in Edges(M)
    BY <2>1, EdgesGrow
  <2>4. ~VoidAt(M, e, Len(M) + 1)
    BY <2>1, <2>2, EndVoid
  <2>5. M[e] = L[e] /\ e < Len(M) + 1
    BY <1>1, <2>2 DEF Grown
  <2> QED
    BY <2>1, <2>3, <2>4, <2>5 DEF LiveEdges
<1>5. /\ Among(L, LiveEdges(L, Edges(L), Len(L) + 1, at), Len(L) + 1)
      /\ Among(M, LiveEdges(M, Edges(M), Len(M) + 1, at), Len(M) + 1)
  BY <1>1, AmongEdges
<1>6. Anchors(L, Edges(L), Len(L) + 1, at) \subseteq Anchors(M, Edges(M), Len(M) + 1, at)
  BY <1>3, <1>4, <1>5, AnchorsMore
<1> QED
  BY <1>6, AnchoredSetIs

\* Nothing but a vouch or a founder's enrollment gives one.
LEMMA NoneWon ==
    ASSUME NEW L, NEW M, Grown(L, M), IsRepLog(L), M \in Seq(Entries), NEW at, NEW x, x = M[Len(M)],
           x.kind # "vouch", ~(x.kind = "enroll" /\ x.basis = "founder")
    PROVE  AnchoredSet(M, at) \subseteq AnchoredSet(L, at)
<1>1. L \in Seq(Entries) /\ Len(L) \in Nat /\ (\A i \in 1 .. Len(L) : M[i] = L[i]) /\ Len(M) = Len(L) + 1
  BY DEF Grown, IsRepLog
<1>2. ASSUME NEW m \in People, IsRoot(M, m, Len(M) + 1)
      PROVE  IsRoot(L, m, Len(L) + 1)
  <2>1. LastEvent(M, m, Len(M) + 1).kind = "enroll" /\ LastEvent(M, m, Len(M) + 1).basis = "founder"
    BY <1>2 DEF IsRoot, EnrolledAt
  <2>2. ~(x.kind \in {"enroll", "revoke"} /\ x.who = m)
    BY <2>1, EndEvent
  <2>3. LastEvent(M, m, Len(M) + 1) = LastEvent(L, m, Len(L) + 1)
    BY <2>2, EndEvent
  <2> QED
    BY <2>1, <2>3 DEF IsRoot, EnrolledAt
<1>3. Roots(M, Len(M) + 1) \subseteq Roots(L, Len(L) + 1)
  BY <1>2 DEF Roots
<1>4. ASSUME NEW e \in LiveEdges(M, Edges(M), Len(M) + 1, at)
      PROVE  e \in LiveEdges(L, Edges(L), Len(L) + 1, at) /\ L[e] = M[e]
  <2>1. e \in Edges(M) /\ M[e].at <= at /\ ~VoidAt(M, e, Len(M) + 1)
    BY DEF LiveEdges
  <2>2. e \in Edges(L)
    BY <2>1, EdgesGrow
  <2>3. e \in 1 .. Len(L)
    BY <1>1, <2>2, EdgesAreVouches DEF Vouches
  <2>4. ~VoidAt(L, e, Len(L) + 1)
    BY <2>1, <2>3, EndVoid
  <2>5. M[e] = L[e] /\ e < Len(L) + 1
    BY <1>1, <2>3
  <2> QED
    BY <2>1, <2>2, <2>4, <2>5 DEF LiveEdges
<1>5. /\ Among(L, LiveEdges(L, Edges(L), Len(L) + 1, at), Len(L) + 1)
      /\ Among(M, LiveEdges(M, Edges(M), Len(M) + 1, at), Len(M) + 1)
  BY <1>1, AmongEdges
<1>6. Anchors(M, Edges(M), Len(M) + 1, at) \subseteq Anchors(L, Edges(L), Len(L) + 1, at)
  BY <1>3, <1>4, <1>5, AnchorsMore
<1> QED
  BY <1>6, AnchoredSetIs

\* A week takes none, and gives one only by a vouch whose date has come.
LEMMA WeekAnchors ==
    ASSUME NEW L \in Seq(Entries), NEW at \in Int
    PROVE  /\ AnchoredSet(L, at) \subseteq AnchoredSet(L, at + 1)
           /\ (\A e \in Edges(L) : L[e].at # at + 1) =>
                AnchoredSet(L, at + 1) \subseteq AnchoredSet(L, at)
<1>1. /\ Among(L, LiveEdges(L, Edges(L), Len(L) + 1, at), Len(L) + 1)
      /\ Among(L, LiveEdges(L, Edges(L), Len(L) + 1, at + 1), Len(L) + 1)
  BY AmongEdges
<1>2. \A e \in Edges(L) : L[e].at \in Int
  <2>1. Len(L) \in Nat
    OBVIOUS
  <2> QED
    BY <2>1, EdgesAreVouches, VouchIs DEF Vouches
<1>3. \A e \in LiveEdges(L, Edges(L), Len(L) + 1, at) : e \in LiveEdges(L, Edges(L), Len(L) + 1, at + 1)
  BY <1>2 DEF LiveEdges
<1>4. AnchoredSet(L, at) \subseteq AnchoredSet(L, at + 1)
  BY <1>1, <1>3, AnchorsMore, AnchoredSetIs
<1>5. ASSUME \A e \in Edges(L) : L[e].at # at + 1
      PROVE  AnchoredSet(L, at + 1) \subseteq AnchoredSet(L, at)
  <2>1. \A e \in LiveEdges(L, Edges(L), Len(L) + 1, at + 1) : e \in LiveEdges(L, Edges(L), Len(L) + 1, at)
    BY <1>2, <1>5 DEF LiveEdges
  <2> QED
    BY <1>1, <2>1, AnchorsMore, AnchoredSetIs
<1> QED
  BY <1>4, <1>5

\* Enrolled at a vouch and not revoked since.
LEMMA StaysEnrolled ==
    ASSUME NEW L, Len(L) \in Nat, NEW m, NEW e \in 1 .. Len(L), L[e].kind = "vouch",
           EnrolledAt(L, m, e), ~RevokedBetween(L, m, e, Len(L) + 1)
    PROVE  EnrolledAt(L, m, Len(L) + 1)
<1>1. PICK A, B : A = Events(L, m, e) /\ B = Events(L, m, Len(L) + 1)
  OBVIOUS
<1>2. B \subseteq 1 .. Len(L) /\ A \subseteq B /\ e \notin B
  BY <1>1 DEF Events, EntriesOf
<1>3. \A i \in B : i < e => i \in A
  BY <1>1 DEF Events
<1>4. \A i \in B : e < i => L[i].kind = "enroll"
  <2>1. \A i \in B : i \in 1 .. Len(L) /\ L[i].kind \in {"enroll", "revoke"} /\ L[i].who = m /\ i < Len(L) + 1
    BY <1>1 DEF Events, EntriesOf
  <2> QED
    BY <2>1 DEF RevokedBetween, EntriesOf
<1>5. A # {} /\ L[Max(A)].kind = "enroll"
  BY <1>1, LastEventIs DEF EnrolledAt
<1>6. Max(A) \in A /\ \A i \in A : i <= Max(A)
  BY <1>1, <1>5, EventsMax
<1>7. Max(B) \in B /\ \A i \in B : i <= Max(B)
  BY <1>1, <1>2, <1>5, EventsMax
<1>8. PICK a, b : a = Max(A) /\ b = Max(B)
  OBVIOUS
<1>9. a \in 1 .. Len(L) /\ b \in 1 .. Len(L) /\ a <= b /\ b # e /\ a \in A /\ b \in B
  BY <1>2, <1>6, <1>7, <1>8
<1>10. L[b].kind = "enroll"
  <2>1. CASE e < b
    BY <1>4, <1>9, <2>1
  <2>2. CASE b < e
    <3>1. b \in A /\ b <= a
      BY <1>3, <1>6, <1>8, <1>9, <2>2
    <3>2. a = b
      BY <1>9, <3>1
    <3> QED
      BY <1>5, <1>8, <3>2
  <2> QED
    BY <1>9, <2>1, <2>2
<1> QED
  BY <1>1, <1>8, <1>9, <1>10, LastEventIs DEF EnrolledAt

LEMMA AnchoredAreEnrolled ==
    ASSUME NEW L \in Seq(Entries), NEW at
    PROVE  \A m \in AnchoredSet(L, at) : EnrolledAt(L, m, Len(L) + 1)
<1>1. PICK X : X = {m \in People : EnrolledAt(L, m, Len(L) + 1)}
  OBVIOUS
<1>2. PICK live : live = LiveEdges(L, Edges(L), Len(L) + 1, at)
  OBVIOUS
<1>3. Len(L) \in Nat
  OBVIOUS
<1>4. Roots(L, Len(L) + 1) \subseteq X
  BY <1>1 DEF Roots, IsRoot
<1>5. ASSUME NEW e \in live PROVE L[e].of \in X
  <2>1. e \in Edges(L) /\ ~VoidAt(L, e, Len(L) + 1)
    BY <1>2 DEF LiveEdges
  <2>2. e \in 1 .. Len(L) /\ L[e].kind = "vouch" /\ EligibleVouch(L, e)
    BY <1>3, <2>1, EdgesAreVouches DEF Vouches
  <2>3. L[e].of \in People
    BY <2>2, VouchIs
  <2>4. EnrolledAt(L, L[e].of, e) /\ ~RevokedBetween(L, L[e].of, e, Len(L) + 1)
    BY <2>1, <2>2 DEF EligibleVouch, VoidAt
  <2>5. EnrolledAt(L, L[e].of, Len(L) + 1)
    BY <1>3, <2>2, <2>4, StaysEnrolled
  <2> QED
    BY <1>1, <2>3, <2>5
<1>6. Spans(L, live, Len(L) + 1, X)
  BY <1>4, <1>5 DEF Spans
<1>7. Among(L, live, Len(L) + 1)
  BY <1>2, AmongEdges
<1>8. AnchoredSet(L, at) \subseteq X
  BY <1>2, <1>6, <1>7, ReachIsLeast, AnchoredSetIs
<1> QED
  BY <1>1, <1>8

-----------------------------------------------------------------------------
(* What is appended.                                                       *)

RepInv == IsRepLog(repLog) /\ week \in 1 .. LastWeek

\* x may follow L.
Follows(L, x) ==
    /\ x \in Entries
    /\ x.kind = "settle" => \E j \in 1 .. Len(L) : L[j].kind = "confirm" /\ L[j].trade = x.trade
    /\ x.kind = "enroll" /\ x.basis # "founder" => ~EnrolledAt(L, x.who, Len(L) + 1)

LEMMA PutIs ==
    ASSUME NEW x, Put(x), Follows(repLog, x)
    PROVE  \E y : repLog' = Append(repLog, y) /\ week' = week /\ Follows(repLog, y)
  BY DEF Put

\* M is L and the enrollments of some founders.
Founds(L, M) ==
    /\ M \in Seq(Entries) /\ Len(L) < Len(M) /\ \A i \in 1 .. Len(L) : M[i] = L[i]
    /\ \A i \in Len(L) + 1 .. Len(M) : M[i].kind = "enroll" /\ M[i].basis = "founder"

LEMMA FoundersAdd ==
    ASSUME RepInv, EnrollFounders
    PROVE  Founds(repLog, repLog') /\ week' = week
<1>1. PICK owed \in SetToSeqs({m \in FounderSet : EnrollmentOwed(m, "founder")}) :
        /\ owed # <<>>
        /\ repLog' = repLog \o [i \in DOMAIN owed |->
                         [kind |-> "enroll", who |-> owed[i], basis |-> "founder"]]
        /\ week' = week
  BY DEF EnrollFounders
<1>2. PICK n : n = Cardinality({m \in FounderSet : EnrollmentOwed(m, "founder")})
  OBVIOUS
<1>3. owed \in [1 .. n -> People]
  BY <1>1, <1>2, ReputationAssumption DEF SetToSeqs
<1>4. n \in Nat
  <2>1. IsFiniteSet(People) /\ {m \in FounderSet : EnrollmentOwed(m, "founder")} \subseteq People
    BY ReputationAssumption
  <2> QED
    BY <1>2, <2>1, FS_Subset, FS_CardinalityType
<1>5. PICK batch : batch = [i \in 1 .. n |-> [kind |-> "enroll", who |-> owed[i], basis |-> "founder"]]
  OBVIOUS
<1>6. \A i \in 1 .. n : batch[i] \in Entries /\ batch[i].kind = "enroll" /\ batch[i].basis = "founder"
  BY <1>3, <1>5 DEF Entries
<1>7. batch \in Seq(Entries) /\ Len(batch) = n
  BY <1>4, <1>5, <1>6
<1>8. n # 0
  BY <1>1, <1>3
<1>9. repLog' = repLog \o batch
  BY <1>1, <1>3, <1>5
<1>10. repLog \in Seq(Entries) /\ Len(repLog) \in Nat
  BY DEF RepInv, IsRepLog
<1>11. /\ repLog' \in Seq(Entries) /\ Len(repLog') = Len(repLog) + n
       /\ \A i \in 1 .. Len(repLog) : repLog'[i] = repLog[i]
       /\ \A i \in Len(repLog) + 1 .. Len(repLog) + n : repLog'[i] = batch[i - Len(repLog)]
  BY <1>4, <1>7, <1>9, <1>10
<1>12. ASSUME NEW i \in Len(repLog) + 1 .. Len(repLog')
       PROVE  repLog'[i].kind = "enroll" /\ repLog'[i].basis = "founder"
  <2>1. i \in Len(repLog) + 1 .. Len(repLog) + n /\ i - Len(repLog) \in 1 .. n
    BY <1>4, <1>10, <1>11
  <2> QED
    BY <1>6, <1>11, <2>1
<1> QED
  BY <1>1, <1>4, <1>8, <1>10, <1>11, <1>12 DEF Founds

LEMMA ActionAdds ==
    ASSUME RepInv, ReputationNext
    PROVE  \/ \E x : repLog' = Append(repLog, x) /\ week' = week /\ Follows(repLog, x)
           \/ Founds(repLog, repLog') /\ week' = week
           \/ repLog' = repLog /\ week' = week + 1 /\ week < LastWeek
<1> DEFINE Adds == \E x : repLog' = Append(repLog, x) /\ week' = week /\ Follows(repLog, x)
<1>2. LastWeek \in Nat /\ RepSkew \in Nat
  BY ReputationAssumption
<1>1. week \in 0 .. Forever /\ repLog \in Seq(Entries) /\ Len(repLog) \in Nat
  BY <1>2 DEF RepInv, IsRepLog, Forever
<1>3. ASSUME NEW m \in People, EnsureEnrolled(m)
      PROVE  Adds
  <2>1. PICK x : x = [kind |-> "enroll", who |-> m, basis |-> "pairing"]
    OBVIOUS
  <2>2. Put(x)
    BY <1>3, <2>1 DEF EnsureEnrolled
  <2>3. x.kind = "enroll" /\ x.who = m /\ x \in Entries
    BY <2>1 DEF Entries
  <2>4. ~EnrolledAt(repLog, m, Len(repLog) + 1)
    BY <1>3 DEF EnsureEnrolled, EnrollmentOwed, End
  <2>5. Follows(repLog, x)
    BY <2>3, <2>4 DEF Follows
  <2> QED
    BY <2>2, <2>5, PutIs
<1>4. ASSUME NEW m \in People, RevokeEnrollment(m)
      PROVE  Adds
  <2>1. PICK x : x = [kind |-> "revoke", who |-> m]
    OBVIOUS
  <2>2. Put(x)
    BY <1>4, <2>1 DEF RevokeEnrollment
  <2>3. x.kind = "revoke" /\ x \in Entries
    BY <2>1 DEF Entries
  <2>5. Follows(repLog, x)
    BY <2>3 DEF Follows
  <2> QED
    BY <2>2, <2>5, PutIs
<1>5. ASSUME NEW m \in People, NEW n \in People, NEW at \in 0 .. LastWeek + RepSkew, SubmitVouch(m, n, at)
      PROVE  Adds
  <2>1. PICK x : x = [kind |-> "vouch", who |-> m, of |-> n, at |-> at]
    OBVIOUS
  <2>2. Put(x)
    BY <1>5, <2>1 DEF SubmitVouch
  <2>3. at \in 0 .. Forever
    BY <1>2 DEF Forever
  <2>4. x.kind = "vouch" /\ x \in Entries
    BY <2>1, <2>3 DEF Entries
  <2>5. Follows(repLog, x)
    BY <2>4 DEF Follows
  <2> QED
    BY <2>2, <2>5, PutIs
<1>6. ASSUME NEW t \in DOMAIN Trades, ConfirmTrade(t)
      PROVE  Adds
  <2>1. PICK x : x = [kind |-> "confirm", trade |-> t]
    OBVIOUS
  <2>2. Put(x)
    BY <1>6, <2>1 DEF ConfirmTrade
  <2>3. x.kind = "confirm" /\ x \in Entries
    BY <2>1 DEF Entries
  <2>5. Follows(repLog, x)
    BY <2>3 DEF Follows
  <2> QED
    BY <2>2, <2>5, PutIs
<1>7. ASSUME NEW t \in DOMAIN Trades, CloseTrade(t)
      PROVE  Adds
  <2>1. \/ Put([kind |-> "settle", trade |-> t, at |-> week])
        \/ Put([kind |-> "dispute", trade |-> t])
        \/ Put([kind |-> "uphold", trade |-> t, at |-> week])
    BY <1>7 DEF CloseTrade
  <2>2. \E j \in 1 .. Len(repLog) : repLog[j].kind = "confirm" /\ repLog[j].trade = t
    BY <1>7 DEF CloseTrade, OfTrade, EntriesOf
  <2>3. ASSUME NEW x, Put(x), x \in Entries, x.kind # "enroll", x.kind = "settle" => x.trade = t
        PROVE  Adds
    <3>1. Follows(repLog, x)
      BY <2>2, <2>3 DEF Follows
    <3> QED
      BY <2>3, <3>1, PutIs
  <2>4. CASE Put([kind |-> "settle", trade |-> t, at |-> week])
    <3>1. PICK x : x = [kind |-> "settle", trade |-> t, at |-> week]
      OBVIOUS
    <3>2. x \in Entries /\ x.kind = "settle" /\ x.trade = t
      BY <1>1, <3>1 DEF Entries
    <3> QED
      BY <2>3, <2>4, <3>1, <3>2
  <2>5. CASE Put([kind |-> "dispute", trade |-> t])
    <3>1. PICK x : x = [kind |-> "dispute", trade |-> t]
      OBVIOUS
    <3>2. x \in Entries /\ x.kind = "dispute"
      BY <1>1, <3>1 DEF Entries
    <3> QED
      BY <2>3, <2>5, <3>1, <3>2
  <2>6. CASE Put([kind |-> "uphold", trade |-> t, at |-> week])
    <3>1. PICK x : x = [kind |-> "uphold", trade |-> t, at |-> week]
      OBVIOUS
    <3>2. x \in Entries /\ x.kind = "uphold"
      BY <1>1, <3>1 DEF Entries
    <3> QED
      BY <2>3, <2>6, <3>1, <3>2
  <2> QED
    BY <2>1, <2>4, <2>5, <2>6
<1>8. ASSUME NEW m \in Suspects, RecordEquivocation(m)
      PROVE  Adds
  <2>1. Cardinality(Cases) + 1 \in Nat
    <3>1. IsFiniteSet(1 .. Len(repLog))
      BY <1>1, FS_Interval
    <3>2. Cases \in SUBSET (1 .. Len(repLog))
      BY DEF Cases, EntriesOf
    <3>3. IsFiniteSet(Cases)
      BY <3>1, <3>2, FS_Subset
    <3>4. Cardinality(Cases) \in Nat
      BY <3>3, FS_CardinalityType
    <3> QED
      BY <3>4
  <2>2. PICK c \in Nat : c = Cardinality(Cases) + 1
    BY <2>1
  <2>3. PICK x : x = [kind |-> "equivocation", who |-> m, case |-> c, at |-> week]
    OBVIOUS
  <2>4. Put(x)
    BY <1>8, <2>2, <2>3 DEF RecordEquivocation
  <2>5. x.kind = "equivocation" /\ x \in Entries
    BY <1>1, <2>3 DEF Entries
  <2>6. Follows(repLog, x)
    BY <2>5 DEF Follows
  <2> QED
    BY <2>4, <2>6, PutIs
<1>9. ASSUME NEW i \in Cases, Overturn(i)
      PROVE  Adds
  <2>1. repLog[i] \in Entries /\ repLog[i].kind = "equivocation"
    BY <1>1 DEF Cases, EntriesOf
  <2>2. repLog[i].case \in Nat
    BY <2>1 DEF Entries
  <2>3. PICK x : x = [kind |-> "overturn", case |-> repLog[i].case, at |-> week]
    OBVIOUS
  <2>4. Put(x)
    BY <1>9, <2>3 DEF Overturn
  <2>5. x.kind = "overturn" /\ x \in Entries
    BY <1>1, <2>2, <2>3 DEF Entries
  <2>6. Follows(repLog, x)
    BY <2>5 DEF Follows
  <2> QED
    BY <2>4, <2>6, PutIs
<1>10. CASE WeekPasses
  BY <1>10 DEF WeekPasses
<1> HIDE DEF Adds
<1>11. Adds \/ EnrollFounders \/ WeekPasses
  BY <1>3, <1>4, <1>5, <1>6, <1>7, <1>8, <1>9 DEF ReputationNext
<1> QED
  BY <1>10, <1>11, FoundersAdd DEF Adds

LEMMA FollowsLog ==
    ASSUME NEW L, IsRepLog(L), NEW x, Follows(L, x)
    PROVE  IsRepLog(Append(L, x))
<1>1. PICK M : M = Append(L, x)
  OBVIOUS
<1>2. /\ L \in Seq(Entries) /\ Len(L) \in Nat /\ x \in Entries
      /\ M \in Seq(Entries) /\ Len(M) = Len(L) + 1 /\ M[Len(L) + 1] = x
      /\ \A i \in 1 .. Len(L) : M[i] = L[i]
  BY <1>1 DEF IsRepLog, Follows
<1>3. ASSUME NEW i \in 1 .. Len(M), M[i].kind = "settle"
      PROVE  \E j \in 1 .. i - 1 : M[j].kind = "confirm" /\ M[j].trade = M[i].trade
  <2>1. CASE i \in 1 .. Len(L)
    <3>1. PICK j \in 1 .. i - 1 : L[j].kind = "confirm" /\ L[j].trade = L[i].trade
      BY <1>2, <1>3, <2>1 DEF IsRepLog, SettledIsConfirmed
    <3>2. j \in 1 .. Len(L)
      BY <1>2, <2>1
    <3>3. M[j] = L[j] /\ M[i] = L[i]
      BY <1>2, <2>1, <3>2
    <3> QED
      BY <3>1, <3>3
  <2>2. CASE i = Len(L) + 1
    <3>1. PICK j \in 1 .. Len(L) : L[j].kind = "confirm" /\ L[j].trade = x.trade
      BY <1>2, <1>3, <2>2 DEF Follows
    <3>2. M[j] = L[j] /\ M[i] = x /\ j \in 1 .. i - 1
      BY <1>2, <2>2
    <3> QED
      BY <3>1, <3>2
  <2> QED
    BY <1>2, <2>1, <2>2
<1>4. SettledIsConfirmed(M)
  BY <1>3 DEF SettledIsConfirmed
<1>5. Grown(L, M)
  BY <1>2 DEF Grown
<1>6. ASSUME NEW i \in 1 .. Len(M), M[i].kind = "enroll", M[i].basis # "founder"
      PROVE  ~EnrolledAt(M, M[i].who, i)
  <2>1. LastEvent(M, M[i].who, i) = LastEvent(L, M[i].who, i)
    BY <1>2, <1>5, EventsLocal
  <2>2. CASE i \in 1 .. Len(L)
    BY <1>2, <1>6, <2>1, <2>2 DEF IsRepLog, EnrolledOnce, EnrolledAt
  <2>3. CASE i = Len(L) + 1
    BY <1>2, <1>6, <2>1, <2>3 DEF Follows, EnrolledAt
  <2> QED
    BY <1>2, <2>2, <2>3
<1>7. EnrolledOnce(M)
  BY <1>6 DEF EnrolledOnce
<1> QED
  BY <1>1, <1>2, <1>4, <1>7 DEF IsRepLog

\* What a step does to the log and the clock, and what is anchored for it.
AnchoringStep(L, w, M, v) ==
    LET was == AnchoredSet(L, w)
        is  == AnchoredSet(M, v)
        new == IF M = L THEN [kind |-> "week"] ELSE Last(M)
    IN  /\ was \ is # {} => new.kind = "revoke"
        /\ is \ was # {} =>
             \/ new.kind = "vouch"
             \/ new.kind = "enroll" /\ new.basis = "founder"
             \/ new.kind = "week" /\ \E e \in Edges(L) : L[e].at = v
        /\ \A m \in is : EnrolledAt(M, m, Len(M) + 1)

LEMMA AppendAnchors ==
    ASSUME NEW L, IsRepLog(L), NEW x, Follows(L, x), NEW w \in Int
    PROVE  AnchoringStep(L, w, Append(L, x), w)
<1>1. PICK M : M = Append(L, x)
  OBVIOUS
<1>2. /\ L \in Seq(Entries) /\ Len(L) \in Nat /\ x \in Entries
      /\ M \in Seq(Entries) /\ Len(M) = Len(L) + 1 /\ M[Len(M)] = x
  BY <1>1 DEF IsRepLog, Follows
<1>3. Grown(L, M)
  BY <1>1, <1>2 DEF Grown
<1>4. M # L /\ Last(M) = x
  BY <1>2 DEF Last
<1>5. x.kind # "revoke" => AnchoredSet(L, w) \subseteq AnchoredSet(M, w)
  BY <1>2, <1>3, NoneLost DEF Follows
<1>6. x.kind # "vouch" /\ ~(x.kind = "enroll" /\ x.basis = "founder")
        => AnchoredSet(M, w) \subseteq AnchoredSet(L, w)
  BY <1>2, <1>3, NoneWon
<1>7. \A m \in AnchoredSet(M, w) : EnrolledAt(M, m, Len(M) + 1)
  BY <1>2, AnchoredAreEnrolled
<1>8. AnchoringStep(L, w, M, w)
  BY <1>4, <1>5, <1>6, <1>7 DEF AnchoringStep
<1> QED
  BY <1>1, <1>8

\* The first j entries of a log.
Cut(M, j) == [i \in 1 .. j |-> M[i]]

LEMMA FoundsOneByOne ==
    ASSUME NEW L, IsRepLog(L), NEW M, Founds(L, M), NEW w
    PROVE  IsRepLog(M) /\ AnchoredSet(L, w) \subseteq AnchoredSet(M, w)
<1>1. /\ L \in Seq(Entries) /\ M \in Seq(Entries) /\ Len(L) \in Nat /\ Len(M) \in Nat /\ Len(L) < Len(M)
      /\ L = [i \in 1 .. Len(L) |-> L[i]] /\ M = [i \in 1 .. Len(M) |-> M[i]]
      /\ \A i \in 1 .. Len(L) : M[i] = L[i]
  BY DEF Founds, IsRepLog
<1>2. Cut(M, Len(L)) = L /\ Cut(M, Len(M)) = M
  BY <1>1 DEF Cut
<1> DEFINE Good(j) == IsRepLog(Cut(M, j)) /\ AnchoredSet(L, w) \subseteq AnchoredSet(Cut(M, j), w)
           Bad == {j \in Len(L) .. Len(M) : ~Good(j)}
<1>3. Good(Len(L))
  BY <1>2
<1>4. ASSUME NEW j \in Len(L) + 1 .. Len(M), Good(j - 1) PROVE Good(j)
  <2>1. PICK A, B, x : A = Cut(M, j - 1) /\ B = Cut(M, j) /\ x = M[j]
    OBVIOUS
  <2>2. j \in 1 .. Len(M) /\ j - 1 \in Nat /\ j - 1 \in 1 .. j - 1 \cup {0} /\ x \in Entries
    BY <1>1, <2>1
  <2>3. A \in Seq(Entries) /\ Len(A) = j - 1 /\ B \in Seq(Entries) /\ Len(B) = j
        /\ B[j] = x /\ \A i \in 1 .. j - 1 : B[i] = A[i]
    <3>1. \A i \in 1 .. j : M[i] \in Entries
      <4>1. \A i \in 1 .. Len(M) : M[i] \in Entries
        BY <1>1
      <4>2. \A i \in 1 .. j : i \in 1 .. Len(M)
        BY <1>1, <2>2
      <4> QED
        BY <4>1, <4>2
    <3>2. A = [i \in 1 .. j - 1 |-> M[i]] /\ B = [i \in 1 .. j |-> M[i]]
      BY <2>1 DEF Cut
    <3>3. j \in Nat /\ j \in 1 .. j /\ \A i \in 1 .. j - 1 : i \in 1 .. j
      BY <1>1, <2>2
    <3>4. A \in [1 .. j - 1 -> Entries]
      BY <3>1, <3>2, <3>3
    <3>5. B \in [1 .. j -> Entries]
      BY <3>1, <3>2
    <3>6. A \in Seq(Entries) /\ Len(A) = j - 1
      BY <2>2, <3>4
    <3>7. B \in Seq(Entries) /\ Len(B) = j
      BY <3>3, <3>5
    <3>8. B[j] = x
      BY <2>1, <3>2, <3>3
    <3>9. \A i \in 1 .. j - 1 : B[i] = A[i]
      BY <3>2, <3>3
    <3> QED
      BY <3>6, <3>7, <3>8, <3>9
  <2>4. Append(A, x) = B
    BY <2>1, <2>2, <2>3 DEF Cut
  <2>5. x.kind = "enroll" /\ x.basis = "founder"
    BY <1>4, <2>1 DEF Founds
  <2>6. Follows(A, x)
    BY <2>2, <2>5 DEF Follows
  <2>7. IsRepLog(A) /\ AnchoredSet(L, w) \subseteq AnchoredSet(A, w)
    BY <1>4, <2>1
  <2>8. IsRepLog(B)
    BY <2>4, <2>6, <2>7, FollowsLog
  <2>9. Grown(A, B)
    BY <2>2, <2>3 DEF Grown
  <2>10. x = B[Len(B)]
    BY <2>3
  <2>11. AnchoredSet(A, w) \subseteq AnchoredSet(B, w)
    BY <2>3, <2>5, <2>7, <2>9, <2>10, NoneLost
  <2> QED
    BY <2>1, <2>7, <2>8, <2>11
<1> HIDE DEF Good
<1>5. ASSUME Bad # {} PROVE FALSE
  <2>1. Bad \subseteq Nat
    BY <1>1
  <2>2. PICK j \in Bad : \A k \in Bad : j <= k
    <3> HIDE DEF Bad
    <3> QED
      BY <1>5, <2>1, LeastNatural
  <2>3. j \in Len(L) .. Len(M) /\ ~Good(j) /\ j # Len(L)
    BY <1>3, <2>2
  <2>4. j \in Len(L) + 1 .. Len(M) /\ j - 1 \in Len(L) .. Len(M) /\ ~(j <= j - 1)
    BY <1>1, <2>3
  <2>5. Good(j - 1)
    BY <2>2, <2>4
  <2> QED
    BY <1>4, <2>3, <2>4, <2>5
<1>6. Good(Len(M))
  BY <1>1, <1>5
<1> QED
  BY <1>2, <1>6 DEF Good

LEMMA FoundingAnchors ==
    ASSUME NEW L, IsRepLog(L), NEW M, Founds(L, M), NEW w
    PROVE  AnchoringStep(L, w, M, w)
<1>1. M \in Seq(Entries) /\ Len(L) \in Nat /\ Len(M) \in Nat /\ Len(L) < Len(M)
  BY DEF Founds, IsRepLog
<1>2. AnchoredSet(L, w) \subseteq AnchoredSet(M, w)
  BY FoundsOneByOne
<1>3. M # L /\ Last(M) = M[Len(M)] /\ Len(M) \in Len(L) + 1 .. Len(M)
  BY <1>1 DEF Last
<1>4. Last(M).kind = "enroll" /\ Last(M).basis = "founder"
  BY <1>3 DEF Founds
<1>5. \A m \in AnchoredSet(M, w) : EnrolledAt(M, m, Len(M) + 1)
  BY <1>1, AnchoredAreEnrolled
<1> QED
  BY <1>2, <1>3, <1>4, <1>5 DEF AnchoringStep

LEMMA ClockAnchors ==
    ASSUME NEW L, IsRepLog(L), NEW w \in Int
    PROVE  AnchoringStep(L, w, L, w + 1)
<1>1. L \in Seq(Entries)
  BY DEF IsRepLog
<1>2. PICK was, is : was = AnchoredSet(L, w) /\ is = AnchoredSet(L, w + 1)
  OBVIOUS
<1>3. was \subseteq is
  BY <1>1, <1>2, WeekAnchors
<1>4. (\A e \in Edges(L) : L[e].at # w + 1) => is \subseteq was
  BY <1>1, <1>2, WeekAnchors
<1>5. \A m \in is : EnrolledAt(L, m, Len(L) + 1)
  BY <1>1, <1>2, AnchoredAreEnrolled
<1> QED
  BY <1>2, <1>3, <1>4, <1>5 DEF AnchoringStep

LEMMA RepInit == ReputationInit => RepInv
  BY ReputationAssumption DEF ReputationInit, RepInv, IsRepLog

LEMMA RepNext == RepInv /\ [ReputationNext]_reputationVars => RepInv'
<1> SUFFICES ASSUME RepInv, [ReputationNext]_reputationVars PROVE RepInv'
  OBVIOUS
<1>1. CASE ReputationNext
  <2>1. CASE \E x : repLog' = Append(repLog, x) /\ week' = week /\ Follows(repLog, x)
    BY <2>1, FollowsLog DEF RepInv
  <2>2. CASE Founds(repLog, repLog') /\ week' = week
    BY <2>2, FoundsOneByOne DEF RepInv
  <2>3. CASE repLog' = repLog /\ week' = week + 1 /\ week < LastWeek
    BY <2>3, ReputationAssumption DEF RepInv
  <2> QED
    BY <1>1, <2>1, <2>2, <2>3, ActionAdds
<1>2. CASE UNCHANGED reputationVars
  BY <1>2 DEF RepInv, reputationVars
<1> QED
  BY <1>1, <1>2

\* AnchoringIsJudgedOnce (EnrollmentTimeline, build_edges and reach in context.rs):
\* whatever the log, no penalty, verdict, trade or passing week moves an anchor.
THEOREM AnchoringTheorem == ReputationSpec => AnchoringIsJudgedOnce
<1>1. RepInv /\ [ReputationNext]_reputationVars
        => [AnchoringStep(repLog, week, repLog', week')]_reputationVars
  <2> SUFFICES ASSUME RepInv, ReputationNext
               PROVE  AnchoringStep(repLog, week, repLog', week')
    OBVIOUS
  <2>0. week \in Int
    BY DEF RepInv
  <2>1. CASE \E x : repLog' = Append(repLog, x) /\ week' = week /\ Follows(repLog, x)
    BY <2>0, <2>1, AppendAnchors DEF RepInv
  <2>2. CASE Founds(repLog, repLog') /\ week' = week
    BY <2>2, FoundingAnchors DEF RepInv
  <2>3. CASE repLog' = repLog /\ week' = week + 1
    BY <2>0, <2>3, ClockAnchors DEF RepInv
  <2> QED
    BY <2>1, <2>2, <2>3, ActionAdds
<1>2. [AnchoringStep(repLog, week, repLog', week')]_reputationVars
        => [LET was == AnchoredSet(repLog, week)
                is  == AnchoredSet(repLog', week')
                new == IF repLog' = repLog THEN [kind |-> "week"] ELSE Last(repLog')
            IN  /\ was \ is # {} => new.kind = "revoke"
                /\ is \ was # {} =>
                     \/ new.kind = "vouch"
                     \/ new.kind = "enroll" /\ new.basis = "founder"
                     \/ new.kind = "week" /\ \E e \in Edges(repLog) : repLog[e].at = week'
                /\ \A m \in is : EnrolledAt(repLog', m, Len(repLog') + 1)]_reputationVars
  BY DEF AnchoringStep
<1> QED
  BY <1>1, <1>2, RepInit, RepNext, PTL DEF ReputationSpec, AnchoringIsJudgedOnce

-----------------------------------------------------------------------------
(* Iterated steps.                                                         *)

IsIterate(t, N, U, s, f) ==
    t \in [0 .. N -> U] /\ t[0] = s /\ \A n \in 1 .. N : t[n] = f[n][t[n - 1]]

LEMMA IterateExists ==
    ASSUME NEW N \in Nat, NEW U, NEW s \in U, NEW f, \A n \in 1 .. N : f[n] \in [U -> U]
    PROVE  \E t : IsIterate(t, N, U, s, f)
<1> DEFINE Bad == {k \in 0 .. N : ~ \E t : IsIterate(t, k, U, s, f)}
<1>0. N \in 0 .. N
  OBVIOUS
<1>1. SUFFICES ASSUME Bad # {} PROVE FALSE
  BY <1>0, Zenon
<1>2. Bad \subseteq Nat
  OBVIOUS
<1>3. PICK k \in Bad : \A j \in Bad : k <= j
  <2> HIDE DEF Bad
  <2> QED
    BY <1>1, <1>2, LeastNatural
<1>4. k \in 0 .. N /\ ~ \E t : IsIterate(t, k, U, s, f)
  OBVIOUS
<1>5. k # 0
  <2>1. IsIterate([i \in 0 .. 0 |-> s], 0, U, s, f)
    BY DEF IsIterate
  <2> QED
    BY <1>4, <2>1
<1>6. PICK u : IsIterate(u, k - 1, U, s, f)
  <2>1. k - 1 \in 0 .. N /\ ~ (k <= k - 1)
    BY <1>4, <1>5
  <2> QED
    BY <1>3, <2>1
<1>7. PICK w : w = [i \in 0 .. k |-> IF i = k THEN f[k][u[k - 1]] ELSE u[i]]
  OBVIOUS
<1>8. f[k] \in [U -> U] /\ u[k - 1] \in U /\ k \in Nat
  BY <1>4, <1>5, <1>6 DEF IsIterate
<1>9. w \in [0 .. k -> U] /\ w[k] = f[k][u[k - 1]] /\ \A i \in 0 .. k - 1 : w[i] = u[i]
  BY <1>4, <1>6, <1>7, <1>8 DEF IsIterate
<1>10. \A n \in 1 .. k : w[n] = f[n][w[n - 1]]
  BY <1>4, <1>5, <1>6, <1>9 DEF IsIterate
<1>11. w[0] = s
  BY <1>4, <1>5, <1>6, <1>9 DEF IsIterate
<1>12. IsIterate(w, k, U, s, f)
  BY <1>9, <1>10, <1>11 DEF IsIterate
<1> QED
  BY <1>4, <1>12

\* As many steps as there are elements fill a set or come to a halt.
LEMMA GrowsFull ==
    ASSUME NEW U, IsFiniteSet(U), NEW N \in Nat, Cardinality(U) <= N,
           NEW t \in [0 .. N -> SUBSET U], \A n \in 1 .. N : t[n - 1] \subseteq t[n]
    PROVE  t[N] = U \/ \E n \in 1 .. N : t[n] = t[n - 1]
<1> SUFFICES ASSUME \A n \in 1 .. N : t[n] # t[n - 1]
             PROVE  t[N] = U
  OBVIOUS
<1>1. \A n \in 0 .. N : IsFiniteSet(t[n]) /\ Cardinality(t[n]) \in Nat
  <2> SUFFICES ASSUME NEW n \in 0 .. N PROVE IsFiniteSet(t[n]) /\ Cardinality(t[n]) \in Nat
    OBVIOUS
  <2>1. t[n] \in SUBSET U
    OBVIOUS
  <2>2. IsFiniteSet(t[n])
    BY <2>1, FS_Subset
  <2> QED
    BY <2>2, FS_CardinalityType
<1> DEFINE Bad == {n \in 0 .. N : Cardinality(t[n]) < n}
<1>2. ASSUME Bad # {} PROVE FALSE
  <2>1. Bad \subseteq Nat
    OBVIOUS
  <2>2. PICK k \in Bad : \A j \in Bad : k <= j
    <3> HIDE DEF Bad
    <3> QED
      BY <1>2, <2>1, LeastNatural
  <2>3. k \in 0 .. N /\ Cardinality(t[k]) < k
    BY <2>2
  <2>4. k \in 1 .. N /\ k - 1 \in 0 .. N
    BY <1>1, <2>3
  <2>5. Cardinality(t[k - 1]) >= k - 1
    <3>1. ~ (k <= k - 1)
      BY <2>4
    <3>2. k - 1 \notin Bad
      BY <2>2, <3>1
    <3> QED
      BY <1>1, <2>4, <3>2
  <2>6. t[k - 1] \in SUBSET t[k] /\ t[k - 1] # t[k]
    BY <2>4
  <2>7. Cardinality(t[k - 1]) <= Cardinality(t[k]) /\ Cardinality(t[k - 1]) # Cardinality(t[k])
    BY <1>1, <2>4, <2>6, FS_Subset
  <2> QED
    BY <1>1, <2>3, <2>4, <2>5, <2>7
<1>3. Cardinality(t[N]) >= N
  <2>1. N \in 0 .. N /\ N \notin Bad
    BY <1>2
  <2> QED
    BY <1>1, <2>1
<1>4. t[N] \in SUBSET U
  OBVIOUS
<1>5. Cardinality(t[N]) <= Cardinality(U) /\ Cardinality(U) \in Nat
  BY <1>4, FS_Subset, FS_CardinalityType
<1>6. Cardinality(t[N]) = Cardinality(U)
  BY <1>1, <1>3, <1>5
<1> QED
  BY <1>4, <1>6, FS_Subset

-----------------------------------------------------------------------------
(* A selection of a log.  Its positions stand, in order, for some of the   *)
(* log's, and its end for the log's end.                                   *)

Picks(at, L, S, B) ==
    /\ Len(B) \in Nat /\ Len(L) \in Nat
    /\ at \in [1 .. Len(B) + 1 -> 1 .. Len(L) + 1]
    /\ at[Len(B) + 1] = Len(L) + 1
    /\ \A i, j \in 1 .. Len(B) + 1 : i < j => at[i] < at[j]
    /\ \A n \in 1 .. Len(B) : at[n] \in S /\ B[n] = L[at[n]]
    /\ \A i \in S : \E n \in 1 .. Len(B) : at[n] = i

Concerning(L, people) ==
    {i \in EntriesOf(L, {"confirm", "settle", "uphold"}) :
        people \cap {Trades[L[i].trade].from, Trades[L[i].trade].to} # {}}
      \cup {i \in EntriesOf(L, {"vouch"}) : people \cap {L[i].who, L[i].of} # {}}

NamedIn(L, people) ==
    people \cup UNION {IF L[i].kind = "vouch" THEN {L[i].who, L[i].of}
                       ELSE {Trades[L[i].trade].from, Trades[L[i].trade].to} :
                       i \in Concerning(L, people)}

Selection(L, people) ==
    Concerning(L, people)
      \cup {i \in EntriesOf(L, {"enroll", "revoke"}) : L[i].who \in NamedIn(L, people)}

IsSelecting(t, L, S) ==
    t = [i \in 0 .. Len(L) |->
            IF i = 0 THEN <<>> ELSE IF i \in S THEN Append(t[i - 1], L[i]) ELSE t[i - 1]]

LEMMA SelectingExists ==
    ASSUME NEW L \in Seq(Entries), NEW S
    PROVE  \E t : IsSelecting(t, L, S) /\ t \in [0 .. Len(L) -> Seq(Entries)]
<1>1. Len(L) \in Nat /\ \A i \in 1 .. Len(L) : L[i] \in Entries
  OBVIOUS
<1>2. PICK U, N, s : U = Seq(Entries) /\ N = Len(L) /\ s = <<>>
  OBVIOUS
<1>3. PICK f : f = [n \in 1 .. N |-> [q \in U |-> IF n \in S THEN Append(q, L[n]) ELSE q]]
  OBVIOUS
<1>4. \A n \in 1 .. N : f[n] \in [U -> U]
  BY <1>1, <1>2, <1>3
<1>5. s \in U /\ N \in Nat
  BY <1>1, <1>2
<1>6. PICK t : IsIterate(t, N, U, s, f)
  BY <1>4, <1>5, IterateExists
<1>7. t \in [0 .. N -> U] /\ t[0] = s /\ \A n \in 1 .. N : t[n] = f[n][t[n - 1]]
  BY <1>6 DEF IsIterate
<1>8. \A n \in 1 .. N : t[n] = IF n \in S THEN Append(t[n - 1], L[n]) ELSE t[n - 1]
  <2> SUFFICES ASSUME NEW n \in 1 .. N
               PROVE  t[n] = IF n \in S THEN Append(t[n - 1], L[n]) ELSE t[n - 1]
    OBVIOUS
  <2>1. t[n] = f[n][t[n - 1]] /\ t[n - 1] \in U
    BY <1>5, <1>7
  <2>2. f[n] = [q \in U |-> IF n \in S THEN Append(q, L[n]) ELSE q]
    BY <1>3
  <2>3. f[n][t[n - 1]] = IF n \in S THEN Append(t[n - 1], L[n]) ELSE t[n - 1]
    BY <2>1, <2>2, Zenon
  <2> QED
    BY <2>1, <2>3
<1>9. IsSelecting(t, L, S)
  <2>1. DOMAIN t = 0 .. N /\ t = [i \in 0 .. N |-> t[i]]
    BY <1>7
  <2>2. \A i \in 0 .. N : t[i] = IF i = 0 THEN <<>>
                               ELSE IF i \in S THEN Append(t[i - 1], L[i]) ELSE t[i - 1]
    <3> SUFFICES ASSUME NEW i \in 0 .. N
                 PROVE  t[i] = IF i = 0 THEN <<>>
                               ELSE IF i \in S THEN Append(t[i - 1], L[i]) ELSE t[i - 1]
      OBVIOUS
    <3>1. CASE i = 0
      BY <1>2, <1>7, <3>1, Zenon
    <3>2. CASE i # 0
      <4>1. i \in 1 .. N
        BY <1>5, <3>2
      <4> QED
        BY <1>8, <3>2, <4>1, Zenon
    <3> QED
      BY <3>1, <3>2
  <2>3. [i \in 0 .. N |-> t[i]]
          = [i \in 0 .. N |-> IF i = 0 THEN <<>>
                               ELSE IF i \in S THEN Append(t[i - 1], L[i]) ELSE t[i - 1]]
    BY <2>2, Zenon
  <2> QED
    BY <1>2, <2>1, <2>3, Zenon DEF IsSelecting
<1> QED
  BY <1>2, <1>7, <1>9

LEMMA ConcerningTable ==
    ASSUME NEW L \in Seq(Entries), NEW people
    PROVE  \E t : /\ IsSelecting(t, L, Selection(L, people))
                  /\ EntriesConcerning(L, people) = t[Len(L)]
<1>1. PICK S : S = Selection(L, people)
  OBVIOUS
<1>2. PICK t : t = CHOOSE u : IsSelecting(u, L, S)
  OBVIOUS
<1>3. IsSelecting(t, L, S)
  BY <1>2, SelectingExists
<1>4. EntriesConcerning(L, people) = t[Len(L)]
  BY <1>1, <1>2 DEF EntriesConcerning, Selection, NamedIn, Concerning, IsSelecting
<1> QED
  BY <1>1, <1>3, <1>4

\* The first i entries' selection.
PicksTo(g, L, S, i, q) ==
    /\ Len(q) \in Nat
    /\ g \in [1 .. Len(q) -> 1 .. i]
    /\ \A j, k \in 1 .. Len(q) : j < k => g[j] < g[k]
    /\ \A n \in 1 .. Len(q) : g[n] \in S /\ q[n] = L[g[n]]
    /\ \A j \in S \cap (1 .. i) : \E n \in 1 .. Len(q) : g[n] = j

LEMMA PicksNext ==
    ASSUME NEW L \in Seq(Entries), NEW S, NEW i \in 1 .. Len(L), NEW q \in Seq(Entries),
           NEW g, PicksTo(g, L, S, i - 1, q)
    PROVE  /\ i \in S => \E h : PicksTo(h, L, S, i, Append(q, L[i]))
           /\ i \notin S => PicksTo(g, L, S, i, q)
<1>1. /\ Len(q) \in Nat /\ g \in [1 .. Len(q) -> 1 .. i - 1]
      /\ \A j, k \in 1 .. Len(q) : j < k => g[j] < g[k]
      /\ \A n \in 1 .. Len(q) : g[n] \in S /\ q[n] = L[g[n]]
      /\ \A j \in S \cap (1 .. i - 1) : \E n \in 1 .. Len(q) : g[n] = j
  BY DEF PicksTo
<1>2. i \in Nat /\ i >= 1 /\ Len(L) \in Nat /\ L[i] \in Entries
  OBVIOUS
<1>3. ASSUME i \notin S PROVE PicksTo(g, L, S, i, q)
  <2>1. g \in [1 .. Len(q) -> 1 .. i]
    BY <1>1, <1>2
  <2>2. S \cap (1 .. i) = S \cap (1 .. i - 1)
    BY <1>2, <1>3
  <2> QED
    BY <1>1, <2>1, <2>2 DEF PicksTo
<1>4. ASSUME i \in S PROVE \E h : PicksTo(h, L, S, i, Append(q, L[i]))
  <2>1. PICK r, m : r = Append(q, L[i]) /\ m = Len(q)
    OBVIOUS
  <2>2. Len(r) = m + 1 /\ r[m + 1] = L[i] /\ (\A n \in 1 .. m : r[n] = q[n]) /\ m \in Nat
    BY <1>1, <1>2, <2>1
  <2>3. PICK h : h = [n \in 1 .. m + 1 |-> IF n = m + 1 THEN i ELSE g[n]]
    OBVIOUS
  <2>4. h[m + 1] = i /\ \A n \in 1 .. m : h[n] = g[n] /\ h[n] \in 1 .. i - 1
    <3>1. m + 1 \in 1 .. m + 1 /\ \A n \in 1 .. m : n \in 1 .. m + 1 /\ n # m + 1
      BY <2>2
    <3>2. \A n \in 1 .. m : g[n] \in 1 .. i - 1
      BY <1>1, <2>1
    <3> QED
      BY <2>3, <3>1, <3>2
  <2>5. h \in [1 .. m + 1 -> 1 .. i]
    <3>1. \A n \in 1 .. m + 1 : h[n] \in 1 .. i
      BY <1>2, <2>2, <2>4
    <3> QED
      BY <2>3, <3>1
  <2>6. \A j, k \in 1 .. m + 1 : j < k => h[j] < h[k]
    <3> SUFFICES ASSUME NEW j \in 1 .. m + 1, NEW k \in 1 .. m + 1, j < k PROVE h[j] < h[k]
      OBVIOUS
    <3>1. j \in 1 .. m
      BY <2>2
    <3>2. CASE k = m + 1
      BY <1>2, <2>4, <3>1, <3>2
    <3>3. CASE k \in 1 .. m
      BY <1>1, <2>1, <2>4, <3>1, <3>3
    <3> QED
      BY <2>2, <3>2, <3>3
  <2>7. \A n \in 1 .. m + 1 : h[n] \in S /\ r[n] = L[h[n]]
    <3> SUFFICES ASSUME NEW n \in 1 .. m + 1 PROVE h[n] \in S /\ r[n] = L[h[n]]
      OBVIOUS
    <3>1. CASE n = m + 1
      BY <1>4, <2>2, <2>4, <3>1
    <3>2. CASE n \in 1 .. m
      BY <1>1, <2>1, <2>2, <2>4, <3>2
    <3> QED
      BY <2>2, <3>1, <3>2
  <2>8. \A j \in S \cap (1 .. i) : \E n \in 1 .. m + 1 : h[n] = j
    <3> SUFFICES ASSUME NEW j \in S \cap (1 .. i) PROVE \E n \in 1 .. m + 1 : h[n] = j
      OBVIOUS
    <3>1. CASE j = i
      <4>1. m + 1 \in 1 .. m + 1
        BY <2>2
      <4> QED
        BY <2>4, <3>1, <4>1
    <3>2. CASE j # i
      <4>1. j \in S \cap (1 .. i - 1)
        BY <1>2, <3>2
      <4>2. PICK n \in 1 .. m : g[n] = j
        BY <1>1, <2>1, <4>1
      <4>3. n \in 1 .. m + 1
        BY <2>2
      <4> QED
        BY <2>4, <4>2, <4>3
    <3> QED
      BY <3>1, <3>2
  <2>9. PicksTo(h, L, S, i, r)
    BY <2>2, <2>5, <2>6, <2>7, <2>8 DEF PicksTo
  <2> QED
    BY <2>1, <2>9
<1> QED
  BY <1>3, <1>4

LEMMA ConcerningPicks ==
    ASSUME NEW L \in Seq(Entries), NEW people
    PROVE  /\ \E at : Picks(at, L, Selection(L, people), EntriesConcerning(L, people))
           /\ EntriesConcerning(L, people) \in Seq(Entries)
<1>1. PICK S, N : S = Selection(L, people) /\ N = Len(L)
  OBVIOUS
<1>2. PICK t : IsSelecting(t, L, S) /\ EntriesConcerning(L, people) = t[N]
  BY <1>1, ConcerningTable
<1>3. N \in Nat /\ \A i \in 1 .. N : L[i] \in Entries
  BY <1>1
<1>4. t[0] = <<>> /\ \A i \in 1 .. N : t[i] = IF i \in S THEN Append(t[i - 1], L[i]) ELSE t[i - 1]
  <2>1. \A i \in 0 .. N : t[i] = IF i = 0 THEN <<>>
                               ELSE IF i \in S THEN Append(t[i - 1], L[i]) ELSE t[i - 1]
    BY <1>1, <1>2, Zenon DEF IsSelecting
  <2>2. 0 \in 0 .. N /\ \A i \in 1 .. N : i \in 0 .. N /\ i # 0
    BY <1>3
  <2> QED
    BY <2>1, <2>2, Zenon
<1> DEFINE Good(i) == t[i] \in Seq(Entries) /\ \E g : PicksTo(g, L, S, i, t[i])
           Bad == {i \in 0 .. N : ~Good(i)}
<1>5. Good(0)
  <2>1. PicksTo(<<>>, L, S, 0, <<>>)
    BY DEF PicksTo
  <2>2. <<>> \in Seq(Entries)
    OBVIOUS
  <2> QED
    BY <1>4, <2>1, <2>2
<1>6. ASSUME NEW i \in 1 .. N, Good(i - 1) PROVE Good(i)
  <2>1. PICK g : PicksTo(g, L, S, i - 1, t[i - 1])
    BY <1>6
  <2>2. PICK q : q = t[i - 1] /\ q \in Seq(Entries)
    BY <1>6
  <2>3. /\ i \in S => \E h : PicksTo(h, L, S, i, Append(q, L[i]))
        /\ i \notin S => PicksTo(g, L, S, i, q)
    BY <1>1, <2>1, <2>2, PicksNext
  <2>4. CASE i \in S
    <3>1. t[i] = Append(q, L[i])
      BY <1>4, <2>2, <2>4
    <3>2. Append(q, L[i]) \in Seq(Entries)
      BY <1>3, <2>2
    <3> QED
      BY <2>3, <2>4, <3>1, <3>2
  <2>5. CASE i \notin S
    <3>1. t[i] = q
      BY <1>4, <2>2, <2>5
    <3> QED
      BY <2>2, <2>3, <2>5, <3>1
  <2> QED
    BY <2>4, <2>5
<1> HIDE DEF Good
<1>7. ASSUME Bad # {} PROVE FALSE
  <2>1. Bad \subseteq Nat
    OBVIOUS
  <2>2. PICK k \in Bad : \A j \in Bad : k <= j
    <3> HIDE DEF Bad
    <3> QED
      BY <1>7, <2>1, LeastNatural
  <2>3. k \in 0 .. N /\ ~Good(k) /\ k # 0
    BY <1>5, <2>2
  <2>4. k \in 1 .. N /\ k - 1 \in 0 .. N /\ ~ (k <= k - 1)
    BY <1>3, <2>3
  <2>5. Good(k - 1)
    BY <2>2, <2>4
  <2> QED
    BY <1>6, <2>3, <2>4, <2>5
<1>8. Good(N)
  BY <1>3, <1>7
<1>9. PICK B : B = t[N]
  OBVIOUS
<1>10. PICK g : PicksTo(g, L, S, N, B)
  BY <1>8, <1>9 DEF Good
<1>11. B \in Seq(Entries)
  BY <1>8, <1>9 DEF Good
<1>12. PICK m : m = Len(B) /\ m \in Nat
  BY <1>10 DEF PicksTo
<1>13. /\ g \in [1 .. m -> 1 .. N]
       /\ \A j, k \in 1 .. m : j < k => g[j] < g[k]
       /\ \A n \in 1 .. m : g[n] \in S /\ B[n] = L[g[n]]
       /\ \A j \in S \cap (1 .. N) : \E n \in 1 .. m : g[n] = j
  BY <1>10, <1>12 DEF PicksTo
<1>14. PICK at : at = [n \in 1 .. m + 1 |-> IF n = m + 1 THEN N + 1 ELSE g[n]]
  OBVIOUS
<1>15. at[m + 1] = N + 1 /\ \A n \in 1 .. m : at[n] = g[n] /\ at[n] \in 1 .. N
  BY <1>12, <1>13, <1>14
<1>16. at \in [1 .. m + 1 -> 1 .. N + 1]
  <2>1. \A n \in 1 .. m + 1 : at[n] \in 1 .. N + 1
    BY <1>3, <1>12, <1>15
  <2> QED
    BY <1>14, <2>1
<1>17. \A j, k \in 1 .. m + 1 : j < k => at[j] < at[k]
  <2> SUFFICES ASSUME NEW j \in 1 .. m + 1, NEW k \in 1 .. m + 1, j < k PROVE at[j] < at[k]
    OBVIOUS
  <2>1. j \in 1 .. m
    BY <1>12
  <2>2. CASE k = m + 1
    BY <1>3, <1>15, <2>1, <2>2
  <2>3. CASE k \in 1 .. m
    BY <1>13, <1>15, <2>1, <2>3
  <2> QED
    BY <1>12, <2>2, <2>3
<1>18. S \subseteq 1 .. N
  BY <1>1 DEF Selection, Concerning, EntriesOf
<1>19. \A i \in S : \E n \in 1 .. m : at[n] = i
  BY <1>13, <1>15, <1>18
<1>20. \A n \in 1 .. m : at[n] \in S /\ B[n] = L[at[n]]
  BY <1>13, <1>15
<1>21. Picks(at, L, S, B)
  BY <1>1, <1>3, <1>12, <1>15, <1>16, <1>17, <1>19, <1>20 DEF Picks
<1> QED
  BY <1>1, <1>2, <1>9, <1>11, <1>21

-----------------------------------------------------------------------------
(* What a bundle says, its log said.                                       *)

Bundled(at, L, people, B) ==
    IsRepLog(L) /\ B \in Seq(Entries) /\ Picks(at, L, Selection(L, people), B)

LEMMA InOrder ==
    ASSUME NEW at, NEW L, NEW people, NEW B, Bundled(at, L, people, B)
    PROVE  /\ Len(B) \in Nat /\ Len(L) \in Nat
           /\ at[Len(B) + 1] = Len(L) + 1
           /\ \A n \in 1 .. Len(B) + 1 : at[n] \in 1 .. Len(L) + 1
           /\ \A n \in 1 .. Len(B) : at[n] \in 1 .. Len(L) /\ B[n] = L[at[n]]
                                     /\ at[n] \in Selection(L, people)
           /\ \A i, j \in 1 .. Len(B) + 1 : i < j <=> at[i] < at[j]
           /\ \A i, j \in 1 .. Len(B) + 1 : at[i] = at[j] => i = j
<1>1. /\ Len(B) \in Nat /\ Len(L) \in Nat
      /\ at \in [1 .. Len(B) + 1 -> 1 .. Len(L) + 1]
      /\ at[Len(B) + 1] = Len(L) + 1
      /\ \A i, j \in 1 .. Len(B) + 1 : i < j => at[i] < at[j]
      /\ \A n \in 1 .. Len(B) : at[n] \in Selection(L, people) /\ B[n] = L[at[n]]
  BY DEF Bundled, Picks
<1>2. \A n \in 1 .. Len(B) + 1 : at[n] \in 1 .. Len(L) + 1
  BY <1>1
<1>3. \A n \in 1 .. Len(B) : at[n] \in 1 .. Len(L)
  BY <1>1 DEF Selection, Concerning, EntriesOf
<1>4. ASSUME NEW i \in 1 .. Len(B) + 1, NEW j \in 1 .. Len(B) + 1
      PROVE  (i < j <=> at[i] < at[j]) /\ (at[i] = at[j] => i = j)
  <2>1. i < j => at[i] < at[j]
    BY <1>1
  <2>2. j < i => at[j] < at[i]
    BY <1>1
  <2>3. at[i] \in Int /\ at[j] \in Int /\ i \in Int /\ j \in Int
    BY <1>1, <1>2
  <2> QED
    BY <2>1, <2>2, <2>3
<1> QED
  BY <1>1, <1>2, <1>3, <1>4

LEMMA NamesIn ==
    ASSUME NEW at, NEW L, NEW people, NEW B, Bundled(at, L, people, B), NEW n \in 1 .. Len(B)
    PROVE  /\ B[n].kind \in {"enroll", "revoke", "vouch", "confirm", "settle", "uphold"}
           /\ B[n].kind \in {"enroll", "revoke"} => B[n].who \in NamedIn(L, people)
           /\ B[n].kind = "vouch" => {B[n].who, B[n].of} \subseteq NamedIn(L, people)
           /\ B[n].kind \in {"confirm", "settle", "uphold"} =>
                {Trades[B[n].trade].from, Trades[B[n].trade].to} \subseteq NamedIn(L, people)
                /\ people \cap {Trades[B[n].trade].from, Trades[B[n].trade].to} # {}
<1>1. PICK i : i = at[n] /\ i \in Selection(L, people) /\ B[n] = L[i]
  BY InOrder
<1>2. CASE i \in Concerning(L, people)
  <2>1. \/ L[i].kind \in {"confirm", "settle", "uphold"}
           /\ people \cap {Trades[L[i].trade].from, Trades[L[i].trade].to} # {}
        \/ L[i].kind = "vouch"
    BY <1>2 DEF Concerning, EntriesOf
  <2>2. L[i].kind = "vouch" => {L[i].who, L[i].of} \subseteq NamedIn(L, people)
    BY <1>2 DEF NamedIn
  <2>3. L[i].kind # "vouch" =>
           {Trades[L[i].trade].from, Trades[L[i].trade].to} \subseteq NamedIn(L, people)
    BY <1>2 DEF NamedIn
  <2> QED
    BY <1>1, <2>1, <2>2, <2>3
<1>3. CASE i \notin Concerning(L, people)
  <2>1. L[i].kind \in {"enroll", "revoke"} /\ L[i].who \in NamedIn(L, people)
    BY <1>1, <1>3 DEF Selection, EntriesOf
  <2> QED
    BY <1>1, <2>1
<1> QED
  BY <1>2, <1>3

LEMMA Brought ==
    ASSUME NEW at, NEW L, NEW people, NEW B, Bundled(at, L, people, B), NEW i \in 1 .. Len(L),
           \/ L[i].kind \in {"enroll", "revoke"} /\ L[i].who \in NamedIn(L, people)
           \/ L[i].kind = "vouch" /\ people \cap {L[i].who, L[i].of} # {}
           \/ L[i].kind \in {"confirm", "settle", "uphold"}
              /\ people \cap {Trades[L[i].trade].from, Trades[L[i].trade].to} # {}
    PROVE  \E n \in 1 .. Len(B) : at[n] = i
<1>1. i \in Selection(L, people)
  BY DEF Selection, Concerning, EntriesOf
<1> QED
  BY <1>1 DEF Bundled, Picks

LEMMA SameEvents ==
    ASSUME NEW at, NEW L, NEW people, NEW B, Bundled(at, L, people, B),
           NEW y \in NamedIn(L, people), NEW q \in 1 .. Len(B) + 1
    PROVE  /\ LastEvent(B, y, q) = LastEvent(L, y, at[q])
           /\ EnrolledAt(B, y, q) <=> EnrolledAt(L, y, at[q])
           /\ IsRoot(B, y, q) <=> IsRoot(L, y, at[q])
<1>1. PICK E, F : E = Events(B, y, q) /\ F = Events(L, y, at[q])
  OBVIOUS
<1>2. ASSUME NEW n \in E PROVE at[n] \in F /\ n \in 1 .. Len(B)
  <2>1. n \in 1 .. Len(B) /\ B[n].kind \in {"enroll", "revoke"} /\ B[n].who = y /\ n < q
    BY <1>1 DEF Events, EntriesOf
  <2>2. B[n] = L[at[n]] /\ at[n] \in 1 .. Len(L)
    BY <2>1, InOrder
  <2>3. n \in 1 .. Len(B) + 1
    BY <2>1, InOrder
  <2>4. at[n] < at[q]
    BY <2>1, <2>3, InOrder
  <2> QED
    BY <1>1, <2>1, <2>2, <2>4 DEF Events, EntriesOf
<1>3. ASSUME NEW i \in F PROVE \E n \in E : at[n] = i
  <2>1. i \in 1 .. Len(L) /\ L[i].kind \in {"enroll", "revoke"} /\ L[i].who = y /\ i < at[q]
    BY <1>1 DEF Events, EntriesOf
  <2>2. PICK n \in 1 .. Len(B) : at[n] = i
    BY <2>1, Brought
  <2>3. n \in 1 .. Len(B) + 1 /\ B[n] = L[i]
    BY <2>2, InOrder
  <2>4. n < q
    BY <2>1, <2>2, <2>3, InOrder
  <2> QED
    BY <1>1, <2>1, <2>2, <2>3, <2>4 DEF Events, EntriesOf
<1>4. CASE F = {}
  <2>1. E = {}
    BY <1>2, <1>4
  <2> QED
    BY <1>1, <1>4, <2>1, LastEventIs DEF EnrolledAt, IsRoot
<1>5. CASE F # {}
  <2>1. E # {}
    BY <1>3, <1>5
  <2>2. Len(B) \in Nat /\ Len(L) \in Nat
    BY InOrder
  <2>3. Max(E) \in E /\ \A n \in E : n <= Max(E)
    BY <1>1, <2>1, <2>2, EventsMax
  <2>4. Max(F) \in F /\ \A i \in F : i <= Max(F)
    BY <1>1, <1>5, <2>2, EventsMax
  <2>5. PICK a, b : a = Max(E) /\ b = Max(F)
    OBVIOUS
  <2>6. PICK n \in E : at[n] = b
    BY <1>3, <2>4, <2>5
  <2>7. n \in 1 .. Len(B) + 1 /\ a \in 1 .. Len(B) + 1 /\ n <= a /\ a \in E
    BY <1>2, <2>2, <2>3, <2>5, <2>6
  <2>8. at[a] \in F /\ at[a] <= b
    BY <1>2, <2>4, <2>5, <2>7
  <2>9. ~ (n < a)
    <3>1. at[n] \in Int /\ at[a] \in Int
      BY <2>2, <2>7, InOrder
    <3> QED
      BY <2>6, <2>7, <2>8, <3>1, InOrder
  <2>10. n = a
    BY <2>2, <2>7, <2>9
  <2>11. B[a] = L[b]
    BY <1>2, <2>6, <2>10, InOrder
  <2> QED
    BY <1>1, <1>5, <2>1, <2>5, <2>11, LastEventIs DEF EnrolledAt, IsRoot
<1> QED
  BY <1>4, <1>5

\* Nobody else is enrolled in it.
LEMMA EnrolledAreNamed ==
    ASSUME NEW at, NEW L, NEW people, NEW B, Bundled(at, L, people, B), NEW y, NEW q,
           EnrolledAt(B, y, q)
    PROVE  y \in NamedIn(L, people)
<1>1. Events(B, y, q) # {}
  BY LastEventIs DEF EnrolledAt
<1>2. PICK n : n \in Events(B, y, q)
  BY <1>1
<1>3. n \in 1 .. Len(B) /\ B[n].kind \in {"enroll", "revoke"} /\ B[n].who = y
  BY <1>2 DEF Events, EntriesOf
<1> QED
  BY <1>3, NamesIn

LEMMA SameRevoked ==
    ASSUME NEW at, NEW L, NEW people, NEW B, Bundled(at, L, people, B),
           NEW y \in NamedIn(L, people), NEW n \in 1 .. Len(B) + 1, NEW q \in 1 .. Len(B) + 1
    PROVE  RevokedBetween(B, y, n, q) <=> RevokedBetween(L, y, at[n], at[q])
<1>1. ASSUME RevokedBetween(B, y, n, q) PROVE RevokedBetween(L, y, at[n], at[q])
  <2>1. PICK k \in 1 .. Len(B) : B[k].kind = "revoke" /\ B[k].who = y /\ n < k /\ k < q
    BY <1>1, InOrder DEF RevokedBetween, EntriesOf
  <2>2. k \in 1 .. Len(B) + 1 /\ B[k] = L[at[k]] /\ at[k] \in 1 .. Len(L)
    BY InOrder
  <2>3. at[n] < at[k] /\ at[k] < at[q]
    BY <2>1, <2>2, InOrder
  <2> QED
    BY <2>1, <2>2, <2>3, InOrder DEF RevokedBetween, EntriesOf
<1>2. ASSUME RevokedBetween(L, y, at[n], at[q]) PROVE RevokedBetween(B, y, n, q)
  <2>1. PICK i \in 1 .. Len(L) : L[i].kind = "revoke" /\ L[i].who = y /\ i > at[n] /\ i < at[q]
    BY <1>2 DEF RevokedBetween, EntriesOf
  <2>2. PICK k \in 1 .. Len(B) : at[k] = i
    BY <2>1, Brought
  <2>3. k \in 1 .. Len(B) + 1 /\ B[k] = L[i] /\ at[n] \in Int /\ i \in Int
    BY <2>2, InOrder
  <2>4. n < k /\ k < q
    BY <2>1, <2>2, <2>3, InOrder
  <2>5. k > n
    BY <2>4
  <2> QED
    BY <2>1, <2>3, <2>4, <2>5 DEF RevokedBetween, EntriesOf
<1> QED
  BY <1>1, <1>2

LEMMA SameVouch ==
    ASSUME NEW at, NEW L, NEW people, NEW B, Bundled(at, L, people, B),
           NEW n \in 1 .. Len(B), B[n].kind = "vouch"
    PROVE  /\ EligibleVouch(B, n) <=> EligibleVouch(L, at[n])
           /\ \A q \in 1 .. Len(B) + 1 : VoidAt(B, n, q) <=> VoidAt(L, at[n], at[q])
<1>1. B[n].who \in NamedIn(L, people) /\ B[n].of \in NamedIn(L, people)
  BY NamesIn
<1>2. B[n] = L[at[n]] /\ n \in 1 .. Len(B) + 1
  BY InOrder
<1>3. EligibleVouch(B, n) <=> EligibleVouch(L, at[n])
  BY <1>1, <1>2, SameEvents DEF EligibleVouch
<1>4. \A q \in 1 .. Len(B) + 1 : VoidAt(B, n, q) <=> VoidAt(L, at[n], at[q])
  BY <1>1, <1>2, SameRevoked DEF VoidAt
<1> QED
  BY <1>3, <1>4

ConfirmsOf(L, t) == {i \in EntriesOf(L, {"confirm"}) : L[i].trade = t}

LEMMA SameConfirmed ==
    ASSUME NEW at, NEW L, NEW people, NEW B, Bundled(at, L, people, B),
           NEW n \in 1 .. Len(B), B[n].kind = "settle"
    PROVE  /\ ConfirmedAt(B, B[n].trade) \in 1 .. Len(B)
           /\ at[ConfirmedAt(B, B[n].trade)] = ConfirmedAt(L, B[n].trade)
<1>1. PICK t : t = B[n].trade
  OBVIOUS
<1>2. PICK X, Y : X = ConfirmsOf(B, t) /\ Y = ConfirmsOf(L, t)
  OBVIOUS
<1>3. ConfirmedAt(B, t) = Min(X) /\ ConfirmedAt(L, t) = Min(Y)
  BY <1>2 DEF ConfirmedAt, ConfirmsOf
<1>4. Len(B) \in Nat /\ Len(L) \in Nat /\ B[n] = L[at[n]] /\ at[n] \in 1 .. Len(L)
  BY InOrder
<1>5. people \cap {Trades[t].from, Trades[t].to} # {}
  BY <1>1, NamesIn
<1>6. ASSUME NEW i \in Y PROVE \E k \in X : at[k] = i
  <2>1. i \in 1 .. Len(L) /\ L[i].kind = "confirm" /\ L[i].trade = t
    BY <1>2 DEF ConfirmsOf, EntriesOf
  <2>2. PICK k \in 1 .. Len(B) : at[k] = i
    BY <1>5, <2>1, Brought
  <2>3. B[k] = L[i]
    BY <2>2, InOrder
  <2> QED
    BY <1>2, <2>1, <2>2, <2>3 DEF ConfirmsOf, EntriesOf
<1>7. ASSUME NEW k \in X PROVE at[k] \in Y /\ k \in 1 .. Len(B)
  <2>1. k \in 1 .. Len(B) /\ B[k].kind = "confirm" /\ B[k].trade = t
    BY <1>2 DEF ConfirmsOf, EntriesOf
  <2>2. B[k] = L[at[k]] /\ at[k] \in 1 .. Len(L)
    BY <2>1, InOrder
  <2> QED
    BY <1>2, <2>1, <2>2 DEF ConfirmsOf, EntriesOf
<1>8. Y # {}
  <2>1. PICK j \in 1 .. at[n] - 1 : L[j].kind = "confirm" /\ L[j].trade = t
    BY <1>1, <1>4 DEF Bundled, IsRepLog, SettledIsConfirmed
  <2>2. j \in 1 .. Len(L)
    BY <1>4
  <2> QED
    BY <1>2, <2>1, <2>2 DEF ConfirmsOf, EntriesOf
<1>9. X # {}
  BY <1>6, <1>8
<1>10. X \subseteq Nat /\ Y \subseteq Nat
  BY <1>2 DEF ConfirmsOf, EntriesOf
<1>11. Min(X) \in X /\ \A k \in X : Min(X) <= k
  BY <1>9, <1>10, MinOfNaturals
<1>12. Min(Y) \in Y /\ \A i \in Y : Min(Y) <= i
  BY <1>8, <1>10, MinOfNaturals
<1>13. PICK a, b : a = Min(X) /\ b = Min(Y)
  OBVIOUS
<1>14. PICK k \in X : at[k] = b
  BY <1>6, <1>12, <1>13
<1>15. a \in 1 .. Len(B) + 1 /\ k \in 1 .. Len(B) + 1 /\ a <= k /\ a \in X /\ a \in 1 .. Len(B)
  BY <1>4, <1>7, <1>11, <1>13
<1>16. at[a] \in Y /\ b <= at[a] /\ at[a] \in Int /\ at[k] \in Int
  <2>1. at[a] \in Y /\ at[k] \in Y
    BY <1>7, <1>14, <1>15
  <2>2. b <= at[a]
    BY <1>12, <1>13, <2>1
  <2>3. at[a] \in Nat /\ at[k] \in Nat
    BY <1>10, <2>1, Zenon
  <2> QED
    BY <2>1, <2>2, <2>3
<1>17. ~ (a < k)
  BY <1>14, <1>15, <1>16, InOrder
<1>18. a = k
  BY <1>4, <1>15, <1>17
<1> QED
  BY <1>1, <1>3, <1>13, <1>14, <1>15, <1>18

LEMMA SameTrades ==
    ASSUME NEW at, NEW L, NEW people, NEW B, Bundled(at, L, people, B), NEW n \in 1 .. Len(B), NEW y
    PROVE  n \in TradeEvents(B, y) <=> at[n] \in TradeEvents(L, y)
<1>1. B[n] = L[at[n]] /\ at[n] \in 1 .. Len(L)
  BY InOrder
<1>2. CASE B[n].kind = "settle"
  <2>1. PICK t, c, d : t = B[n].trade /\ c = ConfirmedAt(B, t) /\ d = ConfirmedAt(L, t)
    OBVIOUS
  <2>2. c \in 1 .. Len(B) /\ at[c] = d
    BY <1>2, <2>1, SameConfirmed
  <2>3. c \in 1 .. Len(B) + 1
    BY <2>2, InOrder
  <2>4. Trades[t].from \in NamedIn(L, people) /\ Trades[t].to \in NamedIn(L, people)
    BY <1>2, <2>1, NamesIn
  <2>5. /\ EnrolledAt(B, Trades[t].from, c) <=> EnrolledAt(L, Trades[t].from, d)
        /\ EnrolledAt(B, Trades[t].to, c) <=> EnrolledAt(L, Trades[t].to, d)
    BY <2>2, <2>3, <2>4, SameEvents
  <2>6. n \in TradeEvents(B, y) <=> /\ y \in {Trades[t].from, Trades[t].to}
                                    /\ EnrolledAt(B, Trades[t].from, c)
                                    /\ EnrolledAt(B, Trades[t].to, c)
    BY <1>2, <2>1 DEF TradeEvents, EntriesOf
  <2>7. at[n] \in TradeEvents(L, y) <=> /\ y \in {Trades[t].from, Trades[t].to}
                                        /\ EnrolledAt(L, Trades[t].from, d)
                                        /\ EnrolledAt(L, Trades[t].to, d)
    BY <1>1, <1>2, <2>1 DEF TradeEvents, EntriesOf
  <2> QED
    BY <2>5, <2>6, <2>7
<1>3. CASE B[n].kind # "settle"
  BY <1>1, <1>3 DEF TradeEvents, EntriesOf
<1> QED
  BY <1>2, <1>3

LEMMA SameAttestations ==
    ASSUME NEW at, NEW L, NEW people, NEW B, Bundled(at, L, people, B), NEW n \in 1 .. Len(B), NEW y
    PROVE  n \in AttestationEvents(B, y) <=> at[n] \in AttestationEvents(L, y)
<1>1. B[n] = L[at[n]] /\ at[n] \in 1 .. Len(L)
  BY InOrder
<1>2. n \in TradeEvents(B, y) <=> at[n] \in TradeEvents(L, y)
  BY SameTrades
<1>3. B[n].kind = "vouch" => (EligibleVouch(B, n) <=> EligibleVouch(L, at[n]))
  BY SameVouch
<1> QED
  BY <1>1, <1>2, <1>3 DEF AttestationEvents, EntriesOf

LEMMA TradesBrought ==
    ASSUME NEW at, NEW L, NEW people, NEW B, Bundled(at, L, people, B), NEW y \in people
    PROVE  /\ \A i \in TradeEvents(L, y) : \E n \in 1 .. Len(B) : at[n] = i
           /\ \A i \in AttestationEvents(L, y) : \E n \in 1 .. Len(B) : at[n] = i
<1>1. ASSUME NEW i \in TradeEvents(L, y) PROVE \E n \in 1 .. Len(B) : at[n] = i
  <2>1. i \in 1 .. Len(L) /\ L[i].kind = "settle" /\ y \in {Trades[L[i].trade].from, Trades[L[i].trade].to}
    BY DEF TradeEvents, EntriesOf
  <2>2. people \cap {Trades[L[i].trade].from, Trades[L[i].trade].to} # {}
    BY <2>1
  <2> QED
    BY <2>1, <2>2, Brought
<1>2. ASSUME NEW i \in AttestationEvents(L, y), i \notin TradeEvents(L, y)
      PROVE  \E n \in 1 .. Len(B) : at[n] = i
  <2>1. i \in 1 .. Len(L) /\ L[i].kind = "vouch" /\ L[i].who = y
    BY <1>2 DEF AttestationEvents, EntriesOf
  <2>2. people \cap {L[i].who, L[i].of} # {}
    BY <2>1
  <2> QED
    BY <2>1, <2>2, Brought
<1> QED
  BY <1>1, <1>2

\* The times of a selection's events are among those of the log's.
LEMMA TimesIn ==
    ASSUME NEW at, NEW L, NEW people, NEW B, Bundled(at, L, people, B), NEW q \in 1 .. Len(B) + 1, NEW w,
           NEW S, NEW T, S \subseteq 1 .. Len(B), \A n \in S : at[n] \in T
    PROVE  TimesOf(B, S, w, q) \subseteq TimesOf(L, T, w, at[q])
<1> SUFFICES ASSUME NEW n \in Counted(B, S, w, q)
             PROVE  B[n].at \in TimesOf(L, T, w, at[q])
  BY DEF TimesOf
<1>1. n \in S /\ n \in 1 .. Len(B) /\ B[n].at <= w /\ n < q
  BY DEF Counted
<1>2. B[n] = L[at[n]] /\ n \in 1 .. Len(B) + 1
  BY <1>1, InOrder
<1>3. at[n] < at[q]
  BY <1>1, <1>2, InOrder
<1>4. at[n] \in Counted(L, T, w, at[q])
  BY <1>1, <1>2, <1>3 DEF Counted
<1> QED
  BY <1>2, <1>4 DEF TimesOf

LEMMA TimesAll ==
    ASSUME NEW at, NEW L, NEW people, NEW B, Bundled(at, L, people, B), NEW q \in 1 .. Len(B) + 1, NEW w,
           NEW S, NEW T, \A i \in T : \E n \in S : n \in 1 .. Len(B) /\ at[n] = i
    PROVE  TimesOf(L, T, w, at[q]) \subseteq TimesOf(B, S, w, q)
<1> SUFFICES ASSUME NEW i \in Counted(L, T, w, at[q])
             PROVE  L[i].at \in TimesOf(B, S, w, q)
  BY DEF TimesOf
<1>1. i \in T /\ L[i].at <= w /\ i < at[q]
  BY DEF Counted
<1>2. PICK n \in S : n \in 1 .. Len(B) /\ at[n] = i
  BY <1>1
<1>3. B[n] = L[i] /\ n \in 1 .. Len(B) + 1
  BY <1>2, InOrder
<1>4. n < q
  BY <1>1, <1>2, <1>3, InOrder
<1>5. n \in Counted(B, S, w, q)
  BY <1>1, <1>2, <1>3, <1>4 DEF Counted
<1> QED
  BY <1>3, <1>5 DEF TimesOf

-----------------------------------------------------------------------------
(* More evidence never lowers a score.                                     *)

LEMMA TimesMore ==
    ASSUME NEW k \in Nat, NEW a \in Int, NEW b \in Int, a <= b
    PROVE  k * a \in Int /\ k * b \in Int /\ k * a <= k * b /\ (a \in Nat => k * a \in Nat)
<1>1. b - a \in Nat
  OBVIOUS
<1>2. k * (b - a) \in Nat /\ k * b = k * a + k * (b - a)
  BY <1>1
<1> QED
  BY <1>2

PastWindow(T) == {u \in T : u >= Min(T) + WindowWeeks}

IsLeft(t, times) ==
    t = [n \in 0 .. Cardinality(times) |->
            IF n = 0 THEN times
            ELSE {u \in t[n - 1] : u >= Min(t[n - 1]) + WindowWeeks}]

LeftTable(t, times) ==
    /\ t \in [0 .. Cardinality(times) -> SUBSET times]
    /\ t[0] = times
    /\ \A n \in 1 .. Cardinality(times) : t[n] = PastWindow(t[n - 1])

LEMMA LeftExists ==
    ASSUME NEW times, Cardinality(times) \in Nat
    PROVE  \E t : LeftTable(t, times) /\ IsLeft(t, times)
<1>1. PICK U, N : U = SUBSET times /\ N = Cardinality(times)
  OBVIOUS
<1>2. PICK f : f = [n \in 1 .. N |-> [T \in U |-> PastWindow(T)]]
  OBVIOUS
<1>3. \A T \in U : PastWindow(T) \in U
  BY <1>1 DEF PastWindow
<1>4. \A n \in 1 .. N : f[n] = [T \in U |-> PastWindow(T)]
  BY <1>2
<1>5. \A n \in 1 .. N : f[n] \in [U -> U]
  BY <1>3, <1>4
<1>6. PICK t : IsIterate(t, N, U, times, f)
  BY <1>1, <1>5, IterateExists
<1>7. t \in [0 .. N -> U] /\ t[0] = times /\ \A n \in 1 .. N : t[n] = f[n][t[n - 1]]
  BY <1>6 DEF IsIterate
<1>8. \A n \in 1 .. N : t[n] = PastWindow(t[n - 1])
  <2> SUFFICES ASSUME NEW n \in 1 .. N PROVE t[n] = PastWindow(t[n - 1])
    OBVIOUS
  <2>1. n - 1 \in 0 .. N
    BY <1>1
  <2>2. t[n - 1] \in U /\ t[n] = f[n][t[n - 1]]
    BY <1>7, <2>1
  <2> QED
    BY <1>4, <2>2, Zenon
<1>9. LeftTable(t, times)
  BY <1>1, <1>7, <1>8 DEF LeftTable
<1>10. \A n \in 0 .. N : t[n] = IF n = 0 THEN times
                                ELSE {u \in t[n - 1] : u >= Min(t[n - 1]) + WindowWeeks}
  <2> SUFFICES ASSUME NEW n \in 0 .. N
               PROVE  t[n] = IF n = 0 THEN times
                             ELSE {u \in t[n - 1] : u >= Min(t[n - 1]) + WindowWeeks}
    OBVIOUS
  <2>1. CASE n = 0
    BY <1>7, <2>1, Zenon
  <2>2. CASE n # 0
    <3>1. n \in 1 .. N
      BY <1>1, <2>2
    <3>2. t[n] = PastWindow(t[n - 1])
      BY <1>8, <3>1
    <3> QED
      BY <2>2, <3>2, Zenon DEF PastWindow
  <2> QED
    BY <2>1, <2>2
<1>11. t = [n \in 0 .. N |-> t[n]]
  BY <1>7
<1>12. [n \in 0 .. N |-> t[n]]
         = [n \in 0 .. N |-> IF n = 0 THEN times
                             ELSE {u \in t[n - 1] : u >= Min(t[n - 1]) + WindowWeeks}]
  BY <1>10, Zenon
<1>13. IsLeft(t, times)
  BY <1>1, <1>11, <1>12, Zenon DEF IsLeft
<1> QED
  BY <1>9, <1>13

\* How many windows the events fill.
Windows(t, N) == {n \in 0 .. N : t[n] # {}}

LEMMA CreditedTable ==
    ASSUME NEW times, Cardinality(times) \in Nat
    PROVE  \E t : /\ LeftTable(t, times)
                  /\ Credited(times) = Cardinality(Windows(t, Cardinality(times)))
<1>1. PICK t : t = CHOOSE u : IsLeft(u, times)
  OBVIOUS
<1>2. IsLeft(t, times)
  BY <1>1, LeftExists
<1>3. Credited(times) = Cardinality(Windows(t, Cardinality(times)))
  BY <1>1 DEF Credited, IsLeft, Windows
<1>4. \A n \in 0 .. Cardinality(times) : t[n] = IF n = 0 THEN times ELSE PastWindow(t[n - 1])
  BY <1>2, Zenon DEF IsLeft, PastWindow
<1>5. t[0] = times /\ \A n \in 1 .. Cardinality(times) : t[n] = PastWindow(t[n - 1])
  <2>1. 0 \in 0 .. Cardinality(times)
        /\ \A n \in 1 .. Cardinality(times) : n \in 0 .. Cardinality(times) /\ n # 0
    OBVIOUS
  <2> QED
    BY <1>4, <2>1, Zenon
<1> DEFINE Bad == {n \in 0 .. Cardinality(times) : ~ (t[n] \subseteq times)}
<1>6. ASSUME Bad # {} PROVE FALSE
  <2>1. Bad \subseteq Nat
    OBVIOUS
  <2>2. PICK k \in Bad : \A j \in Bad : k <= j
    <3> HIDE DEF Bad
    <3> QED
      BY <1>6, <2>1, LeastNatural
  <2>3. k \in 0 .. Cardinality(times) /\ ~ (t[k] \subseteq times) /\ k # 0
    BY <1>5, <2>2
  <2>4. k \in 1 .. Cardinality(times) /\ k - 1 \in 0 .. Cardinality(times) /\ ~ (k <= k - 1)
    BY <2>3
  <2>5. t[k - 1] \subseteq times
    BY <2>2, <2>4
  <2>6. t[k] \subseteq t[k - 1]
    BY <1>5, <2>4 DEF PastWindow
  <2> QED
    BY <2>3, <2>5, <2>6
<1>7. DOMAIN t = 0 .. Cardinality(times) /\ t = [n \in 0 .. Cardinality(times) |-> t[n]]
  BY <1>2 DEF IsLeft
<1>8. t \in [0 .. Cardinality(times) -> SUBSET times]
  BY <1>6, <1>7
<1> QED
  BY <1>3, <1>5, <1>8 DEF LeftTable

LEMMA CreditedMore ==
    ASSUME NEW K \in Nat, NEW S, NEW T, S \subseteq T, T \subseteq 0 .. K
    PROVE  Credited(S) \in Nat /\ Credited(T) \in Nat /\ Credited(S) <= Credited(T)
<1>1. IsFiniteSet(0 .. K)
  BY FS_Interval
<1>2. IsFiniteSet(T)
  BY <1>1, FS_Subset
<1>3. IsFiniteSet(S)
  BY <1>2, FS_Subset
<1>4. PICK a, b : a = Cardinality(S) /\ b = Cardinality(T)
  OBVIOUS
<1>5. a \in Nat /\ b \in Nat /\ a <= b
  <2>1. S \in SUBSET T
    OBVIOUS
  <2> QED
    BY <1>2, <1>3, <1>4, <2>1, FS_Subset, FS_CardinalityType
<1>6. PICK s : LeftTable(s, S) /\ Credited(S) = Cardinality(Windows(s, a))
  BY <1>4, <1>5, CreditedTable
<1>7. PICK t : LeftTable(t, T) /\ Credited(T) = Cardinality(Windows(t, b))
  BY <1>4, <1>5, CreditedTable
<1>8. /\ s \in [0 .. a -> SUBSET S] /\ s[0] = S /\ \A n \in 1 .. a : s[n] = PastWindow(s[n - 1])
      /\ t \in [0 .. b -> SUBSET T] /\ t[0] = T /\ \A n \in 1 .. b : t[n] = PastWindow(t[n - 1])
  BY <1>4, <1>6, <1>7 DEF LeftTable
<1> DEFINE Bad == {n \in 0 .. a : ~ (s[n] \subseteq t[n])}
<1>9. ASSUME Bad # {} PROVE FALSE
  <2>1. Bad \subseteq Nat
    OBVIOUS
  <2>2. PICK k \in Bad : \A j \in Bad : k <= j
    <3> HIDE DEF Bad
    <3> QED
      BY <1>9, <2>1, LeastNatural
  <2>3. k \in 0 .. a /\ ~ (s[k] \subseteq t[k]) /\ k # 0
    BY <1>8, <2>2
  <2>4. k \in 1 .. a /\ k \in 1 .. b /\ k - 1 \in 0 .. a /\ k - 1 \in 0 .. b /\ ~ (k <= k - 1)
    BY <1>5, <2>3
  <2>5. PICK X, Y : X = s[k - 1] /\ Y = t[k - 1]
    OBVIOUS
  <2>6. X \subseteq Y /\ Y \subseteq T
    BY <1>8, <2>2, <2>4, <2>5
  <2>7. s[k] = PastWindow(X) /\ t[k] = PastWindow(Y)
    BY <1>8, <2>4, <2>5
  <2>8. PICK u : u \in s[k] /\ u \notin t[k]
    BY <2>3
  <2>9. u \in X /\ u \in Y /\ u >= Min(X) + WindowWeeks
    BY <2>6, <2>7, <2>8 DEF PastWindow
  <2>10. X \subseteq Nat /\ Y \subseteq Nat
    BY <2>6
  <2>11. Min(X) \in X /\ Min(Y) \in Y /\ \A v \in Y : Min(Y) <= v
    BY <2>9, <2>10, MinOfNaturals
  <2>12. PICK c, d : c = Min(X) /\ d = Min(Y)
    OBVIOUS
  <2>13. c \in Nat /\ d \in Nat /\ d <= c
    BY <2>6, <2>10, <2>11, <2>12
  <2>14. u \in Nat /\ WindowWeeks \in Nat
    BY <2>9, <2>10, ReputationAssumption
  <2>15. u >= d + WindowWeeks
    BY <2>9, <2>12, <2>13, <2>14
  <2>16. u \in PastWindow(Y)
    BY <2>9, <2>12, <2>15 DEF PastWindow
  <2> QED
    BY <2>7, <2>8, <2>16
<1>10. Windows(s, a) \in SUBSET Windows(t, b)
  <2>1. ASSUME NEW n \in Windows(s, a) PROVE n \in Windows(t, b)
    <3>1. n \in 0 .. a /\ s[n] # {}
      BY DEF Windows
    <3>2. s[n] \subseteq t[n] /\ n \in 0 .. b
      BY <1>5, <1>9, <3>1
    <3> QED
      BY <3>1, <3>2 DEF Windows
  <2> QED
    BY <2>1
<1>11. IsFiniteSet(0 .. b)
  BY <1>5, FS_Interval
<1>12. Windows(t, b) \in SUBSET (0 .. b)
  BY DEF Windows
<1>13. IsFiniteSet(Windows(t, b))
  BY <1>11, <1>12, FS_Subset
<1>14. IsFiniteSet(Windows(s, a)) /\ Cardinality(Windows(s, a)) <= Cardinality(Windows(t, b))
  BY <1>10, <1>13, FS_Subset
<1> QED
  BY <1>6, <1>7, <1>13, <1>14, FS_CardinalityType

LEMMA ScoreMore ==
    ASSUME NEW K \in Nat, NEW S, NEW T, S \subseteq T, T \subseteq 0 .. K,
           NEW p \in Nat, NEW r \in Nat, r <= p, NEW w \in Int
    PROVE  /\ DimensionScore(S, p, w) \in Nat /\ DimensionScore(T, r, w) \in Nat
           /\ DimensionScore(S, p, w) <= DimensionScore(T, r, w)
<1>1. Increment \in Nat /\ DimensionMax \in Nat /\ DecayRate \in Nat
  BY ReputationAssumption
<1> DEFINE Gain(X) == Min({Increment * Credited(X), DimensionMax})
           Value(X, z) == Gain(X) - z - DecayRate * (w - Max(X))
<1>2. ASSUME NEW X, X \subseteq 0 .. K, X # {}, NEW z \in Nat
      PROVE  /\ Gain(X) \in Nat /\ Max(X) \in X /\ DecayRate * (w - Max(X)) \in Int
             /\ Value(X, z) \in Int
             /\ DimensionScore(X, z, w) \in Nat
             /\ DimensionScore(X, z, w) = IF Value(X, z) >= 0 THEN Value(X, z) ELSE 0
  <2>1. Credited(X) \in Nat
    BY <1>2, CreditedMore
  <2>2. Increment * Credited(X) \in Nat
    BY <1>1, <2>1
  <2>3. Gain(X) \in {Increment * Credited(X), DimensionMax}
    <3>1. PICK g : g = Increment * Credited(X)
      OBVIOUS
    <3>2. g \in Int /\ DimensionMax \in Int
      BY <1>1, <2>2, <3>1
    <3>3. Min({g, DimensionMax}) \in {g, DimensionMax}
      BY <3>2, MinOfTwo
    <3> QED
      BY <3>1, <3>3
  <2>4. Gain(X) \in Nat
    BY <1>1, <2>2, <2>3
  <2>5. Max(X) \in X /\ Max(X) \in Int
    <3>1. 0 \in Int /\ K \in Int
      OBVIOUS
    <3>2. Max(X) \in X
      BY <1>2, <3>1, MaxOfRange
    <3>3. PICK x : x = Max(X)
      OBVIOUS
    <3>4. x \in 0 .. K
      BY <1>2, <3>2, <3>3
    <3> QED
      BY <3>2, <3>3, <3>4
  <2>6. DecayRate * (w - Max(X)) \in Int
    BY <1>1, <2>5
  <2>7. PICK v : v = Value(X, z) /\ v \in Int
    <3> HIDE DEF Gain
    <3> QED
      BY <2>4, <2>6
  <2>8. DimensionScore(X, z, w) = Max({0, v})
    BY <1>2, <2>7 DEF DimensionScore
  <2>9. Max({0, v}) \in {0, v} /\ 0 <= Max({0, v}) /\ v <= Max({0, v})
    <3>1. 0 \in Int
      OBVIOUS
    <3> QED
      BY <2>7, <3>1, MaxOfTwo
  <2>10. Max({0, v}) = IF v >= 0 THEN v ELSE 0
    BY <2>7, <2>9
  <2>11. DimensionScore(X, z, w) = (IF v >= 0 THEN v ELSE 0) /\ DimensionScore(X, z, w) \in Nat
    BY <2>7, <2>8, <2>10
  <2> QED
    BY <2>4, <2>5, <2>6, <2>7, <2>11
<1>3. \A X, z : X = {} => DimensionScore(X, z, w) = 0
  BY DEF DimensionScore
<1>4. CASE S = {}
  <2>1. DimensionScore(S, p, w) = 0
    BY <1>3, <1>4
  <2>2. DimensionScore(T, r, w) \in Nat
    <3>1. CASE T = {}
      BY <1>3, <3>1
    <3>2. CASE T # {}
      BY <1>2, <3>2
    <3> QED
      BY <3>1, <3>2
  <2> QED
    BY <2>1, <2>2
<1>5. CASE S # {}
  <2>1. T # {} /\ S \subseteq 0 .. K
    BY <1>5
  <2>2. Credited(S) \in Nat /\ Credited(T) \in Nat /\ Credited(S) <= Credited(T)
    BY CreditedMore
  <2>3. PICK a, b : a = Increment * Credited(S) /\ b = Increment * Credited(T)
    OBVIOUS
  <2>4. a \in Nat /\ b \in Nat /\ a <= b
    BY <1>1, <2>2, <2>3, TimesMore
  <2>5. Gain(S) <= Gain(T)
    <3>0. a \in Int /\ b \in Int /\ DimensionMax \in Int
      BY <1>1, <2>4
    <3>1. Min({a, DimensionMax}) \in {a, DimensionMax} /\ Min({a, DimensionMax}) <= a
          /\ Min({a, DimensionMax}) <= DimensionMax
      BY <3>0, MinOfTwo
    <3>2. Min({b, DimensionMax}) \in {b, DimensionMax}
      BY <3>0, MinOfTwo
    <3>3. PICK c, d : c = Min({a, DimensionMax}) /\ d = Min({b, DimensionMax})
      OBVIOUS
    <3>4. c <= d
      BY <1>1, <2>4, <3>1, <3>2, <3>3
    <3> QED
      BY <2>3, <3>3, <3>4
  <2>6. PICK c, d, e, f : /\ c = Gain(S) /\ d = Gain(T)
                          /\ e = DecayRate * (w - Max(S)) /\ f = DecayRate * (w - Max(T))
    OBVIOUS
  <2>7. f <= e
    <3>1. Max(S) \in S /\ Max(T) \in T /\ Max(S) \in Int /\ Max(T) \in Int /\ Max(S) <= Max(T)
      <4>1. 0 \in Int /\ K \in Int
        OBVIOUS
      <4>2. Max(S) \in S /\ Max(T) \in T /\ \A x \in T : x <= Max(T)
        BY <1>5, <2>1, <4>1, MaxOfRange
      <4>3. PICK x, z : x = Max(S) /\ z = Max(T)
        OBVIOUS
      <4>4. x \in S /\ z \in T /\ x \in T /\ x <= z
        BY <4>2, <4>3
      <4>5. x \in 0 .. K /\ z \in 0 .. K
        BY <4>4
      <4> QED
        BY <4>3, <4>4, <4>5
    <3>2. w - Max(T) <= w - Max(S) /\ w - Max(T) \in Int /\ w - Max(S) \in Int
      BY <3>1
    <3> QED
      BY <1>1, <2>6, <3>2, TimesMore
  <2>8. c \in Nat /\ d \in Nat /\ e \in Int /\ f \in Int
    <3> HIDE DEF Gain
    <3> QED
      BY <1>2, <1>5, <2>1, <2>6
  <2>9. /\ DimensionScore(S, p, w) \in Nat /\ DimensionScore(T, r, w) \in Nat
        /\ DimensionScore(S, p, w) = IF c - p - e >= 0 THEN c - p - e ELSE 0
        /\ DimensionScore(T, r, w) = IF d - r - f >= 0 THEN d - r - f ELSE 0
    <3> HIDE DEF Gain
    <3> QED
      BY <1>2, <1>5, <2>1, <2>6
  <2>10. c <= d
    BY <2>5, <2>6
  <2> HIDE DEF Gain, Value
  <2> QED
    BY <2>7, <2>8, <2>9, <2>10
<1> QED
  BY <1>4, <1>5

LEMMA TimesTyped ==
    ASSUME NEW L \in Seq(Entries), NEW y, NEW w, NEW b
    PROVE  /\ TimesOf(L, TradeEvents(L, y), w, b) \subseteq 0 .. Forever
           /\ TimesOf(L, AttestationEvents(L, y), w, b) \subseteq 0 .. Forever
<1>1. ASSUME NEW i \in 1 .. Len(L), L[i].kind \in {"settle", "vouch"}
      PROVE  L[i].at \in 0 .. Forever
  <2>1. L[i] \in Entries
    OBVIOUS
  <2> QED
    BY <1>1, <2>1 DEF Entries
<1>2. \A i \in AttestationEvents(L, y) \cup TradeEvents(L, y) : L[i].at \in 0 .. Forever
  BY <1>1 DEF AttestationEvents, TradeEvents, EntriesOf
<1> QED
  BY <1>2 DEF TimesOf, Counted

LEMMA PenaltiesTyped ==
    ASSUME NEW L, Len(L) \in Nat, NEW y, NEW w, NEW b
    PROVE  /\ DimensionMax * Cardinality(Proven(L, y, w, b)) \in Nat
           /\ Increment * Cardinality(Counted(L, Upheld(L, y), w, b))
                + DimensionMax * Cardinality(Proven(L, y, w, b)) \in Nat
<1>1. IsFiniteSet(1 .. Len(L))
  BY FS_Interval
<1>2. Proven(L, y, w, b) \in SUBSET (1 .. Len(L)) /\ Counted(L, Upheld(L, y), w, b) \in SUBSET (1 .. Len(L))
  BY DEF Proven, Counted, Accused, Upheld, EntriesOf
<1>3. IsFiniteSet(Proven(L, y, w, b)) /\ IsFiniteSet(Counted(L, Upheld(L, y), w, b))
  BY <1>1, <1>2, FS_Subset
<1>4. Cardinality(Proven(L, y, w, b)) \in Nat /\ Cardinality(Counted(L, Upheld(L, y), w, b)) \in Nat
  BY <1>3, FS_CardinalityType
<1>5. Increment \in Nat /\ DimensionMax \in Nat
  BY ReputationAssumption
<1> QED
  BY <1>4, <1>5

\* Nobody penalised.
LEMMA NoPenalties ==
    ASSUME NEW L, EntriesOf(L, {"equivocation"}) = {}, NEW y, Upheld(L, y) = {}, NEW w, NEW b
    PROVE  /\ DimensionMax * Cardinality(Proven(L, y, w, b)) = 0
           /\ Increment * Cardinality(Counted(L, Upheld(L, y), w, b))
                + DimensionMax * Cardinality(Proven(L, y, w, b)) = 0
<1>1. Proven(L, y, w, b) = {} /\ Counted(L, Upheld(L, y), w, b) = {}
  BY DEF Proven, Counted, Accused
<1>2. Cardinality({}) = 0
  BY FS_EmptySet
<1>3. Increment \in Nat /\ DimensionMax \in Nat
  BY ReputationAssumption
<1> QED
  BY <1>1, <1>2, <1>3

LEMMA BundleIsClean ==
    ASSUME NEW at, NEW L, NEW people, NEW B, Bundled(at, L, people, B), NEW y
    PROVE  EntriesOf(B, {"equivocation"}) = {} /\ Upheld(B, y) = {}
<1>1. \A n \in 1 .. Len(B) : B[n].kind \notin {"equivocation", "dispute"}
  BY NamesIn
<1> QED
  BY <1>1 DEF Upheld, EntriesOf

\* Without penalties a bundle scores nobody higher.
LEMMA RawIn ==
    ASSUME NEW at, NEW L, NEW people, NEW B, Bundled(at, L, people, B), NEW y, NEW w \in Int,
           NEW q \in 1 .. Len(B) + 1, EntriesOf(L, {"uphold", "equivocation"}) = {}
    PROVE  /\ ScoreRawBefore(B, y, w, q).trade \in Nat
           /\ ScoreRawBefore(B, y, w, q).attestation \in Nat
           /\ ScoreRawBefore(L, y, w, at[q]).trade \in Nat
           /\ ScoreRawBefore(L, y, w, at[q]).attestation \in Nat
           /\ ScoreRawBefore(B, y, w, q).trade <= ScoreRawBefore(L, y, w, at[q]).trade
           /\ ScoreRawBefore(B, y, w, q).attestation <= ScoreRawBefore(L, y, w, at[q]).attestation
<1>1. EntriesOf(L, {"equivocation"}) = {} /\ Upheld(L, y) = {}
  BY DEF EntriesOf, Upheld
<1>2. EntriesOf(B, {"equivocation"}) = {} /\ Upheld(B, y) = {}
  BY BundleIsClean
<1>3. L \in Seq(Entries) /\ Forever \in Nat
  BY SMTT(30), ReputationAssumption DEF Bundled, IsRepLog, Forever
<1>4. TimesOf(B, TradeEvents(B, y), w, q) \subseteq TimesOf(L, TradeEvents(L, y), w, at[q])
  <2>1. TradeEvents(B, y) \subseteq 1 .. Len(B)
    BY DEF TradeEvents, EntriesOf
  <2>2. \A n \in TradeEvents(B, y) : at[n] \in TradeEvents(L, y)
    BY <2>1, SameTrades
  <2> QED
    BY <2>1, <2>2, TimesIn
<1>5. TimesOf(B, AttestationEvents(B, y), w, q) \subseteq TimesOf(L, AttestationEvents(L, y), w, at[q])
  <2>1. AttestationEvents(B, y) \subseteq 1 .. Len(B)
    BY DEF AttestationEvents, TradeEvents, EntriesOf
  <2>2. \A n \in AttestationEvents(B, y) : at[n] \in AttestationEvents(L, y)
    BY <2>1, SameAttestations
  <2> QED
    BY <2>1, <2>2, TimesIn
<1>6. /\ ScoreRawBefore(B, y, w, q).trade = DimensionScore(TimesOf(B, TradeEvents(B, y), w, q), 0, w)
      /\ ScoreRawBefore(B, y, w, q).attestation
           = DimensionScore(TimesOf(B, AttestationEvents(B, y), w, q), 0, w)
  BY <1>2, ScoreIs, NoPenalties
<1>7. /\ ScoreRawBefore(L, y, w, at[q]).trade
           = DimensionScore(TimesOf(L, TradeEvents(L, y), w, at[q]), 0, w)
      /\ ScoreRawBefore(L, y, w, at[q]).attestation
           = DimensionScore(TimesOf(L, AttestationEvents(L, y), w, at[q]), 0, w)
  BY <1>1, ScoreIs, NoPenalties
<1>8. /\ TimesOf(L, TradeEvents(L, y), w, at[q]) \subseteq 0 .. Forever
      /\ TimesOf(L, AttestationEvents(L, y), w, at[q]) \subseteq 0 .. Forever
  BY <1>3, TimesTyped
<1> QED
  BY SMTT(30), <1>3, <1>4, <1>5, <1>6, <1>7, <1>8, ScoreMore

\* It scores those whose evidence it carries no lower.
LEMMA RawAll ==
    ASSUME NEW at, NEW L, NEW people, NEW B, Bundled(at, L, people, B), NEW y \in people, NEW w \in Int,
           NEW q \in 1 .. Len(B) + 1
    PROVE  /\ ScoreRawBefore(B, y, w, q).trade \in Nat
           /\ ScoreRawBefore(B, y, w, q).attestation \in Nat
           /\ ScoreRawBefore(L, y, w, at[q]).trade \in Nat
           /\ ScoreRawBefore(L, y, w, at[q]).attestation \in Nat
           /\ ScoreRawBefore(L, y, w, at[q]).trade <= ScoreRawBefore(B, y, w, q).trade
           /\ ScoreRawBefore(L, y, w, at[q]).attestation <= ScoreRawBefore(B, y, w, q).attestation
<1>1. PICK p, r : /\ p = DimensionMax * Cardinality(Proven(L, y, w, at[q]))
                  /\ r = Increment * Cardinality(Counted(L, Upheld(L, y), w, at[q]))
                          + DimensionMax * Cardinality(Proven(L, y, w, at[q]))
  OBVIOUS
<1>2. EntriesOf(B, {"equivocation"}) = {} /\ Upheld(B, y) = {}
  BY BundleIsClean
<1>3. L \in Seq(Entries) /\ B \in Seq(Entries) /\ Forever \in Nat /\ Len(L) \in Nat
  BY SMTT(30), ReputationAssumption DEF Bundled, IsRepLog, Forever
<1>4. TimesOf(L, TradeEvents(L, y), w, at[q]) \subseteq TimesOf(B, TradeEvents(B, y), w, q)
  <2>1. \A i \in TradeEvents(L, y) : \E n \in TradeEvents(B, y) : n \in 1 .. Len(B) /\ at[n] = i
    BY TradesBrought, SameTrades
  <2> QED
    BY <2>1, TimesAll
<1>5. TimesOf(L, AttestationEvents(L, y), w, at[q]) \subseteq TimesOf(B, AttestationEvents(B, y), w, q)
  <2>1. \A i \in AttestationEvents(L, y) : \E n \in AttestationEvents(B, y) : n \in 1 .. Len(B) /\ at[n] = i
    BY TradesBrought, SameAttestations
  <2> QED
    BY <2>1, TimesAll
<1>6. /\ ScoreRawBefore(B, y, w, q).trade = DimensionScore(TimesOf(B, TradeEvents(B, y), w, q), 0, w)
      /\ ScoreRawBefore(B, y, w, q).attestation
           = DimensionScore(TimesOf(B, AttestationEvents(B, y), w, q), 0, w)
  BY <1>2, ScoreIs, NoPenalties
<1>7. /\ ScoreRawBefore(L, y, w, at[q]).trade
           = DimensionScore(TimesOf(L, TradeEvents(L, y), w, at[q]), p, w)
      /\ ScoreRawBefore(L, y, w, at[q]).attestation
           = DimensionScore(TimesOf(L, AttestationEvents(L, y), w, at[q]), r, w)
  BY <1>1, ScoreIs
<1>8. /\ TimesOf(B, TradeEvents(B, y), w, q) \subseteq 0 .. Forever
      /\ TimesOf(B, AttestationEvents(B, y), w, q) \subseteq 0 .. Forever
  BY <1>3, TimesTyped
<1>9. p \in Nat /\ r \in Nat
  BY <1>1, <1>3, PenaltiesTyped
<1>10. 0 \in Nat /\ 0 <= p /\ 0 <= r
  BY <1>9
<1>11. PICK S, T, X, Y : /\ S = TimesOf(L, TradeEvents(L, y), w, at[q])
                         /\ T = TimesOf(B, TradeEvents(B, y), w, q)
                         /\ X = TimesOf(L, AttestationEvents(L, y), w, at[q])
                         /\ Y = TimesOf(B, AttestationEvents(B, y), w, q)
  OBVIOUS
<1>12. DimensionScore(S, p, w) \in Nat /\ DimensionScore(T, 0, w) \in Nat
       /\ DimensionScore(S, p, w) <= DimensionScore(T, 0, w)
  BY <1>3, <1>4, <1>8, <1>9, <1>10, <1>11, ScoreMore
<1>13. DimensionScore(X, r, w) \in Nat /\ DimensionScore(Y, 0, w) \in Nat
       /\ DimensionScore(X, r, w) <= DimensionScore(Y, 0, w)
  BY <1>3, <1>5, <1>8, <1>9, <1>10, <1>11, ScoreMore
<1> QED
  BY <1>6, <1>7, <1>11, <1>12, <1>13

-----------------------------------------------------------------------------
(* Who a bundle anchors.                                                   *)

\* Only the edges before a position count there.
Before(E, p) == {e \in E : e < p}

LEMMA SameLive ==
    ASSUME NEW L, NEW E, NEW F, NEW p, NEW at, F = Before(E, p)
    PROVE  /\ LiveEdges(L, E, p, at) = LiveEdges(L, F, p, at)
           /\ Reach(L, E, p, at) = Reach(L, F, p, at)
           /\ Anchors(L, E, p, at) = Anchors(L, F, p, at)
<1>1. LiveEdges(L, E, p, at) = LiveEdges(L, F, p, at)
  BY DEF LiveEdges, Before
<1>2. Reach(L, E, p, at) = Reach(L, F, p, at)
  BY <1>1 DEF Reach
<1> QED
  BY <1>1, <1>2 DEF Anchors

\* The vouches that form edges.
LEMMA EdgesAre ==
    ASSUME NEW L \in Seq(Entries)
    PROVE  \A i : i \in Edges(L) <=>
                    /\ i \in 1 .. Len(L) /\ L[i].kind = "vouch" /\ EligibleVouch(L, i)
                    /\ L[i].who \in Anchors(L, Edges(L), i, Forever)
                    /\ Judged(L, i)
<1>1. PICK N : N = Len(L) /\ N \in Nat
  OBVIOUS
<1>2. PICK t : FormingTable(t, L)
  BY <1>1, EdgesTable
<1>3. /\ t[0] = {} /\ Edges(L) = t[N]
      /\ \A i \in 1 .. N : t[i] = t[i - 1] \cup (IF Forms(L, t[i - 1], i) THEN {i} ELSE {})
  BY <1>1, <1>2 DEF FormingTable
<1> DEFINE Formed(i) == {f \in 1 .. i : Forms(L, t[f - 1], f)}
           Bad == {i \in 0 .. N : t[i] # Formed(i)}
<1>4. ASSUME Bad # {} PROVE FALSE
  <2>1. Bad \subseteq Nat
    OBVIOUS
  <2>2. PICK k \in Bad : \A j \in Bad : k <= j
    <3> HIDE DEF Bad
    <3> QED
      BY <1>4, <2>1, LeastNatural
  <2>3. k \in 0 .. N /\ t[k] # Formed(k)
    BY <2>2
  <2>4. k # 0
    <3>1. Formed(0) = {}
      OBVIOUS
    <3> QED
      BY <1>3, <2>3, <3>1
  <2>5. k \in 1 .. N /\ k - 1 \in 0 .. N /\ ~ (k <= k - 1)
    BY <1>1, <2>3, <2>4
  <2>6. t[k - 1] = Formed(k - 1)
    BY <2>2, <2>5
  <2>7. Formed(k) = Formed(k - 1) \cup (IF Forms(L, t[k - 1], k) THEN {k} ELSE {})
    <3>1. 1 .. k = (1 .. k - 1) \cup {k} /\ k \notin 1 .. k - 1
      BY <2>5
    <3> QED
      BY <3>1
  <2>8. t[k] = t[k - 1] \cup (IF Forms(L, t[k - 1], k) THEN {k} ELSE {})
    BY <1>3, <2>5
  <2> HIDE DEF Formed
  <2> QED
    BY <2>3, <2>6, <2>7, <2>8
<1>5. \A i \in 0 .. N : t[i] = Formed(i)
  BY <1>4
<1>6. Edges(L) = Formed(N)
  <2>1. N \in 0 .. N
    BY <1>1
  <2> QED
    BY <1>3, <1>5, <2>1
<1>7. ASSUME NEW i \in 1 .. N
      PROVE  i \in Edges(L) <=> /\ L[i].kind = "vouch" /\ EligibleVouch(L, i)
                                /\ L[i].who \in Anchors(L, Edges(L), i, Forever)
                                /\ Judged(L, i)
  <2>1. i - 1 \in 0 .. N
    BY <1>1
  <2>2. PICK F : F = t[i - 1]
    OBVIOUS
  <2>3. F = Formed(i - 1)
    BY <1>5, <2>1, <2>2
  <2>4. F = Before(Edges(L), i)
    BY <1>1, <1>6, <2>3 DEF Before
  <2>5. Anchors(L, Edges(L), i, Forever) = Anchors(L, F, i, Forever)
    BY <2>4, SameLive
  <2>6. i \in Edges(L) <=> Forms(L, F, i)
    BY <1>6, <2>2
  <2>7. CASE L[i].kind = "vouch"
    <3>1. L[i].who \in People
      BY <1>1, <2>7, VouchIs
    <3>2. AnchoredAt(L, F, L[i].who, i, Forever) <=> L[i].who \in Anchors(L, F, i, Forever)
      BY <3>1, AnchoredIs
    <3> QED
      BY <2>5, <2>6, <2>7, <3>2 DEF Forms
  <2>8. CASE L[i].kind # "vouch"
    BY <2>6, <2>8 DEF Forms
  <2> QED
    BY <2>7, <2>8
<1>8. \A i \in Edges(L) : i \in 1 .. N
  BY <1>6
<1> QED
  BY <1>1, <1>7, <1>8

LEMMA EdgesAmong ==
    ASSUME NEW L \in Seq(Entries), NEW p \in 1 .. Len(L) + 1, NEW at
    PROVE  Among(L, LiveEdges(L, Edges(L), p, at), p)
<1>1. \A e \in Edges(L) : e \in 1 .. Len(L) /\ L[e].kind = "vouch"
  BY EdgesAre
<1> QED
  BY <1>1, AmongVouches

\* The roots and the subjects of live edges whose vouchers are anchored are anchored,
\* and nobody is that need not be.
LEMMA AnchorsAre ==
    ASSUME NEW L \in Seq(Entries), NEW p \in 1 .. Len(L) + 1, NEW w
    PROVE  /\ Spans(L, LiveEdges(L, Edges(L), p, w), p, Anchors(L, Edges(L), p, w))
           /\ \A X : Spans(L, LiveEdges(L, Edges(L), p, w), p, X)
                       => Anchors(L, Edges(L), p, w) \subseteq X
<1>1. Among(L, LiveEdges(L, Edges(L), p, w), p)
  BY EdgesAmong
<1> QED
  BY <1>1, ReachIsLeast

LEMMA RootsIn ==
    ASSUME NEW at, NEW L, NEW people, NEW B, Bundled(at, L, people, B), NEW q \in 1 .. Len(B) + 1
    PROVE  Roots(B, q) \subseteq Roots(L, at[q])
<1> SUFFICES ASSUME NEW y \in Roots(B, q) PROVE y \in Roots(L, at[q])
  OBVIOUS
<1>1. y \in People /\ IsRoot(B, y, q)
  BY DEF Roots
<1>2. y \in NamedIn(L, people)
  BY <1>1, EnrolledAreNamed DEF IsRoot
<1>3. IsRoot(L, y, at[q])
  BY <1>1, <1>2, SameEvents
<1> QED
  BY <1>1, <1>3 DEF Roots

\* If the bundle's edges before q are the log's, whom they anchor the log does.
LEMMA AnchorsThrough ==
    ASSUME NEW at, NEW L, NEW people, NEW B, Bundled(at, L, people, B), NEW q \in 1 .. Len(B) + 1, NEW w,
           \A n \in Edges(B) : n < q => at[n] \in Edges(L)
    PROVE  Anchors(B, Edges(B), q, w) \subseteq Anchors(L, Edges(L), at[q], w)
<1>1. L \in Seq(Entries) /\ B \in Seq(Entries)
  BY DEF Bundled, IsRepLog
<1>2. at[q] \in 1 .. Len(L) + 1
  BY InOrder
<1>3. PICK X : X = Anchors(L, Edges(L), at[q], w)
  OBVIOUS
<1>4. Spans(L, LiveEdges(L, Edges(L), at[q], w), at[q], X)
  BY <1>1, <1>2, <1>3, AnchorsAre
<1>5. ASSUME NEW n \in LiveEdges(B, Edges(B), q, w)
      PROVE  at[n] \in LiveEdges(L, Edges(L), at[q], w) /\ B[n] = L[at[n]]
  <2>1. n \in Edges(B) /\ n < q /\ B[n].at <= w /\ ~VoidAt(B, n, q)
    BY DEF LiveEdges
  <2>2. n \in 1 .. Len(B) /\ B[n].kind = "vouch"
    BY <1>1, <2>1, EdgesAre
  <2>3. B[n] = L[at[n]] /\ n \in 1 .. Len(B) + 1
    BY <2>2, InOrder
  <2>4. at[n] < at[q]
    BY <2>1, <2>3, InOrder
  <2>5. ~VoidAt(L, at[n], at[q])
    BY <2>1, <2>2, SameVouch
  <2> QED
    BY <2>1, <2>3, <2>4, <2>5 DEF LiveEdges
<1>6. Roots(B, q) \subseteq Roots(L, at[q])
  BY RootsIn
<1>7. Spans(B, LiveEdges(B, Edges(B), q, w), q, X)
  <2>1. Roots(B, q) \subseteq X
    BY <1>4, <1>6 DEF Spans
  <2>2. ASSUME NEW n \in LiveEdges(B, Edges(B), q, w), B[n].who \in X PROVE B[n].of \in X
    BY <1>4, <1>5, <2>2 DEF Spans
  <2> QED
    BY <2>1, <2>2 DEF Spans
<1> QED
  BY <1>1, <1>3, <1>7, AnchorsAre

LEMMA CompositeMore ==
    ASSUME NEW a, NEW b, a.trade \in Nat, a.attestation \in Nat, b.trade \in Nat, b.attestation \in Nat,
           a.trade <= b.trade, a.attestation <= b.attestation
    PROVE  Composite(a) \in Nat /\ Composite(b) \in Nat /\ Composite(a) <= Composite(b)
<1>1. WeightTrade \in Nat /\ WeightAttestation \in Nat
  BY ReputationAssumption
<1>2. PICK c, d, e, f : /\ c = WeightTrade * a.trade /\ d = WeightTrade * b.trade
                        /\ e = WeightAttestation * a.attestation /\ f = WeightAttestation * b.attestation
  OBVIOUS
<1>3. c \in Nat /\ d \in Nat /\ c <= d
  BY <1>1, <1>2, TimesMore
<1>4. e \in Nat /\ f \in Nat /\ e <= f
  BY <1>1, <1>2, TimesMore
<1>5. Composite(a) = c + e /\ Composite(b) = d + f
  BY <1>2 DEF Composite
<1> QED
  BY <1>3, <1>4, <1>5

\* Without penalties, the bundle's edges are the log's.
LEMMA EdgesIn ==
    ASSUME NEW at, NEW L, NEW people, NEW B, Bundled(at, L, people, B),
           EntriesOf(L, {"uphold", "equivocation"}) = {}
    PROVE  \A n \in Edges(B) : at[n] \in Edges(L)
<1> DEFINE Bad == {n \in Edges(B) : at[n] \notin Edges(L)}
<1>1. SUFFICES ASSUME Bad # {} PROVE FALSE
  OBVIOUS
<1>2. L \in Seq(Entries) /\ B \in Seq(Entries)
  BY DEF Bundled, IsRepLog
<1>3. \A n \in Edges(B) : n \in 1 .. Len(B)
  BY <1>2, EdgesAre
<1>4. Bad \subseteq Nat
  BY <1>3
<1>5. PICK n \in Bad : \A k \in Bad : n <= k
  <2> HIDE DEF Bad
  <2> QED
    BY <1>1, <1>4, LeastNatural
<1>6. n \in Edges(B) /\ at[n] \notin Edges(L)
  OBVIOUS
<1>7. /\ n \in 1 .. Len(B) /\ B[n].kind = "vouch" /\ EligibleVouch(B, n)
      /\ B[n].who \in Anchors(B, Edges(B), n, Forever) /\ Judged(B, n)
  BY <1>2, <1>6, EdgesAre
<1>8. B[n] = L[at[n]] /\ at[n] \in 1 .. Len(L) /\ n \in 1 .. Len(B) + 1
  BY <1>7, InOrder
<1>9. \A k \in Edges(B) : k < n => at[k] \in Edges(L)
  <2> SUFFICES ASSUME NEW k \in Edges(B), k < n PROVE at[k] \in Edges(L)
    OBVIOUS
  <2>1. k \in Nat /\ n \in Nat /\ ~ (n <= k)
    BY <1>3, <1>7
  <2> QED
    BY <1>5, <2>1
<1>10. L[at[n]].who \in Anchors(L, Edges(L), at[n], Forever)
  BY <1>7, <1>8, <1>9, AnchorsThrough
<1>11. EligibleVouch(L, at[n])
  BY <1>7, SameVouch
<1>12. Judged(L, at[n])
  <2>1. PICK w, y : w = B[n].at /\ y = B[n].who
    OBVIOUS
  <2>2. w \in Int
    BY <1>2, <1>7, <2>1, VouchIs
  <2>3. PICK a, b : a = ScoreRawBefore(B, y, w, n) /\ b = ScoreRawBefore(L, y, w, at[n])
    OBVIOUS
  <2>4. /\ a.trade \in Nat /\ a.attestation \in Nat /\ b.trade \in Nat /\ b.attestation \in Nat
        /\ a.trade <= b.trade /\ a.attestation <= b.attestation
    BY <1>8, <2>2, <2>3, RawIn
  <2>5. Composite(a) \in Nat /\ Composite(b) \in Nat /\ Composite(a) <= Composite(b)
    BY <2>4, CompositeMore
  <2>6. Composite(a) >= MemberMin /\ MemberMin \in Nat
    BY <1>7, <2>1, <2>3, ReputationAssumption DEF Judged
  <2>7. Composite(b) >= MemberMin
    BY <2>5, <2>6
  <2> QED
    BY <1>8, <2>1, <2>3, <2>7 DEF Judged
<1>13. at[n] \in Edges(L)
  BY <1>2, <1>7, <1>8, <1>10, <1>11, <1>12, EdgesAre
<1> QED
  BY <1>6, <1>13

-----------------------------------------------------------------------------
(* How they were reached.                                                  *)

\* Y has whoever set keeps with no edge, or with an edge whose voucher Y has.
Feeds(Y, set, L) ==
    \A x \in DOMAIN set : set[x] = 0 \/ L[set[x]].who \in Y => x \in Y

\* Everybody in set is a root or the subject of an edge from another in it, and can be
\* traced back to the roots.
Rooted(set, L, live, p) ==
    /\ \A x \in DOMAIN set :
         \/ set[x] = 0 /\ x \in Roots(L, p)
         \/ set[x] \in live /\ L[set[x]].of = x /\ L[set[x]].who \in DOMAIN set
    /\ \A Y : Feeds(Y, set, L) => DOMAIN set \subseteq Y

LEMMA TryEdgeRooted ==
    ASSUME NEW L, NEW live, NEW p, NEW set, NEW e \in live, L[e].who \in People, L[e].of \in People,
           e # 0, Rooted(set, L, live, p)
    PROVE  Rooted(TryEdge(L, p, set, e), L, live, p)
<1>1. CASE L[e].of \in DOMAIN set \/ (L[e].who \notin DOMAIN set /\ ~IsRoot(L, L[e].who, p))
  <2>1. TryEdge(L, p, set, e) = set
    BY <1>1 DEF TryEdge
  <2> QED
    BY <2>1
<1>2. CASE ~(L[e].of \in DOMAIN set \/ (L[e].who \notin DOMAIN set /\ ~IsRoot(L, L[e].who, p)))
  <2>1. PICK D, v, s : D = DOMAIN set /\ v = L[e].who /\ s = L[e].of
    OBVIOUS
  <2>2. s \notin D /\ (v \in D \/ IsRoot(L, v, p)) /\ v \in People /\ s \in People
    BY <1>2, <2>1
  <2>3. PICK new : new = TryEdge(L, p, set, e)
    OBVIOUS
  <2>4. new = [m \in D \cup {v, s} |->
                  IF m \in D THEN set[m] ELSE IF m = v \/ IsRoot(L, m, p) THEN 0 ELSE e]
    BY <1>2, <2>1, <2>3 DEF TryEdge
  <2>5. DOMAIN new = D \cup {v, s} /\ \A m \in D : new[m] = set[m]
    BY <2>4
  <2>6. v \notin D => new[v] = 0 /\ v \in Roots(L, p)
    BY <2>2, <2>4 DEF Roots
  <2>7. \/ new[s] = 0 /\ s \in Roots(L, p)
        \/ new[s] = e
    <3>1. CASE s = v
      BY <2>2, <2>6, <3>1
    <3>2. CASE s # v /\ IsRoot(L, s, p)
      BY <2>2, <2>4, <3>2 DEF Roots
    <3>3. CASE s # v /\ ~IsRoot(L, s, p)
      BY <2>2, <2>4, <3>3
    <3> QED
      BY <3>1, <3>2, <3>3
  <2>8. ASSUME NEW x \in DOMAIN new
        PROVE  \/ new[x] = 0 /\ x \in Roots(L, p)
               \/ new[x] \in live /\ L[new[x]].of = x /\ L[new[x]].who \in DOMAIN new
    <3>1. CASE x \in D
      BY <2>1, <2>5, <3>1 DEF Rooted
    <3>2. CASE x = v /\ v \notin D
      BY <2>6, <3>2
    <3>3. CASE x = s
      BY <2>1, <2>5, <2>7, <3>3
    <3> QED
      BY <2>5, <3>1, <3>2, <3>3
  <2>9. ASSUME NEW Y, Feeds(Y, new, L) PROVE DOMAIN new \subseteq Y
    <3>1. Feeds(Y, set, L)
      BY <2>1, <2>5, <2>9 DEF Feeds
    <3>2. D \subseteq Y
      BY <2>1, <3>1 DEF Rooted
    <3>3. v \in Y
      BY <2>5, <2>6, <2>9, <3>2 DEF Feeds
    <3>4. s \in Y
      BY <2>1, <2>5, <2>7, <2>9, <3>3 DEF Feeds
    <3> QED
      BY <2>5, <3>2, <3>3, <3>4
  <2> QED
    BY <2>3, <2>8, <2>9 DEF Rooted
<1> QED
  BY <1>1, <1>2

LEMMA PassRooted ==
    ASSUME NEW L, NEW live, NEW p, NEW set, Among(L, live, p), Rooted(set, L, live, p)
    PROVE  Rooted(PassOver(L, live, p, set), L, live, p)
<1>0. PICK t : PassTable(t, L, live, p, set)
  BY PassOverIs
<1>1. /\ PassOver(L, live, p, set) = t[p - 1] /\ t[0] = set
      /\ \A i \in 1 .. p - 1 : t[i] = IF i \in live THEN TryEdge(L, p, t[i - 1], i) ELSE t[i - 1]
  BY <1>0 DEF PassTable
<1>2. p - 1 \in Nat /\ p \in Nat /\ \A e \in live : e \in 1 .. p - 1 /\ L[e].who \in People /\ L[e].of \in People
  BY DEF Among
<1> DEFINE Bad == {j \in 0 .. p - 1 : ~Rooted(t[j], L, live, p)}
<1>3. ASSUME Bad # {} PROVE FALSE
  <2>1. Bad \subseteq Nat
    OBVIOUS
  <2>2. PICK j \in Bad : \A m \in Bad : j <= m
    <3> HIDE DEF Bad
    <3> QED
      BY <1>3, <2>1, LeastNatural
  <2>3. j \in 0 .. p - 1 /\ ~Rooted(t[j], L, live, p)
    OBVIOUS
  <2>4. j # 0
    BY <1>1, <2>3
  <2>5. j \in 1 .. p - 1 /\ j - 1 \in 0 .. p - 1 /\ ~(j <= j - 1)
    BY <1>2, <2>3, <2>4
  <2>6. Rooted(t[j - 1], L, live, p)
    <3>1. j - 1 \notin Bad
      <4> HIDE DEF Bad
      <4> QED
        BY <2>2, <2>5
    <3> QED
      BY <2>5, <3>1
  <2>7. CASE j \in live
    <3>1. t[j] = TryEdge(L, p, t[j - 1], j)
      BY <1>1, <2>5, <2>7
    <3> QED
      BY <1>2, <2>3, <2>4, <2>6, <2>7, <3>1, TryEdgeRooted
  <2>8. CASE j \notin live
    BY <1>1, <2>3, <2>5, <2>6, <2>8
  <2> QED
    BY <2>7, <2>8
<1>4. p - 1 \in 0 .. p - 1
  BY <1>2
<1> QED
  BY <1>1, <1>3, <1>4

LEMMA ReachRooted ==
    ASSUME NEW L, NEW edges, NEW p, NEW at, NEW live, live = LiveEdges(L, edges, p, at),
           Among(L, live, p)
    PROVE  Rooted(Reach(L, edges, p, at), L, live, p)
<1>1. PICK n : n = Cardinality(live)
  OBVIOUS
<1>2. PICK t : ReachTable(t, L, live, p, n) /\ Reach(L, edges, p, at) = t[n]
  BY <1>1, ReachIs
<1>3. n \in Nat /\ DOMAIN t[0] = {} /\ \A k \in 1 .. n : t[k] = PassOver(L, live, p, t[k - 1])
  BY <1>2 DEF ReachTable
<1> DEFINE Bad == {j \in 0 .. n : ~Rooted(t[j], L, live, p)}
<1>4. ASSUME Bad # {} PROVE FALSE
  <2>1. Bad \subseteq Nat
    OBVIOUS
  <2>2. PICK j \in Bad : \A m \in Bad : j <= m
    <3> HIDE DEF Bad
    <3> QED
      BY <1>4, <2>1, LeastNatural
  <2>3. j \in 0 .. n /\ ~Rooted(t[j], L, live, p)
    OBVIOUS
  <2>4. j # 0
    BY <1>3, <2>3 DEF Rooted
  <2>5. j \in 1 .. n /\ j - 1 \in 0 .. n /\ ~(j <= j - 1)
    BY <1>3, <2>3, <2>4
  <2>6. Rooted(t[j - 1], L, live, p)
    <3>1. j - 1 \notin Bad
      <4> HIDE DEF Bad
      <4> QED
        BY <2>2, <2>5
    <3> QED
      BY <2>5, <3>1
  <2>7. t[j] = PassOver(L, live, p, t[j - 1])
    BY <1>3, <2>5
  <2> QED
    BY <2>3, <2>6, <2>7, PassRooted
<1>5. n \in 0 .. n
  BY <1>3
<1> QED
  BY <1>2, <1>4, <1>5

\* A voucher was a root when it vouched, or the subject of an earlier edge.
LEMMA WitnessIs ==
    ASSUME NEW L \in Seq(Entries), NEW e \in Edges(L)
    PROVE  \/ Witness(L, Edges(L), e) = 0 /\ IsRoot(L, L[e].who, e)
           \/ /\ Witness(L, Edges(L), e) \in Edges(L) /\ Witness(L, Edges(L), e) # 0
              /\ Witness(L, Edges(L), e) < e
              /\ L[Witness(L, Edges(L), e)].of = L[e].who
<1>1. PICK v, F, set, live : /\ v = L[e].who /\ F = Before(Edges(L), e)
                             /\ set = Reach(L, F, e, Forever) /\ live = LiveEdges(L, F, e, Forever)
  OBVIOUS
<1>2. /\ e \in 1 .. Len(L) /\ L[e].kind = "vouch"
      /\ v \in Anchors(L, Edges(L), e, Forever)
  BY <1>1, EdgesAre
<1>3. CASE IsRoot(L, v, e)
  BY <1>1, <1>3 DEF Witness
<1>4. CASE ~IsRoot(L, v, e)
  <2>1. Witness(L, Edges(L), e) = set[v]
    BY <1>1, <1>4 DEF Witness, Before
  <2>2. v \in DOMAIN set
    <3>1. v \in Anchors(L, F, e, Forever)
      BY <1>1, <1>2, SameLive
    <3> QED
      BY <1>1, <1>4, <3>1 DEF Anchors, Roots
  <2>3. live = LiveEdges(L, Edges(L), e, Forever)
    BY <1>1, SameLive
  <2>4. Among(L, live, e)
    <3>1. e \in 1 .. Len(L) + 1
      BY <1>2
    <3> QED
      BY <2>3, <3>1, EdgesAmong
  <2>5. Rooted(set, L, live, e)
    BY <1>1, <2>4, ReachRooted
  <2>6. set[v] \in live /\ L[set[v]].of = v
    BY <1>4, <2>2, <2>5 DEF Rooted, Roots
  <2>7. set[v] \in Edges(L) /\ set[v] < e
    BY <2>3, <2>6 DEF LiveEdges
  <2>8. set[v] # 0
    BY <2>4, <2>6 DEF Among
  <2> QED
    BY <1>1, <2>1, <2>6, <2>7, <2>8
<1> QED
  BY <1>3, <1>4

-----------------------------------------------------------------------------
(* The chain a bundle carries.                                             *)

Orbit(t, N, U, s, f) ==
    t \in [0 .. N -> U] /\ t[0] = s /\ \A n \in 1 .. N : t[n] = f[t[n - 1]]

LEMMA OrbitExists ==
    ASSUME NEW N \in Nat, NEW U, NEW s \in U, NEW f \in [U -> U]
    PROVE  \E t : Orbit(t, N, U, s, f)
<1>1. PICK g : g = [n \in 1 .. N |-> f]
  OBVIOUS
<1>2. \A n \in 1 .. N : g[n] = f
  BY <1>1
<1>3. PICK t : IsIterate(t, N, U, s, g)
  BY <1>2, IterateExists
<1> QED
  BY <1>2, <1>3 DEF IsIterate, Orbit

LEMMA OrbitOf ==
    ASSUME NEW N \in Nat, NEW U, NEW s \in U, NEW f \in [U -> U], NEW t,
           t = [n \in 0 .. N |-> t[n]], t[0] = s,
           \A n \in 1 .. N : t[n - 1] \in U => t[n] = f[t[n - 1]]
    PROVE  Orbit(t, N, U, s, f)
<1> DEFINE Bad == {n \in 0 .. N : t[n] \notin U}
<1>1. ASSUME Bad # {} PROVE FALSE
  <2>1. Bad \subseteq Nat
    OBVIOUS
  <2>2. PICK k \in Bad : \A j \in Bad : k <= j
    <3> HIDE DEF Bad
    <3> QED
      BY <1>1, <2>1, LeastNatural
  <2>3. k \in 0 .. N /\ t[k] \notin U
    OBVIOUS
  <2>4. k \in 1 .. N /\ k - 1 \in 0 .. N /\ ~ (k <= k - 1)
    BY <2>3
  <2>5. t[k - 1] \in U
    <3>1. k - 1 \notin Bad
      <4> HIDE DEF Bad
      <4> QED
        BY <2>2, <2>4
    <3> QED
      BY <2>4, <3>1
  <2>6. t[k] = f[t[k - 1]]
    BY <2>4, <2>5
  <2> QED
    BY <2>3, <2>5, <2>6
<1>2. \A n \in 0 .. N : t[n] \in U
  BY <1>1
<1>3. t \in [0 .. N -> U]
  <2>1. [n \in 0 .. N |-> t[n]] \in [0 .. N -> U]
    BY <1>2
  <2> QED
    BY <2>1
<1>4. \A n \in 1 .. N : t[n] = f[t[n - 1]]
  <2> SUFFICES ASSUME NEW n \in 1 .. N PROVE t[n] = f[t[n - 1]]
    OBVIOUS
  <2>1. n - 1 \in 0 .. N
    OBVIOUS
  <2> QED
    BY <1>2, <2>1
<1> QED
  BY <1>3, <1>4 DEF Orbit

Inflates(f, U) == f \in [SUBSET U -> SUBSET U] /\ \A T \in SUBSET U : T \subseteq f[T]

\* Adding to a finite set, step by step, comes to a halt.
LEMMA OrbitHalts ==
    ASSUME NEW U, IsFiniteSet(U), NEW N \in Nat, Cardinality(U) <= N, NEW s,
           NEW f, Inflates(f, U), NEW t, Orbit(t, N, SUBSET U, s, f)
    PROVE  /\ t[N] \in SUBSET U /\ f[t[N]] = t[N]
           /\ \A n \in 0 .. N : t[n] \subseteq t[N]
<1>1. /\ t \in [0 .. N -> SUBSET U] /\ t[0] = s
      /\ \A n \in 1 .. N : t[n] = f[t[n - 1]]
  BY DEF Orbit
<1>2. \A n \in 1 .. N : t[n - 1] \in SUBSET U /\ t[n - 1] \subseteq t[n]
  BY <1>1 DEF Inflates
<1>3. ASSUME NEW m \in 0 .. N PROVE \A n \in 0 .. N : m <= n => t[m] \subseteq t[n]
  <2> DEFINE Bad == {n \in 0 .. N : m <= n /\ ~(t[m] \subseteq t[n])}
  <2>1. ASSUME Bad # {} PROVE FALSE
    <3>1. Bad \subseteq Nat
      OBVIOUS
    <3>2. PICK k \in Bad : \A j \in Bad : k <= j
      <4> HIDE DEF Bad
      <4> QED
        BY <2>1, <3>1, LeastNatural
    <3>3. k \in 0 .. N /\ m <= k /\ ~(t[m] \subseteq t[k]) /\ k # m
      OBVIOUS
    <3>4. k \in 1 .. N /\ k - 1 \in 0 .. N /\ m <= k - 1 /\ ~ (k <= k - 1)
      BY <3>3
    <3>5. t[m] \subseteq t[k - 1]
      BY <3>2, <3>4
    <3> QED
      BY <1>2, <3>3, <3>4, <3>5
  <2> QED
    BY <2>1
<1>4. t[N] \in SUBSET U /\ N \in 0 .. N
  BY <1>1
<1>5. \A n \in 0 .. N : t[n] \subseteq t[N]
  BY <1>3, <1>4
<1>6. CASE t[N] = U
  <2>1. f[U] \in SUBSET U /\ U \subseteq f[U]
    BY DEF Inflates
  <2>2. f[U] = U
    BY <2>1
  <2> QED
    BY <1>4, <1>5, <1>6, <2>2
<1>7. CASE t[N] # U
  <2>1. PICK n \in 1 .. N : t[n] = t[n - 1]
    BY <1>1, <1>2, <1>7, GrowsFull
  <2> DEFINE Bad == {k \in 0 .. N : n <= k /\ t[k] # t[n]}
  <2>2. ASSUME Bad # {} PROVE FALSE
    <3>1. Bad \subseteq Nat
      OBVIOUS
    <3>2. PICK k \in Bad : \A j \in Bad : k <= j
      <4> HIDE DEF Bad
      <4> QED
        BY <2>2, <3>1, LeastNatural
    <3>3. k \in 0 .. N /\ n <= k /\ t[k] # t[n] /\ k # n
      OBVIOUS
    <3>4. k \in 1 .. N /\ k - 1 \in 0 .. N /\ n <= k - 1 /\ ~ (k <= k - 1)
      BY <3>3
    <3>5. t[k - 1] = t[n]
      BY <3>2, <3>4
    <3>6. t[k] = f[t[k - 1]] /\ t[n] = f[t[n - 1]]
      BY <1>1, <3>4
    <3> QED
      BY <2>1, <3>3, <3>5, <3>6
  <2>3. t[N] = t[n]
    BY <1>4, <2>2
  <2>4. t[n] = f[t[n - 1]]
    BY <1>1
  <2>5. f[t[N]] = t[N]
    BY <2>1, <2>3, <2>4
  <2> QED
    BY <1>4, <1>5, <2>5
<1> QED
  BY <1>6, <1>7

\* With the witnesses of some edges.
WithWitnesses(L, edges, T) == T \cup ({Witness(L, edges, e) : e \in T} \ {0})

IsClosing(t, L, edges, S) ==
    t = [n \in 0 .. Len(L) |->
            IF n = 0 THEN S ELSE t[n - 1] \cup ({Witness(L, edges, e) : e \in t[n - 1]} \ {0})]

LEMMA ClosingExists ==
    ASSUME NEW L \in Seq(Entries), NEW S, S \subseteq Edges(L)
    PROVE  \E t : IsClosing(t, L, Edges(L), S)
<1>1. PICK E, U, N : E = Edges(L) /\ U = SUBSET E /\ N = Len(L)
  OBVIOUS
<1>2. N \in Nat /\ S \in U
  BY <1>1
<1>3. PICK f : f = [T \in U |-> WithWitnesses(L, E, T)]
  OBVIOUS
<1>4. \A T \in U : WithWitnesses(L, E, T) \in U
  <2> SUFFICES ASSUME NEW T \in U PROVE WithWitnesses(L, E, T) \subseteq E
    BY <1>1
  <2>1. \A e \in T : e \in E
    BY <1>1
  <2>2. \A e \in T : Witness(L, E, e) = 0 \/ Witness(L, E, e) \in E
    BY <1>1, <2>1, WitnessIs
  <2> QED
    BY <2>1, <2>2 DEF WithWitnesses
<1>5. f \in [U -> U]
  BY <1>3, <1>4
<1>6. PICK t : Orbit(t, N, U, S, f)
  BY <1>2, <1>5, OrbitExists
<1>7. t \in [0 .. N -> U] /\ t[0] = S /\ \A n \in 1 .. N : t[n] = f[t[n - 1]]
  BY <1>6 DEF Orbit
<1>8. \A n \in 0 .. N : t[n] = IF n = 0 THEN S
                               ELSE t[n - 1] \cup ({Witness(L, E, e) : e \in t[n - 1]} \ {0})
  <2> SUFFICES ASSUME NEW n \in 0 .. N
               PROVE  t[n] = IF n = 0 THEN S
                             ELSE t[n - 1] \cup ({Witness(L, E, e) : e \in t[n - 1]} \ {0})
    OBVIOUS
  <2>1. CASE n = 0
    BY <1>7, <2>1, Zenon
  <2>2. CASE n # 0
    <3>1. n \in 1 .. N /\ n - 1 \in 0 .. N
      BY <1>2, <2>2
    <3>2. t[n] = f[t[n - 1]] /\ t[n - 1] \in U
      BY <1>7, <3>1
    <3>3. t[n] = WithWitnesses(L, E, t[n - 1])
      BY <1>3, <3>2, Zenon
    <3> QED
      BY <2>2, <3>3, Zenon DEF WithWitnesses
  <2> QED
    BY <2>1, <2>2
<1>9. t = [n \in 0 .. N |-> t[n]]
  BY <1>7
<1>10. [n \in 0 .. N |-> t[n]]
         = [n \in 0 .. N |-> IF n = 0 THEN S
                             ELSE t[n - 1] \cup ({Witness(L, E, e) : e \in t[n - 1]} \ {0})]
  BY <1>8, Zenon
<1>11. IsClosing(t, L, E, S)
  BY <1>1, <1>9, <1>10, Zenon DEF IsClosing
<1> QED
  BY <1>1, <1>11

\* C is S with the witnesses of its edges, and theirs.
WitnessClosed(L, S, C) ==
    /\ S \subseteq C /\ C \subseteq Edges(L)
    /\ \A e \in C : Witness(L, Edges(L), e) \in C \cup {0}
    /\ \A e \in C : e \in S \/ \E f \in C : L[e].of = L[f].who

LEMMA ClosedIs ==
    ASSUME NEW L \in Seq(Entries), NEW S, S \subseteq Edges(L)
    PROVE  WitnessClosed(L, S, Closed(L, Edges(L), S))
<1>1. PICK E, U, N : E = Edges(L) /\ U = SUBSET E /\ N = Len(L)
  OBVIOUS
<1>2. N \in Nat /\ S \in U
  BY <1>1
<1>3. PICK t : t = CHOOSE u : IsClosing(u, L, E, S)
  OBVIOUS
<1>4. IsClosing(t, L, E, S)
  BY <1>1, <1>3, ClosingExists
<1>5. Closed(L, E, S) = t[N]
  BY <1>1, <1>3 DEF Closed, IsClosing
<1>6. /\ t[0] = S /\ t = [n \in 0 .. N |-> t[n]]
      /\ \A n \in 1 .. N : t[n] = WithWitnesses(L, E, t[n - 1])
  <2>1. \A n \in 0 .. N : t[n] = IF n = 0 THEN S
                               ELSE t[n - 1] \cup ({Witness(L, E, e) : e \in t[n - 1]} \ {0})
    BY <1>1, <1>4, Zenon DEF IsClosing
  <2>2. 0 \in 0 .. N /\ \A n \in 1 .. N : n \in 0 .. N /\ n # 0
    BY <1>2
  <2>3. t[0] = S /\ \A n \in 1 .. N : t[n] = WithWitnesses(L, E, t[n - 1])
    BY <2>1, <2>2, Zenon DEF WithWitnesses
  <2>4. t = [n \in 0 .. N |-> t[n]]
    BY <1>1, <1>4 DEF IsClosing
  <2> QED
    BY <2>3, <2>4
<1>7. \A e \in E : \/ Witness(L, E, e) = 0
                   \/ Witness(L, E, e) \in E /\ L[Witness(L, E, e)].of = L[e].who
  BY <1>1, WitnessIs
<1>8. PICK f : f = [T \in U |-> WithWitnesses(L, E, T)]
  OBVIOUS
<1>9. \A T \in U : WithWitnesses(L, E, T) \in U /\ T \subseteq WithWitnesses(L, E, T)
  <2> SUFFICES ASSUME NEW T \in U PROVE WithWitnesses(L, E, T) \subseteq E /\ T \subseteq WithWitnesses(L, E, T)
    BY <1>1
  <2>1. \A e \in T : e \in E
    BY <1>1
  <2> QED
    BY <1>7, <2>1 DEF WithWitnesses
<1>10. f \in [U -> U] /\ \A T \in U : f[T] = WithWitnesses(L, E, T)
  BY <1>8, <1>9
<1>11. Orbit(t, N, U, S, f)
  <2>1. \A n \in 1 .. N : t[n - 1] \in U => t[n] = f[t[n - 1]]
    BY <1>6, <1>10
  <2> QED
    BY <1>2, <1>6, <1>10, <2>1, OrbitOf
<1>12. IsFiniteSet(E) /\ Cardinality(E) <= N
  <2>1. IsFiniteSet(1 .. N) /\ Cardinality(1 .. N) = N
    BY <1>2, FS_Interval
  <2>2. E \in SUBSET (1 .. N)
    BY <1>1, EdgesAre
  <2> QED
    BY <2>1, <2>2, FS_Subset
<1>13. t[N] \in U /\ f[t[N]] = t[N] /\ \A n \in 0 .. N : t[n] \subseteq t[N]
  <2>1. Inflates(f, E)
    BY <1>1, <1>9, <1>10 DEF Inflates
  <2>2. Orbit(t, N, SUBSET E, S, f)
    BY <1>1, <1>11
  <2>3. t[N] \in SUBSET E /\ f[t[N]] = t[N] /\ \A n \in 0 .. N : t[n] \subseteq t[N]
    <3>1. IsFiniteSet(E)
      BY <1>12
    <3>2. N \in Nat /\ Cardinality(E) <= N
      BY <1>2, <1>12
    <3> QED
      BY <2>1, <2>2, <3>1, <3>2, OrbitHalts, Zenon
  <2> QED
    BY <1>1, <2>3
<1>14. PICK C : C = t[N]
  OBVIOUS
<1>15. S \subseteq C /\ C \subseteq E
  BY <1>1, <1>2, <1>6, <1>13, <1>14
<1>16. WithWitnesses(L, E, C) = C
  BY <1>10, <1>13, <1>14
<1>17. \A e \in C : Witness(L, E, e) \in C \cup {0}
  BY <1>16 DEF WithWitnesses
<1>18. ASSUME NEW n \in 0 .. N PROVE \A e \in t[n] : e \in S \/ \E d \in C : L[e].of = L[d].who
  <2> DEFINE Good(k) == \A e \in t[k] : e \in S \/ \E d \in C : L[e].of = L[d].who
             Bad == {k \in 0 .. N : ~Good(k)}
  <2>1. Good(0)
    BY <1>6
  <2>2. ASSUME NEW k \in 1 .. N, Good(k - 1) PROVE Good(k)
    <3>1. k - 1 \in 0 .. N
      BY <1>2
    <3>2. t[k - 1] \subseteq C
      BY <1>13, <1>14, <3>1
    <3>3. t[k] = WithWitnesses(L, E, t[k - 1])
      BY <1>6
    <3>4. ASSUME NEW e \in t[k] PROVE e \in S \/ \E d \in C : L[e].of = L[d].who
      <4>1. CASE e \in t[k - 1]
        BY <2>2, <4>1
      <4>2. CASE e \notin t[k - 1]
        <5>1. PICK d \in t[k - 1] : e = Witness(L, E, d) /\ e # 0
          BY <3>3, <4>2 DEF WithWitnesses
        <5>2. d \in C /\ d \in E
          BY <1>15, <3>2
        <5>3. L[e].of = L[d].who
          BY <1>7, <5>1, <5>2
        <5> QED
          BY <5>2, <5>3
      <4> QED
        BY <4>1, <4>2
    <3> QED
      BY <3>4
  <2> HIDE DEF Good
  <2>3. ASSUME Bad # {} PROVE FALSE
    <3>1. Bad \subseteq Nat
      OBVIOUS
    <3>2. PICK k \in Bad : \A j \in Bad : k <= j
      <4> HIDE DEF Bad
      <4> QED
        BY <2>3, <3>1, LeastNatural
    <3>3. k \in 0 .. N /\ ~Good(k) /\ k # 0
      BY <2>1, <3>2
    <3>4. k \in 1 .. N /\ k - 1 \in 0 .. N /\ ~ (k <= k - 1)
      BY <1>2, <3>3
    <3>5. Good(k - 1)
      BY <3>2, <3>4
    <3> QED
      BY <2>2, <3>3, <3>4, <3>5
  <2>4. Good(n)
    BY <2>3
  <2> QED
    BY <2>4 DEF Good
<1>19. N \in 0 .. N
  BY <1>2
<1>20. \A e \in C : e \in S \/ \E d \in C : L[e].of = L[d].who
  BY <1>14, <1>18, <1>19
<1> QED
  BY <1>1, <1>5, <1>14, <1>15, <1>17, <1>20 DEF WitnessClosed

-----------------------------------------------------------------------------
\* The edges that reached some people, and those who vouched them in.
ParentsIn(set, S) == {set[x] : x \in S \cap DOMAIN set} \ {0}
WithParents(L, set, S) == S \cup {L[e].who : e \in ParentsIn(set, S)}

IsTracing(t, L, set, m) ==
    t = [n \in 0 .. Cardinality(People) |->
            IF n = 0 THEN {m}
            ELSE t[n - 1] \cup {L[e].who : e \in ({set[x] : x \in t[n - 1] \cap DOMAIN set} \ {0})}]

LEMMA ParentsAre ==
    ASSUME NEW L \in Seq(Entries), NEW w, NEW set, set = Reach(L, Edges(L), Len(L) + 1, w), NEW S
    PROVE  /\ Rooted(set, L, LiveEdges(L, Edges(L), Len(L) + 1, w), Len(L) + 1)
           /\ ParentsIn(set, S) \subseteq Edges(L)
           /\ S \subseteq People => WithParents(L, set, S) \subseteq People
<1>1. PICK p, live : p = Len(L) + 1 /\ live = LiveEdges(L, Edges(L), p, w)
  OBVIOUS
<1>2. Len(L) \in Nat /\ p \in 1 .. Len(L) + 1
  BY <1>1
<1>3. Among(L, live, p)
  BY <1>1, <1>2, EdgesAmong
<1>4. Rooted(set, L, live, p)
  BY <1>1, <1>3, ReachRooted
<1>5. ParentsIn(set, S) \subseteq live
  BY <1>4 DEF Rooted, ParentsIn
<1>6. live \subseteq Edges(L)
  BY <1>1 DEF LiveEdges
<1>7. \A e \in ParentsIn(set, S) : L[e].who \in People
  <2> SUFFICES ASSUME NEW e \in ParentsIn(set, S) PROVE L[e].who \in People
    OBVIOUS
  <2>1. e \in 1 .. Len(L) /\ L[e].kind = "vouch"
    BY <1>5, <1>6, EdgesAre
  <2> QED
    BY <2>1, VouchIs
<1> QED
  BY <1>1, <1>4, <1>5, <1>6, <1>7 DEF WithParents

LEMMA TracingExists ==
    ASSUME NEW L \in Seq(Entries), NEW w, NEW set, set = Reach(L, Edges(L), Len(L) + 1, w),
           NEW m \in People
    PROVE  \E t : IsTracing(t, L, set, m)
<1>1. PICK U, N : U = SUBSET People /\ N = Cardinality(People)
  OBVIOUS
<1>2. N \in Nat /\ {m} \in U
  <2>1. IsFiniteSet(People)
    BY ReputationAssumption
  <2>2. Cardinality(People) \in Nat
    BY <2>1, FS_CardinalityType
  <2> QED
    BY <1>1, <2>2
<1>3. PICK f : f = [T \in U |-> WithParents(L, set, T)]
  OBVIOUS
<1>4. \A T \in U : WithParents(L, set, T) \in U
  BY <1>1, ParentsAre
<1>5. f \in [U -> U]
  BY <1>3, <1>4
<1>6. PICK t : Orbit(t, N, U, {m}, f)
  BY <1>2, <1>5, OrbitExists
<1>7. t \in [0 .. N -> U] /\ t[0] = {m} /\ \A n \in 1 .. N : t[n] = f[t[n - 1]]
  BY <1>6 DEF Orbit
<1>8. \A n \in 0 .. N : t[n] = IF n = 0 THEN {m}
          ELSE t[n - 1] \cup {L[e].who : e \in ({set[x] : x \in t[n - 1] \cap DOMAIN set} \ {0})}
  <2> SUFFICES ASSUME NEW n \in 0 .. N
               PROVE  t[n] = IF n = 0 THEN {m}
          ELSE t[n - 1] \cup {L[e].who : e \in ({set[x] : x \in t[n - 1] \cap DOMAIN set} \ {0})}
    OBVIOUS
  <2>1. CASE n = 0
    BY <1>7, <2>1, Zenon
  <2>2. CASE n # 0
    <3>1. n \in 1 .. N /\ n - 1 \in 0 .. N
      BY <1>2, <2>2
    <3>2. t[n] = f[t[n - 1]] /\ t[n - 1] \in U
      BY <1>7, <3>1
    <3>3. t[n] = WithParents(L, set, t[n - 1])
      BY <1>3, <3>2, Zenon
    <3> QED
      BY <2>2, <3>3, Zenon DEF WithParents, ParentsIn
  <2> QED
    BY <2>1, <2>2
<1>9. t = [n \in 0 .. N |-> t[n]]
  BY <1>7
<1>10. [n \in 0 .. N |-> t[n]]
         = [n \in 0 .. N |-> IF n = 0 THEN {m}
              ELSE t[n - 1] \cup {L[e].who : e \in ({set[x] : x \in t[n - 1] \cap DOMAIN set} \ {0})}]
  BY <1>8, Zenon
<1>11. IsTracing(t, L, set, m)
  BY <1>1, <1>9, <1>10, Zenon DEF IsTracing
<1> QED
  BY <1>11

\* P are m, those it was reached through, and theirs.
Traced(P, L, set, m) ==
    /\ m \in P /\ P \subseteq People
    /\ \A x \in P : x \in DOMAIN set /\ set[x] # 0 => L[set[x]].who \in P
    /\ \A x \in P : x = m \/ \E e \in ParentsIn(set, P) : x = L[e].who

LEMMA TracingTraces ==
    ASSUME NEW L \in Seq(Entries), NEW w, NEW set, set = Reach(L, Edges(L), Len(L) + 1, w),
           NEW m \in People, NEW t, IsTracing(t, L, set, m)
    PROVE  Traced(t[Cardinality(People)], L, set, m)
<1>1. PICK U, N : U = SUBSET People /\ N = Cardinality(People)
  OBVIOUS
<1>2. IsFiniteSet(People) /\ N \in Nat /\ {m} \in U /\ Cardinality(People) <= N
  <2>1. IsFiniteSet(People)
    BY ReputationAssumption
  <2>2. Cardinality(People) \in Nat
    BY <2>1, FS_CardinalityType
  <2> QED
    BY <1>1, <2>1, <2>2
<1>3. /\ t[0] = {m} /\ t = [n \in 0 .. N |-> t[n]]
      /\ \A n \in 1 .. N : t[n] = WithParents(L, set, t[n - 1])
  <2>1. \A n \in 0 .. N : t[n] = IF n = 0 THEN {m}
          ELSE t[n - 1] \cup {L[e].who : e \in ({set[x] : x \in t[n - 1] \cap DOMAIN set} \ {0})}
    BY <1>1, Zenon DEF IsTracing
  <2>2. 0 \in 0 .. N /\ \A n \in 1 .. N : n \in 0 .. N /\ n # 0
    BY <1>2
  <2>3. t[0] = {m} /\ \A n \in 1 .. N : t[n] = WithParents(L, set, t[n - 1])
    BY <2>1, <2>2, Zenon DEF WithParents, ParentsIn
  <2>4. t = [n \in 0 .. N |-> t[n]]
    BY <1>1 DEF IsTracing
  <2> QED
    BY <2>3, <2>4
<1>4. PICK f : f = [T \in U |-> WithParents(L, set, T)]
  OBVIOUS
<1>5. \A T \in U : WithParents(L, set, T) \in U /\ T \subseteq WithParents(L, set, T)
  <2>1. \A T \in U : WithParents(L, set, T) \in U
    BY <1>1, ParentsAre
  <2> QED
    BY <2>1 DEF WithParents
<1>6. f \in [U -> U] /\ \A T \in U : f[T] = WithParents(L, set, T)
  BY <1>4, <1>5
<1>7. Orbit(t, N, U, {m}, f)
  <2>1. \A n \in 1 .. N : t[n - 1] \in U => t[n] = f[t[n - 1]]
    BY <1>3, <1>6
  <2> QED
    BY <1>2, <1>3, <1>6, <2>1, OrbitOf
<1>8. Inflates(f, People) /\ Orbit(t, N, SUBSET People, {m}, f)
  BY <1>1, <1>5, <1>6, <1>7 DEF Inflates
<1>9. t[N] \in SUBSET People /\ f[t[N]] = t[N] /\ \A n \in 0 .. N : t[n] \subseteq t[N]
  BY <1>2, <1>8, OrbitHalts, Zenon
<1>10. PICK P : P = t[N]
  OBVIOUS
<1>11. P \subseteq People /\ WithParents(L, set, P) = P
  BY <1>1, <1>6, <1>9, <1>10
<1>12. m \in P
  <2>1. 0 \in 0 .. N
    BY <1>2
  <2> QED
    BY <1>3, <1>9, <1>10, <2>1
<1>13. \A x \in P : x \in DOMAIN set /\ set[x] # 0 => L[set[x]].who \in P
  BY <1>11 DEF WithParents, ParentsIn
<1>14. ASSUME NEW n \in 0 .. N PROVE \A x \in t[n] : x = m \/ \E e \in ParentsIn(set, P) : x = L[e].who
  <2> DEFINE Good(k) == \A x \in t[k] : x = m \/ \E e \in ParentsIn(set, P) : x = L[e].who
             Bad == {k \in 0 .. N : ~Good(k)}
  <2>1. Good(0)
    BY <1>3
  <2>2. ASSUME NEW k \in 1 .. N, Good(k - 1) PROVE Good(k)
    <3>1. k - 1 \in 0 .. N
      BY <1>2
    <3>2. t[k - 1] \subseteq P
      BY <1>9, <1>10, <3>1
    <3>3. ParentsIn(set, t[k - 1]) \subseteq ParentsIn(set, P)
      BY <3>2 DEF ParentsIn
    <3>4. t[k] = t[k - 1] \cup {L[e].who : e \in ParentsIn(set, t[k - 1])}
      BY <1>3 DEF WithParents
    <3> QED
      BY <2>2, <3>3, <3>4
  <2> HIDE DEF Good
  <2>3. ASSUME Bad # {} PROVE FALSE
    <3>1. Bad \subseteq Nat
      OBVIOUS
    <3>2. PICK k \in Bad : \A j \in Bad : k <= j
      <4> HIDE DEF Bad
      <4> QED
        BY <2>3, <3>1, LeastNatural
    <3>3. k \in 0 .. N /\ ~Good(k) /\ k # 0
      BY <2>1, <3>2
    <3>4. k \in 1 .. N /\ k - 1 \in 0 .. N /\ ~ (k <= k - 1)
      BY <1>2, <3>3
    <3>5. Good(k - 1)
      BY <3>2, <3>4
    <3> QED
      BY <2>2, <3>3, <3>4, <3>5
  <2>4. Good(n)
    BY <2>3
  <2> QED
    BY <2>4 DEF Good
<1>15. N \in 0 .. N
  BY <1>2
<1>16. \A x \in P : x = m \/ \E e \in ParentsIn(set, P) : x = L[e].who
  BY <1>10, <1>14, <1>15
<1> QED
  BY <1>1, <1>10, <1>11, <1>12, <1>13, <1>16 DEF Traced

\* C are the edges of m's chain, P the people it was reached through.
IsChain(P, C, L, set, m, w) ==
    /\ Traced(P, L, set, m)
    /\ WitnessClosed(L, ParentsIn(set, P), C)
    /\ AnchorChain(L, m, w) = {L[e].who : e \in C}

LEMMA ChainIs ==
    ASSUME NEW L \in Seq(Entries), NEW w, NEW set, set = Reach(L, Edges(L), Len(L) + 1, w),
           NEW m \in People
    PROVE  \E P, C : IsChain(P, C, L, set, m, w)
<1>1. PICK t : t = CHOOSE u : IsTracing(u, L, set, m)
  OBVIOUS
<1>2. IsTracing(t, L, set, m)
  BY <1>1, TracingExists
<1>3. PICK P : P = t[Cardinality(People)]
  OBVIOUS
<1>4. Traced(P, L, set, m)
  BY <1>2, <1>3, TracingTraces
<1>5. PICK C : C = Closed(L, Edges(L), ParentsIn(set, P))
  OBVIOUS
<1>6. WitnessClosed(L, ParentsIn(set, P), C)
  BY <1>5, ParentsAre, ClosedIs
<1>7. AnchorChain(L, m, w) = {L[e].who : e \in C}
  BY <1>1, <1>3, <1>5 DEF AnchorChain, IsTracing, ParentsIn
<1> QED
  BY <1>4, <1>6, <1>7 DEF IsChain

\* The edges of a chain are vouches among those whose evidence travels, and so are the
\* edges that anchored their vouchers.
Chain(L, people, C) ==
    /\ C \subseteq Edges(L)
    /\ \A e \in C : /\ Witness(L, Edges(L), e) \in C \cup {0}
                    /\ L[e].who \in people /\ L[e].of \in people

LEMMA CarriedIs ==
    ASSUME NEW L \in Seq(Entries), NEW w, NEW set, set = Reach(L, Edges(L), Len(L) + 1, w),
           NEW m \in People
    PROVE  \E P, C : /\ Traced(P, L, set, m)
                     /\ Chain(L, Shipped(L, m, w), C)
                     /\ ParentsIn(set, P) \subseteq C
                     /\ P \subseteq Shipped(L, m, w)
<1>1. PICK people : people = Shipped(L, m, w)
  OBVIOUS
<1>2. PICK P, C : /\ Traced(P, L, set, m)
                  /\ WitnessClosed(L, ParentsIn(set, P), C)
                  /\ AnchorChain(L, m, w) = {L[e].who : e \in C}
  <2>1. PICK P, C : IsChain(P, C, L, set, m, w)
    BY ChainIs
  <2> QED
    BY <2>1 DEF IsChain
<1>3. m \in people /\ \A e \in C : L[e].who \in people
  BY <1>1, <1>2 DEF Shipped
<1>4. ParentsIn(set, P) \subseteq C
  BY <1>2 DEF WitnessClosed
<1>5. P \subseteq people
  BY <1>2, <1>3, <1>4 DEF Traced
<1>6. ASSUME NEW e \in C PROVE L[e].of \in people
  <2>1. CASE e \in ParentsIn(set, P)
    <3>1. PICK x \in P \cap DOMAIN set : e = set[x] /\ e # 0
      BY <2>1 DEF ParentsIn
    <3>2. L[e].of = x
      BY SMTT(30), <3>1, ParentsAre DEF Rooted
    <3> QED
      BY <1>5, <3>1, <3>2
  <2>2. CASE e \notin ParentsIn(set, P)
    BY <1>2, <1>3, <2>2 DEF WitnessClosed
  <2> QED
    BY <2>1, <2>2
<1>7. Chain(L, people, C)
  BY <1>2, <1>3, <1>6 DEF Chain, WitnessClosed
<1> QED
  BY <1>1, <1>2, <1>4, <1>5, <1>7

\* None of these was ever revoked.
Unrevoked(L, people) == \A i \in EntriesOf(L, {"revoke"}) : L[i].who \notin people

\* A founder nobody revokes stays a root.
LEMMA RootStays ==
    ASSUME NEW L, IsRepLog(L), NEW people, Unrevoked(L, people), NEW y \in people, NEW p \in Nat,
           NEW q \in Nat, p <= q, IsRoot(L, y, p)
    PROVE  IsRoot(L, y, q)
<1>1. Len(L) \in Nat
  BY DEF IsRepLog
<1>2. PICK E, F : E = Events(L, y, p) /\ F = Events(L, y, q)
  OBVIOUS
<1>3. E # {} /\ E \subseteq F
  <2>1. E # {}
    BY <1>2, LastEventIs DEF IsRoot, EnrolledAt
  <2>2. E \subseteq F
    BY <1>2 DEF Events, EntriesOf
  <2> QED
    BY <2>1, <2>2
<1>4. F # {}
  BY <1>3
<1>5. PICK a, b : a = Max(E) /\ b = Max(F)
  OBVIOUS
<1>6. a \in E /\ b \in F /\ (\A i \in F : i <= b) /\ \A i \in E : i <= a
  BY <1>1, <1>2, <1>3, <1>4, <1>5, EventsMax
<1>7. LastEvent(L, y, q) = L[b] /\ LastEvent(L, y, p) = L[a]
  BY <1>2, <1>3, <1>4, <1>5, LastEventIs
<1>8. \A i \in 1 .. Len(L) : L[i].kind = "revoke" => L[i].who # y
  BY DEF Unrevoked, EntriesOf
<1>9. \A i \in F : i \in 1 .. Len(L) /\ L[i].kind = "enroll" /\ L[i].who = y /\ i < q
  BY <1>2, <1>8 DEF Events, EntriesOf
<1>10. L[a].basis = "founder" /\ a \in F
  BY <1>3, <1>6, <1>7 DEF IsRoot
<1>11. CASE b = a
  BY <1>6, <1>7, <1>9, <1>10, <1>11 DEF IsRoot, EnrolledAt
<1>12. CASE b # a
  <2>1. a \in Int /\ b \in Int /\ a < b
    BY <1>1, <1>6, <1>9, <1>10, <1>12
  <2>2. PICK G : G = Events(L, y, b)
    OBVIOUS
  <2>3. a \in G /\ G \subseteq F
    <3>1. a \in G
      BY <1>9, <1>10, <2>1, <2>2 DEF Events, EntriesOf
    <3>2. \A i \in G : i \in 1 .. Len(L) /\ i < b /\ i \in EntriesOf(L, {"enroll", "revoke"}) /\ L[i].who = y
      BY <2>2 DEF Events, EntriesOf
    <3>3. b < q
      BY <1>6, <1>9
    <3>4. \A i \in G : i < q
      BY <1>1, <2>1, <3>2, <3>3
    <3> QED
      BY <1>2, <3>1, <3>2, <3>4 DEF Events
  <2>4. G # {}
    BY <2>3
  <2>5. Max(G) \in G
    BY <1>1, <2>2, <2>4, EventsMax
  <2>6. LastEvent(L, y, b).kind = "enroll"
    BY <1>9, <2>2, <2>3, <2>4, <2>5, LastEventIs
  <2>7. EnrolledAt(L, y, b) /\ L[b].who = y /\ b \in 1 .. Len(L) /\ L[b].kind = "enroll"
    BY <1>6, <1>9, <2>6 DEF EnrolledAt
  <2>8. L[b].basis = "founder"
    BY <2>7 DEF IsRepLog, EnrolledOnce
  <2> QED
    BY <1>7, <2>7, <2>8 DEF IsRoot, EnrolledAt
<1> QED
  BY <1>11, <1>12

LEMMA NeverVoid ==
    ASSUME NEW at, NEW L, NEW people, NEW B, Bundled(at, L, people, B), Unrevoked(L, people),
           NEW n, B[n].who \in people, B[n].of \in people, NEW q
    PROVE  ~VoidAt(B, n, q)
<1>1. ASSUME NEW i \in EntriesOf(B, {"revoke"}) PROVE B[i].who \notin people
  <2>1. i \in 1 .. Len(B) /\ B[i].kind = "revoke"
    BY <1>1 DEF EntriesOf
  <2>2. at[i] \in 1 .. Len(L) /\ B[i] = L[at[i]]
    BY <2>1, InOrder
  <2> QED
    BY <2>1, <2>2 DEF Unrevoked, EntriesOf
<1> QED
  BY <1>1 DEF VoidAt, RevokedBetween

-----------------------------------------------------------------------------
(* A bundle whose people were never revoked forms the edges of its chain.  *)

\* The edge at e formed in the bundle too, and its voucher is anchored there from then on.
FormsThere(at, L, B, e) ==
    \E n \in 1 .. Len(B) :
        /\ at[n] = e /\ n \in Edges(B)
        /\ \A q \in n .. Len(B) + 1 : B[n].who \in Anchors(B, Edges(B), q, Forever)

\* Once its voucher is anchored in the bundle, the edge forms.
LEMMA AnchoredForms ==
    ASSUME NEW at, NEW L, NEW people, NEW B, Bundled(at, L, people, B),
           NEW e \in Edges(L), L[e].who \in people, NEW n \in 1 .. Len(B), at[n] = e,
           \A q \in n .. Len(B) + 1 : B[n].who \in Anchors(B, Edges(B), q, Forever)
    PROVE  FormsThere(at, L, B, e)
<1>1. /\ B \in Seq(Entries) /\ L \in Seq(Entries) /\ Len(B) \in Nat /\ Len(L) \in Nat
      /\ B[n] = L[e] /\ n \in 1 .. Len(B) + 1
  BY InOrder DEF Bundled, IsRepLog
<1>2. e \in 1 .. Len(L) /\ L[e].kind = "vouch" /\ EligibleVouch(L, e) /\ Judged(L, e)
  BY <1>1, EdgesAre
<1>3. EligibleVouch(B, n)
  BY <1>1, <1>2, SameVouch
<1>4. n \in n .. Len(B) + 1
  BY <1>1
<1>5. Judged(B, n)
  <2>1. PICK y, w, a, b : /\ y = L[e].who /\ w = L[e].at
                          /\ a = ScoreRawBefore(L, y, w, e) /\ b = ScoreRawBefore(B, y, w, n)
    OBVIOUS
  <2>2. w \in Int /\ y \in people
    BY <1>1, <1>2, <2>1, VouchIs
  <2>3. /\ a.trade \in Nat /\ a.attestation \in Nat /\ b.trade \in Nat /\ b.attestation \in Nat
        /\ a.trade <= b.trade /\ a.attestation <= b.attestation
    BY SMTT(30), <1>1, <2>1, <2>2, RawAll
  <2>4. Composite(a) \in Nat /\ Composite(b) \in Nat /\ Composite(a) <= Composite(b)
    BY <2>3, CompositeMore
  <2>5. Composite(a) >= MemberMin /\ MemberMin \in Nat
    BY <1>2, <2>1, ReputationAssumption DEF Judged
  <2>6. Composite(b) >= MemberMin
    BY <2>4, <2>5
  <2> QED
    BY <1>1, <2>1, <2>6 DEF Judged
<1>6. n \in Edges(B)
  BY <1>1, <1>2, <1>3, <1>4, <1>5, EdgesAre
<1> QED
  BY <1>6 DEF FormsThere

LEMMA NextForms ==
    ASSUME NEW at, NEW L, NEW people, NEW B, Bundled(at, L, people, B), Unrevoked(L, people),
           NEW C, Chain(L, people, C), NEW e \in C, \A f \in C : f < e => FormsThere(at, L, B, f)
    PROVE  FormsThere(at, L, B, e)
<1>1. /\ B \in Seq(Entries) /\ L \in Seq(Entries) /\ IsRepLog(L) /\ Len(B) \in Nat /\ Len(L) \in Nat
  BY InOrder DEF Bundled, IsRepLog
<1>2. PICK y, f : y = L[e].who /\ f = Witness(L, Edges(L), e)
  OBVIOUS
<1>3. e \in Edges(L) /\ y \in people /\ f \in C \cup {0}
  BY <1>2 DEF Chain
<1>4. e \in 1 .. Len(L) /\ L[e].kind = "vouch"
  BY <1>1, <1>3, EdgesAre
<1>5. y \in People
  BY <1>1, <1>2, <1>4, VouchIs
<1>6. PICK n \in 1 .. Len(B) : at[n] = e
  BY <1>2, <1>3, <1>4, Brought
<1>7. B[n] = L[e] /\ n \in 1 .. Len(B) + 1
  BY <1>1, <1>6, InOrder
<1>8. ASSUME NEW q \in n .. Len(B) + 1 PROVE y \in Anchors(B, Edges(B), q, Forever)
  <2>1. q \in 1 .. Len(B) + 1 /\ q \in Nat /\ n <= q
    BY <1>1
  <2>2. CASE IsRoot(L, y, e)
    <3>1. e \in Nat /\ at[q] \in Nat /\ e <= at[q]
      <4>1. at[q] \in 1 .. Len(L) + 1 /\ (n < q => at[n] < at[q])
        BY <1>7, <2>1, InOrder
      <4>2. CASE n = q
        BY <1>1, <1>6, <4>1, <4>2
      <4>3. CASE n # q
        <5>1. n < q
          BY <1>1, <2>1, <4>3
        <5> QED
          BY <1>1, <1>4, <1>6, <4>1, <5>1
      <4> QED
        BY <4>2, <4>3
    <3>2. IsRoot(L, y, at[q])
      BY <1>1, <1>3, <2>2, <3>1, RootStays
    <3>3. y \in NamedIn(L, people)
      BY <1>3 DEF NamedIn
    <3>4. IsRoot(B, y, q)
      BY <2>1, <3>2, <3>3, SameEvents
    <3> QED
      BY <1>5, <3>4 DEF Anchors, Roots
  <2>3. CASE ~IsRoot(L, y, e)
    <3>1. f \in C /\ f < e /\ L[f].of = y
      BY <1>1, <1>2, <1>3, <2>3, WitnessIs
    <3>2. FormsThere(at, L, B, f)
      BY <3>1
    <3>3. PICK k \in 1 .. Len(B) : /\ at[k] = f /\ k \in Edges(B)
                                   /\ \A r \in k .. Len(B) + 1 : B[k].who \in Anchors(B, Edges(B), r, Forever)
      BY <3>2 DEF FormsThere
    <3>4. k \in 1 .. Len(B) + 1 /\ B[k] = L[f]
      BY <1>1, <3>3, InOrder
    <3>5. k < n
      BY <1>6, <1>7, <3>1, <3>3, <3>4, InOrder
    <3>6. k < q /\ q \in k .. Len(B) + 1
      BY <1>1, <2>1, <3>4, <3>5
    <3>7. B[k].who \in Anchors(B, Edges(B), q, Forever)
      BY <3>3, <3>6
    <3>8. k \in LiveEdges(B, Edges(B), q, Forever)
      <4>1. B[k].who \in people /\ B[k].of \in people
        BY <3>1, <3>4 DEF Chain
      <4>2. ~VoidAt(B, k, q)
        BY <4>1, NeverVoid
      <4>3. B[k].at <= Forever
        <5>1. f \in 1 .. Len(L) /\ L[f].kind = "vouch"
          BY <1>1, <3>1, EdgesAre DEF Chain
        <5>2. L[f] \in Entries
          BY <1>1, <5>1
        <5>3. L[f].at \in 0 .. Forever
          BY <5>1, <5>2 DEF Entries
        <5>4. Forever \in Int
          BY ReputationAssumption DEF Forever
        <5> QED
          BY <3>4, <5>3, <5>4
      <4> QED
        BY <3>3, <3>6, <4>2, <4>3 DEF LiveEdges
    <3>9. Spans(B, LiveEdges(B, Edges(B), q, Forever), q, Anchors(B, Edges(B), q, Forever))
      BY <1>1, <2>1, AnchorsAre
    <3> QED
      BY <3>1, <3>4, <3>7, <3>8, <3>9 DEF Spans
  <2> QED
    BY <2>2, <2>3
<1>9. \A q \in n .. Len(B) + 1 : B[n].who \in Anchors(B, Edges(B), q, Forever)
  BY <1>2, <1>7, <1>8
<1> QED
  BY <1>2, <1>3, <1>6, <1>9, AnchoredForms

LEMMA ChainForms ==
    ASSUME NEW at, NEW L, NEW people, NEW B, Bundled(at, L, people, B), Unrevoked(L, people),
           NEW C, Chain(L, people, C)
    PROVE  \A e \in C : FormsThere(at, L, B, e)
<1> DEFINE Bad == {e \in C : ~FormsThere(at, L, B, e)}
<1>1. ASSUME Bad # {} PROVE FALSE
  <2>1. C \subseteq Nat
    <3>1. L \in Seq(Entries)
      BY DEF Bundled, IsRepLog
    <3>2. \A e \in C : e \in 1 .. Len(L)
      BY <3>1, EdgesAre DEF Chain
    <3> QED
      BY <3>1, <3>2
  <2>2. Bad \subseteq Nat
    BY <2>1
  <2>3. PICK e \in Bad : \A f \in Bad : e <= f
    <3> HIDE DEF Bad
    <3> QED
      BY <1>1, <2>2, LeastNatural
  <2>4. e \in C /\ ~FormsThere(at, L, B, e)
    OBVIOUS
  <2>5. \A f \in C : f < e => FormsThere(at, L, B, f)
    BY <2>1, <2>3
  <2> QED
    BY <2>4, <2>5, NextForms
<1> QED
  BY <1>1

\* Whom the log anchors at its end, the bundle does.
LEMMA MemberAnchored ==
    ASSUME NEW L, IsRepLog(L), NEW w, NEW m \in People, NEW people, people = Shipped(L, m, w),
           NEW at, NEW B, Bundled(at, L, people, B), Unrevoked(L, people), m \in AnchoredSet(L, w)
    PROVE  m \in AnchoredSet(B, w)
<1>1. B \in Seq(Entries) /\ L \in Seq(Entries) /\ Len(B) \in Nat /\ Len(L) \in Nat
  BY InOrder DEF Bundled, IsRepLog
<1>2. PICK set, p, q, A : /\ set = Reach(L, Edges(L), p, w) /\ p = Len(L) + 1 /\ q = Len(B) + 1
                          /\ A = Anchors(B, Edges(B), q, w)
  OBVIOUS
<1>3. p \in 1 .. Len(L) + 1 /\ q \in 1 .. Len(B) + 1 /\ at[q] = p
  BY <1>1, <1>2, InOrder
<1>4. PICK P, C : /\ Traced(P, L, set, m) /\ Chain(L, people, C)
                  /\ ParentsIn(set, P) \subseteq C /\ P \subseteq people
  BY <1>1, <1>2, CarriedIs
<1>5. \A e \in C : FormsThere(at, L, B, e)
  BY <1>4, ChainForms
<1>6. \A x \in people : x \in Roots(L, p) => x \in A
  <2> SUFFICES ASSUME NEW x \in people, x \in Roots(L, p) PROVE x \in A
    OBVIOUS
  <2>1. x \in NamedIn(L, people)
    BY DEF NamedIn
  <2>2. x \in People /\ IsRoot(L, x, p)
    BY DEF Roots
  <2>3. IsRoot(B, x, q)
    BY <1>3, <2>1, <2>2, SameEvents
  <2> QED
    BY <1>2, <2>2, <2>3 DEF Anchors, Roots
<1>7. Rooted(set, L, LiveEdges(L, Edges(L), p, w), p)
  BY <1>1, <1>2, ParentsAre
<1>8. PICK Y : Y = {x \in DOMAIN set \cup P : x \in P => x \in A}
  OBVIOUS
<1>9. Feeds(Y, set, L)
  <2> SUFFICES ASSUME NEW x \in DOMAIN set, set[x] = 0 \/ L[set[x]].who \in Y, x \in P PROVE x \in A
    BY <1>8 DEF Feeds
  <2>1. x \in people
    BY <1>4
  <2>2. CASE set[x] = 0
    <3>1. x \in Roots(L, p)
      <4>1. 0 \notin LiveEdges(L, Edges(L), p, w)
        BY <1>1, <1>3, EdgesAre DEF LiveEdges
      <4> QED
        BY <1>7, <2>2, <4>1 DEF Rooted
    <3> QED
      BY <1>6, <2>1, <3>1
  <2>3. CASE set[x] # 0
    <3>1. PICK e : e = set[x]
      OBVIOUS
    <3>2. e \in LiveEdges(L, Edges(L), p, w) /\ L[e].of = x
      BY <1>7, <2>3, <3>1 DEF Rooted
    <3>3. L[e].who \in P /\ e \in C
      BY <1>4, <2>3, <3>1 DEF Traced, ParentsIn
    <3>4. L[e].who \in A
      BY <1>8, <2>3, <3>1, <3>3
    <3>5. PICK k \in 1 .. Len(B) : at[k] = e /\ k \in Edges(B)
      BY <1>5, <3>3 DEF FormsThere
    <3>6. B[k] = L[e]
      BY <3>5, InOrder
    <3>7. ~VoidAt(B, k, q)
      <4>1. B[k].who \in people /\ B[k].of \in people
        BY <1>4, <3>3, <3>6 DEF Chain
      <4> QED
        BY <4>1, NeverVoid
    <3>8. k \in LiveEdges(B, Edges(B), q, w)
      <4>1. k < q
        BY <1>1, <1>2, <3>5
      <4> QED
        BY <3>2, <3>5, <3>6, <3>7, <4>1 DEF LiveEdges
    <3>9. Spans(B, LiveEdges(B, Edges(B), q, w), q, A)
      BY <1>1, <1>2, <1>3, AnchorsAre
    <3> QED
      BY <3>2, <3>4, <3>6, <3>8, <3>9 DEF Spans
  <2> QED
    BY <2>2, <2>3
<1>10. DOMAIN set \subseteq Y
  BY <1>7, <1>9 DEF Rooted
<1>11. m \in P /\ m \in people
  BY <1>4 DEF Traced
<1>12. m \in DOMAIN set \/ m \in Roots(L, p)
  BY <1>2, AnchoredSetIs DEF Anchors
<1>13. m \in A
  BY <1>6, <1>8, <1>10, <1>11, <1>12
<1> QED
  BY <1>2, <1>13, AnchoredSetIs

-----------------------------------------------------------------------------
(* The profile a bundle gives.                                             *)

LEMMA Capped ==
    ASSUME NEW a \in Nat, NEW b \in Nat, a <= b
    PROVE  LET x == Min({a, AnchorCap})
               y == Min({b, AnchorCap})
           IN  x \in Int /\ y \in Int /\ x <= a /\ x <= y /\ x <= b
<1>1. PICK c, x, y : c = AnchorCap /\ x = Min({a, c}) /\ y = Min({b, c})
  OBVIOUS
<1>2. a \in Int /\ b \in Int /\ c \in Int
  BY <1>1, ReputationAssumption
<1>3. x \in {a, c} /\ x <= a /\ x <= c
  BY <1>1, <1>2, MinOfTwo
<1>4. y \in {b, c}
  BY <1>1, <1>2, MinOfTwo
<1>5. x \in Int /\ y \in Int /\ x <= a /\ x <= y /\ x <= b
  BY <1>2, <1>3, <1>4
<1> QED
  BY <1>1, <1>5

\* The score of who is anchored, and the capped one of who is not.
ScoredBy(L, m, w, raw) ==
    /\ m \in AnchoredSet(L, w) =>
         Score(L, m, w).trade = raw.trade /\ Score(L, m, w).attestation = raw.attestation
    /\ m \notin AnchoredSet(L, w) =>
         /\ Score(L, m, w).trade = Min({raw.trade, AnchorCap})
         /\ Score(L, m, w).attestation = Min({raw.attestation, AnchorCap})

LEMMA ScoreFields ==
    ASSUME NEW L, NEW m, NEW w
    PROVE  ScoredBy(L, m, w, ScoreRawBefore(L, m, w, Len(L) + 1))
<1>1. PICK raw : raw = ScoreRawBefore(L, m, w, Len(L) + 1)
  OBVIOUS
<1>2. DOMAIN raw = {"trade", "attestation"}
  BY <1>1, ScoreIs
<1>3. CASE m \in AnchoredSet(L, w)
  <2>1. Score(L, m, w) = raw
    BY <1>1, <1>3 DEF Score
  <2> QED
    BY <1>1, <1>3, <2>1 DEF ScoredBy
<1>4. CASE m \notin AnchoredSet(L, w)
  <2>1. Score(L, m, w) = [d \in DOMAIN raw |-> Min({raw[d], AnchorCap})]
    BY <1>1, <1>4 DEF Score
  <2>2. Score(L, m, w).trade = Min({raw.trade, AnchorCap})
        /\ Score(L, m, w).attestation = Min({raw.attestation, AnchorCap})
    BY <1>2, <2>1
  <2> QED
    BY <1>1, <1>4, <2>2 DEF ScoredBy
<1> QED
  BY <1>3, <1>4

\* A profile at least as good, and anchored if the other is.
LEMMA ProfileMore ==
    ASSUME NEW L, NEW M, NEW m, NEW w, NEW a, NEW b,
           a = ScoreRawBefore(L, m, w, Len(L) + 1), b = ScoreRawBefore(M, m, w, Len(M) + 1),
           a.trade \in Nat, a.attestation \in Nat, b.trade \in Nat, b.attestation \in Nat,
           a.trade <= b.trade, a.attestation <= b.attestation,
           m \in AnchoredSet(L, w) => m \in AnchoredSet(M, w)
    PROVE  /\ Score(L, m, w).trade <= Score(M, m, w).trade
           /\ Score(L, m, w).attestation <= Score(M, m, w).attestation
<1>1. PICK x, y, c : x = Score(L, m, w) /\ y = Score(M, m, w) /\ c = AnchorCap
  OBVIOUS
<1>2. /\ m \in AnchoredSet(L, w) => x.trade = a.trade /\ x.attestation = a.attestation
      /\ m \notin AnchoredSet(L, w) =>
           x.trade = Min({a.trade, c}) /\ x.attestation = Min({a.attestation, c})
  <2>1. ScoredBy(L, m, w, a)
    BY ScoreFields
  <2> QED
    BY <1>1, <2>1 DEF ScoredBy
<1>3. /\ m \in AnchoredSet(M, w) => y.trade = b.trade /\ y.attestation = b.attestation
      /\ m \notin AnchoredSet(M, w) =>
           y.trade = Min({b.trade, c}) /\ y.attestation = Min({b.attestation, c})
  <2>1. ScoredBy(M, m, w, b)
    BY ScoreFields
  <2> QED
    BY <1>1, <2>1 DEF ScoredBy
<1>4. Min({a.trade, c}) <= Min({b.trade, c}) /\ Min({a.trade, c}) <= b.trade
  BY <1>1, Capped
<1>5. Min({a.attestation, c}) <= Min({b.attestation, c}) /\ Min({a.attestation, c}) <= b.attestation
  BY <1>1, Capped
<1>6. CASE m \in AnchoredSet(L, w)
  BY <1>1, <1>2, <1>3, <1>6
<1>7. CASE m \notin AnchoredSet(L, w) /\ m \in AnchoredSet(M, w)
  BY <1>1, <1>2, <1>3, <1>4, <1>5, <1>7
<1>8. CASE m \notin AnchoredSet(L, w) /\ m \notin AnchoredSet(M, w)
  BY <1>1, <1>2, <1>3, <1>4, <1>5, <1>8
<1> QED
  BY <1>6, <1>7, <1>8

LEMMA ExportBundles ==
    ASSUME NEW L, IsRepLog(L), NEW m, NEW w
    PROVE  \E at : Bundled(at, L, Shipped(L, m, w), Export(L, m, w))
BY ConcerningPicks DEF Export, Bundled, IsRepLog

LEMMA NoHigher ==
    ASSUME NEW L, IsRepLog(L), NEW m, NEW w \in Int, EntriesOf(L, {"uphold", "equivocation"}) = {},
           NEW B, B = Export(L, m, w)
    PROVE  /\ Score(B, m, w).trade <= Score(L, m, w).trade
           /\ Score(B, m, w).attestation <= Score(L, m, w).attestation
<1>1. PICK at, people : people = Shipped(L, m, w) /\ Bundled(at, L, people, B)
  BY ExportBundles
<1>2. PICK p, q : p = Len(L) + 1 /\ q = Len(B) + 1
  OBVIOUS
<1>3. q \in 1 .. Len(B) + 1 /\ at[q] = p
  BY <1>1, <1>2, InOrder
<1>4. PICK a, b : a = ScoreRawBefore(B, m, w, q) /\ b = ScoreRawBefore(L, m, w, p)
  OBVIOUS
<1>5. /\ a.trade \in Nat /\ a.attestation \in Nat /\ b.trade \in Nat /\ b.attestation \in Nat
      /\ a.trade <= b.trade /\ a.attestation <= b.attestation
  BY <1>1, <1>3, <1>4, RawIn
<1>6. \A n \in Edges(B) : at[n] \in Edges(L)
  BY <1>1, EdgesIn
<1>7. Anchors(B, Edges(B), q, w) \subseteq Anchors(L, Edges(L), p, w)
  BY <1>1, <1>3, <1>6, AnchorsThrough
<1>8. m \in AnchoredSet(B, w) => m \in AnchoredSet(L, w)
  BY <1>2, <1>7, AnchoredSetIs
<1> QED
  BY <1>2, <1>4, <1>5, <1>8, ProfileMore

LEMMA NoLower ==
    ASSUME NEW L, IsRepLog(L), NEW m \in People, NEW w \in Int, Unrevoked(L, Shipped(L, m, w)),
           NEW B, B = Export(L, m, w)
    PROVE  /\ Score(L, m, w).trade <= Score(B, m, w).trade
           /\ Score(L, m, w).attestation <= Score(B, m, w).attestation
<1>1. PICK at, people : people = Shipped(L, m, w) /\ Bundled(at, L, people, B)
  BY ExportBundles
<1>2. PICK p, q : p = Len(L) + 1 /\ q = Len(B) + 1
  OBVIOUS
<1>3. q \in 1 .. Len(B) + 1 /\ at[q] = p /\ m \in people
  BY <1>1, <1>2, InOrder DEF Shipped
<1>4. PICK a, b : a = ScoreRawBefore(L, m, w, p) /\ b = ScoreRawBefore(B, m, w, q)
  OBVIOUS
<1>5. /\ a.trade \in Nat /\ a.attestation \in Nat /\ b.trade \in Nat /\ b.attestation \in Nat
      /\ a.trade <= b.trade /\ a.attestation <= b.attestation
  BY <1>1, <1>3, <1>4, RawAll
<1>6. m \in AnchoredSet(L, w) => m \in AnchoredSet(B, w)
  BY <1>1, MemberAnchored
<1> QED
  BY <1>2, <1>4, <1>5, <1>6, ProfileMore

LEMMA BundleHolds == RepInv => BundleReproduces
<1> SUFFICES ASSUME RepInv, NEW m \in People
             PROVE  LET mine   == Score(repLog, m, week)
                        theirs == Verified(m)
                    IN  /\ EntriesOf(repLog, {"uphold", "equivocation"}) = {} =>
                              theirs.trade <= mine.trade /\ theirs.attestation <= mine.attestation
                        /\ (\A i \in EntriesOf(repLog, {"revoke"}) :
                               repLog[i].who \notin Shipped(repLog, m, week)) =>
                              theirs.trade >= mine.trade /\ theirs.attestation >= mine.attestation
  BY DEF BundleReproduces
<1>1. PICK L, w, B : L = repLog /\ w = week /\ B = Export(L, m, w)
  OBVIOUS
<1>2. IsRepLog(L) /\ w \in Int
  BY <1>1, ReputationAssumption DEF RepInv
<1>3. Verified(m) = Score(B, m, w)
  BY <1>1 DEF Verified
<1>4. EntriesOf(L, {"uphold", "equivocation"}) = {} =>
        /\ Score(B, m, w).trade <= Score(L, m, w).trade
        /\ Score(B, m, w).attestation <= Score(L, m, w).attestation
  BY <1>1, <1>2, NoHigher
<1>5. Unrevoked(L, Shipped(L, m, w)) =>
        /\ Score(L, m, w).trade <= Score(B, m, w).trade
        /\ Score(L, m, w).attestation <= Score(B, m, w).attestation
  BY <1>1, <1>2, NoLower
<1> QED
  BY <1>1, <1>3, <1>4, <1>5 DEF Unrevoked

\* BundleReproduces (export_history and verify_history in portability.rs): whatever the
\* log, where nobody was penalised a bundle never raises its member's profile, and where
\* nobody it carries was revoked it never lowers it.
THEOREM BundleTheorem == ReputationSpec => []BundleReproduces
<1>1. RepInv => BundleReproduces
  BY BundleHolds
<1> QED
  BY <1>1, RepInit, RepNext, PTL DEF ReputationSpec

=============================================================================
