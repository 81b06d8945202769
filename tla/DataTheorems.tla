----------------------------- MODULE DataTheorems -----------------------------
(***************************************************************************)
(* Facts about the data the models are built from: least and greatest      *)
(* numbers, the elements of sequences, and what SumTo computes.  Induction *)
(* is by a least counterexample.                                           *)
(***************************************************************************)
EXTENDS Sums, Sequences, FiniteSetsExt, SequencesExt, NaturalsInduction,
        WellFoundedInduction, TLAPS

\* Every non-empty set of naturals has a least element.
LEMMA LeastNatural ==
    ASSUME NEW T, T \subseteq Nat, T # {}
    PROVE  \E x \in T : \A y \in T : x <= y
<1>1. PICK x \in T : \A y \in T : ~ (<<y, x>> \in OpToRel(<, Nat))
  BY NatLessThanWellFounded, WFMin
<1>2. \A y, z \in Nat : y < z => <<y, z>> \in OpToRel(<, Nat)
  BY SMT DEF OpToRel
<1>3. \A y \in T : ~ (y < x)
  BY <1>1, <1>2
<1> QED
  BY <1>3

LEMMA MinOfThree ==
    ASSUME NEW a \in Int, NEW b \in Int, NEW c \in Int
    PROVE  Min({a, b, c}) \in {a, b, c} /\ \A x \in {a, b, c} : Min({a, b, c}) <= x
<1>1. \E x \in {a, b, c} : \A y \in {a, b, c} : x <= y
  <2>1. CASE a <= b /\ a <= c
    BY <2>1
  <2>2. CASE b <= a /\ b <= c
    BY <2>2
  <2>3. CASE c <= a /\ c <= b
    BY <2>3
  <2> QED
    BY <2>1, <2>2, <2>3
<1> QED
  BY <1>1 DEF Min

LEMMA MaxOfRange ==
    ASSUME NEW a \in Int, NEW b \in Int, NEW S, S \subseteq a .. b, S # {}
    PROVE  Max(S) \in S /\ \A x \in S : x <= Max(S)
<1> DEFINE T == {b - x : x \in S}
<1>1. T \subseteq Nat /\ T # {}
  <2>1. \A x \in S : b - x \in Nat
    OBVIOUS
  <2>2. PICK y : y \in S
    OBVIOUS
  <2>3. b - y \in T
    BY <2>2
  <2> QED
    BY <2>1, <2>3
<1>2. PICK t \in T : \A u \in T : t <= u
  <2> HIDE DEF T
  <2> QED
    BY <1>1, LeastNatural
<1>3. PICK x \in S : t = b - x
  OBVIOUS
<1>4. \A y \in S : b - y \in T
  OBVIOUS
<1>5. \A y \in S : x >= y
  <2> SUFFICES ASSUME NEW y \in S PROVE x >= y
    OBVIOUS
  <2>1. t <= b - y
    BY <1>2, <1>4
  <2>2. x \in Int /\ y \in Int
    OBVIOUS
  <2> QED
    BY <1>3, <2>1, <2>2
<1>6. Max(S) \in S /\ \A y \in S : Max(S) >= y
  BY <1>5 DEF Max
<1> QED
  BY <1>6

\* The least of a set of naturals.
LEMMA MinOfNaturals ==
    ASSUME NEW S, S \subseteq Nat, S # {}
    PROVE  Min(S) \in S /\ \A x \in S : Min(S) <= x
<1>1. \E x \in S : \A y \in S : x <= y
  BY LeastNatural
<1> QED
  BY <1>1 DEF Min

LEMMA ToSetAppend ==
    ASSUME NEW S, NEW s \in Seq(S), NEW e \in S
    PROVE  ToSet(Append(s, e)) = ToSet(s) \cup {e}
<1>1. Len(Append(s, e)) = Len(s) + 1 /\ Append(s, e)[Len(s) + 1] = e
  OBVIOUS
<1>2. \A i \in 1 .. Len(s) : Append(s, e)[i] = s[i]
  OBVIOUS
<1>3. DOMAIN s = 1 .. Len(s) /\ DOMAIN Append(s, e) = 1 .. Len(s) + 1
  OBVIOUS
<1> QED
  BY <1>1, <1>2, <1>3 DEF ToSet

\* s is the table of partial sums of f up to n.
IsTable(s, f, n) ==
    /\ s \in [0..n -> Int]
    /\ s[0] = 0
    /\ \A i \in 1..n : s[i] = s[i - 1] + f[i]

\* Such a table exists.
LEMMA TableExists ==
    ASSUME NEW n \in Nat, NEW f, \A i \in 1..n : f[i] \in Int
    PROVE  \E s : IsTable(s, f, n)
<1> DEFINE Bad == {k \in 0..n : ~ \E s : IsTable(s, f, k)}
<1>1. SUFFICES ASSUME Bad # {} PROVE FALSE
  OBVIOUS
<1>0. Bad \subseteq Nat
  OBVIOUS
<1> HIDE DEF Bad
<1>2. PICK k \in Bad : \A j \in Bad : k <= j
  BY <1>0, <1>1, LeastNatural
<1> USE DEF Bad
<1>3. CASE k = 0
  <2>1. IsTable([i \in 0..0 |-> 0], f, 0)
    BY DEF IsTable
  <2> QED
    BY <2>1, <1>2, <1>3
<1>4. CASE k # 0
  <2>1. k - 1 \in 0..n /\ k - 1 \notin Bad
    BY <1>2, <1>4
  <2>2. PICK s : IsTable(s, f, k - 1)
    BY <2>1
  <2> DEFINE t == [i \in 0..k |-> IF i < k THEN s[i] ELSE s[k - 1] + f[k]]
  <2>3. IsTable(t, f, k)
    BY <2>2, <1>2, <1>4 DEF IsTable
  <2> QED
    BY <2>3, <1>2
<1> QED
  BY <1>3, <1>4

\* SumTo unfolds to the last entry of such a table.
LEMMA SumToTable ==
    ASSUME NEW n \in Nat, NEW f, \A i \in 1..n : f[i] \in Int
    PROVE  \E s : IsTable(s, f, n) /\ SumTo(f, n) = s[n]
<1> DEFINE Eq(s) == s = [i \in 0..n |-> IF i = 0 THEN 0 ELSE s[i - 1] + f[i]]
           s0 == CHOOSE s : Eq(s)
<1>1. SumTo(f, n) = s0[n]
  BY DEF SumTo
<1>2. PICK s1 : IsTable(s1, f, n)
  BY TableExists
<1>3. Eq(s1)
  BY <1>2 DEF IsTable
<1>4. Eq(s0)
  BY <1>3
<1> HIDE DEF s0
<1>5. s0[0] = 0 /\ (\A i \in 1..n : s0[i] = s0[i - 1] + f[i]) /\ DOMAIN s0 = 0..n
  BY <1>4
<1>6. \A k \in 0..n : s0[k] = s1[k]
  <2> DEFINE Bad == {k \in 0..n : s0[k] # s1[k]}
  <2>1. SUFFICES ASSUME Bad # {} PROVE FALSE
    OBVIOUS
  <2>0. Bad \subseteq Nat
    OBVIOUS
  <2> HIDE DEF Bad
  <2>2. PICK k \in Bad : \A j \in Bad : k <= j
    BY <2>0, <2>1, LeastNatural
  <2> USE DEF Bad
  <2>3. k # 0 /\ k - 1 \in 0..n /\ k - 1 \notin Bad
    BY <2>2, <1>5, <1>2 DEF IsTable
  <2> QED
    BY <2>3, <2>2, <1>5, <1>2 DEF IsTable
<1>7. s0 = s1
  BY <1>6, <1>4, <1>2 DEF IsTable
<1> QED
  BY <1>7, <1>1, <1>2

\* The empty sum.
THEOREM SumToZero == \A f : SumTo(f, 0) = 0
<1>1. ASSUME NEW f PROVE SumTo(f, 0) = 0
  <2>1. PICK s : IsTable(s, f, 0) /\ SumTo(f, 0) = s[0]
    BY SumToTable
  <2> QED
    BY <2>1 DEF IsTable
<1> QED
  BY <1>1

\* A sum of integers is an integer.
THEOREM SumToInt ==
    ASSUME NEW n \in Nat, NEW f, \A i \in 1..n : f[i] \in Int
    PROVE  SumTo(f, n) \in Int
<1>1. PICK s : IsTable(s, f, n) /\ SumTo(f, n) = s[n]
  BY SumToTable
<1> QED
  BY <1>1 DEF IsTable

\* Terms that are no larger, position by position, have no larger a sum.
THEOREM SumToMonotone ==
    ASSUME NEW n \in Nat, NEW f, NEW g,
           \A i \in 1..n : f[i] \in Int /\ g[i] \in Int /\ f[i] <= g[i]
    PROVE  SumTo(f, n) <= SumTo(g, n)
<1>1. PICK s : IsTable(s, f, n) /\ SumTo(f, n) = s[n]
  BY SumToTable
<1>2. PICK t : IsTable(t, g, n) /\ SumTo(g, n) = t[n]
  BY SumToTable
<1> DEFINE Bad == {k \in 0..n : ~ (s[k] <= t[k])}
<1>3. SUFFICES ASSUME Bad # {} PROVE FALSE
  BY <1>1, <1>2
<1>4. Bad \subseteq Nat
  OBVIOUS
<1> HIDE DEF Bad
<1>5. PICK k \in Bad : \A j \in Bad : k <= j
  BY <1>3, <1>4, LeastNatural
<1> USE DEF Bad
<1>6. k \in 1..n /\ k - 1 \in 0..n /\ k - 1 \notin Bad
  BY <1>5, <1>1, <1>2 DEF IsTable
<1>7. s[k] = s[k - 1] + f[k] /\ t[k] = t[k - 1] + g[k]
  BY <1>6, <1>1, <1>2 DEF IsTable
<1>8. s[k] \in Int /\ s[k - 1] \in Int /\ t[k] \in Int /\ t[k - 1] \in Int
  BY <1>6, <1>1, <1>2 DEF IsTable
<1> QED
  BY <1>5, <1>6, <1>7, <1>8

\* Two sums over equal terms are equal.
THEOREM SumToEqual ==
    ASSUME NEW n \in Nat, NEW f, NEW g,
           \A i \in 1..n : f[i] \in Int /\ g[i] = f[i]
    PROVE  SumTo(g, n) = SumTo(f, n)
<1>1. SumTo(f, n) <= SumTo(g, n) /\ SumTo(g, n) <= SumTo(f, n)
  BY SumToMonotone
<1>2. SumTo(f, n) \in Int /\ SumTo(g, n) \in Int
  BY SumToInt
<1> QED
  BY <1>1, <1>2

\* One more term.
THEOREM SumToAppend ==
    ASSUME NEW n \in Nat, NEW f, NEW g, g[n + 1] \in Int,
           \A i \in 1..n : f[i] \in Int /\ g[i] = f[i]
    PROVE  SumTo(g, n + 1) = SumTo(f, n) + g[n + 1]
<1>1. \A i \in 1..(n + 1) : g[i] \in Int
  OBVIOUS
<1>2. PICK s : IsTable(s, g, n + 1) /\ SumTo(g, n + 1) = s[n + 1]
  BY <1>1, SumToTable
<1>3. s[n + 1] = s[n] + g[n + 1]
  BY <1>2 DEF IsTable
<1>4. PICK t : IsTable(t, g, n) /\ SumTo(g, n) = t[n]
  BY SumToTable
<1> DEFINE Bad == {k \in 0..n : s[k] # t[k]}
<1>5. ASSUME Bad # {} PROVE FALSE
  <2>1. Bad \subseteq Nat
    OBVIOUS
  <2> HIDE DEF Bad
  <2>2. PICK k \in Bad : \A j \in Bad : k <= j
    BY <1>5, <2>1, LeastNatural
  <2> USE DEF Bad
  <2>3. k \in 1..n /\ k - 1 \in 0..n /\ k - 1 \notin Bad
    BY <2>2, <1>2, <1>4 DEF IsTable
  <2> QED
    BY <2>3, <2>2, <1>2, <1>4 DEF IsTable
<1>6. s[n] = SumTo(g, n)
  BY <1>4, <1>5
<1>7. SumTo(g, n) = SumTo(f, n)
  BY SumToEqual
<1> QED
  BY <1>2, <1>3, <1>6, <1>7

\* One term changed.
THEOREM SumToUpdate ==
    ASSUME NEW n \in Nat, NEW f, NEW g, NEW k \in 1..n,
           f[k] \in Int, g[k] \in Int,
           \A i \in 1..n : i # k => f[i] \in Int /\ g[i] = f[i]
    PROVE  SumTo(g, n) = SumTo(f, n) + g[k] - f[k]
<1>1. PICK s : IsTable(s, f, n) /\ SumTo(f, n) = s[n]
  BY SumToTable
<1>2. PICK t : IsTable(t, g, n) /\ SumTo(g, n) = t[n]
  BY SumToTable
<1> DEFINE Bad == {j \in 0..n : t[j] # s[j] + (IF j >= k THEN g[k] - f[k] ELSE 0)}
<1>3. ASSUME Bad # {} PROVE FALSE
  <2>1. Bad \subseteq Nat
    OBVIOUS
  <2> HIDE DEF Bad
  <2>2. PICK j \in Bad : \A i \in Bad : j <= i
    BY <1>3, <2>1, LeastNatural
  <2> USE DEF Bad
  <2>a. s[0] = 0 /\ t[0] = 0
    BY <1>1, <1>2 DEF IsTable
  <2>b. j # 0
    BY <2>a, <2>2
  <2>3. j \in 1..n /\ j - 1 \in 0..n /\ j - 1 \notin Bad
    BY <2>b, <2>2
  <2>4. t[j] = t[j - 1] + g[j] /\ s[j] = s[j - 1] + f[j]
    BY <2>3, <1>1, <1>2 DEF IsTable
  <2>5. s[j] \in Int /\ s[j - 1] \in Int /\ t[j] \in Int /\ t[j - 1] \in Int
    BY <2>3, <1>1, <1>2 DEF IsTable
  <2>6. CASE j = k
    BY <2>2, <2>3, <2>4, <2>5, <2>6
  <2>7. CASE j # k
    BY <2>2, <2>3, <2>4, <2>5, <2>7
  <2> QED
    BY <2>6, <2>7
<1>4. t[n] = s[n] + (g[k] - f[k])
  BY <1>3
<1>5. s[n] \in Int /\ t[n] \in Int
  BY <1>1, <1>2 DEF IsTable
<1> QED
  BY <1>1, <1>2, <1>4, <1>5

\* The sum of a sequence that is put behind another is added to the other's.
THEOREM SumToConcat ==
    ASSUME NEW s \in Seq(Int), NEW t \in Seq(Int)
    PROVE  SumTo(s \o t, Len(s \o t)) = SumTo(s, Len(s)) + SumTo(t, Len(t))
<1> DEFINE f == s \o t
           m == Len(s)
<1>1. /\ m \in Nat /\ Len(t) \in Nat /\ f \in Seq(Int) /\ Len(f) = m + Len(t)
      /\ \A i \in 1 .. m : f[i] = s[i]
      /\ \A i \in 1 .. Len(t) : f[m + i] = t[i]
  OBVIOUS
<1>2. /\ \A i \in 1 .. m : s[i] \in Int
      /\ \A i \in 1 .. Len(t) : t[i] \in Int
      /\ \A i \in 1 .. Len(f) : f[i] \in Int
  <2>1. \A i \in 1 .. Len(f) : f[i] \in Int
    BY <1>1
  <2> QED
    BY <2>1
<1> HIDE DEF f, m
<1> DEFINE Bad == {k \in 0 .. Len(t) : SumTo(f, m + k) # SumTo(s, m) + SumTo(t, k)}
<1>3. ASSUME Bad # {} PROVE FALSE
  <2>1. Bad \subseteq Nat
    OBVIOUS
  <2>2. PICK k \in Bad : \A j \in Bad : k <= j
    <3> HIDE DEF Bad
    <3> QED
      BY <1>3, <2>1, LeastNatural
  <2>3. k \in 0 .. Len(t) /\ SumTo(f, m + k) # SumTo(s, m) + SumTo(t, k)
    OBVIOUS
  <2>4. CASE k = 0
    <3>1. SumTo(f, m) = SumTo(s, m)
      BY <1>1, <1>2, SumToEqual
    <3>2. SumTo(s, m) \in Int
      BY <1>1, <1>2, SumToInt
    <3> QED
      BY <1>1, <2>3, <2>4, <3>1, <3>2, SumToZero
  <2>5. CASE k # 0
    <3>1. PICK j \in Nat : k = j + 1
      <4>1. k - 1 \in Nat /\ k = (k - 1) + 1
        BY <1>1, <2>3, <2>5
      <4> QED
        BY <4>1
    <3>2. j \in 0 .. Len(t) /\ m + j \in Nat /\ ~(k <= j)
      BY <1>1, <2>3, <3>1
    <3>3. j \notin Bad
      BY <2>2, <3>2
    <3>4. SumTo(f, m + j) = SumTo(s, m) + SumTo(t, j)
      BY <3>2, <3>3
    <3>5. SumTo(t, j + 1) = SumTo(t, j) + t[j + 1]
      <4>1. j + 1 \in 1 .. Len(t) /\ \A i \in 1 .. j : i \in 1 .. Len(t)
        BY <1>1, <2>3, <3>1
      <4> QED
        BY <1>2, <4>1, SumToAppend
    <3>6. SumTo(f, (m + j) + 1) = SumTo(f, m + j) + f[(m + j) + 1]
      <4>1. (m + j) + 1 \in 1 .. Len(f) /\ \A i \in 1 .. (m + j) : i \in 1 .. Len(f)
        BY SMTT(30), <1>1, <2>3, <3>1
      <4> QED
        BY <1>2, <3>2, <4>1, SumToAppend
    <3>7. f[(m + j) + 1] = t[j + 1] /\ t[j + 1] \in Int
      <4>1. j + 1 \in 1 .. Len(t) /\ m + (j + 1) = (m + j) + 1
        BY <1>1, <2>3, <3>1
      <4> QED
        BY <1>1, <1>2, <4>1
    <3>8. SumTo(s, m) \in Int
      BY <1>1, <1>2, SumToInt
    <3>9. SumTo(t, j) \in Int
      <4>1. \A i \in 1 .. j : t[i] \in Int
        BY <1>1, <1>2, <2>3, <3>1
      <4> QED
        BY <4>1, SumToInt
    <3>10. m + k = (m + j) + 1
      BY <1>1, <3>1
    <3> QED
      BY <2>3, <3>1, <3>4, <3>5, <3>6, <3>7, <3>8, <3>9, <3>10
  <2> QED
    BY <2>4, <2>5
<1>4. Len(t) \notin Bad
  BY <1>3
<1>5. SumTo(f, m + Len(t)) = SumTo(s, m) + SumTo(t, Len(t))
  BY <1>1, <1>4
<1> QED
  BY <1>1, <1>5 DEF f, m

LEMMA MaxOfTwo ==
    ASSUME NEW a \in Int, NEW b \in Int
    PROVE  Max({a, b}) \in {a, b} /\ \A x \in {a, b} : x <= Max({a, b})
<1>1. \E x \in {a, b} : \A y \in {a, b} : x >= y
  <2>1. CASE a <= b
    BY <2>1
  <2>2. CASE b <= a
    BY <2>2
  <2> QED
    BY <2>1, <2>2
<1>2. /\ Max({a, b}) \in {a, b} /\ \A x \in {a, b} : Max({a, b}) >= x
  BY <1>1 DEF Max
<1> QED
  BY <1>2

LEMMA MinOfTwo ==
    ASSUME NEW a \in Int, NEW b \in Int
    PROVE  Min({a, b}) \in {a, b} /\ \A x \in {a, b} : Min({a, b}) <= x
<1>1. \E x \in {a, b} : \A y \in {a, b} : x <= y
  <2>1. CASE a <= b
    BY <2>1
  <2>2. CASE b <= a
    BY <2>2
  <2> QED
    BY <2>1, <2>2
<1> QED
  BY <1>1 DEF Min

\* A sum of zeros.
LEMMA SumOfZeros ==
    ASSUME NEW n \in Nat, NEW f, \A i \in 1 .. n : f[i] = 0
    PROVE  SumTo(f, n) = 0
<1>1. PICK s : IsTable(s, f, n) /\ SumTo(f, n) = s[n]
  BY SumToTable
<1> DEFINE Bad == {k \in 0 .. n : s[k] # 0}
<1>2. ASSUME Bad # {} PROVE FALSE
  <2>1. Bad \subseteq Nat
    OBVIOUS
  <2>2. PICK k \in Bad : \A j \in Bad : k <= j
    <3> HIDE DEF Bad
    <3> QED
      BY <1>2, <2>1, LeastNatural
  <2>3. k \in 1 .. n /\ k - 1 \in 0 .. n /\ k - 1 \notin Bad
    BY <1>1, <2>2 DEF IsTable
  <2>4. s[k] = s[k - 1] + f[k] /\ s[k - 1] = 0 /\ f[k] = 0
    BY <1>1, <2>3 DEF IsTable
  <2> QED
    BY <2>2, <2>4
<1> QED
  BY <1>1, <1>2

\* Terms that are each a different term of another sum add up to no more.
THEOREM SumOfSome ==
    ASSUME NEW n \in Nat, NEW m \in Nat, NEW f, NEW g, NEW at \in [1 .. n -> 0 .. m],
           \A j \in 1 .. m : g[j] \in Nat,
           \A i \in 1 .. n : f[i] = IF at[i] = 0 THEN 0 ELSE g[at[i]],
           \A i, j \in 1 .. n : i # j => at[i] = 0 \/ at[i] # at[j]
    PROVE  SumTo(f, n) <= SumTo(g, m)
<1> DEFINE G(k) == [j \in 1 .. m |-> IF \E i \in 1 .. k : at[i] = j THEN g[j] ELSE 0]
           Bad == {k \in 0 .. n : SumTo(f, k) # SumTo(G(k), m)}
<1>0. \A i \in 1 .. n : f[i] \in Int
  <2>1. \A i \in 1 .. n : at[i] \in 0 .. m
    OBVIOUS
  <2>2. \A i \in 1 .. n : at[i] # 0 => at[i] \in 1 .. m
    BY <2>1
  <2> QED
    BY <2>2
<1>1. \A k : \A j \in 1 .. m : G(k)[j] \in Int /\ G(k)[j] <= g[j]
  OBVIOUS
<1>2. ASSUME Bad # {} PROVE FALSE
  <2>1. Bad \subseteq Nat
    OBVIOUS
  <2>2. PICK k \in Bad : \A j \in Bad : k <= j
    <3> HIDE DEF Bad
    <3> QED
      BY <1>2, <2>1, LeastNatural
  <2>3. k \in 0 .. n /\ SumTo(f, k) # SumTo(G(k), m)
    OBVIOUS
  <2>4. k # 0
    <3>1. ASSUME k = 0 PROVE FALSE
      <4>1. \A j \in 1 .. m : G(0)[j] = 0
        OBVIOUS
      <4> HIDE DEF G
      <4>2. SumTo(G(0), m) = 0
        BY <4>1, SumOfZeros
      <4> QED
        BY <2>3, <3>1, <4>2, SumToZero
    <3> QED
      BY <3>1
  <2>5. PICK h \in Nat : k = h + 1
    <3>1. k - 1 \in Nat /\ k = (k - 1) + 1
      BY <2>3, <2>4
    <3> QED
      BY <3>1
  <2>6. h \in 0 .. n /\ h \notin Bad /\ k \in 1 .. n
    <3> HIDE DEF Bad
    <3>1. h \in 0 .. n /\ k \in 1 .. n /\ ~ (k <= h)
      BY <2>3, <2>5
    <3> QED
      BY <2>2, <3>1
  <2>7. SumTo(f, h) = SumTo(G(h), m)
    BY <2>6
  <2>8. SumTo(f, k) = SumTo(f, h) + f[k]
    <3>1. f[h + 1] \in Int /\ \A i \in 1 .. h : f[i] \in Int
      BY <1>0, <2>3, <2>5
    <3> QED
      BY <2>5, <3>1, SumToAppend
  <2>9. SumTo(f, h) \in Int /\ SumTo(G(h), m) \in Int
    <3>1. \A i \in 1 .. h : f[i] \in Int
      BY <1>0, <2>3, <2>5
    <3>2. \A j \in 1 .. m : G(h)[j] \in Int
      BY <1>1
    <3> HIDE DEF G
    <3> QED
      BY <3>1, <3>2, SumToInt
  <2>10. \A i : i \in 1 .. k <=> i \in 1 .. h \/ i = k
    BY <2>3, <2>5
  <2>11. CASE at[k] = 0
    <3>1. \A j \in 1 .. m : G(k)[j] = G(h)[j] /\ G(h)[j] \in Int
      <4>1. \A j \in 1 .. m : (\E i \in 1 .. k : at[i] = j) <=> (\E i \in 1 .. h : at[i] = j)
        <5>1. ASSUME NEW j \in 1 .. m, NEW i \in 1 .. k, at[i] = j
              PROVE  i \in 1 .. h
          <6>1. i # k
            BY <2>11, <5>1
          <6> QED
            BY <2>10, <6>1
        <5> QED
          BY <2>10, <5>1
      <4> QED
        BY <1>1, <4>1
    <3> HIDE DEF G
    <3>2. SumTo(G(k), m) = SumTo(G(h), m)
      BY <3>1, SumToEqual
    <3>3. f[k] = 0
      BY <2>6, <2>11
    <3> QED
      BY <2>3, <2>7, <2>8, <2>9, <3>2, <3>3
  <2>12. CASE at[k] # 0
    <3> DEFINE a == at[k]
    <3>1. a \in 1 .. m
      <4>1. a \in 0 .. m
        BY <2>6
      <4> QED
        BY <2>12, <4>1
    <3>2. f[k] = g[a] /\ g[a] \in Nat
      BY <2>6, <2>12, <3>1
    <3>3. \A i \in 1 .. h : at[i] # a
      <4>1. \A i \in 1 .. h : i \in 1 .. n /\ i # k
        BY <2>3, <2>5
      <4> QED
        BY <2>6, <2>12, <4>1
    <3>4. G(h)[a] = 0 /\ G(k)[a] = g[a]
      BY <2>10, <3>1, <3>3
    <3>5. \A j \in 1 .. m : j # a => G(k)[j] = G(h)[j] /\ G(h)[j] \in Int
      BY <1>1, <2>10
    <3> HIDE DEF G, a
    <3>6. SumTo(G(k), m) = SumTo(G(h), m) + G(k)[a] - G(h)[a]
      <4>1. G(k)[a] \in Int /\ G(h)[a] \in Int
        BY <3>2, <3>4
      <4>2. PICK u, v : u = G(k) /\ v = G(h)
        OBVIOUS
      <4>3. /\ u[a] \in Int /\ v[a] \in Int
            /\ \A j \in 1 .. m : j # a => v[j] \in Int /\ u[j] = v[j]
        BY <3>5, <4>1, <4>2
      <4>4. SumTo(u, m) = SumTo(v, m) + u[a] - v[a]
        BY SMTT(30), <3>1, <4>3, SumToUpdate
      <4> QED
        BY <4>2, <4>4
    <3> QED
      BY <2>3, <2>7, <2>8, <2>9, <3>2, <3>4, <3>6
  <2> QED
    BY <2>11, <2>12
<1>3. SumTo(f, n) = SumTo(G(n), m)
  BY SMTT(30), <1>2
<1>4. SumTo(G(n), m) <= SumTo(g, m)
  <2>1. \A j \in 1 .. m : G(n)[j] \in Int /\ g[j] \in Int /\ G(n)[j] <= g[j]
    BY <1>1
  <2> HIDE DEF G
  <2> QED
    BY <2>1, SumToMonotone
<1> QED
  BY <1>3, <1>4
=============================================================================
