----------------------------- MODULE JuryProofs -----------------------------
(***************************************************************************)
(* The juries: how a panel derived at one instant relates to the panels    *)
(* derived at every other (Jury), what that makes of an admitted ruling    *)
(* and of an escalation (Dispute), and of a station's terminal ruling on   *)
(* an equivocation (Equivocation).                                         *)
(***************************************************************************)
EXTENDS Dispute, Equivocation, DataTheorems, FiniteSetTheorems

-----------------------------------------------------------------------------
(* The k-th of a set of positions.                                         *)

LEMMA RankFinite ==
    ASSUME NEW n \in Nat, NEW S, S \subseteq 1 .. n, NEW m
    PROVE  LET R == {x \in S : x <= m}
           IN  IsFiniteSet(R) /\ Cardinality(R) \in Nat
<1> DEFINE R == {x \in S : x <= m}
<1>1. IsFiniteSet(1 .. n)
  BY FS_Interval
<1>2. R \in SUBSET (1 .. n)
  OBVIOUS
<1>3. IsFiniteSet(R)
  BY <1>1, <1>2, FS_Subset
<1> QED
  BY <1>3, FS_CardinalityType

LEMMA NthOrder ==
    ASSUME NEW n \in Nat, NEW S, S \subseteq 1 .. n, NEW j \in Int, NEW k \in Int,
           NEW a \in Nth(S, j), NEW b \in Nth(S, k), j < k
    PROVE  a < b
<1> DEFINE A == {x \in S : x <= a}
           B == {x \in S : x <= b}
<1>1. Cardinality(A) = j /\ Cardinality(B) = k /\ a \in S /\ b \in S
  BY DEF Nth
<1>2. a \in Nat /\ b \in Nat
  BY <1>1
<1>3. ASSUME b <= a PROVE FALSE
  <2>1. IsFiniteSet(A)
    BY RankFinite
  <2>2. B \in SUBSET A
    <3>1. \A x \in S : x \in Nat
      OBVIOUS
    <3>2. \A x \in S : x <= b => x <= a
      BY <1>2, <1>3, <3>1
    <3> QED
      BY <3>2
  <2> HIDE DEF A, B
  <2>3. Cardinality(B) <= Cardinality(A)
    BY <2>1, <2>2, FS_Subset
  <2> QED
    BY <1>1, <2>3
<1> QED
  BY <1>2, <1>3

LEMMA NthUnique ==
    ASSUME NEW n \in Nat, NEW S, S \subseteq 1 .. n, NEW k,
           NEW a \in Nth(S, k), NEW b \in Nth(S, k)
    PROVE  a = b
<1>1. a \in S /\ b \in S /\ a \in Nat /\ b \in Nat
  BY DEF Nth
<1>2. ASSUME NEW c \in Nth(S, k), NEW d \in Nth(S, k), c \in Nat, d \in Nat, c < d
      PROVE  FALSE
  <2> DEFINE A == {x \in S : x <= c}
             B == {x \in S : x <= d}
  <2>1. Cardinality(A) = k /\ Cardinality(B) = k /\ d \in S
    BY DEF Nth
  <2>2. IsFiniteSet(B)
    BY RankFinite
  <2>3. A \in SUBSET B /\ d \in B /\ d \notin A
    <3>1. \A x \in S : x \in Nat
      OBVIOUS
    <3>2. \A x \in S : x <= c => x <= d
      BY <1>2, <3>1
    <3>3. d <= d /\ ~ (d <= c)
      BY <1>2
    <3>4. A \in SUBSET B
      BY <3>2
    <3>5. d \in B /\ d \notin A
      BY <2>1, <3>3
    <3> QED
      BY <3>4, <3>5
  <2> HIDE DEF A, B
  <2>4. A = B
    BY <2>1, <2>2, <2>3, FS_Subset
  <2> QED
    BY <2>3, <2>4
<1> QED
  BY <1>1, <1>2

\* An initial part of a set has the same k-th element, if it has one.
LEMMA NthInitial ==
    ASSUME NEW n \in Nat, NEW S, S \subseteq 1 .. n, NEW T, T \subseteq S, NEW k,
           \A x \in S \ T, y \in T : y < x
    PROVE  Nth(T, k) = Nth(S, k) \cap T
<1>1. ASSUME NEW a \in T
      PROVE  {x \in T : x <= a} = {x \in S : x <= a}
  <2>1. \A x \in S : x \in Nat
    OBVIOUS
  <2>2. \A x \in S \ T : ~ (x <= a)
    BY <2>1
  <2> QED
    BY <2>2
<1> QED
  BY <1>1 DEF Nth

-----------------------------------------------------------------------------
(* Seating.  The seat of the n-th candidate, from those before it.         *)

Replaces(draw, rulings, now, when, n) ==
    {at + JurorResponse : at \in UNION {when[m] :
        m \in Nth(Missed(draw, rulings, now, when, n), n - PanelSize)}}

IsSeating(when, draw, rulings, opened, now, n) ==
    when = [i \in 0 .. n |-> IF i <= PanelSize THEN {opened}
                             ELSE Replaces(draw, rulings, now, when, i)]

\* It looks no further back than that.
LEMMA ReplacesLocal ==
    ASSUME NEW draw, NEW rulings, NEW now, NEW n \in Nat, NEW v, NEW w,
           \A m \in 1 .. n - 1 : v[m] = w[m]
    PROVE  Replaces(draw, rulings, now, v, n) = Replaces(draw, rulings, now, w, n)
<1>1. Missed(draw, rulings, now, v, n) = Missed(draw, rulings, now, w, n)
  BY DEF Missed
<1>2. Nth(Missed(draw, rulings, now, w, n), n - PanelSize) \subseteq 1 .. n - 1
  BY DEF Nth, Missed
<1>3. \A at : at \in UNION {v[m] : m \in Nth(Missed(draw, rulings, now, w, n), n - PanelSize)}
         <=> at \in UNION {w[m] : m \in Nth(Missed(draw, rulings, now, w, n), n - PanelSize)}
  BY <1>2
<1> QED
  BY <1>1, <1>3 DEF Replaces

LEMMA SeatingExists ==
    ASSUME NEW draw, NEW rulings, NEW opened, NEW now, NEW n \in Nat
    PROVE  \E w : IsSeating(w, draw, rulings, opened, now, n)
<1> DEFINE Ok(w, k) == IsSeating(w, draw, rulings, opened, now, k)
           Bad == {k \in 0 .. n : ~ \E w : Ok(w, k)}
<1>1. SUFFICES ASSUME Bad # {} PROVE FALSE
  OBVIOUS
<1>2. Bad \subseteq Nat
  OBVIOUS
<1>3. PICK k \in Bad : \A m \in Bad : k <= m
  <2> HIDE DEF Bad
  <2> QED
    BY <1>1, <1>2, LeastNatural
<1>4. k # 0
  <2>1. 0 <= PanelSize
    BY JuryAssumption
  <2>2. Ok([i \in 0 .. 0 |-> {opened}], 0)
    BY <2>1 DEF IsSeating
  <2> QED
    BY <2>2
<1>5. k - 1 \in 0 .. n /\ k - 1 \notin Bad /\ k \in Nat
  BY <1>3, <1>4
<1>6. PICK w : Ok(w, k - 1)
  BY <1>5
<1> DEFINE u == [i \in 0 .. k |-> IF i < k THEN w[i]
                                  ELSE IF k <= PanelSize THEN {opened}
                                  ELSE Replaces(draw, rulings, now, w, k)]
<1>7. \A i \in 0 .. k - 1 : w[i] = IF i <= PanelSize THEN {opened}
                                   ELSE Replaces(draw, rulings, now, w, i)
  BY <1>6 DEF IsSeating
<1>8. ASSUME NEW i \in 0 .. k
      PROVE  u[i] = IF i <= PanelSize THEN {opened} ELSE Replaces(draw, rulings, now, u, i)
  <2>1. i \in Nat /\ \A m \in 1 .. i - 1 : u[m] = w[m]
    BY <1>5
  <2>2. Replaces(draw, rulings, now, u, i) = Replaces(draw, rulings, now, w, i)
    <3> HIDE DEF u
    <3> QED
      BY <2>1, ReplacesLocal
  <2>3. CASE i = k
    BY <1>5, <2>2, <2>3
  <2>4. CASE i # k
    <3>1. i \in 0 .. k - 1 /\ i < k
      BY <1>5, <2>4
    <3>2. u[i] = w[i]
      BY <3>1
    <3> QED
      BY <1>7, <2>2, <3>1, <3>2
  <2> QED
    BY <2>3, <2>4
<1>9. Ok(u, k)
  <2>1. u = [i \in 0 .. k |-> u[i]]
    OBVIOUS
  <2> HIDE DEF u
  <2> QED
    BY <1>8, <2>1 DEF IsSeating
<1> QED
  BY <1>9

LEMMA SeatingIs ==
    ASSUME NEW draw, NEW rulings, NEW opened, NEW now, Len(draw) \in Nat
    PROVE  \A n \in 0 .. Len(draw) :
              Seating(draw, rulings, opened, now)[n] =
                  IF n <= PanelSize THEN {opened}
                  ELSE Replaces(draw, rulings, now, Seating(draw, rulings, opened, now), n)
<1> DEFINE Eq(w) == w = [n \in 0 .. Len(draw) |->
                           IF n <= PanelSize THEN {opened}
                           ELSE {at + JurorResponse : at \in UNION {w[m] :
                                    m \in Nth(Missed(draw, rulings, now, w, n), n - PanelSize)}}]
           v == CHOOSE w : Eq(w)
<1>1. Seating(draw, rulings, opened, now) = v
  BY DEF Seating
<1>2. \E w : Eq(w)
  BY SeatingExists DEF IsSeating, Replaces
<1>3. Eq(v)
  BY <1>2
<1> HIDE DEF v
<1>4. \A n \in 0 .. Len(draw) : v[n] = IF n <= PanelSize THEN {opened}
                                       ELSE Replaces(draw, rulings, now, v, n)
  BY <1>3 DEF Replaces
<1> QED
  BY <1>1, <1>4

IsSeated(w, draw, rulings, opened, now) ==
    \A n \in 1 .. Len(draw) :
        w[n] = IF n <= PanelSize THEN {opened} ELSE Replaces(draw, rulings, now, w, n)

LEMMA SeatingSeats ==
    ASSUME NEW draw, NEW rulings, NEW opened, NEW now, Len(draw) \in Nat
    PROVE  IsSeated(Seating(draw, rulings, opened, now), draw, rulings, opened, now)
<1>1. 1 .. Len(draw) \subseteq 0 .. Len(draw)
  OBVIOUS
<1> QED
  BY <1>1, SeatingIs DEF IsSeated

\* What holds of the n-th candidate: at most one instant, not before the case
\* opened, before now unless it is the opening, and in draw order.
Sound(w, opened, now, n) ==
    /\ \A t \in w[n] : t \in Nat /\ opened <= t /\ (t = opened \/ t < now)
    /\ \A s, t \in w[n] : s = t
    /\ \A l \in 1 .. n : \A s \in w[l], t \in w[n] : s <= t

\* A replacement takes the seat of the no-show whose turn it is.
LEMMA ReplacesWhom ==
    ASSUME NEW draw, NEW rulings, NEW now \in Nat, NEW w, NEW n \in Nat, NEW opened,
           \A m \in 1 .. n - 1 : Sound(w, opened, now, m),
           NEW t \in Replaces(draw, rulings, now, w, n)
    PROVE  \E m \in Nth(Missed(draw, rulings, now, w, n), n - PanelSize) : \E at \in w[m] :
              /\ m \in 1 .. n - 1 /\ at \in Nat
              /\ NoShow(Seat(draw, m, at), rulings, now)
              /\ t = at + JurorResponse /\ t < now
<1>1. PICK m \in Nth(Missed(draw, rulings, now, w, n), n - PanelSize) :
        \E at \in w[m] : t = at + JurorResponse
  BY DEF Replaces
<1>2. PICK at \in w[m] : t = at + JurorResponse
  BY <1>1
<1>3. m \in Missed(draw, rulings, now, w, n)
  BY <1>1 DEF Nth
<1>4. m \in 1 .. n - 1 /\ \E x \in w[m] : NoShow(Seat(draw, m, x), rulings, now)
  BY <1>3 DEF Missed
<1>5. NoShow(Seat(draw, m, at), rulings, now) /\ at \in Nat
  BY <1>4 DEF Sound
<1>6. now > at + JurorResponse
  BY <1>5 DEF NoShow, Seat
<1>7. t < now
  BY <1>2, <1>5, <1>6, JuryAssumption
<1> QED
  BY <1>1, <1>2, <1>4, <1>5, <1>7

\* The no-shows before l are the first of those before n.
LEMMA MissedInitial ==
    ASSUME NEW draw, NEW rulings, NEW now, NEW w, NEW n \in Nat, NEW l \in 1 .. n, NEW k
    PROVE  /\ Missed(draw, rulings, now, w, n) \subseteq 1 .. n
           /\ Nth(Missed(draw, rulings, now, w, l), k)
                \subseteq Nth(Missed(draw, rulings, now, w, n), k)
<1> DEFINE T == Missed(draw, rulings, now, w, l)
           S == Missed(draw, rulings, now, w, n)
<1>1. S \subseteq 1 .. n
  BY DEF Missed
<1>2. T \subseteq S /\ (\A x \in T : x < l) /\ (\A x \in S \ T : x >= l)
  BY DEF Missed
<1>3. T \subseteq Nat /\ S \subseteq Nat
  BY <1>1, <1>2
<1>4. \A x \in S \ T, y \in T : y < x
  <2> HIDE DEF S, T
  <2> QED
    BY <1>2, <1>3
<1>5. Nth(T, k) = Nth(S, k) \cap T
  <2> HIDE DEF S, T
  <2> QED
    BY <1>1, <1>2, <1>4, NthInitial
<1> QED
  BY <1>1, <1>5

LEMMA SeatingSound ==
    ASSUME NEW draw, NEW rulings, NEW opened \in Nat, NEW now \in Nat, NEW w,
           Len(draw) \in Nat, IsSeated(w, draw, rulings, opened, now)
    PROVE  \A n \in 1 .. Len(draw) : Sound(w, opened, now, n)
<1> DEFINE Bad == {n \in 1 .. Len(draw) : ~ Sound(w, opened, now, n)}
<1>1. SUFFICES ASSUME Bad # {} PROVE FALSE
  OBVIOUS
<1>2. Bad \subseteq Nat
  OBVIOUS
<1>3. PICK n \in Bad : \A m \in Bad : n <= m
  <2> HIDE DEF Bad
  <2> QED
    BY <1>1, <1>2, LeastNatural
<1>4. n \in 1 .. Len(draw) /\ n \in Nat /\ \A m \in 1 .. n - 1 : Sound(w, opened, now, m)
  BY <1>3
<1>5. CASE n <= PanelSize
  <2>1. \A l \in 1 .. n : w[l] = {opened}
    BY <1>4, <1>5, JuryAssumption DEF IsSeated
  <2>2. w[n] = {opened}
    BY <1>4, <2>1
  <2>3. Sound(w, opened, now, n)
    BY <2>1, <2>2 DEF Sound
  <2> QED
    BY <1>3, <2>3
<1>6. CASE n > PanelSize
  <2> DEFINE S == Missed(draw, rulings, now, w, n)
             k == n - PanelSize
  <2>0. JurorResponse \in Nat /\ PanelSize \in Nat /\ k \in Int
    BY <1>4, JuryAssumption
  <2>1. w[n] = Replaces(draw, rulings, now, w, n)
    BY <1>4, <1>6, <2>0 DEF IsSeated
  <2>2. ASSUME NEW t \in w[n]
        PROVE  \E m \in Nth(S, k) : \E at \in w[m] :
                  m \in 1 .. n - 1 /\ at \in Nat /\ t = at + JurorResponse /\ t < now
    <3>1. t \in Replaces(draw, rulings, now, w, n)
      BY <2>1
    <3>2. \E m \in Nth(Missed(draw, rulings, now, w, n), n - PanelSize) : \E at \in w[m] :
              /\ m \in 1 .. n - 1 /\ at \in Nat
              /\ NoShow(Seat(draw, m, at), rulings, now)
              /\ t = at + JurorResponse /\ t < now
      BY <1>4, <3>1, ReplacesWhom
    <3> QED
      BY <3>2
  <2>3. S \subseteq 1 .. n
    BY <1>4, MissedInitial
  <2>4. ASSUME NEW t \in w[n] PROVE t \in Nat /\ opened <= t /\ t < now
    <3>1. PICK m \in Nth(S, k) : \E at \in w[m] :
             m \in 1 .. n - 1 /\ at \in Nat /\ t = at + JurorResponse /\ t < now
      BY <2>2
    <3>2. PICK at \in w[m] : at \in Nat /\ t = at + JurorResponse /\ t < now
      BY <3>1
    <3>3. opened <= at
      BY <1>4, <3>1 DEF Sound
    <3> QED
      BY <2>0, <3>2, <3>3
  <2>5. ASSUME NEW s \in w[n], NEW t \in w[n] PROVE s = t
    <3>1. PICK l \in Nth(S, k) : \E at \in w[l] :
             l \in 1 .. n - 1 /\ at \in Nat /\ s = at + JurorResponse
      BY <2>2
    <3>2. PICK m \in Nth(S, k) : \E at \in w[m] :
             m \in 1 .. n - 1 /\ at \in Nat /\ t = at + JurorResponse
      BY <2>2
    <3>3. l = m
      <4> HIDE DEF S, k
      <4> QED
        BY <1>4, <2>3, NthUnique
    <3> QED
      BY <1>4, <3>1, <3>2, <3>3 DEF Sound
  <2>6. ASSUME NEW l \in 1 .. n, NEW s \in w[l], NEW t \in w[n] PROVE s <= t
    <3>1. CASE l = n
      BY <2>4, <2>5, <3>1
    <3>2. CASE l # n /\ l <= PanelSize
      <4>1. l \in 1 .. Len(draw)
        BY <1>4
      <4>2. s = opened
        BY <3>2, <4>1 DEF IsSeated
      <4> QED
        BY <2>4, <4>2
    <3>3. CASE l # n /\ l > PanelSize
      <4>1. l \in 1 .. n - 1 /\ l \in 1 .. Len(draw) /\ l \in Nat /\ ~ (l <= PanelSize)
        BY <1>4, <2>0, <3>3
      <4>2. w[l] = Replaces(draw, rulings, now, w, l)
        BY <4>1 DEF IsSeated
      <4>3. \A m \in 1 .. l - 1 : Sound(w, opened, now, m)
        BY <1>4, <4>1
      <4>4. s \in Replaces(draw, rulings, now, w, l)
        BY <4>2
      <4>a. \E i \in Nth(Missed(draw, rulings, now, w, l), l - PanelSize) : \E at \in w[i] :
              /\ i \in 1 .. l - 1 /\ at \in Nat
              /\ NoShow(Seat(draw, i, at), rulings, now)
              /\ s = at + JurorResponse /\ s < now
        BY <4>1, <4>3, <4>4, ReplacesWhom
      <4>5. PICK i \in Nth(Missed(draw, rulings, now, w, l), l - PanelSize) :
              \E at \in w[i] : i \in 1 .. l - 1 /\ at \in Nat /\ s = at + JurorResponse
        BY <4>a
      <4>6. PICK m \in Nth(S, k) : \E at \in w[m] :
               m \in 1 .. n - 1 /\ at \in Nat /\ t = at + JurorResponse
        BY <2>2
      <4>7. i \in Nth(S, l - PanelSize)
        BY <1>4, <4>5, MissedInitial
      <4>8. l - PanelSize \in Int /\ l - PanelSize < k
        BY <1>4, <2>0, <4>1
      <4>9. i < m
        <5> HIDE DEF S, k
        <5> QED
          BY <1>4, <2>0, <2>3, <4>6, <4>7, <4>8, NthOrder
      <4>10. i \in 1 .. m
        BY <4>5, <4>6, <4>9
      <4> QED
        BY <1>4, <2>0, <4>5, <4>6, <4>10 DEF Sound
    <3> QED
      BY <1>4, <2>0, <3>1, <3>2, <3>3
  <2>7. Sound(w, opened, now, n)
    BY <2>4, <2>5, <2>6 DEF Sound
  <2> QED
    BY <1>3, <2>7
<1> QED
  BY <1>4, <1>5, <1>6, JuryAssumption

-----------------------------------------------------------------------------
(* The seating at two instants, the log having grown in between.           *)

Later(R, now, Q, then) ==
    /\ now \in Nat /\ then \in Nat /\ now <= then
    /\ \A j \in DOMAIN R : j \in DOMAIN Q /\ Q[j] = R[j]
    /\ \A j \in DOMAIN Q : Q[j].at \in Nat
    /\ \A j \in DOMAIN Q : j \notin DOMAIN R => Q[j].at >= now

\* A no-show stays one, a ruling that counts goes on counting, and whoever shows
\* up as a no-show later had a window that was still open.
LEMMA NoShowLater ==
    ASSUME NEW R, NEW now, NEW Q, NEW then, Later(R, now, Q, then),
           NEW s, s.seated \in Nat
    PROVE  /\ Counts(s, R, now) => Counts(s, Q, then)
           /\ NoShow(s, R, now) => NoShow(s, Q, then)
           /\ NoShow(s, Q, then) => NoShow(s, R, now) \/ now <= s.seated + JurorResponse
<1> USE JuryAssumption
<1>1. ASSUME Counts(s, R, now) PROVE Counts(s, Q, then)
  BY <1>1 DEF Counts, Later
<1>2. ASSUME NoShow(s, R, now) PROVE NoShow(s, Q, then)
  <2>1. now > s.seated + JurorResponse /\ ~ Counts(s, R, now)
    BY <1>2 DEF NoShow
  <2>2. then > s.seated + JurorResponse
    BY <2>1 DEF Later
  <2>3. ASSUME Counts(s, Q, then) PROVE FALSE
    <3>1. /\ s.juror \in DOMAIN Q /\ Q[s.juror].at \in Nat
          /\ Q[s.juror].at >= s.seated /\ Q[s.juror].at <= s.seated + JurorResponse
      BY <2>3 DEF Counts, Later
    <3>2. Q[s.juror].at < now
      BY <2>1, <3>1 DEF Later
    <3>3. s.juror \in DOMAIN R
      BY <3>1, <3>2 DEF Later
    <3>4. Counts(s, R, now)
      BY <3>1, <3>2, <3>3 DEF Counts, Later
    <3> QED
      BY <2>1, <3>4
  <2> QED
    BY <2>2, <2>3 DEF NoShow
<1>3. ASSUME NoShow(s, Q, then), ~ NoShow(s, R, now)
      PROVE  now <= s.seated + JurorResponse
  <2>1. ~ Counts(s, R, now)
    BY <1>1, <1>3 DEF NoShow
  <2>2. ~ (now > s.seated + JurorResponse)
    BY <1>3, <2>1 DEF NoShow
  <2> QED
    BY <2>2 DEF Later
<1> QED
  BY <1>1, <1>2, <1>3

\* Whoever is seated stays seated, and a later seat opens no earlier than now.
LEMMA SeatingLater ==
    ASSUME NEW draw, NEW opened \in Nat, Len(draw) \in Nat,
           NEW R, NEW now, NEW Q, NEW then, Later(R, now, Q, then),
           NEW w, IsSeated(w, draw, R, opened, now),
           NEW v, IsSeated(v, draw, Q, opened, then)
    PROVE  \A n \in 1 .. Len(draw) :
              w[n] \subseteq v[n] /\ \A t \in v[n] : t \in w[n] \/ t >= now
<1> DEFINE Kept(n) == w[n] \subseteq v[n] /\ \A t \in v[n] : t \in w[n] \/ t >= now
           Bad == {n \in 1 .. Len(draw) : ~ Kept(n)}
<1>0. now \in Nat /\ then \in Nat /\ now <= then /\ JurorResponse \in Nat /\ PanelSize \in Nat
  BY JuryAssumption DEF Later
<1>s. /\ \A n \in 1 .. Len(draw) : Sound(w, opened, now, n)
      /\ \A n \in 1 .. Len(draw) : Sound(v, opened, then, n)
  BY <1>0, SeatingSound
<1>1. SUFFICES ASSUME Bad # {} PROVE FALSE
  OBVIOUS
<1>2. Bad \subseteq Nat
  OBVIOUS
<1>3. PICK n \in Bad : \A m \in Bad : n <= m
  <2> HIDE DEF Bad
  <2> QED
    BY <1>1, <1>2, LeastNatural
<1>4. n \in 1 .. Len(draw) /\ n \in Nat
  BY <1>3
<1>5. \A m \in 1 .. n - 1 : m \in 1 .. Len(draw) /\ Kept(m)
  BY <1>3, <1>4
<1> HIDE DEF Bad
<1>6. n > PanelSize
  <2>1. CASE n <= PanelSize
    <3>1. w[n] = {opened} /\ v[n] = {opened}
      BY <1>4, <2>1 DEF IsSeated
    <3>2. Kept(n)
      BY <3>1
    <3> QED
      BY <1>3, <3>2 DEF Bad
  <2> QED
    BY <1>0, <1>4, <2>1
<1> DEFINE T == Missed(draw, R, now, w, n)
           S == Missed(draw, Q, then, v, n)
           k == n - PanelSize
<1>7. w[n] = Replaces(draw, R, now, w, n) /\ v[n] = Replaces(draw, Q, then, v, n)
  BY <1>0, <1>4, <1>6 DEF IsSeated
<1>8. S \subseteq 1 .. n /\ S \subseteq Nat /\ T \subseteq 1 .. n - 1
  BY <1>4 DEF Missed
<1>9. ASSUME NEW m \in 1 .. n - 1, NEW at \in v[m]
      PROVE  /\ at \in Nat /\ Seat(draw, m, at).seated = at
             /\ \A x \in v[m] : x = at
  BY <1>5, <1>s DEF Sound, Seat
<1>10. T \subseteq S
  <2> SUFFICES ASSUME NEW m \in T PROVE m \in S
    OBVIOUS
  <2>1. m \in 1 .. n - 1 /\ \E at \in w[m] : NoShow(Seat(draw, m, at), R, now)
    BY DEF Missed
  <2>2. PICK at \in w[m] : NoShow(Seat(draw, m, at), R, now)
    BY <2>1
  <2>3. at \in v[m]
    BY <1>5, <2>1
  <2>4. NoShow(Seat(draw, m, at), Q, then)
    BY <1>9, <2>1, <2>2, <2>3, NoShowLater
  <2> QED
    BY <2>1, <2>3, <2>4 DEF Missed
\* Whoever is missed only later had a window still open at now.
<1>11. ASSUME NEW m \in S, m \notin T, NEW at \in v[m]
       PROVE  now <= at + JurorResponse
  <2>1. m \in 1 .. n - 1 /\ \E x \in v[m] : NoShow(Seat(draw, m, x), Q, then)
    BY DEF Missed
  <2>2. NoShow(Seat(draw, m, at), Q, then)
    BY <1>9, <2>1
  <2>3. at \in Nat /\ Seat(draw, m, at).seated = at
    BY <1>9, <2>1
  <2>4. CASE at \in w[m]
    <3>1. ~ NoShow(Seat(draw, m, at), R, now)
      BY <1>11, <2>1, <2>4 DEF Missed
    <3> QED
      BY <2>2, <2>3, <3>1, NoShowLater
  <2>5. CASE at \notin w[m]
    <3>1. at >= now
      BY <1>5, <2>1, <2>5
    <3> QED
      BY <1>0, <2>3, <3>1
  <2> QED
    BY <2>4, <2>5
<1>12. ASSUME NEW x \in S, x \notin T, NEW y \in T PROVE y < x
  <2>1. x \in 1 .. n - 1 /\ \E at \in v[x] : NoShow(Seat(draw, x, at), Q, then)
    BY DEF Missed
  <2>2. y \in 1 .. n - 1 /\ \E at \in w[y] : NoShow(Seat(draw, y, at), R, now)
    BY DEF Missed
  <2>3. PICK a \in v[x] : NoShow(Seat(draw, x, a), Q, then)
    BY <2>1
  <2>4. PICK b \in w[y] : NoShow(Seat(draw, y, b), R, now)
    BY <2>2
  <2>5. b \in v[y] /\ a \in Nat /\ b \in Nat
    BY <1>5, <1>9, <2>1, <2>2
  <2>6. now > b + JurorResponse
    BY <1>9, <2>2, <2>4, <2>5 DEF NoShow
  <2>7. now <= a + JurorResponse
    BY <1>11, <1>12
  <2>8. b < a
    BY <1>0, <2>5, <2>6, <2>7
  <2>9. ASSUME x <= y PROVE FALSE
    <3>1. x \in 1 .. y
      BY <2>1, <2>2, <2>9
    <3>2. a <= b
      BY <1>5, <1>s, <2>2, <2>5, <3>1 DEF Sound
    <3> QED
      BY <2>5, <2>8, <3>2
  <2> QED
    BY <2>1, <2>2, <2>9
<1>13. Nth(T, k) = Nth(S, k) \cap T
  <2> HIDE DEF S, T, k
  <2> QED
    BY <1>4, <1>8, <1>10, <1>12, NthInitial
<1>14. w[n] \subseteq v[n]
  <2> SUFFICES ASSUME NEW t \in w[n] PROVE t \in v[n]
    OBVIOUS
  <2>1. PICK m \in Nth(T, k) : \E at \in w[m] : t = at + JurorResponse
    BY <1>7 DEF Replaces
  <2>2. m \in Nth(S, k) /\ m \in T
    BY <1>13, <2>1 DEF Nth
  <2>3. m \in 1 .. n - 1
    BY <1>8, <2>2
  <2>4. PICK at \in w[m] : t = at + JurorResponse
    BY <2>1
  <2>5. at \in v[m]
    BY <1>5, <2>3, <2>4
  <2> QED
    BY <1>7, <2>2, <2>4, <2>5 DEF Replaces
<1>15. ASSUME NEW t \in v[n] PROVE t \in w[n] \/ t >= now
  <2>1. PICK m \in Nth(S, k) : \E at \in v[m] : t = at + JurorResponse
    BY <1>7 DEF Replaces
  <2>2. PICK at \in v[m] : t = at + JurorResponse
    BY <2>1
  <2>3. m \in S /\ m \in 1 .. n - 1 /\ at \in Nat
    <3>1. m \in S
      BY <2>1 DEF Nth
    <3>2. m \in 1 .. n - 1
      BY <3>1 DEF Missed
    <3> QED
      BY <1>9, <3>1, <3>2
  <2>4. CASE m \in T
    <3>1. m \in Nth(T, k)
      BY <1>13, <2>1, <2>4
    <3>2. PICK x \in w[m] : NoShow(Seat(draw, m, x), R, now)
      BY <2>4 DEF Missed
    <3>3. x \in v[m]
      BY <1>5, <2>3
    <3>4. x = at
      BY <1>9, <2>3, <3>3
    <3> QED
      BY <1>7, <2>2, <3>1, <3>2, <3>4 DEF Replaces
  <2>5. CASE m \notin T
    <3>1. now <= at + JurorResponse
      BY <1>11, <2>3, <2>5
    <3> QED
      BY <1>0, <2>2, <2>3, <3>1
  <2> QED
    BY <2>4, <2>5
<1> QED
  BY <1>3, <1>14, <1>15 DEF Bad

\* In particular, a ruling at the instant itself or later changes no seat.
LEMMA SeatingUnchanged ==
    ASSUME NEW draw, NEW opened \in Nat, Len(draw) \in Nat,
           NEW R, NEW now, NEW Q, Later(R, now, Q, now),
           NEW w, IsSeated(w, draw, R, opened, now),
           NEW v, IsSeated(v, draw, Q, opened, now)
    PROVE  \A n \in 1 .. Len(draw) : v[n] = w[n]
<1>0. now \in Nat /\ PanelSize \in Nat
  BY JuryAssumption DEF Later
<1>1. \A n \in 1 .. Len(draw) : Sound(v, opened, now, n)
  BY <1>0, SeatingSound
<1>2. \A n \in 1 .. Len(draw) : w[n] \subseteq v[n] /\ \A t \in v[n] : t \in w[n] \/ t >= now
  BY SeatingLater
<1> SUFFICES ASSUME NEW n \in 1 .. Len(draw), NEW t \in v[n] PROVE t \in w[n]
  BY <1>2
<1>3. CASE n <= PanelSize
  BY <1>3 DEF IsSeated
<1>4. CASE n > PanelSize
  <2>1. v[n] = Replaces(draw, Q, now, v, n)
    BY <1>0, <1>4 DEF IsSeated
  <2>2. \A m \in 1 .. n - 1 : Sound(v, opened, now, m)
    BY <1>1
  <2>3. n \in Nat /\ t \in Replaces(draw, Q, now, v, n)
    BY <2>1
  <2>4. \E m \in Nth(Missed(draw, Q, now, v, n), n - PanelSize) : \E at \in v[m] :
              /\ m \in 1 .. n - 1 /\ at \in Nat
              /\ NoShow(Seat(draw, m, at), Q, now)
              /\ t = at + JurorResponse /\ t < now
    BY <1>0, <2>2, <2>3, ReplacesWhom
  <2>5. t < now /\ t \in Nat
    BY <1>1, <2>4 DEF Sound
  <2> QED
    BY <1>0, <1>2, <2>5
<1> QED
  BY <1>0, <1>3, <1>4

-----------------------------------------------------------------------------
(* The panel.                                                              *)

LEMMA CountedBy ==
    ASSUME NEW S, NEW T, IsFiniteSet(T), NEW f,
           \A x \in S : f[x] \in T, \A x, y \in S : f[x] = f[y] => x = y
    PROVE  IsFiniteSet(S) /\ Cardinality(S) \in Nat /\ Cardinality(S) <= Cardinality(T)
<1> DEFINE g == [x \in S |-> f[x]]
<1>1. g \in Injection(S, T)
  BY DEF Injection, IsInjective
<1>2. IsFiniteSet(S) /\ Cardinality(S) <= Cardinality(T)
  <2> HIDE DEF g
  <2> QED
    BY <1>1, FS_Injection
<1> QED
  BY <1>2, FS_CardinalityType

LEMMA PanelIs ==
    ASSUME NEW draw, NEW rulings, NEW opened, NEW now
    PROVE  \A s : s \in ResolvePanel(draw, rulings, opened, now) <=>
              \E n \in 1 .. Len(draw) : \E at \in Seating(draw, rulings, opened, now)[n] :
                  s = Seat(draw, n, at) /\ ~ NoShow(s, rulings, now)
<1> DEFINE w == Seating(draw, rulings, opened, now)
<1>1. ResolvePanel(draw, rulings, opened, now) =
        UNION {{s \in {Seat(draw, n, at) : at \in w[n]} : ~NoShow(s, rulings, now)}
                : n \in 1 .. Len(draw)}
  BY DEF ResolvePanel
<1> HIDE DEF w
<1>2. \A s : s \in ResolvePanel(draw, rulings, opened, now) <=>
         \E n \in 1 .. Len(draw) :
            s \in {x \in {Seat(draw, n, at) : at \in w[n]} : ~NoShow(x, rulings, now)}
  BY <1>1
<1>3. \A s : s \in ResolvePanel(draw, rulings, opened, now) <=>
         \E n \in 1 .. Len(draw) : \E at \in w[n] :
            s = Seat(draw, n, at) /\ ~NoShow(s, rulings, now)
  BY <1>2
<1> QED
  BY <1>3 DEF w

\* A seat opens when the case does or before now, and a juror holds one.
LEMMA PanelSeats ==
    ASSUME NEW draw, NEW rulings, NEW opened \in Nat, NEW now \in Nat, Drawn(draw)
    PROVE  LET panel == ResolvePanel(draw, rulings, opened, now)
           IN  /\ \A s \in panel : s.seated \in Nat /\ (s.seated = opened \/ s.seated < now)
               /\ \A s, t \in panel : s.juror = t.juror => s = t
<1> DEFINE panel == ResolvePanel(draw, rulings, opened, now)
           w == Seating(draw, rulings, opened, now)
<1>1. \A n \in 1 .. Len(draw) : Sound(w, opened, now, n)
  BY SeatingSeats, SeatingSound DEF Drawn
<1>2. \A s \in panel : \E n \in 1 .. Len(draw) : \E at \in w[n] : s = Seat(draw, n, at)
  BY PanelIs
<1> HIDE DEF panel, w
<1>3. ASSUME NEW s \in panel PROVE s.seated \in Nat /\ (s.seated = opened \/ s.seated < now)
  <2>1. PICK n \in 1 .. Len(draw) : \E at \in w[n] : s = Seat(draw, n, at)
    BY <1>2
  <2>2. PICK at \in w[n] : s = Seat(draw, n, at)
    BY <2>1
  <2>3. s.seated = at
    BY <2>2 DEF Seat
  <2> QED
    BY <1>1, <2>2, <2>3 DEF Sound
<1>4. ASSUME NEW s \in panel, NEW t \in panel, s.juror = t.juror PROVE s = t
  <2>1. PICK n \in 1 .. Len(draw) : \E at \in w[n] : s = Seat(draw, n, at)
    BY <1>2
  <2>2. PICK m \in 1 .. Len(draw) : \E at \in w[m] : t = Seat(draw, m, at)
    BY <1>2
  <2>3. draw[n] = s.juror /\ draw[m] = t.juror
    BY <2>1, <2>2 DEF Seat
  <2>4. n = m
    BY <1>4, <2>3 DEF Drawn
  <2> QED
    BY <1>1, <2>1, <2>2, <2>4 DEF Sound
<1> QED
  BY <1>3, <1>4 DEF panel

\* Every replacement stands for a no-show of its own, so the panel never has
\* more than PanelSize seats.
LEMMA PanelBound ==
    ASSUME NEW draw, NEW rulings, NEW opened \in Nat, NEW now \in Nat, Len(draw) \in Nat
    PROVE  LET panel == ResolvePanel(draw, rulings, opened, now)
           IN  IsFiniteSet(panel) /\ Cardinality(panel) \in Nat /\ Cardinality(panel) <= PanelSize
<1> DEFINE panel == ResolvePanel(draw, rulings, opened, now)
           w == Seating(draw, rulings, opened, now)
           N == 1 .. Len(draw)
           P == {n \in N : w[n] # {}}
           M == {n \in N : \E at \in w[n] : NoShow(Seat(draw, n, at), rulings, now)}
           B == {n \in P : n > PanelSize}
           k == Len(draw) + 1
<1>0. PanelSize \in Nat /\ k \in Nat
  BY JuryAssumption
<1>1. IsSeated(w, draw, rulings, opened, now)
  BY SeatingSeats
<1>a. \A s : s \in panel <=>
        \E n \in N : \E at \in w[n] : s = Seat(draw, n, at) /\ ~ NoShow(s, rulings, now)
  BY PanelIs
<1> HIDE DEF panel, w
<1>2. \A n \in N : Sound(w, opened, now, n)
  BY <1>1, SeatingSound
<1>3. M = Missed(draw, rulings, now, w, k)
  BY DEF Missed
<1>4. IsFiniteSet(N)
  BY FS_Interval
<1>5. M \in SUBSET P /\ P \in SUBSET N /\ B \in SUBSET P
  OBVIOUS
<1>6. IsFiniteSet(P)
  <2> HIDE DEF N, P
  <2> QED
    BY <1>4, <1>5, FS_Subset
<1>7. IsFiniteSet(M) /\ IsFiniteSet(B)
  <2> HIDE DEF P, M, B
  <2> QED
    BY <1>5, <1>6, FS_Subset
<1> DEFINE f == [n \in B |-> CHOOSE m : m \in Nth(M, n - PanelSize)]
<1>8. ASSUME NEW n \in B PROVE f[n] \in Nth(M, n - PanelSize)
  <2>1. n \in N /\ n \in 1 .. k /\ ~ (n <= PanelSize) /\ w[n] # {}
    BY <1>0
  <2>2. w[n] = Replaces(draw, rulings, now, w, n)
    BY <1>1, <2>1 DEF IsSeated
  <2>3. PICK m : m \in Nth(Missed(draw, rulings, now, w, n), n - PanelSize)
    BY <2>1, <2>2 DEF Replaces
  <2>4. m \in Nth(M, n - PanelSize)
    BY <1>0, <1>3, <2>1, <2>3, MissedInitial
  <2> QED
    BY <2>4
<1>9. Cardinality(B) <= Cardinality(M)
  <2>1. \A n \in B : f[n] \in M
    BY <1>8 DEF Nth
  <2>2. ASSUME NEW i \in B, NEW j \in B, i < j PROVE f[i] < f[j]
    <3>1. i - PanelSize \in Int /\ j - PanelSize \in Int /\ i - PanelSize < j - PanelSize
      BY <1>0, <2>2
    <3>2. f[i] \in Nth(M, i - PanelSize) /\ f[j] \in Nth(M, j - PanelSize)
      BY <1>8
    <3>3. M \subseteq 1 .. Len(draw)
      OBVIOUS
    <3> HIDE DEF f, M, B
    <3> QED
      BY <3>1, <3>2, <3>3, NthOrder
  <2>3. ASSUME NEW i \in B, NEW j \in B, f[i] = f[j] PROVE i = j
    <3>1. i \in Nat /\ j \in Nat
      OBVIOUS
    <3>m. M \subseteq Nat
      OBVIOUS
    <3> HIDE DEF f, M, B
    <3>2. f[i] \in Nat /\ f[j] \in Nat
      BY <2>1, <3>m
    <3>3. ~ (i < j)
      BY <2>2, <2>3, <3>2
    <3>4. ~ (j < i)
      BY <2>2, <2>3, <3>2
    <3> QED
      BY <3>1, <3>3, <3>4
  <2> HIDE DEF f, B, M
  <2> QED
    BY <1>7, <2>1, <2>3, CountedBy
<1>10. Cardinality(P) <= Cardinality(B) + PanelSize
  <2> DEFINE I == 1 .. PanelSize
  <2>1. IsFiniteSet(I) /\ Cardinality(I) = PanelSize
    BY SMTT(30), <1>0, FS_Interval
  <2>2. P \in SUBSET (B \cup I)
    BY <1>0
  <2> HIDE DEF I, P, B
  <2>3. /\ IsFiniteSet(B \cup I)
        /\ Cardinality(B \cup I) = Cardinality(B) + Cardinality(I) - Cardinality(B \cap I)
    BY <1>7, <2>1, FS_Union
  <2>4. Cardinality(B \cap I) \in Nat /\ Cardinality(B) \in Nat /\ Cardinality(P) \in Nat
    BY <1>6, <1>7, <2>1, FS_Intersection, FS_CardinalityType
  <2>5. Cardinality(P) <= Cardinality(B \cup I)
    BY <2>2, <2>3, FS_Subset
  <2> QED
    BY <1>0, <2>1, <2>3, <2>4, <2>5
<1>11. IsFiniteSet(P \ M) /\ Cardinality(P \ M) <= PanelSize
  <2>1. P \cap M = M
    BY <1>5
  <2> HIDE DEF P, M, B
  <2>2. IsFiniteSet(P \ M) /\ Cardinality(P \ M) = Cardinality(P) - Cardinality(M)
    BY <1>6, <2>1, FS_Difference
  <2>3. Cardinality(P) \in Nat /\ Cardinality(M) \in Nat /\ Cardinality(B) \in Nat
    BY <1>6, <1>7, FS_CardinalityType
  <2> QED
    BY <1>0, <1>9, <1>10, <2>2, <2>3
<1> DEFINE At(s, n) == \E at \in w[n] : s = Seat(draw, n, at)
           g == [s \in panel |-> CHOOSE n : n \in P \ M /\ At(s, n)]
<1>12. ASSUME NEW s \in panel PROVE g[s] \in P \ M /\ At(s, g[s])
  <2>1. PICK n \in N : \E at \in w[n] : s = Seat(draw, n, at) /\ ~ NoShow(s, rulings, now)
    BY <1>a
  <2>2. PICK at \in w[n] : s = Seat(draw, n, at) /\ ~ NoShow(s, rulings, now)
    BY <2>1
  <2>3. n \notin M
    BY <1>2, <2>2 DEF Sound
  <2>4. n \in P \ M /\ At(s, n)
    BY <2>2, <2>3
  <2> HIDE DEF P, M, At
  <2> QED
    BY <2>4
<1>13. ASSUME NEW s \in panel, NEW t \in panel, g[s] = g[t] PROVE s = t
  <2>1. g[s] \in N /\ At(s, g[s]) /\ At(t, g[s])
    BY <1>12, <1>13
  <2> HIDE DEF g
  <2> QED
    BY <1>2, <2>1 DEF Sound
<1>14. \A s \in panel : g[s] \in P \ M
  BY <1>12
<1>b. IsFiniteSet(panel) /\ Cardinality(panel) \in Nat /\ Cardinality(panel) <= Cardinality(P \ M)
  <2> HIDE DEF g, P, M
  <2> QED
    BY <1>11, <1>13, <1>14, CountedBy
<1>c. Cardinality(P \ M) \in Nat
  <2> HIDE DEF P, M
  <2> QED
    BY <1>11, FS_CardinalityType
<1> QED
  BY <1>0, <1>11, <1>b, <1>c DEF panel

-----------------------------------------------------------------------------
(* The verdict at two instants, the log having grown in between.           *)

Side(draw, R, opened, now, u) ==
    Concurring(ResolvePanel(draw, R, opened, now), R, now, u)

\* A side is as finite as the panel, and the two together fit in it.
LEMMA SidesFit ==
    ASSUME NEW draw, NEW R, NEW opened \in Nat, NEW now \in Nat, Len(draw) \in Nat
    PROVE  /\ \A u : /\ IsFiniteSet(Side(draw, R, opened, now, u))
                     /\ Cardinality(Side(draw, R, opened, now, u)) \in Nat
           /\ ~ (/\ Cardinality(Side(draw, R, opened, now, TRUE)) >= Majority
                 /\ Cardinality(Side(draw, R, opened, now, FALSE)) >= Majority)
<1> DEFINE panel == ResolvePanel(draw, R, opened, now)
           S == Side(draw, R, opened, now, TRUE)
           T == Side(draw, R, opened, now, FALSE)
<1>1. IsFiniteSet(panel) /\ Cardinality(panel) \in Nat /\ Cardinality(panel) <= PanelSize
  BY PanelBound
<1> HIDE DEF panel
<1>2. \A u : Side(draw, R, opened, now, u) \in SUBSET panel
  BY DEF Side, Concurring, panel
<1>3. \A u : IsFiniteSet(Side(draw, R, opened, now, u))
  BY <1>1, <1>2, FS_Subset
<1>4. \A u : Cardinality(Side(draw, R, opened, now, u)) \in Nat
  BY <1>3, FS_CardinalityType
<1>5. S \cap T = {}
  BY DEF Side, Concurring
<1>6. PanelSize \in Nat /\ Majority \in Nat /\ Majority + Majority > PanelSize
  BY JuryAssumption DEF Majority
<1>7. S \subseteq panel /\ T \subseteq panel
  BY <1>2
<1>8. Cardinality(S) \in Nat /\ Cardinality(T) \in Nat
  BY <1>4
<1> HIDE DEF S, T
<1>9. ASSUME Cardinality(S) >= Majority, Cardinality(T) >= Majority PROVE FALSE
  <2>1. Cardinality(S) + Cardinality(T) > Cardinality(panel)
    BY <1>1, <1>6, <1>8, <1>9
  <2> QED
    BY <1>1, <1>5, <1>7, <2>1, FS_MajoritiesIntersect
<1> QED
  BY <1>3, <1>4, <1>9 DEF S, T

\* Who agreed goes on agreeing, and who joins later ruled no earlier than now.
LEMMA SideLater ==
    ASSUME NEW draw, NEW opened \in Nat, Len(draw) \in Nat,
           NEW R, NEW now, NEW Q, NEW then, Later(R, now, Q, then), NEW u
    PROVE  /\ \A s \in Side(draw, R, opened, now, u) :
                 /\ s \in Side(draw, Q, opened, then, u)
                 /\ s.juror \in DOMAIN R /\ Q[s.juror] = R[s.juror]
                 /\ R[s.juror].at \in Nat /\ R[s.juror].at <= now
           /\ \A s \in Side(draw, Q, opened, then, u) :
                 /\ s.juror \in DOMAIN Q /\ Q[s.juror].at \in Nat
                 /\ s \in Side(draw, R, opened, now, u) \/ Q[s.juror].at >= now
<1> DEFINE w == Seating(draw, R, opened, now)
           v == Seating(draw, Q, opened, then)
<1>0. now \in Nat /\ then \in Nat /\ now <= then /\ JurorResponse \in Nat
  BY JuryAssumption DEF Later
<1>1. IsSeated(w, draw, R, opened, now) /\ IsSeated(v, draw, Q, opened, then)
  BY SeatingSeats
<1>2. /\ \A s : s \in ResolvePanel(draw, R, opened, now) <=>
              \E n \in 1 .. Len(draw) : \E at \in w[n] : s = Seat(draw, n, at) /\ ~ NoShow(s, R, now)
      /\ \A s : s \in ResolvePanel(draw, Q, opened, then) <=>
              \E n \in 1 .. Len(draw) : \E at \in v[n] : s = Seat(draw, n, at) /\ ~ NoShow(s, Q, then)
  BY PanelIs
<1> HIDE DEF w, v
<1>3. /\ \A n \in 1 .. Len(draw) : Sound(w, opened, now, n)
      /\ \A n \in 1 .. Len(draw) : Sound(v, opened, then, n)
  BY <1>0, <1>1, SeatingSound
<1>4. \A n \in 1 .. Len(draw) : w[n] \subseteq v[n] /\ \A t \in v[n] : t \in w[n] \/ t >= now
  BY <1>1, SeatingLater
<1>5. ASSUME NEW s \in Side(draw, R, opened, now, u)
      PROVE  /\ s \in Side(draw, Q, opened, then, u)
             /\ s.juror \in DOMAIN R /\ Q[s.juror] = R[s.juror]
             /\ R[s.juror].at \in Nat /\ R[s.juror].at <= now
  <2>1. s \in ResolvePanel(draw, R, opened, now) /\ Counts(s, R, now) /\ R[s.juror].uphold = u
    BY DEF Side, Concurring
  <2>2. PICK n \in 1 .. Len(draw) : \E at \in w[n] : s = Seat(draw, n, at) /\ ~ NoShow(s, R, now)
    BY <1>2, <2>1
  <2>3. PICK at \in w[n] : s = Seat(draw, n, at)
    BY <2>2
  <2>4. at \in v[n] /\ at \in Nat /\ s.seated = at
    BY <1>3, <1>4, <2>3 DEF Sound, Seat
  <2>5. s.juror \in DOMAIN R /\ R[s.juror].at <= now
    BY <2>1 DEF Counts
  <2>6. s.juror \in DOMAIN Q /\ Q[s.juror] = R[s.juror]
    BY <2>5 DEF Later
  <2>7. R[s.juror].at \in Nat
    BY <2>6 DEF Later
  <2>8. Counts(s, Q, then)
    BY <2>1, <2>4, NoShowLater
  <2>9. s \in ResolvePanel(draw, Q, opened, then)
    <3>1. ~ NoShow(s, Q, then)
      BY <2>8 DEF NoShow
    <3> QED
      BY <1>2, <2>3, <2>4, <3>1
  <2> QED
    BY <2>1, <2>5, <2>6, <2>7, <2>8, <2>9 DEF Side, Concurring
<1>6. ASSUME NEW s \in Side(draw, Q, opened, then, u)
      PROVE  /\ s.juror \in DOMAIN Q /\ Q[s.juror].at \in Nat
             /\ s \in Side(draw, R, opened, now, u) \/ Q[s.juror].at >= now
  <2>1. s \in ResolvePanel(draw, Q, opened, then) /\ Counts(s, Q, then) /\ Q[s.juror].uphold = u
    BY DEF Side, Concurring
  <2>2. PICK n \in 1 .. Len(draw) : \E at \in v[n] : s = Seat(draw, n, at) /\ ~ NoShow(s, Q, then)
    BY <1>2, <2>1
  <2>3. PICK at \in v[n] : s = Seat(draw, n, at)
    BY <2>2
  <2>4. at \in Nat /\ s.seated = at
    BY <1>3, <2>3 DEF Sound, Seat
  <2>5. s.juror \in DOMAIN Q /\ Q[s.juror].at >= at /\ Q[s.juror].at <= at + JurorResponse
    BY <2>1, <2>4 DEF Counts
  <2>6. Q[s.juror].at \in Nat
    BY <2>5 DEF Later
  <2>7. ASSUME Q[s.juror].at < now PROVE s \in Side(draw, R, opened, now, u)
    <3>1. at \in w[n]
      BY <1>0, <1>4, <2>3, <2>4, <2>5, <2>6, <2>7
    <3>2. s.juror \in DOMAIN R /\ R[s.juror] = Q[s.juror]
      BY <1>0, <2>5, <2>6, <2>7 DEF Later
    <3>3. Counts(s, R, now)
      BY <1>0, <2>4, <2>5, <2>6, <2>7, <3>2 DEF Counts
    <3>4. ~ NoShow(s, R, now)
      BY <3>3 DEF NoShow
    <3>5. s \in ResolvePanel(draw, R, opened, now)
      BY <1>2, <2>3, <3>1, <3>4
    <3> QED
      BY <2>1, <3>2, <3>3, <3>5 DEF Side, Concurring
  <2> QED
    BY <1>0, <2>5, <2>6, <2>7
<1> QED
  BY <1>5, <1>6

LEMMA SideGrows ==
    ASSUME NEW draw, NEW opened \in Nat, Len(draw) \in Nat,
           NEW R, NEW now, NEW Q, NEW then, Later(R, now, Q, then), NEW u,
           Cardinality(Side(draw, R, opened, now, u)) >= Majority
    PROVE  Cardinality(Side(draw, Q, opened, then, u)) >= Majority
<1> DEFINE C == Side(draw, R, opened, now, u)
           D == Side(draw, Q, opened, then, u)
<1>0. now \in Nat /\ then \in Nat /\ Majority \in Nat
  BY JuryAssumption DEF Later, Majority
<1>1. C \in SUBSET D
  BY SideLater
<1>2. IsFiniteSet(D) /\ Cardinality(D) \in Nat /\ Cardinality(C) \in Nat
  BY <1>0, SidesFit
<1>3. Cardinality(C) >= Majority
  OBVIOUS
<1> HIDE DEF C, D
<1>4. Cardinality(C) <= Cardinality(D)
  BY <1>1, <1>2, FS_Subset
<1>5. Cardinality(D) >= Majority
  BY <1>0, <1>2, <1>3, <1>4
<1> QED
  BY <1>5 DEF D

\* t is when the seats of C, ruling as R has them, reach a majority.
By(C, R, t) == {s \in C : R[s.juror].at <= t}
Before(C, R, t) == {s \in C : R[s.juror].at < t}
ReachedAt(C, R, t) ==
    /\ t \in {R[s.juror].at : s \in C}
    /\ Cardinality(Before(C, R, t)) <= PanelSize \div 2
    /\ Cardinality(By(C, R, t)) > PanelSize \div 2

LEMMA PartsFinite ==
    ASSUME NEW C, IsFiniteSet(C), NEW R, NEW t
    PROVE  /\ IsFiniteSet(By(C, R, t)) /\ Cardinality(By(C, R, t)) \in Nat
           /\ IsFiniteSet(Before(C, R, t)) /\ Cardinality(Before(C, R, t)) \in Nat
<1>1. By(C, R, t) \in SUBSET C /\ Before(C, R, t) \in SUBSET C
  BY DEF By, Before
<1>2. IsFiniteSet(By(C, R, t)) /\ IsFiniteSet(Before(C, R, t))
  BY <1>1, FS_Subset
<1> QED
  BY <1>2, FS_CardinalityType

LEMMA ReachedOnce ==
    ASSUME NEW C, IsFiniteSet(C), NEW R, \A s \in C : R[s.juror].at \in Nat,
           NEW t, ReachedAt(C, R, t), NEW r, ReachedAt(C, R, r)
    PROVE  t = r
<1>1. t \in Nat /\ r \in Nat
  BY DEF ReachedAt
<1>2. PanelSize \div 2 \in Nat
  BY JuryAssumption
<1>3. ASSUME NEW x \in Nat, NEW y \in Nat, ReachedAt(C, R, x), ReachedAt(C, R, y), x < y PROVE FALSE
  <2>1. By(C, R, x) \in SUBSET Before(C, R, y)
    BY <1>3 DEF By, Before
  <2>2. IsFiniteSet(Before(C, R, y)) /\ Cardinality(Before(C, R, y)) \in Nat
        /\ Cardinality(By(C, R, x)) \in Nat
    BY PartsFinite
  <2>3. Cardinality(By(C, R, x)) <= Cardinality(Before(C, R, y))
    BY <2>1, <2>2, FS_Subset
  <2>4. Cardinality(By(C, R, x)) > PanelSize \div 2 /\ Cardinality(Before(C, R, y)) <= PanelSize \div 2
    BY <1>3 DEF ReachedAt
  <2> QED
    BY <1>2, <2>2, <2>3, <2>4
<1> QED
  BY <1>1, <1>3

LEMMA ReachedSomeTime ==
    ASSUME NEW C, IsFiniteSet(C), NEW R, NEW now \in Nat, Cardinality(C) >= Majority,
           \A s \in C : R[s.juror].at \in Nat /\ R[s.juror].at <= now
    PROVE  \E t \in 0 .. now : ReachedAt(C, R, t)
<1> DEFINE half == PanelSize \div 2
           T == {t \in 0 .. now : Cardinality(By(C, R, t)) > half}
<1>0. half \in Nat /\ Majority = half + 1 /\ Cardinality(C) \in Nat
  BY JuryAssumption, FS_CardinalityType DEF Majority
<1>1. By(C, R, now) = C
  BY DEF By
<1>2. now \in T
  BY <1>0, <1>1
<1>3. T \subseteq Nat /\ T # {}
  BY <1>2
<1>4. PICK t \in T : \A x \in T : t <= x
  <2> HIDE DEF T
  <2> QED
    BY <1>3, LeastNatural
<1>5. t \in 0 .. now /\ t \in Nat /\ Cardinality(By(C, R, t)) > half
  BY <1>4
<1>6. Cardinality(Before(C, R, t)) <= half
  <2>0. Cardinality(Before(C, R, t)) \in Nat
    BY PartsFinite
  <2>1. CASE t = 0
    <3>1. Before(C, R, t) = {}
      BY <2>1 DEF Before
    <3> QED
      BY <1>0, <3>1, FS_EmptySet
  <2>2. CASE t # 0
    <3>1. t - 1 \in 0 .. now /\ ~ (t <= t - 1)
      BY <1>5, <2>2
    <3>2. t - 1 \notin T
      <4> HIDE DEF T
      <4> QED
        BY <1>4, <3>1
    <3>3. ~ (Cardinality(By(C, R, t - 1)) > half)
      BY <3>1, <3>2
    <3>4. Before(C, R, t) = By(C, R, t - 1)
      BY <1>5 DEF Before, By
    <3> QED
      BY <1>0, <2>0, <3>3, <3>4
  <2> QED
    BY <2>1, <2>2
<1>7. t \in {R[s.juror].at : s \in C}
  <2> SUFFICES ASSUME \A s \in C : R[s.juror].at # t PROVE FALSE
    OBVIOUS
  <2>1. By(C, R, t) = Before(C, R, t)
    BY <1>5 DEF By, Before
  <2>2. Cardinality(Before(C, R, t)) \in Nat
    BY PartsFinite
  <2> HIDE DEF half
  <2> QED
    BY <1>0, <1>5, <1>6, <2>1, <2>2
<1> QED
  BY <1>5, <1>6, <1>7 DEF ReachedAt

\* Seats that join a majority no earlier than now do not move its instant.
LEMMA ReachedKept ==
    ASSUME NEW C, NEW D, C \subseteq D, IsFiniteSet(D), NEW R, NEW Q, NEW now \in Nat,
           \A s \in C : Q[s.juror] = R[s.juror] /\ R[s.juror].at \in Nat /\ R[s.juror].at <= now,
           \A s \in D : Q[s.juror].at \in Nat /\ (s \in C \/ Q[s.juror].at >= now),
           NEW t, ReachedAt(C, R, t)
    PROVE  ReachedAt(D, Q, t)
<1>0. PanelSize \div 2 \in Nat
  BY JuryAssumption
<1>1. t \in Nat /\ t <= now
  BY DEF ReachedAt
<1>2. Before(D, Q, t) = Before(C, R, t)
  BY <1>1 DEF Before
<1>3. By(C, R, t) \in SUBSET By(D, Q, t)
  BY DEF By
<1>4. IsFiniteSet(By(D, Q, t)) /\ Cardinality(By(D, Q, t)) \in Nat
  BY PartsFinite
<1>5. IsFiniteSet(By(C, R, t)) /\ Cardinality(By(C, R, t)) <= Cardinality(By(D, Q, t))
  BY <1>3, <1>4, FS_Subset
<1>6. Cardinality(By(C, R, t)) \in Nat
  BY <1>5, FS_CardinalityType
<1>7. Cardinality(By(D, Q, t)) > PanelSize \div 2
  BY <1>0, <1>4, <1>5, <1>6 DEF ReachedAt
<1>8. t \in {Q[s.juror].at : s \in D}
  BY DEF ReachedAt
<1> QED
  BY <1>2, <1>7, <1>8 DEF ReachedAt

OnlyAt(C, R, t) == ReachedAt(C, R, t) /\ \A r : ReachedAt(C, R, r) => r = t

Verdict(draw, R, opened, now) == Tally(ResolvePanel(draw, R, opened, now), R, now)
Given(draw, R, opened, now) == RulingReachedAt(ResolvePanel(draw, R, opened, now), R, now)

Says(verdict, u) == (verdict = "upheld") = u

LEMMA VerdictIs ==
    ASSUME NEW draw, NEW R, NEW opened, NEW now
    PROVE  Verdict(draw, R, opened, now) =
              IF Cardinality(Side(draw, R, opened, now, TRUE)) >= Majority THEN "upheld"
              ELSE IF Cardinality(Side(draw, R, opened, now, FALSE)) >= Majority
                   THEN "rejected" ELSE "none"
  BY DEF Verdict, Tally, Side

\* When the ruling was given is when the side it names reached its majority.
LEMMA GivenIs ==
    ASSUME NEW draw, NEW R, NEW opened, NEW now, NEW u \in BOOLEAN,
           Says(Verdict(draw, R, opened, now), u),
           NEW t, OnlyAt(Side(draw, R, opened, now, u), R, t)
    PROVE  Given(draw, R, opened, now) = t
<1> DEFINE C == Side(draw, R, opened, now, u)
           Is(r) == /\ r \in {R[s.juror].at : s \in C}
                    /\ Cardinality({s \in C : R[s.juror].at < r}) <= PanelSize \div 2
                    /\ Cardinality({s \in C : R[s.juror].at <= r}) > PanelSize \div 2
<1>1. \A r : Is(r) <=> ReachedAt(C, R, r)
  BY DEF ReachedAt, By, Before
<1>2. Given(draw, R, opened, now) = CHOOSE r : Is(r)
  <2>1. C = Concurring(ResolvePanel(draw, R, opened, now), R, now,
                       Tally(ResolvePanel(draw, R, opened, now), R, now) = "upheld")
    BY DEF Side, Verdict, Says
  <2> QED
    BY <2>1 DEF Given, RulingReachedAt
<1>3. Is(t) /\ \A r : Is(r) => r = t
  <2>1. OnlyAt(C, R, t)
    OBVIOUS
  <2> HIDE DEF Is, C
  <2> QED
    BY <1>1, <2>1 DEF OnlyAt
<1> HIDE DEF Is
<1> QED
  BY <1>2, <1>3

\* A verdict once given is the verdict of every later derivation, and was given
\* at the same instant.
LEMMA VerdictStays ==
    ASSUME NEW draw, NEW opened \in Nat, Len(draw) \in Nat,
           NEW R, NEW now, NEW Q, NEW then, Later(R, now, Q, then),
           Verdict(draw, R, opened, now) # "none"
    PROVE  /\ Verdict(draw, Q, opened, then) = Verdict(draw, R, opened, now)
           /\ Given(draw, Q, opened, then) = Given(draw, R, opened, now)
<1>0. now \in Nat /\ then \in Nat /\ Majority \in Nat
  BY JuryAssumption DEF Later, Majority
<1> DEFINE U(u) == Cardinality(Side(draw, R, opened, now, u)) >= Majority
           V(u) == Cardinality(Side(draw, Q, opened, then, u)) >= Majority
<1>1. /\ Verdict(draw, R, opened, now) = IF U(TRUE) THEN "upheld" ELSE IF U(FALSE) THEN "rejected" ELSE "none"
      /\ Verdict(draw, Q, opened, then) = IF V(TRUE) THEN "upheld" ELSE IF V(FALSE) THEN "rejected" ELSE "none"
  BY VerdictIs
<1>2. \A u \in BOOLEAN : U(u) => V(u)
  BY SideGrows
<1>3. ~ (V(TRUE) /\ V(FALSE))
  BY <1>0, SidesFit
<1>4. PICK u \in BOOLEAN : /\ U(u) /\ V(u)
                           /\ (Verdict(draw, R, opened, now) = "upheld") = u
                           /\ (Verdict(draw, Q, opened, then) = "upheld") = u
                           /\ Verdict(draw, Q, opened, then) = Verdict(draw, R, opened, now)
  <2> HIDE DEF U, V
  <2>1. CASE U(TRUE)
    <3>1. V(TRUE)
      BY <1>2, <2>1
    <3>2. Verdict(draw, R, opened, now) = "upheld" /\ Verdict(draw, Q, opened, then) = "upheld"
      BY <1>1, <2>1, <3>1
    <3> WITNESS TRUE \in BOOLEAN
    <3> QED
      BY <2>1, <3>1, <3>2
  <2>2. CASE ~ U(TRUE)
    <3>1. U(FALSE)
      BY <1>1, <2>2
    <3>2. V(FALSE)
      BY <1>2, <3>1
    <3>3. ~ V(TRUE)
      BY <1>3, <3>2
    <3>4. Verdict(draw, R, opened, now) = "rejected" /\ Verdict(draw, Q, opened, then) = "rejected"
      BY <1>1, <2>2, <3>1, <3>2, <3>3
    <3> WITNESS FALSE \in BOOLEAN
    <3> QED
      BY <3>1, <3>2, <3>4
  <2> QED
    BY <2>1, <2>2
<1> DEFINE C == Side(draw, R, opened, now, u)
           D == Side(draw, Q, opened, then, u)
<1>5. IsFiniteSet(C) /\ IsFiniteSet(D)
  BY <1>0, SidesFit
<1>6. /\ C \subseteq D
      /\ \A s \in C : Q[s.juror] = R[s.juror] /\ R[s.juror].at \in Nat /\ R[s.juror].at <= now
      /\ \A s \in D : Q[s.juror].at \in Nat /\ (s \in C \/ Q[s.juror].at >= now)
  BY SideLater
<1>7. Cardinality(C) >= Majority
  BY <1>4
<1> HIDE DEF C, D
<1>8. PICK t \in 0 .. now : ReachedAt(C, R, t)
  BY <1>0, <1>5, <1>6, <1>7, ReachedSomeTime
<1>9. ReachedAt(D, Q, t)
  BY <1>0, <1>5, <1>6, <1>8, ReachedKept
<1>10. \A r : ReachedAt(C, R, r) => r = t
  BY <1>5, <1>6, <1>8, ReachedOnce
<1>11. \A r : ReachedAt(D, Q, r) => r = t
  BY <1>5, <1>6, <1>9, ReachedOnce
<1>12. Given(draw, R, opened, now) = t
  <2>1. OnlyAt(Side(draw, R, opened, now, u), R, t)
    BY <1>8, <1>10 DEF C, OnlyAt
  <2>2. Says(Verdict(draw, R, opened, now), u)
    BY <1>4 DEF Says
  <2> QED
    BY <2>1, <2>2, GivenIs
<1>13. Given(draw, Q, opened, then) = t
  <2>1. OnlyAt(Side(draw, Q, opened, then, u), Q, t)
    BY <1>9, <1>11 DEF D, OnlyAt
  <2>2. Says(Verdict(draw, Q, opened, then), u)
    BY <1>4 DEF Says
  <2> QED
    BY <2>1, <2>2, GivenIs
<1> QED
  BY <1>4, <1>12, <1>13

\* When a ruling was given is an instant no later than the derivation's.
LEMMA GivenNat ==
    ASSUME NEW draw, Len(draw) \in Nat, NEW R, \A j \in DOMAIN R : R[j].at \in Nat,
           NEW opened \in Nat, NEW now \in Nat, Verdict(draw, R, opened, now) # "none"
    PROVE  Given(draw, R, opened, now) \in Nat
<1> DEFINE S(u) == Side(draw, R, opened, now, u)
<1>1. PICK u \in BOOLEAN : /\ (Verdict(draw, R, opened, now) = "upheld") = u
                           /\ Cardinality(S(u)) >= Majority
  <2>1. CASE Cardinality(S(TRUE)) >= Majority
    <3>1. Verdict(draw, R, opened, now) = "upheld"
      BY <2>1, VerdictIs
    <3> WITNESS TRUE \in BOOLEAN
    <3> QED
      BY <2>1, <3>1
  <2>2. CASE ~ (Cardinality(S(TRUE)) >= Majority)
    <3>1. Verdict(draw, R, opened, now) = "rejected" /\ Cardinality(S(FALSE)) >= Majority
      BY <2>2, VerdictIs
    <3> WITNESS FALSE \in BOOLEAN
    <3> QED
      BY <3>1
  <2> QED
    BY <2>1, <2>2
<1>2. IsFiniteSet(S(u))
  BY SidesFit
<1>3. \A s \in S(u) : R[s.juror].at \in Nat /\ R[s.juror].at <= now
  BY DEF Side, Concurring, Counts
<1> HIDE DEF S
<1>4. PICK t \in 0 .. now : ReachedAt(S(u), R, t)
  BY <1>1, <1>2, <1>3, ReachedSomeTime
<1>5. \A r : ReachedAt(S(u), R, r) => r = t
  BY <1>2, <1>3, <1>4, ReachedOnce
<1>6. OnlyAt(Side(draw, R, opened, now, u), R, t)
  BY <1>4, <1>5 DEF S, OnlyAt
<1>7. Says(Verdict(draw, R, opened, now), u)
  BY <1>1 DEF Says
<1>8. Given(draw, R, opened, now) = t
  BY <1>6, <1>7, GivenIs
<1> QED
  BY <1>8

-----------------------------------------------------------------------------
(* Equivocation: the rounds of a case.                                     *)

Opens(cur, i, now) ==
    /\ reseats[i].at <= now
    /\ reseats[i].round = cur.round + 1
    /\ reseats[i].at >= cur.at + EqWindow
    /\ RoundDecision(cur, reseats[i].at) = "none"
    /\ reseats[i].eligible

IsCurrent(c, now, n) ==
    c = [i \in 1 .. n |-> IF i = 1 THEN reseats[1]
                          ELSE IF Opens(c[i - 1], i, now) THEN reseats[i] ELSE c[i - 1]]

LEMMA CurrentExists ==
    ASSUME NEW now, NEW n \in Nat
    PROVE  \E c : IsCurrent(c, now, n)
<1> DEFINE Bad == {k \in 0 .. n : ~ \E c : IsCurrent(c, now, k)}
<1>1. SUFFICES ASSUME Bad # {} PROVE FALSE
  OBVIOUS
<1>2. Bad \subseteq Nat
  OBVIOUS
<1>3. PICK k \in Bad : \A m \in Bad : k <= m
  <2> HIDE DEF Bad
  <2> QED
    BY <1>1, <1>2, LeastNatural
<1>4. k # 0
  <2>1. IsCurrent([i \in 1 .. 0 |-> 0], now, 0)
    BY DEF IsCurrent
  <2> QED
    BY <2>1
<1>5. k - 1 \in 0 .. n /\ k - 1 \notin Bad /\ k \in Nat
  BY <1>3, <1>4
<1>6. PICK c : IsCurrent(c, now, k - 1)
  BY <1>5
<1> DEFINE Step(d, i) == IF i = 1 THEN reseats[1]
                         ELSE IF Opens(d[i - 1], i, now) THEN reseats[i] ELSE d[i - 1]
           d == [i \in 1 .. k |-> IF i < k THEN c[i] ELSE Step(c, k)]
<1>7. \A i \in 1 .. k - 1 : c[i] = Step(c, i)
  BY <1>6 DEF IsCurrent
<1>8. ASSUME NEW i \in 1 .. k PROVE d[i] = Step(d, i)
  <2>1. i # 1 => d[i - 1] = c[i - 1]
    BY <1>5
  <2>2. Step(d, i) = Step(c, i)
    BY <2>1
  <2>3. d[i] = Step(c, i)
    <3>1. CASE i = k
      BY <1>5, <3>1
    <3>2. CASE i # k
      <4>1. i \in 1 .. k - 1 /\ i < k
        BY <1>5, <3>2
      <4>2. d[i] = c[i]
        BY <4>1
      <4> HIDE DEF d, Step
      <4> QED
        BY <1>7, <4>1, <4>2
    <3> QED
      BY <3>1, <3>2
  <2> QED
    BY <2>2, <2>3
<1>9. IsCurrent(d, now, k)
  <2>1. d = [i \in 1 .. k |-> d[i]]
    OBVIOUS
  <2> HIDE DEF d
  <2> QED
    BY <1>8, <2>1 DEF IsCurrent
<1> QED
  BY <1>9

\* Every round was opened by the record or by a re-seat, and there is one.
LEMMA RoundsAre ==
    ASSUME NEW now, Len(reseats) \in Nat \ {0}
    PROVE  /\ EqRounds(now) # {}
           /\ \A r \in EqRounds(now) : \E i \in 1 .. Len(reseats) : r = reseats[i]
<1> DEFINE n == Len(reseats)
           Eq(c) == c = [i \in 1 .. Len(reseats) |->
                          IF i = 1 THEN reseats[1]
                          ELSE IF /\ reseats[i].at <= now
                                  /\ reseats[i].round = c[i - 1].round + 1
                                  /\ reseats[i].at >= c[i - 1].at + EqWindow
                                  /\ RoundDecision(c[i - 1], reseats[i].at) = "none"
                                  /\ reseats[i].eligible
                               THEN reseats[i] ELSE c[i - 1]]
           v == CHOOSE c : Eq(c)
<1>1. EqRounds(now) = {v[i] : i \in 1 .. Len(reseats)}
  BY DEF EqRounds
<1>2. \E c : Eq(c)
  <2>1. PICK c : IsCurrent(c, now, Len(reseats))
    BY CurrentExists
  <2>2. Eq(c)
    BY <2>1 DEF IsCurrent, Opens
  <2> QED
    BY <2>2
<1>3. Eq(v)
  BY <1>2
<1> HIDE DEF v
<1>4. \A i \in 1 .. n : v[i] = IF i = 1 THEN reseats[1]
                               ELSE IF Opens(v[i - 1], i, now) THEN reseats[i] ELSE v[i - 1]
  BY <1>3 DEF Opens
<1> DEFINE Bad == {i \in 1 .. n : ~ \E m \in 1 .. n : v[i] = reseats[m]}
<1>5. Bad = {}
  <2> SUFFICES ASSUME Bad # {} PROVE FALSE
    OBVIOUS
  <2>1. Bad \subseteq Nat
    OBVIOUS
  <2>2. PICK k \in Bad : \A m \in Bad : k <= m
    <3> HIDE DEF Bad
    <3> QED
      BY <2>1, LeastNatural
  <2>3. k # 1
    BY <1>4
  <2>4. k - 1 \in 1 .. n /\ k - 1 \notin Bad
    BY <2>2, <2>3
  <2>5. v[k] = reseats[k] \/ v[k] = v[k - 1]
    BY <1>4, <2>2, <2>3
  <2> QED
    BY <2>2, <2>4, <2>5
<1>6. 1 \in 1 .. Len(reseats)
  OBVIOUS
<1> QED
  BY <1>1, <1>5, <1>6

\* The current round is one of them: the round numbers are bounded.
LEMMA CurrentRoundIs ==
    ASSUME NEW now, Len(reseats) \in Nat \ {0},
           \A i \in 1 .. Len(reseats) : reseats[i].round \in Nat /\ reseats[i].round < i
    PROVE  \E i \in 1 .. Len(reseats) : CurrentRound(now) = reseats[i]
<1> DEFINE T == {Len(reseats) - r.round : r \in EqRounds(now)}
<1>1. /\ EqRounds(now) # {}
      /\ \A r \in EqRounds(now) : \E i \in 1 .. Len(reseats) : r = reseats[i]
  BY RoundsAre
<1>2. \A r \in EqRounds(now) : r.round \in Nat /\ r.round < Len(reseats)
  BY <1>1
<1>3. T \subseteq Nat /\ T # {}
  BY <1>1, <1>2
<1>4. PICK t \in T : \A u \in T : t <= u
  <2> HIDE DEF T
  <2> QED
    BY <1>3, LeastNatural
<1>5. PICK r \in EqRounds(now) : t = Len(reseats) - r.round
  BY <1>4
<1>6. \A s \in EqRounds(now) : s.round <= r.round
  <2> SUFFICES ASSUME NEW s \in EqRounds(now) PROVE s.round <= r.round
    OBVIOUS
  <2>1. t <= Len(reseats) - s.round
    BY <1>4
  <2> QED
    BY <1>2, <1>5, <2>1
<1>7. CurrentRound(now) \in EqRounds(now)
  BY <1>6 DEF CurrentRound
<1> QED
  BY <1>1, <1>7

EqRecords == [round : Nat, at : Nat, draw : EqDraws, eligible : BOOLEAN]

\* A juror has one ballot in a round.
OneEach(B) == \A b, c \in B : b.round = c.round /\ b.juror = c.juror => b = c

EqTypes ==
    /\ eqclock \in Nat /\ eqtail \in Nat
    /\ OneEach(eqballots) /\ \A b \in eqballots : b.at \in Nat
    /\ reseats \in Seq(EqRecords)
    /\ reseats # << >>
    /\ \A i \in 1 .. Len(reseats) : reseats[i].round < i
    /\ eqruling \in {"none", "upheld", "rejected"}

\* The ruling had its majority when it was given, and the ballots still say so.
Held(r, now, u) ==
    /\ r.at \in Nat /\ Drawn(r.draw) /\ now \in Nat /\ now <= eqtail
    /\ Cardinality(Side(r.draw, RoundBallots(r.round), r.at, now, u)) >= Majority

EqInv ==
    /\ EqTypes
    /\ eqruling # "none" => Held(eqbasis.opened, eqbasis.now, eqruling = "upheld")

LEMMA EqFacts ==
    ASSUME EqTypes
    PROVE  /\ Len(reseats) \in Nat \ {0} /\ DOMAIN reseats = 1 .. Len(reseats)
           /\ \A i \in 1 .. Len(reseats) :
                 /\ reseats[i] \in EqRecords
                 /\ reseats[i].round \in Nat /\ reseats[i].round < i
                 /\ reseats[i].at \in Nat /\ Drawn(reseats[i].draw)
           /\ EqAdmittedAt \in Nat /\ eqtail <= EqAdmittedAt /\ eqclock <= EqAdmittedAt
<1>1. Len(reseats) \in Nat \ {0} /\ DOMAIN reseats = 1 .. Len(reseats)
  BY DEF EqTypes
<1>a. \A S : reseats \in Seq(S) => \A i \in 1 .. Len(reseats) : reseats[i] \in S
  OBVIOUS
<1>2. \A i \in 1 .. Len(reseats) : reseats[i] \in EqRecords /\ reseats[i].round < i
  BY <1>a DEF EqTypes
<1>3. \A x \in EqRecords : x.round \in Nat /\ x.at \in Nat /\ Drawn(x.draw)
  BY EquivocationAssumption DEF EqRecords
<1>4. EqAdmittedAt \in Nat /\ eqtail <= EqAdmittedAt /\ eqclock <= EqAdmittedAt
  BY DEF EqTypes, EqAdmittedAt
<1> QED
  BY <1>1, <1>2, <1>3, <1>4

\* round_ballots over a set of ballots.
Cast(B, n) ==
    LET cast == {b \in B : b.round = n}
    IN  [j \in {b.juror : b \in cast} |->
            LET b == CHOOSE c \in cast : c.juror = j
            IN  [uphold |-> b.uphold, at |-> b.at]]

LEMMA CastIs ==
    ASSUME NEW B, OneEach(B), NEW n
    PROVE  /\ \A j : j \in DOMAIN Cast(B, n) <=> \E b \in B : b.round = n /\ b.juror = j
           /\ \A b \in B : b.round = n => Cast(B, n)[b.juror] = [uphold |-> b.uphold, at |-> b.at]
<1> DEFINE cast == {b \in B : b.round = n}
           pick(j) == CHOOSE c \in cast : c.juror = j
<1>1. Cast(B, n) = [j \in {b.juror : b \in cast} |->
                      [uphold |-> pick(j).uphold, at |-> pick(j).at]]
  BY DEF Cast
<1>2. ASSUME NEW b \in B, b.round = n PROVE pick(b.juror) = b /\ b.juror \in {x.juror : x \in cast}
  <2>1. b \in cast
    BY <1>2
  <2>2. pick(b.juror) \in cast /\ pick(b.juror).juror = b.juror
    BY <2>1
  <2>3. pick(b.juror) \in B /\ pick(b.juror).round = n
    BY <2>2
  <2> HIDE DEF pick, cast
  <2> QED
    BY <1>2, <2>1, <2>2, <2>3 DEF OneEach
<1>3. \A j : j \in DOMAIN Cast(B, n) <=> \E b \in B : b.round = n /\ b.juror = j
  BY <1>1
<1>4. ASSUME NEW b \in B, b.round = n
      PROVE  Cast(B, n)[b.juror] = [uphold |-> b.uphold, at |-> b.at]
  <2> HIDE DEF pick, cast
  <2> QED
    BY <1>1, <1>2, <1>4
<1> QED
  BY <1>3, <1>4

\* A ballot of an instant or later is later than what was cast before.
LEMMA CastGrows ==
    ASSUME NEW B, NEW b, OneEach(B), OneEach(B \cup {b}), \A c \in B \cup {b} : c.at \in Nat,
           NEW t \in Nat, b.at >= t, NEW n
    PROVE  Later(Cast(B, n), t, Cast(B \cup {b}, n), t)
<1> DEFINE C == B \cup {b}
           R == Cast(B, n)
           Q == Cast(C, n)
<1>1. /\ \A j : j \in DOMAIN R <=> \E c \in B : c.round = n /\ c.juror = j
      /\ \A c \in B : c.round = n => R[c.juror] = [uphold |-> c.uphold, at |-> c.at]
  BY CastIs
<1>2. /\ \A j : j \in DOMAIN Q <=> \E c \in C : c.round = n /\ c.juror = j
      /\ \A c \in C : c.round = n => Q[c.juror] = [uphold |-> c.uphold, at |-> c.at]
  <2> HIDE DEF C
  <2> QED
    BY CastIs DEF C
<1> HIDE DEF R, Q
<1>3. ASSUME NEW j \in DOMAIN R PROVE j \in DOMAIN Q /\ Q[j] = R[j]
  <2>1. PICK c \in B : c.round = n /\ c.juror = j
    BY <1>1
  <2>2. c \in C
    OBVIOUS
  <2> QED
    BY <1>1, <1>2, <2>1, <2>2
<1>4. ASSUME NEW j \in DOMAIN Q PROVE Q[j].at \in Nat /\ (j \notin DOMAIN R => Q[j].at >= t)
  <2>1. PICK c \in C : c.round = n /\ c.juror = j
    BY <1>2
  <2>5. Q[c.juror] = [uphold |-> c.uphold, at |-> c.at]
    BY <1>2, <2>1
  <2>2. Q[j].at = c.at
    BY <2>1, <2>5
  <2>3. c.at \in Nat
    OBVIOUS
  <2>4. c \in B => j \in DOMAIN R
    BY <1>1, <2>1
  <2> QED
    BY <2>2, <2>3, <2>4
<1>5. Later(R, t, Q, t)
  BY <1>3, <1>4 DEF Later
<1> QED
  BY <1>5 DEF R, Q

LEMMA CastStays ==
    ASSUME NEW B, OneEach(B), \A c \in B : c.at \in Nat,
           NEW t \in Nat, NEW then \in Nat, t <= then, NEW n
    PROVE  Later(Cast(B, n), t, Cast(B, n), then)
<1>1. /\ \A j : j \in DOMAIN Cast(B, n) <=> \E c \in B : c.round = n /\ c.juror = j
      /\ \A c \in B : c.round = n => Cast(B, n)[c.juror] = [uphold |-> c.uphold, at |-> c.at]
  BY CastIs
<1>2. ASSUME NEW j \in DOMAIN Cast(B, n) PROVE Cast(B, n)[j].at \in Nat
  <2>1. PICK c \in B : c.round = n /\ c.juror = j
    BY <1>1
  <2>2. Cast(B, n)[c.juror] = [uphold |-> c.uphold, at |-> c.at]
    BY <1>1, <2>1
  <2>3. Cast(B, n)[j].at = c.at
    BY <2>1, <2>2
  <2> QED
    BY <2>3
<1> QED
  BY <1>2 DEF Later

LEMMA BallotsAreCast == \A n : RoundBallots(n) = Cast(eqballots, n)
  BY DEF RoundBallots, Cast

LEMMA EqInit == EquivocationInit => EqInv
<1> SUFFICES ASSUME EquivocationInit PROVE EqInv
  OBVIOUS
<1>1. PICK d \in EqDraws : reseats = <<[round |-> 0, at |-> 0, draw |-> d, eligible |-> TRUE]>>
  BY DEF EquivocationInit
<1> DEFINE r == [round |-> 0, at |-> 0, draw |-> d, eligible |-> TRUE]
<1>2. r \in EqRecords /\ r.round = 0
  BY DEF EqRecords
<1>3. reseats \in Seq(EqRecords) /\ reseats # << >> /\ Len(reseats) = 1 /\ reseats[1] = r
  BY <1>1, <1>2
<1>4. \A i \in 1 .. Len(reseats) : reseats[i].round < i
  BY <1>2, <1>3
<1>5. EqTypes
  BY <1>3, <1>4 DEF EquivocationInit, EqTypes, OneEach
<1> QED
  BY <1>5 DEF EqInv, EquivocationInit

\* What was read from the ballots stays, while neither they nor the ruling change.
LEMMA HeldStays ==
    ASSUME EqInv, EqTypes', UNCHANGED <<eqballots, eqruling, eqbasis>>, eqtail <= eqtail'
    PROVE  EqInv'
<1> SUFFICES ASSUME eqruling # "none"
             PROVE  Held(eqbasis.opened, eqbasis.now, eqruling = "upheld")'
  BY DEF EqInv
<1>1. Held(eqbasis.opened, eqbasis.now, eqruling = "upheld")
  BY DEF EqInv
<1>2. \A n : RoundBallots(n)' = RoundBallots(n)
  BY DEF RoundBallots
<1>3. eqtail \in Nat /\ eqtail' \in Nat
  BY DEF EqInv, EqTypes
<1>4. \A k \in Nat : k <= eqtail => k <= eqtail'
  BY <1>3
<1> QED
  BY <1>1, <1>2, <1>4 DEF Held

LEMMA EqNext == EqInv /\ [EquivocationNext]_equivocationVars => EqInv'
<1> SUFFICES ASSUME EqInv, [EquivocationNext]_equivocationVars PROVE EqInv'
  OBVIOUS
<1>t. EqTypes
  BY DEF EqInv
<1>0. /\ Len(reseats) \in Nat \ {0} /\ DOMAIN reseats = 1 .. Len(reseats)
      /\ \A i \in 1 .. Len(reseats) :
            /\ reseats[i] \in EqRecords
            /\ reseats[i].round \in Nat /\ reseats[i].round < i
            /\ reseats[i].at \in Nat /\ Drawn(reseats[i].draw)
      /\ EqAdmittedAt \in Nat /\ eqtail <= EqAdmittedAt /\ eqclock <= EqAdmittedAt
  BY <1>t, EqFacts
<1>1. ASSUME NEW r \in EqRounds(EqAdmittedAt), NEW u \in BOOLEAN, NEW j,
             AppendEquivocationBallot(r, j, u)
      PROVE  EqInv'
  <2> DEFINE b == [round |-> r.round, juror |-> j, uphold |-> u, at |-> EqAdmittedAt]
  <2>1. /\ eqballots' = eqballots \cup {b} /\ eqtail' = EqAdmittedAt
        /\ j \notin DOMAIN RoundBallots(r.round)
    BY <1>1 DEF AppendEquivocationBallot
  <2>2. UNCHANGED <<eqclock, reseats, eqruling, eqbasis>>
    BY <1>1 DEF AppendEquivocationBallot
  <2>3. b.at = EqAdmittedAt /\ b.round = r.round /\ b.juror = j
    OBVIOUS
  <2> HIDE DEF b
  <2>4. OneEach(eqballots) /\ \A c \in eqballots : c.at \in Nat
    BY <1>t DEF EqTypes
  <2>5. \A c \in eqballots : ~ (c.round = r.round /\ c.juror = j)
    BY <2>1, <2>4, BallotsAreCast, CastIs
  <2>6. OneEach(eqballots') /\ \A c \in eqballots' : c.at \in Nat
    BY <1>0, <2>1, <2>3, <2>4, <2>5 DEF OneEach
  <2>7. EqTypes'
    BY <1>0, <1>t, <2>1, <2>2, <2>6 DEF EqTypes
  <2>8. ASSUME eqruling # "none"
        PROVE  Held(eqbasis.opened, eqbasis.now, eqruling = "upheld")'
    <3> DEFINE o == eqbasis.opened
               v == (eqruling = "upheld")
    <3>1. Held(o, eqbasis.now, v)
      BY <2>8 DEF EqInv
    <3>2. /\ o.at \in Nat /\ Drawn(o.draw) /\ eqbasis.now \in Nat /\ eqbasis.now <= eqtail
          /\ Cardinality(Side(o.draw, Cast(eqballots, o.round), o.at, eqbasis.now, v)) >= Majority
      BY <3>1, BallotsAreCast DEF Held
    <3>3. eqbasis.now <= EqAdmittedAt
      BY <1>0, <1>t, <3>2 DEF EqTypes
    <3>4. Later(Cast(eqballots, o.round), eqbasis.now, Cast(eqballots \cup {b}, o.round), eqbasis.now)
      BY <2>1, <2>3, <2>4, <2>6, <3>2, <3>3, CastGrows
    <3>5. Len(o.draw) \in Nat
      BY <3>2 DEF Drawn
    <3> HIDE DEF o, v
    <3>6. Cardinality(Side(o.draw, Cast(eqballots \cup {b}, o.round), o.at, eqbasis.now, v)) >= Majority
      BY <3>2, <3>4, <3>5, SideGrows
    <3>7. \A n : RoundBallots(n)' = Cast(eqballots \cup {b}, n)
      BY <2>1 DEF RoundBallots, Cast
    <3> QED
      BY <2>1, <2>2, <3>2, <3>3, <3>6, <3>7 DEF Held, o, v
  <2> QED
    BY <2>2, <2>7, <2>8 DEF EqInv
<1>2. ASSUME NEW d \in EqDraws, AppendEquivocationReseat(d) PROVE EqInv'
  <2>1. PICK i \in 1 .. Len(reseats) : CurrentRound(EqAdmittedAt) = reseats[i]
    BY <1>0, CurrentRoundIs
  <2> DEFINE r == [round |-> reseats[i].round + 1, at |-> EqAdmittedAt, draw |-> d, eligible |-> TRUE]
  <2>2. reseats' = Append(reseats, r) /\ eqtail' = EqAdmittedAt
    BY <1>2, <2>1 DEF AppendEquivocationReseat
  <2>3. UNCHANGED <<eqclock, eqballots, eqruling, eqbasis>>
    BY <1>2 DEF AppendEquivocationReseat
  <2>4. r \in EqRecords /\ r.round = reseats[i].round + 1
    BY <1>0 DEF EqRecords
  <2>5. /\ reseats' \in Seq(EqRecords) /\ Len(reseats') = Len(reseats) + 1
        /\ reseats'[Len(reseats) + 1] = r
        /\ \A k \in 1 .. Len(reseats) : reseats'[k] = reseats[k]
    <3>1. reseats \in Seq(EqRecords)
      BY <1>t DEF EqTypes
    <3> HIDE DEF r
    <3> QED
      BY <2>2, <2>4, <3>1
  <2>6. reseats' # << >>
    BY <1>0, <2>5
  <2>7. ASSUME NEW k \in 1 .. Len(reseats') PROVE reseats'[k].round < k
    <3>1. CASE k \in 1 .. Len(reseats)
      BY <1>0, <2>5, <3>1
    <3>2. CASE k = Len(reseats) + 1
      <4>1. reseats'[k].round = reseats[i].round + 1
        BY <2>4, <2>5, <3>2
      <4> QED
        BY <1>0, <2>1, <3>2, <4>1
    <3>3. k \in 1 .. Len(reseats) + 1
      BY <2>5
    <3>4. \A n \in Nat : k \in 1 .. n + 1 => k \in 1 .. n \/ k = n + 1
      OBVIOUS
    <3> QED
      BY <1>0, <3>1, <3>2, <3>3, <3>4
  <2>8. EqTypes'
    BY <1>0, <1>t, <2>2, <2>3, <2>5, <2>6, <2>7 DEF EqTypes
  <2> QED
    BY <1>0, <2>2, <2>3, <2>8, HeldStays
<1>3. ASSUME ResolveEquivocation PROVE EqInv'
  <2>1. /\ eqruling = "none" /\ eqruling' = DecideEquivocation(eqclock)
        /\ eqruling' \in {"upheld", "rejected"} /\ eqtail' = EqAdmittedAt
        /\ eqbasis' = [opened |-> CurrentRound(eqclock), now |-> eqclock]
        /\ UNCHANGED <<eqclock, eqballots, reseats>>
    BY <1>3 DEF ResolveEquivocation
  <2>2. EqTypes'
    BY <1>0, <1>t, <2>1 DEF EqTypes
  <2>3. PICK i \in 1 .. Len(reseats) : CurrentRound(eqclock) = reseats[i]
    BY <1>0, CurrentRoundIs
  <2> DEFINE r == reseats[i]
             S(v) == Side(r.draw, RoundBallots(r.round), r.at, eqclock, v)
  <2>4. RoundDecision(r, eqclock) = eqruling'
    BY <2>1, <2>3 DEF DecideEquivocation
  <2>5. Verdict(r.draw, RoundBallots(r.round), r.at, eqclock) = eqruling'
    BY <2>4 DEF RoundDecision, Verdict
  <2>6. eqruling' = IF Cardinality(S(TRUE)) >= Majority THEN "upheld"
                    ELSE IF Cardinality(S(FALSE)) >= Majority THEN "rejected" ELSE "none"
    BY <2>5, VerdictIs
  <2>7. Cardinality(S(eqruling' = "upheld")) >= Majority
    <3>1. CASE eqruling' = "upheld"
      <4>1. (eqruling' = "upheld") = TRUE
        BY <3>1
      <4>2. Cardinality(S(TRUE)) >= Majority
        <5> HIDE DEF S
        <5> QED
          BY <2>6, <3>1
      <4> QED
        BY <4>1, <4>2
    <3>2. CASE eqruling' = "rejected"
      <4>1. (eqruling' = "upheld") = FALSE
        BY <3>2
      <4>2. Cardinality(S(FALSE)) >= Majority
        <5> HIDE DEF S
        <5> QED
          BY <2>6, <3>2
      <4> QED
        BY <4>1, <4>2
    <3> QED
      BY <2>1, <3>1, <3>2
  <2>8. eqbasis'.opened = r /\ eqbasis'.now = eqclock
    BY <2>1, <2>3
  <2>9. \A n : RoundBallots(n)' = RoundBallots(n)
    BY <2>1 DEF RoundBallots
  <2>10. r.at \in Nat /\ Drawn(r.draw) /\ eqclock \in Nat
    BY <1>0, <1>t DEF EqTypes
  <2> HIDE DEF r
  <2>11. Held(eqbasis.opened, eqbasis.now, eqruling = "upheld")'
    BY <1>0, <2>1, <2>7, <2>8, <2>9, <2>10 DEF Held
  <2> QED
    BY <2>2, <2>11 DEF EqInv
<1>4. ASSUME EquivocationTick \/ EquivocationClockBack PROVE EqInv'
  <2>1. UNCHANGED <<eqtail, eqballots, reseats, eqruling, eqbasis>>
    BY <1>4 DEF EquivocationTick, EquivocationClockBack
  <2>2. eqclock' \in Nat
    BY <1>4, <1>t DEF EquivocationTick, EquivocationClockBack, EqTypes
  <2>3. EqTypes'
    BY <1>t, <2>1, <2>2 DEF EqTypes
  <2>4. eqtail <= eqtail'
    BY <1>t, <2>1 DEF EqTypes
  <2> QED
    BY <2>1, <2>3, <2>4, HeldStays
<1>5. ASSUME NEW draws \in [DOMAIN reseats -> EqDraws], NEW el \in [DOMAIN reseats -> BOOLEAN],
             EquivocationRedraw(draws, el)
      PROVE  EqInv'
  <2> DEFINE r(i) == [reseats[i] EXCEPT !.draw = draws[i], !.eligible = el[i]]
  <2>1. /\ reseats' = [i \in 1 .. Len(reseats) |-> r(i)]
        /\ UNCHANGED <<eqclock, eqtail, eqballots, eqruling, eqbasis>>
    BY <1>0, <1>5 DEF EquivocationRedraw
  <2>2. ASSUME NEW i \in 1 .. Len(reseats)
        PROVE  r(i) \in EqRecords /\ r(i).round = reseats[i].round
    <3>1. reseats[i] \in EqRecords /\ draws[i] \in EqDraws /\ el[i] \in BOOLEAN
      BY <1>0
    <3> QED
      BY <3>1 DEF EqRecords
  <2> HIDE DEF r
  <2>3. reseats' \in Seq(EqRecords) /\ Len(reseats') = Len(reseats)
    BY <1>0, <2>1, <2>2
  <2>4. reseats' # << >>
    BY <1>0, <2>3
  <2>5. \A i \in 1 .. Len(reseats') : reseats'[i].round < i
    BY <1>0, <2>1, <2>2, <2>3
  <2>6. EqTypes'
    BY <1>t, <2>1, <2>3, <2>4, <2>5 DEF EqTypes
  <2>7. eqtail <= eqtail'
    BY <1>t, <2>1 DEF EqTypes
  <2> QED
    BY <2>1, <2>6, <2>7, HeldStays
<1>6. CASE UNCHANGED equivocationVars
  <2>1. EqTypes'
    BY <1>t, <1>6 DEF equivocationVars, EqTypes
  <2>2. eqtail <= eqtail'
    BY <1>t, <1>6 DEF EqTypes, equivocationVars
  <2> QED
    BY <1>6, <2>1, <2>2, HeldStays DEF equivocationVars
<1> QED
  BY <1>1, <1>2, <1>3, <1>4, <1>5, <1>6 DEF EquivocationNext

\* A seat that counts is held by a juror with a ballot of the round, in time.
LEMMA EqHolds == EqInv => JuryOfOneRound
<1> SUFFICES ASSUME EqInv, eqruling # "none", NEW now \in eqbasis.now .. EqLastInstant
             PROVE  LET r == eqbasis.opened
                    IN  Cardinality({s \in RoundPanel(r, now) :
                           \E b \in eqballots : /\ b.round = r.round /\ b.juror = s.juror
                                                /\ b.uphold = (eqruling = "upheld")
                                                /\ b.at >= s.seated /\ b.at <= s.seated + JurorResponse
                                                /\ b.at <= now}) >= Majority
  BY DEF JuryOfOneRound
<1> DEFINE r == eqbasis.opened
           u == (eqruling = "upheld")
           R == Cast(eqballots, r.round)
           W == {s \in RoundPanel(r, now) :
                    \E b \in eqballots : /\ b.round = r.round /\ b.juror = s.juror
                                         /\ b.uphold = u
                                         /\ b.at >= s.seated /\ b.at <= s.seated + JurorResponse
                                         /\ b.at <= now}
           panel == ResolvePanel(r.draw, R, r.at, now)
           S == Side(r.draw, R, r.at, now, u)
<1>1. Held(r, eqbasis.now, u) /\ OneEach(eqballots) /\ \A c \in eqballots : c.at \in Nat
  BY DEF EqInv, EqTypes
<1>2. /\ r.at \in Nat /\ Drawn(r.draw) /\ Len(r.draw) \in Nat /\ eqbasis.now \in Nat
      /\ Cardinality(Side(r.draw, R, r.at, eqbasis.now, u)) >= Majority
  BY <1>1, BallotsAreCast DEF Held, Drawn
<1>3. now \in Nat /\ eqbasis.now <= now /\ Majority \in Nat
  BY <1>2, JuryAssumption DEF Majority
<1>4. Later(R, eqbasis.now, R, now)
  BY <1>1, <1>2, <1>3, CastStays
<1>5. /\ \A j : j \in DOMAIN R <=> \E b \in eqballots : b.round = r.round /\ b.juror = j
      /\ \A b \in eqballots : b.round = r.round => R[b.juror] = [uphold |-> b.uphold, at |-> b.at]
  BY <1>1, CastIs
<1>6. RoundPanel(r, now) = panel
  BY BallotsAreCast DEF RoundPanel
<1> HIDE DEF r, u, R
<1>7. Cardinality(S) >= Majority
  BY <1>2, <1>4, SideGrows
<1>8. S \subseteq W
  <2> SUFFICES ASSUME NEW s \in S PROVE s \in W
    OBVIOUS
  <2>1. s \in panel /\ Counts(s, R, now) /\ R[s.juror].uphold = u
    BY DEF Side, Concurring
  <2>2. s.juror \in DOMAIN R
    BY <2>1 DEF Counts
  <2>3. PICK b \in eqballots : b.round = r.round /\ b.juror = s.juror
    BY <1>5, <2>2
  <2>6. R[b.juror] = [uphold |-> b.uphold, at |-> b.at]
    BY <1>5, <2>3
  <2>4. R[s.juror].uphold = b.uphold /\ R[s.juror].at = b.at
    BY <2>3, <2>6
  <2>5. b.uphold = u /\ b.at >= s.seated /\ b.at <= s.seated + JurorResponse /\ b.at <= now
    BY <2>1, <2>4 DEF Counts
  <2> QED
    BY <1>6, <2>1, <2>3, <2>5
<1>9. IsFiniteSet(W) /\ Cardinality(W) \in Nat
  <2>1. IsFiniteSet(panel)
    BY <1>2, <1>3, PanelBound
  <2>2. W \in SUBSET panel
    BY <1>6
  <2> HIDE DEF W, panel
  <2>3. IsFiniteSet(W)
    BY <2>1, <2>2, FS_Subset
  <2> QED
    BY <2>3, FS_CardinalityType
<1>10. Cardinality(S) \in Nat
  BY <1>2, <1>3, SidesFit
<1> HIDE DEF W, S
<1>11. Cardinality(S) <= Cardinality(W)
  BY <1>8, <1>9, FS_Subset
<1>12. Cardinality(W) >= Majority
  BY <1>3, <1>7, <1>9, <1>10, <1>11
<1> QED
  BY <1>12 DEF W, r, u

\* The station's terminal ruling on an equivocation is the verdict of one round's
\* seated jurors, in ballots of that round and within each seat's window, and
\* stays so: however often the case is re-seated, whatever ballots arrive late,
\* whatever founders are read later and wherever the clock is set.
THEOREM JuryOfOneRoundTheorem == EquivocationSpec => []JuryOfOneRound
<1>1. EquivocationInit => EqInv
  BY EqInit
<1>2. EqInv /\ [EquivocationNext]_equivocationVars => EqInv'
  BY EqNext
<1>3. EqInv => JuryOfOneRound
  BY EqHolds
<1> QED
  BY <1>1, <1>2, <1>3, PTL DEF EquivocationSpec

-----------------------------------------------------------------------------
(* Dispute: the rulings on the log, each from a seat its juror held under  *)
(* the founders of the day.                                                *)

RuledFromSeat(draw, R, j) ==
    \E n \in 1 .. Len(draw) : \E t \in Seating(draw, R, 0, R[j].at)[n] :
        draw[n] = j /\ t <= R[j].at /\ R[j].at <= t + JurorResponse

Dated(R, tail) == tail \in Nat /\ \A j \in DOMAIN R : R[j].at \in Nat /\ R[j].at <= tail

\* Such a ruling counts whenever the panel is derived again from that draw.
LEMMA RulingCounts ==
    ASSUME NEW draw, Drawn(draw), NEW R, NEW tail, Dated(R, tail), NEW j \in DOMAIN R,
           RuledFromSeat(draw, R, j), NEW now \in Nat, R[j].at <= now
    PROVE  \E s \in ResolvePanel(draw, R, 0, now) : s.juror = j /\ Counts(s, R, now)
<1> DEFINE a == R[j].at
           w == Seating(draw, R, 0, a)
           v == Seating(draw, R, 0, now)
<1>1. PICK n \in 1 .. Len(draw) : \E t \in w[n] :
          draw[n] = j /\ t <= a /\ a <= t + JurorResponse
  BY DEF RuledFromSeat
<1>2. PICK t \in w[n] : draw[n] = j /\ t <= a /\ a <= t + JurorResponse
  BY <1>1
<1>3. Later(R, a, R, now)
  BY DEF Later, Dated
<1>4. Len(draw) \in Nat /\ a \in Nat
  BY DEF Dated, Drawn
<1>5. IsSeated(w, draw, R, 0, a) /\ IsSeated(v, draw, R, 0, now)
  BY <1>4, SeatingSeats
<1>6. t \in v[n]
  <2> HIDE DEF a, w, v
  <2> QED
    BY <1>2, <1>3, <1>4, <1>5, SeatingLater
<1> DEFINE s == Seat(draw, n, t)
<1>7. s.juror = j /\ s.seated = t
  BY <1>2 DEF Seat
<1>8. t \in Nat
  <2>1. Sound(w, 0, a, n)
    <3> HIDE DEF a, w
    <3> QED
      BY <1>4, <1>5, SeatingSound
  <2> HIDE DEF w
  <2> QED
    BY <1>2, <2>1 DEF Sound
<1>9. Counts(s, R, now)
  BY <1>2, <1>4, <1>7, <1>8 DEF Counts
<1>10. ~ NoShow(s, R, now)
  BY <1>9 DEF NoShow
<1>11. s \in ResolvePanel(draw, R, 0, now)
  BY <1>6, <1>10, PanelIs
<1> QED
  BY <1>7, <1>9, <1>11

Ruled(R, j, u, a) == Recorded(R, j, [uphold |-> u, at |-> a])

\* A ruling of the tail's instant or later is later than what is on the log.
LEMMA RulingIsLater ==
    ASSUME NEW R, NEW tail, Dated(R, tail), NEW j, j \notin DOMAIN R,
           NEW u, NEW b \in Nat, tail <= b
    PROVE  /\ Dated(Ruled(R, j, u, b), b)
           /\ \A a \in Nat : a <= b => Later(R, a, Ruled(R, j, u, b), a)
<1> DEFINE Q == Ruled(R, j, u, b)
<1>1. /\ DOMAIN Q = DOMAIN R \cup {j} /\ Q[j].at = b
      /\ \A x \in DOMAIN R : Q[x] = R[x]
  BY DEF Ruled, Recorded
<1> HIDE DEF Q
<1>2. ASSUME NEW x \in DOMAIN Q PROVE Q[x].at \in Nat /\ Q[x].at <= b
  <2>1. CASE x \in DOMAIN R
    <3>1. R[x].at \in Nat /\ R[x].at <= tail /\ tail \in Nat
      BY <2>1 DEF Dated
    <3> QED
      BY <1>1, <2>1, <3>1
  <2>2. CASE x = j
    BY <1>1, <2>2
  <2> QED
    BY <1>1, <2>1, <2>2
<1>3. ASSUME NEW a \in Nat, a <= b PROVE Later(R, a, Q, a)
  BY <1>1, <1>2, <1>3 DEF Later
<1>4. Dated(Q, b) /\ \A a \in Nat : a <= b => Later(R, a, Q, a)
  BY <1>2, <1>3 DEF Dated
<1> QED
  BY <1>4 DEF Q

\* It disturbs nobody else's seat, under whatever draw.
LEMMA SeatsKept ==
    ASSUME NEW draw, Drawn(draw), NEW R, NEW tail, Dated(R, tail), NEW j, j \notin DOMAIN R,
           NEW u, NEW b \in Nat, tail <= b
    PROVE  \A a \in Nat : a <= b =>
              \A n \in 1 .. Len(draw) :
                 Seating(draw, Ruled(R, j, u, b), 0, a)[n] = Seating(draw, R, 0, a)[n]
<1> DEFINE Q == Ruled(R, j, u, b)
<1> SUFFICES ASSUME NEW a \in Nat, a <= b
             PROVE  \A n \in 1 .. Len(draw) : Seating(draw, Q, 0, a)[n] = Seating(draw, R, 0, a)[n]
  OBVIOUS
<1>0. Len(draw) \in Nat
  BY DEF Drawn
<1>1. Later(R, a, Q, a)
  BY RulingIsLater
<1> HIDE DEF Q
<1>2. /\ IsSeated(Seating(draw, Q, 0, a), draw, Q, 0, a)
      /\ IsSeated(Seating(draw, R, 0, a), draw, R, 0, a)
  BY <1>0, SeatingSeats
<1> QED
  BY <1>0, <1>1, <1>2, SeatingUnchanged

LEMMA SeatedRulingKept ==
    ASSUME NEW draw, Drawn(draw), NEW R, NEW tail, Dated(R, tail), NEW j, j \notin DOMAIN R,
           NEW u, NEW b \in Nat, tail <= b, NEW x \in DOMAIN R, RuledFromSeat(draw, R, x)
    PROVE  RuledFromSeat(draw, Ruled(R, j, u, b), x)
<1> DEFINE Q == Ruled(R, j, u, b)
<1>1. Q[x] = R[x]
  BY DEF Ruled, Recorded
<1>2. R[x].at \in Nat /\ R[x].at <= b
  BY DEF Dated
<1>3. \A n \in 1 .. Len(draw) :
         Seating(draw, Q, 0, R[x].at)[n] = Seating(draw, R, 0, R[x].at)[n]
  BY <1>2, SeatsKept
<1> HIDE DEF Q
<1>4. RuledFromSeat(draw, Q, x)
  BY <1>1, <1>3 DEF RuledFromSeat
<1> QED
  BY <1>4 DEF Q

\* A ruling the gate admits is from a seat its juror holds.
LEMMA GateSeats ==
    ASSUME NEW draw, Drawn(draw), NEW R, NEW tail, Dated(R, tail), NEW j, j \notin DOMAIN R,
           NEW u, NEW b \in Nat, tail <= b,
           HoldsLiveSeat(j, ResolvePanel(draw, R, 0, b), R, b)
    PROVE  RuledFromSeat(draw, Ruled(R, j, u, b), j)
<1> DEFINE Q == Ruled(R, j, u, b)
           panel == ResolvePanel(draw, R, 0, b)
           w == Seating(draw, R, 0, b)
<1>0. Q[j].at = b
  BY DEF Ruled, Recorded
<1>1. PICK s \in panel : s.juror = j /\ ~ Counts(s, R, b)
  BY DEF HoldsLiveSeat
<1>2. \E n \in 1 .. Len(draw) : \E at \in w[n] : s = Seat(draw, n, at) /\ ~ NoShow(s, R, b)
  BY PanelIs
<1>3. s.seated \in Nat /\ (s.seated = 0 \/ s.seated < b)
  BY PanelSeats
<1>4. \A n \in 1 .. Len(draw) : Seating(draw, Q, 0, b)[n] = w[n]
  BY SeatsKept
<1> HIDE DEF panel, w, Q
<1>5. PICK n \in 1 .. Len(draw) : \E at \in w[n] : s = Seat(draw, n, at) /\ ~ NoShow(s, R, b)
  BY <1>2
<1>6. PICK at \in w[n] : s = Seat(draw, n, at) /\ ~ NoShow(s, R, b)
  BY <1>5
<1>7. s.juror = draw[n] /\ s.seated = at
  BY <1>6 DEF Seat
<1>8. ~ (b > s.seated + JurorResponse)
  BY <1>1, <1>6 DEF NoShow
<1>9. at <= b /\ b <= at + JurorResponse
  BY <1>3, <1>7, <1>8, JuryAssumption
<1>10. at \in Seating(draw, Q, 0, b)[n] /\ draw[n] = j
  BY <1>1, <1>4, <1>6, <1>7
<1>11. RuledFromSeat(draw, Q, j)
  BY <1>0, <1>9, <1>10 DEF RuledFromSeat
<1> QED
  BY <1>11 DEF Q

-----------------------------------------------------------------------------
(* The dispute.                                                            *)

Fields == {"draw", "rulings", "under", "escalation", "electorate", "ballots", "stage", "outcome"}

\* The jury had ruled by the appeal, which came inside the ruling's appeal window.
Appealed(draw, R, at) ==
    /\ Verdict(draw, R, 0, at) # "none"
    /\ at >= Given(draw, R, 0, at)
    /\ at <= Earlier(Given(draw, R, 0, at) + AppealWindow, MainClose)

\* What an escalation was admitted for still stands on the log.
Grounded(e, R, tail) ==
    /\ e.at \in Nat /\ e.at <= tail /\ e.at <= MainClose /\ e.draw \in Draws
    /\ \/ e.reason = "appeal" /\ Appealed(e.draw, R, e.at)
       \/ e.reason = "cannot_seat" /\ Len(e.draw) < Majority

\* Every ruling came from a seat of the draw it was admitted under.
Seated(h) ==
    /\ DOMAIN h.under = DOMAIN h.rulings
    /\ \A j \in DOMAIN h.rulings : h.under[j] \in Draws /\ RuledFromSeat(h.under[j], h.rulings, j)

DisputeInv ==
    /\ dclock \in Nat /\ dtail \in Nat
    /\ DOMAIN hearing = Fields /\ hearing.draw \in Draws
    /\ Dated(hearing.rulings, dtail) /\ Seated(hearing)
    /\ hearing.stage = "Disputed" => hearing.outcome = "none"
    /\ hearing.escalation # NoEscalation => Grounded(hearing.escalation, hearing.rulings, dtail)
    /\ EscalationGoverns

LEMMA DisputeFacts ==
    ASSUME DisputeInv
    PROVE  /\ MainClose \in Nat /\ AppealWindow \in Nat /\ Majority \in Nat
           /\ AdmittedAt \in Nat /\ dtail <= AdmittedAt
           /\ \A d \in Draws : Drawn(d) /\ Len(d) \in Nat
  BY DisputeAssumption, JuryAssumption
     DEF DisputeInv, MainClose, Majority, AdmittedAt, Drawn

\* The operators of the module are the verdict and its instant.
LEMMA ViewIs ==
    ASSUME NEW draw, NEW now
    PROVE  /\ JuryOutcome(draw, now) = Verdict(draw, hearing.rulings, 0, now)
           /\ RuledAt(draw, now) = Given(draw, hearing.rulings, 0, now)
           /\ AppealDeadline(draw, now)
                = Earlier(Given(draw, hearing.rulings, 0, now) + AppealWindow, MainClose)
  BY DEF JuryOutcome, RuledAt, AppealDeadline, PanelAt, Verdict, Given

LEMMA DisputeStart == DisputeInit => DisputeInv
<1> SUFFICES ASSUME DisputeInit PROVE DisputeInv
  OBVIOUS
<1>1. /\ hearing.draw \in Draws /\ hearing.rulings = NoRulings /\ hearing.under = NoDraws
      /\ hearing.escalation = NoEscalation /\ hearing.outcome = "none"
      /\ DOMAIN hearing = Fields
  BY DEF DisputeInit, Fields
<1>2. DOMAIN NoRulings = {} /\ DOMAIN NoDraws = {}
  BY DEF NoRulings, NoDraws
<1>3. Dated(hearing.rulings, 0) /\ Seated(hearing)
  BY <1>1, <1>2 DEF Dated, Seated
<1> QED
  BY <1>1, <1>3 DEF DisputeInit, DisputeInv, EscalationGoverns

\* An escalation that was admitted governs whenever decide looks again with the
\* founders of that day.
LEMMA EscalationStands ==
    ASSUME DisputeInv, hearing.escalation # NoEscalation, NEW now \in Nat
    PROVE  Decide(hearing.escalation.draw, now)
              \in {"pending", "escalation_upheld", "escalation_rejected", "escalation_lapsed"}
<1> DEFINE e == hearing.escalation
           R == hearing.rulings
           d == hearing.escalation.draw
<1>0. MainClose \in Nat /\ AppealWindow \in Nat /\ Majority \in Nat
  BY DisputeFacts
<1>1. Grounded(e, R, dtail) /\ Dated(R, dtail)
  BY DEF DisputeInv
<1>2. e.at \in Nat /\ e.at <= MainClose /\ d \in Draws /\ Len(d) \in Nat
  BY <1>1, DisputeFacts DEF Grounded
<1>3. ASSUME EscalationApplies(d, e.reason, e.at, now)
      PROVE  Decide(d, now) \in {"pending", "escalation_upheld", "escalation_rejected",
                                 "escalation_lapsed"}
  <2>1. Decide(d, now) = IF now < EscalationClose(e) THEN "pending" ELSE CountEscalation(e)
    BY <1>3 DEF Decide
  <2>2. CountEscalation(e) \in {"escalation_upheld", "escalation_rejected", "escalation_lapsed"}
    BY DEF CountEscalation
  <2> QED
    BY <2>1, <2>2
<1>4. CASE e.reason = "cannot_seat"
  <2>1. e.at >= 0 /\ Len(d) < Majority
    BY <1>1, <1>2, <1>4 DEF Grounded
  <2>2. EscalationApplies(d, e.reason, e.at, now)
    BY <1>2, <1>4, <2>1 DEF EscalationApplies
  <2> QED
    BY <1>3, <2>2
<1>5. CASE e.reason # "cannot_seat"
  <2>1. e.reason = "appeal" /\ Appealed(d, R, e.at)
    BY <1>1, <1>5 DEF Grounded
  \* Where the verdict is the one that was appealed, the appeal applies.
  <2>2. ASSUME Verdict(d, R, 0, now) = Verdict(d, R, 0, e.at), Given(d, R, 0, now) = Given(d, R, 0, e.at)
        PROVE  EscalationApplies(d, e.reason, e.at, now)
    <3>1. /\ JuryOutcome(d, now) # "none"
          /\ e.at >= RuledAt(d, now) /\ e.at <= AppealDeadline(d, now)
      BY <2>1, <2>2, ViewIs DEF Appealed
    <3> QED
      BY <2>1, <3>1 DEF EscalationApplies
  <2>3. CASE e.at <= now
    <3>1. Later(R, e.at, R, now)
      BY <1>1, <1>2, <2>3 DEF Later, Dated
    <3>2. Verdict(d, R, 0, e.at) # "none"
      BY <2>1 DEF Appealed
    <3>3. /\ Verdict(d, R, 0, now) = Verdict(d, R, 0, e.at)
          /\ Given(d, R, 0, now) = Given(d, R, 0, e.at)
      BY <1>2, <3>1, <3>2, VerdictStays
    <3> QED
      BY <1>3, <2>2, <3>3
  <2>4. CASE now < e.at /\ Verdict(d, R, 0, now) # "none"
    <3>1. Later(R, now, R, e.at)
      BY <1>1, <1>2, <2>4 DEF Later, Dated
    <3>2. /\ Verdict(d, R, 0, e.at) = Verdict(d, R, 0, now)
          /\ Given(d, R, 0, e.at) = Given(d, R, 0, now)
      BY <1>2, <2>4, <3>1, VerdictStays
    <3> QED
      BY <1>3, <2>2, <3>2
  <2>5. CASE now < e.at /\ Verdict(d, R, 0, now) = "none"
    <3>1. JuryOutcome(d, now) = "none"
      BY <2>5, ViewIs
    <3>2. ~ (now >= MainClose)
      BY <1>0, <1>2, <2>5
    <3>3. ~ EscalationApplies(d, e.reason, e.at, now)
      BY <2>1, <3>1 DEF EscalationApplies
    <3>4. Decide(d, now) = "pending"
      BY <3>1, <3>2, <3>3 DEF Decide
    <3> QED
      BY <3>4
  <2> QED
    BY <1>2, <2>3, <2>4, <2>5
<1> QED
  BY <1>4, <1>5

LEMMA DisputeStep == DisputeInv /\ [DisputeNext]_disputeVars => DisputeInv'
<1> SUFFICES ASSUME DisputeInv, [DisputeNext]_disputeVars PROVE DisputeInv'
  OBVIOUS
<1>0. /\ MainClose \in Nat /\ AppealWindow \in Nat /\ Majority \in Nat
      /\ AdmittedAt \in Nat /\ dtail <= AdmittedAt
      /\ \A d \in Draws : Drawn(d) /\ Len(d) \in Nat
  BY DisputeFacts
<1>i. /\ dclock \in Nat /\ dtail \in Nat
      /\ DOMAIN hearing = Fields /\ hearing.draw \in Draws
      /\ Dated(hearing.rulings, dtail) /\ Seated(hearing)
      /\ hearing.stage = "Disputed" => hearing.outcome = "none"
      /\ hearing.escalation # NoEscalation => Grounded(hearing.escalation, hearing.rulings, dtail)
      /\ EscalationGoverns
  BY DEF DisputeInv
<1>t. \A n \in Nat : n <= dtail => n <= AdmittedAt
  BY <1>0, <1>i
\* A record admitted leaves what the log said standing.
<1>a. ASSUME NEW h, Admit(h), DOMAIN h = Fields, h.draw = hearing.draw,
             Dated(h.rulings, AdmittedAt), Seated(h),
             h.stage = "Disputed" => h.outcome = "none",
             h.escalation # NoEscalation => Grounded(h.escalation, h.rulings, AdmittedAt),
             h.escalation # NoEscalation /\ h.draw = h.escalation.draw =>
                h.outcome \in {"none", "escalation_upheld", "escalation_rejected",
                               "escalation_lapsed"}
      PROVE  DisputeInv'
  <2>1. hearing' = h /\ dtail' = AdmittedAt /\ dclock' = dclock
    BY <1>a DEF Admit
  <2> QED
    BY <1>0, <1>i, <1>a, <2>1 DEF DisputeInv, EscalationGoverns
<1>b. /\ Dated(hearing.rulings, AdmittedAt)
      /\ hearing.escalation # NoEscalation
            => Grounded(hearing.escalation, hearing.rulings, AdmittedAt)
  BY <1>0, <1>i, <1>t DEF Dated, Grounded
<1>c. ASSUME NEW h, h.rulings = hearing.rulings, h.under = hearing.under
      PROVE  Seated(h)
  BY <1>c, <1>i DEF Seated
<1>1. ASSUME NEW j, NEW u \in BOOLEAN, AppendVerdict(j, u) PROVE DisputeInv'
  <2> DEFINE R == hearing.rulings
             Q == Ruled(hearing.rulings, j, u, AdmittedAt)
             U == Recorded(hearing.under, j, hearing.draw)
             h == [hearing EXCEPT !.rulings = Q, !.under = U]
  <2>1. Admit(h) /\ j \notin DOMAIN R
    BY <1>1 DEF AppendVerdict, Ruled
  <2>2. HoldsLiveSeat(j, ResolvePanel(hearing.draw, R, 0, AdmittedAt), R, AdmittedAt)
    BY <1>1 DEF AppendVerdict, SeatedFor, PanelAt
  <2>3. /\ DOMAIN h = Fields /\ h.draw = hearing.draw /\ h.rulings = Q /\ h.under = U
        /\ h.escalation = hearing.escalation /\ h.stage = hearing.stage
        /\ h.outcome = hearing.outcome
    <3> HIDE DEF Q, U
    <3> QED
      BY <1>i DEF Fields
  <2>4. /\ Dated(Q, AdmittedAt)
        /\ \A a \in Nat : a <= AdmittedAt => Later(R, a, Q, a)
    BY <1>0, <1>i, <2>1, RulingIsLater
  <2>5. /\ DOMAIN Q = DOMAIN R \cup {j} /\ DOMAIN U = DOMAIN R \cup {j}
        /\ U[j] = hearing.draw /\ \A x \in DOMAIN R : U[x] = hearing.under[x]
    BY <1>i, <2>1 DEF Ruled, Recorded, Seated
  <2>6. RuledFromSeat(hearing.draw, Q, j)
    BY <1>0, <1>i, <2>1, <2>2, GateSeats
  <2>7. ASSUME NEW x \in DOMAIN R PROVE hearing.under[x] \in Draws /\ RuledFromSeat(hearing.under[x], Q, x)
    <3>1. hearing.under[x] \in Draws /\ RuledFromSeat(hearing.under[x], R, x)
      BY <1>i DEF Seated
    <3> QED
      BY <1>0, <1>i, <2>1, <3>1, SeatedRulingKept
  <2>8. ASSUME hearing.escalation # NoEscalation
        PROVE  Grounded(hearing.escalation, Q, AdmittedAt)
    <3> DEFINE e == hearing.escalation
    <3>1. Grounded(e, R, AdmittedAt)
      BY <1>b, <2>8
    <3>2. e.at \in Nat /\ e.at <= AdmittedAt /\ e.draw \in Draws /\ Len(e.draw) \in Nat
      BY <1>0, <3>1 DEF Grounded
    <3>3. Later(R, e.at, Q, e.at)
      BY <2>4, <3>2
    <3>4. ASSUME Appealed(e.draw, R, e.at) PROVE Appealed(e.draw, Q, e.at)
      <4>1. Verdict(e.draw, R, 0, e.at) # "none"
        BY <3>4 DEF Appealed
      <4>2. /\ Verdict(e.draw, Q, 0, e.at) = Verdict(e.draw, R, 0, e.at)
            /\ Given(e.draw, Q, 0, e.at) = Given(e.draw, R, 0, e.at)
        BY <3>2, <3>3, <4>1, VerdictStays
      <4> QED
        BY <3>4, <4>2 DEF Appealed
    <3> QED
      BY <3>1, <3>4 DEF Grounded
  <2>9. hearing.escalation # NoEscalation /\ hearing.draw = hearing.escalation.draw =>
           hearing.outcome \in {"none", "escalation_upheld", "escalation_rejected",
                                "escalation_lapsed"}
    BY <1>i DEF EscalationGoverns
  <2> HIDE DEF h, Q, U, R
  <2>10. Seated(h)
    BY <1>i, <2>3, <2>5, <2>6, <2>7 DEF Seated
  <2> QED
    BY <1>a, <1>i, <2>1, <2>3, <2>4, <2>8, <2>9, <2>10
<1>2. ASSUME NEW r \in {"appeal", "cannot_seat"}, NEW vs, OpenEscalation(r, vs)
      PROVE  DisputeInv'
  <2> DEFINE e == [reason |-> r, at |-> AdmittedAt, draw |-> hearing.draw]
             h == [hearing EXCEPT !.escalation = e, !.electorate = vs]
  <2>1. /\ Admit(h) /\ hearing.stage = "Disputed"
        /\ EscalationApplies(hearing.draw, r, AdmittedAt, AdmittedAt)
    BY <1>2 DEF OpenEscalation
  <2>2. e.reason = r /\ e.at = AdmittedAt /\ e.draw = hearing.draw
    OBVIOUS
  <2>3. /\ DOMAIN h = Fields /\ h.draw = hearing.draw /\ h.rulings = hearing.rulings
        /\ h.under = hearing.under
        /\ h.escalation = e /\ h.stage = hearing.stage /\ h.outcome = hearing.outcome
    <3> HIDE DEF e
    <3> QED
      BY <1>i DEF Fields
  <2>4. Grounded(e, hearing.rulings, AdmittedAt)
    <3>1. CASE r = "cannot_seat"
      <4>1. Len(hearing.draw) < Majority /\ AdmittedAt <= MainClose
        BY <2>1, <3>1 DEF EscalationApplies
      <4> HIDE DEF h, e
      <4> QED
        BY <1>0, <1>i, <2>2, <3>1, <4>1 DEF Grounded
    <3>2. CASE r = "appeal"
      <4>1. Appealed(hearing.draw, hearing.rulings, AdmittedAt)
        BY <2>1, <3>2, ViewIs DEF EscalationApplies, Appealed
      <4>2. AdmittedAt <= MainClose
        <5>1. PICK g : g = Given(hearing.draw, hearing.rulings, 0, AdmittedAt) + AppealWindow
          OBVIOUS
        <5>2. AdmittedAt <= Earlier(g, MainClose)
          BY <4>1, <5>1 DEF Appealed
        <5>3. CASE g <= MainClose
          <6>1. \A j \in DOMAIN hearing.rulings : hearing.rulings[j].at \in Nat
            BY <1>i DEF Dated
          <6>2. Given(hearing.draw, hearing.rulings, 0, AdmittedAt) \in Nat
            BY <1>0, <1>i, <4>1, <6>1, GivenNat DEF Appealed
          <6> QED
            BY <1>0, <5>1, <5>2, <5>3, <6>2 DEF Earlier
        <5>4. CASE ~ (g <= MainClose)
          BY <5>2, <5>4 DEF Earlier
        <5> QED
          BY <5>3, <5>4
      <4> HIDE DEF h, e
      <4> QED
        BY <1>0, <1>i, <2>2, <3>2, <4>1, <4>2 DEF Grounded
    <3> QED
      BY <3>1, <3>2
  <2> HIDE DEF h, e
  <2>5. Seated(h)
    BY <1>c, <2>3
  <2>6. h.outcome = "none"
    BY <1>i, <2>1, <2>3
  <2> QED
    BY <1>a, <1>b, <2>1, <2>3, <2>4, <2>5, <2>6
<1>3. ASSUME NEW v, NEW u, AppendEscalationBallot(v, u) PROVE DisputeInv'
  <2>1. PICK b : Admit([hearing EXCEPT !.ballots = b])
    BY <1>3 DEF AppendEscalationBallot
  <2> DEFINE h == [hearing EXCEPT !.ballots = b]
  <2>2. /\ DOMAIN h = Fields /\ h.draw = hearing.draw /\ h.rulings = hearing.rulings
        /\ h.under = hearing.under
        /\ h.escalation = hearing.escalation /\ h.stage = hearing.stage
        /\ h.outcome = hearing.outcome
    BY <1>i DEF Fields
  <2>3. Admit(h)
    BY <2>1
  <2>4. hearing.escalation # NoEscalation /\ hearing.draw = hearing.escalation.draw =>
           hearing.outcome \in {"none", "escalation_upheld", "escalation_rejected",
                                "escalation_lapsed"}
    BY <1>i DEF EscalationGoverns
  <2> HIDE DEF h
  <2>5. Seated(h)
    BY <1>c, <2>2
  <2> QED
    BY <1>a, <1>b, <1>i, <2>2, <2>3, <2>4, <2>5
<1>4. ASSUME ResolveDispute PROVE DisputeInv'
  <2>1. PICK o : o = Decide(hearing.draw, dclock)
    OBVIOUS
  <2>2. PICK st \in {"Cancelled", "Settled"} :
          Admit([hearing EXCEPT !.outcome = o, !.stage = st]) /\ o # "pending"
    BY <1>4, <2>1 DEF ResolveDispute
  <2> DEFINE h == [hearing EXCEPT !.outcome = o, !.stage = st]
  <2>3. /\ DOMAIN h = Fields /\ h.draw = hearing.draw /\ h.rulings = hearing.rulings
        /\ h.under = hearing.under
        /\ h.escalation = hearing.escalation /\ h.stage = st /\ h.outcome = o
    BY <1>i DEF Fields
  <2>4. hearing.escalation # NoEscalation /\ hearing.draw = hearing.escalation.draw =>
           o \in {"escalation_upheld", "escalation_rejected", "escalation_lapsed"}
    BY <1>i, <2>1, <2>2, EscalationStands
  <2>5. Admit(h)
    BY <2>2
  <2> HIDE DEF h
  <2>6. Seated(h)
    BY <1>c, <2>3
  <2>7. h.stage # "Disputed"
    BY <2>2, <2>3
  <2> QED
    BY <1>a, <1>b, <2>3, <2>4, <2>5, <2>6, <2>7
<1>5. ASSUME DisputeTick \/ DisputeClockBack PROVE DisputeInv'
  <2>1. UNCHANGED <<dtail, hearing>> /\ dclock' \in Nat
    BY <1>5, <1>i DEF DisputeTick, DisputeClockBack
  <2> QED
    BY <1>i, <2>1 DEF DisputeInv, EscalationGoverns, Seated
<1>6. ASSUME Admit(hearing) PROVE DisputeInv'
  <2>1. hearing.escalation # NoEscalation /\ hearing.draw = hearing.escalation.draw =>
           hearing.outcome \in {"none", "escalation_upheld", "escalation_rejected",
                                "escalation_lapsed"}
    BY <1>i DEF EscalationGoverns
  <2> QED
    BY <1>a, <1>b, <1>i, <1>6, <2>1
<1>7. ASSUME NEW d \in Draws, NEW vs, Redraw(d, vs) PROVE DisputeInv'
  <2> DEFINE h == [hearing EXCEPT !.draw = d, !.electorate = vs]
  <2>1. hearing' = h /\ UNCHANGED <<dclock, dtail>> /\ hearing.stage = "Disputed"
    BY <1>7 DEF Redraw
  <2>2. /\ DOMAIN h = Fields /\ h.draw = d /\ h.rulings = hearing.rulings
        /\ h.under = hearing.under
        /\ h.escalation = hearing.escalation /\ h.stage = hearing.stage
        /\ h.outcome = hearing.outcome
    BY <1>i DEF Fields
  <2> HIDE DEF h
  <2>3. Seated(h)
    BY <1>c, <2>2
  <2>4. h.outcome = "none"
    BY <1>i, <2>1, <2>2
  <2> QED
    BY <1>i, <2>1, <2>2, <2>3, <2>4 DEF DisputeInv, EscalationGoverns
<1>8. CASE UNCHANGED disputeVars
  BY <1>i, <1>8 DEF disputeVars, DisputeInv, EscalationGoverns, Seated
<1> QED
  BY <1>1, <1>2, <1>3, <1>4, <1>5, <1>6, <1>7, <1>8 DEF DisputeNext

\* A ruling append_verdict admitted counts at every later instant in every
\* derivation from the founders it was admitted under: for every draw, every
\* panel size and response window, whatever founders were read in between and
\* wherever the clock is set.
THEOREM AdmittedRulingsTheorem == DisputeSpec => []AdmittedRulingsCount
<1>1. DisputeInv => AdmittedRulingsCount
  <2> SUFFICES ASSUME DisputeInv, NEW j \in DOMAIN hearing.rulings,
                      NEW now \in hearing.rulings[j].at .. LastInstant
               PROVE  \E s \in PanelAt(hearing.under[j], now) :
                         s.juror = j /\ Counts(s, hearing.rulings, now)
    BY DEF AdmittedRulingsCount
  <2>1. Dated(hearing.rulings, dtail) /\ Seated(hearing)
    BY DEF DisputeInv
  <2>2. hearing.under[j] \in Draws /\ RuledFromSeat(hearing.under[j], hearing.rulings, j)
    BY <2>1 DEF Seated
  <2>3. Drawn(hearing.under[j])
    BY <2>2, DisputeFacts
  <2>4. hearing.rulings[j].at \in Nat
    BY <2>1 DEF Dated
  <2>5. now \in Nat /\ hearing.rulings[j].at <= now
    BY <2>4
  <2> QED
    BY <2>1, <2>2, <2>3, <2>5, RulingCounts DEF PanelAt
<1> QED
  BY <1>1, DisputeStart, DisputeStep, PTL DEF DisputeSpec

\* Once an escalation was admitted, only the electorate's vote ends the dispute
\* in a pass that reads the founders the escalation was admitted under, whatever
\* founders were read in between.
THEOREM EscalationTheorem == DisputeSpec => []EscalationGoverns
<1>1. DisputeInv => EscalationGoverns
  BY DEF DisputeInv
<1> QED
  BY <1>1, DisputeStart, DisputeStep, PTL DEF DisputeSpec

=============================================================================
