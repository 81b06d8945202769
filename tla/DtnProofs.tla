----------------------------- MODULE DtnProofs ------------------------------
(***************************************************************************)
(* Store-and-forward submission keeps its word, for any number of records, *)
(* bundles, carriers, restores and crashes: receipts are true and stay so, *)
(* an honest chain never forks, whoever is refused for a fork finds the    *)
(* proof, and an answer that changed is queued again.                      *)
(***************************************************************************)
EXTENDS Dtn, DataTheorems, FiniteSetTheorems

EntryType == [pos : Nat, rec : Records, nonce : Nat, intact : {TRUE}]

\* What carriers make of an entry, and the entry it is a copy of.
CopyType == [pos : Nat, rec : Records, nonce : Nat, intact : BOOLEAN]

Mended(c) == [c EXCEPT !.intact = TRUE]

RowType == [entry : EntryType, ack : Acks]

\* A bundle holds at least one entry, and no position twice.
BundleType ==
    {b \in Seq(CopyType) :
        b # <<>> /\ \A i, j \in DOMAIN b : i < j => b[i].pos < b[j].pos}

JobType ==
    [bundle : BundleType, online : BOOLEAN, at : Nat, outs : Seq(Outcomes),
     phase : {"entries", "finish", "reply"}]

-----------------------------------------------------------------------------
(* The entries there are: in the wallet, at the station, and in anyone's   *)
(* hands, whatever became of a copy.                                       *)

InRows(e) == \E p \in DOMAIN rows : rows[p].entry = e
InSeen(e) == \E p \in DOMAIN seen : seen[p] = e
InBundles(e) == \E b \in bags \cup DOMAIN receipts : \E i \in DOMAIN b : Mended(b[i]) = e
InJob(e) == job # NoJob /\ \E i \in DOMAIN job.bundle : Mended(job.bundle[i]) = e

Known(e) == InRows(e) \/ InSeen(e) \/ InBundles(e) \/ InJob(e)
-----------------------------------------------------------------------------
(* The inductive invariant.                                                *)

WalletType ==
    /\ \A p \in DOMAIN rows : p \in Nat /\ rows[p] \in RowType /\ rows[p].entry.pos = p
    /\ chain \in {"fresh", "anchored", "unknown"}
    /\ cursor \in Nat /\ restores \in Nat /\ crashes \in Nat /\ top \in Int
    /\ signed \subseteq Records

JobOK ==
    job # NoJob =>
      /\ job \in JobType /\ job.at \in 1 .. Len(job.bundle)
      /\ job.phase = "entries" => Len(job.outs) = job.at - 1
      /\ job.phase = "finish" => Len(job.outs) = Len(job.bundle)

StationType ==
    /\ bags \subseteq BundleType /\ mail \subseteq Seq(Outcomes)
    /\ \A p \in DOMAIN seen : p \in Nat /\ seen[p] \in EntryType /\ seen[p].pos = p
    /\ \A b \in DOMAIN receipts : b \in BundleType /\ receipts[b] \in Seq(Outcomes)
    /\ log \subseteq signed
    /\ fate \in [Records -> {"waiting", "live", "dead"}]
    /\ JobOK
    /\ \A r \in DOMAIN queue :
          queue[r] \in [bundle : DOMAIN receipts, final : BOOLEAN, confirmed : BOOLEAN]

\* A record was signed into one entry, and what is in the log came through an
\* entry the station noted.
Identity ==
    /\ \A e : Known(e) => e \in EntryType /\ e.rec \in signed /\ e.pos < Cardinality(signed)
    /\ \A e, f : Known(e) /\ Known(f) /\ e.rec = f.rec => e = f
    /\ \A r \in log : \E p \in DOMAIN seen : seen[p].rec = r

\* Wherever the record's entry turns up, the station has seen another in its
\* place, and so never hands the record to the engine.
Forked(r) ==
    /\ r \in signed \ log
    /\ \A e : Known(e) /\ e.rec = r => e.pos \in DOMAIN seen /\ seen[e.pos] # e

Truth(r, disp) ==
    /\ disp \in {"admitted", "known"} => r \in log
    /\ disp = "never" => fate[r] = "dead" /\ r \notin log
    /\ disp = "fork" => Forked(r)

Truths(outs) == \A i \in DOMAIN outs : Truth(outs[i].rec, outs[i].disp)

\* What the wallet wrote down.
Told(r, ack) == \E p \in DOMAIN rows : rows[p].entry.rec = r /\ rows[p].ack = ack

AnswerInv ==
    /\ \A outs \in OutcomeSeqs : Truths(outs)
    /\ \A r \in Records, ack \in Acks : Told(r, ack) => Truth(r, ack)

\* The answer to an entry: about its record, with the fork it speaks of, and
\* of a bad signature exactly where there is one.
Fits(c, out) ==
    /\ out.rec = c.rec
    /\ out.disp = "fork" => c.pos \in forks \cap equivs
    /\ out.disp = "bad" => ~c.intact
    /\ ~c.intact => out.disp = "bad"

\* The answers to a bundle, in its order.
About(b, outs) ==
    /\ Len(outs) <= Len(b)
    /\ \A i \in DOMAIN outs : Fits(b[i], outs[i])

\* A presentation evaluated afresh takes back no verdict it was given before.
Stands ==
    job.bundle \in DOMAIN receipts =>
        \A i \in DOMAIN job.outs :
            job.outs[i].rec \in Decided(receipts[job.bundle]) => job.outs[i].disp # "later"

RecordInv ==
    /\ \A b \in DOMAIN receipts : About(b, receipts[b])
    /\ job # NoJob => About(job.bundle, job.outs) /\ (job.phase # "reply" => Stands)

\* A wallet that was never restored is ahead of everything it ever signed; one
\* that was signs nothing before it has the station's head, and goes on above.
ChainInv ==
    /\ restores = 0 =>
         /\ forks = {}
         /\ \A e, f : Known(e) /\ Known(f) /\ e.pos = f.pos => e = f
         /\ \A e : Known(e) => e.pos < NextPosition
    /\ restores > 0 =>
         /\ DOMAIN rows = {} => chain = "unknown"
         /\ \A p \in DOMAIN rows :
               p >= top /\ (p = top => top \in DOMAIN seen /\ rows[p].entry = seen[top])

\* A row of the queue is final when the receipt it points at has a verdict on
\* its record, and a final row that was delivered was delivered with it.
QueueInv ==
    crashes = 0 => \A r \in DOMAIN queue :
        /\ queue[r].final => r \in Decided(receipts[queue[r].bundle])
        /\ r \in Decided(receipts[queue[r].bundle]) => queue[r].final
        /\ queue[r].final /\ queue[r].confirmed => r \in told

DtnInv ==
    /\ WalletType /\ StationType
    /\ Identity /\ AnswerInv /\ RecordInv /\ ChainInv /\ QueueInv
-----------------------------------------------------------------------------
(* The wallet's rows.                                                      *)

LEMMA Copies ==
    /\ \A e \in EntryType : e \in CopyType /\ Mended(e) = e /\ e.intact /\ e.pos \in Nat
    /\ \A c \in CopyType :
          /\ Mended(c) \in EntryType
          /\ Mended(c).pos = c.pos /\ Mended(c).rec = c.rec
          /\ c.intact => c \in EntryType /\ Mended(c) = c
<1>1. ASSUME NEW e \in EntryType PROVE e \in CopyType /\ Mended(e) = e /\ e.intact /\ e.pos \in Nat
  BY DEF EntryType, CopyType, Mended
<1>2. ASSUME NEW c \in CopyType
      PROVE  /\ Mended(c) \in EntryType /\ Mended(c).pos = c.pos /\ Mended(c).rec = c.rec
             /\ c.intact => c \in EntryType /\ Mended(c) = c
  BY DEF EntryType, CopyType, Mended
<1> QED
  BY <1>1, <1>2

LEMMA SignedCount ==
    ASSUME signed \subseteq Records
    PROVE  /\ IsFiniteSet(signed) /\ Cardinality(signed) \in Nat
           /\ \A r : r \notin signed => Cardinality(signed \cup {r}) = Cardinality(signed) + 1
<1>1. IsFiniteSet(signed)
  BY RecordsAssumption, FS_Subset DEF Records
<1> QED
  BY <1>1, FS_CardinalityType, FS_AddElement

\* The head is the highest row, and below the number of records signed.
LEMMA HeadIsHighest ==
    ASSUME WalletType, Identity, HasHead
    PROVE  /\ Head_ \in DOMAIN rows /\ Head_ \in Nat /\ Head_ < Cardinality(signed)
           /\ \A p \in DOMAIN rows : p <= Head_
<1>1. Cardinality(signed) \in Nat
  BY SignedCount DEF WalletType
<1>2. \A p \in DOMAIN rows : p \in Nat /\ p < Cardinality(signed)
  <2> SUFFICES ASSUME NEW p \in DOMAIN rows PROVE p \in Nat /\ p < Cardinality(signed)
    OBVIOUS
  <2>1. Known(rows[p].entry) /\ rows[p].entry.pos = p /\ p \in Nat
    BY DEF Known, InRows, WalletType
  <2> QED
    BY <2>1 DEF Identity
<1>3. DOMAIN rows \subseteq 0 .. Cardinality(signed) /\ DOMAIN rows # {}
  BY <1>1, <1>2 DEF HasHead
<1>4. Max(DOMAIN rows) \in DOMAIN rows /\ \A p \in DOMAIN rows : p <= Max(DOMAIN rows)
  BY <1>1, <1>3, MaxOfRange
<1> QED
  BY <1>2, <1>4 DEF Head_

LEMMA NextIsAbove ==
    ASSUME WalletType, Identity
    PROVE  /\ NextPosition \in Nat /\ NextPosition <= Cardinality(signed)
           /\ \A p \in DOMAIN rows : p < NextPosition
           /\ HasHead => NextPosition = Head_ + 1
           /\ ~HasHead => NextPosition = 0
<1>1. Cardinality(signed) \in Nat
  BY SignedCount DEF WalletType
<1>2. \A p \in DOMAIN rows : p \in Nat
  BY DEF WalletType
<1>3. CASE HasHead
  BY <1>1, <1>2, <1>3, HeadIsHighest DEF NextPosition
<1>4. CASE ~HasHead
  BY <1>1, <1>4 DEF NextPosition, HasHead
<1> QED
  BY <1>3, <1>4

\* prune_acked keeps the head, and what it keeps it keeps as it is.
LEMMA PrunedKeepsHead ==
    ASSUME NEW rs, NEW n \in Nat, \A p \in DOMAIN rs : p \in 0 .. n
    PROVE  /\ DOMAIN Pruned(rs) \subseteq DOMAIN rs
           /\ \A p \in DOMAIN Pruned(rs) : Pruned(rs)[p] = rs[p]
           /\ DOMAIN rs # {} => DOMAIN Pruned(rs) # {} /\ Max(DOMAIN Pruned(rs)) = Max(DOMAIN rs)
<1> DEFINE pending == {p \in DOMAIN rs : rs[p].ack = "pending"}
           floor   == IF pending # {} THEN Min(pending)
                      ELSE IF DOMAIN rs # {} THEN Max(DOMAIN rs) ELSE 0
<1>1. Pruned(rs) = [p \in {q \in DOMAIN rs : q >= floor} |-> rs[p]]
  BY DEF Pruned
<1>2. ASSUME DOMAIN rs # {}
      PROVE  floor <= Max(DOMAIN rs) /\ Max(DOMAIN rs) \in DOMAIN rs
             /\ \A p \in DOMAIN rs : p <= Max(DOMAIN rs)
  <2>1. Max(DOMAIN rs) \in DOMAIN rs /\ \A p \in DOMAIN rs : p <= Max(DOMAIN rs)
    <3>1. DOMAIN rs \subseteq 0 .. n /\ 0 \in Int /\ n \in Int
      OBVIOUS
    <3> QED
      BY <1>2, <3>1, MaxOfRange
  <2>2. CASE pending # {}
    <3>1. pending \subseteq Nat
      OBVIOUS
    <3>2. Min(pending) \in pending
      BY <2>2, <3>1, MinOfNaturals
    <3> QED
      BY <2>1, <2>2, <3>2
  <2>3. CASE pending = {}
    BY <1>2, <2>1, <2>3
  <2> QED
    BY <2>1, <2>2, <2>3
<1> HIDE DEF floor
<1>3. ASSUME DOMAIN rs # {}
      PROVE  DOMAIN Pruned(rs) # {} /\ Max(DOMAIN Pruned(rs)) = Max(DOMAIN rs)
  <2>1. Max(DOMAIN rs) \in DOMAIN Pruned(rs) /\ DOMAIN Pruned(rs) \subseteq DOMAIN rs
    BY <1>1, <1>2, <1>3
  <2>2. Max(DOMAIN Pruned(rs)) \in DOMAIN Pruned(rs)
        /\ \A p \in DOMAIN Pruned(rs) : p <= Max(DOMAIN Pruned(rs))
    <3>1. DOMAIN Pruned(rs) \subseteq 0 .. n /\ 0 \in Int /\ n \in Int
      BY <2>1
    <3> QED
      BY <2>1, <3>1, MaxOfRange
  <2>3. Max(DOMAIN Pruned(rs)) \in 0 .. n /\ Max(DOMAIN rs) \in 0 .. n
    BY <2>1, <2>2, <1>2, <1>3
  <2> QED
    BY <1>2, <1>3, <2>1, <2>2, <2>3
<1> QED
  BY <1>1, <1>3
\* The bundle with the next pending entry, if there is one.
Taking(sofar) ==
    LET later == {p \in PendingPositions : \A i \in DOMAIN sofar : sofar[i].pos < p}
    IN  IF later = {} THEN sofar ELSE Append(sofar, rows[Min(later)].entry)

IsTaken(taken, cap) ==
    taken = [n \in 0 .. cap |-> IF n = 0 THEN <<>> ELSE Taking(taken[n - 1])]

LEMMA TakenExists ==
    ASSUME NEW cap \in Nat
    PROVE  \E taken : IsTaken(taken, cap)
<1> DEFINE Bad == {j \in 0 .. cap : ~ \E taken : IsTaken(taken, j)}
<1>1. SUFFICES ASSUME Bad # {} PROVE FALSE
  OBVIOUS
<1>2. Bad \subseteq Nat
  OBVIOUS
<1> HIDE DEF Bad
<1>3. PICK j \in Bad : \A l \in Bad : j <= l
  BY <1>1, <1>2, LeastNatural
<1> USE DEF Bad
<1>4. CASE j = 0
  <2>1. IsTaken([n \in 0 .. 0 |-> <<>>], 0)
    BY DEF IsTaken
  <2> QED
    BY <1>3, <1>4, <2>1
<1>5. CASE j # 0
  <2>1. j - 1 \in 0 .. cap /\ j - 1 \notin Bad
    BY <1>3, <1>5
  <2>2. PICK taken : IsTaken(taken, j - 1)
    BY <2>1
  <2> DEFINE more == [n \in 0 .. j |-> IF n < j THEN taken[n] ELSE Taking(taken[j - 1])]
  <2>3. \A n \in 0 .. j : n # 0 => more[n - 1] = taken[n - 1]
    BY <1>3
  <2>4. \A n \in 0 .. j - 1 : taken[n] = IF n = 0 THEN <<>> ELSE Taking(taken[n - 1])
    BY <2>2 DEF IsTaken
  <2>5. IsTaken(more, j)
    BY <1>3, <1>5, <2>3, <2>4 DEF IsTaken
  <2> QED
    BY <1>3, <2>5
<1> QED
  BY <1>4, <1>5

\* What one more entry keeps: the order of the positions.
LEMMA TakingKeepsOrder ==
    ASSUME WalletType, NEW b \in Seq(CopyType),
           \A i, j \in DOMAIN b : i < j => b[i].pos < b[j].pos,
           \A i \in DOMAIN b : InRows(b[i])
    PROVE  /\ Taking(b) \in Seq(CopyType)
           /\ \A i, j \in DOMAIN Taking(b) : i < j => Taking(b)[i].pos < Taking(b)[j].pos
           /\ \A i \in DOMAIN Taking(b) : InRows(Taking(b)[i])
           /\ PendingPositions # {} => Taking(b) # <<>>
<1> DEFINE later == {p \in PendingPositions : \A i \in DOMAIN b : b[i].pos < p}
<1>1. CASE later = {}
  <2>1. Taking(b) = b
    BY <1>1 DEF Taking
  <2>2. b = <<>> => later = PendingPositions
    OBVIOUS
  <2> QED
    BY <1>1, <2>1, <2>2
<1>2. CASE later # {}
  <2>1. later \subseteq Nat
    BY DEF PendingPositions, WalletType
  <2>2. Min(later) \in later
    BY <1>2, <2>1, MinOfNaturals
  <2> DEFINE p == Min(later)
             e == rows[p].entry
  <2>3. Taking(b) = Append(b, e)
    BY <1>2 DEF Taking
  <2>4. /\ p \in DOMAIN rows /\ e \in EntryType /\ e \in CopyType /\ e.pos = p /\ InRows(e)
        /\ \A i \in DOMAIN b : b[i].pos < e.pos
    <3>1. p \in DOMAIN rows /\ \A i \in DOMAIN b : b[i].pos < p
      BY <2>2 DEF PendingPositions
    <3> HIDE DEF p
    <3> QED
      BY <3>1, Copies DEF WalletType, RowType, InRows
  <2> HIDE DEF p, e, later
  <2>5. /\ Taking(b) \in Seq(CopyType) /\ Len(b) \in Nat
        /\ DOMAIN Taking(b) = 1 .. Len(b) + 1 /\ DOMAIN b = 1 .. Len(b)
        /\ \A i \in DOMAIN b : Taking(b)[i] = b[i]
        /\ Taking(b)[Len(b) + 1] = e
    BY <2>3, <2>4
  <2>6. \A i, j \in DOMAIN Taking(b) : i < j =>
            i \in DOMAIN b /\ (j \in DOMAIN b \/ j = Len(b) + 1)
    BY <2>5
  <2>7. \A i \in DOMAIN Taking(b) : i \in DOMAIN b \/ i = Len(b) + 1
    BY <2>5
  <2>8. Taking(b) # <<>>
    BY <2>5
  <2> QED
    BY <2>4, <2>5, <2>6, <2>7, <2>8
<1> QED
  BY <1>1, <1>2

\* A bundle of pending entries is made of the wallet's rows.
LEMMA PendingBundleOfRows ==
    ASSUME WalletType, NEW k \in Nat \ {0}, PendingPositions # {}
    PROVE  /\ PendingBundle(k) \in BundleType
           /\ \A i \in DOMAIN PendingBundle(k) : InRows(PendingBundle(k)[i])
<1> DEFINE cap == IF k < MaxBundle THEN k ELSE MaxBundle
           taken == CHOOSE t : IsTaken(t, cap)
           Holds(n) == /\ taken[n] \in Seq(CopyType)
                       /\ \A i, j \in DOMAIN taken[n] : i < j => taken[n][i].pos < taken[n][j].pos
                       /\ \A i \in DOMAIN taken[n] : InRows(taken[n][i])
                       /\ n # 0 => taken[n] # <<>>
           Bad == {n \in 0 .. cap : ~ Holds(n)}
<1>1. PendingBundle(k) = taken[cap]
  BY DEF PendingBundle, IsTaken, Taking
<1>2. cap \in Nat \ {0}
  BY BoundsAssumption
<1> HIDE DEF cap
<1>3. IsTaken(taken, cap)
  <2>1. \E t : IsTaken(t, cap)
    BY <1>2, TakenExists
  <2> QED
    BY <2>1
<1> HIDE DEF taken
<1>4. \A n \in 0 .. cap : taken[n] = IF n = 0 THEN <<>> ELSE Taking(taken[n - 1])
  BY <1>3 DEF IsTaken
<1>5. Bad \subseteq Nat
  BY <1>2
<1>6. ASSUME Bad # {} PROVE FALSE
  <2> HIDE DEF Bad
  <2>1. PICK n \in Bad : \A l \in Bad : n <= l
    BY <1>5, <1>6, LeastNatural
  <2> USE DEF Bad
  <2>2. CASE n = 0
    <3>1. taken[0] = <<>>
      BY <1>2, <1>4
    <3>2. taken[0] \in Seq(CopyType) /\ DOMAIN taken[0] = {}
      BY <3>1
    <3>3. Holds(0)
      BY <3>2
    <3> QED
      BY <2>1, <2>2, <3>3
  <2>3. CASE n # 0
    <3>1. n \in 1 .. cap /\ n - 1 \in 0 .. cap /\ n - 1 \notin Bad
      BY <1>2, <2>1, <2>3
    <3>2. taken[n] = Taking(taken[n - 1])
      BY <1>4, <2>3, <3>1
    <3>3. Holds(n - 1)
      BY <3>1
    <3>4. Holds(n)
      BY <3>2, <3>3, TakingKeepsOrder
    <3> QED
      BY <2>1, <3>4
  <2> QED
    BY <2>2, <2>3
<1>7. Holds(cap)
  BY <1>2, <1>6
<1> QED
  BY <1>1, <1>2, <1>7 DEF BundleType

\* A receipt's outcomes change a row's ack at most, and to what they say.
LEMMA AckedRowSays ==
    ASSUME NEW row \in RowType, NEW outs \in Seq(Outcomes)
    PROVE  /\ AckedRow(row, outs) \in RowType /\ AckedRow(row, outs).entry = row.entry
           /\ \/ AckedRow(row, outs).ack = row.ack
              \/ \E i \in DOMAIN outs : /\ outs[i].rec = row.entry.rec
                                       /\ outs[i].disp = AckedRow(row, outs).ack
<1> DEFINE disps == {outs[i].disp : i \in {j \in DOMAIN outs : outs[j].rec = row.entry.rec}}
           takes == {d \in disps :
                       \/ row.ack = "pending" /\ (IsFinal(d) \/ row.entry.rec \in Pays)
                       \/ row.ack = "abandoned" /\ d \in {"admitted", "known"}}
           ack == CHOOSE d \in takes : TRUE
<1>1. AckedRow(row, outs) = IF takes = {} THEN row ELSE [row EXCEPT !.ack = ack]
  BY DEF AckedRow
<1>2. CASE takes = {}
  BY <1>1, <1>2
<1>3. CASE takes # {}
  <2>1. ack \in disps
    BY <1>3
  <2> HIDE DEF ack, takes
  <2>2. PICK i \in DOMAIN outs : outs[i].rec = row.entry.rec /\ outs[i].disp = ack
    BY <2>1
  <2>3. ack \in Acks
    <3>1. outs[i] \in Outcomes
      OBVIOUS
    <3>2. outs[i].disp \in Dispositions
      BY <3>1 DEF Outcomes
    <3> QED
      BY <2>2, <3>2 DEF Acks
  <2>4. AckedRow(row, outs) = [row EXCEPT !.ack = ack]
    BY <1>1, <1>3
  <2>5. [row EXCEPT !.ack = ack] \in RowType /\ [row EXCEPT !.ack = ack].entry = row.entry
        /\ [row EXCEPT !.ack = ack].ack = ack
    BY <2>3 DEF RowType
  <2> QED
    BY <2>2, <2>4, <2>5
<1> QED
  BY <1>2, <1>3
-----------------------------------------------------------------------------
(* What a step leaves alone.                                               *)

SeenKept == \A p \in DOMAIN seen : p \in DOMAIN seen' /\ seen'[p] = seen[p]

NoNewEntries == \A e : Known(e)' => Known(e)

FateKept == \A r \in Records : fate[r] = "dead" => fate'[r] = "dead"

LEMMA IdentityKept ==
    ASSUME Identity, NoNewEntries, SeenKept, UNCHANGED <<signed, log>>
    PROVE  Identity'
  BY DEF Identity, NoNewEntries, SeenKept

\* A true answer stays true: the log only grows, by records that are neither
\* dead nor forked; no position seen changes; a new entry is of a new record.
LEMMA TruthsKept ==
    ASSUME SeenKept, FateKept, signed \subseteq signed', log \subseteq log',
           \A r \in log' \ log : fate[r] # "dead" /\ ~Forked(r),
           \A e : Known(e)' => Known(e) \/ e.rec \notin signed
    PROVE  /\ \A r \in Records : \A disp : Truth(r, disp) => Truth(r, disp)'
           /\ \A outs \in Seq(Outcomes) : Truths(outs) => Truths(outs)'
<1>1. ASSUME NEW r \in Records, Forked(r) PROVE Forked(r)'
  <2>1. r \in signed' \ log'
    BY <1>1 DEF Forked
  <2>2. \A e : Known(e)' /\ e.rec = r => e.pos \in DOMAIN seen' /\ seen'[e.pos] # e
    BY <1>1 DEF Forked, SeenKept
  <2> QED
    BY <2>1, <2>2 DEF Forked
<1>2. ASSUME NEW r \in Records, NEW disp, Truth(r, disp) PROVE Truth(r, disp)'
  BY <1>1, <1>2 DEF Truth, FateKept
<1>3. ASSUME NEW outs \in Seq(Outcomes), Truths(outs) PROVE Truths(outs)'
  <2>1. \A i \in DOMAIN outs : outs[i] \in Outcomes
    OBVIOUS
  <2>2. \A i \in DOMAIN outs : outs[i].rec \in Records
    BY <2>1 DEF Outcomes
  <2> QED
    BY <1>2, <1>3, <2>2 DEF Truths
<1> QED
  BY <1>2, <1>3

\* A step that changes nothing the answers are about.
LEMMA NothingSettled ==
    ASSUME NoNewEntries, SeenKept, FateKept, UNCHANGED <<signed, log>>
    PROVE  /\ \A r \in Records : \A disp : Truth(r, disp) => Truth(r, disp)'
           /\ \A outs \in Seq(Outcomes) : Truths(outs) => Truths(outs)'
  BY TruthsKept DEF NoNewEntries

LEMMA OutcomesTyped ==
    ASSUME StationType
    PROVE  OutcomeSeqs \subseteq Seq(Outcomes)
  BY DEF StationType, OutcomeSeqs, Range, Idle, JobOK, JobType

\* The station's steps leave the wallet alone.
LEMMA ChainKept ==
    ASSUME ChainInv, NoNewEntries, SeenKept, UNCHANGED <<rows, chain, restores, top>>,
           restores = 0 => forks' = forks
    PROVE  ChainInv'
<1>1. NextPosition' = NextPosition
  BY DEF NextPosition, HasHead, Head_
<1> QED
  BY <1>1 DEF ChainInv, NoNewEntries, SeenKept

\* The wallet's steps leave the station alone: what is asked of the new rows.
LEMMA RowsStep ==
    ASSUME DtnInv,
           UNCHANGED <<signed, seen, forks, equivs, log, receipts, queue, told, bags, mail, fate,
                       crashes>>,
           job' \in {job, NoJob}, WalletType', ChainInv',
           \A p \in DOMAIN rows' :
              Known(rows'[p].entry) /\ Truth(rows'[p].entry.rec, rows'[p].ack)
    PROVE  DtnInv'
<1>1. NoNewEntries
  <2> SUFFICES ASSUME NEW e, Known(e)' PROVE Known(e)
    BY DEF NoNewEntries
  <2>1. CASE InRows(e)'
    BY <2>1 DEF InRows
  <2>2. CASE InSeen(e)' \/ InBundles(e)' \/ InJob(e)'
    BY <2>2 DEF InSeen, InBundles, InJob, Known
  <2> QED
    BY <2>1, <2>2 DEF Known
<1>2. SeenKept /\ FateKept
  BY DEF SeenKept, FateKept
<1>3. Identity'
  BY <1>1, <1>2, IdentityKept DEF DtnInv
<1>4. /\ \A r \in Records : \A disp : Truth(r, disp) => Truth(r, disp)'
      /\ \A outs \in Seq(Outcomes) : Truths(outs) => Truths(outs)'
  BY <1>1, <1>2, NothingSettled
<1>5. StationType'
  BY DEF DtnInv, StationType, JobOK
<1>6. AnswerInv'
  <2>1. OutcomeSeqs' \subseteq OutcomeSeqs /\ OutcomeSeqs \subseteq Seq(Outcomes)
    BY OutcomesTyped DEF OutcomeSeqs, Idle, DtnInv, Range
  <2>2. \A outs \in OutcomeSeqs' : Truths(outs)'
    BY <1>4, <2>1 DEF DtnInv, AnswerInv
  <2>3. \A r \in Records, ack \in Acks : Told(r, ack)' => Truth(r, ack)'
    BY <1>4 DEF Told
  <2> QED
    BY <2>2, <2>3 DEF AnswerInv
<1>7. RecordInv'
  BY DEF DtnInv, RecordInv, About, Fits, Stands
<1>8. QueueInv'
  BY DEF DtnInv, QueueInv
<1> QED
  BY <1>3, <1>5, <1>6, <1>7, <1>8 DEF DtnInv

\* Acks, and prune_acked: the head stays.
LEMMA AckStep ==
    ASSUME DtnInv, NEW rs, DOMAIN rs = DOMAIN rows,
           \A p \in DOMAIN rows :
              /\ rs[p] \in RowType /\ rs[p].entry = rows[p].entry
              /\ Truth(rs[p].entry.rec, rs[p].ack),
           rows' = Pruned(rs) \/ rows' = rs, job' \in {job, NoJob},
           UNCHANGED <<chain, cursor, restores, top, signed, seen, forks, equivs, log,
                       receipts, queue, told, bags, mail, fate, crashes>>
    PROVE  DtnInv'
<1>1. /\ DOMAIN rows' \subseteq DOMAIN rs
      /\ \A p \in DOMAIN rows' : rows'[p] = rs[p]
      /\ DOMAIN rs # {} => DOMAIN rows' # {} /\ Max(DOMAIN rows') = Max(DOMAIN rs)
  <2>1. CASE rows' = rs
    BY <2>1
  <2>2. CASE rows' = Pruned(rs)
    <3>1. Cardinality(signed) \in Nat
      BY SignedCount DEF DtnInv, WalletType
    <3>2. \A p \in DOMAIN rs : p \in 0 .. Cardinality(signed)
      <4> SUFFICES ASSUME NEW p \in DOMAIN rows PROVE p \in 0 .. Cardinality(signed)
        OBVIOUS
      <4>1. HasHead /\ p \in Nat
        BY DEF HasHead, DtnInv, WalletType
      <4>2. Head_ \in Nat /\ Head_ < Cardinality(signed) /\ p <= Head_
        BY <4>1, HeadIsHighest DEF DtnInv
      <4> QED
        BY <3>1, <4>1, <4>2
    <3> QED
      BY <2>2, <3>1, <3>2, PrunedKeepsHead
  <2> QED
    BY <2>1, <2>2
<1>2. WalletType'
  BY <1>1 DEF DtnInv, WalletType
<1>3. \A p \in DOMAIN rows' :
         Known(rows'[p].entry) /\ Truth(rows'[p].entry.rec, rows'[p].ack)
  BY <1>1 DEF Known, InRows
<1>4. HasHead' = HasHead /\ NextPosition' = NextPosition
  BY <1>1 DEF HasHead, NextPosition, Head_
<1>5. NoNewEntries
  BY <1>1 DEF NoNewEntries, Known, InRows, InSeen, InBundles, InJob
<1>6. ChainInv'
  <2>1. restores = 0 => ChainInv'
    BY <1>4, <1>5 DEF DtnInv, ChainInv, NoNewEntries
  <2>2. restores > 0 => ChainInv'
    BY <1>1, <1>4 DEF DtnInv, ChainInv, HasHead
  <2> QED
    BY <2>1, <2>2 DEF DtnInv, WalletType
<1> QED
  BY <1>2, <1>3, <1>6, RowsStep
-----------------------------------------------------------------------------
(* The wallet's commands.                                                  *)

LEMMA RowsAreTrue ==
    ASSUME DtnInv, NEW p \in DOMAIN rows
    PROVE  /\ p \in Nat /\ rows[p] \in RowType /\ rows[p].entry.pos = p
           /\ rows[p].entry \in EntryType /\ rows[p].ack \in Acks
           /\ rows[p].entry.rec \in Records
           /\ Known(rows[p].entry) /\ Truth(rows[p].entry.rec, rows[p].ack)
<1>1. p \in Nat /\ rows[p] \in RowType /\ rows[p].entry.pos = p
  BY DEF DtnInv, WalletType
<1>2. rows[p].entry \in EntryType /\ rows[p].ack \in Acks
  BY <1>1 DEF RowType
<1>3. rows[p].entry.rec \in Records
  BY <1>2 DEF EntryType
<1>4. Told(rows[p].entry.rec, rows[p].ack)
  BY DEF Told
<1>5. Truth(rows[p].entry.rec, rows[p].ack)
  BY <1>2, <1>3, <1>4 DEF DtnInv, AnswerInv
<1>6. Known(rows[p].entry)
  BY DEF Known, InRows
<1> QED
  BY <1>1, <1>2, <1>3, <1>5, <1>6

LEMMA AppliedKeepsInv ==
    ASSUME DtnInv, NEW outs \in OutcomeSeqs, rows' = Applied(outs), job' \in {job, NoJob},
           UNCHANGED <<chain, cursor, restores, top, signed, seen, forks, equivs, log,
                       receipts, queue, told, bags, mail, fate, crashes>>
    PROVE  DtnInv'
<1> DEFINE rs == [p \in DOMAIN rows |-> AckedRow(rows[p], outs)]
<1>1. rows' = Pruned(rs) /\ DOMAIN rs = DOMAIN rows
  BY DEF Applied
<1>2. ASSUME NEW p \in DOMAIN rows
      PROVE  /\ rs[p] \in RowType /\ rs[p].entry = rows[p].entry
             /\ Truth(rs[p].entry.rec, rs[p].ack)
  <2>1. outs \in Seq(Outcomes) /\ Truths(outs)
    BY OutcomesTyped DEF DtnInv, AnswerInv
  <2>2. /\ rs[p] \in RowType /\ rs[p].entry = rows[p].entry
        /\ \/ rs[p].ack = rows[p].ack
           \/ \E i \in DOMAIN outs : outs[i].rec = rows[p].entry.rec /\ outs[i].disp = rs[p].ack
    BY <2>1, RowsAreTrue, AckedRowSays
  <2> HIDE DEF rs
  <2> QED
    BY <2>1, <2>2, RowsAreTrue DEF Truths
<1> HIDE DEF rs
<1> QED
  BY <1>1, <1>2, AckStep

LEMMA AbandonKeepsInv ==
    ASSUME DtnInv, NEW p \in DOMAIN rows, Abandon(p)
    PROVE  DtnInv'
<1>1. /\ rows' = [rows EXCEPT ![p].ack = "abandoned"]
      /\ UNCHANGED <<chain, cursor, restores, top, signed, seen, forks, equivs, log,
                      receipts, queue, told, bags, mail, fate, crashes, job>>
  BY DEF Abandon, ingest, carried, count
<1>2. DOMAIN rows' = DOMAIN rows
  BY <1>1
<1>3. ASSUME NEW q \in DOMAIN rows
      PROVE  /\ rows'[q] \in RowType /\ rows'[q].entry = rows[q].entry
             /\ Truth(rows'[q].entry.rec, rows'[q].ack)
  <2>1. CASE q # p
    BY <1>1, <2>1, RowsAreTrue
  <2>2. CASE q = p
    <3>1. rows'[p] = [rows[p] EXCEPT !.ack = "abandoned"] /\ rows[p] \in RowType
      BY <1>1, RowsAreTrue
    <3>2. rows'[p] \in RowType /\ rows'[p].entry = rows[p].entry /\ rows'[p].ack = "abandoned"
      BY <3>1 DEF RowType, Acks
    <3>3. \A r : Truth(r, "abandoned")
      BY DEF Truth
    <3> QED
      BY <2>2, <3>2, <3>3
  <2> QED
    BY <2>1, <2>2
<1> DEFINE rs == rows'
<1>4. /\ DOMAIN rs = DOMAIN rows /\ rows' = rs
      /\ \A q \in DOMAIN rows : /\ rs[q] \in RowType /\ rs[q].entry = rows[q].entry
                                 /\ Truth(rs[q].entry.rec, rs[q].ack)
  BY <1>2, <1>3
<1> HIDE DEF rs
<1> QED
  BY <1>1, <1>4, AckStep

LEMMA RestoreKeepsInv ==
    ASSUME DtnInv, Restore
    PROVE  DtnInv'
<1>1. /\ DOMAIN rows' = {} /\ chain' = "unknown" /\ cursor' = 0 /\ restores' = restores + 1
      /\ UNCHANGED <<signed, top, seen, forks, equivs, log, receipts, queue, told, bags, mail, fate,
                      crashes, job>>
  BY DEF Restore, NoRows, ingest, carried, count
<1>2. WalletType' /\ restores' > 0
  BY <1>1 DEF DtnInv, WalletType
<1>3. ChainInv'
  BY <1>1, <1>2 DEF ChainInv, WalletType
<1> QED
  BY <1>1, <1>2, <1>3, RowsStep

\* The wallet learns the station's view, and its next nonce.
LEMMA SyncKeepsInv ==
    ASSUME DtnInv, SyncAnchor \/ SyncHead \/ SyncUnseen \/ SyncNonce
    PROVE  DtnInv'
<1>1. CASE SyncAnchor
  <2> DEFINE p == HighestSeen
  <2>1. /\ rows' = [q \in {p} |-> [entry |-> seen[p], ack |-> "anchor"]]
        /\ chain' = "anchored" /\ top' = p /\ ~HasHead /\ DOMAIN seen # {}
        /\ UNCHANGED <<cursor, signed, restores, seen, forks, equivs, log, receipts, queue, told,
                        bags, mail, fate, crashes, job>>
    BY <1>1 DEF SyncAnchor, AnchorPosition, ingest, carried, count
  <2>2. Cardinality(signed) \in Nat
    BY SignedCount DEF DtnInv, WalletType
  <2>3. \A q \in DOMAIN seen : q \in Nat /\ seen[q] \in EntryType /\ seen[q].pos = q /\ Known(seen[q])
    BY DEF DtnInv, StationType, Known, InSeen
  <2>4. DOMAIN seen \subseteq 0 .. Cardinality(signed)
    BY <2>2, <2>3 DEF DtnInv, Identity
  <2>5. p \in DOMAIN seen
    BY <2>1, <2>2, <2>4, MaxOfRange DEF HighestSeen
  <2> HIDE DEF p
  <2>6. /\ p \in Nat /\ seen[p] \in EntryType /\ seen[p].pos = p /\ Known(seen[p])
    BY <2>3, <2>5
  <2>7. /\ DOMAIN rows' = {p} /\ rows'[p] = [entry |-> seen[p], ack |-> "anchor"]
        /\ rows'[p] \in RowType
    BY <2>1, <2>6 DEF RowType, Acks
  <2>8. WalletType'
    BY <2>1, <2>6, <2>7 DEF DtnInv, WalletType
  <2>9. restores # 0
    <3>1. NextPosition = 0
      BY <2>1 DEF NextPosition
    <3> QED
      BY <2>6, <3>1 DEF DtnInv, ChainInv
  <2>10. ChainInv'
    BY <2>1, <2>5, <2>6, <2>7, <2>9 DEF ChainInv
  <2>11. \A r : Truth(r, "anchor")
    BY DEF Truth
  <2>12. \A q \in DOMAIN rows' :
            Known(rows'[q].entry) /\ Truth(rows'[q].entry.rec, rows'[q].ack)
    BY <2>6, <2>7, <2>11
  <2> QED
    BY <2>1, <2>8, <2>10, <2>12, RowsStep
<1>2. ASSUME SyncHead \/ SyncUnseen \/ SyncNonce
      PROVE  /\ rows' = rows /\ chain' \in {"fresh", "anchored", "unknown"}
             /\ HasHead \/ chain' = chain
             /\ cursor' \in Nat
             /\ UNCHANGED <<top, signed, restores, seen, forks, equivs, log, receipts, queue, told,
                             bags, mail, fate, crashes, job>>
  <2>1. CASE SyncHead
    BY <2>1 DEF SyncHead, ingest, carried, count, DtnInv, WalletType
  <2>2. CASE SyncUnseen
    BY <2>2 DEF SyncUnseen, ingest, carried, count, DtnInv, WalletType
  <2>3. CASE SyncNonce
    <3>1. NextNonce \in Nat
      <4>1. log \cap Pays \in SUBSET Records
        BY DEF Records
      <4> QED
        BY <4>1, RecordsAssumption, FS_Subset, FS_CardinalityType DEF Records, NextNonce
    <3>2. cursor \in Nat
      BY DEF DtnInv, WalletType
    <3>3. Max({NextNonce, cursor}) \in {NextNonce, cursor}
      <4>1. {NextNonce, cursor} \subseteq 0 .. NextNonce + cursor /\ NextNonce + cursor \in Int
        BY <3>1, <3>2
      <4> QED
        BY <4>1, MaxOfRange
    <3>4. cursor' = ReconciledCursor
      BY <2>3 DEF SyncNonce
    <3>5. cursor' \in Nat
      BY <3>1, <3>2, <3>3, <3>4 DEF ReconciledCursor
    <3> QED
      BY <2>3, <3>5 DEF SyncNonce, ingest, carried, count, DtnInv, WalletType
  <2> QED
    BY <1>2, <2>1, <2>2, <2>3
<1>3. CASE SyncHead \/ SyncUnseen \/ SyncNonce
  <2>1. WalletType'
    BY <1>2, <1>3 DEF DtnInv, WalletType
  <2>2. ChainInv'
    <3>1. NextPosition' = NextPosition
      BY <1>2, <1>3 DEF NextPosition, HasHead, Head_
    <3>2. \A e : Known(e)' => Known(e)
      BY <1>2, <1>3 DEF Known, InRows, InSeen, InBundles, InJob
    <3> QED
      BY <1>2, <1>3, <3>1, <3>2 DEF DtnInv, ChainInv, HasHead
  <2>3. \A q \in DOMAIN rows' :
            Known(rows'[q].entry) /\ Truth(rows'[q].entry.rec, rows'[q].ack)
    BY <1>2, <1>3, RowsAreTrue
  <2> QED
    BY <1>2, <1>3, <2>1, <2>2, <2>3, RowsStep
<1> QED
  BY <1>1, <1>3

\* Signing: a new record in a new entry, above the head.
LEMMA SignKeepsInv ==
    ASSUME DtnInv, NEW r \in Records \ signed, NEW nonce \in Nat, chain # "unknown",
           rows' = Appended(r, nonce), signed' = signed \cup {r},
           cursor' \in Nat, crashes' \in {crashes, crashes + 1},
           UNCHANGED <<chain, restores, top, ingest, carried, fate>>
    PROVE  DtnInv'
<1> DEFINE n == NextPosition
           e == [pos |-> n, rec |-> r, nonce |-> nonce, intact |-> TRUE]
<1>0. UNCHANGED <<seen, forks, equivs, log, receipts, queue, told, job, bags, mail>>
  BY DEF ingest, carried
<1>1. /\ n \in Nat /\ n <= Cardinality(signed) /\ \A p \in DOMAIN rows : p < n
      /\ HasHead => Head_ \in DOMAIN rows /\ n = Head_ + 1
  BY NextIsAbove, HeadIsHighest DEF DtnInv
<1>2. /\ Cardinality(signed) \in Nat /\ Cardinality(signed') = Cardinality(signed) + 1
  BY SignedCount DEF DtnInv, WalletType
<1>3. /\ DOMAIN rows' = DOMAIN rows \cup {n}
      /\ rows'[n] = [entry |-> e, ack |-> "pending"]
      /\ \A p \in DOMAIN rows : p # n => rows'[p] = rows[p]
  BY DEF Appended
<1>4. e \in EntryType /\ e.pos = n /\ e.rec = r
  BY <1>1 DEF EntryType
<1> HIDE DEF n, e
<1>5. \A p \in DOMAIN rows : p # n /\ rows'[p] = rows[p]
  BY <1>1, <1>3 DEF DtnInv, WalletType
<1>6. rows'[n] \in RowType /\ rows'[n].entry = e /\ rows'[n].ack = "pending"
  BY <1>3, <1>4 DEF RowType, Acks
<1>7. WalletType'
  <2>1. \A p \in DOMAIN rows' : p \in Nat /\ rows'[p] \in RowType /\ rows'[p].entry.pos = p
    BY <1>1, <1>3, <1>4, <1>5, <1>6 DEF DtnInv, WalletType
  <2>2. crashes' \in Nat
    BY DEF DtnInv, WalletType
  <2> QED
    BY <2>1, <2>2 DEF DtnInv, WalletType
<1>8. StationType'
  BY <1>0 DEF DtnInv, StationType, JobOK
<1>9. \A x : Known(x)' => Known(x) \/ x = e
  <2> SUFFICES ASSUME NEW x, Known(x)' PROVE Known(x) \/ x = e
    OBVIOUS
  <2>1. CASE InRows(x)'
    BY <1>3, <1>5, <1>6, <2>1 DEF InRows, Known
  <2>2. CASE InSeen(x)' \/ InBundles(x)' \/ InJob(x)'
    BY <1>0, <2>2 DEF InSeen, InBundles, InJob, Known
  <2> QED
    BY <2>1, <2>2 DEF Known
<1>10. Identity'
  <2>1. \A x : Known(x) => x \in EntryType /\ x.rec \in signed /\ x.pos < Cardinality(signed)
    BY DEF DtnInv, Identity
  <2>2. \A x : Known(x)' => x \in EntryType /\ x.rec \in signed' /\ x.pos < Cardinality(signed')
    <3> SUFFICES ASSUME NEW x, Known(x)'
                 PROVE  x \in EntryType /\ x.rec \in signed' /\ x.pos < Cardinality(signed')
      OBVIOUS
    <3>1. CASE Known(x)
      <4>1. x.pos \in Nat
        BY <2>1, <3>1, Copies
      <4> QED
        BY <1>2, <2>1, <3>1, <4>1
    <3>2. CASE x = e
      BY <1>1, <1>2, <1>4, <3>2
    <3> QED
      BY <1>9, <3>1, <3>2
  <2>3. \A x, y : Known(x)' /\ Known(y)' /\ x.rec = y.rec => x = y
    BY <1>4, <1>9, <2>1 DEF DtnInv, Identity
  <2>4. \A x \in log' : \E p \in DOMAIN seen' : seen'[p].rec = x
    BY <1>0 DEF DtnInv, Identity
  <2> QED
    BY <2>2, <2>3, <2>4 DEF Identity
<1>11. /\ \A x \in Records : \A disp : Truth(x, disp) => Truth(x, disp)'
       /\ \A outs \in Seq(Outcomes) : Truths(outs) => Truths(outs)'
  <2>1. SeenKept /\ FateKept /\ signed \subseteq signed' /\ log' = log
    BY <1>0 DEF SeenKept, FateKept
  <2>2. \A x : Known(x)' => Known(x) \/ x.rec \notin signed
    BY <1>4, <1>9
  <2> QED
    BY <2>1, <2>2, TruthsKept
<1>12. AnswerInv'
  <2>1. OutcomeSeqs' = OutcomeSeqs /\ OutcomeSeqs \subseteq Seq(Outcomes)
    BY <1>0, OutcomesTyped DEF OutcomeSeqs, Idle, DtnInv
  <2>2. \A outs \in OutcomeSeqs' : Truths(outs)'
    BY <1>11, <2>1 DEF DtnInv, AnswerInv
  <2>3. ASSUME NEW x \in Records, NEW ack \in Acks, Told(x, ack)' PROVE Truth(x, ack)'
    <3>1. PICK p \in DOMAIN rows' : rows'[p].entry.rec = x /\ rows'[p].ack = ack
      BY <2>3 DEF Told
    <3>2. CASE p = n
      BY <1>6, <3>1, <3>2 DEF Truth
    <3>3. CASE p # n
      <4>1. Told(x, ack)
        BY <1>3, <1>5, <3>1, <3>3 DEF Told
      <4> QED
        BY <1>11, <4>1 DEF DtnInv, AnswerInv
    <3> QED
      BY <3>2, <3>3
  <2> QED
    BY <2>2, <2>3 DEF AnswerInv
<1>13. RecordInv'
  BY <1>0 DEF DtnInv, RecordInv, About, Fits, Stands
<1>14. ChainInv'
  <2>1. NextPosition' = n + 1
    <3>1. \A p \in DOMAIN rows' : p \in 0 .. n
      BY <1>1, <1>3 DEF DtnInv, WalletType
    <3>2. n \in DOMAIN rows' /\ DOMAIN rows' \subseteq 0 .. n /\ 0 \in Int /\ n \in Int
      BY <1>1, <1>3, <3>1
    <3>3. Max(DOMAIN rows') \in DOMAIN rows' /\ n <= Max(DOMAIN rows')
      BY <3>2, MaxOfRange
    <3>4. Max(DOMAIN rows') = n
      BY <1>1, <3>1, <3>3
    <3> QED
      BY <3>2, <3>4 DEF NextPosition, HasHead, Head_
  <2>2. CASE restores = 0
    <3>1. \A x : Known(x) => x.pos \in Nat /\ x.pos < n
      BY <2>2, Copies DEF DtnInv, ChainInv, Identity, n
    <3>2. \A x : Known(x)' => x.pos < n + 1
      BY <1>1, <1>4, <1>9, <3>1
    <3>3. \A x, y : Known(x)' /\ Known(y)' /\ x.pos = y.pos => x = y
      <4> SUFFICES ASSUME NEW x, NEW y, Known(x)', Known(y)', x.pos = y.pos PROVE x = y
        OBVIOUS
      <4>1. CASE Known(x) /\ Known(y)
        BY <2>2, <4>1 DEF DtnInv, ChainInv
      <4>2. CASE x = e
        BY <1>1, <1>4, <1>9, <3>1, <4>2
      <4>3. CASE y = e
        BY <1>1, <1>4, <1>9, <3>1, <4>3
      <4> QED
        BY <1>9, <4>1, <4>2, <4>3
    <3> QED
      BY <1>0, <2>1, <2>2, <3>2, <3>3 DEF DtnInv, ChainInv
  <2>3. CASE restores > 0
    <3>1. HasHead
      BY <2>3 DEF DtnInv, ChainInv, HasHead
    <3>2. Head_ \in DOMAIN rows /\ n = Head_ + 1 /\ Head_ >= top
      BY <1>1, <2>3, <3>1 DEF DtnInv, ChainInv
    <3>3. n > top /\ top \in Int
      BY <1>1, <3>2 DEF DtnInv, WalletType
    <3>4. \A p \in DOMAIN rows' : /\ p >= top
                                  /\ p = top => top \in DOMAIN seen /\ rows'[p].entry = seen[top]
      BY <1>1, <1>3, <1>5, <2>3, <3>3 DEF DtnInv, ChainInv
    <3> QED
      BY <1>0, <1>3, <2>3, <3>4 DEF ChainInv
  <2> QED
    BY <2>2, <2>3 DEF DtnInv, WalletType
<1>15. QueueInv'
  <2>1. crashes' = 0 => crashes = 0
    BY DEF DtnInv, WalletType
  <2> QED
    BY <1>0, <2>1 DEF DtnInv, QueueInv
<1> QED
  BY <1>7, <1>8, <1>10, <1>12, <1>13, <1>14, <1>15 DEF DtnInv
-----------------------------------------------------------------------------
(* The station, and the carriers.                                          *)

\* What a step that leaves the wallet alone has to show.
LEMMA StationStep ==
    ASSUME DtnInv, UNCHANGED <<rows, chain, cursor, signed, restores, top>>,
           NoNewEntries, SeenKept, FateKept, crashes' \in Nat, StationType',
           log \subseteq log',
           \A r \in log' \ log : /\ fate[r] # "dead" /\ ~Forked(r)
                               /\ \E p \in DOMAIN seen' : seen'[p].rec = r,
           restores = 0 => forks' = forks,
           \A outs \in OutcomeSeqs' : outs \in OutcomeSeqs \/ Truths(outs)',
           RecordInv', QueueInv'
    PROVE  DtnInv'
<1>1. WalletType'
  BY DEF DtnInv, WalletType
<1>2. Identity'
  <2>1. \A r \in log' : \E p \in DOMAIN seen' : seen'[p].rec = r
    BY DEF DtnInv, Identity, SeenKept
  <2> QED
    BY <2>1 DEF DtnInv, Identity, NoNewEntries
<1>3. /\ \A r \in Records : \A disp : Truth(r, disp) => Truth(r, disp)'
      /\ \A outs \in Seq(Outcomes) : Truths(outs) => Truths(outs)'
  BY TruthsKept DEF NoNewEntries
<1>4. AnswerInv'
  <2>1. \A outs \in OutcomeSeqs' : Truths(outs)'
    BY <1>3, OutcomesTyped DEF DtnInv, AnswerInv
  <2>2. \A r \in Records, ack \in Acks : Told(r, ack)' => Truth(r, ack)'
    BY <1>3 DEF DtnInv, AnswerInv, Told
  <2> QED
    BY <2>1, <2>2 DEF AnswerInv
<1>5. ChainInv'
  BY ChainKept DEF DtnInv
<1> QED
  BY <1>1, <1>2, <1>4, <1>5 DEF DtnInv

\* The carriers keep no more than they were given.
LEMMA KeptByCarriers ==
    ASSUME NEW held, NEW new, NEW max, NEW kept \in Keep(held, new, max)
    PROVE  kept \subseteq held \cup new
  BY DEF Keep, kSubset

LEMMA CarrierKeepsInv ==
    ASSUME DtnInv, UNCHANGED <<wallet, fate>>, crashes' = crashes, told \subseteq told',
           UNCHANGED <<seen, forks, equivs, log, receipts, job>>,
           bags' \subseteq BundleType, \A b \in bags' : \A i \in DOMAIN b : Known(Mended(b[i])),
           mail' \subseteq OutcomeSeqs,
           DOMAIN queue' \subseteq DOMAIN queue,
           \A r \in DOMAIN queue' :
              /\ queue'[r] \in [bundle : DOMAIN receipts, final : BOOLEAN, confirmed : BOOLEAN]
              /\ queue'[r].bundle = queue[r].bundle /\ queue'[r].final = queue[r].final
              /\ crashes = 0 /\ queue[r].final /\ queue'[r].confirmed =>
                    queue[r].confirmed \/ r \in told'
    PROVE  DtnInv'
<1>1. UNCHANGED <<rows, chain, cursor, signed, restores, top>>
  BY DEF wallet
<1>2. NoNewEntries
  BY <1>1 DEF NoNewEntries, Known, InRows, InSeen, InBundles, InJob
<1>3. SeenKept /\ FateKept
  BY DEF SeenKept, FateKept
<1>4. StationType'
  BY <1>1, OutcomesTyped DEF DtnInv, StationType, JobOK
<1>5. OutcomeSeqs' \subseteq OutcomeSeqs
  BY DEF OutcomeSeqs, Idle
<1>6. RecordInv'
  BY DEF DtnInv, RecordInv, About, Fits, Stands
<1>7. QueueInv'
  BY DEF DtnInv, QueueInv
<1>8. crashes' \in Nat
  BY DEF DtnInv, WalletType
<1> QED
  BY <1>1, <1>2, <1>3, <1>4, <1>5, <1>6, <1>7, <1>8, StationStep

LEMMA BagsAreKnown ==
    ASSUME DtnInv, NEW b \in bags
    PROVE  b \in BundleType /\ \A i \in DOMAIN b : Known(Mended(b[i]))
  BY DEF DtnInv, StationType, Known, InBundles

LEMMA PendingIsKnown ==
    ASSUME DtnInv, NEW k \in 1 .. MaxBundle, PendingPositions # {}
    PROVE  PendingBundle(k) \in BundleType /\ \A i \in DOMAIN PendingBundle(k) : Known(Mended(PendingBundle(k)[i]))
<1>1. k \in Nat \ {0}
  BY BoundsAssumption
<1>2. /\ PendingBundle(k) \in BundleType
      /\ \A i \in DOMAIN PendingBundle(k) : InRows(PendingBundle(k)[i])
  BY <1>1, PendingBundleOfRows DEF DtnInv
<1>3. \A e : InRows(e) => e \in EntryType
  BY DEF InRows, DtnInv, WalletType, RowType
<1> QED
  BY <1>2, <1>3, Copies DEF Known

LEMMA QueueRowType ==
    ASSUME DtnInv, NEW r \in DOMAIN queue
    PROVE  queue[r] \in [bundle : DOMAIN receipts, final : BOOLEAN, confirmed : BOOLEAN]
  BY DEF DtnInv, StationType

LEMMA ExportKeepsInv ==
    ASSUME DtnInv, NEW k \in 1 .. MaxBundle, Export(k)
    PROVE  DtnInv'
<1>1. /\ PendingPositions # {} /\ bags' \in Keep(bags, {PendingBundle(k)}, MaxBags)
      /\ UNCHANGED <<rows, chain, cursor, signed, restores, top, seen, forks, equivs, log,
                      receipts, queue, told, job, mail, fate, crashes>>
  BY DEF Export, ingest, count
<1>2. bags' \subseteq bags \cup {PendingBundle(k)}
  BY <1>1, KeptByCarriers
<1>3. bags' \subseteq BundleType /\ \A b \in bags' : \A i \in DOMAIN b : Known(Mended(b[i]))
  BY <1>1, <1>2, BagsAreKnown, PendingIsKnown
<1>4. NoNewEntries
  BY <1>1, <1>3 DEF NoNewEntries, Known, InRows, InSeen, InBundles, InJob
<1>5. SeenKept /\ FateKept
  BY <1>1 DEF SeenKept, FateKept
<1>6. StationType'
  BY <1>1, <1>3 DEF DtnInv, StationType, JobOK
<1>7. OutcomeSeqs' = OutcomeSeqs
  BY <1>1 DEF OutcomeSeqs, Idle
<1>8. RecordInv' /\ QueueInv'
  BY <1>1 DEF DtnInv, RecordInv, About, Fits, Stands, QueueInv
<1>9. crashes' \in Nat
  BY <1>1 DEF DtnInv, WalletType
<1> QED
  BY <1>1, <1>4, <1>5, <1>6, <1>7, <1>8, <1>9, StationStep

\* A copy is damaged: its entry is the one it was.
LEMMA DamageKeepsInv ==
    ASSUME DtnInv, NEW b \in bags, NEW i \in DOMAIN b, Damage(b, i)
    PROVE  DtnInv'
<1> DEFINE d == [b EXCEPT ![i].intact = FALSE]
<1>1. /\ bags' \in Keep(bags, {d}, MaxBags)
      /\ UNCHANGED <<wallet, fate, seen, forks, equivs, log, receipts, job, queue, told, mail>>
      /\ crashes' = crashes
  BY DEF Damage, ingest, count
<1>2. b \in BundleType /\ \A j \in DOMAIN b : Known(Mended(b[j]))
  BY BagsAreKnown
<1>3. /\ d \in Seq(CopyType) /\ DOMAIN d = DOMAIN b /\ b # <<>> /\ d # <<>>
      /\ \A j \in DOMAIN d : d[j].pos = b[j].pos /\ Mended(d[j]) = Mended(b[j])
  <2>1. /\ b \in Seq(CopyType) /\ b # <<>> /\ Len(b) \in Nat /\ DOMAIN b = 1 .. Len(b)
        /\ b[i] \in CopyType
    BY <1>2 DEF BundleType
  <2> DEFINE c == [b[i] EXCEPT !.intact = FALSE]
  <2>2. c \in CopyType /\ c.pos = b[i].pos /\ Mended(c) = Mended(b[i])
    BY <2>1 DEF CopyType, Mended
  <2>3. d = [b EXCEPT ![i] = c]
    OBVIOUS
  <2> HIDE DEF c, d
  <2>4. d \in Seq(CopyType) /\ DOMAIN d = DOMAIN b
    BY <2>1, <2>2, <2>3
  <2>5. d[i] = c /\ \A j \in DOMAIN b : j # i => d[j] = b[j]
    BY <2>1, <2>3
  <2>6. d # <<>>
    BY <2>1, <2>4
  <2>7. \A j \in DOMAIN d : d[j].pos = b[j].pos /\ Mended(d[j]) = Mended(b[j])
    BY <2>2, <2>4, <2>5
  <2> QED
    BY <2>1, <2>4, <2>6, <2>7
<1> HIDE DEF d
<1>4. d \in BundleType
  BY <1>2, <1>3 DEF BundleType
<1>5. \A j \in DOMAIN d : Known(Mended(d[j]))
  BY <1>2, <1>3
<1>6. bags' \subseteq bags \cup {d}
  BY <1>1, KeptByCarriers
<1>7. bags' \subseteq BundleType /\ \A c \in bags' : \A j \in DOMAIN c : Known(Mended(c[j]))
  BY <1>4, <1>5, <1>6, BagsAreKnown
<1>8. mail' \subseteq OutcomeSeqs
  BY <1>1 DEF OutcomeSeqs
<1> QED
  BY <1>1, <1>7, <1>8, QueueRowType, CarrierKeepsInv

\* Receipts on their way back.
LEMMA FetchKeepsInv ==
    ASSUME DtnInv, CourierFetch \/ AuthorFetch \/ (\E r \in DOMAIN queue : PruneDelivered(r))
    PROVE  DtnInv'
<1>0. DueReceipts \subseteq OutcomeSeqs /\ mail \subseteq OutcomeSeqs
  <2>1. \A r \in DOMAIN queue : queue[r].bundle \in DOMAIN receipts
    BY QueueRowType
  <2> QED
    BY <2>1 DEF DueReceipts, Unconfirmed, OutcomeSeqs, Range
<1>1. bags \subseteq BundleType /\ \A b \in bags : \A i \in DOMAIN b : Known(Mended(b[i]))
  BY BagsAreKnown
<1>2. CASE CourierFetch
  <2>1. /\ mail' \in Keep(mail, DueReceipts, MaxMail)
        /\ UNCHANGED <<wallet, fate, seen, forks, equivs, log, receipts, job, bags, queue, told>>
        /\ crashes' = crashes
    BY <1>2 DEF CourierFetch, ingest, count
  <2>2. mail' \subseteq OutcomeSeqs
    BY <1>0, <2>1, KeptByCarriers
  <2> QED
    BY <1>1, <2>1, <2>2, QueueRowType, CarrierKeepsInv
<1>3. CASE AuthorFetch
  <2>1. /\ mail' \in Keep(mail, DueReceipts, MaxMail) \cup {mail}
        /\ told' = told \cup UNION {Decided(outs) : outs \in DueReceipts}
        /\ queue' = [r \in DOMAIN queue |-> [queue[r] EXCEPT !.confirmed = TRUE]]
        /\ UNCHANGED <<wallet, fate, seen, forks, equivs, log, receipts, job, bags>>
        /\ crashes' = crashes
    BY <1>3 DEF AuthorFetch
  <2>2. mail' \subseteq OutcomeSeqs
    BY <1>0, <2>1, KeptByCarriers
  <2>3. DOMAIN queue' = DOMAIN queue
    BY <2>1
  <2>4. ASSUME NEW r \in DOMAIN queue
        PROVE  /\ queue'[r] \in [bundle : DOMAIN receipts, final : BOOLEAN, confirmed : BOOLEAN]
               /\ queue'[r].bundle = queue[r].bundle /\ queue'[r].final = queue[r].final
               /\ crashes = 0 /\ queue[r].final /\ queue'[r].confirmed =>
                     queue[r].confirmed \/ r \in told'
    <3>1. queue[r] \in [bundle : DOMAIN receipts, final : BOOLEAN, confirmed : BOOLEAN]
      BY QueueRowType
    <3>2. queue'[r] = [queue[r] EXCEPT !.confirmed = TRUE]
      BY <2>1
    <3>3. ASSUME crashes = 0, queue[r].final, ~queue[r].confirmed PROVE r \in told'
      <4>1. r \in Decided(receipts[queue[r].bundle])
        BY <3>3 DEF DtnInv, QueueInv
      <4>2. receipts[queue[r].bundle] \in DueReceipts
        BY <3>3 DEF DueReceipts, Unconfirmed
      <4> QED
        BY <2>1, <4>1, <4>2
    <3>4. crashes = 0 /\ queue[r].final /\ queue'[r].confirmed => queue[r].confirmed \/ r \in told'
      BY <3>3
    <3> QED
      BY <3>1, <3>2, <3>4
  <2>5. told \subseteq told'
    BY <2>1
  <2> QED
    BY <1>1, <2>1, <2>2, <2>3, <2>4, <2>5, CarrierKeepsInv
<1>4. ASSUME NEW r \in DOMAIN queue, PruneDelivered(r)
      PROVE  DtnInv'
  <2>1. /\ queue' = [q \in DOMAIN queue \ {r} |-> queue[q]]
        /\ UNCHANGED <<wallet, fate, seen, forks, equivs, log, receipts, told, job, bags, mail>>
        /\ crashes' = crashes
    BY <1>4 DEF PruneDelivered, carried
  <2>2. mail' \subseteq OutcomeSeqs
    BY <1>0, <2>1
  <2>3. \A q \in DOMAIN queue' : q \in DOMAIN queue /\ queue'[q] = queue[q]
    BY <2>1
  <2> QED
    BY <1>1, <2>1, <2>2, <2>3, QueueRowType, CarrierKeepsInv
<1> QED
  BY <1>2, <1>3, <1>4

\* The environment.
LEMMA FateKeepsInv ==
    ASSUME DtnInv, NEW r \in Records, FateChanges(r)
    PROVE  DtnInv'
<1>1. /\ fate' \in [Records -> {"waiting", "live", "dead"}] /\ FateKept
      /\ UNCHANGED <<rows, chain, cursor, signed, restores, top, seen, forks, equivs, log,
                      receipts, queue, told, job, mail, bags, crashes>>
  <2>1. /\ fate[r] # "dead" /\ fate' \in {[fate EXCEPT ![r] = "live"], [fate EXCEPT ![r] = "dead"]}
        /\ UNCHANGED <<rows, chain, cursor, signed, restores, top, seen, forks, equivs, log,
                        receipts, queue, told, job, mail, bags, crashes>>
    BY DEF FateChanges, wallet, ingest, carried, count
  <2>2. fate \in [Records -> {"waiting", "live", "dead"}]
    BY DEF DtnInv, StationType
  <2> QED
    BY <2>1, <2>2 DEF FateKept
<1>2. NoNewEntries
  BY <1>1 DEF NoNewEntries, Known, InRows, InSeen, InBundles, InJob
<1>3. SeenKept
  BY <1>1 DEF SeenKept
<1>4. StationType'
  BY <1>1 DEF DtnInv, StationType, JobOK
<1>5. OutcomeSeqs' = OutcomeSeqs
  BY <1>1 DEF OutcomeSeqs, Idle
<1>6. RecordInv' /\ QueueInv' /\ crashes' \in Nat
  BY <1>1 DEF DtnInv, RecordInv, About, Fits, Stands, QueueInv, WalletType
<1> QED
  BY <1>1, <1>2, <1>3, <1>4, <1>5, <1>6, StationStep
-----------------------------------------------------------------------------
(* An ingest.                                                              *)

\* A step of which the rest is unchanged, by its job alone.
LEMMA JobStep ==
    ASSUME DtnInv,
           UNCHANGED <<rows, chain, cursor, signed, restores, top, seen, forks, equivs, log,
                       receipts, queue, told, bags, fate>>,
           crashes' \in Nat, crashes' = 0 => crashes = 0,
           mail' \subseteq OutcomeSeqs,
           \/ job' = NoJob
           \/ /\ JobOK' /\ About(job'.bundle, job'.outs) /\ (job'.phase # "reply" => Stands')
              /\ \A i \in DOMAIN job'.bundle : Known(Mended(job'.bundle[i]))
              /\ job'.outs \in OutcomeSeqs \cup {<<>>}
    PROVE  DtnInv'
<1>1. NoNewEntries
  BY DEF NoNewEntries, Known, InRows, InSeen, InBundles, InJob
<1>2. SeenKept /\ FateKept
  BY DEF SeenKept, FateKept
<1>3. StationType'
  <2>1. JobOK'
    BY DEF JobOK
  <2> QED
    BY <2>1, OutcomesTyped DEF DtnInv, StationType
<1>4. \A outs \in OutcomeSeqs' : outs \in OutcomeSeqs \/ Truths(outs)'
  <2>1. Truths(<<>>)'
    BY DEF Truths
  <2>2. \A outs \in OutcomeSeqs' : outs \in OutcomeSeqs \cup {<<>>}
    BY DEF OutcomeSeqs, Idle
  <2> QED
    BY <2>1, <2>2
<1>5. RecordInv'
  BY DEF DtnInv, RecordInv, About, Fits, Stands
<1>6. QueueInv'
  BY DEF DtnInv, QueueInv
<1> QED
  BY <1>1, <1>2, <1>3, <1>4, <1>5, <1>6, StationStep

LEMMA PresentKeepsInv ==
    ASSUME DtnInv, NEW b \in BundleType, \A i \in DOMAIN b : Known(Mended(b[i])),
           NEW online \in BOOLEAN, Present(b, online)
    PROVE  DtnInv'
<1>1. /\ UNCHANGED <<rows, chain, cursor, signed, restores, top, seen, forks, equivs, log,
                      receipts, queue, told, bags, mail, fate, crashes>>
      /\ job' = IF ServesStored(b) THEN Job(b, online, Len(b), receipts[b], "reply")
                ELSE Job(b, online, 1, <<>>, "entries")
  BY DEF Present, wallet, carried, count
<1>2. Len(b) \in Nat /\ Len(b) >= 1 /\ DOMAIN b = 1 .. Len(b)
  BY DEF BundleType
<1>3. crashes' \in Nat /\ mail' \subseteq OutcomeSeqs
  BY <1>1 DEF DtnInv, WalletType, OutcomeSeqs
<1>4. CASE ServesStored(b)
  <2>1. b \in DOMAIN receipts /\ receipts[b] \in Seq(Outcomes) /\ About(b, receipts[b])
    BY <1>4 DEF ServesStored, DtnInv, StationType, RecordInv
  <2>2. /\ job'.bundle = b /\ job'.outs = receipts[b] /\ job'.at = Len(b) /\ job'.phase = "reply"
        /\ job' \in JobType
    BY <1>1, <1>2, <1>4, <2>1 DEF Job, JobType
  <2>3. JobOK'
    BY <1>2, <2>2 DEF JobOK
  <2>4. receipts[b] \in OutcomeSeqs
    BY <2>1 DEF OutcomeSeqs, Range
  <2> QED
    BY <1>1, <1>3, <2>1, <2>2, <2>3, <2>4, JobStep
<1>5. CASE ~ServesStored(b)
  <2>1. /\ job'.bundle = b /\ job'.outs = <<>> /\ job'.at = 1 /\ job'.phase = "entries"
        /\ job' \in JobType
    BY <1>1, <1>2, <1>5 DEF Job, JobType
  <2>2. JobOK'
    BY <1>2, <2>1 DEF JobOK
  <2>3. About(b, <<>>) /\ Stands'
    BY <1>2, <2>1 DEF About, Stands
  <2> QED
    BY <1>1, <1>3, <2>1, <2>2, <2>3, JobStep
<1> QED
  BY <1>4, <1>5

\* The job ends: its receipt is in the mail, or the station has crashed.
LEMMA JobEndsKeepsInv ==
    ASSUME DtnInv, Reply \/ CrashBetween
    PROVE  DtnInv'
<1>1. CASE Reply
  <2>1. /\ mail' \in Keep(mail, {job.outs}, MaxMail) /\ job' = NoJob /\ job.phase = "reply"
        /\ UNCHANGED <<rows, chain, cursor, signed, restores, top, seen, forks, equivs, log,
                        receipts, queue, told, bags, fate, crashes>>
    BY <1>1 DEF Reply, wallet, count
  <2>2. job.outs \in OutcomeSeqs /\ mail \subseteq OutcomeSeqs
    BY <2>1 DEF OutcomeSeqs, Idle, NoJob
  <2>3. mail' \subseteq OutcomeSeqs
    BY <2>1, <2>2, KeptByCarriers
  <2>4. crashes' \in Nat
    BY <2>1 DEF DtnInv, WalletType
  <2> QED
    BY <2>1, <2>3, <2>4, JobStep
<1>2. CASE CrashBetween
  <2>1. /\ job' = NoJob /\ crashes' = crashes + 1 /\ crashes \in Nat
        /\ UNCHANGED <<rows, chain, cursor, signed, restores, top, seen, forks, equivs, log,
                        receipts, queue, told, bags, fate, mail>>
    BY <1>2 DEF CrashBetween, Crash, wallet, carried, DtnInv, WalletType
  <2>2. mail' \subseteq OutcomeSeqs /\ crashes' \in Nat /\ crashes' # 0
    BY <2>1 DEF OutcomeSeqs
  <2> QED
    BY <2>1, <2>2, JobStep
<1> QED
  BY <1>1, <1>2

\* The entry in hand, as it came.
LEMMA CopyInHand ==
    ASSUME DtnInv, job.phase = "entries"
    PROVE  /\ job # NoJob /\ job \in JobType /\ job.at \in DOMAIN job.bundle
           /\ Len(job.outs) = job.at - 1
           /\ Entry \in CopyType /\ Known(Mended(Entry)) /\ Entry.rec \in Records
           /\ Entry.rec \in signed
<1>1. job # NoJob
  BY DEF NoJob
<1>2. job \in JobType /\ job.at \in 1 .. Len(job.bundle) /\ Len(job.outs) = job.at - 1
  BY <1>1 DEF DtnInv, StationType, JobOK
<1>3. job.bundle \in Seq(CopyType)
  BY <1>2 DEF JobType, BundleType
<1>4. job.at \in DOMAIN job.bundle /\ Entry \in CopyType
  BY <1>2, <1>3 DEF Entry
<1>5. Known(Mended(Entry))
  BY <1>1, <1>4 DEF Known, InJob, Entry
<1>6. Mended(Entry) \in EntryType /\ Mended(Entry).rec = Entry.rec
  BY <1>4, Copies
<1>7. Entry.rec \in signed
  BY <1>5, <1>6 DEF DtnInv, Identity
<1> QED
  BY <1>1, <1>2, <1>4, <1>5, <1>7 DEF DtnInv, WalletType

LEMMA EntryInHand ==
    ASSUME DtnInv, AtEntry
    PROVE  /\ job.phase = "entries" /\ job # NoJob
           /\ Entry \in EntryType /\ Known(Entry) /\ Entry.rec \in Records /\ Entry.pos \in Nat
           /\ Entry.rec \in signed /\ Entry.intact
<1>1. job.phase = "entries" /\ Entry.intact
  BY DEF AtEntry
<1>2. /\ job # NoJob /\ Entry \in CopyType /\ Known(Mended(Entry)) /\ Entry.rec \in Records
      /\ Entry.rec \in signed
  BY <1>1, CopyInHand
<1>3. Entry \in EntryType /\ Mended(Entry) = Entry
  BY <1>1, <1>2, Copies
<1> QED
  BY <1>1, <1>2, <1>3 DEF EntryType

\* note_entry: what was seen stays, and the entry in hand is among it.
LEMMA NotedKeepsSeen ==
    ASSUME DtnInv, AtEntry, ~IsFork, seen' = Noted
    PROVE  /\ SeenKept
           /\ \A p \in DOMAIN seen' :
                 /\ p \in Nat /\ seen'[p] \in EntryType /\ seen'[p].pos = p
                 /\ Known(seen'[p])
           /\ Entry.pos \in DOMAIN seen' /\ seen'[Entry.pos] = Entry
<1>1. Entry \in EntryType /\ Known(Entry) /\ Entry.pos \in Nat
  BY EntryInHand
<1>2. /\ DOMAIN seen' = DOMAIN seen \cup {Entry.pos}
      /\ \A p \in DOMAIN seen' : seen'[p] = IF p \in DOMAIN seen THEN seen[p] ELSE Entry
  BY DEF Noted
<1>3. \A p \in DOMAIN seen : p \in Nat /\ seen[p] \in EntryType /\ seen[p].pos = p /\ Known(seen[p])
  BY DEF DtnInv, StationType, Known, InSeen
<1>4. seen'[Entry.pos] = Entry
  BY <1>2 DEF IsFork
<1> QED
  BY <1>1, <1>2, <1>3, <1>4 DEF SeenKept

\* The job goes on with one more outcome.
LEMMA SettledJob ==
    ASSUME DtnInv, job.phase = "entries", NEW disp \in Dispositions, job' = Settled(disp)
    PROVE  /\ job' # NoJob /\ JobOK' /\ job'.bundle = job.bundle
           /\ job'.outs = Append(job.outs, [rec |-> Entry.rec, disp |-> disp])
           /\ job.outs \in Seq(Outcomes) /\ job'.outs \in Seq(Outcomes)
<1> DEFINE out == [rec |-> Entry.rec, disp |-> disp]
           last == job.at = Len(job.bundle)
           at == IF last THEN job.at ELSE job.at + 1
           phase == IF last THEN "finish" ELSE "entries"
<1>1. /\ job \in JobType /\ job.at \in DOMAIN job.bundle /\ Len(job.outs) = job.at - 1
      /\ Entry.rec \in Records
  BY CopyInHand
<1>2. job.outs \in Seq(Outcomes) /\ out \in Outcomes /\ job.bundle \in Seq(CopyType)
  BY <1>1 DEF JobType, Outcomes, BundleType
<1>3. Append(job.outs, out) \in Seq(Outcomes) /\ Len(Append(job.outs, out)) = Len(job.outs) + 1
  BY <1>2
<1>4. /\ at \in 1 .. Len(job.bundle) /\ at \in Nat /\ (phase = "entries" => at - 1 = job.at)
      /\ phase = "finish" => job.at = Len(job.bundle)
  BY <1>1, <1>2
<1>5. phase \in {"entries", "finish", "reply"}
  OBVIOUS
<1>6. job' = [bundle |-> job.bundle, online |-> job.online, at |-> at,
              outs |-> Append(job.outs, out), phase |-> phase]
  BY DEF Settled, Job
<1> HIDE DEF at, phase, out
<1>7. job.bundle \in BundleType /\ job.online \in BOOLEAN
  BY <1>1 DEF JobType
<1>8. /\ job' \in JobType /\ job'.bundle = job.bundle /\ job'.outs = Append(job.outs, out)
      /\ job'.at = at /\ job'.phase = phase
  BY <1>3, <1>4, <1>5, <1>6, <1>7 DEF JobType
<1>9. job' # NoJob
  BY <1>5, <1>8 DEF NoJob
<1>10. JobOK'
  BY <1>1, <1>2, <1>3, <1>4, <1>8 DEF JobOK
<1> QED
  BY <1>2, <1>3, <1>8, <1>9, <1>10 DEF out

\* The outcomes so far, and the new one, are what the bundle asked for.
LEMMA SettledIsAbout ==
    ASSUME DtnInv, job.phase = "entries", NEW disp \in Dispositions, job' = Settled(disp),
           forks \subseteq forks', equivs \subseteq equivs',
           disp = "fork" => Entry.pos \in forks' \cap equivs',
           disp = "bad" => ~Entry.intact, ~Entry.intact => disp = "bad",
           job.bundle \in DOMAIN receipts /\ Entry.rec \in Decided(receipts[job.bundle]) =>
               disp # "later",
           UNCHANGED receipts
    PROVE  RecordInv'
<1>1. /\ job # NoJob /\ job \in JobType /\ job.at \in DOMAIN job.bundle
      /\ Len(job.outs) = job.at - 1
  BY CopyInHand
<1>2. /\ job'.bundle = job.bundle
      /\ job'.outs = Append(job.outs, [rec |-> Entry.rec, disp |-> disp])
      /\ job.outs \in Seq(Outcomes)
  BY SettledJob
<1>3. \A c, out : Fits(c, out) => Fits(c, out)'
  BY DEF Fits
<1>4. PICK b, old, at, c : b = job.bundle /\ old = job.outs /\ at = job.at /\ c = Entry
  OBVIOUS
<1>5. PICK out \in Outcomes : out.rec = c.rec /\ out.disp = disp
                             /\ out = [rec |-> Entry.rec, disp |-> disp]
  BY <1>4, CopyInHand DEF Outcomes
<1>6. /\ b \in Seq(CopyType) /\ old \in Seq(Outcomes) /\ at \in DOMAIN b /\ Len(old) = at - 1
      /\ c = b[at] /\ Len(b) \in Nat /\ Len(old) \in Nat /\ at \in 1 .. Len(b)
      /\ DOMAIN old = 1 .. Len(old)
  <2>1. b \in Seq(CopyType) /\ old \in Seq(Outcomes)
    BY <1>1, <1>2, <1>4 DEF JobType, BundleType
  <2> QED
    BY <1>1, <1>4, <2>1 DEF Entry
<1>7. Fits(c, out)'
  BY <1>4, <1>5 DEF Fits
<1>8. \A i \in DOMAIN old : Fits(b[i], old[i])'
  BY <1>1, <1>3, <1>4 DEF DtnInv, RecordInv, About
<1> DEFINE new == Append(old, out)
<1>9. /\ Len(new) = at
      /\ \A i \in DOMAIN new : (i \in DOMAIN old /\ new[i] = old[i]) \/ (i = at /\ new[i] = out)
  <2>1. /\ Len(new) = Len(old) + 1 /\ DOMAIN new = 1 .. Len(old) + 1
        /\ \A i \in DOMAIN old : new[i] = old[i]
        /\ new[Len(old) + 1] = out
    BY <1>6
  <2> QED
    BY <1>6, <2>1
<1>10. job'.bundle = b /\ job'.outs = new /\ receipts' = receipts
  BY <1>2, <1>4, <1>5
<1> HIDE DEF new
<1>11. About(job.bundle, job.outs)'
  <2>1. Len(new) <= Len(b)
    BY <1>6, <1>9
  <2>2. ASSUME NEW i \in DOMAIN new PROVE Fits(b[i], new[i])'
    <3>1. CASE i \in DOMAIN old /\ new[i] = old[i]
      BY <1>8, <3>1
    <3>2. CASE i = at /\ new[i] = out
      BY <1>6, <1>7, <3>2
    <3> QED
      BY <1>9, <3>1, <3>2
  <2> QED
    BY <1>10, <2>1, <2>2 DEF About
<1>12. Stands'
  <2> SUFFICES ASSUME b \in DOMAIN receipts, NEW i \in DOMAIN new,
                      new[i].rec \in Decided(receipts[b])
               PROVE  new[i].disp # "later"
    BY <1>10 DEF Stands
  <2>1. CASE i \in DOMAIN old /\ new[i] = old[i]
    BY <1>1, <1>4, <2>1 DEF DtnInv, RecordInv, Stands
  <2>2. CASE i = at /\ new[i] = out
    BY <1>4, <1>5, <2>2
  <2> QED
    BY <1>9, <2>1, <2>2
<1>13. \A d \in DOMAIN receipts' : About(d, receipts[d])'
  <2>1. \A d \in DOMAIN receipts : About(d, receipts[d])
    BY DEF DtnInv, RecordInv
  <2> QED
    BY <1>3, <1>10, <2>1 DEF About
<1> QED
  BY <1>11, <1>12, <1>13 DEF RecordInv

LEMMA OneMoreTruth ==
    ASSUME NEW old \in Seq(Outcomes), Truths(old)',
           NEW r \in Records, NEW disp \in Dispositions, Truth(r, disp)'
    PROVE  Truths(Append(old, [rec |-> r, disp |-> disp]))'
<1> DEFINE out == [rec |-> r, disp |-> disp]
           new == Append(old, out)
<1>1. out \in Outcomes /\ out.rec = r /\ out.disp = disp
  BY DEF Outcomes
<1> HIDE DEF out
<1>2. /\ DOMAIN new = 1 .. Len(old) + 1 /\ DOMAIN old = 1 .. Len(old) /\ Len(old) \in Nat
      /\ \A i \in DOMAIN old : new[i] = old[i]
      /\ new[Len(old) + 1] = out
  BY <1>1
<1> HIDE DEF new
<1>3. \A i \in DOMAIN old : Truth(old[i].rec, old[i].disp)'
  BY DEF Truths
<1>4. \A i \in DOMAIN new : Truth(new[i].rec, new[i].disp)'
  <2> SUFFICES ASSUME NEW i \in DOMAIN new PROVE Truth(new[i].rec, new[i].disp)'
    OBVIOUS
  <2>1. CASE i \in DOMAIN old
    <3>1. new[i] = old[i] /\ Truth(old[i].rec, old[i].disp)'
      BY <1>2, <1>3, <2>1
    <3> QED
      BY <3>1
  <2>2. CASE i = Len(old) + 1
    <3>1. new[i] = out
      BY <1>2, <2>2
    <3> QED
      BY <1>1, <3>1
  <2> QED
    BY <1>2, <2>1, <2>2
<1>5. Truths(new)'
  BY <1>4 DEF Truths
<1> QED
  BY <1>5 DEF new, out

\* An entry is settled: what is asked of the answer and of what was written.
LEMMA SettledKeepsInv ==
    ASSUME DtnInv, job.phase = "entries", NEW r \in Records, r = Entry.rec,
           NEW disp \in Dispositions, job' = Settled(disp),
           UNCHANGED <<rows, chain, cursor, signed, restores, top, receipts, queue, told, bags, mail,
                       fate, crashes>>,
           SeenKept,
           \A p \in DOMAIN seen' :
              p \in Nat /\ seen'[p] \in EntryType /\ seen'[p].pos = p /\ Known(seen'[p]),
           log \subseteq log', log' \subseteq signed,
           \A x \in log' \ log : /\ fate[x] # "dead" /\ ~Forked(x)
                               /\ \E p \in DOMAIN seen' : seen'[p].rec = x,
           Truth(r, disp) \/ Truth(r, disp)',
           forks \subseteq forks', equivs \subseteq equivs', restores = 0 => forks' = forks,
           disp = "fork" => Entry.pos \in forks' \cap equivs',
           disp = "bad" => ~Entry.intact, ~Entry.intact => disp = "bad",
           job.bundle \in DOMAIN receipts /\ r \in Decided(receipts[job.bundle]) =>
               disp # "later"
    PROVE  DtnInv'
<1>1. /\ job' # NoJob /\ JobOK' /\ job'.bundle = job.bundle
      /\ job'.outs = Append(job.outs, [rec |-> r, disp |-> disp])
      /\ job.outs \in Seq(Outcomes)
  BY SettledJob
<1>2. job # NoJob
  BY CopyInHand
<1>3. NoNewEntries
  <2> SUFFICES ASSUME NEW e, Known(e)' PROVE Known(e)
    BY DEF NoNewEntries
  <2>1. CASE InSeen(e)'
    BY <2>1 DEF InSeen
  <2>2. CASE InRows(e)' \/ InBundles(e)' \/ InJob(e)'
    BY <1>1, <1>2, <2>2 DEF InRows, InBundles, InJob, Known
  <2> QED
    BY <2>1, <2>2 DEF Known
<1>4. FateKept
  BY DEF FateKept
<1>5. StationType'
  BY <1>1 DEF DtnInv, StationType
<1>6. /\ \A x \in Records : \A d : Truth(x, d) => Truth(x, d)'
      /\ \A outs \in Seq(Outcomes) : Truths(outs) => Truths(outs)'
  BY <1>3, <1>4, TruthsKept DEF NoNewEntries
<1>7. Truth(r, disp)'
  BY <1>6
<1>8. PICK old \in Seq(Outcomes) : old = job.outs
  BY <1>1
<1>9. old \in OutcomeSeqs
  BY <1>2, <1>8 DEF OutcomeSeqs, Idle
<1>10. Truths(old)'
  BY <1>6, <1>8, <1>9 DEF DtnInv, AnswerInv
<1> DEFINE new == Append(old, [rec |-> r, disp |-> disp])
<1>11. Truths(new)'
  BY <1>7, <1>10, OneMoreTruth
<1>12. job'.outs = new
  BY <1>1, <1>8
<1> HIDE DEF new
<1>13. \A outs \in OutcomeSeqs' : outs \in OutcomeSeqs \/ outs = new
  BY <1>1, <1>12 DEF OutcomeSeqs, Idle
<1>14. \A outs \in OutcomeSeqs' : outs \in OutcomeSeqs \/ Truths(outs)'
  BY <1>11, <1>13
<1>15. RecordInv'
  BY SettledIsAbout
<1>16. QueueInv' /\ crashes' \in Nat
  BY DEF DtnInv, QueueInv, WalletType
<1> QED
  BY <1>3, <1>4, <1>5, <1>14, <1>15, <1>16, StationStep

\* A verdict was given for a reason that lasts.
LEMMA VerdictLasts ==
    ASSUME DtnInv, NEW b \in DOMAIN receipts, NEW r \in Decided(receipts[b])
    PROVE  r \in log \/ fate[r] = "dead" \/ Forked(r)
<1>1. receipts[b] \in OutcomeSeqs /\ receipts[b] \in Seq(Outcomes)
  BY DEF OutcomeSeqs, Range, DtnInv, StationType
<1>2. PICK i \in DOMAIN receipts[b] : receipts[b][i].rec = r /\ receipts[b][i].disp \notin {"later", "bad"}
  BY DEF Decided
<1>3. Truth(r, receipts[b][i].disp)
  BY <1>1, <1>2 DEF DtnInv, AnswerInv, Truths
<1>4. receipts[b][i] \in Outcomes
  BY <1>1
<1>5. receipts[b][i].disp \in Dispositions
  BY <1>4 DEF Outcomes
<1> QED
  BY <1>2, <1>3, <1>5 DEF Truth, Dispositions

\* A damaged copy is refused, whatever became of its record.
LEMMA DamagedKeepsInv ==
    ASSUME DtnInv, RefuseDamaged
    PROVE  DtnInv'
<1>1. /\ job.phase = "entries" /\ ~Entry.intact /\ job' = Settled("bad")
      /\ UNCHANGED <<rows, chain, cursor, signed, restores, top, seen, forks, equivs, log,
                      receipts, queue, told, bags, mail, fate, crashes>>
  BY DEF RefuseDamaged, wallet, carried, count
<1>2. PICK r \in Records : r = Entry.rec
  BY <1>1, CopyInHand
<1>3. /\ SeenKept
      /\ \A p \in DOMAIN seen' :
            p \in Nat /\ seen'[p] \in EntryType /\ seen'[p].pos = p /\ Known(seen'[p])
  BY <1>1 DEF SeenKept, DtnInv, StationType, Known, InSeen
<1>4. Truth(r, "bad") /\ "bad" \in Dispositions
  BY DEF Truth, Dispositions
<1>5. log \subseteq log' /\ log' \subseteq signed /\ log' \ log = {}
  BY <1>1 DEF DtnInv, StationType
<1> QED
  BY <1>1, <1>2, <1>3, <1>4, <1>5, SettledKeepsInv

\* The engine's answer to an entry that is no fork is true when it is given.
LEMMA TakeKeepsInv ==
    ASSUME DtnInv, TakeEntry
    PROVE  DtnInv'
<1>1. /\ AtEntry /\ ~IsFork /\ seen' = Noted
      /\ UNCHANGED <<rows, chain, cursor, signed, restores, top, forks, equivs, receipts, queue, told,
                      bags, mail, fate, crashes>>
  BY DEF TakeEntry, wallet, carried, count
<1>2. PICK disp \in IF AlreadyLogged(Entry.rec) THEN {"known"} ELSE FrontDoor(Entry) :
         /\ job' = Settled(disp)
         /\ log' = IF disp = "admitted" THEN log \cup {Entry.rec} ELSE log
  BY DEF TakeEntry
<1>3. PICK r \in Records : r = Entry.rec
  BY <1>1, EntryInHand
<1>4. Entry \in EntryType /\ Known(Entry) /\ r \in signed
  BY <1>1, <1>3, EntryInHand
<1>5. \/ disp = "known" /\ r \in log
      \/ disp = "never" /\ fate[r] = "dead" /\ r \notin log
      \/ disp = "later" /\ fate[r] # "dead" /\ r \notin log
      \/ disp = "admitted" /\ fate[r] # "dead"
  BY <1>2, <1>3 DEF AlreadyLogged, FrontDoor
<1>6. disp \in Dispositions /\ disp \notin {"fork", "bad"}
  BY <1>5 DEF Dispositions
<1>11. ~Forked(r) /\ Entry.intact /\ job.phase = "entries"
  BY <1>1, <1>3, <1>4, EntryInHand DEF Forked, IsFork
<1>12. job.bundle \in DOMAIN receipts /\ r \in Decided(receipts[job.bundle]) => disp # "later"
  BY <1>5, <1>11, VerdictLasts
<1>7. /\ SeenKept
      /\ \A p \in DOMAIN seen' :
            p \in Nat /\ seen'[p] \in EntryType /\ seen'[p].pos = p /\ Known(seen'[p])
      /\ Entry.pos \in DOMAIN seen' /\ seen'[Entry.pos] = Entry
  BY <1>1, NotedKeepsSeen
<1>8. log \subseteq log' /\ log' \subseteq signed
  BY <1>2, <1>3, <1>4 DEF DtnInv, StationType
<1>9. \A x \in log' \ log : /\ fate[x] # "dead" /\ ~Forked(x)
                            /\ \E p \in DOMAIN seen' : seen'[p].rec = x
  <2> SUFFICES ASSUME disp = "admitted", r \notin log
               PROVE  /\ fate[r] # "dead" /\ ~Forked(r)
                      /\ \E p \in DOMAIN seen' : seen'[p].rec = r
    BY <1>2, <1>3
  <2>1. fate[r] # "dead"
    BY <1>5
  <2>2. ~Forked(r)
    BY <1>1, <1>3, <1>4 DEF Forked, IsFork
  <2> QED
    BY <1>3, <1>7, <2>1, <2>2
<1>10. Truth(r, disp)'
  <2>1. /\ disp \in {"admitted", "known"} => r \in log'
        /\ disp = "never" => fate'[r] = "dead" /\ r \notin log'
    BY <1>1, <1>2, <1>3, <1>5
  <2> QED
    BY <1>6, <2>1 DEF Truth
<1> QED
  BY <1>1, <1>2, <1>3, <1>6, <1>7, <1>8, <1>9, <1>10, <1>11, <1>12, SettledKeepsInv

\* A fork in hand: its record is not in the log and never gets there, and the
\* wallet that signed it was restored.
LEMMA ForkInHand ==
    ASSUME DtnInv, AtEntry, IsFork, NEW r \in Records, r = Entry.rec
    PROVE  /\ Forked(r) /\ restores # 0 /\ Entry.pos \in DOMAIN seen
           /\ \A p \in DOMAIN seen : seen[p].rec # r
<1>1. Entry \in EntryType /\ Known(Entry) /\ r \in signed
  BY EntryInHand
<1>2. Entry.pos \in DOMAIN seen /\ seen[Entry.pos] # Entry
  BY DEF IsFork
<1>3. \A p \in DOMAIN seen : Known(seen[p]) /\ seen[p].pos = p
  BY DEF Known, InSeen, DtnInv, StationType
<1>4. restores # 0
  BY <1>1, <1>2, <1>3 DEF DtnInv, ChainInv
<1>5. \A e : Known(e) /\ e.rec = r => e = Entry
  BY <1>1 DEF DtnInv, Identity
<1>6. \A p \in DOMAIN seen : seen[p].rec # r
  BY <1>2, <1>3, <1>5
<1>7. r \notin log
  BY <1>6 DEF DtnInv, Identity
<1> QED
  BY <1>1, <1>2, <1>4, <1>5, <1>6, <1>7 DEF Forked

LEMMA RefuseKeepsInv ==
    ASSUME DtnInv, RefuseFork
    PROVE  DtnInv'
<1>1. /\ AtEntry /\ IsFork /\ forks' = forks \cup {Entry.pos} /\ equivs' = equivs \cup {Entry.pos}
      /\ job' = Settled("fork")
      /\ UNCHANGED <<rows, chain, cursor, signed, restores, top, seen, log, receipts, queue, told,
                      bags, mail, fate, crashes>>
  BY DEF RefuseFork, FoundForks, FoundEquivs, wallet, carried, count
<1>2. PICK r \in Records : r = Entry.rec
  BY <1>1, EntryInHand
<1>3. Forked(r) /\ restores # 0
  BY <1>1, <1>2, ForkInHand
<1>4. /\ SeenKept
      /\ \A p \in DOMAIN seen' :
            p \in Nat /\ seen'[p] \in EntryType /\ seen'[p].pos = p /\ Known(seen'[p])
  BY <1>1 DEF SeenKept, DtnInv, StationType, Known, InSeen
<1>5. Truth(r, "fork") /\ "fork" \in Dispositions
  BY <1>3 DEF Truth, Dispositions
<1>6. log \subseteq log' /\ log' \subseteq signed /\ log' \ log = {}
  BY <1>1 DEF DtnInv, StationType
<1>7. job.phase = "entries" /\ Entry.intact
  BY <1>1, EntryInHand
<1> QED
  BY <1>1, <1>2, <1>3, <1>4, <1>5, <1>6, <1>7, SettledKeepsInv

\* A crash after the first write of an entry.
LEMMA CrashAtEntryKeepsInv ==
    ASSUME DtnInv, CrashAfterNote \/ CrashAfterFork
    PROVE  DtnInv'
<1>1. /\ AtEntry /\ job' = NoJob /\ crashes' = crashes + 1 /\ crashes \in Nat
      /\ UNCHANGED <<rows, chain, cursor, signed, restores, top, equivs, log, receipts, queue, told,
                      bags, mail, fate>>
  BY DEF CrashAfterNote, CrashAfterFork, Crash, wallet, carried, DtnInv, WalletType
<1>2. /\ SeenKept
      /\ \A p \in DOMAIN seen' :
            p \in Nat /\ seen'[p] \in EntryType /\ seen'[p].pos = p /\ Known(seen'[p])
  <2>1. CASE CrashAfterNote
    BY <1>1, <2>1, NotedKeepsSeen DEF CrashAfterNote
  <2>2. CASE CrashAfterFork
    BY <2>2 DEF CrashAfterFork, SeenKept, DtnInv, StationType, Known, InSeen
  <2> QED
    BY <2>1, <2>2
<1>3. forks \subseteq forks' /\ (restores = 0 => forks' = forks)
  <2>1. CASE CrashAfterNote
    BY <2>1 DEF CrashAfterNote
  <2>2. CASE CrashAfterFork
    <3>1. PICK r \in Records : r = Entry.rec
      BY <1>1, EntryInHand
    <3>2. IsFork /\ forks' = forks \cup {Entry.pos}
      BY <2>2 DEF CrashAfterFork, FoundForks
    <3> QED
      BY <1>1, <3>1, <3>2, ForkInHand
  <2> QED
    BY <2>1, <2>2
<1>4. NoNewEntries
  <2> SUFFICES ASSUME NEW e, Known(e)' PROVE Known(e)
    BY DEF NoNewEntries
  <2>1. CASE InSeen(e)'
    BY <1>2, <2>1 DEF InSeen
  <2>2. CASE InRows(e)' \/ InBundles(e)' \/ InJob(e)'
    BY <1>1, <2>2 DEF InRows, InBundles, InJob, Known
  <2> QED
    BY <2>1, <2>2 DEF Known
<1>5. FateKept
  BY <1>1 DEF FateKept
<1>6. StationType'
  BY <1>1, <1>2 DEF DtnInv, StationType, JobOK
<1>7. OutcomeSeqs' \subseteq OutcomeSeqs
  BY <1>1 DEF OutcomeSeqs, Idle
<1>8. RecordInv'
  BY <1>1, <1>3 DEF DtnInv, RecordInv, About, Fits, Stands
<1>9. QueueInv' /\ crashes' \in Nat
  BY <1>1 DEF QueueInv
<1>10. log \subseteq log' /\ log' \ log = {}
  BY <1>1
<1> QED
  BY <1>1, <1>2, <1>3, <1>4, <1>5, <1>6, <1>7, <1>8, <1>9, <1>10, StationStep

\* An entry stands once in a bundle, and so does the answer to its record.
LEMMA OneAnswerEach ==
    ASSUME DtnInv, job # NoJob
    PROVE  \A i, j \in DOMAIN job.outs : job.outs[i].rec = job.outs[j].rec => i = j
<1>1. /\ job.bundle \in BundleType /\ job.outs \in Seq(Outcomes)
      /\ \A i \in DOMAIN job.outs : i \in DOMAIN job.bundle /\ job.outs[i].rec = job.bundle[i].rec
  <2>1. job \in JobType /\ About(job.bundle, job.outs)
    BY DEF DtnInv, StationType, JobOK, RecordInv
  <2>2. job.bundle \in BundleType /\ job.outs \in Seq(Outcomes)
    BY <2>1 DEF JobType
  <2> QED
    BY <2>1, <2>2 DEF About, Fits, BundleType
<1>2. \A i \in DOMAIN job.bundle :
         /\ Known(Mended(job.bundle[i])) /\ job.bundle[i].pos \in Nat
         /\ Mended(job.bundle[i]).pos = job.bundle[i].pos
         /\ Mended(job.bundle[i]).rec = job.bundle[i].rec
  <2>1. \A i \in DOMAIN job.bundle : job.bundle[i] \in CopyType
    BY <1>1 DEF BundleType
  <2>2. \A i \in DOMAIN job.bundle : Known(Mended(job.bundle[i]))
    BY DEF Known, InJob
  <2>3. \A i \in DOMAIN job.bundle : job.bundle[i].pos \in Nat
    BY <2>1 DEF CopyType
  <2> QED
    BY <2>1, <2>2, <2>3, Copies
<1> SUFFICES ASSUME NEW i \in DOMAIN job.outs, NEW j \in DOMAIN job.outs,
                    job.outs[i].rec = job.outs[j].rec
             PROVE  i = j
  OBVIOUS
<1>3. Mended(job.bundle[i]) = Mended(job.bundle[j])
  BY <1>1, <1>2 DEF DtnInv, Identity
<1>4. i \in Nat /\ j \in Nat /\ job.bundle[i].pos = job.bundle[j].pos
  BY <1>1, <1>2, <1>3
<1>5. ~(i < j) /\ ~(j < i)
  BY <1>1, <1>2, <1>4 DEF BundleType
<1> QED
  BY <1>4, <1>5

\* record_receipt_delivery for the first n outcomes.
LEMMA QueuedSays ==
    ASSUME DtnInv, job # NoJob, NEW n \in Nat, n <= Len(job.outs),
           queue' = Queued(n), receipts' = Stored
    PROVE  /\ DOMAIN receipts' = DOMAIN receipts \cup {job.bundle}
           /\ receipts'[job.bundle] = job.outs
           /\ \A b \in DOMAIN receipts : b # job.bundle => receipts'[b] = receipts[b]
           /\ \A r \in DOMAIN queue' :
                 \/ /\ r \in DOMAIN queue /\ queue'[r] = queue[r]
                    /\ queue[r].final \/ \A i \in 1 .. n : job.outs[i].rec = r => job.outs[i].disp = "bad"
                 \/ \E i \in 1 .. n :
                       /\ job.outs[i].rec = r /\ job.outs[i].disp # "bad"
                       /\ queue'[r] = [bundle |-> job.bundle, final |-> IsFinal(job.outs[i].disp),
                                        confirmed |-> FALSE]
<1>1. /\ DOMAIN receipts' = DOMAIN receipts \cup {job.bundle}
      /\ receipts'[job.bundle] = job.outs
      /\ \A b \in DOMAIN receipts : b # job.bundle => receipts'[b] = receipts[b]
  BY DEF Stored
<1>2. /\ job.outs \in Seq(Outcomes) /\ Len(job.outs) \in Nat /\ DOMAIN job.outs = 1 .. Len(job.outs)
      /\ \A i \in 1 .. n : i \in DOMAIN job.outs
  BY DEF DtnInv, StationType, JobOK, JobType
<1> DEFINE named == {job.outs[i].rec : i \in {j \in 1 .. n : job.outs[j].disp # "bad"}}
           Answer(r) == CHOOSE out \in Range(job.outs) : out.rec = r
           mine == [r \in named |-> Answer(r)]
<1>3. ASSUME NEW i \in 1 .. n PROVE Answer(job.outs[i].rec) = job.outs[i]
  <2>1. job.outs[i] \in Range(job.outs)
    BY <1>2 DEF Range
  <2>2. Answer(job.outs[i].rec) \in Range(job.outs) /\ Answer(job.outs[i].rec).rec = job.outs[i].rec
    BY <2>1
  <2> HIDE DEF Answer
  <2>3. PICK j \in DOMAIN job.outs : Answer(job.outs[i].rec) = job.outs[j]
    BY <2>2 DEF Range
  <2>4. i = j
    BY <1>2, <2>2, <2>3, OneAnswerEach
  <2> QED
    BY <2>3, <2>4
<1> HIDE DEF Answer
<1>4. queue' = [r \in DOMAIN queue \cup DOMAIN mine |->
            IF r \notin DOMAIN mine \/ (r \in DOMAIN queue /\ queue[r].final) THEN queue[r]
            ELSE [bundle |-> job.bundle, final |-> IsFinal(mine[r].disp), confirmed |-> FALSE]]
  BY DEF Queued, Attested, Answer
<1>5. DOMAIN mine = named /\ \A r \in named : mine[r] = Answer(r)
  OBVIOUS
<1> HIDE DEF mine
<1>6. ASSUME NEW r \in DOMAIN queue'
      PROVE  \/ /\ r \in DOMAIN queue /\ queue'[r] = queue[r]
                /\ queue[r].final \/ \A i \in 1 .. n : job.outs[i].rec = r => job.outs[i].disp = "bad"
             \/ \E i \in 1 .. n :
                   /\ job.outs[i].rec = r /\ job.outs[i].disp # "bad"
                   /\ queue'[r] = [bundle |-> job.bundle, final |-> IsFinal(job.outs[i].disp),
                                    confirmed |-> FALSE]
  <2>1. CASE r \notin named
    BY <1>4, <1>5, <2>1
  <2>2. CASE r \in named /\ r \in DOMAIN queue /\ queue[r].final
    BY <1>4, <1>5, <2>2
  <2>3. CASE r \in named /\ ~(r \in DOMAIN queue /\ queue[r].final)
    <3>1. PICK i \in 1 .. n : r = job.outs[i].rec /\ job.outs[i].disp # "bad"
      BY <2>3
    <3>2. mine[r] = job.outs[i]
      BY <1>3, <1>5, <2>3, <3>1
    <3>3. queue'[r] = [bundle |-> job.bundle, final |-> IsFinal(mine[r].disp), confirmed |-> FALSE]
      BY <1>4, <1>5, <2>3
    <3> QED
      BY <3>1, <3>2, <3>3
  <2> QED
    BY <2>1, <2>2, <2>3
<1> QED
  BY <1>1, <1>6

\* put_receipt and the queue rows, all of them or as far as a crash lets it.
LEMMA StoringKeepsInv ==
    ASSUME DtnInv, job # NoJob, NEW n \in Nat, n <= Len(job.outs),
           queue' = Queued(n), receipts' = Stored,
           job.phase = "finish",
           \/ job' = NoJob
           \/ /\ JobOK' /\ job' # NoJob /\ job'.bundle = job.bundle /\ job'.outs = job.outs
              /\ job'.phase = "reply",
           crashes' \in Nat, crashes' = 0 => crashes = 0 /\ n = Len(job.outs),
           UNCHANGED <<rows, chain, cursor, signed, restores, top, seen, forks, equivs, log,
                       told, bags, mail, fate>>
    PROVE  DtnInv'
<1>1. /\ DOMAIN receipts' = DOMAIN receipts \cup {job.bundle}
      /\ receipts'[job.bundle] = job.outs
      /\ \A b \in DOMAIN receipts : b # job.bundle => receipts'[b] = receipts[b]
  BY QueuedSays
<1>2. \A r \in DOMAIN queue' :
         \/ /\ r \in DOMAIN queue /\ queue'[r] = queue[r]
            /\ queue[r].final \/ \A i \in 1 .. n : job.outs[i].rec = r => job.outs[i].disp = "bad"
         \/ \E i \in 1 .. n :
               /\ job.outs[i].rec = r /\ job.outs[i].disp # "bad"
               /\ queue'[r] = [bundle |-> job.bundle, final |-> IsFinal(job.outs[i].disp),
                                confirmed |-> FALSE]
  BY QueuedSays
<1>3. job.bundle \in BundleType /\ job.outs \in Seq(Outcomes) /\ About(job.bundle, job.outs)
  BY DEF DtnInv, StationType, JobOK, JobType, RecordInv
<1>4. NoNewEntries
  <2> SUFFICES ASSUME NEW e, Known(e)' PROVE Known(e)
    BY DEF NoNewEntries
  <2>1. CASE InRows(e)' \/ InSeen(e)' \/ InJob(e)'
    BY <2>1 DEF InRows, InSeen, InJob, Known
  <2>2. CASE InBundles(e)'
    <3>1. PICK b \in bags \cup DOMAIN receipts \cup {job.bundle} : \E i \in DOMAIN b : Mended(b[i]) = e
      BY <1>1, <2>2 DEF InBundles
    <3> QED
      BY <3>1 DEF InBundles, InJob, Known
  <2> QED
    BY <2>1, <2>2 DEF Known
<1>5. SeenKept /\ FateKept
  BY DEF SeenKept, FateKept
<1>6. \A r \in DOMAIN queue' :
         queue'[r] \in [bundle : DOMAIN receipts', final : BOOLEAN, confirmed : BOOLEAN]
  <2> SUFFICES ASSUME NEW r \in DOMAIN queue'
               PROVE  queue'[r] \in [bundle : DOMAIN receipts', final : BOOLEAN, confirmed : BOOLEAN]
    OBVIOUS
  <2>1. CASE r \in DOMAIN queue /\ queue'[r] = queue[r]
    <3>1. queue[r] \in [bundle : DOMAIN receipts, final : BOOLEAN, confirmed : BOOLEAN]
      BY <2>1, QueueRowType
    <3> QED
      BY <1>1, <2>1, <3>1
  <2>2. ASSUME NEW i \in 1 .. n,
               queue'[r] = [bundle |-> job.bundle, final |-> IsFinal(job.outs[i].disp), confirmed |-> FALSE]
        PROVE  queue'[r] \in [bundle : DOMAIN receipts', final : BOOLEAN, confirmed : BOOLEAN]
    <3>1. IsFinal(job.outs[i].disp) \in BOOLEAN
      BY DEF IsFinal
    <3> QED
      BY <1>1, <2>2, <3>1
  <2> QED
    BY <1>2, <2>1, <2>2
<1>7. StationType'
  <2>1. \A b \in DOMAIN receipts' : b \in BundleType /\ receipts'[b] \in Seq(Outcomes)
    BY <1>1, <1>3 DEF DtnInv, StationType
  <2>2. JobOK'
    BY DEF JobOK
  <2> QED
    BY <1>6, <2>1, <2>2 DEF DtnInv, StationType
<1>8. OutcomeSeqs' \subseteq OutcomeSeqs
  BY <1>1 DEF OutcomeSeqs, Idle, Range
<1>9. RecordInv'
  <2>1. \A b, outs : About(b, outs) => About(b, outs)'
    BY DEF About, Fits
  <2>2. \A b \in DOMAIN receipts' : About(b, receipts'[b])
    BY <1>1, <1>3 DEF DtnInv, RecordInv
  <2>3. job' # NoJob => About(job'.bundle, job'.outs) /\ job'.phase = "reply"
    BY <1>3
  <2> QED
    BY <2>1, <2>2, <2>3 DEF RecordInv
<1>10. QueueInv'
  <2> SUFFICES ASSUME crashes' = 0, NEW r \in DOMAIN queue'
               PROVE  /\ queue'[r].final => r \in Decided(receipts'[queue'[r].bundle])
                      /\ r \in Decided(receipts'[queue'[r].bundle]) => queue'[r].final
                      /\ queue'[r].final /\ queue'[r].confirmed => r \in told'
    BY DEF QueueInv
  <2>1. DOMAIN job.outs = 1 .. n /\ crashes = 0 /\ Len(job.outs) = Len(job.bundle)
    BY <1>3 DEF DtnInv, StationType, JobOK
  <2>2. ASSUME NEW j \in 1 .. n, job.outs[j].rec = r, job.outs[j].disp # "bad",
               queue'[r] = [bundle |-> job.bundle, final |-> IsFinal(job.outs[j].disp), confirmed |-> FALSE]
        PROVE  /\ queue'[r].final => r \in Decided(receipts'[queue'[r].bundle])
               /\ r \in Decided(receipts'[queue'[r].bundle]) => queue'[r].final
               /\ ~queue'[r].confirmed
    <3>1. /\ queue'[r].bundle = job.bundle /\ ~queue'[r].confirmed
          /\ queue'[r].final => job.outs[j].disp # "later"
          /\ job.outs[j].disp # "later" => queue'[r].final
      <4>1. PICK d : d = job.outs[j].disp
        OBVIOUS
      <4>2. PICK f \in BOOLEAN : f = IsFinal(d)
        BY DEF IsFinal
      <4>3. queue'[r] = [bundle |-> job.bundle, final |-> f, confirmed |-> FALSE]
        BY <2>2, <4>1, <4>2
      <4>4. queue'[r].bundle = job.bundle /\ queue'[r].confirmed = FALSE /\ queue'[r].final = f
        BY <4>3
      <4> QED
        BY <4>1, <4>2, <4>4 DEF IsFinal
    <3>2. receipts'[queue'[r].bundle] = job.outs
      BY <1>1, <3>1
    <3>3. j \in DOMAIN job.outs
      BY <2>1
    <3>4. job.outs[j].disp # "later" => r \in Decided(job.outs)
      BY <2>2, <3>3 DEF Decided
    <3>5. ASSUME r \in Decided(job.outs) PROVE job.outs[j].disp # "later"
      <4>1. PICK i \in DOMAIN job.outs : job.outs[i].rec = r /\ job.outs[i].disp \notin {"later", "bad"}
        BY <3>5 DEF Decided
      <4>2. i = j
        BY <2>2, <3>3, <4>1, OneAnswerEach
      <4> QED
        BY <4>1, <4>2
    <3> QED
      BY <3>1, <3>2, <3>4, <3>5
  <2>3. CASE /\ r \in DOMAIN queue /\ queue'[r] = queue[r]
             /\ queue[r].final \/ \A i \in 1 .. n : job.outs[i].rec = r => job.outs[i].disp = "bad"
    <3>1. queue[r].bundle \in DOMAIN receipts
      BY <2>3, QueueRowType
    <3>2. /\ queue[r].final => r \in Decided(receipts[queue[r].bundle])
          /\ r \in Decided(receipts[queue[r].bundle]) => queue[r].final
          /\ queue[r].final /\ queue[r].confirmed => r \in told'
      BY <2>1, <2>3 DEF DtnInv, QueueInv
    <3>3. CASE queue[r].bundle # job.bundle
      <4>1. receipts'[queue'[r].bundle] = receipts[queue[r].bundle]
        BY <1>1, <2>3, <3>1, <3>3
      <4> QED
        BY <2>3, <3>2, <4>1
    <3>4. CASE queue[r].bundle = job.bundle
      <4>1. receipts'[queue'[r].bundle] = job.outs
        BY <1>1, <2>3, <3>4
      <4>2. ASSUME queue[r].final PROVE r \in Decided(job.outs)
        <5>1. PICK i \in DOMAIN receipts[job.bundle] :
                 /\ receipts[job.bundle][i].rec = r
                 /\ receipts[job.bundle][i].disp \notin {"later", "bad"}
          BY <3>2, <3>4, <4>2 DEF Decided
        <5>2. /\ About(job.bundle, receipts[job.bundle]) /\ receipts[job.bundle] \in Seq(Outcomes)
              /\ job.bundle \in DOMAIN receipts
          BY <3>1, <3>4 DEF DtnInv, RecordInv, StationType
        <5>3. Fits(job.bundle[i], receipts[job.bundle][i]) /\ Len(receipts[job.bundle]) <= Len(job.bundle)
          BY <5>1, <5>2 DEF About
        <5>4. job.bundle[i].rec = r /\ job.bundle[i].intact
          BY <5>1, <5>3 DEF Fits
        <5>5. i \in DOMAIN job.outs
          <6>1. DOMAIN receipts[job.bundle] = 1 .. Len(receipts[job.bundle])
                /\ Len(receipts[job.bundle]) \in Nat
            BY <5>2
          <6>2. DOMAIN job.outs = 1 .. Len(job.outs) /\ Len(job.outs) \in Nat
            BY <1>3
          <6> QED
            BY <2>1, <5>1, <5>3, <6>1, <6>2
        <5>6. Fits(job.bundle[i], job.outs[i])
          BY <1>3, <5>5 DEF About
        <5>7. job.outs[i].rec = r /\ job.outs[i].disp # "bad"
          BY <5>4, <5>6 DEF Fits
        <5>8. r \in Decided(receipts[job.bundle])
          BY <3>2, <3>4, <4>2
        <5>9. job.outs[i].disp # "later"
          BY <5>2, <5>5, <5>7, <5>8 DEF DtnInv, RecordInv, Stands
        <5> QED
          BY <5>5, <5>7, <5>9 DEF Decided
      <4>3. ASSUME \A i \in 1 .. n : job.outs[i].rec = r => job.outs[i].disp = "bad"
            PROVE  r \notin Decided(job.outs)
        BY <2>1, <4>3 DEF Decided
      <4> QED
        BY <2>3, <3>2, <4>1, <4>2, <4>3
    <3> QED
      BY <3>3, <3>4
  <2> QED
    BY <1>2, <2>2, <2>3
<1>11. log \subseteq log' /\ log' \ log = {}
  OBVIOUS
<1> QED
  BY <1>4, <1>5, <1>7, <1>8, <1>9, <1>10, <1>11, StationStep

LEMMA FinishKeepsInv ==
    ASSUME DtnInv, FinishIngest \/ (\E n \in 0 .. MaxBundle : CrashInFinish(n))
    PROVE  DtnInv'
<1>1. CASE FinishIngest
  <2>1. /\ job.phase = "finish" /\ receipts' = Stored /\ queue' = Queued(Len(job.outs))
        /\ job' = [job EXCEPT !.phase = "reply"]
        /\ UNCHANGED <<rows, chain, cursor, signed, restores, top, seen, forks, equivs, log,
                        told, bags, mail, fate, crashes>>
    BY <1>1 DEF FinishIngest, wallet, carried, count
  <2>2. job # NoJob
    BY <2>1 DEF NoJob
  <2>3. job \in JobType /\ job.at \in 1 .. Len(job.bundle) /\ crashes \in Nat
    BY <2>2 DEF DtnInv, StationType, JobOK, WalletType
  <2>4. /\ job' \in JobType /\ job'.bundle = job.bundle /\ job'.outs = job.outs
        /\ job'.at = job.at /\ job'.phase = "reply" /\ Len(job.outs) \in Nat
    BY <2>1, <2>3 DEF JobType
  <2>5. JobOK' /\ job' # NoJob
    BY <2>3, <2>4 DEF JobOK, NoJob
  <2> QED
    BY <2>1, <2>2, <2>3, <2>4, <2>5, StoringKeepsInv
<1>2. ASSUME NEW n \in 0 .. MaxBundle, CrashInFinish(n) PROVE DtnInv'
  <2>1. /\ job.phase = "finish" /\ receipts' = Stored /\ queue' = Queued(n)
        /\ n < Len(job.outs) /\ job' = NoJob /\ crashes' = crashes + 1 /\ crashes \in Nat
        /\ UNCHANGED <<rows, chain, cursor, signed, restores, top, seen, forks, equivs, log,
                        told, bags, mail, fate>>
    BY <1>2 DEF CrashInFinish, Crash, wallet, carried, DtnInv, WalletType
  <2>2. job # NoJob
    BY <2>1 DEF NoJob
  <2>3. Len(job.outs) \in Nat /\ n \in Nat
    BY <2>2, BoundsAssumption DEF DtnInv, StationType, JobOK, JobType
  <2>4. n <= Len(job.outs) /\ crashes' \in Nat /\ crashes' # 0
    BY <2>1, <2>3
  <2> QED
    BY <2>1, <2>2, <2>3, <2>4, StoringKeepsInv
<1> QED
  BY <1>1, <1>2

\* The answers reach the wallet.
LEMMA AnswerKeepsInv ==
    ASSUME DtnInv, ReplyOnline \/ (\E outs \in mail : ApplyReceipt(outs))
    PROVE  DtnInv'
<1>1. CASE ReplyOnline
  <2>1. /\ job.phase = "reply" /\ rows' = Applied(job.outs) /\ job' = NoJob
        /\ UNCHANGED <<chain, cursor, restores, top, signed, seen, forks, equivs, log,
                       receipts, queue, told, bags, mail, fate, crashes>>
    BY <1>1 DEF ReplyOnline, carried, count
  <2>2. job.outs \in OutcomeSeqs
    BY <2>1 DEF OutcomeSeqs, Idle, NoJob
  <2> QED
    BY <2>1, <2>2, AppliedKeepsInv
<1>2. ASSUME NEW outs \in mail, ApplyReceipt(outs) PROVE DtnInv'
  <2>1. /\ rows' = Applied(outs)
        /\ UNCHANGED <<chain, cursor, restores, top, signed, seen, forks, equivs, log,
                       receipts, queue, told, bags, mail, fate, crashes, job>>
    BY <1>2 DEF ApplyReceipt, ingest, carried, count
  <2>2. outs \in OutcomeSeqs
    BY DEF OutcomeSeqs
  <2> QED
    BY <2>1, <2>2, AppliedKeepsInv
<1> QED
  BY <1>1, <1>2

LEMMA SigningKeepsInv ==
    ASSUME DtnInv, NEW r \in Records, SignPay(r) \/ SignPayCrash(r) \/ SignNote(r)
    PROVE  DtnInv'
<1>1. cursor \in Nat /\ crashes \in Nat /\ r \notin signed /\ chain # "unknown"
  BY DEF SignPay, SignPayCrash, SignNote, Signable, DtnInv, WalletType
<1>2. CASE SignPay(r)
  BY <1>1, <1>2, SignKeepsInv DEF SignPay, count
<1>3. CASE SignPayCrash(r)
  BY <1>1, <1>3, SignKeepsInv DEF SignPayCrash
<1>4. CASE SignNote(r)
  BY <1>1, <1>4, SignKeepsInv DEF SignNote, count
<1> QED
  BY <1>2, <1>3, <1>4

-----------------------------------------------------------------------------
(* The theorems.                                                           *)

LEMMA InitHolds ==
    ASSUME Init
    PROVE  DtnInv
<1>1. /\ DOMAIN rows = {} /\ DOMAIN seen = {} /\ DOMAIN receipts = {} /\ DOMAIN queue = {}
      /\ bags = {} /\ mail = {} /\ job = NoJob /\ signed = {} /\ log = {} /\ forks = {}
      /\ restores = 0 /\ crashes = 0 /\ chain = "fresh" /\ cursor = 0 /\ top = -1
      /\ fate \in [Records -> {"waiting", "live", "dead"}]
  BY DEF Init, NoRows
<1>2. WalletType
  BY <1>1 DEF WalletType
<1>3. StationType
  BY <1>1 DEF StationType, JobOK
<1>4. \A e : ~Known(e)
  BY <1>1 DEF Known, InRows, InSeen, InBundles, InJob
<1>5. Identity /\ ChainInv
  BY <1>1, <1>4 DEF Identity, ChainInv
<1>6. AnswerInv
  BY <1>1 DEF AnswerInv, OutcomeSeqs, Idle, Range, Told
<1>7. RecordInv /\ QueueInv
  BY <1>1 DEF RecordInv, QueueInv
<1> QED
  BY <1>2, <1>3, <1>5, <1>6, <1>7 DEF DtnInv

LEMMA StutterKeepsInv ==
    ASSUME DtnInv, UNCHANGED vars
    PROVE  DtnInv'
<1>1. UNCHANGED <<rows, chain, cursor, signed, restores, top, seen, forks, equivs, log,
                  receipts, queue, told, bags, fate, mail, job, crashes>>
  BY DEF vars, wallet, ingest, carried, count
<1>2. mail' \subseteq OutcomeSeqs
  BY <1>1 DEF OutcomeSeqs
<1>3. bags' \subseteq BundleType /\ \A b \in bags' : \A i \in DOMAIN b : Known(Mended(b[i]))
  BY <1>1, BagsAreKnown
<1> QED
  BY <1>1, <1>2, <1>3, QueueRowType, CarrierKeepsInv DEF wallet, vars

LEMMA NextKeepsInv ==
    ASSUME DtnInv, [Next]_vars
    PROVE  DtnInv'
<1>1. ASSUME NEW r \in Records, SignPay(r) \/ SignPayCrash(r) \/ SignNote(r) PROVE DtnInv'
  BY <1>1, SigningKeepsInv
<1>2. ASSUME NEW k \in 1 .. MaxBundle, Export(k) PROVE DtnInv'
  BY <1>2, ExportKeepsInv
<1>3. ASSUME NEW k \in 1 .. MaxBundle, Submit(k) PROVE DtnInv'
  BY <1>3, PendingIsKnown, PresentKeepsInv DEF Submit
<1>4. ASSUME NEW p \in DOMAIN rows, Abandon(p) PROVE DtnInv'
  BY <1>4, AbandonKeepsInv
<1>5. CASE Restore
  BY <1>5, RestoreKeepsInv
<1>6. CASE SyncAnchor \/ SyncHead \/ SyncUnseen \/ SyncNonce
  BY <1>6, SyncKeepsInv
<1>7. CASE ReplyOnline \/ (\E outs \in mail : ApplyReceipt(outs))
  BY <1>7, AnswerKeepsInv
<1>8. ASSUME NEW b \in bags, CourierPresents(b) PROVE DtnInv'
  BY <1>8, BagsAreKnown, PresentKeepsInv DEF CourierPresents
<1>17. ASSUME NEW b \in bags, NEW i \in DOMAIN b, Damage(b, i) PROVE DtnInv'
  BY <1>17, DamageKeepsInv
<1>18. CASE RefuseDamaged
  BY <1>18, DamagedKeepsInv
<1>9. CASE TakeEntry
  BY <1>9, TakeKeepsInv
<1>10. CASE RefuseFork
  BY <1>10, RefuseKeepsInv
<1>11. CASE FinishIngest \/ (\E n \in 0 .. MaxBundle : CrashInFinish(n))
  BY <1>11, FinishKeepsInv
<1>12. CASE Reply \/ CrashBetween
  BY <1>12, JobEndsKeepsInv
<1>13. CASE CourierFetch \/ AuthorFetch \/ (\E r \in DOMAIN queue : PruneDelivered(r))
  BY <1>13, FetchKeepsInv
<1>14. CASE CrashAfterNote \/ CrashAfterFork
  BY <1>14, CrashAtEntryKeepsInv
<1>15. ASSUME NEW r \in Records, FateChanges(r) PROVE DtnInv'
  BY <1>15, FateKeepsInv
<1>16. CASE UNCHANGED vars
  BY <1>16, StutterKeepsInv
<1> QED
  BY <1>1, <1>2, <1>3, <1>4, <1>5, <1>6, <1>7, <1>8, <1>9, <1>10, <1>11, <1>12, <1>13, <1>14,
     <1>15, <1>16, <1>17, <1>18 DEF Next, WalletStep, IngestStep, ReturnStep, CrashIngest

\* Whatever couriers, crashes, restores and the engine's moods do, an outbox
\* and the station that ingests it (wallet.rs, ingest_bundle, DtnStore) agree on
\* who signed what, the receipts are true, and the queue points at live answers.
THEOREM DtnTheorem == Spec => []DtnInv
<1>1. Init => DtnInv
  BY InitHolds
<1>2. DtnInv /\ [Next]_vars => DtnInv'
  BY NextKeepsInv
<1> QED
  BY <1>1, <1>2, PTL DEF Spec

\* A receipt never lies, however late it is read, and neither does what the
\* wallet wrote down from it: what ingest_bundle called admitted is in the log,
\* what it refused for a final reason of the record's own never gets there, and a
\* bad signature is found in the damaged entries of a presentation alone.
THEOREM AnswersTheorem == Spec => []AnswersAreTrue
<1>1. DtnInv => AnswersAreTrue
  <2> SUFFICES ASSUME DtnInv PROVE AnswersAreTrue
    OBVIOUS
  <2>1. \A outs \in OutcomeSeqs : \A i \in DOMAIN outs :
            /\ outs[i].disp \in {"admitted", "known"} => outs[i].rec \in log
            /\ outs[i].disp \in {"never", "fork"} => outs[i].rec \notin log
    BY DEF DtnInv, AnswerInv, Truths, Truth, Forked
  <2>2. \A p \in DOMAIN rows :
            /\ rows[p].ack \in {"admitted", "known"} => rows[p].entry.rec \in log
            /\ rows[p].ack \in {"never", "fork"} => rows[p].entry.rec \notin log
    BY RowsAreTrue DEF Truth, Forked
  <2>3. \A b \in DOMAIN receipts : \A i \in DOMAIN receipts[b] :
            receipts[b][i].disp = "bad" <=> ~b[i].intact
    BY DEF DtnInv, RecordInv, About, Fits
  <2> QED
    BY <2>1, <2>2, <2>3 DEF AnswersAreTrue
<1> QED
  BY <1>1, DtnTheorem, PTL

\* An honest wallet that was never restored leaves no fork at the station; one
\* that was disagrees with it only above the position it re-anchored on.
THEOREM HonestChainTheorem == Spec => []HonestChain
<1>1. DtnInv => HonestChain
  <2> SUFFICES ASSUME DtnInv PROVE HonestChain
    OBVIOUS
  <2>1. restores = 0 => forks = {}
    BY DEF DtnInv, ChainInv
  <2>2. ASSUME NEW p \in DOMAIN rows \cap DOMAIN seen, seen[p] # rows[p].entry
        PROVE  restores > 0 /\ p > top
    <3>1. /\ Known(rows[p].entry) /\ rows[p].entry.pos = p /\ Known(seen[p]) /\ seen[p].pos = p
          /\ p \in Nat /\ top \in Int /\ restores \in Nat
      BY RowsAreTrue DEF DtnInv, WalletType, StationType, Known, InSeen
    <3>2. restores # 0
      BY <2>2, <3>1 DEF DtnInv, ChainInv
    <3> QED
      BY <2>2, <3>1, <3>2 DEF DtnInv, ChainInv
  <2> QED
    BY <2>1, <2>2 DEF HonestChain
<1> QED
  BY <1>1, DtnTheorem, PTL

\* Whoever a stored receipt tells of a fork finds the evidence and the signed
\* proof, though a crash may fall between record_fork and the equivocation.
THEOREM ForksTheorem == Spec => []ForksAreRecorded
<1>1. DtnInv => ForksAreRecorded
  BY DEF DtnInv, RecordInv, About, Fits, Stands, ForksAreRecorded
<1> QED
  BY <1>1, DtnTheorem, PTL

\* As long as no crash cut an ingest between put_receipt and the queue rows,
\* a row that counts as delivered hides no verdict the author was never served:
\* an answer that became final after a delivery is queued again.
THEOREM ChangedAnswerTheorem == Spec => []ChangedAnswerQueuedUncut
<1>1. DtnInv => ChangedAnswerQueuedUncut
  BY DEF DtnInv, QueueInv, ChangedAnswerQueuedUncut, ChangedAnswerIsQueued
<1> QED
  BY <1>1, DtnTheorem, PTL
=============================================================================
