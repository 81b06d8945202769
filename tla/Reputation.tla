----------------------------- MODULE Reputation -----------------------------
(***************************************************************************)
(* Standing (rrn-reputation): what a log says of a member, whom its vouches *)
(* anchor, and the bundle another community verifies it from.  Everything   *)
(* is derived from the log, so every operator takes the log it reads: the   *)
(* station's own, or the part of it that travels in a bundle.               *)
(*                                                                         *)
(* A position in the log is an index; times are weeks.  A "confirm" entry  *)
(* stands for a proposal and its confirmation.  Scores are whole numbers.  *)
(***************************************************************************)
EXTENDS Integers, Sequences, FiniteSets, FiniteSetsExt, SequencesExt

CONSTANTS
    People,
    FounderSet,     \* the founders of the root charter
    Trades,         \* trade -> its parties and whether its tier asks for a stake
    StartLogs,      \* the logs a behaviour may start from
    Suspects,       \* who may be recorded as an equivocator
    Increment, DimensionMax, DecayRate, WindowWeeks,
    WeightTrade, WeightAttestation, AnchorCap, MemberMin,
    GraceThreshold,
    RepSkew,        \* how far a vouch may be dated from the station's clock
    LastWeek,       \* bound of the model: the clock
    MaxEntries      \* bound of the model: entries in the log

VARIABLES
    repLog,
    week

reputationVars == <<repLog, week>>

Forever == LastWeek + RepSkew

\* What a log is made of.
Entries ==
    [kind : {"enroll"}, who : People, basis : {"founder", "pairing"}]
      \cup [kind : {"revoke"}, who : People]
      \cup [kind : {"vouch"}, who : People, of : People, at : 0 .. Forever]
      \cup [kind : {"confirm", "dispute"}, trade : DOMAIN Trades]
      \cup [kind : {"settle", "uphold"}, trade : DOMAIN Trades, at : 0 .. Forever]
      \cup [kind : {"equivocation"}, who : Suspects, case : Nat, at : 0 .. Forever]
      \cup [kind : {"overturn"}, case : Nat, at : 0 .. Forever]

EntriesOf(L, kinds) == {i \in 1 .. Len(L) : L[i].kind \in kinds}
-----------------------------------------------------------------------------
(* Enrollment.                                                             *)

LastEvent(L, m, p) ==
    LET E == {i \in EntriesOf(L, {"enroll", "revoke"}) : L[i].who = m /\ i < p}
    IN  IF E = {} THEN [kind |-> "revoke"] ELSE L[Max(E)]

EnrolledAt(L, m, p) == LastEvent(L, m, p).kind = "enroll"
IsRoot(L, m, p) == EnrolledAt(L, m, p) /\ LastEvent(L, m, p).basis = "founder"

RevokedBetween(L, m, after, before) ==
    \E i \in EntriesOf(L, {"revoke"}) : L[i].who = m /\ i > after /\ i < before
-----------------------------------------------------------------------------
(* The logs there are.                                                     *)

\* What settles was confirmed.
SettledIsConfirmed(L) ==
    \A i \in 1 .. Len(L) : L[i].kind = "settle" =>
        \E j \in 1 .. i - 1 : L[j].kind = "confirm" /\ L[j].trade = L[i].trade

\* Who is enrolled is enrolled again only as a founder.
EnrolledOnce(L) ==
    \A i \in 1 .. Len(L) :
        L[i].kind = "enroll" /\ L[i].basis # "founder" => ~EnrolledAt(L, L[i].who, i)

ASSUME ReputationAssumption ==
    /\ \A L \in StartLogs : L \in Seq(Entries) /\ SettledIsConfirmed(L) /\ EnrolledOnce(L)
    /\ IsFiniteSet(People) /\ FounderSet \subseteq People
    /\ LastWeek \in Nat \ {0}
    /\ {RepSkew, MaxEntries, Increment, DimensionMax, DecayRate, WindowWeeks, WeightTrade,
        WeightAttestation, AnchorCap, MemberMin} \subseteq Nat
    \* Nobody is established without an anchor.
    /\ (WeightTrade + WeightAttestation) * AnchorCap < MemberMin
-----------------------------------------------------------------------------
(* Evidence and scores.                                                    *)

ConfirmedAt(L, t) == Min({i \in EntriesOf(L, {"confirm"}) : L[i].trade = t})

\* Settled trades both parties were enrolled for at the confirmation.
TradeEvents(L, m) ==
    {i \in EntriesOf(L, {"settle"}) :
        LET t == L[i].trade
            c == ConfirmedAt(L, t)
        IN  /\ m \in {Trades[t].from, Trades[t].to}
            /\ EnrolledAt(L, Trades[t].from, c)  /\ EnrolledAt(L, Trades[t].to, c)}

EligibleVouch(L, i) == EnrolledAt(L, L[i].who, i) /\ EnrolledAt(L, L[i].of, i)

AttestationEvents(L, m) ==
    {i \in TradeEvents(L, m) : Trades[L[i].trade].to = m}
      \cup {i \in EntriesOf(L, {"vouch"}) : L[i].who = m /\ EligibleVouch(L, i)}

\* apply_cancellation: an upheld dispute voids a trade that is disputed in this log.
Upheld(L, m) ==
    {i \in EntriesOf(L, {"uphold"}) :
        /\ Trades[L[i].trade].to = m
        /\ \E j \in EntriesOf(L, {"dispute"}) : j < i /\ L[j].trade = L[i].trade}

Overturned(L, i, at, before) ==
    \E j \in EntriesOf(L, {"overturn"}) : L[j].case = L[i].case /\ L[j].at <= at /\ j < before

\* How many of the events at these times are credited: one in a window, each from the
\* first the windows so far have left.
Credited(times) ==
    LET left[n \in 0 .. Cardinality(times)] ==
            IF n = 0 THEN times
            ELSE {u \in left[n - 1] : u >= Min(left[n - 1]) + WindowWeeks}
    IN  Cardinality({n \in 0 .. Cardinality(times) : left[n] # {}})

DimensionScore(times, penalty, at) ==
    IF times = {} THEN 0
    ELSE Max({0, Min({Increment * Credited(times), DimensionMax}) - penalty
                    - DecayRate * (at - Max(times))})

ScoreRawBefore(L, m, at, before) ==
    LET Counted(S) == {i \in S : L[i].at <= at /\ i < before}
        Times(S)   == {L[i].at : i \in Counted(S)}
        proven     == {i \in Counted({j \in EntriesOf(L, {"equivocation"}) : L[j].who = m}) :
                          ~Overturned(L, i, at, before)}
        zeroed     == DimensionMax * Cardinality(proven)
        wrong      == Increment * Cardinality(Counted(Upheld(L, m)))
    IN  [trade       |-> DimensionScore(Times(TradeEvents(L, m)), zeroed, at),
         attestation |-> DimensionScore(Times(AttestationEvents(L, m)), wrong + zeroed, at)]

Composite(profile) ==
    WeightTrade * profile.trade + WeightAttestation * profile.attestation
-----------------------------------------------------------------------------
(* Anchoring.  An edge is the position of the vouch that formed it.        *)

VoidAt(L, e, p) == RevokedBetween(L, L[e].who, e, p) \/ RevokedBetween(L, L[e].of, e, p)

\* The edges that count at p: formed before it, issued by then, not void.
LiveEdges(L, edges, p, at) == {e \in edges : e < p /\ L[e].at <= at /\ ~VoidAt(L, e, p)}

\* A voucher not yet reached joins as a root, or the edge waits; the subject is
\* kept with the edge that first reached it, 0 for a root.
TryEdge(L, p, set, e) ==
    IF \/ L[e].of \in DOMAIN set
       \/ L[e].who \notin DOMAIN set /\ ~IsRoot(L, L[e].who, p)
    THEN set
    ELSE [m \in DOMAIN set \cup {L[e].who, L[e].of} |->
             IF m \in DOMAIN set THEN set[m]
             ELSE IF m = L[e].who \/ IsRoot(L, m, p) THEN 0 ELSE e]

\* One pass over the live edges, in log order.
PassOver(L, live, p, set) ==
    LET after[i \in 0 .. p - 1] ==
            IF i = 0 THEN set
            ELSE IF i \in live THEN TryEdge(L, p, after[i - 1], i) ELSE after[i - 1]
    IN  after[p - 1]

\* Whom the edges reach from the roots at p, passing over them until nothing is
\* added: each pass but the last reaches the subject of another edge.
Reach(L, edges, p, at) ==
    LET live == LiveEdges(L, edges, p, at)
        passed[n \in 0 .. Cardinality(live)] ==
            IF n = 0 THEN [m \in {} |-> 0] ELSE PassOver(L, live, p, passed[n - 1])
    IN  passed[Cardinality(live)]

AnchoredAt(L, edges, m, p, at) == IsRoot(L, m, p) \/ m \in DOMAIN Reach(L, edges, p, at)

\* Slip: the voucher is judged again on all there is by now.
JudgedAgain(L, i) == Composite(ScoreRawBefore(L, L[i].who, week, Len(L) + 1)) >= MemberMin

\* The voucher's standing when it vouched, over the entries before the vouch.
Judged(L, i) == Composite(ScoreRawBefore(L, L[i].who, L[i].at, i)) >= MemberMin

\* Whether the vouch at i forms an edge, after these.
Forms(L, edges, i) ==
    /\ L[i].kind = "vouch"
    /\ EligibleVouch(L, i)
    /\ AnchoredAt(L, edges, L[i].who, i, Forever)
    /\ Judged(L, i)

Edges(L) ==
    LET formed[i \in 0 .. Len(L)] ==
            IF i = 0 THEN {}
            ELSE formed[i - 1] \cup (IF Forms(L, formed[i - 1], i) THEN {i} ELSE {})
    IN  formed[Len(L)]

\* The edge its voucher was anchored through when the edge formed; 0 for a root.
Witness(L, edges, e) ==
    IF IsRoot(L, L[e].who, e) THEN 0
    ELSE Reach(L, {f \in edges : f < e}, e, Forever)[L[e].who]

AnchoredSet(L, at) ==
    LET edges == Edges(L)
    IN  DOMAIN Reach(L, edges, Len(L) + 1, at)
          \cup {m \in People : IsRoot(L, m, Len(L) + 1)}

Score(L, m, at) ==
    LET raw == ScoreRawBefore(L, m, at, Len(L) + 1)
    IN  IF m \in AnchoredSet(L, at) THEN raw
        ELSE [d \in DOMAIN raw |-> Min({raw[d], AnchorCap})]

Established(L, at) ==
    {m \in People : EnrolledAt(L, m, Len(L) + 1) /\ Composite(Score(L, m, at)) >= MemberMin}

\* decide, evaluate_tier2_confirmation
MayStake(L, m, at) ==
    \/ Composite(Score(L, m, at)) >= MemberMin
    \/ Cardinality(Established(L, at)) < GraceThreshold
-----------------------------------------------------------------------------
(* The bundle a member takes elsewhere.                                    *)

\* Slip: what anchored the vouchers when they vouched is left out.
ClosedWithoutWitnesses(L, edges, S) == S

\* The edges, those their vouchers were anchored through, and so on.
Closed(L, edges, S) ==
    LET grown[n \in 0 .. Len(L)] ==
            IF n = 0 THEN S
            ELSE LET T == grown[n - 1]
                 IN  T \cup ({Witness(L, edges, e) : e \in T} \ {0})
    IN  grown[Len(L)]

AnchorChain(L, m, at) ==
    LET edges == Edges(L)
        set   == Reach(L, edges, Len(L) + 1, at)
        Parents(S) == {set[x] : x \in S \cap DOMAIN set} \ {0}
        path[n \in 0 .. Cardinality(People)] ==
            IF n = 0 THEN {m}
            ELSE LET S == path[n - 1] IN S \cup {L[e].who : e \in Parents(S)}
    IN  {L[e].who : e \in Closed(L, edges, Parents(path[Cardinality(People)]))}

\* entries_concerning: trades of these people and their outcome, vouches from or
\* for them, and the enrollments of everyone these name.  No disputes, no
\* equivocations and no verdicts on them.
EntriesConcerning(L, people) ==
    LET chosen == {i \in EntriesOf(L, {"confirm", "settle", "uphold"}) :
                      people \cap {Trades[L[i].trade].from, Trades[L[i].trade].to} # {}}
                    \cup {i \in EntriesOf(L, {"vouch"}) : people \cap {L[i].who, L[i].of} # {}}
        named  == people \cup UNION {IF L[i].kind = "vouch" THEN {L[i].who, L[i].of}
                                     ELSE {Trades[L[i].trade].from, Trades[L[i].trade].to} :
                                     i \in chosen}
        all    == chosen \cup {i \in EntriesOf(L, {"enroll", "revoke"}) : L[i].who \in named}
        selected[i \in 0 .. Len(L)] ==
            IF i = 0 THEN <<>>
            ELSE IF i \in all THEN Append(selected[i - 1], L[i]) ELSE selected[i - 1]
    IN  selected[Len(L)]

\* Whose evidence travels.
Shipped(L, m, at) == {m} \cup AnchorChain(L, m, at)

Export(L, m, at) == EntriesConcerning(L, Shipped(L, m, at))
-----------------------------------------------------------------------------
(* What is appended.                                                       *)

ReputationInit ==
    /\ repLog \in StartLogs
    /\ week = 1

Put(entry) ==
    /\ Len(repLog) < MaxEntries
    /\ repLog' = Append(repLog, entry)
    /\ UNCHANGED week

End == Len(repLog) + 1

EnrollmentOwed(m, basis) ==
    IF basis = "founder"
    THEN \A i \in EntriesOf(repLog, {"enroll", "revoke"}) :
             repLog[i].who = m => repLog[i].kind = "enroll" /\ repLog[i].basis # "founder"
    ELSE ~EnrolledAt(repLog, m, End)

EnsureEnrolled(m) ==
    /\ EnrollmentOwed(m, "pairing")
    /\ Put([kind |-> "enroll", who |-> m, basis |-> "pairing"])

\* When their charter is published or, for a log older than that rule, the station
\* starts: all the founders this is owed to, in one batch.
EnrollFounders ==
    \E owed \in SetToSeqs({m \in FounderSet : EnrollmentOwed(m, "founder")}) :
        /\ owed # <<>>
        /\ Len(repLog) + Len(owed) <= MaxEntries
        /\ repLog' = repLog \o [i \in DOMAIN owed |->
                         [kind |-> "enroll", who |-> owed[i], basis |-> "founder"]]
        /\ UNCHANGED week

RevokeEnrollment(m) ==
    /\ EnrolledAt(repLog, m, End)
    /\ Put([kind |-> "revoke", who |-> m])

\* Either door checks the date; who may vouch is judged when it is scored.
SubmitVouch(m, n, at) ==
    /\ m # n
    /\ at \in week - RepSkew .. week + RepSkew
    /\ Put([kind |-> "vouch", who |-> m, of |-> n, at |-> at])

OfTrade(t, kinds) == {i \in EntriesOf(repLog, kinds) : repLog[i].trade = t}

\* tier2_confirmation_gate, then the confirmation.
ConfirmTrade(t) ==
    /\ OfTrade(t, {"confirm"}) = {}
    /\ Trades[t].staked => MayStake(repLog, Trades[t].to, week)
    /\ Put([kind |-> "confirm", trade |-> t])

\* A confirmed trade settles, or is disputed and then settles or is voided.
CloseTrade(t) ==
    /\ OfTrade(t, {"confirm"}) # {}
    /\ OfTrade(t, {"settle", "uphold"}) = {}
    /\ \/ Put([kind |-> "settle", trade |-> t, at |-> week])
       \/ /\ OfTrade(t, {"dispute"}) = {}
          /\ Put([kind |-> "dispute", trade |-> t])
       \/ /\ OfTrade(t, {"dispute"}) # {}
          /\ Put([kind |-> "uphold", trade |-> t, at |-> week])

Cases == EntriesOf(repLog, {"equivocation"})

RecordEquivocation(m) ==
    Put([kind |-> "equivocation", who |-> m, case |-> Cardinality(Cases) + 1, at |-> week])

Overturn(i) ==
    /\ ~\E j \in EntriesOf(repLog, {"overturn"}) : repLog[j].case = repLog[i].case
    /\ Put([kind |-> "overturn", case |-> repLog[i].case, at |-> week])

WeekPasses ==
    /\ week < LastWeek
    /\ week' = week + 1
    /\ UNCHANGED repLog

ReputationNext ==
    \/ \E m \in People :
         \/ EnsureEnrolled(m)
         \/ RevokeEnrollment(m)
         \/ \E n \in People, at \in 0 .. LastWeek + RepSkew : SubmitVouch(m, n, at)
    \/ EnrollFounders
    \/ \E t \in DOMAIN Trades : ConfirmTrade(t) \/ CloseTrade(t)
    \/ \E m \in Suspects : RecordEquivocation(m)
    \/ \E i \in Cases : Overturn(i)
    \/ WeekPasses

ReputationSpec == ReputationInit /\ [][ReputationNext]_reputationVars
-----------------------------------------------------------------------------
(* Properties.                                                             *)

Verified(m) == Score(Export(repLog, m, week), m, week)

\* What another community re-derives from the bundle is what the exporter computes,
\* but for two things.  Where nobody was penalised, leaving evidence out never raises
\* a profile or anchors anybody; and where nobody the bundle carries was revoked, it
\* never lowers one: all that anchored the vouchers is there.
BundleReproduces ==
    \A m \in People :
        LET mine   == Score(repLog, m, week)
            theirs == Verified(m)
        IN  /\ EntriesOf(repLog, {"uphold", "equivocation"}) = {} =>
                  theirs.trade <= mine.trade /\ theirs.attestation <= mine.attestation
            /\ (\A i \in EntriesOf(repLog, {"revoke"}) : repLog[i].who \notin Shipped(repLog, m, week)) =>
                  theirs.trade >= mine.trade /\ theirs.attestation >= mine.attestation

\* What anchor_chain says it returns: "Every identity a verifier needs the evidence
\* of to reach the same anchoring verdict", with nobody penalised.
AnchorTravels ==
    EntriesOf(repLog, {"uphold", "equivocation"}) = {} =>
        \A m \in AnchoredSet(repLog, week) : m \in AnchoredSet(Export(repLog, m, week), week)

\* What verify_history says of any bundle whose member and chain no equivocation
\* is recorded against: "The returned profile is what the exporting station
\* computed, re-derived rather than taken on faith."
BundleIsTheProfile ==
    EntriesOf(repLog, {"equivocation"}) = {} =>
        \A m \in People : Verified(m) = Score(repLog, m, week)

\* Anchoring is judged once, at the vouch: no penalty, verdict, trade or passing
\* week takes an anchor away, only the revocation of somebody; none gives one
\* either, only a vouch (when it is admitted, or its date comes) or a founder's
\* enrollment; and who is anchored is enrolled, which the gate for staked
\* confirmations does not check by itself.
AnchoringIsJudgedOnce ==
    [][LET was == AnchoredSet(repLog, week)
           is  == AnchoredSet(repLog', week')
           new == IF repLog' = repLog THEN [kind |-> "week"] ELSE Last(repLog')
       IN  /\ was \ is # {} => new.kind = "revoke"
           /\ is \ was # {} =>
                \/ new.kind = "vouch"
                \/ new.kind = "enroll" /\ new.basis = "founder"
                \/ new.kind = "week" /\ \E e \in Edges(repLog) : repLog[e].at = week'
           /\ \A m \in is : EnrolledAt(repLog', m, Len(repLog') + 1)]_reputationVars
=============================================================================
