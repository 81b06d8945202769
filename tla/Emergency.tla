----------------------------- MODULE Emergency ------------------------------
(***************************************************************************)
(* Emergencies (rrn-governance/src/emergency.rs): members declare one, co- *)
(* sign it into force and lift it early; the station attests admissions,   *)
(* activations and refusals.                                               *)
(*                                                                         *)
(* The only state is the station's log.  Every entry carries its admission *)
(* instant and the grace electorate of the prefix it ends, which the       *)
(* reputation scorer computes from that prefix; an "evidence" entry stands *)
(* for the records that change it.  Everything else is derived from the    *)
(* log, by the writer before it appends and by every reader afterwards.    *)
(***************************************************************************)
EXTENDS Integers, Sequences, FiniteSets, FiniteSetsExt, SequencesExt, Sums

CONSTANTS
    Electorates,     \* the electorates that may be
    Declarations,    \* declarations, by content hash
    DeclaredBy,      \* author of each
    Requested,       \* duration_secs of each
    DurationFloor, DurationCeiling,
    DeclarationPct,  \* effective_emergency_declaration_pct
    DeclarationTtl,  \* EMERGENCY_DECLARATION_TTL
    ChainMax,        \* EMERGENCY_CHAIN_MAX_SECS
    Cooldown,        \* EMERGENCY_COOLDOWN_SECS
    MaxRenewals,     \* effective_max_consecutive_renewals
    MaxInstant,      \* bound of the model: last instant
    MaxRecords,      \* bound of the model: length of the log at which it stops
    MaxEvidence      \* bound of the model: changes of the electorate

ASSUME EmergencyAssumption ==
    /\ \A members \in Electorates : IsFiniteSet(members)
    /\ Requested \in [Declarations -> Nat]
    /\ DurationFloor \in Nat \ {0}  /\ DurationCeiling \in Nat
    /\ DurationFloor <= DurationCeiling /\ DurationCeiling <= ChainMax
    /\ DeclarationPct \in 67 .. 100
    /\ {DeclarationTtl, ChainMax, Cooldown, MaxRenewals, MaxInstant, MaxRecords,
        MaxEvidence} \subseteq Nat

VARIABLE emlog

\* next_admission: a record is admitted at the station's clock, which may have
\* been set back, or at the tail's instant when that is later.
Admissions == Last(emlog).at .. MaxInstant

\* The electorate of the prefix L.
ElectorateOf(L) == Last(L).electorate
-----------------------------------------------------------------------------
(* Signatures and thresholds.                                              *)

CeilDiv(a, b) == (a + b - 1) \div b

\* declaration_threshold: 67 means exactly two thirds.
DeclarationThreshold(n) ==
    IF DeclarationPct <= 67 THEN CeilDiv(2 * n, 3) ELSE CeilDiv(n * DeclarationPct, 100)

SignsDeclaration == {"declaration", "cosign"}

\* Lifts are pooled: whoever raised a lapse of a declaration or co-signed one.
SignsLapse == {"lapse", "lapse_cosign"}

SignedAt(L, kinds, d, w, upto) ==
    {i \in 1 .. upto : L[i].kind \in kinds /\ L[i].decl = d /\ L[i].who = w}

\* eligible_signatures: where each distinct eligible signer first signed.
FirstSignatures(L, kinds, d, electorate, upto) ==
    {Min(SignedAt(L, kinds, d, w, upto)) :
        w \in {v \in electorate : SignedAt(L, kinds, d, v, upto) # {}}}

\* The n-th of a set of positions.
NthOf(sigs, n) == CHOOSE s \in sigs : Cardinality({x \in sigs : x <= s}) = n

\* crossing_seq: the position of the signature that makes the threshold; 0 if none.
CrossingSeq(L, kinds, d, electorate, upto) ==
    LET sigs == FirstSignatures(L, kinds, d, electorate, upto)
        need == DeclarationThreshold(Cardinality(electorate))
    IN  IF need = 0 \/ Cardinality(sigs) < need THEN 0 ELSE NthOf(sigs, need)
-----------------------------------------------------------------------------
(* Chains (fold_chain, chain_decision).  Before the first activation the   *)
(* chain is one whose cooldown is over.                                    *)

NoChain == [end |-> 0 - Cooldown, consecutive |-> 0, total |-> 0]

\* Slip in Continues: the cooldown dropped.
Overlaps(chain, instant) == instant < chain.end

Continues(chain, instant) == instant < chain.end + Cooldown

Extended(chain, e) ==
    IF Continues(chain, e.instant)
    THEN [end         |-> Max({chain.end, e.expiry}),
          consecutive |-> chain.consecutive + 1,
          total       |-> chain.total + (e.expiry - e.instant)]
    ELSE [end |-> e.expiry, consecutive |-> 0, total |-> e.expiry - e.instant]

FoldChain(timeline) ==
    LET chain[k \in 0 .. Len(timeline)] ==
            IF k = 0 THEN NoChain ELSE Extended(chain[k - 1], timeline[k])
    IN  chain[Len(timeline)]

ChainAdmits(chain, instant, expiry) ==
    Continues(chain, instant) =>
        /\ chain.consecutive + 1 <= MaxRenewals
        /\ chain.total + (expiry - instant) <= ChainMax

RenewalCount(chain, instant) ==
    IF Continues(chain, instant) THEN chain.consecutive + 1 ELSE 0

\* clamp_duration
ScheduledExpiry(d, instant) ==
    instant + Max({DurationFloor, Min({DurationCeiling, Requested[d]})})
-----------------------------------------------------------------------------
(* derive_emergencies: one pass over the log.                              *)

\* Slip in PinnedElectorate and in LiftElectorate: the electorate of today.
ElectorateNow(L, i) == ElectorateOf(L)

\* The electorate an activation is judged against, for good.
PinnedElectorate(L, i) == L[i].electorate

\* The electorate a lift of that emergency answers to: the same.
LiftElectorate(L, i) == L[i].electorate

Decided(acc, d) == d \in acc.dead \/ \E e \in ToSet(acc.timeline) : e.decl = d

Anchored(acc, d)  == d \in DOMAIN acc.anchors
InTime(acc, d, t) == t - acc.anchors[d] <= DeclarationTtl

Believed(L, acc, i) ==
    LET r == L[i]
        chain == FoldChain(acc.timeline)
    IN  /\ ~Decided(acc, r.decl)
        /\ CrossingSeq(L, SignsDeclaration, r.decl, PinnedElectorate(L, i), i) # 0
        /\ CASE r.kind = "refused" ->
                    ~ChainAdmits(chain, r.at, ScheduledExpiry(r.decl, r.at))
             [] r.kind = "activated" ->
                    /\ Anchored(acc, r.decl) /\ InTime(acc, r.decl, r.at)
                    /\ r.expiry = ScheduledExpiry(r.decl, r.at)
                    /\ ChainAdmits(chain, r.at, r.expiry)

Activation(L, acc, i) ==
    LET r == L[i]
    IN  [decl |-> r.decl, instant |-> r.at, expiry |-> r.expiry, seq |-> i,
         renewal |-> RenewalCount(FoldChain(acc.timeline), r.at),
         lapsed |-> CrossingSeq(L, SignsLapse, r.decl, LiftElectorate(L, i), Len(L))]

\* The first admission of a declaration is its anchor.
WithAnchor(anchors, d, at) ==
    [x \in DOMAIN anchors \cup {d} |-> IF x = d THEN at ELSE anchors[x]]

Derived(L, acc, i) ==
    LET r == L[i]
    IN  CASE r.kind = "admitted" /\ ~Anchored(acc, r.decl) ->
                 [acc EXCEPT !.anchors = WithAnchor(@, r.decl, r.at)]
          [] r.kind = "refused" /\ Believed(L, acc, i) ->
                 [acc EXCEPT !.dead = @ \cup {r.decl}]
          [] r.kind = "activated" /\ Believed(L, acc, i) ->
                 [acc EXCEPT !.timeline = Append(@, Activation(L, acc, i))]
          [] OTHER -> acc

Nothing == [timeline |-> <<>>, dead |-> {}, anchors |-> <<>>]

DeriveEmergencies(L) ==
    LET acc[i \in 0 .. Len(L)] ==
            IF i = 0 THEN Nothing ELSE Derived(L, acc[i - 1], i)
    IN  acc[Len(L)]

Timeline == DeriveEmergencies(emlog).timeline

\* ActiveEmergency::governs
Governs(e, at, seq) ==
    /\ seq > e.seq
    /\ e.instant < at /\ at <= e.expiry
    /\ e.lapsed = 0 \/ seq < e.lapsed

\* active_emergency_at: the earliest that governs.
ActiveAt(at, seq) ==
    LET covering == SelectSeq(Timeline, LAMBDA e : Governs(e, at, seq))
    IN  IF covering = <<>> THEN {} ELSE {Head(covering)}

\* declaration_status # Pending
Inert(d, at) ==
    LET acc == DeriveEmergencies(emlog)
    IN  Decided(acc, d) \/ (Anchored(acc, d) /\ ~InTime(acc, d, at))
-----------------------------------------------------------------------------
(* The writer.                                                             *)

Record(kind, d, w, at) ==
    [kind |-> kind, decl |-> d, who |-> w, at |-> at, electorate |-> ElectorateOf(emlog)]

\* try_activate: the marker that joins the batch of the record at position seq.
TryActivate(L, d, seq, at) ==
    LET acc    == DeriveEmergencies(L)
        expiry == ScheduledExpiry(d, at)
        marker == IF ChainAdmits(FoldChain(acc.timeline), at, expiry)
                  THEN [kind |-> "activated", decl |-> d, who |-> d, at |-> at,
                        electorate |-> ElectorateOf(L), expiry |-> expiry]
                  ELSE Record("refused", d, d, at)
    IN  IF /\ ~Decided(acc, d)
           /\ CrossingSeq(L, SignsDeclaration, d, ElectorateOf(L), Len(L)) = seq
           /\ Anchored(acc, d) /\ InTime(acc, d, at)
        THEN Append(L, marker)
        ELSE L

OnLog(kind, d) == \E r \in ToSet(emlog) : r.kind = kind /\ r.decl = d

\* append_declaration: the declaration, its anchor and any marker are one batch.
Declare(d, at) ==
    LET w == DeclaredBy[d]
    IN  /\ ~OnLog("declaration", d)
        /\ w \in ElectorateOf(emlog)
        /\ emlog' = TryActivate(emlog \o <<Record("declaration", d, w, at),
                                           Record("admitted", d, d, at)>>,
                                d, Len(emlog) + 1, at)

\* append_cosign, toward a declaration
CosignDeclaration(d, w, at) ==
    /\ OnLog("declaration", d)
    /\ w \in ElectorateOf(emlog)
    /\ ~\E r \in ToSet(emlog) : r.kind = "cosign" /\ r.decl = d /\ r.who = w
    /\ ~Inert(d, at)
    /\ emlog' = TryActivate(Append(emlog, Record("cosign", d, w, at)),
                            d, Len(emlog) + 1, at)

\* The electorate of the emergency d, if it is the one in force at `at'.
InForceElectorate(d, at) ==
    UNION {emlog[e.seq].electorate :
              e \in {a \in ActiveAt(at, Len(emlog) + 1) : a.decl = d}}

\* append_lapse
RaiseLapse(d, w, at) ==
    /\ OnLog("activated", d) /\ w \in InForceElectorate(d, at)
    /\ ~\E r \in ToSet(emlog) : r.kind = "lapse" /\ r.decl = d /\ r.who = w
    /\ emlog' = Append(emlog, Record("lapse", d, w, at))

\* append_cosign, toward the lapse of d that `by' raised
CosignLapse(d, by, w, at) ==
    /\ \E r \in ToSet(emlog) : r.kind = "lapse" /\ r.decl = d /\ r.who = by
    /\ w \in InForceElectorate(d, at)
    /\ ~\E r \in ToSet(emlog) :
           r.kind = "lapse_cosign" /\ r.decl = d /\ r.lapse = by /\ r.who = w
    /\ emlog' = Append(emlog, [kind |-> "lapse_cosign", decl |-> d, who |-> w,
                               lapse |-> by, at |-> at,
                               electorate |-> ElectorateOf(emlog)])

\* Settlements, vouches, slashes and charters: whatever moves the electorate.
Evidence(members, at) == [kind |-> "evidence", at |-> at, electorate |-> members]

EvidenceAdmitted(members, at) ==
    /\ members # ElectorateOf(emlog)
    /\ Cardinality({i \in 1 .. Len(emlog) : emlog[i].kind = "evidence"}) <= MaxEvidence
    /\ emlog' = Append(emlog, Evidence(members, at))
-----------------------------------------------------------------------------
\* A community that has an electorate.
EmergencyInit == emlog \in {<<Evidence(members, 0)>> : members \in Electorates}

EmergencyNext ==
    /\ Len(emlog) < MaxRecords
    /\ \E at \in Admissions :
         \/ \E d \in Declarations :
              \/ Declare(d, at)
              \/ \E w \in UNION Electorates :
                   \/ CosignDeclaration(d, w, at)
                   \/ RaiseLapse(d, w, at)
                   \/ \E by \in UNION Electorates : CosignLapse(d, by, w, at)
         \/ \E members \in Electorates : EvidenceAdmitted(members, at)

EmergencySpec == EmergencyInit /\ [][EmergencyNext]_emlog
-----------------------------------------------------------------------------
(* Every marker the station wrote is believed when the log is replayed:    *)
(* the writer, which judges a crossing inside an open batch, and           *)
(* derive_emergencies, which judges it from the whole log, agree.          *)
MarkersAreBelieved ==
    LET acc == DeriveEmergencies(emlog)
    IN  \A i \in 1 .. Len(emlog) :
          /\ emlog[i].kind = "activated" => \E e \in ToSet(acc.timeline) : e.seq = i
          /\ emlog[i].kind = "refused" => emlog[i].decl \in acc.dead

(* The history of emergencies is only ever extended: what took force keeps *)
(* its span, its position and its count whoever gains or loses standing    *)
(* later, and a lift counts from where it was signed, never earlier.       *)
HistoryStands ==
    [][LET was == Timeline
           now == DeriveEmergencies(emlog').timeline
       IN  /\ Len(now) >= Len(was)
           /\ \A k \in 1 .. Len(was) :
                \/ now[k] = was[k]
                \/ /\ was[k].lapsed = 0 /\ now[k].lapsed > Len(emlog)
                   /\ now[k] = [was[k] EXCEPT !.lapsed = now[k].lapsed]]_emlog

(* Emergency is not a way of life: cut the activations into chains at the  *)
(* ones counted as fresh (renewal 0); no chain holds more than MaxRenewals *)
(* renewals or more than ChainMax of scheduled time, and a fresh one takes *)
(* force at least the cooldown after everything before it has expired.     *)
ChainsAreBounded ==
    LET T == Timeline
        Chain(k) == {j \in k .. Len(T) : \A m \in k + 1 .. j : T[m].renewal # 0}
    IN  \A k \in 1 .. Len(T) :
          T[k].renewal = 0 =>
              /\ Cardinality(Chain(k)) <= MaxRenewals + 1
              /\ SumTo([j \in 1 .. Len(T) |->
                          IF j \in Chain(k) THEN T[j].expiry - T[j].instant ELSE 0],
                       Len(T)) <= ChainMax
              /\ \A j \in 1 .. k - 1 : T[k].instant >= T[j].expiry + Cooldown
=============================================================================
