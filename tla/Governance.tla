----------------------------- MODULE Governance -----------------------------
(***************************************************************************)
(* How a community decides (rrn-governance: charter, proposal, window,     *)
(* vote, tally, statute, lifecycle; the station's governance_* calls and   *)
(* enactment sweep): the founders' ceremony, proposals, co-signatures,     *)
(* ballots, tallies against the charter in force, amendments folded onto   *)
(* the founder root, and the freeze while an emergency holds.              *)
(*                                                                         *)
(* What the code replays from the log on every call is kept here as what   *)
(* the log says.  A position in the log matters only for who had standing  *)
(* there, so a proposal's window keeps the standing of its open position.  *)
(* How an emergency comes into force is module Emergency's matter; here it *)
(* takes force and is lifted.                                              *)
(***************************************************************************)
EXTENDS Integers, Sequences, FiniteSets, FiniteSetsExt, SequencesExt

CONSTANTS
    Charters,     \* charter bodies, by content hash; Genesis is the root
    Genesis,
    Amends,       \* previous_hash of each amended body, Genesis of Genesis
    CharterTerms, \* of each: founders, the bars in percent and the windows
    Motions,      \* proposals, by content hash
    MotionOf,     \* of each: kind, author, charter (amendment), expires (emergency)
    Standings,    \* sets of established members that may be
    GraceBelow,   \* BOOTSTRAP_GRACE_THRESHOLD
    CosignBar,    \* DEFAULT_COSIGN_THRESHOLD
    MeasureGrace, \* EMERGENCY_MEASURE_GRACE
    UndeclaredGrace, \* EMERGENCY_UNDECLARED_MEASURE_GRACE
    BallotChoices, \* yes, no, abstain: the ones the instance lets be cast
    CrisisSpans,  \* durations an emergency may have
    LastDay,      \* bound of the model: last instant
    MaxTurns      \* bound of the model: changes of standing, set-back clocks, crashes

ASSUME GovernanceAssumption ==
    /\ Genesis \in Charters /\ Amends \in [Charters -> Charters]
    /\ Amends[Genesis] = Genesis
    /\ BallotChoices \subseteq {"yes", "no", "abstain"}
    /\ IsFiniteSet(Charters)
    /\ \A c \in Charters :
          {CharterTerms[c].window, CharterTerms[c].charterWindow,
           CharterTerms[c].emergencyWindow, CharterTerms[c].delay} \subseteq Nat
    /\ \A p \in Motions :
          /\ MotionOf[p].kind \in {"statute", "amendment", "emergency"}
          /\ MotionOf[p].kind = "amendment" => MotionOf[p].charter \in Charters
    /\ {GraceBelow, CosignBar, MeasureGrace, UndeclaredGrace, LastDay, MaxTurns} \subseteq Nat

VARIABLES
    founded,     \* founders who signed the charter under way; none before it begins
    established, \* members at or above the Member band
    filed,       \* proposals on the log, in order
    window,      \* the station's window attestation, by proposal
    endorsed,    \* co-signers, by proposal
    ballots,     \* ballots, by proposal and voter
    enacted,     \* implemented_at, by proposal
    crisis,      \* the emergency that took force, if any
    day,         \* the station's clock
    tailDay,     \* admission instant of the log's tail
    turns        \* changes of standing, set-back clocks and crashes so far

govVars == <<founded, established, filed, window, endorsed, ballots, enacted, crisis,
             day, tailDay, turns>>

NoEntry  == [x \in {} |-> x]
NoCrisis == [instant |-> 0, expiry |-> 0, standing |-> {}, lifted |-> TRUE]

\* f with v recorded for x.
WithEntry(f, x, v) == [y \in DOMAIN f \cup {x} |-> IF y = x THEN v ELSE f[y]]

Founders == CharterTerms[Genesis].founders

\* The instant the next record is admitted at.
AdmissionDay == Max({day, tailDay})

\* Every append moves the tail.
Admits == tailDay' = AdmissionDay

Windowed == DOMAIN window
-----------------------------------------------------------------------------
(* The electorate (is_eligible_asof, grace_electorate_asof).               *)

InGrace(standing) == Cardinality(standing) < GraceBelow

ElectorateFor(standing, founders) ==
    standing \cup (IF InGrace(standing) THEN founders ELSE {})

\* effective_cosign_threshold, at the proposal's open position
CosignThreshold(p) ==
    LET s == window[p].standing
    IN  IF InGrace(s)
        THEN Min({CosignBar, Max({0, Cardinality(ElectorateFor(s, Founders)) - 1})})
        ELSE CosignBar

IsPublished(p) == Cardinality(endorsed[p]) >= CosignThreshold(p)

\* founder_threshold, verify_founders
FounderThreshold == (3 * Cardinality(Founders) + 3) \div 4
CharterStands    == founded # {} /\ Cardinality(founded) >= FounderThreshold
-----------------------------------------------------------------------------
(* The tally (count_against).                                              *)

\* The standing a proposal's ballots and quorum are pinned at: its open
\* position, or the emergency's activation for one on the compressed path.
PinnedStanding(p) == window[p].pin

\* Slip in QuorumStanding: whoever has standing when the votes are counted.
StandingNow(p) == established

QuorumStanding(p) == PinnedStanding(p)

CountOf(p, choice) == Cardinality({v \in DOMAIN ballots[p] : ballots[p][v] = choice})

\* thresholds; the quorum of an emergency rises on the compressed path.
QuorumPct(p, c) ==
    LET t == CharterTerms[c]
    IN  CASE MotionOf[p].kind = "statute" -> t.quorum
          [] MotionOf[p].kind = "amendment" -> t.charterQuorum
          [] OTHER -> IF window[p].compressed THEN Max({50, t.emergencyQuorum}) ELSE t.quorum

QuorumMet(p, c) ==
    Cardinality(DOMAIN ballots[p]) * 100
        >= QuorumPct(p, c)
             * Cardinality(ElectorateFor(QuorumStanding(p), CharterTerms[c].founders))

\* emergency_measure_approved: 67 is read as exactly two thirds.
ApprovalMet(p, c) ==
    LET yes == CountOf(p, "yes")
        decisive == yes + CountOf(p, "no")
        pct == CASE MotionOf[p].kind = "statute" -> CharterTerms[c].approval
                 [] MotionOf[p].kind = "amendment" -> CharterTerms[c].charterApproval
                 [] OTHER -> CharterTerms[c].emergencyApproval
    IN  /\ decisive > 0
        /\ IF MotionOf[p].kind = "emergency" /\ pct <= 67
           THEN yes * 3 >= 2 * decisive
           ELSE yes * 100 >= pct * decisive

Carried(p, c) == QuorumMet(p, c) /\ ApprovalMet(p, c)

\* tally's outcome is Some(Passed)
PassedBy(p, c, now) == now > window[p].ends /\ Carried(p, c)
-----------------------------------------------------------------------------
(* effective_charter: from the founder root, the first amendment in log    *)
(* order that amends the charter in hand, is enacted and passed by it.     *)

\* Slip in Supersedes: the enactment record is taken at its word.
SupersedesUnchecked(p, c, done) ==
    /\ MotionOf[p].kind = "amendment" /\ p \in DOMAIN done
    /\ MotionOf[p].charter # c /\ Amends[MotionOf[p].charter] = c

Supersedes(p, c, done) ==
    /\ MotionOf[p].kind = "amendment" /\ p \in DOMAIN done
    /\ MotionOf[p].charter # c /\ Amends[MotionOf[p].charter] = c
    /\ PassedBy(p, c, window[p].implementation)

Amended(c, done) ==
    LET next == {i \in DOMAIN filed : filed[i] \in Windowed /\ Supersedes(filed[i], c, done)}
    IN  IF next = {} THEN c ELSE MotionOf[filed[Min(next)]].charter

\* The lineage is no longer than there are charters.
EffectiveAfter(done) ==
    LET charter[n \in 0 .. Cardinality(Charters)] ==
            IF n = 0 THEN Genesis ELSE Amended(charter[n - 1], done)
    IN  charter[Cardinality(Charters)]

EffectiveCharter == EffectiveAfter(enacted)
-----------------------------------------------------------------------------
(* Emergencies, as governance sees them.                                   *)

\* active_emergency_at
InForce(at) == ~crisis.lifted /\ crisis.instant < at /\ at <= crisis.expiry

\* Slip in FreezeDay: the station's clock as it stands.
FreezeDayRaw == day

\* The instant the freeze is judged at.
FreezeDay == AdmissionDay

Frozen == InForce(FreezeDay)

\* Module Emergency: a declaration crosses its supermajority, or a lift does.
EmergencyTakesForce(span) ==
    /\ CharterStands /\ crisis = NoCrisis
    /\ crisis' = [instant |-> AdmissionDay, expiry |-> AdmissionDay + span,
                  standing |-> established, lifted |-> FALSE]
    /\ Admits
    /\ UNCHANGED <<founded, established, filed, window, endorsed, ballots, enacted, day, turns>>

EmergencyLifted ==
    /\ InForce(AdmissionDay)
    /\ crisis' = [crisis EXCEPT !.lifted = TRUE]
    /\ Admits
    /\ UNCHANGED <<founded, established, filed, window, endorsed, ballots, enacted, day, turns>>
-----------------------------------------------------------------------------
(* The ceremony (m_governance_init_charter, m_governance_charter_begin,    *)
(* ingest_charter_signature).                                              *)

BeginCharter(signers) ==
    /\ founded = {} /\ signers # {}
    /\ founded' = signers
    /\ Admits
    /\ UNCHANGED <<established, filed, window, endorsed, ballots, enacted, crisis, day, turns>>

SignCharter(f) ==
    /\ founded # {} /\ ~CharterStands
    /\ f \notin founded
    /\ founded' = founded \cup {f}
    /\ Admits
    /\ UNCHANGED <<established, filed, window, endorsed, ballots, enacted, crisis, day, turns>>
-----------------------------------------------------------------------------
(* Proposals, endorsements and ballots.                                    *)

\* window_for, compressed_emergency_window, build_window
WindowFor(p, c, at) ==
    LET t == CharterTerms[c]
        compressed == MotionOf[p].kind = "emergency" /\ InForce(at)
        ends == at + (CASE compressed -> t.emergencyWindow
                        [] MotionOf[p].kind = "amendment" -> t.charterWindow
                        [] OTHER -> t.window)
    IN  [ends |-> ends,
         implementation |-> ends + IF MotionOf[p].kind = "emergency" THEN 0 ELSE t.delay,
         standing |-> established,
         pin |-> IF compressed THEN crisis.standing ELSE established,
         compressed |-> compressed]

\* The last instant an emergency measure may run to.
MeasureLimit(p, c, at) ==
    IF InForce(at) THEN crisis.expiry + MeasureGrace
    ELSE at + CharterTerms[c].window + UndeclaredGrace

MayPropose(p) ==
    /\ CharterStands
    /\ MotionOf[p].author \in ElectorateFor(established, Founders)
    /\ p \notin Windowed
    /\ MotionOf[p].kind = "amendment" => ~InForce(AdmissionDay)
    /\ MotionOf[p].kind = "emergency" =>
           MotionOf[p].expires <= MeasureLimit(p, EffectiveCharter, AdmissionDay)

FiledWith(p) == IF p \in ToSet(filed) THEN filed ELSE Append(filed, p)

\* append_proposal
ProposeMotion(p) ==
    /\ MayPropose(p)
    /\ filed' = FiledWith(p)
    /\ window' = WithEntry(window, p, WindowFor(p, EffectiveCharter, AdmissionDay))
    /\ endorsed' = WithEntry(endorsed, p, {})
    /\ ballots' = WithEntry(ballots, p, NoEntry)
    /\ Admits
    /\ UNCHANGED <<founded, established, enacted, crisis, day, turns>>

\* The station stops between append_proposal's two appends: a proposal without
\* a window, which nothing reads and which can be proposed again.
ProposeTorn(p) ==
    /\ MayPropose(p) /\ p \notin ToSet(filed)
    /\ turns < MaxTurns /\ turns' = turns + 1
    /\ filed' = FiledWith(p)
    /\ Admits
    /\ UNCHANGED <<founded, established, window, endorsed, ballots, enacted, crisis, day>>

\* append_cosign
Endorse(p, m) ==
    /\ p \in Windowed
    /\ m # MotionOf[p].author /\ m \notin endorsed[p]
    /\ m \in ElectorateFor(window[p].standing, Founders)
    /\ endorsed' = [endorsed EXCEPT ![p] = @ \cup {m}]
    /\ Admits
    /\ UNCHANGED <<founded, established, filed, window, ballots, enacted, crisis, day, turns>>

\* append_vote
CastBallot(p, m, choice) ==
    /\ p \in Windowed /\ IsPublished(p)
    /\ AdmissionDay <= window[p].ends
    /\ m \in ElectorateFor(PinnedStanding(p), Founders)
    /\ m \notin DOMAIN ballots[p]
    /\ ballots' = [ballots EXCEPT ![p] = WithEntry(@, m, choice)]
    /\ Admits
    /\ UNCHANGED <<founded, established, filed, window, endorsed, enacted, crisis, day, turns>>
-----------------------------------------------------------------------------
(* The enactment sweep (enact_due over record_implementation): in log      *)
(* order, each against the charter the enactments before it have made.     *)

Due(p, done) ==
    /\ p \in Windowed /\ p \notin DOMAIN done
    /\ PassedBy(p, EffectiveAfter(done), day)
    /\ day >= window[p].implementation

\* Slip in SweepStep: the first proposal that is not enacted ends the sweep.
SweepStepOrStop(done, p) ==
    IF /\ Due(p, done) /\ ~(MotionOf[p].kind = "amendment" /\ Frozen)
       /\ \A i, k \in DOMAIN filed : filed[k] = p /\ i < k => filed[i] \in DOMAIN done
    THEN WithEntry(done, p, day)
    ELSE done

SweepStep(done, p) ==
    IF Due(p, done) /\ ~(MotionOf[p].kind = "amendment" /\ Frozen)
    THEN WithEntry(done, p, day)
    ELSE done

\* The enactments once the sweep has come to the n-th proposal.
Swept(n) ==
    LET done[k \in 0 .. Len(filed)] ==
            IF k = 0 THEN enacted ELSE SweepStep(done[k - 1], filed[k])
    IN  done[n]

SweepTo(n) ==
    /\ CharterStands
    /\ enacted' = Swept(n)
    /\ tailDay' = IF enacted' = enacted THEN tailDay ELSE AdmissionDay
    /\ UNCHANGED <<founded, established, filed, window, endorsed, ballots, crisis, day>>

EnactDue == SweepTo(Len(filed)) /\ UNCHANGED turns

\* Each enactment is an append of its own: the station stops after the n-th
\* proposal, with more to enact.
EnactTorn(n) ==
    /\ n < Len(filed)
    /\ turns < MaxTurns /\ turns' = turns + 1
    /\ Swept(n) # Swept(Len(filed))
    /\ SweepTo(n)
-----------------------------------------------------------------------------
(* The world.                                                              *)

DayPasses ==
    /\ day < LastDay /\ day' = day + 1
    /\ UNCHANGED <<founded, established, filed, window, endorsed, ballots, enacted, crisis,
                   tailDay, turns>>

ClockSetBack ==
    /\ day > 0 /\ turns < MaxTurns
    /\ day' = day - 1 /\ turns' = turns + 1
    /\ UNCHANGED <<founded, established, filed, window, endorsed, ballots, enacted, crisis,
                   tailDay>>

StandingMoves(members) ==
    /\ members # established /\ turns < MaxTurns
    /\ established' = members /\ turns' = turns + 1
    /\ Admits
    /\ UNCHANGED <<founded, filed, window, endorsed, ballots, enacted, crisis, day>>
-----------------------------------------------------------------------------
GovInit ==
    /\ founded = {} /\ established \in Standings
    /\ filed = <<>> /\ window = NoEntry /\ endorsed = NoEntry /\ ballots = NoEntry
    /\ enacted = NoEntry /\ crisis = NoCrisis
    /\ day = 0 /\ tailDay = 0 /\ turns = 0

Members == (UNION {CharterTerms[c].founders : c \in Charters}) \cup (UNION Standings)

GovNext ==
    \/ \E signers \in SUBSET Founders : BeginCharter(signers)
    \/ \E f \in Founders : SignCharter(f)
    \/ \E p \in Motions :
         \/ ProposeMotion(p)
         \/ ProposeTorn(p)
         \/ \E m \in Members :
              \/ Endorse(p, m)
              \/ \E choice \in BallotChoices : CastBallot(p, m, choice)
    \/ EnactDue
    \/ \E n \in DOMAIN filed : EnactTorn(n)
    \/ \E span \in CrisisSpans : EmergencyTakesForce(span)
    \/ EmergencyLifted
    \/ DayPasses
    \/ ClockSetBack
    \/ \E members \in Standings : StandingMoves(members)

GovSpec == GovInit /\ [][GovNext]_govVars /\ WF_govVars(EnactDue)
-----------------------------------------------------------------------------
\* c and the charters it descends from.
Lineage(c) ==
    LET up[n \in 0 .. Cardinality(Charters)] == IF n = 0 THEN c ELSE Amends[up[n - 1]]
    IN  {up[n] : n \in 0 .. Cardinality(Charters)}

\* Amendments come to their votes, and come due, in the order of the log, and
\* the amendment of a charter after the one that makes it.
AmendmentsInOrder ==
    \A i, j \in DOMAIN filed :
        (/\ i < j /\ {filed[i], filed[j]} \subseteq Windowed
         /\ MotionOf[filed[i]].kind = "amendment" /\ MotionOf[filed[j]].kind = "amendment")
        => /\ window[filed[i]].ends <= window[filed[j]].ends
           /\ window[filed[i]].implementation <= window[filed[j]].implementation
           /\ Amends[MotionOf[filed[i]].charter] # MotionOf[filed[j]].charter

(* The charter in force is never set aside: it changes only to a charter   *)
(* that descends from it, whatever is enacted later and whichever of two   *)
(* rival amendments comes first in the log.  A rival that failed under the *)
(* charter it amends can pass under the looser bars of the one that        *)
(* carried and be recorded as enacted; effective_charter must still not    *)
(* take it.  The exceptions: an amendment that append_proposal left in the *)
(* log without its window and that was proposed again later comes first in *)
(* the log and last to its vote, and if it carries it displaces the        *)
(* charter its rival made; and since nothing ties an amendment to the      *)
(* charter in force when it is tabled, one of a charter still to come may  *)
(* be enacted under the bars of an earlier one, ahead of a rival that only *)
(* passes later.                                                           *)
CharterNeverReverts ==
    [][AmendmentsInOrder' => EffectiveCharter \in Lineage(EffectiveCharter')]_govVars

(* While an emergency holds, on the admission clock, the charter stands:   *)
(* no sweep changes it, on a station whose clock was set back either.      *)
CharterIsFrozen ==
    [][InForce(AdmissionDay) => EffectiveCharter' = EffectiveCharter]_govVars

(* Once the admission clock has passed the close of its vote, a proposal's *)
(* result does not change while the charter stays the same: no late        *)
(* ballot, no new standing, no set-back clock and no emergency moves it.   *)
ResultStands ==
    [][\A p \in Windowed :
          /\ tailDay > window[p].ends
          /\ EffectiveCharter' = EffectiveCharter
          => (Carried(p, EffectiveCharter) <=> Carried(p, EffectiveCharter)')]_govVars

(* Decided is in the end done: a statute or an emergency measure that has  *)
(* passed and come due is enacted by a later sweep, unless the charter     *)
(* changes the bars or the clock is set back first; neither a frozen       *)
(* amendment ahead of it nor a sweep cut short by a crash holds it up.     *)
PassedIsEnacted ==
    \A p \in {q \in Motions : MotionOf[q].kind # "amendment"} :
        Due(p, enacted) ~> (p \in DOMAIN enacted \/ ~Due(p, enacted))
=============================================================================
