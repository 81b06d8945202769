------------------------------ MODULE Dispute -------------------------------
(***************************************************************************)
(* A disputed transfer before its jury (rrn-dispute's resolution.rs and    *)
(* escalation.rs): juror rulings, a party's escalation to the whole        *)
(* electorate, its ballots, and the sweep that closes the dispute.         *)
(*                                                                         *)
(* Every gate judges a record at the instant the log will stamp on it (the *)
(* later of the clock and the last record), the sweep judges the whole     *)
(* dispute again from the log at the raw clock, which may have been set    *)
(* back.  One dispute is modelled, admitted at instant 0: records name     *)
(* their transaction, so disputes share nothing but the log's clock.       *)
(*                                                                         *)
(* The draw (eligible_pool, draw_sequence) and the electorate are read at  *)
(* the log positions of the dispute and of the escalation, but with the    *)
(* founders of the charter in force when the call is made: an amendment    *)
(* re-draws the jury and the electorate of an open dispute, and a sweep    *)
(* that cannot read the charter judges with no founders.  `hearing.draw'   *)
(* and `hearing.electorate' are what today's founders yield, any of Draws  *)
(* and any subset of Voters; every operator takes the draw it reads.       *)
(***************************************************************************)
EXTENDS Jury

CONSTANTS
    Draws,              \* the seating orders the sortition may yield
    Voters,             \* members who may be in an escalation's electorate
    DisputeWindow,      \* window_seconds
    AppealWindow,       \* appeal_window_seconds
    EscalationWindow,   \* escalation_window_seconds
    EscalationQuorum,   \* escalation_quorum_pct
    EscalationApproval, \* escalation_approval_pct
    LastInstant,        \* bound on the station's clock
    MaxClockTurns,      \* bound on how often the clock is set back
    MaxRedraws          \* bound on how often other founders are read

ASSUME DisputeAssumption ==
    /\ \A draw \in Draws : Drawn(draw)
    /\ {DisputeWindow, AppealWindow, EscalationWindow} \subseteq Nat

VARIABLES
    dclock,   \* the station's clock
    dturns,   \* how often it was set back
    dredraws, \* how often other founders were read
    dtail,    \* the last record's admission instant
    hearing   \* the dispute, as the log and today's founders tell it; `under'
              \* (a history) is the draw each ruling was admitted under

disputeVars == <<dclock, dturns, dredraws, dtail, hearing>>

NoEscalation == [reason |-> "none"]
NoRulings == [j \in {} |-> [uphold |-> FALSE, at |-> 0]]
NoDraws == [j \in {} |-> << >>]

DisputeInit ==
    /\ dclock = 0 /\ dturns = 0 /\ dredraws = 0 /\ dtail = 0
    /\ hearing \in [draw : Draws, rulings : {NoRulings}, under : {NoDraws},
                    escalation : {NoEscalation}, electorate : {{}}, ballots : {NoRulings},
                    stage : {"Disputed"}, outcome : {"none"}]

MainClose == DisputeWindow

\* admission_instant
AdmittedAt == IF dclock >= dtail THEN dclock ELSE dtail

\* The raw clock, where a gate should judge at the admission instant.
AdmittedAtClock == dclock

Admit(h) ==
    /\ hearing' = h
    /\ dtail' = AdmittedAt
    /\ UNCHANGED <<dclock, dturns, dredraws>>

Earlier(s, t) == IF s <= t THEN s ELSE t

\* jury_view under a draw, at an instant.
PanelAt(draw, now) == ResolvePanel(draw, hearing.rulings, 0, now)
JuryOutcome(draw, now) == Tally(PanelAt(draw, now), hearing.rulings, now)
RuledAt(draw, now) == RulingReachedAt(PanelAt(draw, now), hearing.rulings, now)
AppealDeadline(draw, now) == Earlier(RuledAt(draw, now) + AppealWindow, MainClose)

Recorded(f, x, v) == [y \in DOMAIN f \cup {x} |-> IF y = x THEN v ELSE f[y]]

----------------------------------------------------------------------------
\* The instant append_verdict seats the juror at.
SeatedFor == AdmittedAt

\* append_verdict: inside the window, first ruling, from a live seat.
AppendVerdict(j, uphold) ==
    /\ hearing.stage = "Disputed"
    /\ AdmittedAt <= MainClose
    /\ j \notin DOMAIN hearing.rulings
    /\ HoldsLiveSeat(j, PanelAt(hearing.draw, SeatedFor), hearing.rulings, SeatedFor)
    /\ Admit([hearing EXCEPT
                !.rulings = Recorded(@, j, [uphold |-> uphold, at |-> AdmittedAt]),
                !.under = Recorded(@, j, hearing.draw)])

\* escalation_applies: an appeal inside the ruling's appeal window, or a pool
\* that can never reach a majority inside the main window.
EscalationApplies(draw, reason, at, now) ==
    \/ /\ reason = "appeal"
       /\ JuryOutcome(draw, now) # "none"
       /\ at >= RuledAt(draw, now) /\ at <= AppealDeadline(draw, now)
    \/ /\ reason = "cannot_seat"
       /\ Len(draw) < Majority
       /\ at >= 0 /\ at <= MainClose

\* open_escalation: one per dispute; the electorate is read at its position.
OpenEscalation(reason, electorate) ==
    /\ hearing.stage = "Disputed"
    /\ hearing.escalation = NoEscalation
    /\ EscalationApplies(hearing.draw, reason, AdmittedAt, AdmittedAt)
    /\ Admit([hearing EXCEPT
                !.escalation = [reason |-> reason, at |-> AdmittedAt, draw |-> hearing.draw],
                !.electorate = electorate])

\* escalation_close
EscalationClose(e) == Earlier(e.at + EscalationWindow, MainClose)

\* append_escalation_ballot
AppendEscalationBallot(v, uphold) ==
    /\ hearing.stage = "Disputed"
    /\ hearing.escalation # NoEscalation
    /\ v \in hearing.electorate
    /\ AdmittedAt >= hearing.escalation.at
    /\ AdmittedAt <= EscalationClose(hearing.escalation)
    /\ v \notin DOMAIN hearing.ballots
    /\ Admit([hearing EXCEPT
                !.ballots = Recorded(@, v, [uphold |-> uphold, at |-> AdmittedAt])])

\* count_escalation and terminal_outcome: no ballot and no quorum fail open.
CountEscalation(e) ==
    LET counted == {v \in DOMAIN hearing.ballots :
                      /\ v \in hearing.electorate
                      /\ hearing.ballots[v].at >= e.at
                      /\ hearing.ballots[v].at <= EscalationClose(e)}
        turnout == Cardinality(counted)
        uphold  == Cardinality({v \in counted : hearing.ballots[v].uphold})
    IN  IF turnout = 0 \/ turnout * 100 < EscalationQuorum * Cardinality(hearing.electorate)
        THEN "escalation_lapsed"
        ELSE IF uphold * 100 >= EscalationApproval * turnout
             THEN "escalation_upheld"
             ELSE "escalation_rejected"

\* decide: a valid escalation governs; else a ruling waits out its appeal
\* window; else the dispute lapses when its window closes.
Decide(draw, now) ==
    LET e == hearing.escalation
    IN  IF e # NoEscalation /\ EscalationApplies(draw, e.reason, e.at, now)
        THEN IF now < EscalationClose(e) THEN "pending" ELSE CountEscalation(e)
        ELSE IF JuryOutcome(draw, now) # "none"
             THEN IF now <= AppealDeadline(draw, now) THEN "pending" ELSE JuryOutcome(draw, now)
             ELSE IF now >= MainClose THEN "lapsed" ELSE "pending"

\* resolve and enact_resolution, from the sweep or dispute_resolve: an upheld
\* dispute voids the transfer, any other end settles it.
ResolveDispute ==
    /\ hearing.stage = "Disputed"
    /\ LET outcome == Decide(hearing.draw, dclock)
       IN  /\ outcome # "pending"
           /\ Admit([hearing EXCEPT
                !.outcome = outcome,
                !.stage = IF outcome \in {"upheld", "escalation_upheld"}
                          THEN "Cancelled" ELSE "Settled"])

----------------------------------------------------------------------------
\* The clock runs, or is set back; other records move the log's tail to it.
DisputeTick == dclock < LastInstant /\ dclock' = dclock + 1 /\ UNCHANGED <<dturns, dredraws, dtail, hearing>>

DisputeClockBack ==
    /\ dturns < MaxClockTurns
    /\ \E t \in 0 .. dclock - 1 : dclock' = t
    /\ dturns' = dturns + 1
    /\ UNCHANGED <<dredraws, dtail, hearing>>

\* dispute_founders: the next call reads other founders than the last, since an
\* amendment took effect, or for one sweep since the charter could not be read;
\* the pool at the dispute's position and the electorate at the escalation's are
\* what these founders make of them.  Nothing reads them for a closed dispute.
Redraw(draw, electorate) ==
    /\ hearing.stage = "Disputed"
    /\ dredraws < MaxRedraws
    /\ hearing.escalation = NoEscalation => electorate = {}
    /\ hearing' = [hearing EXCEPT !.draw = draw, !.electorate = electorate]
    /\ dredraws' = dredraws + 1
    /\ UNCHANGED <<dclock, dturns, dtail>>

DisputeNext ==
    \/ \E j \in {hearing.draw[n] : n \in DOMAIN hearing.draw}, u \in BOOLEAN : AppendVerdict(j, u)
    \/ \E r \in {"appeal", "cannot_seat"}, vs \in SUBSET Voters : OpenEscalation(r, vs)
    \/ \E v \in Voters, u \in BOOLEAN : AppendEscalationBallot(v, u)
    \/ \E draw \in Draws, vs \in SUBSET Voters : Redraw(draw, vs)
    \/ ResolveDispute
    \/ DisputeTick
    \/ DisputeClockBack
    \/ Admit(hearing)

DisputeSpec == DisputeInit /\ [][DisputeNext]_disputeVars

----------------------------------------------------------------------------
\* A ruling the gate admitted counts at every later instant in every derivation
\* that reads the founders it was admitted under: rulings of other jurors, seats
\* re-drawn for no-shows, clock changes and other founders read in between (with
\* the rulings admitted under those) do not unseat its juror; append_verdict and
\* jury_view read one seating.  Under other founders it may stop counting, as
\* audit-2026-10.md (RRN-A-033) records.
AdmittedRulingsCount ==
    \A j \in DOMAIN hearing.rulings :
        \A now \in hearing.rulings[j].at .. LastInstant :
            \E s \in PanelAt(hearing.under[j], now) :
                s.juror = j /\ Counts(s, hearing.rulings, now)

\* Once a party's escalation was admitted, only the electorate's vote ends the
\* dispute: later rulings, re-drawn seats, the clock or founders that come and go
\* never make decide fall back to the jury's ruling or to a lapse of the main
\* window, when the pass that closes the dispute reads the founders the escalation
\* was admitted under.  Under other founders decide may fall back (RRN-A-033).
EscalationGoverns ==
    hearing.escalation # NoEscalation /\ hearing.draw = hearing.escalation.draw
        => hearing.outcome \in {"none", "escalation_upheld", "escalation_rejected",
                                "escalation_lapsed"}
=============================================================================
