---------------------------- MODULE Equivocation ----------------------------
(***************************************************************************)
(* An equivocation case before its jury (rrn-dispute's equivocation.rs):   *)
(* ballots in rounds, a fresh round when a member re-seats a lapsed case,  *)
(* and the station's terminal ruling.  The rounds are derived from the log *)
(* at every call.  The station keeps one record per offence, so a case is  *)
(* one record; it was admitted at instant 0.  Every round draws its own    *)
(* jury, from the log position that opened it, and a re-seat is judged at  *)
(* its own; but both with the founders of the charter in force when the    *)
(* call is made, so an amendment re-draws the juries (any of EqDraws) and  *)
(* may make or unmake a requester's standing.                              *)
(***************************************************************************)
EXTENDS Jury

CONSTANTS
    EqDraws,       \* the seating orders a round's sortition may yield
    EqWindow,      \* window_seconds
    EqLastInstant, \* bound on the station's clock
    EqMaxTurns,    \* bound on how often the clock is set back
    EqMaxRounds,   \* bound on the rounds of a case
    EqMaxRedraws   \* bound on how often other founders are read

ASSUME EquivocationAssumption ==
    /\ \A draw \in EqDraws : Drawn(draw)
    /\ EqWindow \in Nat

VARIABLES
    eqclock,   \* the station's clock
    eqturns,   \* how often it was set back
    eqtail,    \* the last record's admission instant
    eqredraws, \* how often other founders were read
    eqballots, \* ballots on the log: sets of [round, juror, uphold, at]
    reseats,   \* the opening and the re-seat records in log order, each with what
               \* today's founders make of it: its draw, its requester's standing
    eqruling,  \* the station's terminal verdict record, or "none"
    eqbasis    \* a history: the round the ruling was read from, and when

equivocationVars == <<eqclock, eqturns, eqtail, eqredraws, eqballots, reseats, eqruling, eqbasis>>

EquivocationInit ==
    /\ eqclock = 0 /\ eqturns = 0 /\ eqtail = 0 /\ eqredraws = 0
    /\ eqballots = {}
    /\ reseats \in {<<[round |-> 0, at |-> 0, draw |-> d, eligible |-> TRUE]>> : d \in EqDraws}
    /\ eqruling = "none" /\ eqbasis = "none"

EqAdmittedAt == IF eqclock >= eqtail THEN eqclock ELSE eqtail

\* round_ballots over every round's ballots at once.
RoundBallotsMixed(round) ==
    [j \in {b.juror : b \in eqballots} |->
        LET b == CHOOSE c \in eqballots : c.juror = j
        IN  [uphold |-> b.uphold, at |-> b.at]]

\* round_ballots: a juror's ballot in a round is final, one each.
RoundBallots(round) ==
    LET cast == {b \in eqballots : b.round = round}
    IN  [j \in {b.juror : b \in cast} |->
            LET b == CHOOSE c \in cast : c.juror = j
            IN  [uphold |-> b.uphold, at |-> b.at]]

\* round_panel and round_decision: the panel's majority as of an instant, where
\* upholding the case means overturning the record.
RoundPanel(r, now) == ResolvePanel(r.draw, RoundBallots(r.round), r.at, now)

RoundDecision(r, now) ==
    LET ballots == RoundBallots(r.round)
    IN  Tally(ResolvePanel(r.draw, ballots, r.at, now), ballots, now)

\* rounds: the record opens round 0; a re-seat admitted by now opens the next
\* one if the current round's window had closed without a majority at the
\* re-seat's own instant, and if its requester was in standing (reseat_eligible).
EqRounds(now) ==
    LET opens(cur, i) ==
            /\ reseats[i].at <= now
            /\ reseats[i].round = cur.round + 1
            /\ reseats[i].at >= cur.at + EqWindow
            /\ RoundDecision(cur, reseats[i].at) = "none"
            /\ reseats[i].eligible
        \* The round in force once the first i records are read.
        current[i \in 1 .. Len(reseats)] ==
            IF i = 1 THEN reseats[1]
            ELSE IF opens(current[i - 1], i) THEN reseats[i] ELSE current[i - 1]
    IN  {current[i] : i \in 1 .. Len(reseats)}

CurrentRound(now) == CHOOSE r \in EqRounds(now) : \A s \in EqRounds(now) : s.round <= r.round

\* decide_equivocation: a terminal record is final, else the current round's
\* majority, else a closed window is a lapse.
DecideEquivocation(now) ==
    LET cur == CurrentRound(now)
    IN  IF eqruling # "none" THEN eqruling
        ELSE IF RoundDecision(cur, now) # "none" THEN RoundDecision(cur, now)
        ELSE IF now >= cur.at + EqWindow THEN "lapsed" ELSE "pending"

----------------------------------------------------------------------------
\* append_equivocation_ballot: any round that exists, from a live seat in it.
\* The round's own window is not consulted, nor is a terminal ruling.
AppendEquivocationBallot(r, j, uphold) ==
    /\ r \in EqRounds(EqAdmittedAt)
    /\ j \notin DOMAIN RoundBallots(r.round)
    /\ HoldsLiveSeat(j, RoundPanel(r, EqAdmittedAt), RoundBallots(r.round), EqAdmittedAt)
    /\ eqballots' = eqballots \cup
         {[round |-> r.round, juror |-> j, uphold |-> uphold, at |-> EqAdmittedAt]}
    /\ eqtail' = EqAdmittedAt
    /\ UNCHANGED <<eqclock, eqturns, eqredraws, reseats, eqruling, eqbasis>>

\* append_equivocation_reseat by a member who is in standing at the position.
AppendEquivocationReseat(draw) ==
    /\ Len(reseats) < EqMaxRounds
    /\ DecideEquivocation(EqAdmittedAt) = "lapsed"
    /\ reseats' = Append(reseats, [round |-> CurrentRound(EqAdmittedAt).round + 1,
                                   at |-> EqAdmittedAt, draw |-> draw, eligible |-> TRUE])
    /\ eqtail' = EqAdmittedAt
    /\ UNCHANGED <<eqclock, eqturns, eqredraws, eqballots, eqruling, eqbasis>>

\* resolve_equivocation, which the sweep skips once a ruling is on the log.
ResolveEquivocation ==
    /\ eqruling = "none"
    /\ DecideEquivocation(eqclock) \in {"upheld", "rejected"}
    /\ eqruling' = DecideEquivocation(eqclock)
    /\ eqbasis' = [opened |-> CurrentRound(eqclock), now |-> eqclock]
    /\ eqtail' = EqAdmittedAt
    /\ UNCHANGED <<eqclock, eqturns, eqredraws, eqballots, reseats>>

EquivocationTick ==
    /\ eqclock < EqLastInstant
    /\ eqclock' = eqclock + 1
    /\ UNCHANGED <<eqturns, eqtail, eqredraws, eqballots, reseats, eqruling, eqbasis>>

EquivocationClockBack ==
    /\ eqturns < EqMaxTurns
    /\ \E t \in 0 .. eqclock - 1 : eqclock' = t
    /\ eqturns' = eqturns + 1
    /\ UNCHANGED <<eqtail, eqredraws, eqballots, reseats, eqruling, eqbasis>>

\* The next call reads other founders than the last: every round's pool and every
\* requester's standing are what these founders make of them.
EquivocationRedraw(draws, eligible) ==
    /\ eqredraws < EqMaxRedraws
    /\ reseats' = [i \in DOMAIN reseats |->
                     [reseats[i] EXCEPT !.draw = draws[i], !.eligible = eligible[i]]]
    /\ eqredraws' = eqredraws + 1
    /\ UNCHANGED <<eqclock, eqturns, eqtail, eqballots, eqruling, eqbasis>>

EquivocationNext ==
    \/ \E r \in EqRounds(EqAdmittedAt), u \in BOOLEAN :
          \E n \in DOMAIN r.draw : AppendEquivocationBallot(r, r.draw[n], u)
    \/ \E d \in EqDraws : AppendEquivocationReseat(d)
    \/ ResolveEquivocation
    \/ \E draws \in [DOMAIN reseats -> EqDraws], eligible \in [DOMAIN reseats -> BOOLEAN] :
          EquivocationRedraw(draws, eligible)
    \/ EquivocationTick
    \/ EquivocationClockBack

EquivocationSpec == EquivocationInit /\ [][EquivocationNext]_equivocationVars

----------------------------------------------------------------------------
\* The station's terminal ruling is the verdict of one round's jury, and stays so:
\* under the founders it was read with, from its instant on, a majority of that
\* round's seated jurors said so, each in a ballot of that very round admitted
\* within the response window of the juror's own seat.  A lapsed round's ballots
\* never add to a later round's, and ballots admitted after the ruling (which
\* append_equivocation_ballot allows) or founders read later never take a juror
\* of that majority away.
JuryOfOneRound ==
    eqruling # "none" =>
        LET r == eqbasis.opened
        IN  \A now \in eqbasis.now .. EqLastInstant :
                Cardinality({s \in RoundPanel(r, now) :
                    \E b \in eqballots : /\ b.round = r.round /\ b.juror = s.juror
                                         /\ b.uphold = (eqruling = "upheld")
                                         /\ b.at >= s.seated /\ b.at <= s.seated + JurorResponse
                                         /\ b.at <= now}) >= Majority
=============================================================================
