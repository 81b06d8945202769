-------------------------------- MODULE Jury --------------------------------
(***************************************************************************)
(* The sortition jury of rrn-dispute (panel.rs): how a drawn order of      *)
(* candidates, the rulings on the log and an instant give the seated       *)
(* panel, its majority and when that majority was reached.  The panel is   *)
(* never stored: every caller derives it again, at its own instant.        *)
(*                                                                         *)
(* A draw is a sequence of jurors, the rulings a function from the jurors  *)
(* who ruled to [uphold, at], at being the instant the log admitted the    *)
(* ruling.                                                                 *)
(***************************************************************************)
EXTENDS Integers, Sequences, FiniteSets

CONSTANTS
    PanelSize,        \* DisputeParams::panel_size
    JurorResponse     \* juror_response_seconds, in ticks

ASSUME JuryAssumption == PanelSize \in Nat \ {0} /\ JurorResponse \in Nat

\* draw_sequence draws without replacement.
Drawn(draw) == Len(draw) \in Nat /\ \A m, n \in 1 .. Len(draw) : draw[m] = draw[n] => m = n

Majority == (PanelSize \div 2) + 1

\* A ruling counts when it was admitted inside its juror's own response window
\* and not after the instant the panel is derived at.
Counts(seat, rulings, now) ==
    /\ seat.juror \in DOMAIN rulings
    /\ LET at == rulings[seat.juror].at
       IN  at >= seat.seated /\ at <= seat.seated + JurorResponse /\ at <= now

\* A juror still silent when the window has strictly closed.
NoShow(seat, rulings, now) ==
    /\ ~Counts(seat, rulings, now)
    /\ now > seat.seated + JurorResponse

Seat(draw, n, at) == [juror |-> draw[n], seated |-> at]

\* The candidates before the n-th who did not show, `when' each is seated.
Missed(draw, rulings, now, when, n) ==
    {m \in 1 .. n - 1 : \E at \in when[m] : NoShow(Seat(draw, m, at), rulings, now)}

\* The k-th of a set of positions, if there are as many.
Nth(S, k) == {m \in S : Cardinality({x \in S : x <= m}) = k}

\* resolve_panel: the first PanelSize candidates are seated when the case opens;
\* pass after pass, in seat order, each no-show's seat goes to the next
\* candidate in line as of the deadline it missed, until nothing changes.  Every
\* pass redraws seats of one generation, and their holders sit in draw order, so
\* the n-th candidate beyond the panel replaces the n-th no-show of the draw.
\* When each candidate is seated: a set of at most one instant.
Seating(draw, rulings, opened, now) ==
    LET when[n \in 0 .. Len(draw)] ==
            IF n <= PanelSize THEN {opened}
            ELSE {at + JurorResponse : at \in UNION {when[m] :
                     m \in Nth(Missed(draw, rulings, now, when, n), n - PanelSize)}}
    IN  when

\* Whoever is seated and has ruled, or still may.
ResolvePanel(draw, rulings, opened, now) ==
    LET when == Seating(draw, rulings, opened, now)
    IN  UNION {{s \in {Seat(draw, n, at) : at \in when[n]} : ~NoShow(s, rulings, now)}
                : n \in 1 .. Len(draw)}

Concurring(panel, rulings, now, uphold) ==
    {s \in panel : Counts(s, rulings, now) /\ rulings[s.juror].uphold = uphold}

\* tally
Tally(panel, rulings, now) ==
    IF Cardinality(Concurring(panel, rulings, now, TRUE)) >= Majority
    THEN "upheld"
    ELSE IF Cardinality(Concurring(panel, rulings, now, FALSE)) >= Majority
         THEN "rejected"
         ELSE "none"

\* The instant of the latest concurring ruling, needed or not.
RulingLastAt(panel, rulings, now) ==
    LET agreed == Concurring(panel, rulings, now, Tally(panel, rulings, now) = "upheld")
        at(s)  == rulings[s.juror].at
    IN  CHOOSE t \in {at(s) : s \in agreed} : \A s \in agreed : at(s) <= t

\* ruling_reached_at: the instant the majority's last needed ruling was
\* admitted, however many concurred later.
RulingReachedAt(panel, rulings, now) ==
    LET agreed == Concurring(panel, rulings, now, Tally(panel, rulings, now) = "upheld")
        at(s)  == rulings[s.juror].at
    IN  CHOOSE t \in {at(s) : s \in agreed} :
            /\ Cardinality({s \in agreed : at(s) < t}) <= PanelSize \div 2
            /\ Cardinality({s \in agreed : at(s) <= t}) > PanelSize \div 2

\* Who may rule now: a seated juror whose ruling is still awaited.
HoldsLiveSeat(j, panel, rulings, now) ==
    \E s \in panel : s.juror = j /\ ~Counts(s, rulings, now)
=============================================================================
