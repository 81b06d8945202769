----------------------------- MODULE MCStanding -----------------------------
(***************************************************************************)
(* A small instance of Reputation: the founders p1 and p4, in good         *)
(* standing; p2, who has the evidence but no anchor; p3, with evidence an  *)
(* anchor would release; and p5, whom the others traded with.  The charter *)
(* was published before the trades, or has yet to be.                      *)
(***************************************************************************)
EXTENDS Reputation

CONSTANTS p1, p2, p3, p4, p5

Sale(from, to, staked) == [from |-> from, to |-> to, staked |-> staked]
MCTrades ==
    <<Sale(p5, p1, FALSE), Sale(p3, p2, FALSE), Sale(p5, p4, FALSE), Sale(p5, p2, TRUE)>>

Enrolls(m, basis) == [kind |-> "enroll", who |-> m, basis |-> basis]
Traded(t) == <<[kind |-> "confirm", trade |-> t], [kind |-> "settle", trade |-> t, at |-> 1]>>
AfterTrades(basis) ==
    <<Enrolls(p1, basis), Enrolls(p4, basis), Enrolls(p2, "pairing"), Enrolls(p3, "pairing"),
      Enrolls(p5, "pairing")>>
      \o Traded(1) \o Traded(2) \o Traded(3)

MCStartLogs == {AfterTrades("founder"), AfterTrades("pairing")}

\* p1 or p2 may be revoked; vouches are for the two without an anchor, as of now, and
\* those of p1 may be dated ahead.  p4 vouches for p2 only, p5 for nobody.
\* A behaviour begins with a vouch, or where the charter is yet to come with it or a trade.
StandingBounds ==
    repLog' # repLog =>
        LET new == Last(repLog')
        IN  /\ repLog = AfterTrades("founder") => new.kind = "vouch"
            /\ repLog = AfterTrades("pairing") => new.kind \in {"enroll", "confirm"}
            /\ new.kind = "revoke" => new.who \in {p1, p2}
            /\ new.kind = "vouch" => /\ new.of \in {p2, p3} /\ new.who # p5
                                     /\ IF new.who = p1 THEN new.at >= week ELSE new.at = week
                                     /\ new.who = p4 => new.of = p2

StandingSpec == ReputationInit /\ [][ReputationNext /\ StandingBounds]_reputationVars
=============================================================================
