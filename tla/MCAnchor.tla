------------------------------ MODULE MCAnchor ------------------------------
(***************************************************************************)
(* A small instance of Reputation: the founders r1 and r2 vouched for a,   *)
(* and a, between the two, for b.  b may vouch for m, the founder r3 for   *)
(* a, and r1 and r2 may be revoked.  x is whom they all traded with.       *)
(***************************************************************************)
EXTENDS Reputation

CONSTANTS r1, r2, r3, a, b, m, x

Sale(to) == [from |-> x, to |-> to, staked |-> FALSE]
MCTrades == <<Sale(r1), Sale(r2), Sale(r3), Sale(a), Sale(b)>>

Enrolls(who, basis) == [kind |-> "enroll", who |-> who, basis |-> basis]
Vouches(who, of) == [kind |-> "vouch", who |-> who, of |-> of, at |-> 1]
Traded(t) == <<[kind |-> "confirm", trade |-> t], [kind |-> "settle", trade |-> t, at |-> 1]>>
MCStartLogs ==
    {<<Enrolls(r1, "founder"), Enrolls(r2, "founder"), Enrolls(r3, "founder"),
       Enrolls(a, "pairing"), Enrolls(b, "pairing"), Enrolls(m, "pairing"), Enrolls(x, "pairing")>>
       \o Traded(1) \o Traded(2) \o Traded(3) \o Traded(4) \o Traded(5)
       \o <<Vouches(r1, a), Vouches(a, b), Vouches(r2, a)>>}

AnchorBounds ==
    repLog' # repLog =>
        LET new == Last(repLog')
        IN  \/ new.kind = "vouch" /\ <<new.who, new.of>> \in {<<b, m>>, <<r3, a>>}
            \/ new.kind = "revoke" /\ new.who \in {r1, r2}

AnchorSpec == ReputationInit /\ [][ReputationNext /\ AnchorBounds]_reputationVars
=============================================================================
