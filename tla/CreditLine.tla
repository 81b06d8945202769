----------------------------- MODULE CreditLine -----------------------------
(***************************************************************************)
(* What the ledger promises about credit, without saying how: each party   *)
(* has a position (settled balance less everything signed for), a step may *)
(* raise anybody's, and may lower one only as far as the floor that party  *)
(* is held to.  Ledger implements this specification.                      *)
(***************************************************************************)
EXTENDS Integers

CONSTANTS Parties, Station, DebtFloor

VARIABLES position, enrolled, known

vars == <<position, enrolled, known>>

StrangerFloor == IF DebtFloor >= 0 THEN DebtFloor ELSE 0

FloorOf(m) == IF m = Station \/ m \in enrolled THEN DebtFloor ELSE StrangerFloor

Init ==
    /\ position = [m \in Parties |-> 0]
    /\ enrolled = {}
    /\ known = {}

\* Spend, reserve, release, settle, charge: all at once for all parties.
Move ==
    /\ position' \in [Parties -> Int]
    /\ \A m \in Parties :
         position'[m] >= position[m] \/ position'[m] >= FloorOf(m)
    /\ UNCHANGED <<enrolled, known>>

Enroll(m) ==
    /\ enrolled' = enrolled \cup {m}
    /\ known' = known \cup {m}
    /\ UNCHANGED position

Revoke(m) ==
    /\ enrolled' = enrolled \ {m}
    /\ UNCHANGED <<position, known>>

Next == Move \/ \E m \in Parties : Enroll(m) \/ Revoke(m)

Spec == Init /\ [][Next]_vars
=============================================================================
