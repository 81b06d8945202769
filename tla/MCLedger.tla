------------------------------ MODULE MCLedger ------------------------------
(***************************************************************************)
(* Small instances of Ledger.  Anna may be enrolled; Bo starts as a        *)
(* stranger; the station is always enrolled.                               *)
(***************************************************************************)
EXTENDS Ledger

CONSTANTS Anna, Bo

Pay(s, r, amount, n, from, until, cert) ==
    [sender |-> s, receiver |-> r, amount |-> amount, optUp |-> 1, nonce |-> n,
     proposedAt |-> from, expiresAt |-> until, cert |-> cert]

Ask(m, cap, n) == [member |-> m, cap |-> cap, nonce |-> n, requestedAt |-> 0]

MCParties == {Anna, Bo}

MCDebtFloor == -2

MCWindow == <<1, 2>>

(* Credit: spends, payment requests, charges, no certificates.             *)

\* Two spends Anna signed under one nonce, a payment request Bo
\* makes of her and a spend of Bo's.
CreditOffers ==
    {Pay(Anna, Bo, 3, 0, 0, 1, NoCert),
     Pay(Anna, Bo, 1, 0, 0, 0, NoCert),
     Pay(Bo, Anna, -1, 0, 0, 1, NoCert),
     Pay(Bo, Anna, 1, 1, 0, 2, NoCert)}

\* Anna pays both: one as a buyer, one as a provider who ended a contract.
CreditCharges ==
    {[contract |-> 1, period |-> 0, buyer |-> Anna, provider |-> Bo, amount |-> 2],
     [contract |-> 2, period |-> 9, buyer |-> Bo, provider |-> Anna, amount |-> -1]}

(* Escrow: certificates, spends on them and beyond them.                   *)

EscrowDebtFloor == -3

\* A certificate for all of Anna's credit, and a small one to ask for later.
EscrowRequests == {Ask(Anna, 3, 0), Ask(Anna, 1, 2)}

\* An ordinary spend that competes with the first request; two spends that
\* fill the evidence limit of the certificate; one as large as the cap that the
\* first leaves no allowance for; one more that the limit refuses, or one the
\* allowance refuses; and a last one.
EscrowOffers ==
    {Pay(Anna, Bo, 1, 0, 0, 1, NoCert),
     Pay(Anna, Bo, 1, 1, 0, 1, Ask(Anna, 3, 0)),
     Pay(Anna, Bo, 1, 2, 0, 2, Ask(Anna, 3, 0)),
     Pay(Anna, Bo, 3, 2, 0, 2, Ask(Anna, 3, 0)),
     Pay(Anna, Bo, 1, 3, 0, 2, Ask(Anna, 3, 0)),
     Pay(Anna, Bo, 2, 3, 0, 2, Ask(Anna, 3, 0)),
     Pay(Anna, Bo, 1, 4, 0, 2, Ask(Anna, 3, 0))}

EscrowCharges ==
    {[contract |-> 1, period |-> 0, buyer |-> Anna, provider |-> Bo, amount |-> 2]}

(* Clock: a spend, and a second one that needs the headroom the first        *)
(* releases when it expires.                                               *)

ClockOffers ==
    {Pay(Anna, Bo, 2, 0, 0, 0, NoCert),
     Pay(Anna, Bo, 1, 1, 0, 2, NoCert)}

ClockCharges ==
    {[contract |-> 1, period |-> 0, buyer |-> Bo, provider |-> Anna, amount |-> 1]}

NoRecords == {}

\* The admission clock of the log's tail matters only after the raw clock has
\* stepped back: with MaxBackSteps = 0 the next admission time is `now`.
MonotoneView ==
    <<now, txs, certs, nonce, balance, charged, enrolled, known, equivs,
      verdict, doubled, sweep>>
=============================================================================
