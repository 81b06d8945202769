------------------------------- MODULE Ledger -------------------------------
(***************************************************************************)
(* The community station's mutual-credit ledger: rrn-ledger's Engine,      *)
(* Settler and credit floor, and the station core's contract-charge sweep. *)
(*                                                                         *)
(* The code derives a LedgerSnapshot from its append-only log before every *)
(* operation.  Here the snapshot is the state: an operation is one action  *)
(* whose guard is the operation's checks in their order and whose effect   *)
(* is what replaying the records it appends does to the snapshot.          *)
(* A refused operation writes nothing, so it is no action, except the one  *)
(* refusal that does write: an overspent certificate.                      *)
(*                                                                         *)
(* Signatures are assumed to verify: Offers are the proposals some sender  *)
(* really signed and Requests the certificate requests some member signed. *)
(* Any of them may be submitted at any time, any number of times: the      *)
(* carriers (console, phone channel, bundles, paper) give no guarantee.    *)
(***************************************************************************)
EXTENDS Integers, Sequences, FiniteSets, FiniteSetsExt, Sums

CONSTANTS
    Parties,            \* addresses that can hold a balance
    Station,            \* the station's own address
    Offers,             \* signed proposals in circulation
    Requests,           \* signed certificate requests in circulation
    Charges,            \* contract charges that fall due (contract_ref, period)
    NoCert,             \* "no cert_id" of an ordinary proposal
    DebtFloor,          \* CreditConfig.debt_floor_centi
    Tier2Floor,         \* amount at which tier 2 begins
    Tier3Floor,         \* amount at which tier 3 begins
    Window,             \* settlement window of tiers 1 and 2
    Skew,               \* CLOCK_SKEW_TOLERANCE_SECS
    CertValidity,       \* CreditConfig.cert_validity_seconds
    CertGrace,          \* CreditConfig.cert_delivery_grace_seconds
    CertMaxCap,         \* CreditConfig.cert_max_cap_centi
    CertMaxOutstanding, \* CreditConfig.cert_max_outstanding
    MaxEvidence,        \* MAX_EVIDENCE_ITEMS
    MaxTime,            \* bound of the model: the last instant of the clock
    MaxBackSteps        \* bound of the model: times the clock may step back

VARIABLES
    now,        \* the station's raw clock reading
    backSteps,  \* how often the clock has stepped back
    tailAt,     \* created_at of the log's tail (the admission clock)
    txs,        \* transactions in admission order
    certs,      \* headroom certificates in issuing order
    nonce,      \* next expected nonce of each party
    balance,    \* settled balance of each party
    charged,    \* contract charges appended, in order
    enrolled,   \* members whose last enrollment event is an enroll
    known,      \* members with any enrollment event at all
    equivs,     \* requests of certificates with a recorded equivocation
    verdict,    \* the jury's terminal ruling on each of them, if any
    doubled,    \* certificates on which an overspend was refused after a spend
    sweep       \* the running contract-charge sweep

vars == <<now, backSteps, tailAt, txs, certs, nonce, balance, charged,
          enrolled, known, equivs, verdict, doubled, sweep>>

Stages == {"Proposed", "Confirmed", "Disputed", "Settled", "Cancelled"}

Decisions == {"Confirm", "Overturn"}

ASSUME ClockAssumption ==
    /\ Skew \in Nat
    /\ MaxTime \in Nat
    /\ MaxBackSteps \in Nat
    /\ Window \in [1..2 -> Nat]

ASSUME CreditAssumption ==
    /\ DebtFloor \in Int
    /\ Tier2Floor \in Nat
    /\ Tier3Floor \in Nat
    /\ CertValidity \in Nat
    /\ CertGrace \in Nat
    /\ CertMaxCap \in Nat
    /\ CertMaxOutstanding \in Nat
    /\ MaxEvidence \in Nat

RequestType ==
    [member: Parties, cap: Int, nonce: Nat, requestedAt: Nat]

OfferType ==
    [sender: Parties, receiver: Parties, amount: Int, optUp: 1..2, nonce: Nat,
     proposedAt: Nat, expiresAt: Nat, cert: Requests \cup {NoCert}]

ChargeType ==
    [contract: Nat, period: Nat, buyer: Parties, provider: Parties, amount: Int]

ASSUME RecordAssumption ==
    /\ Requests \subseteq RequestType
    /\ Offers \subseteq OfferType
    /\ Charges \subseteq ChargeType
    /\ NoCert \notin Requests

-----------------------------------------------------------------------------
(* Reading the snapshot.                                                   *)

\* tier_floor and effective_tier: the amount's own tier, or a higher opt-up.
EffectiveTier(o) ==
    LET magnitude == Larger(o.amount, -o.amount)
        tierFloor == IF magnitude < Tier2Floor THEN 1
                     ELSE IF magnitude < Tier3Floor THEN 2 ELSE 3
    IN  Larger(tierFloor, o.optUp)

\* SettlementConfig::window_for.
WindowFor(tier) == Window[IF tier <= 1 THEN 1 ELSE 2]

\* spend_admissible_until: the one instant at which a certificate stops
\* backing spends and stops reserving headroom.
SpendAdmissibleUntil(c) == c.expiresAt + CertGrace + Skew

\* outstanding_certs_of filtered by live_certs_of, one certificate at a time.
Live(c, at) == c.status = "Outstanding" /\ at <= SpendAdmissibleUntil(c)

LiveCertsOf(m, at) ==
    {i \in DOMAIN certs : certs[i].req.member = m /\ Live(certs[i], at)}

\* committed_debits_centi's match: what one transaction still commits m to.
TxDebit(t, m, at) ==
    LET o == t.offer
        binding == \/ t.stage = "Proposed" /\ at <= o.expiresAt + Skew
                   \/ t.stage \in {"Confirmed", "Disputed"}
    IN  IF binding /\ o.amount > 0 /\ o.sender = m
        THEN o.amount
        ELSE IF t.stage \in {"Confirmed", "Disputed"} /\ o.amount < 0
                /\ o.receiver = m
             THEN -o.amount
             ELSE 0

\* Slip: the reservation lapses at the certificate's expiry, while spends are
\* admitted until the escrow boundary.
CertReserveUntilExpiry(c, m, at) ==
    IF c.req.member = m /\ c.status = "Outstanding" /\ at <= c.expiresAt
    THEN Larger(c.req.cap - c.consumed, 0)
    ELSE 0

\* ... and what one certificate still reserves of m's headroom.
CertReserve(c, m, at) ==
    IF c.req.member = m /\ Live(c, at) THEN Larger(c.req.cap - c.consumed, 0)
    ELSE 0

\* committed_debits_centi: pending transactions, then live certificates.
TxCommitted(ts, m, at) ==
    SumTo([i \in 1..Len(ts) |-> TxDebit(ts[i], m, at)], Len(ts))

CertCommitted(cs, m, at) ==
    SumTo([i \in 1..Len(cs) |-> CertReserve(cs[i], m, at)], Len(cs))

CommittedDebits(m, at) ==
    TxCommitted(txs, m, at) + CertCommitted(certs, m, at)

\* The station is enrolled at every position; a member by its last event.
IsEnrolled(m) == m = Station \/ m \in enrolled

\* The floor check_floor holds m to.
FloorOf(m) == IF IsEnrolled(m) THEN DebtFloor ELSE Larger(0, DebtFloor)

\* check_floor at time `at`, reading m's settled balance from bal.
CheckFloor(bal, m, debit, at) ==
    bal[m] - CommittedDebits(m, at) - debit >= FloorOf(m)

\* cert_backed_spends: admitted in whatever state they are now.
CertBackedSpends(r) == {i \in DOMAIN txs : txs[i].offer.cert = r}

\* has_active_equivocation.
HasActiveEquivocation(m) ==
    \E r \in equivs : r.member = m /\ verdict[r] # "Overturn"

\* AppendLog::append stamps an entry max(now, tail.created_at), where `at` is
\* the clock reading the operation began with.
AdmissionTime(at) == Larger(at, tailAt)

Idle == ~sweep.on
-----------------------------------------------------------------------------
(* Proposals.                                                              *)

\* The checks every proposal meets, whoever pays and however.
FrontDoor(o) ==
    /\ o.sender # o.receiver
    /\ o.proposedAt <= o.expiresAt
    /\ o.proposedAt <= now + Skew
    /\ now <= o.expiresAt + Skew
    /\ EffectiveTier(o) <= 2
    /\ \A i \in DOMAIN txs : txs[i].offer # o
    /\ o.nonce = nonce[o.sender]

AdmitProposal(o) ==
    /\ txs' = Append(txs, [offer |-> o, stage |-> "Proposed", admittedAt |-> 0])
    /\ nonce' = [nonce EXCEPT ![o.sender] = @ + 1]
    /\ tailAt' = AdmissionTime(now)

\* submit_proposal without a certificate: a spend is checked against the
\* sender's floor; a payment request debits nobody yet.
SubmitProposal(o) ==
    /\ Idle
    /\ FrontDoor(o)
    /\ o.cert = NoCert
    /\ o.amount > 0 => CheckFloor(balance, o.sender, o.amount, now)
    /\ AdmitProposal(o)
    /\ UNCHANGED <<now, backSteps, certs, balance, charged, enrolled, known,
                   equivs, verdict, doubled, sweep>>

\* check_cert_backed up to the boundary: positive, known, outstanding and the
\* spender's own.
CertOfSpender(o, i) ==
    /\ o.amount > 0
    /\ o.cert = certs[i].req
    /\ certs[i].status = "Outstanding"
    /\ certs[i].req.member = o.sender

\* ... and up to the allowance: not past the escrow boundary.
CertUsable(o, i) ==
    /\ CertOfSpender(o, i)
    /\ now <= SpendAdmissibleUntil(certs[i])

Overspends(o, i) == o.amount > certs[i].req.cap - certs[i].consumed

\* Slip: the allowance is compared with the cap, not with what is left of it.
SubmitCertBackedWithinCap(o, i) ==
    /\ Idle
    /\ FrontDoor(o)
    /\ CertUsable(o, i)
    /\ o.amount <= certs[i].req.cap
    /\ Cardinality(CertBackedSpends(o.cert)) < MaxEvidence - 1
    /\ certs' = [certs EXCEPT ![i].consumed = @ + o.amount]
    /\ AdmitProposal(o)
    /\ UNCHANGED <<now, backSteps, balance, charged, enrolled, known, equivs,
                   verdict, doubled, sweep>>

\* Slip: no place is kept in the evidence for the refused spend.
SubmitCertBackedOneMore(o, i) ==
    /\ Idle
    /\ FrontDoor(o)
    /\ CertUsable(o, i)
    /\ ~Overspends(o, i)
    /\ Cardinality(CertBackedSpends(o.cert)) < MaxEvidence
    /\ certs' = [certs EXCEPT ![i].consumed = @ + o.amount]
    /\ AdmitProposal(o)
    /\ UNCHANGED <<now, backSteps, balance, charged, enrolled, known, equivs,
                   verdict, doubled, sweep>>

\* submit_proposal against certificate i: no floor check, the headroom was
\* reserved when the certificate was issued.
SubmitCertBacked(o, i) ==
    /\ Idle
    /\ FrontDoor(o)
    /\ CertUsable(o, i)
    /\ ~Overspends(o, i)
    /\ Cardinality(CertBackedSpends(o.cert)) < MaxEvidence - 1
    /\ certs' = [certs EXCEPT ![i].consumed = @ + o.amount]
    /\ AdmitProposal(o)
    /\ UNCHANGED <<now, backSteps, balance, charged, enrolled, known, equivs,
                   verdict, doubled, sweep>>

\* Slip: the receiver of a payment request is debited without a floor check.
SubmitConfirmationUnchecked(i) ==
    /\ Idle
    /\ txs[i].stage = "Proposed"
    /\ now <= txs[i].offer.expiresAt + Skew
    /\ txs[i].offer.proposedAt - Skew <= now + Skew
    /\ txs' = [txs EXCEPT ![i] = [offer |-> @.offer, stage |-> "Confirmed",
                                  admittedAt |-> AdmissionTime(now)]]
    /\ tailAt' = AdmissionTime(now)
    /\ UNCHANGED <<now, backSteps, certs, nonce, balance, charged, enrolled,
                   known, equivs, verdict, doubled, sweep>>

\* submit_confirmation.  The claimed confirmed_at is not kept; some claim
\* passes its two plausibility bounds exactly when the fourth conjunct holds.
SubmitConfirmation(i) ==
    /\ Idle
    /\ txs[i].stage = "Proposed"
    /\ now <= txs[i].offer.expiresAt + Skew
    /\ txs[i].offer.proposedAt - Skew <= now + Skew
    /\ txs[i].offer.amount < 0 =>
         CheckFloor(balance, txs[i].offer.receiver, -txs[i].offer.amount, now)
    /\ txs' = [txs EXCEPT ![i] = [offer |-> @.offer, stage |-> "Confirmed",
                                  admittedAt |-> AdmissionTime(now)]]
    /\ tailAt' = AdmissionTime(now)
    /\ UNCHANGED <<now, backSteps, certs, nonce, balance, charged, enrolled,
                   known, equivs, verdict, doubled, sweep>>

\* A station-signed record moves transaction i on to a stage.
MoveTo(i, stage) ==
    /\ txs' = [txs EXCEPT ![i].stage = stage]
    /\ tailAt' = AdmissionTime(now)

\* cancel_proposal: withdrawn, rejected or expired, never once confirmed.
CancelProposal(i) ==
    /\ Idle
    /\ txs[i].stage = "Proposed"
    /\ MoveTo(i, "Cancelled")
    /\ UNCHANGED <<now, backSteps, certs, nonce, balance, charged, enrolled,
                   known, equivs, verdict, doubled, sweep>>
-----------------------------------------------------------------------------
(* Disputes and settlement.                                                *)

WindowEnd(t) == t.admittedAt + WindowFor(EffectiveTier(t.offer))

\* raise_dispute: a party contests a confirmed transfer inside its window.
RaiseDispute(i) ==
    /\ Idle
    /\ txs[i].stage = "Confirmed"
    /\ now <= WindowEnd(txs[i]) + Skew
    /\ MoveTo(i, "Disputed")
    /\ UNCHANGED <<now, backSteps, certs, nonce, balance, charged, enrolled,
                   known, equivs, verdict, doubled, sweep>>

\* uphold_dispute: the frozen transfer is voided, nothing to reverse.
UpholdDispute(i) ==
    /\ Idle
    /\ txs[i].stage = "Disputed"
    /\ MoveTo(i, "Cancelled")
    /\ UNCHANGED <<now, backSteps, certs, nonce, balance, charged, enrolled,
                   known, equivs, verdict, doubled, sweep>>

\* move_balance: debtor pays creditor (a negative amount is paid back).
MoveBalance(debtor, creditor, amount) ==
    LET debited == [balance EXCEPT ![debtor] = @ - amount]
    IN  [debited EXCEPT ![creditor] = @ + amount]

\* Settler::settle on a confirmed or disputed transaction.
Settle(i) ==
    /\ MoveTo(i, "Settled")
    /\ balance' = MoveBalance(txs[i].offer.sender, txs[i].offer.receiver,
                              txs[i].offer.amount)
    /\ UNCHANGED <<now, backSteps, certs, nonce, charged, enrolled, known,
                   equivs, verdict, doubled, sweep>>

\* Slip: the sweep looks at tier 1 only.
EligibleTier1(i) ==
    /\ txs[i].stage = "Confirmed" /\ WindowEnd(txs[i]) <= now
    /\ EffectiveTier(txs[i].offer) = 1

\* find_eligible.
Eligible(i) == txs[i].stage = "Confirmed" /\ WindowEnd(txs[i]) <= now

\* The settlement sweep settles each eligible transaction.
SweepSettle(i) == Idle /\ Eligible(i) /\ Settle(i)

\* A rejected or lapsed dispute settles the transfer as confirmed.
RejectDispute(i) == Idle /\ txs[i].stage = "Disputed" /\ Settle(i)
-----------------------------------------------------------------------------
(* Headroom certificates.                                                  *)

\* submit_certificate_request's checks, in order.
RequestAdmissible(r) ==
    /\ r.cap > 0 /\ r.cap <= CertMaxCap
    /\ r.nonce = nonce[r.member]
    /\ r.requestedAt <= now + Skew
    /\ ~HasActiveEquivocation(r.member)
    /\ Cardinality(LiveCertsOf(r.member, now)) < CertMaxOutstanding
    /\ CheckFloor(balance, r.member, r.cap, now)

\* Slip: a request does not use up its nonce.
AdmitRequestKeepNonce(r) ==
    /\ tailAt' = AdmissionTime(now)
    /\ UNCHANGED nonce

AdmitRequest(r) ==
    /\ nonce' = [nonce EXCEPT ![r.member] = @ + 1]
    /\ tailAt' = AdmissionTime(now)

\* The request and then the certificate are appended.
IssueCertificate(r) ==
    /\ Idle
    /\ RequestAdmissible(r)
    /\ AdmitRequest(r)
    /\ certs' = Append(certs, [req |-> r, expiresAt |-> now + CertValidity,
                               status |-> "Outstanding", consumed |-> 0])
    /\ UNCHANGED <<now, backSteps, txs, balance, charged, enrolled, known,
                   equivs, verdict, doubled, sweep>>

\* The two appends are not atomic: the station may stop after the first.
RequestWithoutCertificate(r) ==
    /\ Idle
    /\ RequestAdmissible(r)
    /\ AdmitRequest(r)
    /\ UNCHANGED <<now, backSteps, txs, certs, balance, charged, enrolled,
                   known, equivs, verdict, doubled, sweep>>

\* submit_certificate_return.
ReturnCertificate(i) ==
    /\ Idle
    /\ certs[i].status = "Outstanding"
    /\ certs' = [certs EXCEPT ![i].status = "Returned"]
    /\ tailAt' = AdmissionTime(now)
    /\ UNCHANGED <<now, backSteps, txs, nonce, balance, charged, enrolled,
                   known, equivs, verdict, doubled, sweep>>

AmountOf(i) == txs[i].offer.amount

AmountSum(S) ==
    SumTo([i \in 1..Len(txs) |-> IF i \in S THEN AmountOf(i) ELSE 0], Len(txs))

\* record_cert_overspend_equivocation's greedy proof: the largest admitted
\* spends, one at a time until they and the refused spend exceed the cap, one
\* of the MaxEvidence places kept for the refused spend.
EvidenceChoices(o, i) ==
    LET spends == CertBackedSpends(o.cert)
        proves(E) == AmountSum(E) + o.amount > certs[i].req.cap
        largest == {E \in SUBSET spends :
                      /\ Cardinality(E) < Larger(MaxEvidence, 1)
                      /\ \A x \in E, y \in spends \ E : AmountOf(x) >= AmountOf(y)}
        stops(E) == E # {} /\ proves(E)
    IN  {E \in largest :
           /\ \A D \in largest : stops(D) => Cardinality(E) <= Cardinality(D)
           /\ stops(E) \/ \A D \in largest : Cardinality(D) <= Cardinality(E)}

\* verify_evidence / verify_cert_overspend of the spends E and the refused o.
VerifyEvidence(E, o, i) ==
    /\ Cardinality(E) + 1 <= MaxEvidence
    /\ Cardinality(E) + 1 >= 2
    /\ \A x \in E : txs[x].offer.sender = o.sender /\ AmountOf(x) > 0
    /\ AmountSum(E) + o.amount > certs[i].req.cap

\* The refusal that writes: a spend past the certificate's boundary or its
\* allowance.  One record per certificate, and only a record that proves the
\* overspend: a late spend within the cap leaves none.
RefuseOverspend(o, i) ==
    /\ Idle
    /\ FrontDoor(o)
    /\ CertOfSpender(o, i)
    /\ now > SpendAdmissibleUntil(certs[i]) \/ Overspends(o, i)
    /\ doubled' = IF CertBackedSpends(o.cert) # {} /\ Overspends(o, i)
                  THEN doubled \cup {o.cert}
                  ELSE doubled
    /\ \E E \in EvidenceChoices(o, i) :
         IF o.cert \notin equivs /\ VerifyEvidence(E, o, i)
         THEN equivs' = equivs \cup {o.cert} /\ tailAt' = AdmissionTime(now)
         ELSE UNCHANGED <<equivs, tailAt>>
    /\ UNCHANGED <<now, backSteps, txs, certs, nonce, balance, charged,
                   enrolled, known, verdict, sweep>>

\* apply_equivocation_verdict: the first station-signed ruling stands, and only
\* an Overturn lifts the bar on new certificates.
RuleEquivocation(r, decision) ==
    /\ Idle
    /\ r \in equivs /\ verdict[r] = "none"
    /\ verdict' = [verdict EXCEPT ![r] = decision]
    /\ tailAt' = AdmissionTime(now)
    /\ UNCHANGED <<now, backSteps, txs, certs, nonce, balance, charged,
                   enrolled, known, equivs, doubled, sweep>>
-----------------------------------------------------------------------------
(* Contract charges.  A sweep reads the clock and derives the ledger once,  *)
(* and folds the charges it appends into `moved`; every charge is checked   *)
(* against the three.  The core thread serves nothing else meanwhile.      *)

NothingMoved == [m \in Parties |-> 0]

NoSweep ==
    [on |-> FALSE, at |-> 0, snap |-> NothingMoved, moved |-> NothingMoved]

BeginChargeSweep ==
    /\ Idle
    /\ sweep' = [on |-> TRUE, at |-> now, snap |-> balance,
                 moved |-> NothingMoved]
    /\ UNCHANGED <<now, backSteps, tailAt, txs, certs, nonce, balance, charged,
                   enrolled, known, equivs, verdict, doubled>>

\* charge_fits: who pays a charge, and whether it stays above their floor.
Debtor(c) == IF c.amount >= 0 THEN c.buyer ELSE c.provider

\* Slip: a charge is checked without the sweep's earlier charges.
ChargeFitsStale(c) ==
    CheckFloor(sweep.snap, Debtor(c), Larger(c.amount, -c.amount), sweep.at)

ChargeFits(c) ==
    CheckFloor(sweep.snap, Debtor(c),
               Larger(c.amount, -c.amount) - sweep.moved[Debtor(c)], sweep.at)

\* SweepFloor::record.
RecordMoved(c) ==
    LET debited == [sweep.moved EXCEPT ![c.buyer] = @ - c.amount]
    IN  [sweep EXCEPT !.moved = [debited EXCEPT ![c.provider] = @ + c.amount]]

\* One charge of the running sweep: due, not charged before, and it fits.
ChargeContract(c) ==
    /\ sweep.on
    /\ \A i \in DOMAIN charged : charged[i] # c
    /\ ChargeFits(c)
    /\ charged' = Append(charged, c)
    /\ balance' = MoveBalance(c.buyer, c.provider, c.amount)
    /\ sweep' = RecordMoved(c)
    /\ tailAt' = AdmissionTime(sweep.at)
    /\ UNCHANGED <<now, backSteps, txs, certs, nonce, enrolled, known, equivs,
                   verdict, doubled>>

\* The sweep ends, or the station stops inside it: what it read is dropped.
EndChargeSweep ==
    /\ sweep.on
    /\ sweep' = NoSweep
    /\ UNCHANGED <<now, backSteps, tailAt, txs, certs, nonce, balance, charged,
                   enrolled, known, equivs, verdict, doubled>>
-----------------------------------------------------------------------------
(* Enrollment and the clock.                                               *)

Enroll(m) ==
    /\ Idle
    /\ m # Station /\ m \notin enrolled
    /\ enrolled' = enrolled \cup {m}
    /\ known' = known \cup {m}
    /\ tailAt' = AdmissionTime(now)
    /\ UNCHANGED <<now, backSteps, txs, certs, nonce, balance, charged, equivs,
                   verdict, doubled, sweep>>

\* m_enroll_revoke: from here on the member's floor is the stranger's.
EnrollRevoke(m) ==
    /\ Idle
    /\ m \in enrolled
    /\ enrolled' = enrolled \ {m}
    /\ tailAt' = AdmissionTime(now)
    /\ UNCHANGED <<now, backSteps, txs, certs, nonce, balance, charged, known,
                   equivs, verdict, doubled, sweep>>

\* Clock::system reads the host's wall clock: it runs on, and the host may
\* set it back.
Tick ==
    /\ now < MaxTime
    /\ now' = now + 1
    /\ UNCHANGED <<backSteps, tailAt, txs, certs, nonce, balance, charged,
                   enrolled, known, equivs, verdict, doubled, sweep>>

StepBack ==
    /\ backSteps < MaxBackSteps
    /\ \E t \in 0..MaxTime : t < now /\ now' = t
    /\ backSteps' = backSteps + 1
    /\ UNCHANGED <<tailAt, txs, certs, nonce, balance, charged, enrolled,
                   known, equivs, verdict, doubled, sweep>>
-----------------------------------------------------------------------------
Init ==
    /\ now = 0 /\ backSteps = 0 /\ tailAt = 0
    /\ txs = <<>> /\ certs = <<>> /\ charged = <<>>
    /\ nonce = [m \in Parties |-> 0]
    /\ balance = [m \in Parties |-> 0]
    /\ enrolled = {} /\ known = {}
    /\ equivs = {} /\ doubled = {}
    /\ verdict = [r \in Requests |-> "none"]
    /\ sweep = NoSweep

TxStep ==
    \E i \in DOMAIN txs :
        \/ SubmitConfirmation(i)
        \/ CancelProposal(i)
        \/ RaiseDispute(i)
        \/ UpholdDispute(i)
        \/ RejectDispute(i)
        \/ SweepSettle(i)

CertStep ==
    \/ \E r \in Requests :
         \/ IssueCertificate(r)
         \/ RequestWithoutCertificate(r)
         \/ \E d \in Decisions : RuleEquivocation(r, d)
    \/ \E i \in DOMAIN certs :
         \/ ReturnCertificate(i)
         \/ \E o \in Offers : SubmitCertBacked(o, i) \/ RefuseOverspend(o, i)

Next ==
    \/ \E o \in Offers : SubmitProposal(o)
    \/ TxStep
    \/ CertStep
    \/ BeginChargeSweep
    \/ \E c \in Charges : ChargeContract(c)
    \/ EndChargeSweep
    \/ \E m \in Parties : Enroll(m) \/ EnrollRevoke(m)
    \/ Tick
    \/ StepBack

Spec == Init /\ [][Next]_vars

\* The clock runs on, a sweep that began ends, and the settlement timer's
\* sweep keeps getting its turn on the core thread, between other commands.
FairSpec ==
    /\ Spec
    /\ WF_vars(Tick)
    /\ WF_vars(EndChargeSweep)
    /\ SF_vars(\E i \in DOMAIN txs : SweepSettle(i))
-----------------------------------------------------------------------------
(* Properties.                                                             *)

TxType == [offer: Offers, stage: Stages, admittedAt: Nat]

CertType ==
    [req: Requests, expiresAt: Nat, status: {"Outstanding", "Returned"}, consumed: Int]

SweepType ==
    [on: BOOLEAN, at: 0..MaxTime, snap: [Parties -> Int], moved: [Parties -> Int]]

\* Every variable has its type.
TypeOK ==
    /\ now \in 0..MaxTime /\ backSteps \in 0..MaxBackSteps /\ tailAt \in Nat
    /\ txs \in Seq(TxType)
    /\ certs \in Seq(CertType)
    /\ charged \in Seq(Charges)
    /\ nonce \in [Parties -> Nat]
    /\ balance \in [Parties -> Int]
    /\ enrolled \subseteq Parties /\ known \subseteq Parties
    /\ equivs \subseteq Requests
    /\ verdict \in [Requests -> Decisions \cup {"none"}]
    /\ doubled \subseteq Requests
    /\ sweep \in SweepType

\* What m holds when everything m has signed for has been paid.
Position(m) == balance[m] - CommittedDebits(m, now)

\* Nobody is ever committed below the community's debt floor, whatever mix of
\* proposals, payment requests, certificates, charges, disputes, expiries and
\* enrollment changes led there (credit.rs: the floor bounds what a member
\* can walk away owing).
FloorRespected == \A m \in Parties : Position(m) >= DebtFloor

\* A key the community never enrolled only ever spends what it holds
\* (UNENROLLED_FLOOR_CENTI: no operator setting opens credit to strangers).
StrangersHoldNoDebt ==
    \A m \in Parties \ (known \cup {Station}) :
        Position(m) >= Larger(0, DebtFloor)

\* What transaction t and charge c have done to m's balance.
SettledFor(t, m) ==
    IF t.stage # "Settled" THEN 0
    ELSE (IF t.offer.receiver = m THEN t.offer.amount ELSE 0)
         - (IF t.offer.sender = m THEN t.offer.amount ELSE 0)

ChargedTo(c, m) ==
    (IF c.provider = m THEN c.amount ELSE 0)
    - (IF c.buyer = m THEN c.amount ELSE 0)

\* The balances are exactly what the settled transactions and the charges
\* moved, each once: a cancelled or disputed transfer moved nothing and no
\* settlement is applied twice.
BalanceIsFold ==
    \A m \in Parties :
        balance[m] =
            SumTo([i \in 1..Len(txs) |-> SettledFor(txs[i], m)], Len(txs))
            + SumTo([i \in 1..Len(charged) |-> ChargedTo(charged[i], m)],
                    Len(charged))

\* The spends a certificate backs, cancelled ones included, add up to what it
\* has consumed and never exceed its cap, so its reservation covered them all.
CertSpendsWithinCap ==
    \A i \in DOMAIN certs :
        /\ AmountSum(CertBackedSpends(certs[i].req)) = certs[i].consumed
        /\ certs[i].consumed <= certs[i].req.cap

\* A signed proposal takes effect at most once and a signed request opens at
\* most one certificate, however often and through whatever carrier they come.
NoReplay ==
    /\ \A i, j \in DOMAIN txs : txs[i].offer = txs[j].offer => i = j
    /\ \A i, j \in DOMAIN certs : certs[i].req = certs[j].req => i = j
    /\ \A i, j \in DOMAIN txs :
         /\ txs[i].offer.sender = txs[j].offer.sender
         /\ txs[i].offer.nonce = txs[j].offer.nonce
         => i = j

\* An overspend refused on a certificate that already backed a spend is always
\* provable: the spend limit keeps the evidence small enough, so a record
\* stands against the certificate.
OverspendsAreProven == doubled \subseteq equivs

\* The ledger keeps the promise of module CreditLine: a step lowers somebody's
\* position only if it leaves them at or above the floor that applies to them,
\* so a revoked member below zero is never pushed further and a stranger never
\* into debt; enrolling and revoking move nobody's position.
Credit == INSTANCE CreditLine WITH position <- [m \in Parties |-> Position(m)]

ImplementsCreditLine == Credit!Spec

\* A charge sweep's running account agrees with the ledger: the clock has not
\* gone back since the sweep read it, and what it read of the balances plus
\* what it moved is what they are now.
SweepConsistent ==
    sweep.on =>
        /\ sweep.at <= now
        /\ \A m \in Parties : sweep.snap[m] + sweep.moved[m] = balance[m]

(* Under a clock that steps back.                                          *)

\* Windows run in log order: a confirmation admitted later never gets an
\* earlier window than one already admitted, even when the clock has stepped
\* back in between (the clamp of AppendLog::append).
WindowsFollowLogOrder ==
    [][\A i, j \in DOMAIN txs :
         /\ txs[i].stage = "Proposed" /\ txs'[i].stage = "Confirmed"
         /\ txs[j].stage \notin {"Proposed", "Cancelled"}
         => txs'[i].admittedAt >= txs[j].admittedAt]_vars

\* No settled balance is below the debt floor.  This is what the release of an
\* expired proposal's headroom relies on: "the engine refuses a confirmation
\* past that same boundary, so the debit can never land".
SettledBalanceAboveFloor == \A m \in Parties : balance[m] >= DebtFloor

\* Every transfer confirmed early enough for the clock of the model leaves the
\* Confirmed stage: the sweep settles it unless a party disputes it first.
ConfirmedIsResolved ==
    \A i \in 1..Cardinality(Offers) :
        (/\ i \in DOMAIN txs
         /\ txs[i].stage = "Confirmed"
         /\ WindowEnd(txs[i]) <= MaxTime)
        ~> (i \in DOMAIN txs /\ txs[i].stage # "Confirmed")
=============================================================================
