---------------------------- MODULE OfflineSpend ----------------------------
(***************************************************************************)
(* Spending a headroom certificate out of the station's reach: the         *)
(* holder's wallet with its own account of the certificate (rrn-cli        *)
(* wallet), vouchers shown to shops, the shops' offline verdict            *)
(* (offline_spend.rs), and the station that hears of the spends later, in  *)
(* the order of the holder's outbox (engine.rs).                           *)
(*                                                                         *)
(* There is one holder and one certificate, issued and held.  The holder   *)
(* uses the wallet as it is meant to be used; what goes wrong is a crash   *)
(* between the wallet's writes, a clock that differs from the shop's, and  *)
(* carriers that are late.  Forged records and withheld histories are out. *)
(***************************************************************************)
EXTENDS Integers, Sequences, FiniteSets, FiniteSetsExt, SequencesExt, Sums

CONSTANTS
    Amounts,        \* what a spend on the certificate may be
    Cap,            \* the certificate's cap_centi
    CertExpires,    \* its expires_at
    DeliveryGrace,  \* cert_delivery_grace_seconds
    SpendSkew,      \* CLOCK_SKEW_TOLERANCE_SECS
    ProposalTtl,    \* PROPOSAL_TTL_SECS
    MaxItems,       \* MAX_EVIDENCE_ITEMS
    ShopDrift,      \* how far a shop's clock is off
    MaxSigned,      \* bound of the model: records the holder signs
    LastHour,       \* bound of the model: where the clock ends
    MaxTears        \* bound of the model: crashes inside a payment

\* parse_amount takes digits only: no amount is negative.
ASSUME SpendAssumption ==
    /\ Amounts \subseteq Nat
    /\ {Cap, CertExpires, DeliveryGrace, SpendSkew, ProposalTtl, MaxItems, ShopDrift,
        MaxSigned, LastHour, MaxTears} \subseteq Nat

VARIABLES
    hour,      \* the station's and the holder's clock
    purse,     \* wallet: outbox rows not acked, in chain order
    next,      \* wallet: meta nonce_cursor
    history,   \* wallet: meta cert_history, the spends it knows of
    made,      \* how many records the holder has signed
    tears,     \* crashes between the writes of a payment
    accepted,  \* spends a shop has confirmed on the strength of a voucher
    carried,   \* a bundle in a carrier's hands
    booked,    \* station: proposals admitted, in order
    given,     \* station: the return it has admitted, by id
    refused,   \* the least id of a proposal the station has refused
    proven     \* station: an overspend equivocation is recorded

spendVars ==
    <<hour, purse, next, history, made, tears, accepted, carried, booked, given,
      refused, proven>>

SpendAmount(p) == IF p.kind = "spend" THEN p.amount ELSE 0

\* cert_history_spent: what the spends of a list add up to.
Spent(list) == SumTo([i \in 1 .. Len(list) |-> SpendAmount(list[i])], Len(list))
-----------------------------------------------------------------------------
(* The wallet.                                                             *)

\* resolve_expiry: a spend lives at least as long as its certificate.
ResolveExpiry(carrier) ==
    Max({CertExpires, hour + IF carrier = "fast" THEN ProposalTtl ELSE DeliveryGrace})

\* Slip: a spend is held against the cap alone.
WithinCap(amount) == hour <= CertExpires /\ amount <= Cap

\* cmd_pay's guards for a spend on the certificate.
WithinAllowance(amount) ==
    /\ hour <= CertExpires
    /\ amount <= Cap - Spent(history)

\* cmd_pay writes the outbox entry, the cursor and, for a spend on the
\* certificate, the history; a crash may leave only the first `done' of them.
Sign(p, writes, done) ==
    /\ made < MaxSigned
    /\ done < writes => tears < MaxTears
    /\ purse' = Append(purse, p)
    /\ next' = IF done >= 2 THEN next + 1 ELSE next
    /\ history' = IF done >= 3 THEN Append(history, p) ELSE history
    /\ made' = made + 1
    /\ tears' = IF done < writes THEN tears + 1 ELSE tears
    /\ UNCHANGED <<hour, accepted, carried, booked, given, refused, proven>>

CmdPayOnCertificate(amount, carrier, done) ==
    /\ WithinAllowance(amount)
    /\ Sign([kind |-> "spend", id |-> made, nonce |-> next, amount |-> amount,
             expires |-> ResolveExpiry(carrier)], 3, done)

CmdPay(done) ==
    Sign([kind |-> "pay", id |-> made, nonce |-> next, expires |-> hour + DeliveryGrace],
         2, done)

\* cert_return: a record of the chain without a nonce.  The wallet keeps the
\* certificate and lets it be spent on afterwards.
CertReturn ==
    /\ made < MaxSigned
    /\ purse' = Append(purse, [kind |-> "return", id |-> made])
    /\ made' = made + 1
    /\ UNCHANGED <<hour, next, history, tears, accepted, carried, booked, given,
                   refused, proven>>

\* Slip: the cursor follows the station while proposals are in flight.
ReconciledAtOnce == Len(booked)

\* cmd_sync's second call.
Reconciled ==
    IF \E i \in DOMAIN purse : purse[i].kind # "return"
    THEN Max({next, Len(booked)})
    ELSE Len(booked)

CmdSync ==
    /\ next' = Reconciled
    /\ UNCHANGED <<hour, purse, history, made, tears, accepted, carried, booked,
                   given, refused, proven>>
-----------------------------------------------------------------------------
(* The shop.                                                               *)

\* verify_offline_spend, at the time the shop's clock shows.  A copy of the
\* spend in the history it is shown with is not counted against it.
VerifyOfflineSpend(p, shown, time) ==
    /\ p.amount > 0
    /\ time <= p.expires
    /\ time <= CertExpires
    /\ \A h \in ToSet(shown) : h.amount > 0
    /\ p.amount <= Cap - Spent(SelectSeq(shown, LAMBDA h : h # p))

\* cmd_confirm from the voucher of the i-th spend: write_spend_voucher printed
\* it when the spend was signed, with the history up to it.
Accept(i) ==
    /\ history[i] \notin accepted
    /\ \E time \in hour - ShopDrift .. hour + ShopDrift :
         VerifyOfflineSpend(history[i], SubSeq(history, 1, i), time)
    /\ accepted' = accepted \cup {history[i]}
    /\ UNCHANGED <<hour, purse, next, history, made, tears, carried, booked, given,
                   refused, proven>>
-----------------------------------------------------------------------------
(* The station.                                                            *)

SpendAdmissibleUntil == CertExpires + DeliveryGrace + SpendSkew

SpendsIn(log) == {p \in ToSet(log) : p.kind = "spend"}

\* submit_proposal's window and nonce.
InTurn(s, p) == hour <= p.expires + SpendSkew /\ p.nonce = Len(s.booked)

\* check_cert_backed, up to the certificate's expiry.
CertServes(s, p) == p.amount > 0 /\ s.given = {}

Overspent(s, p) == p.amount > Cap - Spent(s.booked)

\* A spend on the certificate meets no floor; a payment may (floored).
Admits(s, p, floored) ==
    /\ InTurn(s, p)
    /\ \/ /\ p.kind = "spend"
          /\ CertServes(s, p) /\ hour <= SpendAdmissibleUntil /\ ~Overspent(s, p)
          /\ Cardinality(SpendsIn(s.booked)) < MaxItems - 1
       \/ p.kind = "pay" /\ p.id \notin floored

\* record_cert_overspend_equivocation, after a refusal for the expiry or the
\* allowance; the proof needs an admitted spend beside the refused one.
Convicts(s, p) ==
    /\ InTurn(s, p)
    /\ p.kind = "spend" /\ CertServes(s, p) /\ Overspent(s, p)
    /\ SpendsIn(s.booked) # {}

\* One entry of a bundle, at the front door.
Take(s, p, floored) ==
    IF p.kind = "return" THEN [s EXCEPT !.given = IF @ = {} THEN {p.id} ELSE @]
    ELSE IF p \in ToSet(s.booked) THEN s
    ELSE IF Admits(s, p, floored) THEN [s EXCEPT !.booked = Append(@, p)]
    ELSE [s EXCEPT !.refused = Min({@, p.id}), !.proven = @ \/ Convicts(s, p)]

\* ingest_bundle: the entries are taken in the order of the chain.
Ingest(bundle) ==
    \E floored \in SUBSET {p.id : p \in {q \in ToSet(bundle) : q.kind = "pay"}} :
        LET after[i \in 0 .. Len(bundle)] ==
                IF i = 0 THEN [booked |-> booked, given |-> given,
                               refused |-> refused, proven |-> proven]
                ELSE Take(after[i - 1], bundle[i], floored)
            end == after[Len(bundle)]
        IN  /\ booked' = end.booked /\ given' = end.given
            /\ refused' = end.refused /\ proven' = end.proven

\* cmd_submit: the receipt comes back and acks every proposal in it, a refused
\* one too; a return is settled either way.
CmdSubmit ==
    /\ purse # <<>>
    /\ Ingest(purse)
    /\ purse' = <<>>
    /\ UNCHANGED <<hour, next, history, made, tears, accepted, carried>>

\* cmd_export: the rows stay pending.
CmdExport ==
    /\ purse # <<>> /\ carried # purse
    /\ carried' = purse
    /\ UNCHANGED <<hour, purse, next, history, made, tears, accepted, booked, given,
                   refused, proven>>

\* A carrier reaches the station, and may come again.
Deliver ==
    /\ carried # <<>>
    /\ Ingest(carried)
    /\ UNCHANGED <<hour, purse, next, history, made, tears, accepted, carried>>

HourPasses ==
    /\ hour < LastHour
    /\ hour' = hour + 1
    /\ UNCHANGED <<purse, next, history, made, tears, accepted, carried, booked,
                   given, refused, proven>>
-----------------------------------------------------------------------------
SpendInit ==
    /\ hour = 0 /\ next = 0 /\ made = 0 /\ tears = 0
    /\ purse = <<>> /\ history = <<>> /\ carried = <<>> /\ booked = <<>>
    /\ accepted = {} /\ given = {} /\ refused = MaxSigned /\ proven = FALSE

SpendNext ==
    \/ \E amount \in Amounts, carrier \in {"fast", "slow"}, done \in 1 .. 3 :
         CmdPayOnCertificate(amount, carrier, done)
    \/ \E done \in 1 .. 2 : CmdPay(done)
    \/ CertReturn
    \/ CmdSync
    \/ \E i \in DOMAIN history : Accept(i)
    \/ CmdSubmit
    \/ CmdExport
    \/ Deliver
    \/ HourPasses

SpendSpec == SpendInit /\ [][SpendNext]_spendVars
-----------------------------------------------------------------------------
\* A holder who spends through the wallet is never convicted of an overspend,
\* however late and how often its bundles arrive: the wallet's account of the
\* certificate is never behind the station's.  A crash after cmd_pay wrote the
\* entry and before it wrote the history is the exception.
HolderIsNotConvicted == proven => tears > 0

\* A shop does not deliver against a spend the station declines: until the
\* grace is over, an accepted spend is admitted on arrival, or once what the
\* holder signed before it has arrived.  There are four ways out that neither
\* the wallet nor the shop guards against: its own expiry is sooner, the
\* certificate was returned before it was signed, the station has its fill of
\* spends on the certificate, or an earlier payment was refused and the nonces
\* after it were given out again.
AcceptedIsHonoured ==
    tears = 0 /\ hour <= SpendAdmissibleUntil =>
        \A p \in accepted :
            LET s == [booked |-> booked, given |-> given]
            IN  \/ p \in ToSet(booked)
                \/ Admits(s, p, {})
                \/ p.nonce > Len(booked)
                \/ hour > p.expires + SpendSkew
                \/ \E g \in given : g < p.id
                \/ Cardinality(SpendsIn(booked)) >= MaxItems - 1
                \/ refused < p.id
=============================================================================
