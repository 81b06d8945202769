------------------------------- MODULE Market -------------------------------
(***************************************************************************)
(* One marketplace listing, its inquiries, the payments and the standing   *)
(* orders they lead to (rrn-marketplace's lifecycle.rs, inquiry.rs,        *)
(* contract.rs and the station's handlers and sweeps over them).           *)
(*                                                                         *)
(* Nothing but records is kept: every read folds the log again.  A listing *)
(* folds to its creation with every patch applied, and every inquiry and   *)
(* contract is judged against that CURRENT listing and against the buyer's *)
(* standing NOW, so what a record means can change after it was admitted.  *)
(* Listings share no records, so one is modelled; its provider is implied. *)
(* The ledger decides when a payment settles and whether a charge fits its *)
(* debtor's floor (module Ledger): here either may happen or not.          *)
(***************************************************************************)
EXTENDS Integers, Sequences, FiniteSets

CONSTANTS
    Inquiries,      \* inquiry ids
    Buyer,          \* the buyer of each inquiry
    Payments,       \* ids of payments that may name the listing
    Prices,         \* amounts listed, offered, agreed or paid
    Stocks,         \* capacities a provider may state
    Offers,         \* the listings that may be published
    Notes,          \* a contract's performance_metrics
    Stamps,         \* instants a party may assert in a message
    InquiryTtl,     \* INQUIRY_TTL_SECS
    Periods,        \* duration_periods
    Notice,         \* notice_period_days, in periods
    ChargesPerSweep,\* MAX_CHARGES_PER_CONTRACT_PER_SWEEP
    MarketLastDay,  \* bound on the clock
    MaxItems,       \* bound on the records of one inquiry
    NoOffer         \* no price stated, no capacity, no expiry

ASSUME MarketAssumption ==
    /\ Periods \in Nat \ {0} /\ Notice \in Nat /\ ChargesPerSweep \in Nat \ {0}
    /\ Prices \subseteq Int /\ Stocks \subseteq Nat
    /\ IsFiniteSet(Inquiries)
    /\ NoOffer \notin {"buyer", "provider"}

VARIABLES
    mday,      \* the station's clock
    listing,   \* the listing as current() folds it, and whether it is closed
    consumed,  \* payments a StockConsumed names
    threads,   \* the records of each inquiry
    standing,  \* buyers whose capped composite meets the requirements now
    payments,  \* listing-linked payments on the ledger
    orders,    \* signed service contracts
    charged    \* ContractCharges: <<contract, period or Penalty>>

marketVars == <<mday, listing, consumed, threads, standing, payments, orders, charged>>

Penalty == -1       \* PENALTY_PERIOD_INDEX
Buyers  == {Buyer[i] : i \in Inquiries}

NoThread == [open |-> FALSE, offer |-> NoOffer, at |-> 0, items |-> << >>]

MarketInit ==
    /\ mday = 0
    /\ listing \in {[o EXCEPT !.closed = FALSE] : o \in Offers}
    /\ consumed = {} /\ orders = {} /\ charged = {}
    /\ threads = [i \in Inquiries |-> NoThread]
    /\ standing = Buyers
    /\ payments = [t \in {} |-> [buyer |-> NoOffer]]

----------------------------------------------------------------------------
(* The listing.                                                            *)

Remaining == IF listing.stock > Cardinality(consumed)
             THEN listing.stock - Cardinality(consumed) ELSE 0

\* state_of: a signed close, then sold out, then past its expiry.
ListingState ==
    IF listing.closed THEN "Closed"
    ELSE IF listing.stock # NoOffer /\ Remaining = 0 THEN "SoldOut"
    ELSE IF listing.expires # NoOffer /\ mday > listing.expires THEN "Expired"
    ELSE "Active"

\* A non-empty patch of pricing, stock or expiry, until the listing is closed.
UpdateListing ==
    /\ ~listing.closed
    /\ \E price \in Prices, negotiable \in BOOLEAN,
          stock \in Stocks \cup {NoOffer},
          expires \in {NoOffer, listing.expires} \cup Stamps :
          LET patched == [listing EXCEPT !.price = price, !.negotiable = negotiable,
                                         !.stock = stock, !.expires = expires]
          IN  patched # listing /\ listing' = patched
    /\ UNCHANGED <<mday, consumed, threads, standing, payments, orders, charged>>

\* The provider's close, or the station's once the expiry has passed.
CloseListing(bySweep) ==
    /\ ~listing.closed
    /\ bySweep => ListingState = "Expired"
    /\ listing' = [listing EXCEPT !.closed = TRUE]
    /\ UNCHANGED <<mday, consumed, threads, standing, payments, orders, charged>>

----------------------------------------------------------------------------
(* Inquiries, as scan() reads them.                                        *)

Items(i)   == threads[i].items
Is(i, k, kind) == Items(i)[k].kind = kind

AmountSignOk(amount) == amount >= 0 \/ (listing.commons /\ listing.price < 0)

OfferOk(price) == price # NoOffer => AmountSignOk(price)

\* An inquiry, and a message of it, that reads as it did: its offer has a sign
\* the listing allows NOW.
Opened(i)  == threads[i].open /\ OfferOk(threads[i].offer)
Sent(i, n) == Is(i, n, "message") /\ OfferOk(Items(i)[n].price)

\* The offer on the table before item k: the last counter, else the opening
\* offer, else the price the listing reads NOW.
StandingOffer(i, k) ==
    LET counters == {n \in 1 .. k - 1 : Sent(i, n) /\ Items(i)[n].price # NoOffer}
        last == CHOOSE n \in counters : \A m \in counters : m <= n
    IN  IF counters # {} THEN [price |-> Items(i)[last].price, by |-> Items(i)[last].by]
        ELSE IF threads[i].offer # NoOffer THEN [price |-> threads[i].offer, by |-> "buyer"]
        ELSE [price |-> listing.price, by |-> "buyer"]

\* agreed_price_ok and agreed_is_buyers_offer.
AgreedOk(i, k, price) ==
    /\ AmountSignOk(price)
    /\ listing.negotiable \/ price = listing.price
    /\ StandingOffer(i, k) = [price |-> price, by |-> "buyer"]

CloseCounts(i, k) ==
    /\ Is(i, k, "close")
    /\ Items(i)[k].outcome = "agreed" => AgreedOk(i, k, Items(i)[k].price)

\* The first close that counts closes the inquiry; 0 while it is open.
ClosedAt(i) ==
    LET counting == {k \in DOMAIN Items(i) : CloseCounts(i, k)}
    IN  IF counting = {} THEN 0 ELSE CHOOSE k \in counting : \A m \in counting : k <= m

\* inquiry_admits: the requirements, asked again with the buyer's standing now.
Admitted(i) == Opened(i) /\ Buyer[i] \in standing

AgreedAt(i, price) ==
    /\ ClosedAt(i) # 0
    /\ Items(i)[ClosedAt(i)].outcome = "agreed"
    /\ Items(i)[ClosedAt(i)].price = price

LastActivity(i) ==
    LET end == IF ClosedAt(i) = 0 THEN Len(Items(i)) ELSE ClosedAt(i) - 1
        sent == {k \in 1 .. end : Sent(i, k)}
        last == CHOOSE k \in sent : \A m \in sent : m <= k
    IN  IF sent = {} \/ Items(i)[last].at < threads[i].at THEN threads[i].at
        ELSE Items(i)[last].at

Stale(i) == Admitted(i) /\ ClosedAt(i) = 0 /\ mday - LastActivity(i) > InquiryTtl

Appended(i, item) == [threads EXCEPT ![i].items = Append(@, item)]

\* append_inquiry_opened: an active listing, a buyer who qualifies, a new id.
OpenInquiry(i, offer, at) ==
    /\ ~threads[i].open
    /\ ListingState = "Active"
    /\ OfferOk(offer)
    /\ Buyer[i] \in standing
    /\ threads' = [threads EXCEPT ![i] =
                     [open |-> TRUE, offer |-> offer, at |-> at, items |-> << >>]]
    /\ UNCHANGED <<mday, listing, consumed, standing, payments, orders, charged>>

\* append_inquiry_message, from either party, with or without a counter-offer.
SendMessage(i, by, price, at) ==
    /\ Len(Items(i)) < MaxItems
    /\ Admitted(i) /\ ClosedAt(i) = 0
    /\ OfferOk(price)
    /\ threads' = Appended(i, [kind |-> "message", by |-> by, price |-> price, at |-> at])
    /\ UNCHANGED <<mday, listing, consumed, standing, payments, orders, charged>>

\* append_inquiry_closed by the provider (agreed) or by the decliner.
CloseInquiry(i, outcome, price) ==
    /\ Len(Items(i)) < MaxItems
    /\ Admitted(i) /\ ClosedAt(i) = 0
    /\ outcome = "agreed" => AgreedOk(i, Len(Items(i)) + 1, price)
    /\ threads' = Appended(i, [kind |-> "close", outcome |-> outcome, price |-> price])
    /\ UNCHANGED <<mday, listing, consumed, standing, payments, orders, charged>>

\* do_expire_inquiries: one sweep closes every inquiry gone quiet.
ExpireInquiries ==
    /\ \E i \in Inquiries : Stale(i)
    /\ threads' = [i \in Inquiries |->
         IF ~Stale(i) THEN threads[i]
         ELSE [threads[i] EXCEPT !.items =
                 Append(@, [kind |-> "close", outcome |-> "expired", price |-> NoOffer])]]
    /\ UNCHANGED <<mday, listing, consumed, standing, payments, orders, charged>>

----------------------------------------------------------------------------
(* Payments that name the listing, and the sales the station attests.      *)

Pay(t, buyer, price, memo) ==
    /\ t \in Payments \ DOMAIN payments
    /\ payments' = [u \in DOMAIN payments \cup {t} |->
                      IF u = t THEN [buyer |-> buyer, price |-> price, memo |-> memo, settled |-> FALSE]
                      ELSE payments[u]]
    /\ UNCHANGED <<mday, listing, consumed, threads, standing, orders, charged>>

\* A payer may name any listing on any payment: only a claim.
PayDirectly(t, buyer, price) == Pay(t, buyer, price, NoOffer)

\* m_marketplace_settle_inquiry: the agreed price, once per inquiry, the memo
\* being the key.
SettleInquiry(t, i) ==
    /\ Admitted(i)
    /\ \A u \in DOMAIN payments : payments[u].memo # i
    /\ \E price \in Prices : AgreedAt(i, price) /\ Pay(t, Buyer[i], price, i)

\* purchases_entitled over all_inquiry_records with everyone admitted.
Entitled(buyer, price) ==
    IF price <= 0 THEN {}
    ELSE {i \in Inquiries : Opened(i) /\ Buyer[i] = buyer /\ AgreedAt(i, price)}

\* Each payment judged as if it were the agreement's first.
PriorSalesForgotten(buyer, price) == {}

\* Attested payments by the same buyer at the same amount.
PriorSales(buyer, price) ==
    {t \in consumed : payments[t].buyer = buyer /\ payments[t].price = price}

\* attest_sale: a unit of a listing still on offer that tracks stock, for a
\* purchase at an agreed price that no earlier sale has used.
Attests(t) ==
    /\ ListingState = "Active"
    /\ listing.stock # NoOffer
    /\ Cardinality(PriorSales(payments[t].buyer, payments[t].price))
         < Cardinality(Entitled(payments[t].buyer, payments[t].price))

\* do_sweep settles a payment, then attests the sale: two appends, between
\* which the station may stop; a settled payment is never looked at again.
SettlePayment(t, stops) ==
    /\ ~payments[t].settled
    /\ payments' = [payments EXCEPT ![t].settled = TRUE]
    /\ consumed' = IF Attests(t) /\ ~stops THEN consumed \cup {t} ELSE consumed
    /\ UNCHANGED <<mday, listing, threads, standing, orders, charged>>

----------------------------------------------------------------------------
(* Standing orders.                                                        *)

\* No dearer than the agreement, where the price must be the agreement's.
TermsMatchAtMost(o) == \E price \in Prices : AgreedAt(o.inquiry, price) /\ o.price <= price

\* terms.matches: cadence and price against the listing and the agreement.
TermsMatch(o) == AgreedAt(o.inquiry, o.price)

\* check_contract, for a new contract and for one on the log alike.
CheckContract(o) ==
    /\ listing.recurring
    /\ Admitted(o.inquiry)
    /\ TermsMatch(o)

\* all_contract_records
Contracts == {o \in orders : CheckContract(o)}

\* append_service_contract, by the buyer, once per agreement.
SignContract(i, price, notes) ==
    LET o == [inquiry |-> i, price |-> price, notes |-> notes, at |-> mday,
              ended |-> NoOffer, endedAt |-> 0]
    IN  /\ CheckContract(o)
        /\ \A c \in Contracts : c.inquiry # i
        /\ orders' = orders \cup {o}
        /\ UNCHANGED <<mday, listing, consumed, threads, standing, payments, charged>>

\* append_contract_termination, once, by either party.
TerminateContract(o, by) ==
    /\ o \in Contracts /\ o.ended = NoOffer
    /\ orders' = (orders \ {o}) \cup {[o EXCEPT !.ended = by, !.endedAt = mday]}
    /\ UNCHANGED <<mday, listing, consumed, threads, standing, payments, charged>>

\* A termination leaves the contract its identity.
ContractId(o) == [inquiry |-> o.inquiry, price |-> o.price, notes |-> o.notes, at |-> o.at]

DueAt(o, period) == o.at + period
EffectiveAt(o)   == o.endedAt + Notice

ChargedPeriods(o) == {p \in 0 .. Periods - 1 : <<ContractId(o), p>> \in charged}

\* next_due_charge, taken until it yields nothing: the periods after those
\* already charged that are due, through the notice window of a termination.
Billable(o) ==
    {p \in Cardinality(ChargedPeriods(o)) .. Periods - 1 :
        /\ DueAt(o, p) <= mday
        /\ o.ended # NoOffer => DueAt(o, p) <= EffectiveAt(o)}

EndedEarly(o) ==
    /\ o.ended # NoOffer
    /\ mday >= EffectiveAt(o)
    /\ EffectiveAt(o) < DueAt(o, Periods)

\* The penalty without the wait for the backlog.
PenaltyOwedEagerly(o, billed) ==
    /\ EndedEarly(o)
    /\ Cardinality(ChargedPeriods(o)) + Cardinality(billed) < Periods
    /\ <<ContractId(o), Penalty>> \notin charged

\* The penalty waits for the backlog: every billable period charged, the
\* course not complete, the penalty not charged before.
PenaltyOwed(o, billed) ==
    /\ billed = Billable(o)
    /\ EndedEarly(o)
    /\ Cardinality(ChargedPeriods(o)) + Cardinality(billed) < Periods
    /\ <<ContractId(o), Penalty>> \notin charged

\* do_charge_contracts: per contract the oldest billable periods, at most
\* ChargesPerSweep and only while they fit the debtor's floor, then the penalty.
ChargeContracts ==
    \E bills \in [Contracts -> SUBSET (0 .. Periods - 1)], levied \in SUBSET Contracts :
        /\ \A o \in Contracts :
              /\ bills[o] \subseteq Billable(o)
              /\ Cardinality(bills[o]) <= ChargesPerSweep
              /\ \A p \in bills[o], q \in Billable(o) : q < p => q \in bills[o]
        /\ \A o \in levied : PenaltyOwed(o, bills[o])
        /\ charged' = charged
             \cup (UNION {{<<ContractId(o), p>> : p \in bills[o]} : o \in Contracts})
             \cup {<<ContractId(o), Penalty>> : o \in levied}
        /\ charged' # charged
        /\ UNCHANGED <<mday, listing, consumed, threads, standing, payments, orders>>

----------------------------------------------------------------------------
\* A snapshot refresh moves a buyer across the listing's min_reputation.
StandingChanges(buyer) ==
    /\ standing' = IF buyer \in standing THEN standing \ {buyer} ELSE standing \cup {buyer}
    /\ UNCHANGED <<mday, listing, consumed, threads, payments, orders, charged>>

MarketDayPasses ==
    /\ mday < MarketLastDay
    /\ mday' = mday + 1
    /\ UNCHANGED <<listing, consumed, threads, standing, payments, orders, charged>>

MarketNext ==
    \/ UpdateListing
    \/ \E bySweep \in BOOLEAN : CloseListing(bySweep)
    \/ \E i \in Inquiries, offer \in Prices \cup {NoOffer}, at \in Stamps :
          OpenInquiry(i, offer, at)
    \/ \E i \in Inquiries, by \in {"buyer", "provider"}, price \in Prices \cup {NoOffer},
          at \in Stamps : SendMessage(i, by, price, at)
    \/ \E i \in Inquiries, price \in Prices : CloseInquiry(i, "agreed", price)
    \/ \E i \in Inquiries : CloseInquiry(i, "declined", NoOffer)
    \/ ExpireInquiries
    \/ \E t \in Payments, b \in Buyers, price \in Prices : PayDirectly(t, b, price)
    \/ \E t \in Payments, i \in Inquiries : SettleInquiry(t, i)
    \/ \E t \in DOMAIN payments, stops \in BOOLEAN : SettlePayment(t, stops)
    \/ \E i \in Inquiries, price \in Prices, notes \in Notes : SignContract(i, price, notes)
    \/ \E o \in orders, by \in {"buyer", "provider"} : TerminateContract(o, by)
    \/ ChargeContracts
    \/ \E b \in Buyers : StandingChanges(b)
    \/ MarketDayPasses

MarketSpec == MarketInit /\ [][MarketNext]_marketVars

----------------------------------------------------------------------------
\* However prices, stock and standings move, the units the station attests as
\* sold to a buyer at a price never outnumber the inquiries in which the
\* provider signed that price for that buyer (attest_sale, core.rs): two
\* payments against one agreement consume one unit.
SalesWereAgreed ==
    \A b \in Buyers, price \in Prices :
        Cardinality({t \in consumed : payments[t].buyer = b /\ payments[t].price = price})
          <= Cardinality({i \in Inquiries :
                /\ Buyer[i] = b
                /\ \E k \in DOMAIN Items(i) :
                      Is(i, k, "close") /\ Items(i)[k].outcome = "agreed" /\ Items(i)[k].price = price})

\* An agreement authorizes one standing order: no two contracts the charge
\* sweep reads cite the same inquiry, although a contract that stopped counting
\* lets another be signed and may count again later (contract.rs scan keeps one
\* record per contract id only).
OneStandingOrder ==
    \A o, c \in Contracts : o.inquiry = c.inquiry => o = c

\* An early-termination penalty is the last thing a contract is charged: by
\* then every period due through the notice window is on the ledger, and none
\* due after it ever is (do_charge_contracts, however long it was behind).
PenaltyClosesTheBook ==
    \A o \in orders :
        <<ContractId(o), Penalty>> \in charged =>
            /\ o.ended # NoOffer
            /\ ChargedPeriods(o) = {p \in 0 .. Periods - 1 : DueAt(o, p) <= EffectiveAt(o)}

\* contract.rs calls a contract "self-contained on the log even if the listing
\* later changes": one that was admitted counts ever after.
ContractIsSelfContained == orders \subseteq Contracts
=============================================================================
