---------------------------- MODULE CommonsProofs ---------------------------
(***************************************************************************)
(* What members do together on the log: they trade (Market), govern        *)
(* themselves (Governance) and declare emergencies (Emergency).            *)
(***************************************************************************)
EXTENDS Market, Governance, Emergency, DataTheorems, FiniteSetTheorems, TLAPS

----------------------------------------------------------------------------
(* Market: what the records are.                                           *)

Message == [kind : {"message"}, by : {"buyer", "provider"},
            price : Prices \cup {NoOffer}, at : Stamps]
Close   == [kind : {"close"}, outcome : {"agreed", "declined", "expired"},
            price : Prices \cup {NoOffer}]
Item    == Message \cup Close
Thread  == [open : BOOLEAN, offer : Prices \cup {NoOffer}, at : Stamps \cup {0}, items : Seq(Item)]
Payment == [buyer : Buyers, price : Prices, memo : Inquiries \cup {NoOffer}, settled : BOOLEAN]
Order   == [inquiry : Inquiries, price : Prices, notes : Notes, at : Nat,
            ended : {NoOffer, "buyer", "provider"}, endedAt : Nat]

MarketTypeOK ==
    /\ mday \in Nat
    /\ threads \in [Inquiries -> Thread]
    /\ payments \in [DOMAIN payments -> Payment]
    /\ IsFiniteSet(consumed) /\ consumed \subseteq DOMAIN payments
    /\ orders \subseteq Order

\* Every order ever signed is told apart by its agreement and its price.
OrdersDiffer ==
    \A o, c \in orders : o.inquiry = c.inquiry /\ o.price = c.price => o = c

\* The provider's agreed closes at a price for a buyer, whether or not they
\* count against the listing as it reads now.
Signed(b, price) ==
    {i \in Inquiries :
        /\ Buyer[i] = b
        /\ \E k \in DOMAIN Items(i) :
              Is(i, k, "close") /\ Items(i)[k].outcome = "agreed" /\ Items(i)[k].price = price}

SoldTo(b, price) == {t \in consumed : payments[t].buyer = b /\ payments[t].price = price}

\* An inquiry has records only once it is open.
OpenFirst == \A i \in Inquiries : ~threads[i].open => Items(i) = << >>

\* A charge names an order; the periods charged are the first ones, all due,
\* and none past the notice window of an order that was ended.
ChargesAreOrders ==
    \A c \in charged : \E o \in orders : c[1] = ContractId(o)
ChargesInOrder ==
    \A o \in orders : \E n \in 0 .. Periods : ChargedPeriods(o) = 0 .. n - 1
ChargesWereDue ==
    \A o \in orders : \A p \in ChargedPeriods(o) :
        /\ DueAt(o, p) <= mday
        /\ o.ended # NoOffer => DueAt(o, p) <= EffectiveAt(o)
PenaltyIsLast ==
    \A o \in orders : <<ContractId(o), Penalty>> \in charged =>
        /\ o.ended # NoOffer
        /\ \A p \in 0 .. Periods - 1 : DueAt(o, p) <= EffectiveAt(o) => p \in ChargedPeriods(o)

ChargeInv == ChargesAreOrders /\ ChargesInOrder /\ ChargesWereDue /\ PenaltyIsLast

MarketInv == MarketTypeOK /\ OrdersDiffer /\ OpenFirst /\ SalesWereAgreed /\ ChargeInv

LEMMA MarketInitInv == MarketInit => MarketInv
<1> SUFFICES ASSUME MarketInit PROVE MarketInv
  OBVIOUS
<1>1. mday = 0 /\ consumed = {} /\ orders = {} /\ charged = {} /\ DOMAIN payments = {}
  BY DEF MarketInit
<1>2. NoThread \in Thread
  <2>1. << >> \in Seq(Item)
    OBVIOUS
  <2> QED
    BY <2>1 DEF NoThread, Thread
<1>3. MarketTypeOK
  <2>1. threads \in [Inquiries -> Thread]
    BY <1>2 DEF MarketInit
  <2>2. payments \in [DOMAIN payments -> Payment]
    BY DEF MarketInit
  <2> QED
    BY <1>1, <2>1, <2>2, FS_EmptySet DEF MarketTypeOK
<1>4. OpenFirst
  BY DEF MarketInit, OpenFirst, Items, NoThread
<1>5. OrdersDiffer /\ ChargeInv
  BY <1>1 DEF OrdersDiffer, ChargeInv, ChargesAreOrders, ChargesInOrder, ChargesWereDue, PenaltyIsLast
<1>6. SalesWereAgreed
  <2> SUFFICES ASSUME NEW b \in Buyers, NEW price \in Prices
               PROVE  Cardinality(SoldTo(b, price)) <= Cardinality(Signed(b, price))
    BY DEF SalesWereAgreed, SoldTo, Signed
  <2>1. SoldTo(b, price) = {}
    BY <1>1 DEF SoldTo
  <2>2. IsFiniteSet(Signed(b, price))
    BY MarketAssumption, FS_Subset DEF Signed
  <2> QED
    BY <2>1, <2>2, FS_EmptySet, FS_CardinalityType
<1> QED
  BY <1>3, <1>4, <1>5, <1>6 DEF MarketInv

----------------------------------------------------------------------------
(* Sales.                                                                  *)

LEMMA SignedFinite == \A b, price : IsFiniteSet(Signed(b, price))
<1> SUFFICES ASSUME NEW b, NEW price PROVE IsFiniteSet(Signed(b, price))
  OBVIOUS
<1>1. Signed(b, price) \subseteq Inquiries
  BY DEF Signed
<1> QED
  BY <1>1, MarketAssumption, FS_Subset

\* What the station entitles a buyer to buy was signed by the provider.
LEMMA EntitledWasSigned ==
    ASSUME MarketTypeOK, NEW b \in Buyers, NEW price \in Prices
    PROVE  Entitled(b, price) \subseteq Signed(b, price)
<1> SUFFICES ASSUME NEW i \in Inquiries, Buyer[i] = b, AgreedAt(i, price)
             PROVE  i \in Signed(b, price)
  BY DEF Entitled
<1> DEFINE counting == {k \in DOMAIN Items(i) : CloseCounts(i, k)}
<1>1. counting # {} /\ ClosedAt(i) = CHOOSE k \in counting : \A m \in counting : k <= m
  BY DEF AgreedAt, ClosedAt
<1>2. counting \subseteq Nat
  BY DEF MarketTypeOK, Thread, Items
<1>3. \E k \in counting : \A m \in counting : k <= m
  BY <1>1, <1>2, LeastNatural
<1>4. ClosedAt(i) \in counting
  BY <1>1, <1>3
<1> QED
  BY <1>4 DEF Signed, AgreedAt, CloseCounts

\* Sales and agreements only grow together.
LEMMA SalesKept ==
    ASSUME MarketInv, MarketTypeOK',
           consumed' = consumed,
           \A t \in consumed : payments'[t].buyer = payments[t].buyer
                               /\ payments'[t].price = payments[t].price,
           \A b, price : Signed(b, price) \subseteq Signed(b, price)'
    PROVE  SalesWereAgreed'
<1> SUFFICES ASSUME NEW b \in Buyers, NEW price \in Prices
             PROVE  Cardinality(SoldTo(b, price)') <= Cardinality(Signed(b, price)')
  BY DEF SalesWereAgreed, SoldTo, Signed, Items, Is
<1>1. SoldTo(b, price)' = SoldTo(b, price)
  BY DEF SoldTo
<1>2. Cardinality(SoldTo(b, price)) <= Cardinality(Signed(b, price))
  BY DEF MarketInv, SalesWereAgreed, SoldTo, Signed
<1>3. Signed(b, price)' \subseteq Inquiries
  BY DEF Signed
<1>4. IsFiniteSet(Signed(b, price)') /\ IsFiniteSet(Signed(b, price))
  BY <1>3, MarketAssumption, FS_Subset, SignedFinite
<1>5. Cardinality(Signed(b, price)) <= Cardinality(Signed(b, price)')
  BY <1>4, FS_Subset
<1>6. IsFiniteSet(SoldTo(b, price))
  BY FS_Subset DEF SoldTo, MarketInv, MarketTypeOK
<1> QED
  BY <1>1, <1>2, <1>4, <1>5, <1>6, FS_CardinalityType

LEMMA ChargesKept ==
    ASSUME MarketInv, mday' \in Nat, mday <= mday', orders' = orders, charged' = charged
    PROVE  ChargeInv' /\ OrdersDiffer'
<1>1. OrdersDiffer' /\ ChargesAreOrders' /\ ChargesInOrder' /\ PenaltyIsLast'
  BY DEF MarketInv, ChargeInv, OrdersDiffer, ChargesAreOrders, ChargesInOrder, PenaltyIsLast,
         ChargedPeriods
<1>2. ChargesWereDue'
  <2> SUFFICES ASSUME NEW o \in orders, NEW p \in ChargedPeriods(o)
               PROVE  DueAt(o, p) <= mday' /\ (o.ended # NoOffer => DueAt(o, p) <= EffectiveAt(o))
    BY DEF ChargesWereDue, ChargedPeriods
  <2>1. o.at \in Nat /\ p \in Nat /\ mday \in Nat
    BY DEF MarketInv, MarketTypeOK, Order, ChargedPeriods
  <2> QED
    BY <2>1 DEF MarketInv, ChargeInv, ChargesWereDue, DueAt
<1> QED
  BY <1>1, <1>2 DEF ChargeInv

\* Records are only appended to an inquiry, so what was signed stays signed.
LEMMA ThreadsGrow ==
    ASSUME MarketInv, threads' \in [Inquiries -> Thread],
           \A i \in Inquiries : \A k \in DOMAIN Items(i) :
               k \in DOMAIN Items(i)' /\ Items(i)'[k] = Items(i)[k],
           UNCHANGED <<mday, consumed, payments, orders, charged>>,
           OpenFirst'
    PROVE  MarketInv'
<1>1. MarketTypeOK'
  BY DEF MarketInv, MarketTypeOK
<1>2. \A b, price : Signed(b, price) \subseteq Signed(b, price)'
  BY DEF Signed, Is, Items
<1>3. SalesWereAgreed'
  BY <1>1, <1>2, SalesKept
<1>4. ChargeInv' /\ OrdersDiffer'
  BY ChargesKept DEF MarketInv, MarketTypeOK
<1> QED
  BY <1>1, <1>3, <1>4 DEF MarketInv

LEMMA ItemAppended ==
    ASSUME NEW th \in Thread, NEW item \in Item, NEW th2,
           th2 = [th EXCEPT !.items = Append(@, item)]
    PROVE  /\ th2 \in Thread /\ th2.open = th.open
           /\ \A k \in DOMAIN th.items : k \in DOMAIN th2.items /\ th2.items[k] = th.items[k]
<1>1. th2.items = Append(th.items, item) /\ th.items \in Seq(Item) /\ th2.open = th.open
  BY DEF Thread
<1>2. th2 \in Thread
  <2>1. Append(th.items, item) \in Seq(Item)
    BY <1>1
  <2> QED
    BY <2>1 DEF Thread
<1>3. \A k \in DOMAIN th.items : k \in DOMAIN Append(th.items, item)
                                 /\ Append(th.items, item)[k] = th.items[k]
  BY <1>1
<1> QED
  BY <1>1, <1>2, <1>3

LEMMA AppendedKeeps ==
    ASSUME MarketInv, NEW i \in Inquiries, NEW item \in Item,
           Admitted(i), threads' = Appended(i, item),
           UNCHANGED <<mday, consumed, payments, orders, charged>>
    PROVE  MarketInv'
<1> DEFINE th2 == [threads[i] EXCEPT !.items = Append(@, item)]
<1>1. threads[i] \in Thread /\ threads \in [Inquiries -> Thread]
  BY DEF MarketInv, MarketTypeOK
<1>2. threads' = [threads EXCEPT ![i] = th2]
  BY DEF Appended
<1>3. th2 \in Thread /\ th2.open = threads[i].open
      /\ \A k \in DOMAIN threads[i].items : k \in DOMAIN th2.items /\ th2.items[k] = threads[i].items[k]
  BY SMTT(30), <1>1, ItemAppended
<1>4. threads'[i] = th2 /\ \A j \in Inquiries : j # i => threads'[j] = threads[j]
  BY <1>1, <1>2
<1> HIDE DEF th2
<1>5. threads' \in [Inquiries -> Thread]
  BY <1>1, <1>2, <1>3
<1>6. \A j \in Inquiries : \A k \in DOMAIN Items(j) :
         k \in DOMAIN Items(j)' /\ Items(j)'[k] = Items(j)[k]
  BY <1>3, <1>4 DEF Items
<1>7. OpenFirst'
  BY <1>3, <1>4 DEF OpenFirst, MarketInv, Items, Admitted, Opened
<1> QED
  BY <1>5, <1>6, <1>7, ThreadsGrow

LEMMA InquiryKeeps ==
    ASSUME MarketInv,
           \/ \E i \in Inquiries, offer \in Prices \cup {NoOffer}, at \in Stamps :
                 OpenInquiry(i, offer, at)
           \/ \E i \in Inquiries, by \in {"buyer", "provider"}, price \in Prices \cup {NoOffer},
                 at \in Stamps : SendMessage(i, by, price, at)
           \/ \E i \in Inquiries, price \in Prices : CloseInquiry(i, "agreed", price)
           \/ \E i \in Inquiries : CloseInquiry(i, "declined", NoOffer)
    PROVE  MarketInv'
<1>1. ASSUME NEW i \in Inquiries, NEW offer \in Prices \cup {NoOffer}, NEW at \in Stamps,
             OpenInquiry(i, offer, at)
      PROVE  MarketInv'
  <2> DEFINE th == [open |-> TRUE, offer |-> offer, at |-> at, items |-> << >>]
  <2>1. th \in Thread /\ th.open
    <3>1. << >> \in Seq(Item)
      OBVIOUS
    <3> QED
      BY <3>1 DEF Thread
  <2>2. threads' = [threads EXCEPT ![i] = th] /\ ~threads[i].open
        /\ UNCHANGED <<mday, consumed, payments, orders, charged>>
    BY <1>1 DEF OpenInquiry
  <2> HIDE DEF th
  <2>3. threads \in [Inquiries -> Thread]
    BY DEF MarketInv, MarketTypeOK
  <2>4. threads'[i] = th /\ \A j \in Inquiries : j # i => threads'[j] = threads[j]
    BY <2>2, <2>3
  <2>5. Items(i) = << >>
    BY <2>2 DEF MarketInv, OpenFirst
  <2>6. \A j \in Inquiries : \A k \in DOMAIN Items(j) :
           k \in DOMAIN Items(j)' /\ Items(j)'[k] = Items(j)[k]
    BY <2>4, <2>5 DEF Items
  <2>7. OpenFirst'
    BY <2>1, <2>4 DEF OpenFirst, MarketInv, Items
  <2>8. threads' \in [Inquiries -> Thread]
    BY <2>1, <2>2, <2>3
  <2> QED
    BY <2>2, <2>6, <2>7, <2>8, ThreadsGrow
<1>2. ASSUME NEW i \in Inquiries, NEW by \in {"buyer", "provider"},
             NEW price \in Prices \cup {NoOffer}, NEW at \in Stamps, SendMessage(i, by, price, at)
      PROVE  MarketInv'
  <2>1. [kind |-> "message", by |-> by, price |-> price, at |-> at] \in Item
    BY DEF Item, Message
  <2> QED
    BY <1>2, <2>1, AppendedKeeps DEF SendMessage
<1>3. ASSUME NEW i \in Inquiries, NEW outcome \in {"agreed", "declined"},
             NEW price \in Prices \cup {NoOffer}, CloseInquiry(i, outcome, price)
      PROVE  MarketInv'
  <2>1. [kind |-> "close", outcome |-> outcome, price |-> price] \in Item
    BY DEF Item, Close
  <2> QED
    BY <1>3, <2>1, AppendedKeeps DEF CloseInquiry
<1> QED
  BY <1>1, <1>2, <1>3

LEMMA ExpireInquiriesKeeps ==
    ASSUME MarketInv, ExpireInquiries
    PROVE  MarketInv'
<1> DEFINE expiry == [kind |-> "close", outcome |-> "expired", price |-> NoOffer]
           Expired(i) == [threads[i] EXCEPT !.items = Append(@, expiry)]
<1>1. expiry \in Item
  BY DEF Item, Close
<1>2. threads' = [i \in Inquiries |-> IF ~Stale(i) THEN threads[i] ELSE Expired(i)]
      /\ UNCHANGED <<mday, consumed, payments, orders, charged>>
  BY DEF ExpireInquiries
<1>3. ASSUME NEW i \in Inquiries
      PROVE  /\ threads'[i] \in Thread
             /\ threads'[i].open = threads[i].open
             /\ ~threads[i].open => threads'[i] = threads[i]
             /\ \A k \in DOMAIN threads[i].items :
                   k \in DOMAIN threads'[i].items /\ threads'[i].items[k] = threads[i].items[k]
  <2>1. threads[i] \in Thread
    BY DEF MarketInv, MarketTypeOK
  <2>2. CASE ~Stale(i)
    BY <1>2, <2>1, <2>2
  <2>3. CASE Stale(i)
    <3>1. PICK th \in Thread : th = threads[i]
      BY <2>1
    <3>2. PICK item \in Item : item = expiry
      BY <1>1
    <3>3. threads[i].open /\ threads'[i] = [th EXCEPT !.items = Append(@, item)]
      BY <1>2, <2>3, <3>1, <3>2 DEF Stale, Admitted, Opened
    <3>4. th \in Thread /\ item \in Item
      BY <3>1, <3>2
    <3>5. PICK th2 : th2 = [th EXCEPT !.items = Append(@, item)]
      OBVIOUS
    <3> HIDE DEF expiry, Expired
    <3>6. /\ th2 \in Thread /\ th2.open = th.open
          /\ \A k \in DOMAIN th.items : k \in DOMAIN th2.items /\ th2.items[k] = th.items[k]
      <4>1. th2.items = Append(th.items, item) /\ th.items \in Seq(Item) /\ th2.open = th.open
        BY <3>4, <3>5 DEF Thread
      <4>2. Append(th.items, item) \in Seq(Item)
        BY <3>4, <4>1
      <4>3. th2 \in Thread
        BY <3>4, <3>5, <4>2 DEF Thread
      <4>4. \A k \in DOMAIN th.items : k \in DOMAIN Append(th.items, item)
                                       /\ Append(th.items, item)[k] = th.items[k]
        BY <4>1
      <4> QED
        BY <4>1, <4>3, <4>4
    <3> QED
      BY <3>1, <3>3, <3>5, <3>6
  <2> QED
    BY <2>2, <2>3
<1>4. threads' \in [Inquiries -> Thread]
  BY <1>2, <1>3
<1>5. \A i \in Inquiries : \A k \in DOMAIN Items(i) :
         k \in DOMAIN Items(i)' /\ Items(i)'[k] = Items(i)[k]
  BY <1>3 DEF Items
<1>6. OpenFirst'
  BY <1>3 DEF OpenFirst, MarketInv, Items
<1> QED
  BY <1>2, <1>4, <1>5, <1>6, ThreadsGrow

LEMMA PayKeeps ==
    ASSUME MarketInv, NEW t, NEW b \in Buyers, NEW price \in Prices,
           NEW memo \in Inquiries \cup {NoOffer}, Pay(t, b, price, memo)
    PROVE  MarketInv'
<1> DEFINE due == [buyer |-> b, price |-> price, memo |-> memo, settled |-> FALSE]
<1>1. due \in Payment
  BY DEF Payment
<1>2. t \notin DOMAIN payments
      /\ payments' = [u \in DOMAIN payments \cup {t} |-> IF u = t THEN due ELSE payments[u]]
      /\ UNCHANGED <<mday, consumed, threads, orders, charged>>
  BY DEF Pay
<1> HIDE DEF due
<1>3. \A u \in DOMAIN payments : payments[u] \in Payment
  BY DEF MarketInv, MarketTypeOK
<1>4. MarketTypeOK'
  BY <1>1, <1>2, <1>3 DEF MarketInv, MarketTypeOK
<1>5. \A u \in consumed : payments'[u] = payments[u]
  BY <1>2 DEF MarketInv, MarketTypeOK
<1>6. \A c, p : Signed(c, p) \subseteq Signed(c, p)'
  BY <1>2 DEF Signed, Items, Is
<1>7. SalesWereAgreed'
  BY <1>2, <1>4, <1>5, <1>6, SalesKept
<1>8. ChargeInv' /\ OrdersDiffer'
  BY <1>2, ChargesKept DEF MarketInv, MarketTypeOK
<1>9. OpenFirst'
  BY <1>2 DEF MarketInv, OpenFirst, Items
<1> QED
  BY <1>4, <1>7, <1>8, <1>9 DEF MarketInv

LEMMA SettlePaymentKeeps ==
    ASSUME MarketInv, NEW t \in DOMAIN payments, NEW stops \in BOOLEAN, SettlePayment(t, stops)
    PROVE  MarketInv'
<1>1. payments' = [payments EXCEPT ![t].settled = TRUE]
      /\ UNCHANGED <<mday, threads, orders, charged>>
  BY DEF SettlePayment
<1>2. \A u \in DOMAIN payments : payments[u] \in Payment
  BY DEF MarketInv, MarketTypeOK
<1>3. DOMAIN payments' = DOMAIN payments
      /\ \A u \in DOMAIN payments : payments'[u] \in Payment
            /\ payments'[u].buyer = payments[u].buyer /\ payments'[u].price = payments[u].price
  <2>1. payments[t] \in Payment
    BY <1>2
  <2>2. [payments[t] EXCEPT !.settled = TRUE] \in Payment
        /\ [payments[t] EXCEPT !.settled = TRUE].buyer = payments[t].buyer
        /\ [payments[t] EXCEPT !.settled = TRUE].price = payments[t].price
    BY <2>1 DEF Payment
  <2> QED
    BY <1>1, <1>2, <2>2
<1>4. payments' \in [DOMAIN payments' -> Payment]
  <2>1. payments' = [u \in DOMAIN payments |-> payments'[u]]
    BY <1>1
  <2> QED
    BY <1>3, <2>1
<1>5. consumed' \subseteq consumed \cup {t} /\ consumed \subseteq consumed'
  BY DEF SettlePayment
<1>6. MarketTypeOK'
  <2>1. consumed' = consumed \/ consumed' = consumed \cup {t}
    BY <1>5
  <2>2. IsFiniteSet(consumed \cup {t}) /\ IsFiniteSet(consumed)
    BY FS_AddElement DEF MarketInv, MarketTypeOK
  <2> QED
    BY <1>1, <1>3, <1>4, <1>5, <2>1, <2>2 DEF MarketInv, MarketTypeOK
<1>7. \A c, p : Signed(c, p)' = Signed(c, p)
  BY <1>1 DEF Signed, Items, Is
<1>8. SalesWereAgreed'
  <2>1. CASE consumed' = consumed
    BY <1>3, <1>6, <1>7, <2>1, SalesKept DEF MarketInv, MarketTypeOK
  <2>2. CASE consumed' # consumed
    <3>1. Attests(t) /\ consumed' = consumed \cup {t} /\ t \notin consumed
      BY <2>2 DEF SettlePayment
    <3>2. payments[t].buyer \in Buyers /\ payments[t].price \in Prices
      BY <1>2 DEF Payment
    <3> SUFFICES ASSUME NEW b \in Buyers, NEW price \in Prices
                 PROVE  Cardinality(SoldTo(b, price)') <= Cardinality(Signed(b, price))
      BY <1>7 DEF SalesWereAgreed, SoldTo, Signed, Items, Is
    <3>3. IsFiniteSet(SoldTo(b, price)) /\ IsFiniteSet(Signed(b, price))
      BY FS_Subset, SignedFinite DEF SoldTo, MarketInv, MarketTypeOK
    <3>4. CASE b = payments[t].buyer /\ price = payments[t].price
      <4>1. SoldTo(b, price)' = SoldTo(b, price) \cup {t} /\ t \notin SoldTo(b, price)
        BY <1>3, <3>1, <3>4 DEF SoldTo, MarketInv, MarketTypeOK
      <4>2. Cardinality(SoldTo(b, price)') = Cardinality(SoldTo(b, price)) + 1
        BY <3>3, <4>1, FS_AddElement
      <4>3. Cardinality(SoldTo(b, price)) < Cardinality(Entitled(b, price))
        BY <3>1, <3>4 DEF Attests, PriorSales, SoldTo
      <4>4. Entitled(b, price) \subseteq Signed(b, price)
        BY EntitledWasSigned DEF MarketInv
      <4>5. IsFiniteSet(Entitled(b, price))
            /\ Cardinality(Entitled(b, price)) <= Cardinality(Signed(b, price))
        BY <3>3, <4>4, FS_Subset
      <4> QED
        BY <3>3, <4>2, <4>3, <4>5, FS_CardinalityType
    <3>5. CASE ~(b = payments[t].buyer /\ price = payments[t].price)
      <4>1. SoldTo(b, price)' = SoldTo(b, price)
        BY <1>3, <3>1, <3>5 DEF SoldTo, MarketInv, MarketTypeOK
      <4> QED
        BY <4>1 DEF MarketInv, SalesWereAgreed, SoldTo, Signed
    <3> QED
      BY <3>4, <3>5
  <2> QED
    BY <2>1, <2>2
<1>9. ChargeInv' /\ OrdersDiffer'
  BY <1>1, ChargesKept DEF MarketInv, MarketTypeOK
<1>10. OpenFirst'
  BY <1>1 DEF MarketInv, OpenFirst, Items
<1> QED
  BY <1>6, <1>8, <1>9, <1>10 DEF MarketInv

----------------------------------------------------------------------------
(* Standing orders.                                                        *)

\* Whether a contract counts depends on its inquiry and its price alone.
LEMMA SameTermsCount ==
    ASSUME NEW o, NEW c, o.inquiry = c.inquiry, o.price = c.price, CheckContract(o)
    PROVE  CheckContract(c)
BY DEF CheckContract, TermsMatch

LEMMA SameAgreement ==
    ASSUME OrdersDiffer
    PROVE  OneStandingOrder
<1> SUFFICES ASSUME NEW o \in Contracts, NEW c \in Contracts, o.inquiry = c.inquiry
             PROVE  o = c
  BY DEF OneStandingOrder
<1>1. AgreedAt(o.inquiry, o.price) /\ AgreedAt(o.inquiry, c.price) /\ o \in orders /\ c \in orders
  BY DEF Contracts, CheckContract, TermsMatch
<1>2. o.price = c.price
  BY <1>1 DEF AgreedAt
<1> QED
  BY <1>1, <1>2 DEF OrdersDiffer

\* Orders that differ have different ids.
LEMMA IdsDiffer ==
    ASSUME OrdersDiffer, NEW o \in orders, NEW c \in orders, ContractId(o) = ContractId(c)
    PROVE  o = c
<1>1. o.inquiry = c.inquiry /\ o.price = c.price
  <2>1. ContractId(o).inquiry = o.inquiry /\ ContractId(c).inquiry = c.inquiry
        /\ ContractId(o).price = o.price /\ ContractId(c).price = c.price
    BY DEF ContractId
  <2> QED
    BY <2>1
<1> QED
  BY <1>1 DEF OrdersDiffer

LEMMA SignContractKeeps ==
    ASSUME MarketInv, NEW i \in Inquiries, NEW price \in Prices, NEW notes \in Notes,
           SignContract(i, price, notes)
    PROVE  MarketInv'
<1>0. PICK o : o = [inquiry |-> i, price |-> price, notes |-> notes, at |-> mday,
                    ended |-> NoOffer, endedAt |-> 0]
  OBVIOUS
<1>1. CheckContract(o) /\ (\A c \in Contracts : c.inquiry # i) /\ orders' = orders \cup {o}
      /\ UNCHANGED <<mday, consumed, threads, payments, charged>>
  BY <1>0 DEF SignContract
<1>2. o \in Order /\ o.inquiry = i /\ o.price = price /\ o.at = mday /\ o.ended = NoOffer
  BY <1>0 DEF Order, MarketInv, MarketTypeOK
<1>3. \A c \in orders : ~(c.inquiry = i /\ c.price = price)
  BY <1>1, <1>2, SameTermsCount DEF Contracts
<1>4. OrdersDiffer'
  BY <1>1, <1>2, <1>3 DEF MarketInv, OrdersDiffer
<1>5. \A c \in orders : ContractId(c) # ContractId(o)
  BY <1>2, <1>3 DEF ContractId
<1>6. \A p : <<ContractId(o), p>> \notin charged
  <2> SUFFICES ASSUME NEW p, <<ContractId(o), p>> \in charged PROVE FALSE
    OBVIOUS
  <2>1. PICK c \in orders : <<ContractId(o), p>>[1] = ContractId(c)
    BY DEF MarketInv, ChargeInv, ChargesAreOrders
  <2> QED
    BY <2>1, <1>5
<1>7. \A c \in orders : ChargedPeriods(c)' = ChargedPeriods(c)
  BY <1>1 DEF ChargedPeriods
<1>8. ChargedPeriods(o)' = {} /\ ChargedPeriods(o) = {}
  BY <1>1, <1>6 DEF ChargedPeriods
<1>9. ChargeInv'
  <2>1. ChargesAreOrders'
    BY <1>1 DEF MarketInv, ChargeInv, ChargesAreOrders
  <2>2. ChargesInOrder'
    <3>1. 0 \in 0 .. Periods /\ {} = 0 .. 0 - 1
      BY MarketAssumption
    <3>2. \A c \in orders : \E n \in 0 .. Periods : ChargedPeriods(c) = 0 .. n - 1
      BY DEF MarketInv, ChargeInv, ChargesInOrder
    <3>3. \A c \in orders' : c = o \/ c \in orders
      BY <1>1
    <3>4. ASSUME NEW c \in orders' PROVE \E n \in 0 .. Periods : ChargedPeriods(c)' = 0 .. n - 1
      <4>1. CASE c = o
        BY <4>1, <1>8, <3>1
      <4>2. CASE c \in orders
        BY <4>2, <1>7, <3>2
      <4> QED
        BY <4>1, <4>2, <3>3
    <3> QED
      BY <3>4 DEF ChargesInOrder
  <2>3. ChargesWereDue'
    BY <1>1, <1>7, <1>8 DEF MarketInv, ChargeInv, ChargesWereDue, EffectiveAt, DueAt
  <2>4. PenaltyIsLast'
    BY <1>1, <1>6, <1>7 DEF MarketInv, ChargeInv, PenaltyIsLast, EffectiveAt, DueAt
  <2> QED
    BY <2>1, <2>2, <2>3, <2>4 DEF ChargeInv
<1>10. MarketTypeOK'
  BY <1>1, <1>2 DEF MarketInv, MarketTypeOK
<1>11. SalesWereAgreed' /\ OpenFirst'
  BY ZenonT(30), <1>1 DEF MarketInv, SalesWereAgreed, OpenFirst, Items, Is
<1> QED
  BY <1>4, <1>9, <1>10, <1>11 DEF MarketInv

LEMMA TerminateContractKeeps ==
    ASSUME MarketInv, NEW o \in orders, NEW by \in {"buyer", "provider"}, TerminateContract(o, by)
    PROVE  MarketInv'
<1>0. PICK e : e = [o EXCEPT !.ended = by, !.endedAt = mday]
  OBVIOUS
<1>1. o.ended = NoOffer /\ orders' = (orders \ {o}) \cup {e}
      /\ UNCHANGED <<mday, consumed, threads, payments, charged>>
  BY <1>0 DEF TerminateContract
<1>2. o \in Order /\ mday \in Nat
  BY DEF MarketInv, MarketTypeOK
<1>3. /\ e \in Order /\ e.inquiry = o.inquiry /\ e.price = o.price /\ e.notes = o.notes
      /\ e.at = o.at /\ e.ended = by /\ e.endedAt = mday
  BY <1>0, <1>2 DEF Order
<1>4. ContractId(e) = ContractId(o)
  BY <1>3 DEF ContractId
<1>5. OrdersDiffer'
  BY <1>1, <1>3 DEF MarketInv, OrdersDiffer
<1>6. ChargedPeriods(e)' = ChargedPeriods(o)
      /\ \A c \in orders : ChargedPeriods(c)' = ChargedPeriods(c)
  BY <1>1, <1>4 DEF ChargedPeriods
<1>7. ChargesAreOrders'
  BY <1>1, <1>4 DEF MarketInv, ChargeInv, ChargesAreOrders
<1>8. ChargesInOrder'
  <2>1. \A c \in orders : \E n \in 0 .. Periods : ChargedPeriods(c) = 0 .. n - 1
    BY DEF MarketInv, ChargeInv, ChargesInOrder
  <2>2. ASSUME NEW c \in orders' PROVE \E n \in 0 .. Periods : ChargedPeriods(c)' = 0 .. n - 1
    <3>1. CASE c = e
      BY <3>1, <1>6, <2>1
    <3>2. CASE c \in orders
      BY <3>2, <1>6, <2>1
    <3> QED
      BY <3>1, <3>2, <1>1
  <2> QED
    BY <2>2 DEF ChargesInOrder
<1>9. ChargesWereDue'
  <2>1. ASSUME NEW p \in ChargedPeriods(o)
        PROVE  DueAt(e, p) <= mday /\ DueAt(e, p) <= EffectiveAt(e)
    <3>1. DueAt(o, p) <= mday /\ DueAt(e, p) = DueAt(o, p)
      BY <1>3 DEF MarketInv, ChargeInv, ChargesWereDue, DueAt
    <3>2. EffectiveAt(e) = mday + Notice
      BY <1>3 DEF EffectiveAt
    <3>3. DueAt(o, p) \in Nat
      BY <1>2 DEF DueAt, Order, ChargedPeriods
    <3> QED
      BY <1>2, <3>1, <3>2, <3>3, MarketAssumption
  <2> QED
    BY <1>1, <1>6, <2>1 DEF MarketInv, ChargeInv, ChargesWereDue, DueAt, EffectiveAt
<1>10. PenaltyIsLast'
  <2>1. <<ContractId(o), Penalty>> \notin charged
    BY <1>1 DEF MarketInv, ChargeInv, PenaltyIsLast
  <2>2. ASSUME NEW c \in orders', <<ContractId(c), Penalty>> \in charged
        PROVE  c \in orders
    BY <1>1, <1>4, <2>1, <2>2
  <2> QED
    BY <1>1, <1>6, <2>2 DEF MarketInv, ChargeInv, PenaltyIsLast, DueAt, EffectiveAt
<1>11. MarketTypeOK'
  BY <1>1, <1>3 DEF MarketInv, MarketTypeOK
<1>12. SalesWereAgreed' /\ OpenFirst'
  BY <1>1 DEF MarketInv, SalesWereAgreed, OpenFirst, Items, Is
<1> QED
  BY <1>5, <1>7, <1>8, <1>9, <1>10, <1>11, <1>12 DEF MarketInv, ChargeInv

LEMMA SalesUntouched ==
    ASSUME MarketInv, UNCHANGED <<consumed, threads, payments>>
    PROVE  SalesWereAgreed' /\ OpenFirst'
BY DEF MarketInv, SalesWereAgreed, OpenFirst, Items, Is

\* A sweep bills the first periods not yet charged, without a gap.
LEMMA BillsAreNext ==
    ASSUME NEW n \in Nat, NEW B, B \subseteq n .. Periods - 1,
           \A p \in B : \A q \in n .. p : q \in B
    PROVE  \E m \in Nat : \/ m <= Periods /\ n <= m /\ B = n .. m - 1
                          \/ m = n /\ B = {}
<1>1. CASE B = {}
  BY <1>1
<1>2. CASE B # {}
  <2>1. Max(B) \in B /\ \A x \in B : x <= Max(B)
    <3>1. n \in Int /\ Periods - 1 \in Int
      BY MarketAssumption
    <3> QED
      BY <1>2, <3>1, MaxOfRange
  <2>2. Max(B) \in n .. Periods - 1
    BY <2>1
  <2>3. B = n .. Max(B)
    <3>1. n .. Max(B) \subseteq B
      BY <2>1
    <3>2. ASSUME NEW x \in B PROVE x \in n .. Max(B)
      <4>1. x \in n .. Periods - 1 /\ x <= Max(B)
        BY <2>1
      <4> QED
        BY <4>1, <2>2
    <3> QED
      BY <3>1, <3>2
  <2>4. Max(B) + 1 \in Nat /\ Max(B) + 1 <= Periods /\ n <= Max(B) + 1 /\ (Max(B) + 1) - 1 = Max(B)
    BY <2>2, MarketAssumption
  <2> QED
    BY <2>3, <2>4
<1> QED
  BY <1>1, <1>2

LEMMA ChargeContractsKeeps ==
    ASSUME MarketInv, ChargeContracts
    PROVE  MarketInv'
<1>1. PICK bills \in [Contracts -> SUBSET (0 .. Periods - 1)], levied \in SUBSET Contracts :
        /\ \A o \in Contracts :
              /\ bills[o] \subseteq Billable(o)
              /\ \A p \in bills[o], q \in Billable(o) : q < p => q \in bills[o]
        /\ \A o \in levied : PenaltyOwed(o, bills[o])
        /\ charged' = charged
             \cup (UNION {{<<ContractId(o), p>> : p \in bills[o]} : o \in Contracts})
             \cup {<<ContractId(o), Penalty>> : o \in levied}
        /\ UNCHANGED <<mday, consumed, threads, payments, orders>>
  BY DEF ChargeContracts
<1>2. Contracts \subseteq orders /\ levied \subseteq orders
  BY DEF Contracts
<1>3. \A o \in orders : o \in Order /\ o.at \in Nat /\ o.endedAt \in Nat
  BY DEF MarketInv, MarketTypeOK, Order
<1>0. \A c : c \in charged' <=>
          \/ c \in charged
          \/ \E o \in Contracts : \E p \in bills[o] : c = <<ContractId(o), p>>
          \/ \E o \in levied : c = <<ContractId(o), Penalty>>
  <2>2. \A c : c \in UNION {{<<ContractId(o), p>> : p \in bills[o]} : o \in Contracts}
           <=> \E o \in Contracts : c \in {<<ContractId(o), p>> : p \in bills[o]}
    OBVIOUS
  <2>3. \A c, o : c \in {<<ContractId(o), p>> : p \in bills[o]}
           <=> \E p \in bills[o] : c = <<ContractId(o), p>>
    OBVIOUS
  <2>4. \A c : c \in {<<ContractId(o), Penalty>> : o \in levied}
           <=> \E o \in levied : c = <<ContractId(o), Penalty>>
    OBVIOUS
  <2>1. PICK U, L :
          /\ U = UNION {{<<ContractId(o), p>> : p \in bills[o]} : o \in Contracts}
          /\ L = {<<ContractId(o), Penalty>> : o \in levied}
          /\ charged' = charged \cup U \cup L
    BY <1>1, Zenon
  <2>5. \A c : c \in U <=> \E o \in Contracts : \E p \in bills[o] : c = <<ContractId(o), p>>
    BY <2>1, <2>2, <2>3
  <2>6. \A c : c \in L <=> \E o \in levied : c = <<ContractId(o), Penalty>>
    BY <2>1, <2>4
  <2> QED
    BY <2>1, <2>5, <2>6
<1>4. ASSUME NEW o \in orders, NEW p \in 0 .. Periods - 1
      PROVE  <<ContractId(o), p>> \in charged'
               <=> (<<ContractId(o), p>> \in charged \/ (o \in Contracts /\ p \in bills[o]))
  <2>1. \A c \in Contracts : ContractId(c) = ContractId(o) => c = o
    BY <1>2, IdsDiffer DEF MarketInv
  <2>2. p # Penalty
    BY DEF Penalty
  <2>3. \A c : \A q : <<ContractId(o), p>> = <<ContractId(c), q>> => ContractId(c) = ContractId(o) /\ p = q
    OBVIOUS
  <2> QED
    BY <1>0, <2>1, <2>2, <2>3
<1>5. ASSUME NEW o \in orders
      PROVE  <<ContractId(o), Penalty>> \in charged'
               => (<<ContractId(o), Penalty>> \in charged \/ o \in levied)
  <2> SUFFICES ASSUME <<ContractId(o), Penalty>> \in charged',
                      <<ContractId(o), Penalty>> \notin charged
               PROVE  o \in levied
    OBVIOUS
  <2>1. \A c \in Contracts : \A p \in bills[c] : p # Penalty
    BY <1>1 DEF Penalty
  <2>2. PICK c \in levied : <<ContractId(o), Penalty>> = <<ContractId(c), Penalty>>
    <3>1. \A c : \A q : <<ContractId(o), Penalty>> = <<ContractId(c), q>> => q = Penalty
      OBVIOUS
    <3> QED
      BY <1>0, <2>1, <3>1
  <2>3. ContractId(o) = ContractId(c)
    BY <2>2
  <2> QED
    BY <1>2, <2>2, <2>3, IdsDiffer DEF MarketInv
<1>6. charged \subseteq charged'
  BY <1>1
<1>7. \A o \in orders : ChargedPeriods(o)'
         = IF o \in Contracts THEN ChargedPeriods(o) \cup bills[o] ELSE ChargedPeriods(o)
  <2> SUFFICES ASSUME NEW o \in orders
               PROVE  ChargedPeriods(o)'
                        = IF o \in Contracts THEN ChargedPeriods(o) \cup bills[o] ELSE ChargedPeriods(o)
    OBVIOUS
  <2>1. o \in Contracts => bills[o] \subseteq 0 .. Periods - 1
    BY <1>1
  <2> QED
    BY <1>4, <2>1 DEF ChargedPeriods
<1>8. ChargesAreOrders'
  <2> SUFFICES ASSUME NEW c \in charged' PROVE \E o \in orders : c[1] = ContractId(o)
    BY <1>1 DEF ChargesAreOrders
  <2>1. CASE c \in charged
    BY <2>1 DEF MarketInv, ChargeInv, ChargesAreOrders
  <2>2. CASE c \notin charged
    <3>1. \E o \in Contracts : \E p : c = <<ContractId(o), p>>
      <4>1. levied \subseteq Contracts
        BY <1>1
      <4> QED
        BY <1>0, <2>2, <4>1
    <3> QED
      BY <3>1, <1>2
  <2> QED
    BY <2>1, <2>2
<1>9. ASSUME NEW o \in Contracts
      PROVE  \E n \in 0 .. Periods, m \in 0 .. Periods :
                /\ ChargedPeriods(o) = 0 .. n - 1 /\ Cardinality(ChargedPeriods(o)) = n
                /\ ChargedPeriods(o) \cup bills[o] = 0 .. m - 1
  <2>1. PICK n \in 0 .. Periods : ChargedPeriods(o) = 0 .. n - 1
    BY <1>2 DEF MarketInv, ChargeInv, ChargesInOrder
  <2>2. Cardinality(ChargedPeriods(o)) = n
    <3>1. 0 \in Int /\ n - 1 \in Int /\ n - 1 - 0 + 1 = n /\ (0 > n - 1 => n = 0)
      BY MarketAssumption
    <3> QED
      BY <2>1, <3>1, FS_Interval
  <2>3. n \in Nat /\ mday \in Nat
    BY DEF MarketInv, MarketTypeOK
  <2>4. bills[o] \subseteq n .. Periods - 1
    BY <1>1, <2>2 DEF Billable
  <2>5. ASSUME NEW p \in bills[o], NEW q \in n .. p PROVE q \in bills[o]
    <3>1. p \in Billable(o) /\ p \in n .. Periods - 1
      BY <1>1, <2>4
    <3>2. DueAt(o, q) <= DueAt(o, p) /\ DueAt(o, p) \in Nat /\ DueAt(o, q) \in Nat /\ EffectiveAt(o) \in Nat
      BY <1>2, <1>3, <2>3, <3>1, MarketAssumption DEF DueAt, EffectiveAt
    <3>3. DueAt(o, q) <= mday /\ (o.ended # NoOffer => DueAt(o, q) <= EffectiveAt(o))
      BY <2>3, <3>1, <3>2 DEF Billable
    <3>4. q \in n .. Periods - 1
      BY <2>3, <3>1, MarketAssumption
    <3>5. q \in Billable(o)
      BY <2>2, <3>3, <3>4 DEF Billable
    <3>6. q = p \/ q < p
      BY <2>3, <3>1
    <3> QED
      BY <1>1, <3>5, <3>6
  <2>6. PICK m \in Nat : (m <= Periods /\ n <= m /\ bills[o] = n .. m - 1) \/ (m = n /\ bills[o] = {})
    BY <2>3, <2>4, <2>5, BillsAreNext
  <2>7. m \in 0 .. Periods /\ (0 .. n - 1) \cup bills[o] = 0 .. m - 1
    BY <2>3, <2>6, MarketAssumption
  <2> QED
    BY <2>1, <2>2, <2>7
<1>10. ChargesInOrder'
  BY <1>1, <1>7, <1>9 DEF MarketInv, ChargeInv, ChargesInOrder
<1>11. ChargesWereDue'
  <2> SUFFICES ASSUME NEW o \in orders, NEW p \in ChargedPeriods(o)'
               PROVE  DueAt(o, p) <= mday /\ (o.ended # NoOffer => DueAt(o, p) <= EffectiveAt(o))
    BY <1>1 DEF ChargesWereDue
  <2>1. CASE p \in ChargedPeriods(o)
    BY <2>1 DEF MarketInv, ChargeInv, ChargesWereDue
  <2>2. CASE o \in Contracts /\ p \in bills[o]
    BY <1>1, <2>2 DEF Billable
  <2> QED
    BY <2>1, <2>2, <1>7
<1>12. PenaltyIsLast'
  <2> SUFFICES ASSUME NEW o \in orders, <<ContractId(o), Penalty>> \in charged'
               PROVE  /\ o.ended # NoOffer
                      /\ \A p \in 0 .. Periods - 1 :
                            DueAt(o, p) <= EffectiveAt(o) => p \in ChargedPeriods(o)'
    BY <1>1 DEF PenaltyIsLast, DueAt, EffectiveAt
  <2>1. CASE <<ContractId(o), Penalty>> \in charged
    BY <2>1, <1>7 DEF MarketInv, ChargeInv, PenaltyIsLast
  <2>2. CASE o \in levied
    <3>1. o \in Contracts /\ bills[o] = Billable(o) /\ o.ended # NoOffer /\ mday >= EffectiveAt(o)
      BY <1>1, <2>2 DEF PenaltyOwed, EndedEarly
    <3>2. PICK n \in 0 .. Periods : ChargedPeriods(o) = 0 .. n - 1 /\ Cardinality(ChargedPeriods(o)) = n
      BY <1>9, <3>1
    <3>3. ASSUME NEW p \in 0 .. Periods - 1, DueAt(o, p) <= EffectiveAt(o)
          PROVE  p \in ChargedPeriods(o) \cup bills[o]
      <4>1. EffectiveAt(o) \in Nat /\ DueAt(o, p) \in Nat /\ mday \in Nat
        BY <1>3, MarketAssumption DEF DueAt, EffectiveAt, MarketInv, MarketTypeOK
      <4>2. DueAt(o, p) <= mday
        BY <3>1, <3>3, <4>1
      <4>3. p \in 0 .. n - 1 \/ p \in n .. Periods - 1
        BY <3>2, MarketAssumption
      <4> QED
        BY <3>1, <3>2, <3>3, <4>2, <4>3 DEF Billable
    <3> QED
      BY <1>7, <3>1, <3>3
  <2> QED
    BY <2>1, <2>2, <1>5
<1>13. MarketTypeOK' /\ OrdersDiffer' /\ OpenFirst' /\ SalesWereAgreed'
  BY <1>1, SalesUntouched DEF MarketInv, MarketTypeOK, OrdersDiffer
<1> QED
  BY <1>8, <1>10, <1>11, <1>12, <1>13 DEF MarketInv, ChargeInv

----------------------------------------------------------------------------
LEMMA MarketStep == MarketInv /\ [MarketNext]_marketVars => MarketInv'
<1> SUFFICES ASSUME MarketInv, [MarketNext]_marketVars PROVE MarketInv'
  OBVIOUS
<1>1. ASSUME UNCHANGED <<consumed, threads, payments, orders, charged>>,
             mday' = mday \/ mday' = mday + 1
      PROVE  MarketInv'
  <2>1. mday \in Nat /\ mday' \in Nat /\ mday <= mday'
    BY <1>1 DEF MarketInv, MarketTypeOK
  <2>2. ChargeInv' /\ OrdersDiffer'
    BY <1>1, <2>1, ChargesKept
  <2> QED
    BY <1>1, <2>1, <2>2, SalesUntouched DEF MarketInv, MarketTypeOK
<1>2. CASE UNCHANGED marketVars
  BY <1>1, <1>2 DEF marketVars
<1>3. CASE UpdateListing \/ (\E bySweep \in BOOLEAN : CloseListing(bySweep))
           \/ (\E b \in Buyers : StandingChanges(b)) \/ MarketDayPasses
  BY <1>1, <1>3 DEF UpdateListing, CloseListing, StandingChanges, MarketDayPasses
<1>4. CASE \E t \in Payments, b \in Buyers, price \in Prices : PayDirectly(t, b, price)
  BY <1>4, PayKeeps DEF PayDirectly
<1>5. CASE \E t \in Payments, i \in Inquiries : SettleInquiry(t, i)
  <2>1. \A i \in Inquiries : Buyer[i] \in Buyers
    BY DEF Buyers
  <2> QED
    BY <1>5, <2>1, PayKeeps DEF SettleInquiry
<1> QED
  BY <1>2, <1>3, <1>4, <1>5, InquiryKeeps, ExpireInquiriesKeeps, SettlePaymentKeeps,
     SignContractKeeps, TerminateContractKeeps, ChargeContractsKeeps DEF MarketNext

LEMMA MarketAlways == MarketSpec => []MarketInv
BY MarketInitInv, MarketStep, PTL DEF MarketSpec

\* For any listing, any number of inquiries, payments and repricings: the units
\* attested as sold to a buyer at a price never outnumber the inquiries in
\* which the provider signed that price for that buyer (attest_sale).
THEOREM SalesTheorem == MarketSpec => []SalesWereAgreed
<1>1. MarketInv => SalesWereAgreed
  BY DEF MarketInv
<1> QED
  BY <1>1, MarketAlways, PTL

\* However often contracts stop counting and count again, the charge sweep
\* never reads two standing orders under one agreement.
THEOREM StandingOrderTheorem == MarketSpec => []OneStandingOrder
<1>1. MarketInv => OneStandingOrder
  BY SameAgreement DEF MarketInv
<1> QED
  BY <1>1, MarketAlways, PTL

\* For any cadence, notice and backlog: once the early-termination penalty of
\* a contract is charged, exactly the periods due through its notice window
\* have been charged, and none is ever charged after it.
THEOREM PenaltyTheorem == MarketSpec => []PenaltyClosesTheBook
<1>1. MarketInv => PenaltyClosesTheBook
  <2> SUFFICES ASSUME MarketInv, NEW o \in orders, <<ContractId(o), Penalty>> \in charged
               PROVE  /\ o.ended # NoOffer
                      /\ ChargedPeriods(o) = {p \in 0 .. Periods - 1 : DueAt(o, p) <= EffectiveAt(o)}
    BY DEF PenaltyClosesTheBook
  <2>1. o.ended # NoOffer
        /\ \A p \in 0 .. Periods - 1 : DueAt(o, p) <= EffectiveAt(o) => p \in ChargedPeriods(o)
    BY DEF MarketInv, ChargeInv, PenaltyIsLast
  <2>2. \A p \in ChargedPeriods(o) : DueAt(o, p) <= EffectiveAt(o)
    BY <2>1 DEF MarketInv, ChargeInv, ChargesWereDue
  <2>3. ChargedPeriods(o) \subseteq 0 .. Periods - 1
    BY DEF ChargedPeriods
  <2> QED
    BY <2>1, <2>2, <2>3
<1> QED
  BY <1>1, MarketAlways, PTL

----------------------------------------------------------------------------
(* Governance: the charter in force, as a table of the walk from the root. *)

CharterCount == Cardinality(Charters)

LEMMA CharterCountIsNat == CharterCount \in Nat
BY GovernanceAssumption, FS_CardinalityType DEF CharterCount

\* The amendments that supersede c, as positions of the log.
NextOf(c, done) == {i \in DOMAIN filed : filed[i] \in Windowed /\ Supersedes(filed[i], c, done)}

LEMMA AmendedIs ==
    \A c, done : Amended(c, done) =
        IF NextOf(c, done) = {} THEN c ELSE MotionOf[filed[Min(NextOf(c, done))]].charter
BY DEF Amended, NextOf

LEMMA AmendedType ==
    ASSUME filed \in Seq(Motions), NEW c \in Charters, NEW done
    PROVE  Amended(c, done) \in Charters
<1>1. CASE NextOf(c, done) = {}
  BY <1>1, AmendedIs
<1>2. CASE NextOf(c, done) # {}
  <2>1. NextOf(c, done) \subseteq Nat /\ NextOf(c, done) \subseteq DOMAIN filed
    BY DEF NextOf
  <2>2. Min(NextOf(c, done)) \in NextOf(c, done)
    BY <1>2, <2>1, MinOfNaturals
  <2>3. PICK i : i = Min(NextOf(c, done))
    OBVIOUS
  <2>4. i \in DOMAIN filed /\ Supersedes(filed[i], c, done)
    BY <2>2, <2>3 DEF NextOf
  <2>5. filed[i] \in Motions /\ MotionOf[filed[i]].kind = "amendment"
    BY <2>4 DEF Supersedes
  <2> QED
    BY <1>2, <2>3, <2>5, AmendedIs, GovernanceAssumption
<1> QED
  BY <1>1, <1>2

IsWalk(t, done, n) ==
    t = [i \in 0 .. n |-> IF i = 0 THEN Genesis ELSE Amended(t[i - 1], done)]

LEMMA WalkExists ==
    ASSUME NEW done, NEW n \in Nat
    PROVE  \E t : IsWalk(t, done, n)
<1> DEFINE Bad == {k \in 0 .. n : ~ \E t : IsWalk(t, done, k)}
<1>1. SUFFICES ASSUME Bad # {} PROVE FALSE
  OBVIOUS
<1>2. Bad \subseteq Nat
  OBVIOUS
<1>3. PICK k \in Bad : \A m \in Bad : k <= m
  <2> HIDE DEF Bad
  <2> QED
    BY <1>1, <1>2, LeastNatural
<1>4. k # 0
  <2>1. IsWalk([i \in 0 .. 0 |-> Genesis], done, 0)
    BY DEF IsWalk
  <2> QED
    BY <2>1
<1>5. k - 1 \in 0 .. n /\ k - 1 \notin Bad /\ k \in Nat
  BY <1>3, <1>4
<1>6. PICK t : IsWalk(t, done, k - 1)
  BY <1>5
<1> DEFINE u == [i \in 0 .. k |-> IF i < k THEN t[i] ELSE Amended(t[k - 1], done)]
<1>7. \A i \in 0 .. k - 1 : t[i] = IF i = 0 THEN Genesis ELSE Amended(t[i - 1], done)
  BY <1>6 DEF IsWalk
<1>8. ASSUME NEW i \in 0 .. k
      PROVE  u[i] = IF i = 0 THEN Genesis ELSE Amended(u[i - 1], done)
  <2>1. CASE i = k
    <3>1. k - 1 \in 0 .. k /\ k - 1 < k
      BY <1>4, <1>5
    <3> QED
      BY <1>4, <1>5, <2>1, <3>1
  <2>2. CASE i # k
    <3>1. i \in 0 .. k - 1 /\ (i # 0 => i - 1 \in 0 .. k /\ i - 1 < k) /\ i < k
      BY <1>5, <2>2
    <3> QED
      BY <1>7, <3>1
  <2> QED
    BY <2>1, <2>2
<1>9. IsWalk(u, done, k)
  BY <1>8 DEF IsWalk
<1> QED
  BY <1>9

LEMMA EffectiveIsWalk ==
    ASSUME NEW done
    PROVE  \E t : IsWalk(t, done, CharterCount) /\ EffectiveAfter(done) = t[CharterCount]
<1> DEFINE Eq(t) == t = [n \in 0 .. Cardinality(Charters) |->
                           IF n = 0 THEN Genesis ELSE Amended(t[n - 1], done)]
           w == CHOOSE t : Eq(t)
<1>1. EffectiveAfter(done) = w[Cardinality(Charters)]
  BY DEF EffectiveAfter
<1>2. \E t : Eq(t)
  BY WalkExists, CharterCountIsNat DEF IsWalk, CharterCount
<1>3. Eq(w)
  BY <1>2
<1>4. IsWalk(w, done, CharterCount)
  BY <1>3 DEF IsWalk, CharterCount
<1> QED
  BY <1>1, <1>4 DEF CharterCount

LEMMA WalkType ==
    ASSUME filed \in Seq(Motions), NEW done, NEW t, IsWalk(t, done, CharterCount)
    PROVE  \A i \in 0 .. CharterCount : t[i] \in Charters
<1> DEFINE Bad == {k \in 0 .. CharterCount : t[k] \notin Charters}
<1>2. SUFFICES ASSUME Bad # {} PROVE FALSE
  OBVIOUS
<1>3. Bad \subseteq Nat
  OBVIOUS
<1>4. PICK k \in Bad : \A m \in Bad : k <= m
  <2> HIDE DEF Bad
  <2> QED
    BY <1>2, <1>3, LeastNatural
<1>5. k \in 0 .. CharterCount /\ t[k] = IF k = 0 THEN Genesis ELSE Amended(t[k - 1], done)
  BY DEF IsWalk
<1>6. k # 0
  BY <1>4, <1>5, GovernanceAssumption
<1>7. k - 1 \in 0 .. CharterCount /\ t[k - 1] \in Charters
  BY <1>4, <1>5, <1>6, CharterCountIsNat
<1>8. Amended(t[k - 1], done) \in Charters
  BY <1>7, AmendedType
<1> QED
  BY <1>4, <1>5, <1>6, <1>8

LEMMA EffectiveType ==
    ASSUME filed \in Seq(Motions), NEW done
    PROVE  EffectiveAfter(done) \in Charters
BY EffectiveIsWalk, WalkType, CharterCountIsNat

EffectiveWalks == \A done : \E t : IsWalk(t, done, CharterCount) /\ EffectiveAfter(done) = t[CharterCount]

LEMMA WalkAlways == EffectiveWalks
BY EffectiveIsWalk DEF EffectiveWalks

\* The charter in force is the same when the same amendments supersede.
LEMMA EffectiveSame ==
    ASSUME NEW done, NEW done2, filed \in Seq(Motions),
           \A c \in Charters : Amended(c, done2)' = Amended(c, done)
    PROVE  EffectiveAfter(done2)' = EffectiveAfter(done)
<1>1. PICK t : IsWalk(t, done, CharterCount) /\ EffectiveAfter(done) = t[CharterCount]
  BY EffectiveIsWalk
<1>2. EffectiveWalks'
  BY WalkAlways, PTL
<1>3. PICK u : IsWalk(u, done2, CharterCount)' /\ EffectiveAfter(done2)' = u[CharterCount]
  BY <1>2 DEF EffectiveWalks
<1>4. \A k \in 0 .. CharterCount : t[k] = IF k = 0 THEN Genesis ELSE Amended(t[k - 1], done)
  BY <1>1 DEF IsWalk
<1>5. \A k \in 0 .. CharterCount : u[k] = IF k = 0 THEN Genesis ELSE Amended(u[k - 1], done2)'
  BY <1>3 DEF IsWalk
<1> DEFINE Bad == {k \in 0 .. CharterCount : t[k] \notin Charters \/ u[k] # t[k]}
<1>6. SUFFICES ASSUME Bad # {} PROVE FALSE
  BY <1>1, <1>3, CharterCountIsNat
<1>7. Bad \subseteq Nat
  OBVIOUS
<1>8. PICK k \in Bad : \A m \in Bad : k <= m
  <2> HIDE DEF Bad
  <2> QED
    BY <1>6, <1>7, LeastNatural
<1>9. k \in 0 .. CharterCount /\ (t[k] \notin Charters \/ u[k] # t[k])
  OBVIOUS
<1>10. k # 0
  BY <1>4, <1>5, <1>9, GovernanceAssumption
<1>11. k - 1 \in 0 .. CharterCount /\ t[k - 1] \in Charters /\ u[k - 1] = t[k - 1]
  BY <1>8, <1>10, CharterCountIsNat
<1>12. Amended(t[k - 1], done) \in Charters
  BY <1>11, AmendedType
<1>13. Amended(t[k - 1], done2)' = Amended(t[k - 1], done)
  BY <1>11
<1> QED
  BY <1>4, <1>5, <1>9, <1>10, <1>11, <1>12, <1>13

----------------------------------------------------------------------------
(* What the records are, and that an enacted proposal's vote is over.      *)

GovTypeOK ==
    /\ day \in Nat /\ tailDay \in Nat
    /\ filed \in Seq(Motions)
    /\ \A p \in Windowed : window[p].ends \in Nat /\ window[p].implementation \in Nat
    /\ DOMAIN ballots = Windowed

\* What was enacted is closed to ballots, on the clock ballots are admitted by.
EnactedIsClosed == \A p \in DOMAIN enacted : p \in Windowed /\ tailDay > window[p].ends

GovInv == GovTypeOK /\ EnactedIsClosed

LEMMA AdmissionDayIs ==
    ASSUME GovTypeOK
    PROVE  AdmissionDay \in Nat /\ day <= AdmissionDay /\ tailDay <= AdmissionDay
<1>1. PICK b \in Nat : day <= b /\ tailDay <= b
  <2>1. day + tailDay \in Nat /\ day <= day + tailDay /\ tailDay <= day + tailDay
    BY DEF GovTypeOK
  <2> QED
    BY <2>1
<1>2. {day, tailDay} \subseteq 0 .. b /\ {day, tailDay} # {} /\ 0 \in Int /\ b \in Int
  BY <1>1 DEF GovTypeOK
<1>3. Max({day, tailDay}) \in {day, tailDay} /\ \A x \in {day, tailDay} : x <= Max({day, tailDay})
  BY <1>2, MaxOfRange
<1> QED
  BY <1>3 DEF AdmissionDay, GovTypeOK

LEMMA EffectiveIsCharter ==
    ASSUME GovTypeOK
    PROVE  EffectiveCharter \in Charters
BY EffectiveType DEF GovTypeOK, EffectiveCharter

LEMMA WindowEnds ==
    ASSUME GovTypeOK, NEW p \in Motions, NEW at \in Nat
    PROVE  LET w == WindowFor(p, EffectiveCharter, at)
           IN  w.ends \in Nat /\ at <= w.ends /\ w.implementation \in Nat
<1>1. PICK c \in Charters : c = EffectiveCharter
  BY EffectiveIsCharter
<1>2. CharterTerms[c].window \in Nat /\ CharterTerms[c].charterWindow \in Nat
      /\ CharterTerms[c].emergencyWindow \in Nat /\ CharterTerms[c].delay \in Nat
  BY <1>1, GovernanceAssumption
<1>3. LET w == WindowFor(p, c, at)
      IN  w.ends \in Nat /\ at <= w.ends /\ w.implementation \in Nat
  BY <1>2 DEF WindowFor
<1> QED
  BY <1>1, <1>3

\* A proposal whose vote is over keeps its window and its ballots.
Kept(p) == p \in Windowed' /\ window'[p] = window[p] /\ ballots'[p] = ballots[p]

LEMMA GovInitInv == GovInit => GovInv
BY DEF GovInit, GovInv, GovTypeOK, EnactedIsClosed, NoEntry, Windowed

\* Steps that neither table, nor vote, nor enact.
LEMMA QuietKeeps ==
    ASSUME GovInv, UNCHANGED <<filed, window, ballots, enacted>>,
           day' \in Nat, tailDay' \in Nat, tailDay <= tailDay'
    PROVE  GovInv' /\ \A p \in Windowed : Kept(p)
<1>1. GovTypeOK' /\ \A p \in Windowed : Kept(p)
  BY DEF GovInv, GovTypeOK, Windowed, Kept
<1>2. EnactedIsClosed'
  <2> SUFFICES ASSUME NEW p \in DOMAIN enacted PROVE p \in Windowed /\ tailDay' > window[p].ends
    BY DEF EnactedIsClosed, Windowed
  <2>1. p \in Windowed /\ tailDay > window[p].ends
    BY DEF GovInv, EnactedIsClosed
  <2>2. window[p].ends \in Nat /\ tailDay \in Nat
    BY <2>1 DEF GovInv, GovTypeOK
  <2> QED
    BY <2>1, <2>2
<1> QED
  BY <1>1, <1>2 DEF GovInv

\* Ballots are refused once the admission clock has passed the vote's close.
Closed(p) == p \in Windowed /\ tailDay > window[p].ends

LEMMA ProposeKeeps ==
    ASSUME GovInv, NEW p \in Motions, ProposeMotion(p)
    PROVE  /\ GovInv' /\ \A q \in Windowed : Kept(q)
           /\ filed' \in {filed, Append(filed, p)} /\ p \notin Windowed
           /\ Windowed' = Windowed \cup {p} /\ tailDay <= window'[p].ends
<1> DEFINE w == WindowFor(p, EffectiveCharter, AdmissionDay)
<1>1. /\ window' = WithEntry(window, p, w) /\ ballots' = WithEntry(ballots, p, NoEntry)
      /\ p \notin Windowed /\ filed' \in {filed, Append(filed, p)}
      /\ tailDay' = AdmissionDay /\ day' = day /\ enacted' = enacted
  BY DEF ProposeMotion, MayPropose, FiledWith, Admits
<1>2. /\ w.ends \in Nat /\ w.implementation \in Nat /\ AdmissionDay <= w.ends
      /\ AdmissionDay \in Nat /\ tailDay <= AdmissionDay /\ tailDay \in Nat
  BY WindowEnds, AdmissionDayIs DEF GovInv, GovTypeOK
<1> HIDE DEF w
<1>3. DOMAIN window' = Windowed \cup {p} /\ window'[p] = w
      /\ \A q \in Windowed : window'[q] = window[q]
  BY <1>1 DEF Windowed, WithEntry
<1>4. DOMAIN ballots' = DOMAIN ballots \cup {p} /\ \A q \in DOMAIN ballots : q # p => ballots'[q] = ballots[q]
  BY <1>1 DEF WithEntry
<1>5. \A q \in Windowed : Kept(q)
  BY <1>1, <1>3, <1>4 DEF Kept, Windowed, GovInv, GovTypeOK
<1>6. filed' \in Seq(Motions)
  BY <1>1 DEF GovInv, GovTypeOK
<1>7. \A q \in Windowed' : window'[q].ends \in Nat /\ window'[q].implementation \in Nat
  BY <1>2, <1>3 DEF Windowed, GovInv, GovTypeOK
<1>8. GovTypeOK'
  BY <1>1, <1>2, <1>3, <1>4, <1>6, <1>7 DEF GovInv, GovTypeOK, Windowed
<1>9. ASSUME NEW q \in DOMAIN enacted'
      PROVE  q \in Windowed' /\ tailDay' > window'[q].ends
  <2>1. q \in Windowed /\ tailDay > window[q].ends
    BY <1>1, <1>9 DEF GovInv, EnactedIsClosed
  <2>2. window[q].ends \in Nat /\ tailDay \in Nat
    BY <2>1 DEF GovInv, GovTypeOK
  <2> QED
    BY <1>1, <1>2, <1>3, <2>1, <2>2 DEF Windowed
<1>10. EnactedIsClosed'
  BY <1>9 DEF EnactedIsClosed
<1>11. Windowed' = Windowed \cup {p} /\ tailDay <= window'[p].ends
  BY <1>2, <1>3 DEF Windowed
<1> QED
  BY <1>1, <1>5, <1>8, <1>10, <1>11 DEF GovInv

LEMMA ProposeTornKeeps ==
    ASSUME GovInv, NEW p \in Motions, ProposeTorn(p)
    PROVE  /\ GovInv' /\ \A q \in Windowed : Kept(q)
           /\ filed' \in {filed, Append(filed, p)} /\ p \notin Windowed
<1>1. /\ UNCHANGED <<window, ballots, enacted, day>>
      /\ p \notin Windowed /\ filed' \in {filed, Append(filed, p)} /\ tailDay' = AdmissionDay
  BY DEF ProposeTorn, MayPropose, FiledWith, Admits
<1>2. AdmissionDay \in Nat /\ tailDay <= AdmissionDay
  BY AdmissionDayIs DEF GovInv
<1>3. filed' \in Seq(Motions)
  BY <1>1 DEF GovInv, GovTypeOK
<1>4. GovTypeOK' /\ \A q \in Windowed : Kept(q)
  BY <1>1, <1>2, <1>3 DEF GovInv, GovTypeOK, Windowed, Kept
<1>5. ASSUME NEW q \in DOMAIN enacted
      PROVE  q \in Windowed /\ tailDay' > window[q].ends
  <2>1. q \in Windowed /\ tailDay > window[q].ends
    BY DEF GovInv, EnactedIsClosed
  <2>2. window[q].ends \in Nat /\ tailDay \in Nat
    BY <2>1 DEF GovInv, GovTypeOK
  <2> QED
    BY <1>1, <1>2, <2>1, <2>2
<1>6. EnactedIsClosed'
  BY <1>1, <1>5 DEF EnactedIsClosed, Windowed
<1> QED
  BY <1>1, <1>4, <1>6 DEF GovInv

LEMMA CastBallotKeeps ==
    ASSUME GovInv, NEW p \in Motions, NEW m, NEW choice, CastBallot(p, m, choice)
    PROVE  GovInv' /\ \A q \in Windowed : Closed(q) => Kept(q)
<1>1. /\ UNCHANGED <<window, filed, enacted, day>> /\ tailDay' = AdmissionDay
      /\ p \in Windowed /\ AdmissionDay <= window[p].ends
      /\ ballots' = [ballots EXCEPT ![p] = WithEntry(@, m, choice)]
  BY DEF CastBallot, Admits
<1>2. AdmissionDay \in Nat /\ tailDay <= AdmissionDay
  BY AdmissionDayIs DEF GovInv
<1>3. DOMAIN ballots' = DOMAIN ballots /\ \A q \in DOMAIN ballots : q # p => ballots'[q] = ballots[q]
  BY <1>1
<1>4. GovTypeOK'
  BY <1>1, <1>2, <1>3 DEF GovInv, GovTypeOK, Windowed
<1>5. ~Closed(p)
  <2>1. window[p].ends \in Nat /\ tailDay \in Nat
    BY <1>1 DEF GovInv, GovTypeOK
  <2> QED
    BY <1>1, <1>2, <2>1 DEF Closed
<1>6. \A q \in Windowed : Closed(q) => Kept(q)
  BY <1>1, <1>3, <1>5 DEF Kept, Windowed, GovInv, GovTypeOK
<1>7. ASSUME NEW q \in DOMAIN enacted
      PROVE  q \in Windowed /\ tailDay' > window[q].ends
  <2>1. q \in Windowed /\ tailDay > window[q].ends
    BY DEF GovInv, EnactedIsClosed
  <2>2. window[q].ends \in Nat /\ tailDay \in Nat
    BY <2>1 DEF GovInv, GovTypeOK
  <2> QED
    BY <1>1, <1>2, <2>1, <2>2
<1>8. EnactedIsClosed'
  BY <1>1, <1>7 DEF EnactedIsClosed, Windowed
<1> QED
  BY <1>4, <1>6, <1>8 DEF GovInv

----------------------------------------------------------------------------
(* The enactment sweep, as a table of the enactments after each proposal.  *)

IsSweep(t, n) ==
    t = [i \in 0 .. n |-> IF i = 0 THEN enacted ELSE SweepStep(t[i - 1], filed[i])]

LEMMA SweepExists ==
    ASSUME NEW n \in Nat
    PROVE  \E t : IsSweep(t, n)
<1> DEFINE Bad == {k \in 0 .. n : ~ \E t : IsSweep(t, k)}
<1>1. SUFFICES ASSUME Bad # {} PROVE FALSE
  OBVIOUS
<1>2. Bad \subseteq Nat
  OBVIOUS
<1>3. PICK k \in Bad : \A m \in Bad : k <= m
  <2> HIDE DEF Bad
  <2> QED
    BY <1>1, <1>2, LeastNatural
<1>4. k # 0
  <2>1. IsSweep([i \in 0 .. 0 |-> enacted], 0)
    BY DEF IsSweep
  <2> QED
    BY <2>1
<1>5. k - 1 \in 0 .. n /\ k - 1 \notin Bad /\ k \in Nat
  BY <1>3, <1>4
<1>6. PICK t : IsSweep(t, k - 1)
  BY <1>5
<1> DEFINE u == [i \in 0 .. k |-> IF i < k THEN t[i] ELSE SweepStep(t[k - 1], filed[k])]
<1>7. \A i \in 0 .. k - 1 : t[i] = IF i = 0 THEN enacted ELSE SweepStep(t[i - 1], filed[i])
  BY <1>6 DEF IsSweep
<1>8. ASSUME NEW i \in 0 .. k
      PROVE  u[i] = IF i = 0 THEN enacted ELSE SweepStep(u[i - 1], filed[i])
  <2>1. CASE i = k
    <3>1. k - 1 \in 0 .. k /\ k - 1 < k
      BY <1>4, <1>5
    <3> QED
      BY <1>4, <1>5, <2>1, <3>1
  <2>2. CASE i # k
    <3>1. i \in 0 .. k - 1 /\ (i # 0 => i - 1 \in 0 .. k /\ i - 1 < k) /\ i < k
      BY <1>5, <2>2
    <3> QED
      BY <1>7, <3>1
  <2> QED
    BY <2>1, <2>2
<1>9. IsSweep(u, k)
  BY <1>8 DEF IsSweep
<1> QED
  BY <1>9

\* A sweep, run to its end or cut short.
Sweeps == \E n \in 0 .. Len(filed) : SweepTo(n)

LEMMA SweepActions ==
    ASSUME filed \in Seq(Motions), EnactDue \/ \E n \in DOMAIN filed : EnactTorn(n)
    PROVE  Sweeps
<1>1. Len(filed) \in 0 .. Len(filed) /\ DOMAIN filed \subseteq 0 .. Len(filed)
  OBVIOUS
<1> QED
  BY <1>1 DEF Sweeps, EnactDue, EnactTorn

LEMMA SweepsIsSweep ==
    ASSUME Sweeps, filed \in Seq(Motions)
    PROVE  \E t, k : IsSweep(t, Len(filed)) /\ k \in 0 .. Len(filed) /\ enacted' = t[k]
<1> DEFINE Eq(t) == t = [n \in 0 .. Len(filed) |->
                           IF n = 0 THEN enacted ELSE SweepStep(t[n - 1], filed[n])]
           w == CHOOSE t : Eq(t)
<1>1. PICK k \in 0 .. Len(filed) : enacted' = w[k]
  BY DEF Sweeps, SweepTo, Swept
<1>2. \E t : Eq(t)
  <2>1. Len(filed) \in Nat
    OBVIOUS
  <2> QED
    BY <2>1, SweepExists DEF IsSweep
<1>3. Eq(w)
  BY <1>2
<1>4. IsSweep(w, Len(filed))
  BY <1>3 DEF IsSweep
<1> QED
  BY <1>1, <1>4

\* What a sweep adds was windowed and past its close by the clock; it adds no
\* amendment while an emergency holds.
Additions(done) ==
    /\ DOMAIN enacted \subseteq DOMAIN done
    /\ \A p \in DOMAIN done \ DOMAIN enacted :
          /\ p \in Windowed /\ day > window[p].ends
          /\ Frozen => MotionOf[p].kind # "amendment"

LEMMA SweepAdds ==
    ASSUME NEW done, NEW p, Additions(done)
    PROVE  Additions(SweepStep(done, p))
<1>1. CASE Due(p, done) /\ ~(MotionOf[p].kind = "amendment" /\ Frozen)
  <2>1. DOMAIN SweepStep(done, p) = DOMAIN done \cup {p}
    BY <1>1 DEF SweepStep, WithEntry
  <2>2. p \in Windowed /\ day > window[p].ends
    BY <1>1 DEF Due, PassedBy
  <2> QED
    BY <1>1, <2>1, <2>2 DEF Additions
<1>2. CASE ~(Due(p, done) /\ ~(MotionOf[p].kind = "amendment" /\ Frozen))
  BY <1>2 DEF SweepStep
<1> QED
  BY <1>1, <1>2

LEMMA SweepsAdds ==
    ASSUME Sweeps, filed \in Seq(Motions)
    PROVE  \E done : done = enacted' /\ Additions(done)
<1>1. PICK t, last : IsSweep(t, Len(filed)) /\ last \in 0 .. Len(filed) /\ enacted' = t[last]
  BY SweepsIsSweep
<1>2. \A k \in 0 .. Len(filed) : t[k] = IF k = 0 THEN enacted ELSE SweepStep(t[k - 1], filed[k])
  BY <1>1 DEF IsSweep
<1> DEFINE Bad == {k \in 0 .. Len(filed) : ~Additions(t[k])}
<1>3. SUFFICES ASSUME Bad # {} PROVE FALSE
  BY <1>1
<1>4. Bad \subseteq Nat
  OBVIOUS
<1>5. PICK k \in Bad : \A m \in Bad : k <= m
  <2> HIDE DEF Bad
  <2> QED
    BY <1>3, <1>4, LeastNatural
<1>6. k \in 0 .. Len(filed) /\ ~Additions(t[k])
  OBVIOUS
<1>7. k # 0
  BY <1>2, <1>6 DEF Additions
<1>8. k - 1 \in 0 .. Len(filed) /\ Additions(t[k - 1])
  BY <1>5, <1>7
<1> QED
  BY <1>2, <1>6, <1>7, <1>8, SweepAdds

LEMMA SweepsKeeps ==
    ASSUME GovInv, Sweeps
    PROVE  GovInv' /\ \A p \in Windowed : Kept(p)
<1>1. UNCHANGED <<filed, window, ballots, day>>
      /\ tailDay' = IF enacted' = enacted THEN tailDay ELSE AdmissionDay
  BY DEF Sweeps, SweepTo
<1>2. AdmissionDay \in Nat /\ tailDay <= AdmissionDay /\ day <= AdmissionDay /\ day \in Nat /\ tailDay \in Nat
  BY AdmissionDayIs DEF GovInv, GovTypeOK
<1>3. GovTypeOK' /\ \A p \in Windowed : Kept(p)
  BY <1>1, <1>2 DEF GovInv, GovTypeOK, Windowed, Kept
<1>4. PICK done : done = enacted' /\ Additions(done)
  BY SweepsAdds DEF GovInv, GovTypeOK
<1>5. ASSUME NEW p \in DOMAIN enacted'
      PROVE  p \in Windowed /\ tailDay' > window[p].ends
  <2>1. CASE p \in DOMAIN enacted
    <3>1. p \in Windowed /\ tailDay > window[p].ends
      BY <2>1 DEF GovInv, EnactedIsClosed
    <3>2. window[p].ends \in Nat
      BY <3>1 DEF GovInv, GovTypeOK
    <3> QED
      BY <1>1, <1>2, <3>1, <3>2
  <2>2. CASE p \notin DOMAIN enacted
    <3>1. p \in Windowed /\ day > window[p].ends
      BY <1>4, <1>5, <2>2 DEF Additions
    <3>2. enacted' # enacted
      BY <1>5, <2>2
    <3>3. window[p].ends \in Nat
      BY <3>1 DEF GovInv, GovTypeOK
    <3> QED
      BY <1>1, <1>2, <3>1, <3>2, <3>3
  <2> QED
    BY <2>1, <2>2
<1>6. EnactedIsClosed'
  BY <1>1, <1>5 DEF EnactedIsClosed, Windowed
<1> QED
  BY <1>3, <1>6 DEF GovInv

\* Everything a result is computed from is in the window and the ballots.
LEMMA ResultKept ==
    ASSUME NEW p, NEW c, Kept(p)
    PROVE  Carried(p, c)' <=> Carried(p, c)
<1>1. window'[p] = window[p] /\ ballots'[p] = ballots[p]
  BY DEF Kept
<1>2. \A choice : CountOf(p, choice)' = CountOf(p, choice)
  BY <1>1 DEF CountOf
<1>3. QuorumPct(p, c)' = QuorumPct(p, c)
  BY <1>1 DEF QuorumPct
<1>4. QuorumMet(p, c)' <=> QuorumMet(p, c)
  BY <1>1, <1>3 DEF QuorumMet, QuorumStanding, PinnedStanding
<1>5. ApprovalMet(p, c)' <=> ApprovalMet(p, c)
  BY <1>2 DEF ApprovalMet
<1> QED
  BY <1>4, <1>5 DEF Carried

LEMMA SupersedesKept ==
    ASSUME NEW p, NEW c, NEW done, Kept(p)
    PROVE  Supersedes(p, c, done)' <=> Supersedes(p, c, done)
<1>1. Carried(p, c)' <=> Carried(p, c)
  BY ResultKept
<1>2. window'[p] = window[p]
  BY DEF Kept
<1> QED
  BY <1>1, <1>2 DEF Supersedes, PassedBy

\* The walk is the same when the log keeps its order, the amendments done in
\* either state are the same ones and their votes are over.
LEMMA SameAmendments ==
    ASSUME GovInv, NEW before, NEW after, before = enacted, after = enacted',
           \A p : MotionOf[p].kind = "amendment" =>
                      (p \in DOMAIN after <=> p \in DOMAIN before),
           \A q \in Windowed : Closed(q) => Kept(q),
           filed' = filed \/ (\E p \in Motions : filed' = Append(filed, p) /\ p \notin Windowed)
    PROVE  /\ \A c \in Charters : NextOf(c, after)' = NextOf(c, before)
           /\ \A c \in Charters : Amended(c, after)' = Amended(c, before)
<1>0. filed \in Seq(Motions)
  BY DEF GovInv, GovTypeOK
<1>1. \A p \in DOMAIN before : p \in Windowed /\ Kept(p)
  BY DEF GovInv, EnactedIsClosed, Closed
<1>2. DOMAIN filed \subseteq DOMAIN filed' /\ (\A i \in DOMAIN filed : filed'[i] = filed[i])
      /\ \A i \in DOMAIN filed' : i \notin DOMAIN filed => filed'[i] \notin Windowed
  <2>1. CASE filed' = filed
    BY <2>1
  <2>2. ASSUME NEW p \in Motions, filed' = Append(filed, p), p \notin Windowed
        PROVE  DOMAIN filed \subseteq DOMAIN filed' /\ (\A i \in DOMAIN filed : filed'[i] = filed[i])
               /\ \A i \in DOMAIN filed' : i \notin DOMAIN filed => filed'[i] \notin Windowed
    <3>1. DOMAIN filed = 1 .. Len(filed) /\ DOMAIN Append(filed, p) = 1 .. Len(filed) + 1
          /\ (\A i \in 1 .. Len(filed) : Append(filed, p)[i] = filed[i])
          /\ Append(filed, p)[Len(filed) + 1] = p /\ Len(filed) \in Nat
      BY <1>0
    <3>2. \A i \in 1 .. Len(filed) + 1 : i \in 1 .. Len(filed) \/ i = Len(filed) + 1
      BY <3>1
    <3>3. DOMAIN filed' = 1 .. Len(filed) + 1 /\ DOMAIN filed = 1 .. Len(filed)
      BY <2>2, <3>1
    <3>4. \A i \in 1 .. Len(filed) : filed'[i] = filed[i] /\ i \in 1 .. Len(filed) + 1
      <4>1. \A i \in 1 .. Len(filed) : i \in 1 .. Len(filed) + 1
        BY <3>1
      <4>2. \A i \in 1 .. Len(filed) : filed'[i] = filed[i]
        BY <2>2, <3>1, Zenon
      <4> QED
        BY <4>1, <4>2
    <3>5. filed'[Len(filed) + 1] = p
      BY <2>2, <3>1
    <3>6. \A i \in DOMAIN filed' : i \notin DOMAIN filed => i = Len(filed) + 1
      BY <3>2, <3>3
    <3>7. DOMAIN filed \subseteq DOMAIN filed' /\ (\A i \in DOMAIN filed : filed'[i] = filed[i])
      BY <3>3, <3>4
    <3> QED
      BY <2>2, <3>5, <3>6, <3>7
  <2> QED
    BY <2>1, <2>2
<1>3. ASSUME NEW c \in Charters
      PROVE  NextOf(c, after)' = NextOf(c, before)
  <2>1. ASSUME NEW i \in NextOf(c, before) PROVE i \in NextOf(c, after)'
    <3>1. i \in DOMAIN filed /\ Supersedes(filed[i], c, before)
      BY <2>1 DEF NextOf
    <3>2. filed[i] \in DOMAIN before /\ MotionOf[filed[i]].kind = "amendment"
      BY <3>1 DEF Supersedes
    <3>3. PICK p : p = filed[i]
      OBVIOUS
    <3>4. Kept(p) /\ Supersedes(p, c, before) /\ p \in DOMAIN after
      BY <1>1, <3>1, <3>2, <3>3
    <3>5. Supersedes(p, c, after)
      BY <3>4 DEF Supersedes
    <3>6. Supersedes(p, c, after)' /\ p \in Windowed'
      BY <3>4, <3>5, SupersedesKept DEF Kept
    <3>7. filed'[i] = p /\ i \in DOMAIN filed'
      BY <1>2, <3>1, <3>3
    <3> QED
      BY <3>6, <3>7 DEF NextOf
  <2>2. ASSUME NEW i \in NextOf(c, after)' PROVE i \in NextOf(c, before)
    <3>1. PICK p : p = filed'[i]
      OBVIOUS
    <3>2. i \in DOMAIN filed' /\ Supersedes(p, c, after)'
      BY <2>2, <3>1 DEF NextOf
    <3>3. p \in DOMAIN after /\ MotionOf[p].kind = "amendment"
      BY <3>2 DEF Supersedes
    <3>4. p \in DOMAIN before /\ p \in Windowed /\ Kept(p)
      BY <1>1, <3>3
    <3>5. i \in DOMAIN filed /\ filed[i] = p
      BY <1>2, <3>1, <3>2, <3>4
    <3>6. Supersedes(p, c, after)
      BY <3>2, <3>4, SupersedesKept
    <3>7. Supersedes(p, c, before)
      BY <3>4, <3>6 DEF Supersedes
    <3> QED
      BY <3>4, <3>5, <3>7 DEF NextOf
  <2> QED
    BY <2>1, <2>2
<1>4. ASSUME NEW c \in Charters
      PROVE  Amended(c, after)' = Amended(c, before)
  <2>1. PICK S : S = NextOf(c, before)
    OBVIOUS
  <2>2. NextOf(c, after)' = S
    BY <1>3, <2>1
  <2>3. Amended(c, after)' = IF S = {} THEN c ELSE MotionOf[filed'[Min(S)]].charter
    BY <2>2 DEF Amended, NextOf
  <2>4. Amended(c, before) = IF S = {} THEN c ELSE MotionOf[filed[Min(S)]].charter
    BY <2>1, AmendedIs
  <2>5. S # {} => Min(S) \in S
    <3>1. S \subseteq Nat
      BY <1>0, <2>1 DEF NextOf
    <3> QED
      BY <3>1, MinOfNaturals
  <2>6. S # {} => filed'[Min(S)] = filed[Min(S)]
    BY <1>2, <2>1, <2>5 DEF NextOf
  <2> QED
    BY <2>3, <2>4, <2>6
<1> QED
  BY <1>3, <1>4

LEMMA SameWalk ==
    ASSUME GovInv, NEW before, NEW after, before = enacted, after = enacted',
           \A p : MotionOf[p].kind = "amendment" =>
                      (p \in DOMAIN after <=> p \in DOMAIN before),
           \A q \in Windowed : Closed(q) => Kept(q),
           filed' = filed \/ (\E p \in Motions : filed' = Append(filed, p) /\ p \notin Windowed)
    PROVE  EffectiveCharter' = EffectiveCharter
<1>1. \A c \in Charters : Amended(c, after)' = Amended(c, before)
  BY SameAmendments
<1>2. EffectiveAfter(after)' = EffectiveAfter(before)
  BY <1>1, EffectiveSame DEF GovInv, GovTypeOK
<1> QED
  BY <1>2 DEF EffectiveCharter

----------------------------------------------------------------------------
(* Every step.                                                             *)

\* The invariant is kept, a vote that is over is not touched, and only a sweep
\* changes the charter in force.
GovStep ==
    /\ GovInv'
    /\ \A p \in Windowed : Closed(p) => Kept(p)
    /\ ~Sweeps => EffectiveCharter' = EffectiveCharter

LEMMA GovSteps == GovInv /\ [GovNext]_govVars => GovStep
<1> SUFFICES ASSUME GovInv, [GovNext]_govVars PROVE GovStep
  OBVIOUS
<1>1. AdmissionDay \in Nat /\ tailDay <= AdmissionDay /\ day \in Nat /\ tailDay \in Nat
  BY AdmissionDayIs DEF GovInv, GovTypeOK
<1>2. ASSUME UNCHANGED <<filed, window, ballots, enacted>>,
             day' \in Nat, tailDay' = tailDay \/ tailDay' = AdmissionDay
      PROVE  GovStep
  <2>1. GovInv' /\ \A p \in Windowed : Kept(p)
    BY <1>1, <1>2, QuietKeeps
  <2>2. EffectiveCharter' = EffectiveCharter
    BY <1>2, <2>1, SameWalk
  <2> QED
    BY <2>1, <2>2 DEF GovStep
<1>3. CASE UNCHANGED govVars
  BY <1>1, <1>2, <1>3 DEF govVars
<1>4. CASE (\E signers \in SUBSET Founders : BeginCharter(signers))
           \/ (\E f \in Founders : SignCharter(f))
           \/ (\E span \in CrisisSpans : EmergencyTakesForce(span))
           \/ EmergencyLifted \/ (\E members \in Standings : StandingMoves(members))
           \/ (\E p \in Motions, m \in Members : Endorse(p, m))
  <2>1. UNCHANGED <<filed, window, ballots, enacted>> /\ day' = day /\ tailDay' = AdmissionDay
    BY <1>4 DEF BeginCharter, SignCharter, EmergencyTakesForce, EmergencyLifted, StandingMoves,
                Endorse, Admits
  <2> QED
    BY <1>1, <1>2, <2>1
<1>5. CASE DayPasses \/ ClockSetBack
  <2>1. UNCHANGED <<filed, window, ballots, enacted>> /\ tailDay' = tailDay /\ day' \in Nat
    BY <1>1, <1>5 DEF DayPasses, ClockSetBack
  <2> QED
    BY <1>2, <2>1
<1>6. CASE \E p \in Motions : ProposeMotion(p) \/ ProposeTorn(p)
  <2>1. PICK p \in Motions : ProposeMotion(p) \/ ProposeTorn(p)
    BY <1>6
  <2>2. /\ GovInv' /\ \A q \in Windowed : Kept(q)
        /\ filed' \in {filed, Append(filed, p)} /\ p \notin Windowed
    BY <2>1, ProposeKeeps, ProposeTornKeeps
  <2>3. enacted' = enacted
    BY <2>1 DEF ProposeMotion, ProposeTorn
  <2>4. EffectiveCharter' = EffectiveCharter
    BY <2>2, <2>3, SameWalk
  <2> QED
    BY <2>2, <2>4 DEF GovStep
<1>7. CASE \E p \in Motions, m \in Members, choice \in BallotChoices : CastBallot(p, m, choice)
  <2>1. GovInv' /\ \A p \in Windowed : Closed(p) => Kept(p)
    BY <1>7, CastBallotKeeps
  <2>2. enacted' = enacted /\ filed' = filed
    BY <1>7 DEF CastBallot
  <2>3. EffectiveCharter' = EffectiveCharter
    BY <2>1, <2>2, SameWalk
  <2> QED
    BY <2>1, <2>3 DEF GovStep
<1>8. CASE Sweeps
  BY <1>8, SweepsKeeps DEF GovStep
<1>9. CASE EnactDue \/ \E n \in DOMAIN filed : EnactTorn(n)
  BY <1>8, <1>9, SweepActions DEF GovInv, GovTypeOK
<1> QED
  BY <1>3, <1>4, <1>5, <1>6, <1>7, <1>9 DEF GovNext

\* Whatever the charters and the proposals are: while an emergency holds on the
\* admission clock, no step of the station, its sweep and a clock set back
\* included, changes the charter in force.
THEOREM CharterIsFrozenTheorem == GovSpec => CharterIsFrozen
<1>1. GovInv /\ [GovNext]_govVars => GovInv'
  BY GovSteps DEF GovStep
<1>2. GovInv /\ [GovNext]_govVars => [InForce(AdmissionDay) => EffectiveCharter' = EffectiveCharter]_govVars
  <2> SUFFICES ASSUME GovInv, [GovNext]_govVars, InForce(AdmissionDay)
               PROVE  EffectiveCharter' = EffectiveCharter
    OBVIOUS
  <2>1. CASE ~Sweeps
    BY <2>1, GovSteps DEF GovStep
  <2>2. CASE Sweeps
    <3>1. PICK done : done = enacted' /\ Additions(done)
      BY <2>2, SweepsAdds DEF GovInv, GovTypeOK
    <3>2. Frozen
      BY DEF Frozen, FreezeDay
    <3>3. \A p : MotionOf[p].kind = "amendment" => (p \in DOMAIN done <=> p \in DOMAIN enacted)
      BY <3>1, <3>2 DEF Additions
    <3>4. \A p \in Windowed : Kept(p)
      BY <2>2, SweepsKeeps
    <3>5. filed' = filed
      BY <2>2 DEF Sweeps, SweepTo
    <3>6. PICK before : before = enacted
      OBVIOUS
    <3> QED
      BY <3>1, <3>3, <3>4, <3>5, <3>6, SameWalk
  <2> QED
    BY <2>1, <2>2
<1> QED
  BY <1>1, <1>2, GovInitInv, PTL DEF GovSpec, CharterIsFrozen

\* Whatever the charters and the proposals are: once the admission clock has
\* passed the close of its vote, no ballot, change of standing, emergency or
\* set-back clock changes a proposal's result under the same charter.
THEOREM ResultStandsTheorem == GovSpec => ResultStands
<1>1. GovInv /\ [GovNext]_govVars => GovInv'
  BY GovSteps DEF GovStep
<1>2. GovInv /\ [GovNext]_govVars =>
        [\A p \in Windowed :
          /\ tailDay > window[p].ends
          /\ EffectiveCharter' = EffectiveCharter
          => (Carried(p, EffectiveCharter) <=> Carried(p, EffectiveCharter)')]_govVars
  <2> SUFFICES ASSUME GovInv, [GovNext]_govVars, NEW p \in Windowed, tailDay > window[p].ends,
                      EffectiveCharter' = EffectiveCharter
               PROVE  Carried(p, EffectiveCharter) <=> Carried(p, EffectiveCharter)'
    OBVIOUS
  <2>1. Kept(p)
    BY GovSteps DEF GovStep, Closed
  <2>2. PICK c : c = EffectiveCharter
    OBVIOUS
  <2>3. Carried(p, c)' <=> Carried(p, c)
    BY <2>1, ResultKept
  <2>4. Carried(p, EffectiveCharter)' <=> Carried(p, c)'
    BY <2>2
  <2> QED
    BY <2>2, <2>3, <2>4
<1> QED
  BY <1>1, <1>2, GovInitInv, PTL DEF GovSpec, ResultStands

----------------------------------------------------------------------------
(* The line of charters from the root to the one in force.                 *)

\* An amendment of c that c's bars pass, enacted or not.
Passing(p, c) ==
    /\ p \in Windowed /\ MotionOf[p].kind = "amendment"
    /\ MotionOf[p].charter # c /\ Amends[MotionOf[p].charter] = c
    /\ PassedBy(p, c, window[p].implementation)

LEMMA NextIsPassing ==
    \A c, done : NextOf(c, done) = {i \in DOMAIN filed : Passing(filed[i], c) /\ filed[i] \in DOMAIN done}
BY DEF NextOf, Passing, Supersedes

\* A charter is replaced by the amendment of it that is first in the log.
LEMMA AmendedMoves ==
    ASSUME filed \in Seq(Motions), NEW c \in Charters, NEW done
    PROVE  /\ Amended(c, done) = c <=> NextOf(c, done) = {}
           /\ NextOf(c, done) # {} =>
                \E m \in NextOf(c, done) :
                   /\ \A j \in NextOf(c, done) : m <= j
                   /\ Amended(c, done) = MotionOf[filed[m]].charter
                   /\ Amends[Amended(c, done)] = c
<1>1. CASE NextOf(c, done) = {}
  BY <1>1, AmendedIs
<1>2. CASE NextOf(c, done) # {}
  <2>1. NextOf(c, done) \subseteq Nat
    BY DEF NextOf
  <2>2. Min(NextOf(c, done)) \in NextOf(c, done) /\ \A j \in NextOf(c, done) : Min(NextOf(c, done)) <= j
    BY <1>2, <2>1, MinOfNaturals
  <2>3. PICK m : m = Min(NextOf(c, done))
    OBVIOUS
  <2>4. m \in NextOf(c, done) /\ \A j \in NextOf(c, done) : m <= j
    BY <2>2, <2>3
  <2>5. Amended(c, done) = MotionOf[filed[m]].charter
    BY <1>2, <2>3, AmendedIs
  <2>6. Passing(filed[m], c)
    BY <2>4, NextIsPassing
  <2>7. MotionOf[filed[m]].charter # c /\ Amends[MotionOf[filed[m]].charter] = c
    BY <2>6 DEF Passing
  <2> QED
    BY <1>2, <2>4, <2>5, <2>7
<1> QED
  BY <1>1, <1>2

\* t[0] .. t[k] are the root and the charters that replaced one another.
IsPath(t, k, done) ==
    /\ k \in Nat /\ t \in [0 .. k -> Charters] /\ t[0] = Genesis
    /\ \A i \in 1 .. k : t[i] = Amended(t[i - 1], done) /\ t[i] # t[i - 1]

\* The last of them has not been replaced.
IsLine(t, k, done) == IsPath(t, k, done) /\ Amended(t[k], done) = t[k]

\* A body names the one it amends, so the path leads back to the root.
LEMMA PathLeadsBack ==
    ASSUME filed \in Seq(Motions), NEW t, NEW k, NEW done, IsPath(t, k, done)
    PROVE  \A i \in 1 .. k : i - 1 \in 0 .. k /\ i \in 0 .. k /\ Amends[t[i]] = t[i - 1]
<1> SUFFICES ASSUME NEW i \in 1 .. k
             PROVE  i - 1 \in 0 .. k /\ i \in 0 .. k /\ Amends[t[i]] = t[i - 1]
  OBVIOUS
<1>1. k \in Nat /\ i - 1 \in 0 .. k /\ i \in 0 .. k
  BY DEF IsPath
<1>2. t[i - 1] \in Charters /\ t[i] = Amended(t[i - 1], done) /\ t[i] # t[i - 1]
  BY <1>1 DEF IsPath
<1> QED
  BY <1>1, <1>2, AmendedMoves

\* It never comes back to a charter it has left.
LEMMA PathIsSimple ==
    ASSUME filed \in Seq(Motions), NEW t, NEW k, NEW done, IsPath(t, k, done)
    PROVE  \A i, j \in 0 .. k : i < j => t[i] # t[j]
<1> DEFINE Bad == {i \in 0 .. k : \E j \in 0 .. k : i < j /\ t[i] = t[j]}
<1>1. SUFFICES ASSUME Bad # {} PROVE FALSE
  OBVIOUS
<1>2. Bad \subseteq Nat /\ k \in Nat
  BY DEF IsPath
<1>3. PICK i \in Bad : \A m \in Bad : i <= m
  <2> HIDE DEF Bad
  <2> QED
    BY <1>1, <1>2, LeastNatural
<1>4. PICK j \in 0 .. k : i \in 0 .. k /\ i < j /\ t[i] = t[j]
  OBVIOUS
<1>5. j \in 1 .. k /\ j - 1 \in 0 .. k /\ Amends[t[j]] = t[j - 1] /\ t[j] # t[j - 1]
  <2>1. j \in 1 .. k
    BY <1>2, <1>4
  <2> QED
    BY <2>1, PathLeadsBack DEF IsPath
<1>6. CASE i = 0
  <2>1. t[j] = Genesis
    BY <1>4, <1>6 DEF IsPath
  <2> QED
    BY <1>5, <2>1, GovernanceAssumption
<1>7. CASE i # 0
  <2>1. i \in 1 .. k /\ i - 1 \in 0 .. k /\ Amends[t[i]] = t[i - 1]
    <3>1. i \in 1 .. k
      BY <1>2, <1>4, <1>7
    <3> QED
      BY <3>1, PathLeadsBack
  <2>2. t[i - 1] = t[j - 1] /\ i - 1 < j - 1
    BY <1>2, <1>4, <1>5, <2>1
  <2>3. i - 1 \in Bad
    BY <1>5, <2>1, <2>2
  <2> QED
    BY <1>2, <1>3, <1>4, <2>3
<1> QED
  BY <1>6, <1>7

LEMMA PathIsShort ==
    ASSUME filed \in Seq(Motions), NEW t, NEW k, NEW done, IsPath(t, k, done)
    PROVE  k < CharterCount
<1>1. SUFFICES ASSUME ~(k < CharterCount) PROVE FALSE
  OBVIOUS
<1>2. k \in Nat /\ CharterCount \in Nat
  BY CharterCountIsNat DEF IsPath
<1>3. IsFiniteSet(0 .. k) /\ Cardinality(0 .. k) = k + 1
  BY <1>2, FS_Interval
<1>4. Cardinality(Charters) < Cardinality(0 .. k)
  BY <1>1, <1>2, <1>3 DEF CharterCount
<1>5. t \in [0 .. k -> Charters] /\ IsFiniteSet(Charters)
  BY GovernanceAssumption DEF IsPath
<1>6. PICK x, y \in 0 .. k : x # y /\ t[x] = t[y]
  BY <1>3, <1>4, <1>5, FS_PigeonHole
<1>7. x < y \/ y < x
  BY <1>2, <1>6
<1> QED
  BY <1>6, <1>7, PathIsSimple

\* The table Lineage is defined by.
LEMMA LineageTable ==
    ASSUME NEW c, NEW n \in Nat
    PROVE  \E u : u = [i \in 0 .. n |-> IF i = 0 THEN c ELSE Amends[u[i - 1]]]
<1> DEFINE Eq(u, k) == u = [i \in 0 .. k |-> IF i = 0 THEN c ELSE Amends[u[i - 1]]]
           Bad == {k \in 0 .. n : ~ \E u : Eq(u, k)}
<1>1. SUFFICES ASSUME Bad # {} PROVE FALSE
  OBVIOUS
<1>2. Bad \subseteq Nat
  OBVIOUS
<1>3. PICK k \in Bad : \A m \in Bad : k <= m
  <2> HIDE DEF Bad
  <2> QED
    BY <1>1, <1>2, LeastNatural
<1>4. k # 0
  <2>1. Eq([i \in 0 .. 0 |-> c], 0)
    OBVIOUS
  <2> QED
    BY <2>1
<1>5. k - 1 \in 0 .. n /\ k - 1 \notin Bad /\ k \in Nat
  BY <1>3, <1>4
<1>6. PICK t : Eq(t, k - 1)
  BY <1>5
<1> DEFINE u == [i \in 0 .. k |-> IF i < k THEN t[i] ELSE Amends[t[k - 1]]]
<1>7. \A i \in 0 .. k - 1 : t[i] = IF i = 0 THEN c ELSE Amends[t[i - 1]]
  BY <1>6
<1>8. ASSUME NEW i \in 0 .. k
      PROVE  u[i] = IF i = 0 THEN c ELSE Amends[u[i - 1]]
  <2>1. CASE i = k
    <3>1. k - 1 \in 0 .. k /\ k - 1 < k
      BY <1>4, <1>5
    <3> QED
      BY <1>4, <1>5, <2>1, <3>1
  <2>2. CASE i # k
    <3>1. i \in 0 .. k - 1 /\ (i # 0 => i - 1 \in 0 .. k /\ i - 1 < k) /\ i < k
      BY <1>5, <2>2
    <3> QED
      BY <1>7, <3>1
  <2> QED
    BY <2>1, <2>2
<1>9. Eq(u, k)
  BY <1>8
<1> QED
  BY <1>9

\* Every charter on the way is in the lineage of the last.
LEMMA PathIsLineage ==
    ASSUME filed \in Seq(Motions), NEW t, NEW k, NEW done, IsPath(t, k, done), NEW i \in 0 .. k
    PROVE  t[i] \in Lineage(t[k])
<1> DEFINE c == t[k]
           Eq(u) == u = [n \in 0 .. Cardinality(Charters) |-> IF n = 0 THEN c ELSE Amends[u[n - 1]]]
           w == CHOOSE u : Eq(u)
<1>1. k \in Nat /\ CharterCount \in Nat /\ k < CharterCount
  BY CharterCountIsNat, PathIsShort DEF IsPath
<1>2. \E u : Eq(u)
  BY ZenonT(30), <1>1, LineageTable DEF CharterCount
<1>3. Eq(w)
  BY <1>2
<1>4. \A n \in 0 .. CharterCount : w[n] = IF n = 0 THEN c ELSE Amends[w[n - 1]]
  BY <1>3 DEF CharterCount
<1>5. Lineage(c) = {w[n] : n \in 0 .. CharterCount}
  BY DEF Lineage, CharterCount
<1> HIDE DEF w
<1> DEFINE Bad == {n \in 0 .. k : w[n] # t[k - n]}
<1>6. Bad = {}
  <2>1. SUFFICES ASSUME Bad # {} PROVE FALSE
    OBVIOUS
  <2>2. Bad \subseteq Nat
    OBVIOUS
  <2>3. PICK n \in Bad : \A m \in Bad : n <= m
    <3> HIDE DEF Bad
    <3> QED
      BY <2>1, <2>2, LeastNatural
  <2>4. n \in 0 .. k /\ w[n] # t[k - n]
    OBVIOUS
  <2>5. n # 0
    <3>1. k - 0 = k /\ 0 \in 0 .. CharterCount
      BY <1>1
    <3>2. w[0] = c
      BY <1>4, <3>1
    <3> QED
      BY <2>4, <3>1, <3>2
  <2>6. n - 1 \in 0 .. k /\ n \in 0 .. CharterCount /\ k - (n - 1) \in 1 .. k /\ (k - (n - 1)) - 1 = k - n
    BY <1>1, <2>4, <2>5
  <2>7. w[n - 1] = t[k - (n - 1)]
    <3>1. n - 1 \notin Bad
      BY <2>3, <2>4
    <3> QED
      BY <2>6, <3>1
  <2>8. Amends[t[k - (n - 1)]] = t[k - n]
    BY <2>6, PathLeadsBack
  <2> QED
    BY <1>4, <2>4, <2>5, <2>6, <2>7, <2>8
<1>7. k - i \in 0 .. k /\ k - i \in 0 .. CharterCount /\ k - (k - i) = i
  BY <1>1
<1>8. w[k - i] = t[i]
  BY <1>6, <1>7
<1> QED
  BY <1>5, <1>7, <1>8

LEMMA LineExists ==
    ASSUME filed \in Seq(Motions), NEW done
    PROVE  \E t, k : IsLine(t, k, done)
<1>1. PICK w : IsWalk(w, done, CharterCount)
  BY EffectiveIsWalk
<1>2. \A i \in 0 .. CharterCount : w[i] = IF i = 0 THEN Genesis ELSE Amended(w[i - 1], done)
  BY <1>1 DEF IsWalk
<1>3. CharterCount \in Nat
  BY CharterCountIsNat
<1>4. \A i \in 0 .. CharterCount : w[i] \in Charters
  BY <1>1, WalkType
<1> DEFINE Still == {i \in 0 .. CharterCount : Amended(w[i], done) = w[i]}
<1>5. Still # {}
  <2>1. SUFFICES ASSUME Still = {} PROVE FALSE
    OBVIOUS
  <2>2. \A i \in 1 .. CharterCount : i - 1 \in 0 .. CharterCount /\ i \in 0 .. CharterCount /\ i # 0
    BY <1>3
  <2>3. \A i \in 1 .. CharterCount : w[i] = Amended(w[i - 1], done) /\ w[i] # w[i - 1]
    BY <1>2, <2>1, <2>2
  <2>4. w \in [0 .. CharterCount -> Charters] /\ w[0] = Genesis
    BY <1>1, <1>2, <1>3, <1>4 DEF IsWalk
  <2>5. IsPath(w, CharterCount, done)
    BY <1>3, <2>3, <2>4 DEF IsPath
  <2> QED
    BY <1>3, <2>5, PathIsShort
<1>6. PICK k \in Still : \A m \in Still : k <= m
  <2>1. Still \subseteq Nat
    OBVIOUS
  <2> HIDE DEF Still
  <2> QED
    BY <1>5, <2>1, LeastNatural
<1>7. k \in 0 .. CharterCount /\ Amended(w[k], done) = w[k] /\ k \in Nat
  OBVIOUS
<1>8. PICK t : t = [i \in 0 .. k |-> w[i]]
  OBVIOUS
<1>9. t \in [0 .. k -> Charters] /\ t[0] = Genesis /\ t[k] = w[k]
  <2>1. 0 \in 0 .. k /\ k \in 0 .. k /\ \A i \in 0 .. k : i \in 0 .. CharterCount
    BY <1>3, <1>7
  <2> QED
    BY <1>2, <1>4, <1>8, <2>1
<1>10. ASSUME NEW i \in 1 .. k
       PROVE  t[i] = Amended(t[i - 1], done) /\ t[i] # t[i - 1]
  <2>1. i \in 0 .. k /\ i - 1 \in 0 .. k /\ i \in 0 .. CharterCount /\ i - 1 \in 0 .. CharterCount /\ i # 0
        /\ ~(k <= i - 1)
    BY <1>3, <1>7
  <2>2. i - 1 \notin Still
    BY <1>6, <2>1
  <2> QED
    BY <1>2, <1>8, <2>1, <2>2
<1>11. IsLine(t, k, done)
  BY <1>7, <1>9, <1>10 DEF IsLine, IsPath
<1> QED
  BY <1>11

\* The charter in force is the last of the line.
LEMMA LineEnds ==
    ASSUME filed \in Seq(Motions), NEW t, NEW k, NEW done, IsLine(t, k, done)
    PROVE  EffectiveAfter(done) = t[k]
<1>1. PICK w : IsWalk(w, done, CharterCount) /\ EffectiveAfter(done) = w[CharterCount]
  BY EffectiveIsWalk
<1>2. \A i \in 0 .. CharterCount : w[i] = IF i = 0 THEN Genesis ELSE Amended(w[i - 1], done)
  BY <1>1 DEF IsWalk
<1>3. CharterCount \in Nat /\ k \in Nat /\ k < CharterCount
  BY CharterCountIsNat, PathIsShort DEF IsLine, IsPath
<1>4. \A i \in 1 .. k : t[i] = Amended(t[i - 1], done)
  BY DEF IsLine, IsPath
<1>5. t[0] = Genesis /\ Amended(t[k], done) = t[k]
  BY DEF IsLine, IsPath
<1> DEFINE at(i) == IF i <= k THEN t[i] ELSE t[k]
           Bad == {i \in 0 .. CharterCount : w[i] # at(i)}
<1>6. SUFFICES ASSUME Bad # {} PROVE FALSE
  BY <1>1, <1>3
<1>7. Bad \subseteq Nat
  OBVIOUS
<1>8. PICK i \in Bad : \A m \in Bad : i <= m
  <2> HIDE DEF Bad
  <2> QED
    BY <1>6, <1>7, LeastNatural
<1>9. i \in 0 .. CharterCount /\ w[i] # at(i)
  OBVIOUS
<1>10. i # 0
  BY <1>2, <1>3, <1>5, <1>9
<1>11. i - 1 \in 0 .. CharterCount /\ i - 1 \notin Bad
  BY <1>3, <1>8, <1>9, <1>10
<1>12. w[i - 1] = at(i - 1) /\ w[i] = Amended(w[i - 1], done)
  BY <1>2, <1>9, <1>10, <1>11
<1>13. CASE i <= k
  <2>1. i \in 1 .. k /\ i - 1 <= k
    BY <1>3, <1>9, <1>10, <1>13
  <2> QED
    BY <1>4, <1>9, <1>12, <1>13, <2>1
<1>14. CASE ~(i <= k)
  <2>1. at(i - 1) = t[k] /\ at(i) = t[k]
    BY <1>3, <1>9, <1>14
  <2> QED
    BY <1>5, <1>9, <1>12, <2>1
<1> QED
  BY <1>13, <1>14

----------------------------------------------------------------------------
(* Which amendment made each charter of the line.                          *)

\* No amendment of a charter left behind stands ahead of those enacted.
FirstCome(t, k, done) ==
    \A i \in 0 .. k - 1, j \in DOMAIN filed :
        Passing(filed[j], t[i]) => \E m \in NextOf(t[i], done) : m <= j

\* One of the charter in force stands behind every amendment enacted.
NoneMissed(c, done) ==
    \A j, m \in DOMAIN filed :
        /\ Passing(filed[j], c)
        /\ filed[m] \in DOMAIN done /\ MotionOf[filed[m]].kind = "amendment"
        => m < j

GoodLine(t, k, done) == IsLine(t, k, done) /\ FirstCome(t, k, done) /\ NoneMissed(t[k], done)

\* The log holds a proposal once.
FiledOnce == \A i, j \in DOMAIN filed : filed[i] = filed[j] => i = j

\* What a sweep that has come to n has left of the amendments of c is not due.
Caught(n, c) ==
    \A j \in 1 .. n :
        Passing(filed[j], c) => Frozen \/ ~(day > window[filed[j]].ends /\ day >= window[filed[j]].implementation)

\* A line kept, or made longer at its end.
Prolongs(t, k, s, l) == k <= l /\ \A i \in 0 .. k : s[i] = t[i]

\* The same amendments enacted make the same line.
LEMMA SameLine ==
    ASSUME NEW t, NEW k, NEW done, NEW done2, GoodLine(t, k, done),
           \A p : MotionOf[p].kind = "amendment" => (p \in DOMAIN done2 <=> p \in DOMAIN done)
    PROVE  GoodLine(t, k, done2)
<1>1. \A c : NextOf(c, done2) = NextOf(c, done)
  BY NextIsPassing DEF Passing
<1>2. \A c : Amended(c, done2) = Amended(c, done)
  BY <1>1, AmendedIs
<1>3. IsLine(t, k, done2)
  BY <1>2 DEF GoodLine, IsLine, IsPath
<1>4. FirstCome(t, k, done2)
  BY <1>1 DEF GoodLine, FirstCome
<1>5. NoneMissed(t[k], done2)
  BY DEF GoodLine, NoneMissed
<1> QED
  BY <1>3, <1>4, <1>5 DEF GoodLine

\* On a line that has stalled nothing enacted passes.
LEMMA LineStalls ==
    ASSUME filed \in Seq(Motions), NEW t, NEW k, NEW done, IsLine(t, k, done)
    PROVE  k \in Nat /\ t[k] \in Charters /\ NextOf(t[k], done) = {}
           /\ \A j \in DOMAIN filed : Passing(filed[j], t[k]) => filed[j] \notin DOMAIN done
<1>1. k \in Nat /\ t[k] \in Charters /\ Amended(t[k], done) = t[k]
  BY DEF IsLine, IsPath
<1>2. NextOf(t[k], done) = {}
  BY <1>1, AmendedMoves
<1> QED
  BY <1>1, <1>2, NextIsPassing

\* One step of the sweep keeps the line or makes it longer at its end, and
\* leaves nothing behind that was due.
LEMMA SweepProlongs ==
    ASSUME GovTypeOK, FiledOnce, AmendmentsInOrder, NEW t, NEW k, NEW done, GoodLine(t, k, done),
           DOMAIN done \subseteq Windowed,
           NEW n \in DOMAIN filed, Caught(n - 1, t[k])
    PROVE  \E s, l : /\ GoodLine(s, l, SweepStep(done, filed[n]))
                     /\ Caught(n, s[l]) /\ Prolongs(t, k, s, l)
<1> DEFINE p == filed[n]
<1>0. /\ filed \in Seq(Motions) /\ day \in Nat
      /\ \A q \in Windowed : window[q].ends \in Nat /\ window[q].implementation \in Nat
  BY DEF GovTypeOK
<1>1. /\ IsLine(t, k, done) /\ FirstCome(t, k, done) /\ NoneMissed(t[k], done)
  BY DEF GoodLine
<1>2. EffectiveAfter(done) = t[k]
  BY <1>0, <1>1, LineEnds
<1>3. k \in Nat /\ t[k] \in Charters /\ NextOf(t[k], done) = {}
      /\ \A j \in DOMAIN filed : Passing(filed[j], t[k]) => filed[j] \notin DOMAIN done
  BY <1>0, <1>1, LineStalls
<1>4. n \in Nat /\ n >= 1 /\ DOMAIN filed = 1 .. Len(filed) /\ Len(filed) \in Nat
      /\ \A j \in 1 .. n : j \in DOMAIN filed /\ (j = n \/ j \in 1 .. n - 1)
  <2>1. DOMAIN filed = 1 .. Len(filed) /\ Len(filed) \in Nat
    BY <1>0
  <2> QED
    BY <2>1
<1>5. Prolongs(t, k, t, k)
  BY <1>3 DEF Prolongs
<1>6. ASSUME ~Passing(p, t[k]) PROVE Caught(n, t[k])
  BY <1>4, <1>6 DEF Caught
<1>7. CASE ~(Due(p, done) /\ ~(MotionOf[p].kind = "amendment" /\ Frozen))
  <2>1. SweepStep(done, p) = done
    BY <1>7 DEF SweepStep
  <2>2. ASSUME Passing(p, t[k]) PROVE Frozen \/ ~(day > window[p].ends /\ day >= window[p].implementation)
    <3>1. p \in Windowed /\ p \notin DOMAIN done /\ Carried(p, t[k])
      BY <1>3, <2>2 DEF Passing, PassedBy
    <3> QED
      BY <1>2, <1>7, <3>1 DEF Due, PassedBy
  <2>3. Caught(n, t[k])
    BY <1>4, <2>2 DEF Caught
  <2> QED
    BY <1>5, <2>1, <2>3
<1>8. CASE Due(p, done) /\ ~(MotionOf[p].kind = "amendment" /\ Frozen)
  <2> DEFINE d == SweepStep(done, p)
  <2>1. DOMAIN d = DOMAIN done \cup {p}
    BY <1>8 DEF SweepStep, WithEntry
  <2>2. /\ p \in Windowed /\ p \notin DOMAIN done /\ day > window[p].ends
        /\ day >= window[p].implementation
    BY <1>8 DEF Due, PassedBy
  <2>3. CASE MotionOf[p].kind # "amendment"
    <3>1. ~Passing(p, t[k])
      BY <2>3 DEF Passing
    <3>2. \A q : MotionOf[q].kind = "amendment" => (q \in DOMAIN d <=> q \in DOMAIN done)
      BY <2>1, <2>3
    <3>3. GoodLine(t, k, d)
      BY <3>2, SameLine
    <3> QED
      BY <1>5, <1>6, <3>1, <3>3
  <2>4. CASE MotionOf[p].kind = "amendment"
    <3>1. ~Frozen
      BY <1>8, <2>4
    \* An amendment of t[k] ahead of p would have been due before.
    <3>2. ASSUME NEW j \in DOMAIN filed, Passing(filed[j], t[k]) PROVE ~(j < n)
      <4>1. SUFFICES ASSUME j < n PROVE FALSE
        OBVIOUS
      <4>2. j \in 1 .. n - 1
        BY <1>4, <3>2, <4>1
      <4>3. ~(day > window[filed[j]].ends /\ day >= window[filed[j]].implementation)
        BY <3>1, <3>2, <4>2 DEF Caught
      <4>4. filed[j] \in Windowed /\ MotionOf[filed[j]].kind = "amendment"
        BY <3>2 DEF Passing
      <4>5. window[filed[j]].ends <= window[p].ends
            /\ window[filed[j]].implementation <= window[p].implementation
        BY <2>2, <2>4, <4>1, <4>4 DEF AmendmentsInOrder
      <4> QED
        BY <1>0, <2>2, <4>3, <4>4, <4>5
    <3>3. ASSUME NEW c
          PROVE  NextOf(c, d) = NextOf(c, done) \cup (IF Passing(p, c) THEN {n} ELSE {})
      <4>1. \A j \in DOMAIN filed : filed[j] = p <=> j = n
        BY DEF FiledOnce
      <4>2. \A j : j \in NextOf(c, d) <=>
                     j \in NextOf(c, done) \cup (IF Passing(p, c) THEN {n} ELSE {})
        <5>1. \A j : j \in NextOf(c, d) <=> j \in DOMAIN filed /\ Passing(filed[j], c)
                                             /\ (filed[j] \in DOMAIN done \/ j = n)
          BY <2>1, <4>1, NextIsPassing
        <5>2. \A j : j \in NextOf(c, done) <=> j \in DOMAIN filed /\ Passing(filed[j], c)
                                               /\ filed[j] \in DOMAIN done
          BY NextIsPassing
        <5> QED
          BY <5>1, <5>2
      <4> QED
        BY <4>2
    <3> HIDE DEF d
    \* The line as it was is still a path.
    <3>4. ASSUME NEW i \in 1 .. k
          PROVE  t[i] = Amended(t[i - 1], d) /\ t[i] # t[i - 1]
      <4>1. i - 1 \in 0 .. k /\ i - 1 \in 0 .. k - 1 /\ t[i - 1] \in Charters
            /\ t[i] = Amended(t[i - 1], done) /\ t[i] # t[i - 1]
        BY <1>1, <1>3 DEF IsLine, IsPath
      <4>2. PICK m \in NextOf(t[i - 1], done) :
               (\A j \in NextOf(t[i - 1], done) : m <= j) /\ t[i] = MotionOf[filed[m]].charter
        BY <1>0, <4>1, AmendedMoves
      <4>3. \A j \in NextOf(t[i - 1], d) : m <= j
        <5>1. NextOf(t[i - 1], done) \subseteq Nat
          BY <1>0 DEF NextOf
        <5>2. Passing(p, t[i - 1]) => m <= n
          <6>1. SUFFICES ASSUME Passing(p, t[i - 1]) PROVE m <= n
            OBVIOUS
          <6>2. PICK j \in NextOf(t[i - 1], done) : j <= n
            BY <1>1, <4>1, <6>1 DEF FirstCome
          <6> QED
            BY <1>4, <4>2, <5>1, <6>2
        <5> QED
          BY <3>3, <4>2, <5>2
      <4>4. m \in NextOf(t[i - 1], d) /\ NextOf(t[i - 1], d) \subseteq Nat
        <5>1. NextOf(t[i - 1], d) \subseteq Nat
          BY <1>0 DEF NextOf
        <5>2. m \in NextOf(t[i - 1], d)
          BY <3>3, <4>2
        <5> QED
          BY <5>1, <5>2
      <4>5. PICK m2 \in NextOf(t[i - 1], d) :
               (\A j \in NextOf(t[i - 1], d) : m2 <= j) /\ Amended(t[i - 1], d) = MotionOf[filed[m2]].charter
        BY <1>0, <4>1, <4>4, AmendedMoves
      <4>6. m2 = m
        BY <4>3, <4>4, <4>5
      <4> QED
        BY <4>1, <4>2, <4>5, <4>6
    <3>5. IsPath(t, k, d)
      BY <1>1, <3>4 DEF IsLine, IsPath
    <3>6. FirstCome(t, k, d)
      BY <1>1, <3>3 DEF FirstCome
    <3>7. CASE ~Passing(p, t[k])
      <4>1. NextOf(t[k], d) = {}
        BY <1>3, <3>3, <3>7
      <4>2. IsLine(t, k, d)
        BY <1>0, <1>3, <3>5, <4>1, AmendedMoves DEF IsLine
      <4>3. ASSUME NEW j \in DOMAIN filed, NEW m \in DOMAIN filed, Passing(filed[j], t[k]),
                   filed[m] \in DOMAIN d, MotionOf[filed[m]].kind = "amendment"
            PROVE  m < j
        <5>1. CASE filed[m] \in DOMAIN done
          BY <1>1, <4>3, <5>1 DEF NoneMissed
        <5>2. CASE filed[m] = p
          <6>1. m = n /\ j # n /\ ~(j < n)
            BY <3>2, <3>7, <4>3, <5>2 DEF FiledOnce
          <6> QED
            BY <1>4, <6>1
        <5> QED
          BY <2>1, <4>3, <5>1, <5>2
      <4>4. NoneMissed(t[k], d)
        BY <4>3 DEF NoneMissed
      <4>5. GoodLine(t, k, d)
        BY <3>6, <4>2, <4>4 DEF GoodLine
      <4> QED
        BY <1>5, <1>6, <3>7, <4>5 DEF d
    <3>8. CASE Passing(p, t[k])
      <4> DEFINE c == MotionOf[p].charter
      <4>1. PICK s : s = [i \in 0 .. k + 1 |-> IF i <= k THEN t[i] ELSE c]
        OBVIOUS
      <4>2. c \in Charters /\ c # t[k] /\ Amends[c] = t[k]
        BY <1>0, <2>4, <3>8, GovernanceAssumption DEF Passing
      <4>3. k + 1 \in 0 .. k + 1 /\ k \in 0 .. k + 1 /\ 0 \in 0 .. k + 1 /\ ~(k + 1 <= k) /\ k + 1 \in Nat
            /\ \A i \in 0 .. k : i \in 0 .. k + 1 /\ i <= k
        BY <1>3
      <4>4. s[k + 1] = c /\ \A i \in 0 .. k : s[i] = t[i]
        BY <4>1, <4>3
      <4>5. NextOf(t[k], d) = {n}
        BY <1>3, <3>3, <3>8
      <4>6. Amended(t[k], d) = c
        <5>1. PICK m \in NextOf(t[k], d) : Amended(t[k], d) = MotionOf[filed[m]].charter
          BY <1>0, <1>3, <4>5, AmendedMoves
        <5> QED
          BY <4>5, <5>1
      <4>7. s \in [0 .. k + 1 -> Charters] /\ s[0] = Genesis
        BY <1>1, <4>1, <4>2, <4>3 DEF IsLine, IsPath
      <4>8. ASSUME NEW i \in 1 .. k + 1
            PROVE  s[i] = Amended(s[i - 1], d) /\ s[i] # s[i - 1]
        <5>1. CASE i = k + 1
          <6>1. i - 1 = k /\ k \in 0 .. k
            BY <1>3, <5>1
          <6> QED
            BY <4>2, <4>4, <4>6, <5>1, <6>1
        <5>2. CASE i # k + 1
          <6>1. i \in 1 .. k /\ i \in 0 .. k /\ i - 1 \in 0 .. k
            BY <1>3, <5>2
          <6> QED
            BY <3>4, <4>4, <6>1
        <5> QED
          BY <5>1, <5>2
      <4>9. IsPath(s, k + 1, d)
        BY <4>3, <4>7, <4>8 DEF IsPath
      \* What amends p's charter stands behind p.
      <4>10. ASSUME NEW j \in DOMAIN filed, Passing(filed[j], c)
             PROVE  n < j
        <5>1. j # n
          BY <4>10 DEF Passing
        <5>2. ~(j < n)
          BY <2>2, <2>4, <4>10 DEF AmendmentsInOrder, Passing
        <5> QED
          BY <1>4, <5>1, <5>2
      <4>11. ASSUME NEW m \in DOMAIN filed, filed[m] \in DOMAIN done, MotionOf[filed[m]].kind = "amendment"
             PROVE  m < n
        BY <1>1, <3>8, <4>11 DEF NoneMissed
      <4>12. NextOf(c, d) = {}
        <5>1. SUFFICES ASSUME NEW m \in NextOf(c, d) PROVE FALSE
          OBVIOUS
        <5>2. m \in DOMAIN filed /\ Passing(filed[m], c) /\ filed[m] \in DOMAIN d
          BY NextIsPassing
        <5>3. MotionOf[filed[m]].kind = "amendment" /\ filed[m] # p
          BY <5>2 DEF Passing
        <5>4. n < m /\ m < n
          BY <2>1, <4>10, <4>11, <5>2, <5>3
        <5> QED
          BY <1>4, <5>2, <5>4
      <4>13. IsLine(s, k + 1, d)
        BY <1>0, <4>2, <4>4, <4>9, <4>12, AmendedMoves DEF IsLine
      <4>14. FirstCome(s, k + 1, d)
        <5>1. SUFFICES ASSUME NEW i \in 0 .. (k + 1) - 1, NEW j \in DOMAIN filed, Passing(filed[j], s[i])
                       PROVE  \E m \in NextOf(s[i], d) : m <= j
          BY DEF FirstCome
        <5>2. i \in 0 .. k /\ s[i] = t[i]
          BY <1>3, <4>4, <5>1
        <5>3. CASE i = k
          <6>1. ~(j < n)
            BY <3>2, <5>1, <5>2, <5>3
          <6>2. n <= j
            BY <1>4, <5>1, <6>1
          <6>3. s[i] = t[k]
            BY <5>2, <5>3
          <6> QED
            BY <4>5, <6>2, <6>3
        <5>4. CASE i # k
          <6>1. i \in 0 .. k - 1
            BY <1>3, <5>2, <5>4
          <6> QED
            BY <3>6, <5>1, <5>2, <6>1 DEF FirstCome
        <5> QED
          BY <5>3, <5>4
      <4>15. NoneMissed(c, d)
        <5>1. SUFFICES ASSUME NEW j \in DOMAIN filed, NEW m \in DOMAIN filed, Passing(filed[j], c),
                              filed[m] \in DOMAIN d, MotionOf[filed[m]].kind = "amendment"
                       PROVE  m < j
          BY DEF NoneMissed
        <5>2. n < j
          BY <4>10, <5>1
        <5>3. m <= n
          <6>1. CASE filed[m] \in DOMAIN done
            BY <1>4, <4>11, <5>1, <6>1
          <6>2. CASE filed[m] = p
            <7>1. m = n
              BY <6>2 DEF FiledOnce
            <7> QED
              BY <1>4, <7>1
          <6> QED
            BY <2>1, <5>1, <6>1, <6>2
        <5> QED
          BY <1>4, <5>2, <5>3
      <4>16. Caught(n, c)
        <5>1. \A j \in 1 .. n : ~Passing(filed[j], c)
          BY <1>4, <4>10
        <5> QED
          BY <5>1 DEF Caught
      <4>17. GoodLine(s, k + 1, d) /\ Caught(n, s[k + 1])
        BY <4>4, <4>13, <4>14, <4>15, <4>16 DEF GoodLine
      <4>18. Prolongs(t, k, s, k + 1)
        BY <1>3, <4>4 DEF Prolongs
      <4> QED
        BY <4>17, <4>18 DEF d
    <3> QED
      BY <3>7, <3>8
  <2> QED
    BY <2>3, <2>4
<1> QED
  BY <1>7, <1>8

\* The sweep as a whole.
LEMMA SweepsProlongs ==
    ASSUME GovInv, FiledOnce, AmendmentsInOrder, NEW t, NEW k, GoodLine(t, k, enacted), Sweeps
    PROVE  \E s, l, done : /\ done = enacted' /\ GoodLine(s, l, done) /\ Prolongs(t, k, s, l)
<1>0. filed \in Seq(Motions) /\ Len(filed) \in Nat /\ DOMAIN filed = 1 .. Len(filed)
  BY DEF GovInv, GovTypeOK
<1>1. PICK w, last : IsSweep(w, Len(filed)) /\ last \in 0 .. Len(filed) /\ enacted' = w[last]
  BY <1>0, SweepsIsSweep
<1>2. \A n \in 0 .. Len(filed) : w[n] = IF n = 0 THEN enacted ELSE SweepStep(w[n - 1], filed[n])
  BY <1>1 DEF IsSweep
<1> DEFINE Good(n) == /\ DOMAIN w[n] \subseteq Windowed
                      /\ \E s, l : GoodLine(s, l, w[n]) /\ Caught(n, s[l]) /\ Prolongs(t, k, s, l)
           Bad == {n \in 0 .. Len(filed) : ~Good(n)}
<1>3. Bad = {}
  <2>1. SUFFICES ASSUME Bad # {} PROVE FALSE
    OBVIOUS
  <2>2. Bad \subseteq Nat
    OBVIOUS
  <2>3. PICK n \in Bad : \A m \in Bad : n <= m
    <3> HIDE DEF Bad
    <3> QED
      BY <2>1, <2>2, LeastNatural
  <2>4. n \in 0 .. Len(filed) /\ ~Good(n)
    OBVIOUS
  <2>5. n # 0
    <3>1. SUFFICES ASSUME n = 0 PROVE FALSE
      OBVIOUS
    <3>2. w[n] = enacted
      BY <1>0, <1>2, <2>4, <3>1
    <3>3. DOMAIN enacted \subseteq Windowed
      BY DEF GovInv, EnactedIsClosed
    <3>4. Caught(n, t[k])
      BY <3>1 DEF Caught
    <3>5. k \in Nat
      BY DEF GoodLine, IsLine, IsPath
    <3>6. Prolongs(t, k, t, k)
      BY <3>5 DEF Prolongs
    <3> QED
      BY <2>4, <3>2, <3>3, <3>4, <3>6
  <2>6. n - 1 \in 0 .. Len(filed) /\ n - 1 \notin Bad /\ n \in DOMAIN filed
    <3>1. n - 1 \in 0 .. Len(filed) /\ ~(n <= n - 1) /\ n \in DOMAIN filed
      BY <1>0, <2>4, <2>5
    <3> HIDE DEF Bad
    <3> QED
      BY <2>3, <3>1
  <2>7. Good(n - 1)
    BY <2>6
  <2>8. PICK s, l : GoodLine(s, l, w[n - 1]) /\ Caught(n - 1, s[l]) /\ Prolongs(t, k, s, l)
    BY <2>7
  <2>9. w[n] = SweepStep(w[n - 1], filed[n])
    BY <1>2, <2>4, <2>5
  <2>10. PICK s2, l2 : /\ GoodLine(s2, l2, w[n]) /\ Caught(n, s2[l2]) /\ Prolongs(s, l, s2, l2)
    <3>1. DOMAIN w[n - 1] \subseteq Windowed /\ GovTypeOK
      BY <2>7 DEF GovInv
    <3> QED
      BY <2>6, <2>8, <2>9, <3>1, SweepProlongs
  <2>11. Prolongs(t, k, s2, l2)
    <3>1. k \in Nat /\ l \in Nat /\ l2 \in Nat
      BY <2>8, <2>10 DEF GoodLine, IsLine, IsPath
    <3> QED
      BY <2>8, <2>10, <3>1 DEF Prolongs
  <2>12. DOMAIN w[n] \subseteq Windowed
    <3>1. DOMAIN w[n - 1] \subseteq Windowed
      BY <2>7
    <3>2. CASE Due(filed[n], w[n - 1]) /\ ~(MotionOf[filed[n]].kind = "amendment" /\ Frozen)
      <4>1. DOMAIN w[n] = DOMAIN w[n - 1] \cup {filed[n]}
        BY <2>9, <3>2 DEF SweepStep, WithEntry
      <4> QED
        BY <3>1, <3>2, <4>1 DEF Due
    <3>3. CASE ~(Due(filed[n], w[n - 1]) /\ ~(MotionOf[filed[n]].kind = "amendment" /\ Frozen))
      BY <2>9, <3>1, <3>3 DEF SweepStep
    <3> QED
      BY <3>2, <3>3
  <2> QED
    BY <2>4, <2>10, <2>11, <2>12
<1>4. Good(last)
  BY <1>1, <1>3
<1>5. PICK s, l : GoodLine(s, l, w[last]) /\ Prolongs(t, k, s, l)
  BY <1>4
<1>6. PICK done : done = w[last]
  OBVIOUS
<1> QED
  BY <1>1, <1>5, <1>6

\* Everything a line is made of is in the log, the windows and the ballots.
LEMMA PassingKept ==
    ASSUME NEW p, NEW c, p \in Windowed, Kept(p)
    PROVE  Passing(p, c)' <=> Passing(p, c)
<1>1. Carried(p, c)' <=> Carried(p, c)
  BY ResultKept
<1>2. window'[p] = window[p] /\ p \in Windowed'
  BY DEF Kept
<1> QED
  BY <1>1, <1>2 DEF Passing, PassedBy

LEMMA LineCarriesOver ==
    ASSUME UNCHANGED <<filed, window, ballots>>, NEW t, NEW k, NEW done, GoodLine(t, k, done)
    PROVE  GoodLine(t, k, done)'
<1>1. Windowed' = Windowed /\ \A p \in Windowed : Kept(p)
  BY DEF Windowed, Kept
<1>2. \A p, c : Passing(p, c)' <=> Passing(p, c)
  <2> SUFFICES ASSUME NEW p, NEW c PROVE Passing(p, c)' <=> Passing(p, c)
    OBVIOUS
  <2>1. CASE p \in Windowed
    BY <1>1, <2>1, PassingKept
  <2>2. CASE p \notin Windowed
    BY <1>1, <2>2 DEF Passing
  <2> QED
    BY <2>1, <2>2
<1>3. \A p, c : Supersedes(p, c, done)' /\ p \in Windowed' <=> Supersedes(p, c, done) /\ p \in Windowed
  BY <1>2 DEF Passing, Supersedes
<1>4. \A c : NextOf(c, done)' = NextOf(c, done)
  BY <1>3 DEF NextOf
<1>5. \A c : Amended(c, done)' = Amended(c, done)
  <2> SUFFICES ASSUME NEW c PROVE Amended(c, done)' = Amended(c, done)
    OBVIOUS
  <2>1. PICK S : S = NextOf(c, done)
    OBVIOUS
  <2>2. NextOf(c, done)' = S
    BY <1>4, <2>1
  <2>3. Amended(c, done)' = IF S = {} THEN c ELSE MotionOf[filed'[Min(S)]].charter
    BY <2>2 DEF Amended, NextOf
  <2>4. Amended(c, done) = IF S = {} THEN c ELSE MotionOf[filed[Min(S)]].charter
    BY <2>1, AmendedIs
  <2> QED
    BY <2>3, <2>4
<1>6. IsLine(t, k, done)'
  BY <1>5 DEF GoodLine, IsLine, IsPath
<1>7. FirstCome(t, k, done)'
  <2>1. FirstCome(t, k, done)
    BY DEF GoodLine
  <2> QED
    BY <1>2, <1>4, <2>1 DEF FirstCome
<1>8. NoneMissed(t[k], done)'
  <2>1. NoneMissed(t[k], done)
    BY DEF GoodLine
  <2> QED
    BY <1>2, <2>1 DEF NoneMissed
<1> QED
  BY <1>6, <1>7, <1>8 DEF GoodLine

----------------------------------------------------------------------------
(* What every step but the sweep does to the records a line is made of.    *)

LogGrows ==
    /\ DOMAIN filed \subseteq DOMAIN filed'
    /\ \A i \in DOMAIN filed : filed'[i] = filed[i]
    /\ \A i \in DOMAIN filed' : i \notin DOMAIN filed =>
           filed'[i] \notin Windowed /\ (\A j \in DOMAIN filed : j < i /\ filed[j] # filed'[i])
           /\ (\A j \in DOMAIN filed' : j \notin DOMAIN filed => j = i)

Recorded ==
    /\ enacted' = enacted /\ LogGrows
    /\ \A q \in Windowed : q \in Windowed' /\ window'[q] = window[q] /\ (Closed(q) => Kept(q))
    /\ \A q \in Windowed' : q \notin Windowed => tailDay <= window'[q].ends

LEMMA LogSame == filed' = filed => LogGrows
BY DEF LogGrows

LEMMA LogAppended ==
    ASSUME filed \in Seq(Motions), NEW p \in Motions, filed' = Append(filed, p), p \notin Windowed,
           p \notin ToSet(filed)
    PROVE  LogGrows
<1>1. DOMAIN filed = 1 .. Len(filed) /\ DOMAIN Append(filed, p) = 1 .. Len(filed) + 1
      /\ (\A i \in 1 .. Len(filed) : Append(filed, p)[i] = filed[i])
      /\ Append(filed, p)[Len(filed) + 1] = p /\ Len(filed) \in Nat
  OBVIOUS
<1>2. DOMAIN filed' = 1 .. Len(filed) + 1 /\ (\A i \in 1 .. Len(filed) : filed'[i] = filed[i])
      /\ filed'[Len(filed) + 1] = p
  BY <1>1, Zenon
<1>3. \A i \in DOMAIN filed' : i \notin DOMAIN filed => i = Len(filed) + 1
  BY <1>1, <1>2
<1>4. \A j \in DOMAIN filed : j < Len(filed) + 1 /\ filed[j] # p
  BY <1>1 DEF ToSet
<1>5. DOMAIN filed \subseteq DOMAIN filed'
  BY <1>1, <1>2
<1>6. \A i \in DOMAIN filed : filed'[i] = filed[i]
  BY <1>1, <1>2
<1> QED
  BY <1>2, <1>3, <1>4, <1>5, <1>6 DEF LogGrows

LEMMA StepRecords ==
    ASSUME GovInv, [GovNext]_govVars, ~Sweeps
    PROVE  Recorded
<1>0. filed \in Seq(Motions)
  BY DEF GovInv, GovTypeOK
<1>1. ASSUME UNCHANGED <<filed, window, ballots, enacted>> PROVE Recorded
  BY <1>1, LogSame DEF Recorded, Windowed, Kept
<1>2. CASE UNCHANGED govVars
  BY <1>1, <1>2 DEF govVars
<1>3. CASE (\E signers \in SUBSET Founders : BeginCharter(signers))
           \/ (\E f \in Founders : SignCharter(f))
           \/ (\E span \in CrisisSpans : EmergencyTakesForce(span))
           \/ EmergencyLifted \/ (\E members \in Standings : StandingMoves(members))
           \/ (\E p \in Motions, m \in Members : Endorse(p, m))
           \/ DayPasses \/ ClockSetBack
  <2>1. UNCHANGED <<filed, window, ballots, enacted>>
    BY <1>3 DEF BeginCharter, SignCharter, EmergencyTakesForce, EmergencyLifted, StandingMoves,
                Endorse, DayPasses, ClockSetBack
  <2> QED
    BY <1>1, <2>1
<1>4. ASSUME NEW p \in Motions, ProposeMotion(p) PROVE Recorded
  <2>1. /\ \A q \in Windowed : Kept(q)
        /\ p \notin Windowed /\ Windowed' = Windowed \cup {p} /\ tailDay <= window'[p].ends
    BY <1>4, ProposeKeeps
  <2>2. enacted' = enacted /\ filed' = IF p \in ToSet(filed) THEN filed ELSE Append(filed, p)
    BY <1>4 DEF ProposeMotion, FiledWith
  <2>3. LogGrows
    BY <1>0, <2>1, <2>2, LogSame, LogAppended
  <2> QED
    BY <2>1, <2>2, <2>3 DEF Recorded, Kept
<1>5. ASSUME NEW p \in Motions, ProposeTorn(p) PROVE Recorded
  <2>1. (\A q \in Windowed : Kept(q)) /\ p \notin Windowed
    BY <1>5, ProposeTornKeeps
  <2>2. enacted' = enacted /\ window' = window
        /\ filed' = IF p \in ToSet(filed) THEN filed ELSE Append(filed, p)
    BY <1>5 DEF ProposeTorn, FiledWith
  <2>3. LogGrows
    BY <1>0, <2>1, <2>2, LogSame, LogAppended
  <2> QED
    BY <2>1, <2>2, <2>3 DEF Recorded, Kept, Windowed
<1>6. ASSUME NEW p \in Motions, NEW m, NEW choice, CastBallot(p, m, choice) PROVE Recorded
  <2>1. \A q \in Windowed : Closed(q) => Kept(q)
    BY <1>6, CastBallotKeeps
  <2>2. UNCHANGED <<enacted, window, filed>>
    BY <1>6 DEF CastBallot
  <2> QED
    BY <2>1, <2>2, LogSame DEF Recorded, Windowed
<1>7. ~(EnactDue \/ \E n \in DOMAIN filed : EnactTorn(n))
  BY <1>0, SweepActions
<1> QED
  BY <1>2, <1>3, <1>4, <1>5, <1>6, <1>7 DEF GovNext

\* The order of the amendments can be lost and not regained.
LEMMA OrderedBefore ==
    ASSUME Recorded, AmendmentsInOrder'
    PROVE  AmendmentsInOrder
<1> SUFFICES ASSUME NEW i \in DOMAIN filed, NEW j \in DOMAIN filed, i < j,
                    filed[i] \in Windowed, filed[j] \in Windowed,
                    MotionOf[filed[i]].kind = "amendment", MotionOf[filed[j]].kind = "amendment"
             PROVE  /\ window[filed[i]].ends <= window[filed[j]].ends
                    /\ window[filed[i]].implementation <= window[filed[j]].implementation
                    /\ Amends[MotionOf[filed[i]].charter] # MotionOf[filed[j]].charter
  BY DEF AmendmentsInOrder
<1>1. i \in DOMAIN filed' /\ j \in DOMAIN filed' /\ filed'[i] = filed[i] /\ filed'[j] = filed[j]
  BY DEF Recorded, LogGrows
<1>2. PICK p, q : p = filed[i] /\ q = filed[j]
  OBVIOUS
<1>3. p \in Windowed' /\ q \in Windowed' /\ window'[p] = window[p] /\ window'[q] = window[q]
  BY <1>2 DEF Recorded
<1>4. /\ window'[p].ends <= window'[q].ends
      /\ window'[p].implementation <= window'[q].implementation
      /\ Amends[MotionOf[p].charter] # MotionOf[q].charter
  BY <1>1, <1>2, <1>3 DEF AmendmentsInOrder
<1> QED
  BY <1>2, <1>3, <1>4

LEMMA FiledOnceKept ==
    ASSUME FiledOnce, LogGrows
    PROVE  FiledOnce'
<1> SUFFICES ASSUME NEW i \in DOMAIN filed', NEW j \in DOMAIN filed', filed'[i] = filed'[j] PROVE i = j
  BY DEF FiledOnce
<1> QED
  BY DEF FiledOnce, LogGrows

\* Whatever stands ahead of an enacted amendment has had its vote.
LEMMA AheadIsSettled ==
    ASSUME GovInv, GovInv', Recorded, AmendmentsInOrder',
           NEW j \in DOMAIN filed', NEW m \in DOMAIN filed', j < m,
           filed'[m] \in DOMAIN enacted, MotionOf[filed'[m]].kind = "amendment",
           filed'[j] \in Windowed', MotionOf[filed'[j]].kind = "amendment"
    PROVE  /\ j \in DOMAIN filed /\ m \in DOMAIN filed /\ filed'[j] = filed[j] /\ filed'[m] = filed[m]
           /\ filed[j] \in Windowed /\ Kept(filed[j])
<1>1. PICK p, q : p = filed'[j] /\ q = filed'[m]
  OBVIOUS
<1>2. q \in Windowed /\ tailDay > window[q].ends
  BY <1>1 DEF GovInv, EnactedIsClosed
<1>3. q \in Windowed' /\ window'[q] = window[q]
  BY <1>2 DEF Recorded
<1>4. window'[p].ends <= window[q].ends
  BY <1>1, <1>3 DEF AmendmentsInOrder
<1>5. GovInv /\ tailDay \in Nat /\ window[q].ends \in Nat
  BY <1>2 DEF GovInv, GovTypeOK
<1>6. m \in DOMAIN filed /\ filed'[m] = filed[m]
  BY <1>1, <1>2 DEF Recorded, LogGrows
<1>7. j \in DOMAIN filed /\ filed'[j] = filed[j]
  <2>2. DOMAIN filed = 1 .. Len(filed) /\ Len(filed) \in Nat
    BY DEF GovInv, GovTypeOK
  <2>3. CASE j \in DOMAIN filed
    BY <2>3 DEF Recorded, LogGrows
  <2>4. CASE j \notin DOMAIN filed
    <3>1. m < j
      BY <1>6, <2>4 DEF Recorded, LogGrows
    <3>2. j \in Nat /\ m \in Nat
      <4>1. filed' \in Seq(Motions)
        BY DEF GovInv, GovTypeOK
      <4> QED
        BY <4>1
    <3> QED
      BY <3>1, <3>2
  <2> QED
    BY <2>3, <2>4
<1>8. p \in Windowed
  <2>1. SUFFICES ASSUME p \notin Windowed PROVE FALSE
    OBVIOUS
  <2>2. tailDay <= window'[p].ends
    BY <1>1, <2>1 DEF Recorded
  <2>3. window'[p].ends \in Nat
    BY <1>1 DEF GovInv, GovTypeOK
  <2> QED
    BY <1>2, <1>4, <1>5, <2>2, <2>3
<1>9. window'[p] = window[p] /\ window[p].ends \in Nat
  BY <1>8 DEF Recorded, GovInv, GovTypeOK
<1>10. Closed(p)
  BY <1>2, <1>4, <1>5, <1>8, <1>9 DEF Closed
<1>11. Kept(p)
  BY <1>8, <1>10 DEF Recorded
<1> QED
  BY <1>1, <1>6, <1>7, <1>8, <1>11

LEMMA StepAppends ==
    ASSUME GovInv, [GovNext]_govVars
    PROVE  filed' = filed \/ \E p \in Motions : filed' = Append(filed, p) /\ p \notin Windowed
<1>1. CASE UNCHANGED govVars
  BY <1>1 DEF govVars
<1>2. ASSUME NEW p \in Motions, ProposeMotion(p) \/ ProposeTorn(p)
      PROVE  filed' = filed \/ \E q \in Motions : filed' = Append(filed, q) /\ q \notin Windowed
  BY <1>2 DEF ProposeMotion, ProposeTorn, MayPropose, FiledWith
<1>3. CASE (\E signers \in SUBSET Founders : BeginCharter(signers))
           \/ (\E f \in Founders : SignCharter(f))
           \/ (\E span \in CrisisSpans : EmergencyTakesForce(span))
           \/ EmergencyLifted \/ (\E members \in Standings : StandingMoves(members))
           \/ (\E p \in Motions, m \in Members : Endorse(p, m))
           \/ (\E p \in Motions, m \in Members, choice \in BallotChoices : CastBallot(p, m, choice))
           \/ DayPasses \/ ClockSetBack \/ Sweeps
  <2>1. filed' = filed
    BY <1>3 DEF BeginCharter, SignCharter, EmergencyTakesForce, EmergencyLifted, StandingMoves,
                Endorse, DayPasses, ClockSetBack, CastBallot, Sweeps, SweepTo
  <2> QED
    BY <2>1
<1>4. CASE EnactDue \/ \E n \in DOMAIN filed : EnactTorn(n)
  BY <1>3, <1>4, SweepActions DEF GovInv, GovTypeOK
<1> QED
  BY <1>1, <1>2, <1>3, <1>4 DEF GovNext

\* No step but the sweep touches the line.
LEMMA LineKept ==
    ASSUME GovInv, GovInv', Recorded, AmendmentsInOrder',
           NEW t, NEW k, GoodLine(t, k, enacted),
           \A c \in Charters : NextOf(c, enacted)' = NextOf(c, enacted),
           \A c \in Charters : Amended(c, enacted)' = Amended(c, enacted)
    PROVE  GoodLine(t, k, enacted)'
<1>0. filed \in Seq(Motions) /\ filed' \in Seq(Motions) /\ enacted' = enacted
  BY DEF GovInv, GovTypeOK, Recorded
<1>1. k \in Nat /\ t \in [0 .. k -> Charters] /\ IsLine(t, k, enacted)
  BY DEF GoodLine, IsLine, IsPath
<1>2. IsLine(t, k, enacted)'
  <2>1. ASSUME NEW i \in 1 .. k
        PROVE  t[i] = Amended(t[i - 1], enacted)' /\ t[i] # t[i - 1]
    <3>1. i - 1 \in 0 .. k
      BY <1>1
    <3>2. t[i - 1] \in Charters /\ t[i] = Amended(t[i - 1], enacted) /\ t[i] # t[i - 1]
      BY <1>1, <3>1 DEF IsLine, IsPath
    <3> QED
      BY <3>2
  <2>2. Amended(t[k], enacted)' = t[k] /\ t[0] = Genesis
    BY <1>1 DEF IsLine, IsPath
  <2> QED
    BY <1>1, <2>1, <2>2 DEF IsLine, IsPath
\* An amendment ahead of an enacted one passes as it did.
<1>3. ASSUME NEW j \in DOMAIN filed', NEW m \in DOMAIN filed', j < m, NEW c,
             filed'[m] \in DOMAIN enacted, MotionOf[filed'[m]].kind = "amendment",
             Passing(filed[j], c)'
      PROVE  /\ j \in DOMAIN filed /\ m \in DOMAIN filed /\ filed'[m] = filed[m]
             /\ Passing(filed[j], c)
  <2>1. PICK p : p = filed'[j]
    OBVIOUS
  <2>2. Passing(p, c)'
    BY <1>3, <2>1
  <2>3. p \in Windowed' /\ MotionOf[p].kind = "amendment"
    BY <2>2 DEF Passing
  <2>4. /\ j \in DOMAIN filed /\ m \in DOMAIN filed /\ filed'[j] = filed[j] /\ filed'[m] = filed[m]
        /\ filed[j] \in Windowed /\ Kept(filed[j])
    BY <1>3, <2>1, <2>3, AheadIsSettled
  <2>5. p \in Windowed /\ Kept(p) /\ p = filed[j]
    BY <2>1, <2>4
  <2>6. Passing(p, c)
    BY <2>2, <2>5, PassingKept
  <2> QED
    BY <2>4, <2>5, <2>6
<1>4. \A c \in Charters : \A m \in NextOf(c, enacted) :
          /\ m \in DOMAIN filed' /\ filed'[m] \in DOMAIN enacted
          /\ MotionOf[filed'[m]].kind = "amendment" /\ m \in Nat
  <2> SUFFICES ASSUME NEW c \in Charters, NEW m \in NextOf(c, enacted)
               PROVE  /\ m \in DOMAIN filed' /\ filed'[m] \in DOMAIN enacted
                      /\ MotionOf[filed'[m]].kind = "amendment" /\ m \in Nat
    OBVIOUS
  <2>1. m \in DOMAIN filed /\ filed[m] \in DOMAIN enacted /\ Passing(filed[m], c)
    BY NextIsPassing
  <2>2. m \in DOMAIN filed' /\ filed'[m] = filed[m]
    BY <2>1 DEF Recorded, LogGrows
  <2> QED
    BY <1>0, <2>1, <2>2 DEF Passing
<1>5. FirstCome(t, k, enacted)'
  <2>1. SUFFICES ASSUME NEW i \in 0 .. k - 1, NEW j \in DOMAIN filed', Passing(filed[j], t[i])'
                 PROVE  \E m \in NextOf(t[i], enacted)' : m <= j
    BY <1>0 DEF FirstCome
  <2>2. i \in 0 .. k /\ i + 1 \in 1 .. k /\ (i + 1) - 1 = i
    BY <1>1
  <2>3. t[i] \in Charters /\ Amended(t[i], enacted) # t[i]
    BY <1>1, <2>2 DEF IsLine, IsPath
  <2>4. NextOf(t[i], enacted)' = NextOf(t[i], enacted)
    BY <2>3
  <2>5. PICK m : m \in NextOf(t[i], enacted)
    BY <1>0, <2>3, AmendedMoves
  <2>6. CASE m <= j
    BY <2>4, <2>5, <2>6
  <2>7. CASE ~(m <= j)
    <3>1. j < m /\ m \in DOMAIN filed'
      BY <1>0, <1>4, <2>3, <2>5, <2>7
    <3>2. j \in DOMAIN filed /\ Passing(filed[j], t[i])
      BY <1>3, <1>4, <2>1, <2>3, <2>5, <3>1
    <3>3. PICK m2 \in NextOf(t[i], enacted) : m2 <= j
      BY <3>2 DEF GoodLine, FirstCome
    <3> QED
      BY <2>4, <3>3
  <2> QED
    BY <2>6, <2>7
<1>6. NoneMissed(t[k], enacted)'
  <2>1. SUFFICES ASSUME NEW j \in DOMAIN filed', NEW m \in DOMAIN filed', Passing(filed[j], t[k])',
                        filed'[m] \in DOMAIN enacted, MotionOf[filed'[m]].kind = "amendment"
                 PROVE  m < j
    BY <1>0 DEF NoneMissed
  <2>2. j # m
    <3>1. SUFFICES ASSUME j = m PROVE FALSE
      OBVIOUS
    <3>2. PICK p : p = filed'[j]
      OBVIOUS
    <3>3. Passing(p, t[k])' /\ p \in DOMAIN enacted
      BY <2>1, <3>1, <3>2
    <3>4. p \in Windowed' /\ Supersedes(p, t[k], enacted)'
      BY <1>0, <3>3 DEF Passing, Supersedes
    <3>5. j \in NextOf(t[k], enacted)'
      BY <3>2, <3>4 DEF NextOf
    <3>6. t[k] \in Charters /\ NextOf(t[k], enacted) = {}
      BY <1>0, <1>1, LineStalls
    <3>7. NextOf(t[k], enacted)' = NextOf(t[k], enacted)
      BY <3>6
    <3> QED
      BY <3>5, <3>6, <3>7
  <2>3. CASE m < j
    BY <2>3
  <2>4. CASE ~(m < j)
    <3>1. j < m
      BY <1>0, <2>2, <2>4
    <3>2. j \in DOMAIN filed /\ m \in DOMAIN filed /\ filed'[m] = filed[m] /\ Passing(filed[j], t[k])
      BY <1>3, <2>1, <3>1
    <3>3. m < j
      BY <2>1, <3>2 DEF GoodLine, NoneMissed
    <3> QED
      BY <3>3
  <2> QED
    BY <2>3, <2>4
<1> QED
  BY <1>2, <1>5, <1>6 DEF GoodLine

\* The line is good as long as the amendments are in order.
LineInv == FiledOnce /\ (AmendmentsInOrder => \E t, k : GoodLine(t, k, enacted))

LEMMA LineInit == GovInit => LineInv
<1> SUFFICES ASSUME GovInit PROVE LineInv
  OBVIOUS
<1>1. filed = << >> /\ filed \in Seq(Motions) /\ DOMAIN filed = {}
  BY DEF GovInit
<1>2. PICK t, k : IsLine(t, k, enacted)
  BY <1>1, LineExists
<1>3. FirstCome(t, k, enacted) /\ NoneMissed(t[k], enacted) /\ FiledOnce
  BY <1>1 DEF FirstCome, NoneMissed, FiledOnce
<1> QED
  BY <1>2, <1>3 DEF LineInv, GoodLine

\* The last of a line, in the next state too.
LinesEnd == filed \in Seq(Motions) => \A t, k, done : IsLine(t, k, done) =>
                EffectiveAfter(done) = t[k] /\ \A i \in 0 .. k : t[i] \in Lineage(t[k])

LEMMA LinesAlwaysEnd == LinesEnd
<1> SUFFICES ASSUME filed \in Seq(Motions), NEW t, NEW k, NEW done, IsLine(t, k, done)
             PROVE  EffectiveAfter(done) = t[k] /\ \A i \in 0 .. k : t[i] \in Lineage(t[k])
  BY DEF LinesEnd
<1>1. IsPath(t, k, done)
  BY DEF IsLine
<1> QED
  BY <1>1, LineEnds, PathIsLineage

LEMMA LineStep ==
    ASSUME GovInv, LineInv, [GovNext]_govVars
    PROVE  LineInv' /\ (AmendmentsInOrder' => EffectiveCharter \in Lineage(EffectiveCharter'))
<1>1. GovStep /\ GovInv'
  BY GovSteps DEF GovStep
<1>2. LinesEnd /\ LinesEnd'
  BY LinesAlwaysEnd, PTL
<1>3. filed \in Seq(Motions) /\ filed' \in Seq(Motions)
  BY <1>1 DEF GovInv, GovTypeOK
<1>4. ASSUME NEW t, NEW k, NEW s, NEW l, GoodLine(t, k, enacted), GoodLine(s, l, enacted)',
             Prolongs(t, k, s, l)
      PROVE  EffectiveCharter \in Lineage(EffectiveCharter')
  <2>1. EffectiveCharter = t[k] /\ k \in Nat
    BY ZenonT(30), <1>2, <1>3, <1>4 DEF LinesEnd, GoodLine, IsLine, IsPath, EffectiveCharter
  <2>2. PICK d : d = enacted'
    OBVIOUS
  <2>3. IsLine(s, l, d)' /\ EffectiveCharter' = EffectiveAfter(d)'
    BY <1>4, <2>2 DEF GoodLine, EffectiveCharter
  <2>4. EffectiveCharter' = s[l] /\ (\A i \in 0 .. l : s[i] \in Lineage(s[l])) /\ l \in Nat
    BY <1>2, <1>3, <2>3 DEF LinesEnd, IsLine, IsPath
  <2>5. k \in 0 .. k /\ k \in 0 .. l /\ s[k] = t[k]
    BY <1>4, <2>1, <2>4 DEF Prolongs
  <2> QED
    BY <2>1, <2>4, <2>5
<1>5. CASE ~Sweeps
  <2>1. Recorded
    BY <1>5, StepRecords
  <2>2. FiledOnce'
    BY <2>1, FiledOnceKept DEF LineInv, Recorded
  <2>3. SUFFICES ASSUME AmendmentsInOrder'
                 PROVE  /\ \E t, k : GoodLine(t, k, enacted)'
                        /\ EffectiveCharter \in Lineage(EffectiveCharter')
    BY <2>2 DEF LineInv
  <2>4. PICK t, k : GoodLine(t, k, enacted)
    BY <2>1, <2>3, OrderedBefore DEF LineInv
  <2>5. PICK e : e = enacted /\ e = enacted'
    BY <2>1 DEF Recorded
  <2>6. filed' = filed \/ \E p \in Motions : filed' = Append(filed, p) /\ p \notin Windowed
    BY <1>5, StepAppends
  <2>7. \A q \in Windowed : Closed(q) => Kept(q)
    BY <2>1 DEF Recorded
  <2>8. /\ \A c \in Charters : NextOf(c, e)' = NextOf(c, e)
        /\ \A c \in Charters : Amended(c, e)' = Amended(c, e)
    BY <2>5, <2>6, <2>7, SameAmendments
  <2>9. /\ \A c \in Charters : NextOf(c, enacted)' = NextOf(c, enacted)
        /\ \A c \in Charters : Amended(c, enacted)' = Amended(c, enacted)
    BY <2>5, <2>8
  <2>10. GoodLine(t, k, enacted)'
    BY <1>1, <2>1, <2>3, <2>4, <2>9, LineKept
  <2>11. Prolongs(t, k, t, k)
    <3>1. k \in Nat
      BY <2>4 DEF GoodLine, IsLine, IsPath
    <3> QED
      BY <3>1 DEF Prolongs
  <2> QED
    BY <1>4, <2>4, <2>10, <2>11
<1>6. CASE Sweeps
  <2>1. UNCHANGED <<filed, window, ballots>>
    BY <1>6 DEF Sweeps, SweepTo
  <2>2. FiledOnce' /\ (AmendmentsInOrder' <=> AmendmentsInOrder)
    BY <2>1 DEF LineInv, FiledOnce, AmendmentsInOrder, Windowed
  <2>3. SUFFICES ASSUME AmendmentsInOrder
                 PROVE  /\ \E t, k : GoodLine(t, k, enacted)'
                        /\ EffectiveCharter \in Lineage(EffectiveCharter')
    BY <2>2 DEF LineInv
  <2>4. PICK t, k : GoodLine(t, k, enacted)
    BY <2>3 DEF LineInv
  <2>5. PICK s, l, done : done = enacted' /\ GoodLine(s, l, done) /\ Prolongs(t, k, s, l)
    BY <1>6, <2>3, <2>4, SweepsProlongs DEF LineInv
  <2>6. GoodLine(s, l, done)'
    BY <2>1, <2>5, LineCarriesOver
  <2>7. GoodLine(s, l, enacted)'
    BY <2>5, <2>6
  <2> QED
    BY <1>4, <2>4, <2>5, <2>7
<1> QED
  BY <1>5, <1>6

\* Whatever the charters, their bars and the proposals are: as long as the
\* amendments stand in the log in the order of their votes, every step leaves
\* in force a charter that descends from the one before.
THEOREM CharterNeverRevertsTheorem == GovSpec => CharterNeverReverts
<1>1. GovInit => GovInv /\ LineInv
  BY GovInitInv, LineInit
<1>2. GovInv /\ LineInv /\ [GovNext]_govVars => GovInv' /\ LineInv'
  BY GovSteps, LineStep DEF GovStep
<1>3. GovInv /\ LineInv /\ [GovNext]_govVars =>
        [AmendmentsInOrder' => EffectiveCharter \in Lineage(EffectiveCharter')]_govVars
  BY LineStep
<1> QED
  BY <1>1, <1>2, <1>3, PTL DEF GovSpec, CharterNeverReverts

----------------------------------------------------------------------------
(* Emergency: the chain after the first k activations.                     *)

IsChain(c, T, n) ==
    c = [k \in 0 .. n |-> IF k = 0 THEN NoChain ELSE Extended(c[k - 1], T[k])]

LEMMA ChainExists ==
    ASSUME NEW T, NEW n \in Nat
    PROVE  \E c : IsChain(c, T, n)
<1> DEFINE Bad == {k \in 0 .. n : ~ \E c : IsChain(c, T, k)}
<1>1. SUFFICES ASSUME Bad # {} PROVE FALSE
  OBVIOUS
<1>2. Bad \subseteq Nat
  OBVIOUS
<1>3. PICK k \in Bad : \A m \in Bad : k <= m
  <2> HIDE DEF Bad
  <2> QED
    BY <1>1, <1>2, LeastNatural
<1>4. k # 0
  <2>1. IsChain([i \in 0 .. 0 |-> NoChain], T, 0)
    BY DEF IsChain
  <2> QED
    BY <2>1
<1>5. k - 1 \in 0 .. n /\ k - 1 \notin Bad /\ k \in Nat
  BY <1>3, <1>4
<1>6. PICK a : IsChain(a, T, k - 1)
  BY <1>5
<1> DEFINE Step(b, i) == IF i = 0 THEN NoChain ELSE Extended(b[i - 1], T[i])
           b == [i \in 0 .. k |-> IF i < k THEN a[i] ELSE Step(a, k)]
<1>7. \A i \in 0 .. k - 1 : a[i] = Step(a, i)
  BY <1>6 DEF IsChain
<1>8. ASSUME NEW i \in 0 .. k PROVE b[i] = Step(b, i)
  <2>1. i # 0 => b[i - 1] = a[i - 1]
    BY <1>5
  <2>2. Step(b, i) = Step(a, i)
    BY <2>1
  <2>3. b[i] = Step(a, i)
    <3>1. CASE i = k
      BY <1>5, <3>1
    <3>2. CASE i # k
      <4>1. i \in 0 .. k - 1 /\ i < k
        BY <1>5, <3>2
      <4>2. b[i] = a[i]
        BY <4>1
      <4> HIDE DEF b, Step
      <4> QED
        BY <1>7, <4>1, <4>2
    <3> QED
      BY <3>1, <3>2
  <2> QED
    BY <2>2, <2>3
<1>9. IsChain(b, T, k)
  <2>1. b = [i \in 0 .. k |-> b[i]]
    OBVIOUS
  <2> HIDE DEF b
  <2> QED
    BY <1>8, <2>1 DEF IsChain
<1> QED
  BY <1>9

ChainAt(T, n) == (CHOOSE c : IsChain(c, T, n))[n]

\* Two timelines take force and expire together, n times.
SameSpans(T, U, n) ==
    \A k \in 1 .. n : T[k].instant = U[k].instant /\ T[k].expiry = U[k].expiry

\* Two such tables agree where both are defined.
LEMMA ChainUnique ==
    ASSUME NEW T, NEW U, NEW n \in Nat, NEW m \in Nat, NEW c, NEW d, NEW h \in Nat,
           IsChain(c, T, n), IsChain(d, U, m), h <= n, h <= m,
           SameSpans(T, U, h)
    PROVE  c[h] = d[h]
<1> DEFINE Bad == {k \in 0 .. h : c[k] # d[k]}
<1>1. SUFFICES ASSUME Bad # {} PROVE FALSE
  OBVIOUS
<1>2. Bad \subseteq Nat
  OBVIOUS
<1>3. PICK k \in Bad : \A j \in Bad : k <= j
  <2> HIDE DEF Bad
  <2> QED
    BY <1>1, <1>2, LeastNatural
<1>4. c[0] = NoChain /\ d[0] = NoChain
  BY DEF IsChain
<1>5. k \in 1 .. h /\ k - 1 \in 0 .. h /\ k - 1 \notin Bad
  BY <1>3, <1>4
<1>6. c[k - 1] = d[k - 1]
  BY <1>5
<1>7. k \in 0 .. n /\ k \in 0 .. m /\ k # 0
  BY <1>5
<1>8. c[k] = Extended(c[k - 1], T[k]) /\ d[k] = Extended(d[k - 1], U[k])
  BY <1>7 DEF IsChain
<1>9. c[k] = d[k]
  <2>1. T[k].instant = U[k].instant /\ T[k].expiry = U[k].expiry
    BY <1>5 DEF SameSpans
  <2>2. Extended(c[k - 1], T[k]) = Extended(c[k - 1], U[k])
    BY <2>1 DEF Extended
  <2> QED
    BY <1>6, <1>8, <2>2
<1> QED
  BY <1>9

LEMMA ChainAtIs ==
    ASSUME NEW T
    PROVE  /\ ChainAt(T, 0) = NoChain
           /\ \A k \in Nat : k # 0 => ChainAt(T, k) = Extended(ChainAt(T, k - 1), T[k])
<1>1. ASSUME NEW n \in Nat PROVE \E c : IsChain(c, T, n) /\ ChainAt(T, n) = c[n]
  <2>1. IsChain(CHOOSE c : IsChain(c, T, n), T, n)
    BY ChainExists
  <2> QED
    BY <2>1 DEF ChainAt
<1>2. ChainAt(T, 0) = NoChain
  <2>1. PICK c : IsChain(c, T, 0) /\ ChainAt(T, 0) = c[0]
    BY <1>1
  <2> QED
    BY <2>1 DEF IsChain
<1>3. ASSUME NEW k \in Nat, k # 0
      PROVE  ChainAt(T, k) = Extended(ChainAt(T, k - 1), T[k])
  <2>0. k - 1 \in Nat /\ k - 1 <= k /\ k \in 0 .. k
    BY <1>3
  <2>1. PICK c : IsChain(c, T, k) /\ ChainAt(T, k) = c[k]
    BY <1>1
  <2>2. PICK d : IsChain(d, T, k - 1) /\ ChainAt(T, k - 1) = d[k - 1]
    BY <1>1, <2>0
  <2>3. c[k - 1] = d[k - 1]
    <3>1. SameSpans(T, T, k - 1)
      BY DEF SameSpans
    <3> QED
      BY <2>0, <2>1, <2>2, <3>1, ChainUnique
  <2>4. c[k] = Extended(c[k - 1], T[k])
    BY <1>3, <2>0, <2>1 DEF IsChain
  <2> QED
    BY <2>1, <2>2, <2>3, <2>4
<1> QED
  BY <1>2, <1>3

LEMMA FoldChainIs ==
    ASSUME NEW T, Len(T) \in Nat
    PROVE  FoldChain(T) = ChainAt(T, Len(T))
<1>1. FoldChain(T) = (CHOOSE c : IsChain(c, T, Len(T)))[Len(T)]
  BY DEF FoldChain, IsChain
<1> QED
  BY <1>1 DEF ChainAt

\* The chain is made of spans only, and of those before it.
LEMMA ChainLocal ==
    ASSUME NEW T, NEW U, NEW n \in Nat, SameSpans(T, U, n)
    PROVE  ChainAt(T, n) = ChainAt(U, n)
<1>1. PICK c : IsChain(c, T, n) /\ ChainAt(T, n) = c[n]
  BY ChainExists DEF ChainAt
<1>2. PICK d : IsChain(d, U, n) /\ ChainAt(U, n) = d[n]
  BY ChainExists DEF ChainAt
<1>3. n <= n
  OBVIOUS
<1>4. c[n] = d[n]
  BY <1>1, <1>2, <1>3, ChainUnique
<1> QED
  BY <1>1, <1>2, <1>4

\* The state of a chain, and an activation.
Chain      == [end : Int, consecutive : Nat, total : Nat]
Activated  == [decl : Declarations, instant : Nat, expiry : Nat, seq : Nat,
               renewal : Nat, lapsed : Nat]

\* An activation lasts between the floor and the ceiling.
Spans(e) == /\ e.expiry - e.instant >= DurationFloor
            /\ e.expiry - e.instant <= DurationCeiling

LEMMA ExtendedType ==
    ASSUME NEW c \in Chain, NEW e, e.instant \in Nat, e.expiry \in Nat, Spans(e)
    PROVE  /\ Extended(c, e) \in Chain
           /\ Extended(c, e).end >= c.end /\ Extended(c, e).end >= e.expiry
           /\ RenewalCount(c, e.instant) \in Nat
<1>1. Cooldown \in Nat /\ DurationFloor \in Nat
  BY EmergencyAssumption
<1>2. c.end \in Int /\ c.consecutive \in Nat /\ c.total \in Nat
  BY DEF Chain
<1>3. Max({c.end, e.expiry}) \in Int /\ Max({c.end, e.expiry}) >= c.end
      /\ Max({c.end, e.expiry}) >= e.expiry
  <2> DEFINE a == c.end
             b == e.expiry
  <2>1. a \in Int /\ b \in Int
    BY <1>2
  <2> HIDE DEF a, b
  <2>2. Max({a, b}) \in {a, b} /\ \A x \in {a, b} : x <= Max({a, b})
    BY <2>1, MaxOfTwo
  <2>3. Max({a, b}) \in Int /\ Max({a, b}) >= a /\ Max({a, b}) >= b
    BY <2>1, <2>2
  <2> QED
    BY <2>3 DEF a, b
<1>4. e.expiry - e.instant \in Nat
  BY <1>1 DEF Spans
<1>5. CASE Continues(c, e.instant)
  <2>1. Extended(c, e) = [end         |-> Max({c.end, e.expiry}),
                          consecutive |-> c.consecutive + 1,
                          total       |-> c.total + (e.expiry - e.instant)]
    BY <1>5 DEF Extended
  <2>2. RenewalCount(c, e.instant) = c.consecutive + 1
    BY <1>5 DEF RenewalCount
  <2> QED
    BY <1>2, <1>3, <1>4, <2>1, <2>2 DEF Chain
<1>6. CASE ~Continues(c, e.instant)
  <2>1. Extended(c, e) = [end |-> e.expiry, consecutive |-> 0, total |-> e.expiry - e.instant]
    BY <1>6 DEF Extended
  <2>2. e.expiry >= c.end
    BY <1>1, <1>2, <1>4, <1>6 DEF Continues
  <2>3. RenewalCount(c, e.instant) = 0
    BY <1>6 DEF RenewalCount
  <2> QED
    BY <1>2, <1>3, <1>4, <2>1, <2>2, <2>3 DEF Chain
<1> QED
  BY <1>5, <1>6

\* A timeline whose activations were each admitted by the chain before them.
Lawful(T) ==
    \A k \in 1 .. Len(T) :
        /\ T[k].instant \in Nat /\ T[k].expiry \in Nat /\ Spans(T[k])
        /\ ChainAdmits(ChainAt(T, k - 1), T[k].instant, T[k].expiry)
        /\ T[k].renewal = RenewalCount(ChainAt(T, k - 1), T[k].instant)

LEMMA ChainType ==
    ASSUME NEW T, Len(T) \in Nat, NEW n \in 0 .. Len(T),
           \A k \in 1 .. Len(T) :
               T[k].instant \in Nat /\ T[k].expiry \in Nat /\ Spans(T[k])
    PROVE  ChainAt(T, n) \in Chain /\ \A j \in 1 .. n : ChainAt(T, n).end >= T[j].expiry
<1> DEFINE Good(k) == /\ ChainAt(T, k) \in Chain
                      /\ \A j \in 1 .. k : ChainAt(T, k).end >= T[j].expiry
           Bad == {k \in 0 .. Len(T) : ~Good(k)}
<1>1. SUFFICES ASSUME Bad # {} PROVE FALSE
  OBVIOUS
<1>2. Bad \subseteq Nat
  OBVIOUS
<1>3. PICK k \in Bad : \A j \in Bad : k <= j
  <2> HIDE DEF Bad
  <2> QED
    BY <1>1, <1>2, LeastNatural
<1>4. Good(0)
  <2>1. NoChain \in Chain
    BY EmergencyAssumption DEF NoChain, Chain
  <2> QED
    BY <2>1, ChainAtIs
<1>5. k \in 1 .. Len(T) /\ k - 1 \in 0 .. Len(T) /\ k - 1 \notin Bad /\ k \in Nat
  BY <1>3, <1>4
<1>6. Good(k - 1)
  BY <1>5
<1> DEFINE c == ChainAt(T, k - 1)
<1>7. ChainAt(T, k) = Extended(c, T[k])
  BY <1>5, ChainAtIs
<1>8. /\ Extended(c, T[k]) \in Chain
      /\ Extended(c, T[k]).end >= c.end /\ Extended(c, T[k]).end >= T[k].expiry
  <2>1. c \in Chain
    BY <1>6
  <2>2. T[k].instant \in Nat /\ T[k].expiry \in Nat /\ Spans(T[k])
    BY <1>5
  <2> HIDE DEF c
  <2> QED
    BY <2>1, <2>2, ExtendedType
<1>9. ASSUME NEW j \in 1 .. k PROVE ChainAt(T, k).end >= T[j].expiry
  <2>1. CASE j = k
    BY <1>7, <1>8, <2>1
  <2>2. CASE j # k
    <3>1. j \in 1 .. k - 1 /\ j \in 1 .. Len(T)
      BY <1>5, <2>2
    <3>2. c.end >= T[j].expiry
      BY <1>6, <3>1
    <3>3. c.end \in Int /\ ChainAt(T, k).end \in Int /\ T[j].expiry \in Int
      BY <1>6, <1>7, <1>8, <3>1 DEF Chain
    <3> QED
      BY <1>7, <1>8, <3>2, <3>3
  <2> QED
    BY <2>1, <2>2
<1>10. Good(k)
  BY <1>7, <1>8, <1>9
<1> QED
  BY <1>10

\* The activations counted on from the fresh one at k.
Run(T, k) == {j \in k .. Len(T) : \A m \in k + 1 .. j : T[m].renewal # 0}

RunTime(T, k) ==
    [j \in 1 .. Len(T) |-> IF j \in Run(T, k) THEN T[j].expiry - T[j].instant ELSE 0]

\* Along such a run the chain counts what the run holds.
LEMMA RunIsCounted ==
    ASSUME NEW T, Len(T) \in Nat, Lawful(T), NEW k \in 1 .. Len(T), T[k].renewal = 0,
           NEW j \in Run(T, k)
    PROVE  /\ ChainAt(T, j).consecutive = j - k
           /\ ChainAt(T, j).total = SumTo(RunTime(T, k), j)
           /\ j - k <= MaxRenewals
           /\ ChainAt(T, j).total <= ChainMax
<1> DEFINE f == RunTime(T, k)
           Good(i) == /\ ChainAt(T, i).consecutive = i - k
                      /\ ChainAt(T, i).total = SumTo(f, i)
                      /\ i - k <= MaxRenewals
                      /\ ChainAt(T, i).total <= ChainMax
           Bad == {i \in Run(T, k) : ~Good(i)}
<1>0. /\ \A i \in 1 .. Len(T) :
           /\ T[i].instant \in Nat /\ T[i].expiry \in Nat /\ Spans(T[i])
           /\ ChainAdmits(ChainAt(T, i - 1), T[i].instant, T[i].expiry)
           /\ T[i].renewal = RenewalCount(ChainAt(T, i - 1), T[i].instant)
      /\ \A i \in 0 .. Len(T) : ChainAt(T, i) \in Chain
  <2>1. \A i \in 1 .. Len(T) : T[i].instant \in Nat /\ T[i].expiry \in Nat /\ Spans(T[i])
    BY DEF Lawful
  <2>2. \A i \in 0 .. Len(T) : ChainAt(T, i) \in Chain
    BY <2>1, ChainType
  <2> QED
    BY <2>2 DEF Lawful
<1>a. /\ DurationFloor \in Nat /\ DurationCeiling \in Nat /\ DurationCeiling <= ChainMax
      /\ ChainMax \in Nat /\ MaxRenewals \in Nat
  BY EmergencyAssumption
<1>b. \A i \in 1 .. Len(T) : /\ f[i] = IF i \in Run(T, k) THEN T[i].expiry - T[i].instant ELSE 0
                             /\ f[i] \in Int
  BY <1>0 DEF RunTime
<1>c. \A i \in Run(T, k) : i \in k .. Len(T)
  BY DEF Run
<1>1. SUFFICES ASSUME Bad # {} PROVE FALSE
  OBVIOUS
<1>2. Bad \subseteq Nat
  BY <1>c
<1>3. PICK i \in Bad : \A m \in Bad : i <= m
  <2> HIDE DEF Bad
  <2> QED
    BY <1>1, <1>2, LeastNatural
<1>4. i \in Run(T, k) /\ ~Good(i) /\ i \in k .. Len(T) /\ i \in 1 .. Len(T)
  BY <1>c
<1> DEFINE c == ChainAt(T, i - 1)
           e == T[i]
<1>5. ChainAt(T, i) = Extended(c, e)
  BY <1>4, ChainAtIs
<1>6. c \in Chain /\ i - 1 \in 0 .. Len(T) /\ i - 1 \in Nat
  BY <1>0, <1>4
<1>7. /\ e.instant \in Nat /\ e.expiry \in Nat /\ Spans(e)
      /\ ChainAdmits(c, e.instant, e.expiry) /\ e.renewal = RenewalCount(c, e.instant)
  BY <1>0, <1>4
<1>8. c.consecutive \in Nat /\ c.total \in Nat
  BY <1>6 DEF Chain
<1>9. f[i] = e.expiry - e.instant /\ f[i] <= DurationCeiling /\ f[i] \in Int
  BY <1>b, <1>4, <1>7, <1>a DEF Spans
<1>10. SumTo(f, i) = SumTo(f, i - 1) + f[i]
  <2> DEFINE n == i - 1
  <2>1. n \in Nat /\ n + 1 = i /\ \A m \in 1 .. n : m \in 1 .. Len(T)
    BY <1>4, <1>6
  <2>2. f[n + 1] \in Int /\ \A m \in 1 .. n : f[m] \in Int /\ f[m] = f[m]
    BY <1>b, <1>9, <2>1
  <2> HIDE DEF n, f
  <2>3. SumTo(f, n + 1) = SumTo(f, n) + f[n + 1]
    BY <2>1, <2>2, SumToAppend
  <2>4. n = i - 1
    BY DEF n
  <2> QED
    BY <2>1, <2>3, <2>4
<1>11. CASE i = k
  <2>1. ~Continues(c, e.instant)
    BY <1>7, <1>8, <1>11 DEF RenewalCount
  <2>2. ChainAt(T, i).consecutive = 0 /\ ChainAt(T, i).total = e.expiry - e.instant
    BY <1>5, <2>1 DEF Extended
  <2>3. SumTo(f, i - 1) = 0
    <3>1. \A m \in 1 .. i - 1 : f[m] = 0
      BY <1>b, <1>c, <1>4, <1>11
    <3> HIDE DEF f
    <3> QED
      BY <1>6, <3>1, SumOfZeros
  <2> HIDE DEF f, c, e
  <2> QED
    BY <1>a, <1>4, <1>9, <1>10, <1>11, <2>2, <2>3
<1>12. CASE i # k
  <2>1. e.renewal # 0
    BY <1>4, <1>12 DEF Run
  <2>2. Continues(c, e.instant)
    BY <1>7, <2>1 DEF RenewalCount
  <2>3. /\ ChainAt(T, i).consecutive = c.consecutive + 1
        /\ ChainAt(T, i).total = c.total + (e.expiry - e.instant)
    BY <1>5, <2>2 DEF Extended
  <2>4. c.consecutive + 1 <= MaxRenewals /\ c.total + (e.expiry - e.instant) <= ChainMax
    BY <1>7, <2>2 DEF ChainAdmits
  <2>5. i - 1 \in Run(T, k) /\ ~(i <= i - 1)
    BY <1>4, <1>12 DEF Run
  <2>6. i - 1 \notin Bad
    <3> HIDE DEF Bad
    <3> QED
      BY <1>3, <2>5
  <2>7. c.consecutive = (i - 1) - k /\ c.total = SumTo(f, i - 1)
    BY <2>5, <2>6
  <2> HIDE DEF f, c, e
  <2> QED
    BY <1>4, <1>8, <1>9, <1>10, <2>3, <2>4, <2>7
<1> QED
  BY <1>11, <1>12

\* Lawful activations make bounded chains.
LEMMA LawfulIsBounded ==
    ASSUME NEW T, Len(T) \in Nat, Lawful(T), NEW k \in 1 .. Len(T), T[k].renewal = 0
    PROVE  /\ Cardinality(Run(T, k)) <= MaxRenewals + 1
           /\ SumTo(RunTime(T, k), Len(T)) <= ChainMax
           /\ \A j \in 1 .. k - 1 : T[k].instant >= T[j].expiry + Cooldown
<1> DEFINE f == RunTime(T, k)
<1>0. \A i \in 1 .. Len(T) : T[i].instant \in Nat /\ T[i].expiry \in Nat /\ Spans(T[i])
  BY DEF Lawful
<1>1. k \in Run(T, k) /\ Run(T, k) \subseteq k .. Len(T)
  BY DEF Run
<1>2. PICK m : m = Max(Run(T, k))
  OBVIOUS
<1>3. m \in Run(T, k) /\ \A j \in Run(T, k) : j <= m
  BY <1>1, <1>2, MaxOfRange
<1>4. m \in k .. Len(T) /\ m \in Nat
  BY <1>1, <1>3
<1>5. Run(T, k) = k .. m
  <2>1. ASSUME NEW j \in k .. m PROVE j \in Run(T, k)
    BY <1>3, <1>4 DEF Run
  <2>2. ASSUME NEW j \in Run(T, k) PROVE j \in k .. m
    <3>1. j \in k .. Len(T) /\ j <= m
      BY <1>1, <1>3
    <3> QED
      BY <1>4, <3>1
  <2> QED
    BY <2>1, <2>2
<1>6. /\ m - k <= MaxRenewals
      /\ SumTo(f, m) <= ChainMax
  BY <1>3, RunIsCounted
<1>7. Cardinality(Run(T, k)) <= MaxRenewals + 1
  <2>1. Cardinality(k .. m) = m - k + 1
    BY <1>4, FS_Interval
  <2>2. MaxRenewals \in Nat
    BY EmergencyAssumption
  <2> QED
    BY <1>4, <1>5, <1>6, <2>1, <2>2
<1>8. SumTo(f, Len(T)) = SumTo(f, m)
  <2> DEFINE Bad == {n \in m .. Len(T) : SumTo(f, n) # SumTo(f, m)}
  <2>0. \A i \in 1 .. Len(T) : f[i] \in Int /\ (i > m => f[i] = 0)
    BY <1>0, <1>4, <1>5 DEF RunTime
  <2> HIDE DEF f
  <2>1. SUFFICES ASSUME Bad # {} PROVE FALSE
    BY <1>4
  <2>2. Bad \subseteq Nat
    BY <1>4
  <2>3. PICK n \in Bad : \A j \in Bad : n <= j
    <3> HIDE DEF Bad
    <3> QED
      BY <2>1, <2>2, LeastNatural
  <2>4. n \in m .. Len(T) /\ n # m
    OBVIOUS
  <2>5. PICK h \in Nat : n = h + 1
    <3>1. n - 1 \in Nat /\ n = (n - 1) + 1
      BY <1>4, <2>4
    <3> QED
      BY <3>1
  <2>6. h \in m .. Len(T) /\ ~(n <= h) /\ n \in 1 .. Len(T) /\ n > m
    BY <1>4, <2>4, <2>5
  <2>7. h \notin Bad
    <3> HIDE DEF Bad
    <3> QED
      BY <2>3, <2>6
  <2>8. SumTo(f, h) = SumTo(f, m)
    BY <2>6, <2>7
  <2>9. \A i \in 1 .. h : f[i] \in Int /\ f[i] = f[i]
    <3>1. \A i \in 1 .. h : i \in 1 .. Len(T)
      BY <2>6
    <3> QED
      BY <2>0, <3>1
  <2>10. SumTo(f, h + 1) = SumTo(f, h) + f[h + 1]
    BY <2>0, <2>5, <2>6, <2>9, SumToAppend
  <2>11. SumTo(f, h) \in Int /\ f[n] = 0
    BY <2>0, <2>6, <2>9, SumToInt
  <2>12. SumTo(f, n) = SumTo(f, m)
    BY <2>5, <2>8, <2>10, <2>11
  <2> QED
    BY <2>12
<1>9. ASSUME NEW j \in 1 .. k - 1 PROVE T[k].instant >= T[j].expiry + Cooldown
  <2> DEFINE c == ChainAt(T, k - 1)
  <2>1. k - 1 \in 0 .. Len(T)
    OBVIOUS
  <2>2. c \in Chain /\ c.end >= T[j].expiry
    BY <1>0, <2>1, ChainType
  <2>3. T[k].renewal = RenewalCount(c, T[k].instant) /\ T[k].instant \in Nat
    BY DEF Lawful
  <2>4. c.consecutive \in Nat /\ c.end \in Int
    BY <2>2 DEF Chain
  <2>5. ~Continues(c, T[k].instant)
    BY <2>3, <2>4 DEF RenewalCount
  <2>a. Cooldown \in Nat
    BY EmergencyAssumption
  <2>b. j \in 1 .. Len(T)
    OBVIOUS
  <2>6. Cooldown \in Nat /\ T[j].expiry \in Nat
    BY <1>0, <2>a, <2>b
  <2>7. T[k].instant >= c.end + Cooldown
    BY <2>3, <2>4, <2>5, <2>6 DEF Continues
  <2> HIDE DEF c
  <2> QED
    BY <2>2, <2>3, <2>4, <2>6, <2>7
<1> QED
  BY <1>6, <1>7, <1>8, <1>9

----------------------------------------------------------------------------
(* Emergency: signatures and crossings.                                    *)

Upto(S, v) == {x \in S : x <= v}

LEMMA UptoFacts ==
    ASSUME NEW n \in Nat, NEW S, S \subseteq 1 .. n
    PROVE  /\ IsFiniteSet(S) /\ Cardinality(S) \in Nat
           /\ \A v : IsFiniteSet(Upto(S, v)) /\ Cardinality(Upto(S, v)) \in Nat
           /\ \A v, w \in Nat : v <= w => Cardinality(Upto(S, v)) <= Cardinality(Upto(S, w))
<1>1. IsFiniteSet(1 .. n)
  BY FS_Interval
<1>2. IsFiniteSet(S)
  BY <1>1, FS_Subset
<1>3. \A v : Upto(S, v) \in SUBSET S
  BY DEF Upto
<1>4. \A v : IsFiniteSet(Upto(S, v))
  BY <1>2, <1>3, FS_Subset
<1>5. \A v : Cardinality(Upto(S, v)) \in Nat
  BY <1>4, FS_CardinalityType
<1>6. ASSUME NEW v \in Nat, NEW w \in Nat, v <= w
      PROVE  Cardinality(Upto(S, v)) <= Cardinality(Upto(S, w))
  <2>1. Upto(S, v) \in SUBSET Upto(S, w)
    <3>1. ASSUME NEW x \in S, x <= v PROVE x <= w
      <4>1. x \in 1 .. n
        OBVIOUS
      <4> QED
        BY <1>6, <3>1, <4>1
    <3> QED
      BY <3>1 DEF Upto
  <2> QED
    BY <1>4, <2>1, FS_Subset
<1> QED
  BY <1>2, <1>4, <1>5, <1>6, FS_CardinalityType

\* The n-th position of a set is one, and the only one.
LEMMA NthOfIs ==
    ASSUME NEW n \in Nat, NEW S, S \subseteq 1 .. n, NEW need \in Nat, need # 0,
           need <= Cardinality(S)
    PROVE  /\ NthOf(S, need) \in S /\ Cardinality(Upto(S, NthOf(S, need))) = need
           /\ \A s \in S : Cardinality(Upto(S, s)) = need => s = NthOf(S, need)
<1> DEFINE g(v) == Cardinality(Upto(S, v))
           Enough == {v \in 0 .. n : g(v) >= need}
<1>0. \A v : IsFiniteSet(Upto(S, v)) /\ g(v) \in Nat
  BY UptoFacts
<1>m. \A v, x : x \in Upto(S, v) <=> x \in S /\ x <= v
  BY DEF Upto
<1>n. \A x \in S : x \in Nat /\ x <= n /\ ~(x <= 0)
  <2>1. ASSUME NEW x \in S PROVE x \in 1 .. n
    OBVIOUS
  <2> QED
    BY <2>1
<1>1. Upto(S, n) = S /\ Upto(S, 0) = {}
  BY <1>m, <1>n
<1>2. g(0) = 0 /\ g(n) >= need
  BY <1>1, FS_EmptySet, UptoFacts
<1>3. Enough \subseteq Nat /\ Enough # {}
  BY <1>2
<1>4. PICK v \in Enough : \A w \in Enough : v <= w
  <2> HIDE DEF Enough
  <2> QED
    BY <1>3, LeastNatural
<1>5. v \in 0 .. n /\ g(v) >= need
  OBVIOUS
<1>6. v # 0
  BY <1>2, <1>5
<1>7. v - 1 \in 0 .. n /\ ~(v <= v - 1) /\ v \in 1 .. n
  BY <1>5, <1>6
<1>8. ~(g(v - 1) >= need)
  <2>1. v - 1 \notin Enough
    <3> HIDE DEF Enough
    <3> QED
      BY <1>4, <1>7
  <2> QED
    BY <1>7, <2>1
<1>9. v \in S
  <2>1. ASSUME v \notin S PROVE FALSE
    <3>1. \A x \in S : x <= v <=> x <= v - 1
      BY <1>n, <1>7, <2>1
    <3>a. \A x : x \in Upto(S, v) <=> x \in Upto(S, v - 1)
      BY <1>m, <3>1
    <3>2. Upto(S, v) = Upto(S, v - 1)
      BY <3>a
    <3> QED
      BY <1>5, <1>8, <3>2
  <2> QED
    BY <2>1
<1>10. g(v) = need
  <2>1. Upto(S, v) = Upto(S, v - 1) \cup {v} /\ v \notin Upto(S, v - 1)
    <3>1. \A x \in S : x <= v <=> x <= v - 1 \/ x = v
      BY <1>n, <1>7
    <3>2. \A x : x \in Upto(S, v) <=> x \in Upto(S, v - 1) \/ x = v
      BY <1>m, <1>9, <3>1
    <3>3. v \notin Upto(S, v - 1)
      BY <1>m, <1>7
    <3> QED
      BY <3>2, <3>3
  <2>2. g(v) = g(v - 1) + 1
    BY <1>0, <2>1, FS_AddElement
  <2> HIDE DEF g
  <2> QED
    BY <1>0, <1>5, <1>8, <2>2
<1>11. ASSUME NEW s \in S, NEW t \in S, g(s) = need, g(t) = need PROVE ~(s < t)
  <2>1. ASSUME s < t PROVE FALSE
    <3>1. Upto(S, s) \in SUBSET Upto(S, t) /\ t \in Upto(S, t) /\ t \notin Upto(S, s)
      <4>1. \A x \in S : x <= s => x <= t
        BY <1>n, <2>1
      <4>2. t <= t /\ ~(t <= s)
        BY <1>n, <2>1
      <4> QED
        BY <1>m, <4>1, <4>2
    <3>2. Upto(S, t) = Upto(S, s)
      BY <1>0, <1>11, <3>1, FS_Subset
    <3> QED
      BY <3>1, <3>2
  <2> QED
    BY <2>1
<1>12. \A s, t \in S : g(s) = need /\ g(t) = need => s = t
  <2> SUFFICES ASSUME NEW s \in S, NEW t \in S, g(s) = need, g(t) = need PROVE s = t
    OBVIOUS
  <2>1. ~(s < t) /\ ~(t < s)
    BY <1>11
  <2> QED
    BY <2>1
<1>13. NthOf(S, need) = CHOOSE s \in S : g(s) = need
  BY DEF NthOf, Upto
<1>14. NthOf(S, need) \in S /\ g(NthOf(S, need)) = need
  <2> HIDE DEF g
  <2> QED
    BY <1>9, <1>10, <1>13
<1> QED
  BY <1>12, <1>14

LEMMA ThresholdIsNat ==
    ASSUME NEW n \in Nat
    PROVE  DeclarationThreshold(n) \in Nat
<1>1. DeclarationPct \in 67 .. 100
  BY EmergencyAssumption
<1>2. n * DeclarationPct \in Nat
  BY <1>1
<1>3. ASSUME NEW a \in Nat PROVE CeilDiv(a, 100) \in Nat /\ CeilDiv(a, 3) \in Nat
  BY DEF CeilDiv
<1>4. CeilDiv(n * DeclarationPct, 100) \in Nat
  BY <1>2, <1>3
<1>5. CeilDiv(2 * n, 3) \in Nat
  BY <1>3
<1> QED
  BY <1>4, <1>5 DEF DeclarationThreshold

\* M goes on where L ends.
Prefix(L, M) == /\ Len(L) \in Nat /\ Len(M) \in Nat /\ Len(L) <= Len(M)
                /\ \A i \in 1 .. Len(L) : M[i] = L[i]

LEMMA SignaturesType ==
    ASSUME NEW L, NEW kinds, NEW d, NEW E, NEW n \in Nat
    PROVE  /\ \A w : SignedAt(L, kinds, d, w, n) \subseteq 1 .. n
           /\ FirstSignatures(L, kinds, d, E, n) \subseteq 1 .. n
<1>1. \A w : SignedAt(L, kinds, d, w, n) \subseteq 1 .. n
  BY DEF SignedAt
<1>2. ASSUME NEW w, SignedAt(L, kinds, d, w, n) # {}
      PROVE  Min(SignedAt(L, kinds, d, w, n)) \in 1 .. n
  <2>1. SignedAt(L, kinds, d, w, n) \subseteq Nat
    BY <1>1
  <2> QED
    BY <1>1, <1>2, <2>1, MinOfNaturals
<1> QED
  BY <1>1, <1>2 DEF FirstSignatures

\* What is signed by a position depends on the log up to there only.
LEMMA CrossingLocal ==
    ASSUME NEW L, NEW M, NEW kinds, NEW d, NEW E, NEW n \in Nat,
           \A i \in 1 .. n : L[i] = M[i]
    PROVE  CrossingSeq(L, kinds, d, E, n) = CrossingSeq(M, kinds, d, E, n)
<1>1. \A w : SignedAt(L, kinds, d, w, n) = SignedAt(M, kinds, d, w, n)
  BY DEF SignedAt
<1>2. FirstSignatures(L, kinds, d, E, n) = FirstSignatures(M, kinds, d, E, n)
  BY <1>1 DEF FirstSignatures
<1> QED
  BY <1>2 DEF CrossingSeq

\* Records that come later add later signatures only.
LEMMA SignaturesGrow ==
    ASSUME NEW L, NEW M, NEW kinds, NEW d, NEW E, Prefix(L, M)
    PROVE  Upto(FirstSignatures(M, kinds, d, E, Len(M)), Len(L))
               = FirstSignatures(L, kinds, d, E, Len(L))
<1> DEFINE A(w) == SignedAt(L, kinds, d, w, Len(L))
           B(w) == SignedAt(M, kinds, d, w, Len(M))
<1>0. Len(L) \in Nat /\ Len(M) \in Nat /\ Len(L) <= Len(M)
  BY DEF Prefix
<1>1. \A w, i : i \in A(w) <=> i \in B(w) /\ i <= Len(L)
  BY <1>0 DEF SignedAt, Prefix
<1>2. \A w : A(w) \subseteq Nat /\ B(w) \subseteq Nat
  BY <1>0, SignaturesType DEF SignedAt
<1> HIDE DEF A, B
<1>3. ASSUME NEW w, A(w) # {}
      PROVE  B(w) # {} /\ Min(B(w)) = Min(A(w)) /\ Min(A(w)) <= Len(L)
  <2>1. B(w) # {}
    BY <1>1, <1>3
  <2>2. /\ Min(A(w)) \in A(w) /\ \A x \in A(w) : Min(A(w)) <= x
        /\ Min(B(w)) \in B(w) /\ \A x \in B(w) : Min(B(w)) <= x
    BY <1>2, <1>3, <2>1, MinOfNaturals
  <2>3. Min(A(w)) \in B(w) /\ Min(A(w)) <= Len(L)
    BY <1>1, <2>2
  <2>4. Min(B(w)) <= Min(A(w)) /\ Min(A(w)) \in Nat /\ Min(B(w)) \in Nat
    BY <1>2, <2>2, <2>3
  <2>5. Min(B(w)) \in A(w)
    BY <1>0, <1>1, <2>2, <2>3, <2>4
  <2>6. Min(A(w)) <= Min(B(w))
    BY <2>2, <2>5
  <2> QED
    BY <2>1, <2>3, <2>4, <2>6
<1>4. ASSUME NEW w, B(w) # {}, Min(B(w)) <= Len(L)
      PROVE  A(w) # {}
  <2>1. Min(B(w)) \in B(w)
    BY <1>2, <1>4, MinOfNaturals
  <2> QED
    BY <1>1, <1>4, <2>1
<1>5. FirstSignatures(L, kinds, d, E, Len(L)) = {Min(A(w)) : w \in {v \in E : A(v) # {}}}
  BY DEF FirstSignatures, A
<1>6. FirstSignatures(M, kinds, d, E, Len(M)) = {Min(B(w)) : w \in {v \in E : B(v) # {}}}
  BY DEF FirstSignatures, B
<1>7. ASSUME NEW x, x \in FirstSignatures(L, kinds, d, E, Len(L))
      PROVE  x \in Upto(FirstSignatures(M, kinds, d, E, Len(M)), Len(L))
  <2>1. PICK w \in E : A(w) # {} /\ x = Min(A(w))
    BY <1>5, <1>7
  <2>2. B(w) # {} /\ x = Min(B(w)) /\ x <= Len(L)
    BY <1>3, <2>1
  <2>3. x \in FirstSignatures(M, kinds, d, E, Len(M))
    BY <1>6, <2>2
  <2> QED
    BY <2>2, <2>3 DEF Upto
<1>8. ASSUME NEW x, x \in Upto(FirstSignatures(M, kinds, d, E, Len(M)), Len(L))
      PROVE  x \in FirstSignatures(L, kinds, d, E, Len(L))
  <2>1. x \in FirstSignatures(M, kinds, d, E, Len(M)) /\ x <= Len(L)
    BY <1>8 DEF Upto
  <2>2. PICK w \in E : B(w) # {} /\ x = Min(B(w))
    BY <1>6, <2>1
  <2>3. A(w) # {}
    BY <1>4, <2>1, <2>2
  <2>4. x = Min(A(w))
    BY <1>3, <2>2, <2>3
  <2> QED
    BY <1>5, <2>3, <2>4
<1> QED
  BY <1>7, <1>8

LEMMA CrossingType ==
    ASSUME NEW L, NEW kinds, NEW d, NEW E, IsFiniteSet(E), NEW n \in Nat
    PROVE  CrossingSeq(L, kinds, d, E, n) \in 0 .. n
<1> DEFINE S == FirstSignatures(L, kinds, d, E, n)
           need == DeclarationThreshold(Cardinality(E))
<1>1. S \subseteq 1 .. n
  BY SignaturesType
<1>2. need \in Nat
  BY FS_CardinalityType, ThresholdIsNat
<1>3. Cardinality(S) \in Nat
  BY <1>1, UptoFacts
<1>4. CrossingSeq(L, kinds, d, E, n)
        = IF need = 0 \/ Cardinality(S) < need THEN 0 ELSE NthOf(S, need)
  BY DEF CrossingSeq
<1>5. CASE need = 0 \/ Cardinality(S) < need
  BY <1>4, <1>5
<1>6. CASE ~(need = 0 \/ Cardinality(S) < need)
  <2> HIDE DEF S, need
  <2>a. need # 0 /\ need <= Cardinality(S)
    BY <1>2, <1>3, <1>6
  <2>1. NthOf(S, need) \in S
    BY <1>1, <1>2, <2>a, NthOfIs
  <2>2. NthOf(S, need) \in 0 .. n
    <3>1. NthOf(S, need) \in 1 .. n
      BY <1>1, <2>1
    <3> QED
      BY <3>1
  <2> QED
    BY <1>4, <1>6, <2>2
<1> QED
  BY <1>5, <1>6

\* A crossing stays where it is; one that comes later lies in what came later.
LEMMA CrossingGrows ==
    ASSUME NEW L, NEW M, NEW kinds, NEW d, NEW E, IsFiniteSet(E), Prefix(L, M)
    PROVE  LET was == CrossingSeq(L, kinds, d, E, Len(L))
               now == CrossingSeq(M, kinds, d, E, Len(M))
           IN  now = was \/ (was = 0 /\ now > Len(L))
<1> DEFINE S == FirstSignatures(L, kinds, d, E, Len(L))
           R == FirstSignatures(M, kinds, d, E, Len(M))
           need == DeclarationThreshold(Cardinality(E))
           was == CrossingSeq(L, kinds, d, E, Len(L))
           now == CrossingSeq(M, kinds, d, E, Len(M))
<1>0. Len(L) \in Nat /\ Len(M) \in Nat /\ Len(L) <= Len(M)
  BY DEF Prefix
<1>1. S \subseteq 1 .. Len(L) /\ R \subseteq 1 .. Len(M)
  BY <1>0, SignaturesType
<1>2. need \in Nat
  BY FS_CardinalityType, ThresholdIsNat
<1>3. /\ IsFiniteSet(S) /\ IsFiniteSet(R) /\ Cardinality(S) \in Nat /\ Cardinality(R) \in Nat
  BY <1>0, <1>1, UptoFacts
<1>4. Upto(R, Len(L)) = S
  BY SignaturesGrow
<1>5. S \subseteq R /\ Cardinality(S) <= Cardinality(R)
  <2>1. S \in SUBSET R
    BY <1>4 DEF Upto
  <2> HIDE DEF S, R
  <2> QED
    BY <1>3, <2>1, FS_Subset
<1>6. /\ was = IF need = 0 \/ Cardinality(S) < need THEN 0 ELSE NthOf(S, need)
      /\ now = IF need = 0 \/ Cardinality(R) < need THEN 0 ELSE NthOf(R, need)
  BY DEF CrossingSeq
<1>7. was \in 0 .. Len(L) /\ now \in 0 .. Len(M)
  BY <1>0, CrossingType
<1> HIDE DEF S, R, need, was, now
<1>m. \A v, x : x \in Upto(R, v) <=> x \in R /\ x <= v
  BY DEF Upto
<1>n. \A v, x : x \in Upto(S, v) <=> x \in S /\ x <= v
  BY DEF Upto
<1>k. \A v \in Nat : v <= Len(L) => Upto(R, v) = Upto(S, v)
  <2> SUFFICES ASSUME NEW v \in Nat, v <= Len(L) PROVE Upto(R, v) = Upto(S, v)
    OBVIOUS
  <2>1. \A x \in R : x \in Nat
    BY <1>1
  <2>2. \A x \in R : x <= v => x <= Len(L)
    BY <1>0, <2>1
  <2>3. \A x : x \in S <=> x \in R /\ x <= Len(L)
    BY <1>4, <1>m
  <2>4. \A x : x \in Upto(R, v) <=> x \in Upto(S, v)
    BY <1>m, <1>n, <2>2, <2>3
  <2> QED
    BY <2>4
<1>8. CASE need = 0
  <2>1. now = was
    BY <1>6, <1>8
  <2> QED
    BY <2>1 DEF was, now
<1>9. CASE need # 0 /\ Cardinality(S) >= need
  <2>1. was = NthOf(S, need) /\ now = NthOf(R, need)
    BY <1>2, <1>3, <1>5, <1>6, <1>9
  <2>2. was \in S /\ Cardinality(Upto(S, was)) = need
    BY <1>0, <1>1, <1>2, <1>3, <1>9, <2>1, NthOfIs
  <2>3. was \in R /\ was \in Nat /\ was <= Len(L)
    BY <1>0, <1>5, <1>7, <2>2
  <2>4. Cardinality(Upto(R, was)) = need
    BY <1>k, <2>2, <2>3
  <2>5. Cardinality(R) >= need
    BY <1>2, <1>3, <1>5, <1>9
  <2>6. was = now
    BY <1>0, <1>1, <1>2, <1>3, <1>9, <2>1, <2>3, <2>4, <2>5, NthOfIs
  <2> QED
    BY <2>6 DEF was, now
<1>10. CASE need # 0 /\ Cardinality(S) < need
  <2>1. was = 0
    BY <1>6, <1>10
  <2>2. CASE Cardinality(R) < need
    <3>1. now = 0
      BY <1>6, <2>2
    <3> QED
      BY <2>1, <3>1 DEF was, now
  <2>3. CASE Cardinality(R) >= need
    <3>1. now = NthOf(R, need)
      BY <1>2, <1>3, <1>6, <1>10, <2>3
    <3>2. now \in R /\ Cardinality(Upto(R, now)) = need
      BY <1>0, <1>1, <1>2, <1>3, <1>10, <2>3, <3>1, NthOfIs
    <3>3. ASSUME now <= Len(L) PROVE FALSE
      <4>1. now \in Nat
        BY <1>0, <1>7
      <4>2. Upto(R, now) = Upto(S, now)
        BY <1>k, <3>3, <4>1
      <4>3. Upto(S, now) \in SUBSET S
        BY DEF Upto
      <4>4. Cardinality(Upto(S, now)) <= Cardinality(S)
        BY <1>3, <4>3, FS_Subset
      <4> QED
        BY <1>2, <1>3, <1>10, <3>2, <4>2, <4>4
    <3>4. now > Len(L)
      BY <1>0, <1>7, <3>3
    <3> QED
      BY <2>1, <3>4 DEF was, now
  <2> QED
    BY <1>2, <1>3, <2>2, <2>3
<1>11. now = was \/ (was = 0 /\ now > Len(L))
  BY <1>2, <1>3, <1>8, <1>9, <1>10 DEF was, now
<1> QED
  BY <1>11 DEF was, now

----------------------------------------------------------------------------
(* Emergency: what is derived from the first n records of a log.           *)

IsDerivation(t, L, n) ==
    t = [i \in 0 .. n |-> IF i = 0 THEN Nothing ELSE Derived(L, t[i - 1], i)]

LEMMA DerivationExists ==
    ASSUME NEW L, NEW n \in Nat
    PROVE  \E t : IsDerivation(t, L, n)
<1> DEFINE Bad == {k \in 0 .. n : ~ \E t : IsDerivation(t, L, k)}
<1>1. SUFFICES ASSUME Bad # {} PROVE FALSE
  OBVIOUS
<1>2. Bad \subseteq Nat
  OBVIOUS
<1>3. PICK k \in Bad : \A m \in Bad : k <= m
  <2> HIDE DEF Bad
  <2> QED
    BY <1>1, <1>2, LeastNatural
<1>4. k # 0
  <2>1. IsDerivation([i \in 0 .. 0 |-> Nothing], L, 0)
    BY DEF IsDerivation
  <2> QED
    BY <2>1
<1>5. k - 1 \in 0 .. n /\ k - 1 \notin Bad /\ k \in Nat
  BY <1>3, <1>4
<1>6. PICK a : IsDerivation(a, L, k - 1)
  BY <1>5
<1> DEFINE Step(b, i) == IF i = 0 THEN Nothing ELSE Derived(L, b[i - 1], i)
           b == [i \in 0 .. k |-> IF i < k THEN a[i] ELSE Step(a, k)]
<1>7. \A i \in 0 .. k - 1 : a[i] = Step(a, i)
  BY <1>6 DEF IsDerivation
<1>8. ASSUME NEW i \in 0 .. k PROVE b[i] = Step(b, i)
  <2>1. i # 0 => b[i - 1] = a[i - 1]
    BY <1>5
  <2>2. Step(b, i) = Step(a, i)
    BY <2>1
  <2>3. b[i] = Step(a, i)
    <3>1. CASE i = k
      BY <1>5, <3>1
    <3>2. CASE i # k
      <4>1. i \in 0 .. k - 1 /\ i < k
        BY <1>5, <3>2
      <4>2. b[i] = a[i]
        BY <4>1
      <4> HIDE DEF b, Step
      <4> QED
        BY <1>7, <4>1, <4>2
    <3> QED
      BY <3>1, <3>2
  <2> QED
    BY <2>2, <2>3
<1>9. IsDerivation(b, L, k)
  <2>1. b = [i \in 0 .. k |-> b[i]]
    OBVIOUS
  <2> HIDE DEF b
  <2> QED
    BY <1>8, <2>1 DEF IsDerivation
<1> QED
  BY <1>9

Derivation(L, n) == (CHOOSE t : IsDerivation(t, L, n))[n]

LEMMA DerivationUnique ==
    ASSUME NEW L, NEW n \in Nat, NEW m \in Nat, NEW c, NEW d, NEW h \in Nat,
           IsDerivation(c, L, n), IsDerivation(d, L, m), h <= n, h <= m
    PROVE  c[h] = d[h]
<1> DEFINE Bad == {k \in 0 .. h : c[k] # d[k]}
<1>1. SUFFICES ASSUME Bad # {} PROVE FALSE
  OBVIOUS
<1>2. Bad \subseteq Nat
  OBVIOUS
<1>3. PICK k \in Bad : \A j \in Bad : k <= j
  <2> HIDE DEF Bad
  <2> QED
    BY <1>1, <1>2, LeastNatural
<1>4. c[0] = Nothing /\ d[0] = Nothing
  BY DEF IsDerivation
<1>5. k \in 1 .. h /\ k - 1 \in 0 .. h /\ k - 1 \notin Bad
  BY <1>3, <1>4
<1>6. c[k - 1] = d[k - 1]
  BY <1>5
<1>7. k \in 0 .. n /\ k \in 0 .. m /\ k # 0
  BY <1>5
<1>8. c[k] = Derived(L, c[k - 1], k) /\ d[k] = Derived(L, d[k - 1], k)
  BY <1>7 DEF IsDerivation
<1> QED
  BY <1>3, <1>6, <1>8

LEMMA DerivationIs ==
    ASSUME NEW L
    PROVE  /\ Derivation(L, 0) = Nothing
           /\ \A k \in Nat : k # 0 => Derivation(L, k) = Derived(L, Derivation(L, k - 1), k)
           /\ Len(L) \in Nat => DeriveEmergencies(L) = Derivation(L, Len(L))
<1>1. ASSUME NEW n \in Nat PROVE \E t : IsDerivation(t, L, n) /\ Derivation(L, n) = t[n]
  <2>1. IsDerivation(CHOOSE t : IsDerivation(t, L, n), L, n)
    BY DerivationExists
  <2> QED
    BY <2>1 DEF Derivation
<1>2. Derivation(L, 0) = Nothing
  <2>1. PICK t : IsDerivation(t, L, 0) /\ Derivation(L, 0) = t[0]
    BY <1>1
  <2> QED
    BY <2>1 DEF IsDerivation
<1>3. ASSUME NEW k \in Nat, k # 0
      PROVE  Derivation(L, k) = Derived(L, Derivation(L, k - 1), k)
  <2>0. k - 1 \in Nat /\ k - 1 <= k /\ k \in 0 .. k /\ k - 1 <= k - 1
    BY <1>3
  <2>1. PICK c : IsDerivation(c, L, k) /\ Derivation(L, k) = c[k]
    BY <1>1
  <2>2. PICK d : IsDerivation(d, L, k - 1) /\ Derivation(L, k - 1) = d[k - 1]
    BY <1>1, <2>0
  <2>3. c[k - 1] = d[k - 1]
    BY <2>0, <2>1, <2>2, DerivationUnique
  <2>4. c[k] = Derived(L, c[k - 1], k)
    BY <1>3, <2>0, <2>1 DEF IsDerivation
  <2> QED
    BY <2>1, <2>2, <2>3, <2>4
<1>4. DeriveEmergencies(L) = (CHOOSE t : IsDerivation(t, L, Len(L)))[Len(L)]
  BY DEF DeriveEmergencies, IsDerivation
<1> QED
  BY <1>2, <1>3, <1>4 DEF Derivation

Shaped(a) == /\ a = [timeline |-> a.timeline, dead |-> a.dead, anchors |-> a.anchors]
             /\ a.timeline \in Seq(Activated)

\* What one record adds.
Changes(L, a, i, b) ==
    \/ /\ L[i].kind = "admitted" /\ ~Anchored(a, L[i].decl)
       /\ b = [timeline |-> a.timeline, dead |-> a.dead,
               anchors |-> WithAnchor(a.anchors, L[i].decl, L[i].at)]
    \/ /\ L[i].kind = "refused" /\ Believed(L, a, i)
       /\ b = [timeline |-> a.timeline, dead |-> a.dead \cup {L[i].decl}, anchors |-> a.anchors]
    \/ /\ L[i].kind = "activated" /\ Believed(L, a, i)
       /\ b = [timeline |-> Append(a.timeline, Activation(L, a, i)), dead |-> a.dead,
               anchors |-> a.anchors]
    \/ /\ ~(L[i].kind = "admitted" /\ ~Anchored(a, L[i].decl))
       /\ ~(L[i].kind = "refused" /\ Believed(L, a, i))
       /\ ~(L[i].kind = "activated" /\ Believed(L, a, i))
       /\ b = a

LEMMA DerivedChanges ==
    ASSUME NEW L, NEW a, NEW i,
           a = [timeline |-> a.timeline, dead |-> a.dead, anchors |-> a.anchors]
    PROVE  Changes(L, a, i, Derived(L, a, i))
<1>1. CASE L[i].kind = "admitted" /\ ~Anchored(a, L[i].decl)
  <2>1. Derived(L, a, i) = [a EXCEPT !.anchors = WithAnchor(a.anchors, L[i].decl, L[i].at)]
    BY <1>1 DEF Derived
  <2> QED
    BY <1>1, <2>1 DEF Changes
<1>2. CASE L[i].kind = "refused" /\ Believed(L, a, i)
  <2>1. Derived(L, a, i) = [a EXCEPT !.dead = a.dead \cup {L[i].decl}]
    BY <1>2 DEF Derived
  <2> QED
    BY <1>2, <2>1 DEF Changes
<1>3. CASE L[i].kind = "activated" /\ Believed(L, a, i)
  <2>1. Derived(L, a, i) = [a EXCEPT !.timeline = Append(a.timeline, Activation(L, a, i))]
    BY <1>3 DEF Derived
  <2> QED
    BY <1>3, <2>1 DEF Changes
<1>4. CASE /\ ~(L[i].kind = "admitted" /\ ~Anchored(a, L[i].decl))
           /\ ~(L[i].kind = "refused" /\ Believed(L, a, i))
           /\ ~(L[i].kind = "activated" /\ Believed(L, a, i))
  <2>1. Derived(L, a, i) = a
    BY <1>4 DEF Derived
  <2> QED
    BY <1>4, <2>1 DEF Changes
<1> QED
  BY <1>1, <1>2, <1>3, <1>4

\* L is a log: what the derivation reads of it.
IsLog(L) ==
    /\ Len(L) \in Nat
    /\ \A i \in 1 .. Len(L) :
         /\ L[i].at \in Nat /\ L[i].electorate \in Electorates
         /\ L[i].kind \in {"admitted", "activated", "refused"} => L[i].decl \in Declarations

\* What the first n records tell: lawful activations, each with where it
\* stands and where its lift crossed.
Sound(L, n, a) ==
    /\ Shaped(a)
    /\ Lawful(a.timeline)
    /\ \A k \in 1 .. Len(a.timeline) :
         LET e == a.timeline[k]
         IN  /\ e.seq \in 1 .. n
             /\ e.lapsed = CrossingSeq(L, SignsLapse, e.decl, L[e.seq].electorate, Len(L))

LEMMA ExpirySpans ==
    ASSUME NEW d \in Declarations, NEW t \in Nat
    PROVE  /\ ScheduledExpiry(d, t) \in Nat
           /\ ScheduledExpiry(d, t) - t >= DurationFloor
           /\ ScheduledExpiry(d, t) - t <= DurationCeiling
<1>1. /\ DurationFloor \in Nat /\ DurationCeiling \in Nat /\ DurationFloor <= DurationCeiling
      /\ Requested[d] \in Nat
  BY EmergencyAssumption
<1>2. PICK r \in Nat : r = Requested[d]
  BY <1>1
<1>3. PICK m : m = Min({DurationCeiling, r})
  OBVIOUS
<1>4. m \in {DurationCeiling, r} /\ m <= DurationCeiling
  <2>1. DurationCeiling \in Int /\ r \in Int
    BY <1>1
  <2>2. m \in {DurationCeiling, r} /\ \A y \in {DurationCeiling, r} : m <= y
    BY <1>3, <2>1, MinOfTwo
  <2> QED
    BY <2>2
<1>5. m \in Nat
  BY <1>1, <1>2, <1>4
<1>6. PICK x : x = Max({DurationFloor, m})
  OBVIOUS
<1>7. x \in {DurationFloor, m} /\ DurationFloor <= x
  BY <1>1, <1>5, <1>6, MaxOfTwo
<1>8. x \in Nat /\ x <= DurationCeiling
  BY <1>1, <1>4, <1>5, <1>7
<1>9. ScheduledExpiry(d, t) = t + x
  BY <1>2, <1>3, <1>6 DEF ScheduledExpiry
<1> QED
  BY <1>1, <1>7, <1>8, <1>9

\* A lawful timeline stays lawful when its chain admits one more.
LEMMA LawfulAppend ==
    ASSUME NEW T \in Seq(Activated), Lawful(T), NEW e \in Activated, Spans(e),
           ChainAdmits(FoldChain(T), e.instant, e.expiry),
           e.renewal = RenewalCount(FoldChain(T), e.instant)
    PROVE  Lawful(Append(T, e))
<1> DEFINE U == Append(T, e)
<1>1. /\ Len(T) \in Nat /\ Len(U) = Len(T) + 1 /\ U[Len(T) + 1] = e
      /\ \A k \in 1 .. Len(T) : U[k] = T[k]
  OBVIOUS
<1>2. e.instant \in Nat /\ e.expiry \in Nat
  BY DEF Activated
<1> HIDE DEF U
<1>3. ASSUME NEW k \in 0 .. Len(T) PROVE ChainAt(U, k) = ChainAt(T, k)
  <2>1. SameSpans(U, T, k) /\ k \in Nat
    <3>1. \A i \in 1 .. k : U[i] = T[i]
      BY <1>1
    <3> QED
      BY <1>1, <3>1 DEF SameSpans
  <2> QED
    BY <2>1, ChainLocal
<1>4. ASSUME NEW k \in 1 .. Len(U)
      PROVE  /\ U[k].instant \in Nat /\ U[k].expiry \in Nat /\ Spans(U[k])
             /\ ChainAdmits(ChainAt(U, k - 1), U[k].instant, U[k].expiry)
             /\ U[k].renewal = RenewalCount(ChainAt(U, k - 1), U[k].instant)
  <2>0. k - 1 \in 0 .. Len(T)
    BY <1>1
  <2>1. ChainAt(U, k - 1) = ChainAt(T, k - 1)
    BY <1>3, <2>0
  <2>2. CASE k = Len(T) + 1
    <3>1. U[k] = e /\ k - 1 = Len(T)
      BY <1>1, <2>2
    <3>2. ChainAt(U, k - 1) = FoldChain(T)
      BY <1>1, <2>1, <3>1, FoldChainIs
    <3> QED
      BY <1>2, <3>1, <3>2
  <2>3. CASE k # Len(T) + 1
    <3>1. k \in 1 .. Len(T)
      BY <1>1, <2>3
    <3>2. U[k] = T[k]
      BY <1>1, <3>1
    <3> QED
      BY <2>1, <3>1, <3>2 DEF Lawful
  <2> QED
    BY <2>2, <2>3
<1> QED
  BY <1>4 DEF Lawful, U

LEMMA ActivationIs ==
    ASSUME NEW L, IsLog(L), NEW i \in 1 .. Len(L), NEW a, Sound(L, i - 1, a),
           L[i].kind = "activated", Believed(L, a, i)
    PROVE  LET e == Activation(L, a, i)
               c == FoldChain(a.timeline)
           IN  /\ e \in Activated /\ Spans(e) /\ e.seq = i
               /\ ChainAdmits(c, e.instant, e.expiry)
               /\ e.renewal = RenewalCount(c, e.instant)
               /\ e.lapsed = CrossingSeq(L, SignsLapse, e.decl, L[e.seq].electorate, Len(L))
<1> DEFINE r == L[i]
           c == FoldChain(a.timeline)
           x == CrossingSeq(L, SignsLapse, r.decl, L[i].electorate, Len(L))
           e == Activation(L, a, i)
<1>1. r.at \in Nat /\ r.electorate \in Electorates /\ r.decl \in Declarations
  BY DEF IsLog
<1>2. r.expiry = ScheduledExpiry(r.decl, r.at) /\ ChainAdmits(c, r.at, r.expiry)
  BY DEF Believed
<1>3. r.expiry \in Nat /\ r.expiry - r.at >= DurationFloor /\ r.expiry - r.at <= DurationCeiling
  BY <1>1, <1>2, ExpirySpans
<1>4. c \in Chain
  <2>1. a.timeline \in Seq(Activated) /\ Lawful(a.timeline)
    BY DEF Sound, Shaped
  <2>2. PICK T : T = a.timeline
    OBVIOUS
  <2>3. Len(T) \in Nat /\ Len(T) \in 0 .. Len(T)
    BY <2>1, <2>2
  <2>4. \A k \in 1 .. Len(T) : T[k].instant \in Nat /\ T[k].expiry \in Nat /\ Spans(T[k])
    BY <2>1, <2>2 DEF Lawful
  <2>5. ChainAt(T, Len(T)) \in Chain
    BY <2>3, <2>4, ChainType
  <2> QED
    BY <2>2, <2>3, <2>5, FoldChainIs
<1>5. RenewalCount(c, r.at) \in Nat
  <2>1. c.consecutive \in Nat
    BY <1>4 DEF Chain
  <2> QED
    BY <2>1 DEF RenewalCount
<1>6. x \in Nat
  <2>1. IsFiniteSet(r.electorate) /\ Len(L) \in Nat
    BY <1>1, EmergencyAssumption DEF IsLog
  <2>2. x \in 0 .. Len(L)
    BY <2>1, CrossingType
  <2> QED
    BY <2>1, <2>2
<1>7. e = [decl |-> r.decl, instant |-> r.at, expiry |-> r.expiry, seq |-> i,
           renewal |-> RenewalCount(c, r.at), lapsed |-> x]
  BY DEF Activation, LiftElectorate
<1>8. i \in Nat
  BY DEF IsLog
<1>9. e \in Activated
  <2> HIDE DEF r, c, x, e
  <2> QED
    BY <1>1, <1>3, <1>5, <1>6, <1>7, <1>8 DEF Activated
<1>10. Spans(e)
  <2>1. e.expiry = r.expiry /\ e.instant = r.at
    BY <1>7
  <2> QED
    BY <1>3, <2>1 DEF Spans
<1>11. /\ e.seq = i /\ e.instant = r.at /\ e.expiry = r.expiry /\ e.decl = r.decl
       /\ e.renewal = RenewalCount(c, r.at) /\ e.lapsed = x
  BY <1>7
<1> QED
  BY <1>2, <1>9, <1>10, <1>11

LEMMA DerivedSound ==
    ASSUME NEW L, IsLog(L), NEW i \in 1 .. Len(L), NEW a, Sound(L, i - 1, a)
    PROVE  Sound(L, i, Derived(L, a, i))
<1> DEFINE b == Derived(L, a, i)
<1>0. /\ a = [timeline |-> a.timeline, dead |-> a.dead, anchors |-> a.anchors]
      /\ a.timeline \in Seq(Activated) /\ Lawful(a.timeline)
      /\ i \in Nat
  BY DEF Sound, Shaped, IsLog
<1>1. Changes(L, a, i, b)
  BY <1>0, DerivedChanges
<1>2. \A j \in 1 .. i - 1 : j \in 1 .. i
  BY <1>0
<1> HIDE DEF b
<1>3. CASE /\ b = [timeline |-> b.timeline, dead |-> b.dead, anchors |-> b.anchors]
           /\ b.timeline = a.timeline
  BY <1>0, <1>2, <1>3 DEF Sound, Shaped, b
<1>4. CASE /\ L[i].kind = "activated" /\ Believed(L, a, i)
           /\ b = [timeline |-> Append(a.timeline, Activation(L, a, i)), dead |-> a.dead,
                   anchors |-> a.anchors]
  <2>1. PICK e : e = Activation(L, a, i)
    OBVIOUS
  <2>2. PICK T \in Seq(Activated) : T = a.timeline
    BY <1>0
  <2>3. /\ e \in Activated /\ Spans(e) /\ e.seq = i
        /\ ChainAdmits(FoldChain(T), e.instant, e.expiry)
        /\ e.renewal = RenewalCount(FoldChain(T), e.instant)
        /\ e.lapsed = CrossingSeq(L, SignsLapse, e.decl, L[e.seq].electorate, Len(L))
    BY <1>4, <2>1, <2>2, ActivationIs
  <2>4. b.timeline = Append(T, e) /\ b = [timeline |-> b.timeline, dead |-> b.dead, anchors |-> b.anchors]
    BY <1>4, <2>1, <2>2
  <2>5. Append(T, e) \in Seq(Activated) /\ Len(Append(T, e)) = Len(T) + 1
        /\ Append(T, e)[Len(T) + 1] = e /\ Len(T) \in Nat
        /\ \A k \in 1 .. Len(T) : Append(T, e)[k] = T[k]
    BY <2>3
  <2>6. Lawful(Append(T, e))
    BY <1>0, <2>2, <2>3, LawfulAppend
  <2>7. ASSUME NEW k \in 1 .. Len(Append(T, e))
        PROVE  LET f == Append(T, e)[k]
               IN  /\ f.seq \in 1 .. i
                   /\ f.lapsed = CrossingSeq(L, SignsLapse, f.decl, L[f.seq].electorate, Len(L))
    <3>1. CASE k = Len(T) + 1
      BY <1>0, <2>3, <2>5, <3>1
    <3>2. CASE k # Len(T) + 1
      <4>1. k \in 1 .. Len(T)
        BY <2>5, <3>2
      <4>2. Append(T, e)[k] = a.timeline[k]
        BY <2>2, <2>5, <4>1
      <4> QED
        BY <1>2, <2>2, <4>1, <4>2 DEF Sound
    <3> QED
      BY <3>1, <3>2
  <2> QED
    BY <2>4, <2>5, <2>6, <2>7 DEF Sound, Shaped, b
<1>5. \/ /\ b = [timeline |-> b.timeline, dead |-> b.dead, anchors |-> b.anchors]
         /\ b.timeline = a.timeline
      \/ /\ L[i].kind = "activated" /\ Believed(L, a, i)
         /\ b = [timeline |-> Append(a.timeline, Activation(L, a, i)), dead |-> a.dead,
                 anchors |-> a.anchors]
  BY <1>0, <1>1 DEF Changes
<1> QED
  BY <1>3, <1>4, <1>5

LEMMA DerivationSound ==
    ASSUME NEW L, IsLog(L), NEW n \in 0 .. Len(L)
    PROVE  Sound(L, n, Derivation(L, n))
<1> DEFINE Bad == {k \in 0 .. Len(L) : ~Sound(L, k, Derivation(L, k))}
<1>0. Len(L) \in Nat
  BY DEF IsLog
<1>1. SUFFICES ASSUME Bad # {} PROVE FALSE
  OBVIOUS
<1>2. Bad \subseteq Nat
  OBVIOUS
<1>3. PICK k \in Bad : \A j \in Bad : k <= j
  <2> HIDE DEF Bad
  <2> QED
    BY <1>1, <1>2, LeastNatural
<1>4. Sound(L, 0, Derivation(L, 0))
  <2>1. Derivation(L, 0) = [timeline |-> << >>, dead |-> {}, anchors |-> << >>]
    BY DerivationIs DEF Nothing
  <2>2. << >> \in Seq(Activated) /\ Len(<< >>) = 0
    OBVIOUS
  <2>3. PICK a : a = Derivation(L, 0)
    OBVIOUS
  <2>4. a = [timeline |-> a.timeline, dead |-> a.dead, anchors |-> a.anchors]
    BY <2>1, <2>3
  <2>5. a.timeline = << >>
    BY <2>1, <2>3
  <2>6. a.timeline \in Seq(Activated) /\ 1 .. Len(a.timeline) = {}
    BY <2>2, <2>5
  <2>7. Sound(L, 0, a)
    BY <2>4, <2>6 DEF Sound, Shaped, Lawful
  <2> QED
    BY <2>3, <2>7
<1>5. k \in 1 .. Len(L) /\ k - 1 \in 0 .. Len(L) /\ k - 1 \notin Bad /\ k \in Nat /\ k # 0
  BY <1>0, <1>3, <1>4
<1>6. Sound(L, k - 1, Derivation(L, k - 1))
  BY <1>5
<1>7. Sound(L, k, Derived(L, Derivation(L, k - 1), k))
  BY <1>5, <1>6, DerivedSound
<1>8. Sound(L, k, Derivation(L, k))
  BY <1>5, <1>7, DerivationIs
<1> QED
  BY <1>8

\* b holds everything a holds.
Extends(a, b) ==
    /\ a.dead \subseteq b.dead
    /\ Len(a.timeline) <= Len(b.timeline)
    /\ \A k \in 1 .. Len(a.timeline) : b.timeline[k] = a.timeline[k]

LEMMA ChangesExtend ==
    ASSUME NEW L, NEW a, NEW b, NEW i, Shaped(a), Changes(L, a, i, b)
    PROVE  Extends(a, b)
<1>1. a.timeline \in Seq(Activated) /\ Len(a.timeline) \in Nat
  BY DEF Shaped
<1>2. CASE b.timeline = a.timeline /\ a.dead \subseteq b.dead
  BY <1>1, <1>2 DEF Extends
<1>3. CASE /\ b.timeline = Append(a.timeline, Activation(L, a, i)) /\ b.dead = a.dead
  <2>1. PICK T \in Seq(Activated) : T = a.timeline
    BY <1>1
  <2>2. PICK e : e = Activation(L, a, i)
    OBVIOUS
  <2>3. Len(Append(T, e)) = Len(T) + 1 /\ \A k \in 1 .. Len(T) : Append(T, e)[k] = T[k]
    OBVIOUS
  <2> QED
    BY <1>1, <1>3, <2>1, <2>2, <2>3 DEF Extends
<1>4. \/ b.timeline = a.timeline /\ a.dead \subseteq b.dead
      \/ b.timeline = Append(a.timeline, Activation(L, a, i)) /\ b.dead = a.dead
  BY DEF Changes
<1> QED
  BY <1>2, <1>3, <1>4

LEMMA DerivationExtends ==
    ASSUME NEW L, IsLog(L), NEW n \in 0 .. Len(L), NEW m \in n .. Len(L)
    PROVE  Extends(Derivation(L, n), Derivation(L, m))
<1> DEFINE D(k) == Derivation(L, k)
           Bad == {k \in n .. Len(L) : ~Extends(D(n), D(k))}
<1>0. Len(L) \in Nat
  BY DEF IsLog
<1>a. \A k \in 0 .. Len(L) : Shaped(D(k)) /\ Len(D(k).timeline) \in Nat
  BY DerivationSound DEF Sound, Shaped
<1>1. SUFFICES ASSUME Bad # {} PROVE FALSE
  OBVIOUS
<1>2. Bad \subseteq Nat
  BY <1>0
<1>3. PICK k \in Bad : \A j \in Bad : k <= j
  <2> HIDE DEF Bad
  <2> QED
    BY <1>1, <1>2, LeastNatural
<1>4. Extends(D(n), D(n))
  BY <1>a DEF Extends
<1>5. /\ k \in n .. Len(L) /\ k # n /\ k - 1 \in n .. Len(L) /\ k - 1 \in 0 .. Len(L)
      /\ ~(k <= k - 1) /\ k \in Nat /\ k # 0 /\ k \in 0 .. Len(L)
  BY <1>0, <1>3, <1>4
<1>6. k - 1 \notin Bad
  <2> HIDE DEF Bad
  <2> QED
    BY <1>3, <1>5
<1>7. Extends(D(n), D(k - 1))
  BY <1>5, <1>6
<1>8. Extends(D(k - 1), D(k))
  <2>1. D(k) = Derived(L, D(k - 1), k)
    BY <1>5, DerivationIs
  <2>2. Shaped(D(k - 1))
    BY <1>5, <1>a
  <2>3. Changes(L, D(k - 1), k, D(k))
    BY <2>1, <2>2, DerivedChanges DEF Shaped
  <2> HIDE DEF D
  <2> QED
    BY <2>2, <2>3, ChangesExtend
<1>9. Extends(D(n), D(k))
  <2>1. Len(D(n).timeline) \in Nat /\ Len(D(k - 1).timeline) \in Nat /\ Len(D(k).timeline) \in Nat
    BY <1>a, <1>5
  <2>2. D(n).dead \subseteq D(k).dead
    BY <1>7, <1>8 DEF Extends
  <2>3. Len(D(n).timeline) <= Len(D(k).timeline)
    BY <1>7, <1>8, <2>1 DEF Extends
  <2>4. ASSUME NEW h \in 1 .. Len(D(n).timeline) PROVE D(k).timeline[h] = D(n).timeline[h]
    <3>1. h \in 1 .. Len(D(k - 1).timeline)
      BY <1>7, <2>1 DEF Extends
    <3> QED
      BY <1>7, <1>8, <3>1 DEF Extends
  <2> QED
    BY <2>2, <2>3, <2>4 DEF Extends
<1> QED
  BY <1>9

\* The same history, but for lifts.
SameActivation(e, f) ==
    /\ e.decl = f.decl /\ e.instant = f.instant /\ e.expiry = f.expiry
    /\ e.seq = f.seq /\ e.renewal = f.renewal

Agrees(a, b) ==
    /\ a.dead = b.dead /\ a.anchors = b.anchors
    /\ Len(a.timeline) = Len(b.timeline)
    /\ \A k \in 1 .. Len(a.timeline) : SameActivation(a.timeline[k], b.timeline[k])

LEMMA AgreesOn ==
    ASSUME NEW a, NEW b, Shaped(a), Shaped(b), Agrees(a, b)
    PROVE  /\ FoldChain(a.timeline) = FoldChain(b.timeline)
           /\ \A d : /\ Decided(a, d) <=> Decided(b, d)
                     /\ Anchored(a, d) <=> Anchored(b, d)
                     /\ \A t : InTime(a, d, t) <=> InTime(b, d, t)
<1>1. PICK T \in Seq(Activated), U \in Seq(Activated) : T = a.timeline /\ U = b.timeline
  BY DEF Shaped
<1>2. /\ Len(T) \in Nat /\ Len(U) = Len(T) /\ DOMAIN T = 1 .. Len(T) /\ DOMAIN U = 1 .. Len(T)
      /\ \A k \in 1 .. Len(T) : SameActivation(T[k], U[k])
  BY <1>1 DEF Agrees
<1>3. SameSpans(T, U, Len(T))
  BY <1>2 DEF SameSpans, SameActivation
<1>4. FoldChain(T) = FoldChain(U)
  <2>1. ChainAt(T, Len(T)) = ChainAt(U, Len(T))
    BY <1>2, <1>3, ChainLocal
  <2> QED
    BY <1>2, <2>1, FoldChainIs
<1>5. ASSUME NEW d PROVE (\E e \in ToSet(T) : e.decl = d) <=> (\E e \in ToSet(U) : e.decl = d)
  <2>1. (\E e \in ToSet(T) : e.decl = d) <=> (\E k \in 1 .. Len(T) : T[k].decl = d)
    BY <1>2 DEF ToSet
  <2>2. (\E e \in ToSet(U) : e.decl = d) <=> (\E k \in 1 .. Len(T) : U[k].decl = d)
    BY <1>2 DEF ToSet
  <2>3. \A k \in 1 .. Len(T) : T[k].decl = U[k].decl
    BY <1>2 DEF SameActivation
  <2> QED
    BY <2>1, <2>2, <2>3
<1>6. ASSUME NEW d PROVE Decided(a, d) <=> Decided(b, d)
  BY <1>1, <1>5 DEF Decided, Agrees
<1>7. a.anchors = b.anchors
  BY DEF Agrees
<1> QED
  BY <1>1, <1>4, <1>6, <1>7 DEF Anchored, InTime

\* A marker is judged alike from a log and from a longer one.
LEMMA BelievedLocal ==
    ASSUME NEW L, NEW M, Prefix(L, M), NEW i \in 1 .. Len(L), NEW a, NEW b,
           Shaped(a), Shaped(b), Agrees(a, b)
    PROVE  /\ L[i].kind = "refused" => (Believed(L, a, i) <=> Believed(M, b, i))
           /\ L[i].kind = "activated" => (Believed(L, a, i) <=> Believed(M, b, i))
<1>1. L[i] = M[i] /\ Len(L) \in Nat
  BY DEF Prefix
<1>2. PICK d, t, x, E : d = L[i].decl /\ t = L[i].at /\ x = L[i].expiry /\ E = L[i].electorate
  OBVIOUS
<1>3. CrossingSeq(L, SignsDeclaration, d, E, i) = CrossingSeq(M, SignsDeclaration, d, E, i)
  <2>1. i \in Nat /\ \A j \in 1 .. i : L[j] = M[j]
    BY <1>1 DEF Prefix
  <2> QED
    BY <2>1, CrossingLocal
<1>4. /\ FoldChain(a.timeline) = FoldChain(b.timeline)
      /\ Decided(a, d) <=> Decided(b, d)
      /\ Anchored(a, d) <=> Anchored(b, d)
      /\ InTime(a, d, t) <=> InTime(b, d, t)
  BY AgreesOn
<1>5. CASE L[i].kind = "refused"
  <2>1. Believed(L, a, i) <=>
          /\ ~Decided(a, d) /\ CrossingSeq(L, SignsDeclaration, d, E, i) # 0
          /\ ~ChainAdmits(FoldChain(a.timeline), t, ScheduledExpiry(d, t))
    BY <1>2, <1>5 DEF Believed, PinnedElectorate
  <2>2. Believed(M, b, i) <=>
          /\ ~Decided(b, d) /\ CrossingSeq(M, SignsDeclaration, d, E, i) # 0
          /\ ~ChainAdmits(FoldChain(b.timeline), t, ScheduledExpiry(d, t))
    BY <1>1, <1>2, <1>5 DEF Believed, PinnedElectorate
  <2> QED
    BY <1>3, <1>4, <1>5, <2>1, <2>2
<1>6. CASE L[i].kind = "activated"
  <2>1. Believed(L, a, i) <=>
          /\ ~Decided(a, d) /\ CrossingSeq(L, SignsDeclaration, d, E, i) # 0
          /\ Anchored(a, d) /\ InTime(a, d, t) /\ x = ScheduledExpiry(d, t)
          /\ ChainAdmits(FoldChain(a.timeline), t, x)
    BY <1>2, <1>6 DEF Believed, PinnedElectorate
  <2>2. Believed(M, b, i) <=>
          /\ ~Decided(b, d) /\ CrossingSeq(M, SignsDeclaration, d, E, i) # 0
          /\ Anchored(b, d) /\ InTime(b, d, t) /\ x = ScheduledExpiry(d, t)
          /\ ChainAdmits(FoldChain(b.timeline), t, x)
    BY <1>1, <1>2, <1>6 DEF Believed, PinnedElectorate
  <2> QED
    BY <1>3, <1>4, <1>6, <2>1, <2>2
<1> QED
  BY <1>5, <1>6

LEMMA ChangesAgree ==
    ASSUME NEW L, NEW M, Prefix(L, M), NEW i \in 1 .. Len(L), NEW a, NEW b,
           Shaped(a), Shaped(b), Agrees(a, b), NEW a1, NEW b1,
           Changes(L, a, i, a1), Changes(M, b, i, b1)
    PROVE  Agrees(a1, b1)
<1>1. L[i] = M[i]
  BY DEF Prefix
<1>2. /\ L[i].kind = "refused" => (Believed(L, a, i) <=> Believed(M, b, i))
      /\ L[i].kind = "activated" => (Believed(L, a, i) <=> Believed(M, b, i))
  BY BelievedLocal
<1>3. Anchored(a, L[i].decl) <=> Anchored(b, L[i].decl)
  BY AgreesOn
<1>4. a.dead = b.dead /\ a.anchors = b.anchors
  BY DEF Agrees
<1>5. CASE L[i].kind = "admitted" /\ ~Anchored(a, L[i].decl)
  <2>1. /\ a1.timeline = a.timeline /\ a1.dead = a.dead
        /\ a1.anchors = WithAnchor(a.anchors, L[i].decl, L[i].at)
    BY <1>5 DEF Changes
  <2>2. /\ b1.timeline = b.timeline /\ b1.dead = b.dead
        /\ b1.anchors = WithAnchor(b.anchors, L[i].decl, L[i].at)
    BY <1>1, <1>3, <1>5 DEF Changes
  <2> QED
    BY <2>1, <2>2 DEF Agrees
<1>6. CASE L[i].kind = "refused" /\ Believed(L, a, i)
  <2>1. /\ a1.timeline = a.timeline /\ a1.dead = a.dead \cup {L[i].decl}
        /\ a1.anchors = a.anchors
    BY <1>6 DEF Changes
  <2>2. /\ b1.timeline = b.timeline /\ b1.dead = b.dead \cup {L[i].decl}
        /\ b1.anchors = b.anchors
    BY <1>1, <1>2, <1>6 DEF Changes
  <2> QED
    BY <2>1, <2>2 DEF Agrees
<1>7. CASE L[i].kind = "activated" /\ Believed(L, a, i)
  <2>1. /\ a1.timeline = Append(a.timeline, Activation(L, a, i)) /\ a1.dead = a.dead
        /\ a1.anchors = a.anchors
    BY <1>7 DEF Changes
  <2>2. /\ b1.timeline = Append(b.timeline, Activation(M, b, i)) /\ b1.dead = b.dead
        /\ b1.anchors = b.anchors
    BY <1>1, <1>2, <1>7 DEF Changes
  <2>3. PICK T \in Seq(Activated), U \in Seq(Activated) : T = a.timeline /\ U = b.timeline
    BY DEF Shaped
  <2>4. PICK e, f : e = Activation(L, a, i) /\ f = Activation(M, b, i)
    OBVIOUS
  <2>5. SameActivation(e, f)
    <3>1. FoldChain(a.timeline) = FoldChain(b.timeline)
      BY AgreesOn
    <3> QED
      BY <1>1, <2>4, <3>1 DEF SameActivation, Activation
  <2>6. Len(T) = Len(U) /\ \A k \in 1 .. Len(T) : SameActivation(T[k], U[k])
    BY <2>3 DEF Agrees
  <2>7. /\ Len(Append(T, e)) = Len(T) + 1 /\ Len(Append(U, f)) = Len(U) + 1 /\ Len(T) \in Nat
        /\ Append(T, e)[Len(T) + 1] = e /\ Append(U, f)[Len(U) + 1] = f
        /\ \A k \in 1 .. Len(T) : Append(T, e)[k] = T[k]
        /\ \A k \in 1 .. Len(U) : Append(U, f)[k] = U[k]
    OBVIOUS
  <2>8. ASSUME NEW k \in 1 .. Len(T) + 1 PROVE SameActivation(Append(T, e)[k], Append(U, f)[k])
    <3>1. CASE k = Len(T) + 1
      BY <2>5, <2>6, <2>7, <3>1
    <3>2. CASE k # Len(T) + 1
      <4>1. k \in 1 .. Len(T)
        BY <2>7, <3>2
      <4> QED
        BY <2>6, <2>7, <4>1
    <3> QED
      BY <3>1, <3>2
  <2>9. a1.timeline = Append(T, e) /\ b1.timeline = Append(U, f)
    BY <2>1, <2>2, <2>3, <2>4
  <2> QED
    BY <1>4, <2>1, <2>2, <2>6, <2>7, <2>8, <2>9 DEF Agrees
<1>8. CASE /\ ~(L[i].kind = "admitted" /\ ~Anchored(a, L[i].decl))
           /\ ~(L[i].kind = "refused" /\ Believed(L, a, i))
           /\ ~(L[i].kind = "activated" /\ Believed(L, a, i))
  <2>1. a1 = a
    BY <1>8 DEF Changes
  <2>2. b1 = b
    BY <1>1, <1>2, <1>3, <1>8 DEF Changes
  <2> QED
    BY <2>1, <2>2
<1> QED
  BY <1>5, <1>6, <1>7, <1>8

LEMMA DerivationsAgree ==
    ASSUME NEW L, NEW M, IsLog(L), IsLog(M), Prefix(L, M), NEW n \in 0 .. Len(L)
    PROVE  Agrees(Derivation(L, n), Derivation(M, n))
<1> DEFINE Bad == {k \in 0 .. Len(L) : ~Agrees(Derivation(L, k), Derivation(M, k))}
<1>0. Len(L) \in Nat /\ Len(M) \in Nat /\ Len(L) <= Len(M)
  BY DEF IsLog, Prefix
<1>1. SUFFICES ASSUME Bad # {} PROVE FALSE
  OBVIOUS
<1>2. Bad \subseteq Nat
  OBVIOUS
<1>3. PICK k \in Bad : \A j \in Bad : k <= j
  <2> HIDE DEF Bad
  <2> QED
    BY <1>1, <1>2, LeastNatural
<1>4. Agrees(Derivation(L, 0), Derivation(M, 0))
  <2>1. Derivation(L, 0) = Nothing /\ Derivation(M, 0) = Nothing
    BY DerivationIs
  <2> QED
    BY <2>1 DEF Agrees, SameActivation
<1>5. /\ k \in 1 .. Len(L) /\ k - 1 \in 0 .. Len(L) /\ k - 1 \notin Bad /\ k \in Nat /\ k # 0
      /\ k - 1 \in 0 .. Len(M)
  BY <1>0, <1>3, <1>4
<1>6. PICK a, b : a = Derivation(L, k - 1) /\ b = Derivation(M, k - 1)
  OBVIOUS
<1>7. Agrees(a, b)
  BY <1>5, <1>6
<1>8. Shaped(a) /\ Shaped(b)
  BY <1>5, <1>6, DerivationSound DEF Sound
<1>9. Derivation(L, k) = Derived(L, a, k) /\ Derivation(M, k) = Derived(M, b, k)
  BY <1>5, <1>6, DerivationIs
<1>10. Changes(L, a, k, Derived(L, a, k)) /\ Changes(M, b, k, Derived(M, b, k))
  BY <1>8, DerivedChanges DEF Shaped
<1>11. Agrees(Derived(L, a, k), Derived(M, b, k))
  BY <1>5, <1>7, <1>8, <1>10, ChangesAgree
<1> QED
  BY <1>5, <1>9, <1>11

----------------------------------------------------------------------------
(* Emergency: the invariant of the log.                                    *)

Signers == (UNION Electorates) \cup Declarations

EmRecord ==
    [kind : {"declaration", "admitted", "cosign", "refused", "lapse"}, decl : Declarations,
     who : Signers, at : Nat, electorate : Electorates]
    \cup [kind : {"activated"}, decl : Declarations, who : Signers, at : Nat,
          electorate : Electorates, expiry : Nat]
    \cup [kind : {"lapse_cosign"}, decl : Declarations, who : Signers, lapse : Signers,
          at : Nat, electorate : Electorates]
    \cup [kind : {"evidence"}, at : Nat, electorate : Electorates]

IsMarker(r) == r.kind \in {"activated", "refused"}

\* The i-th record is not a marker, or one that is believed.
Stands(L, i) == IsMarker(L[i]) => Believed(L, Derivation(L, i - 1), i)

GoodLog(L) == /\ L \in Seq(EmRecord) /\ Len(L) > 0
              /\ \A i \in 1 .. Len(L) : Stands(L, i)

EmergencyInv == GoodLog(emlog)

LEMMA LogFacts ==
    ASSUME NEW L \in Seq(EmRecord)
    PROVE  IsLog(L)
<1>1. ASSUME NEW r \in EmRecord
      PROVE  /\ r.at \in Nat /\ r.electorate \in Electorates
             /\ r.kind \in {"admitted", "activated", "refused"} => r.decl \in Declarations
  BY DEF EmRecord
<1>2. Len(L) \in Nat /\ \A i \in 1 .. Len(L) : L[i] \in EmRecord
  OBVIOUS
<1> QED
  BY <1>1, <1>2 DEF IsLog

LEMMA AppendIs ==
    ASSUME NEW L \in Seq(EmRecord), NEW r \in EmRecord
    PROVE  /\ Append(L, r) \in Seq(EmRecord) /\ Len(Append(L, r)) = Len(L) + 1
           /\ Append(L, r)[Len(L) + 1] = r
           /\ \A i \in 1 .. Len(L) : Append(L, r)[i] = L[i]
           /\ Prefix(L, Append(L, r))
           /\ Last(Append(L, r)) = r
<1>1. /\ Append(L, r) \in Seq(EmRecord) /\ Len(Append(L, r)) = Len(L) + 1 /\ Len(L) \in Nat
      /\ Append(L, r)[Len(L) + 1] = r
      /\ \A i \in 1 .. Len(L) : Append(L, r)[i] = L[i]
  OBVIOUS
<1> QED
  BY <1>1 DEF Prefix, Last

\* What was believed stays believed as the log grows.
LEMMA StandsKept ==
    ASSUME NEW L \in Seq(EmRecord), NEW M \in Seq(EmRecord), Prefix(L, M),
           NEW i \in 1 .. Len(L), Stands(L, i)
    PROVE  Stands(M, i)
<1>1. IsLog(L) /\ IsLog(M)
  BY LogFacts
<1>2. Len(L) \in Nat /\ Len(M) \in Nat /\ Len(L) <= Len(M) /\ M[i] = L[i]
  BY DEF Prefix
<1>3. i - 1 \in 0 .. Len(L) /\ i - 1 \in 0 .. Len(M)
  BY <1>2
<1>4. PICK a, b : a = Derivation(L, i - 1) /\ b = Derivation(M, i - 1)
  OBVIOUS
<1>5. Shaped(a) /\ Shaped(b)
  BY <1>1, <1>3, <1>4, DerivationSound DEF Sound
<1>6. Agrees(a, b)
  BY <1>1, <1>3, <1>4, DerivationsAgree
<1>7. /\ L[i].kind = "refused" => (Believed(L, a, i) <=> Believed(M, b, i))
      /\ L[i].kind = "activated" => (Believed(L, a, i) <=> Believed(M, b, i))
  BY <1>5, <1>6, BelievedLocal
<1> QED
  BY <1>2, <1>4, <1>7 DEF Stands, IsMarker

LEMMA AppendKeeps ==
    ASSUME NEW L, GoodLog(L), NEW r \in EmRecord, Stands(Append(L, r), Len(L) + 1)
    PROVE  GoodLog(Append(L, r)) /\ Prefix(L, Append(L, r))
<1> DEFINE M == Append(L, r)
<1>1. L \in Seq(EmRecord) /\ Len(L) > 0 /\ Len(L) \in Nat
  BY DEF GoodLog
<1>2. /\ M \in Seq(EmRecord) /\ Len(M) = Len(L) + 1 /\ Prefix(L, M)
  BY <1>1, AppendIs
<1> HIDE DEF M
<1>3. ASSUME NEW i \in 1 .. Len(M) PROVE Stands(M, i)
  <2>1. CASE i = Len(L) + 1
    BY <2>1 DEF M
  <2>2. CASE i # Len(L) + 1
    <3>1. i \in 1 .. Len(L)
      BY <1>1, <1>2, <2>2
    <3>2. Stands(L, i)
      BY <3>1 DEF GoodLog
    <3> QED
      BY <1>1, <1>2, <3>1, <3>2, StandsKept
  <2> QED
    BY <2>1, <2>2
<1>4. Len(M) > 0
  BY <1>1, <1>2
<1>5. GoodLog(M)
  BY <1>2, <1>3, <1>4 DEF GoodLog
<1> QED
  BY <1>2, <1>5 DEF M

LEMMA PlainRecordKeeps ==
    ASSUME NEW L, GoodLog(L), NEW r \in EmRecord, ~IsMarker(r)
    PROVE  GoodLog(Append(L, r)) /\ Prefix(L, Append(L, r))
<1>1. Append(L, r)[Len(L) + 1] = r
  BY AppendIs DEF GoodLog
<1>2. Stands(Append(L, r), Len(L) + 1)
  BY <1>1 DEF Stands
<1> QED
  BY <1>2, AppendKeeps

\* A record that signs nothing changes no crossing.
LEMMA CrossingSkips ==
    ASSUME NEW L \in Seq(EmRecord), NEW r \in EmRecord, NEW kinds, r.kind \notin kinds,
           NEW d, NEW E
    PROVE  CrossingSeq(Append(L, r), kinds, d, E, Len(L) + 1) = CrossingSeq(L, kinds, d, E, Len(L))
<1> DEFINE M == Append(L, r)
           n == Len(L)
<1>1. n \in Nat /\ M[n + 1] = r /\ \A i \in 1 .. n : M[i] = L[i]
  BY AppendIs
<1> HIDE DEF M, n
<1>2. \A i : i \in 1 .. n + 1 <=> i \in 1 .. n \/ i = n + 1
  BY <1>1
<1>3. ASSUME NEW w PROVE SignedAt(M, kinds, d, w, n + 1) = SignedAt(L, kinds, d, w, n)
  BY <1>1, <1>2 DEF SignedAt
<1>4. FirstSignatures(M, kinds, d, E, n + 1) = FirstSignatures(L, kinds, d, E, n)
  BY <1>3 DEF FirstSignatures
<1>5. CrossingSeq(M, kinds, d, E, n + 1) = CrossingSeq(L, kinds, d, E, n)
  BY <1>4 DEF CrossingSeq
<1> QED
  BY <1>5 DEF M, n

\* The marker the writer puts into a batch is believed by every reader.
LEMMA TryActivateKeeps ==
    ASSUME NEW L, GoodLog(L), ElectorateOf(L) = ElectorateOf(emlog),
           NEW d \in Declarations, NEW at \in Nat, NEW seq, seq # 0
    PROVE  LET M == TryActivate(L, d, seq, at) IN GoodLog(M) /\ Prefix(L, M)
<1>1. L \in Seq(EmRecord) /\ Len(L) > 0 /\ Len(L) \in Nat /\ IsLog(L)
  BY LogFacts DEF GoodLog
<1>2. PICK E : E = ElectorateOf(L)
  OBVIOUS
<1>3. E \in Electorates
  <2>1. L[Len(L)] \in EmRecord
    BY <1>1
  <2> QED
    BY <1>2, <2>1 DEF ElectorateOf, Last, EmRecord
<1>4. PICK a, x : a = DeriveEmergencies(L) /\ x = ScheduledExpiry(d, at)
  OBVIOUS
<1>5. a = Derivation(L, Len(L)) /\ Shaped(a)
  BY <1>1, <1>4, DerivationIs, DerivationSound DEF Sound
<1>6. x \in Nat
  BY <1>4, ExpirySpans
<1> DEFINE admits == ChainAdmits(FoldChain(a.timeline), at, x)
           marker == IF admits
                     THEN [kind |-> "activated", decl |-> d, who |-> d, at |-> at,
                           electorate |-> E, expiry |-> x]
                     ELSE [kind |-> "refused", decl |-> d, who |-> d, at |-> at, electorate |-> E]
           due == /\ ~Decided(a, d)
                  /\ CrossingSeq(L, SignsDeclaration, d, E, Len(L)) = seq
                  /\ Anchored(a, d) /\ InTime(a, d, at)
<1>7. TryActivate(L, d, seq, at) = IF due THEN Append(L, marker) ELSE L
  BY <1>2, <1>4 DEF TryActivate, Record
<1>8. CASE ~due
  <2>1. TryActivate(L, d, seq, at) = L
    BY <1>7, <1>8
  <2>2. Prefix(L, L)
    BY <1>1 DEF Prefix
  <2> QED
    BY <2>1, <2>2
<1>9. CASE due
  <2>1. PICK r : r = marker
    OBVIOUS
  <2>2. d \in Signers
    BY DEF Signers
  <2>3. /\ r \in EmRecord /\ IsMarker(r) /\ r.kind \notin SignsDeclaration
        /\ r.decl = d /\ r.at = at /\ r.electorate = E
        /\ r.kind = "activated" => admits /\ r.expiry = x
        /\ r.kind = "refused" => ~admits
    <3>1. CASE admits
      <4>1. r = [kind |-> "activated", decl |-> d, who |-> d, at |-> at,
                 electorate |-> E, expiry |-> x]
        BY <2>1, <3>1
      <4> HIDE DEF admits, marker
      <4> QED
        BY <1>3, <1>6, <2>2, <3>1, <4>1 DEF EmRecord, IsMarker, SignsDeclaration
    <3>2. CASE ~admits
      <4>1. r = [kind |-> "refused", decl |-> d, who |-> d, at |-> at, electorate |-> E]
        BY <2>1, <3>2
      <4> HIDE DEF admits, marker
      <4> QED
        BY <1>3, <1>6, <2>2, <3>2, <4>1 DEF EmRecord, IsMarker, SignsDeclaration
    <3> QED
      BY <3>1, <3>2
  <2>4. PICK M : M = Append(L, r)
    OBVIOUS
  <2>5. /\ M \in Seq(EmRecord) /\ Len(M) = Len(L) + 1 /\ Prefix(L, M) /\ M[Len(L) + 1] = r
    BY <1>1, <2>3, <2>4, AppendIs
  <2>6. IsLog(M)
    BY <2>5, LogFacts
  <2>7. PICK b : b = Derivation(M, Len(L))
    OBVIOUS
  <2>8. Shaped(b) /\ Agrees(a, b)
    <3>1. Len(L) \in 0 .. Len(L) /\ Len(L) \in 0 .. Len(M)
      BY <1>1, <2>5
    <3> QED
      BY <1>1, <1>5, <2>5, <2>6, <2>7, <3>1, DerivationSound, DerivationsAgree DEF Sound
  <2>9. /\ FoldChain(a.timeline) = FoldChain(b.timeline)
        /\ ~Decided(b, d) /\ Anchored(b, d) /\ InTime(b, d, at)
    BY <1>5, <1>9, <2>8, AgreesOn
  <2>10. CrossingSeq(M, SignsDeclaration, d, E, Len(L) + 1) # 0
    BY <1>1, <1>9, <2>3, <2>4, CrossingSkips
  <2>11. Believed(M, b, Len(L) + 1)
    <3>1. CASE r.kind = "activated"
      BY <1>4, <2>3, <2>5, <2>9, <2>10, <3>1 DEF Believed, PinnedElectorate
    <3>2. CASE r.kind = "refused"
      BY <1>4, <2>3, <2>5, <2>9, <2>10, <3>2 DEF Believed, PinnedElectorate
    <3> QED
      BY <2>3, <3>1, <3>2 DEF IsMarker
  <2>12. Stands(M, Len(L) + 1)
    <3>1. (Len(L) + 1) - 1 = Len(L)
      BY <1>1
    <3> QED
      BY <2>7, <2>11, <3>1 DEF Stands
  <2>13. GoodLog(M) /\ Prefix(L, M)
    BY <2>3, <2>4, <2>12, AppendKeeps
  <2> QED
    BY <1>7, <1>9, <2>1, <2>4, <2>13
<1> QED
  BY <1>8, <1>9

LEMMA EmergencyStart == EmergencyInit => EmergencyInv
<1> SUFFICES ASSUME EmergencyInit PROVE EmergencyInv
  OBVIOUS
<1>1. PICK members \in Electorates : emlog = <<Evidence(members, 0)>>
  BY DEF EmergencyInit
<1>2. Evidence(members, 0) \in EmRecord /\ ~IsMarker(Evidence(members, 0))
  BY DEF Evidence, EmRecord, IsMarker
<1>3. PICK r \in EmRecord : emlog = <<r>> /\ ~IsMarker(r)
  BY <1>1, <1>2
<1>4. emlog \in Seq(EmRecord) /\ Len(emlog) = 1 /\ emlog[1] = r
  BY <1>3
<1>5. ASSUME NEW i \in 1 .. Len(emlog) PROVE Stands(emlog, i)
  <2>1. i = 1
    BY <1>4
  <2> QED
    BY <1>3, <1>4, <2>1 DEF Stands
<1> QED
  BY <1>4, <1>5 DEF EmergencyInv, GoodLog

LEMMA PrefixTrans ==
    ASSUME NEW L, NEW M, NEW N, Prefix(L, M), Prefix(M, N)
    PROVE  Prefix(L, N)
BY DEF Prefix

\* Every step keeps the log good and only appends to it.
LEMMA EmergencyStep ==
    ASSUME EmergencyInv, EmergencyNext
    PROVE  EmergencyInv' /\ Prefix(emlog, emlog')
<1>1. PICK at \in Admissions :
         \/ \E d \in Declarations :
              \/ Declare(d, at)
              \/ \E w \in UNION Electorates :
                   \/ CosignDeclaration(d, w, at)
                   \/ RaiseLapse(d, w, at)
                   \/ \E by \in UNION Electorates : CosignLapse(d, by, w, at)
         \/ \E members \in Electorates : EvidenceAdmitted(members, at)
  BY DEF EmergencyNext
<1>2. emlog \in Seq(EmRecord) /\ Len(emlog) > 0 /\ Len(emlog) \in Nat /\ GoodLog(emlog)
  BY DEF EmergencyInv, GoodLog
<1>3. PICK E : E = ElectorateOf(emlog)
  OBVIOUS
<1>4. Last(emlog) \in EmRecord
  BY <1>2 DEF Last
<1>5. E \in Electorates /\ Last(emlog).at \in Nat
  BY <1>3, <1>4 DEF ElectorateOf, EmRecord
<1>6. at \in Nat
  <2>1. MaxInstant \in Nat
    BY EmergencyAssumption
  <2> QED
    BY <1>5, <2>1 DEF Admissions
<1>7. \A d, w, kind : Record(kind, d, w, at) =
         [kind |-> kind, decl |-> d, who |-> w, at |-> at, electorate |-> E]
  BY <1>3 DEF Record
<1>8. SUFFICES GoodLog(emlog') /\ Prefix(emlog, emlog')
  BY DEF EmergencyInv
<1>9. Len(emlog) + 1 # 0
  BY <1>2
<1>10. ASSUME NEW d \in Declarations, Declare(d, at) PROVE GoodLog(emlog') /\ Prefix(emlog, emlog')
  <2>1. PICK w : w = DeclaredBy[d]
    OBVIOUS
  <2>2. w \in E
    BY <1>3, <1>10, <2>1 DEF Declare
  <2>3. w \in Signers /\ d \in Signers
    BY <1>5, <2>2 DEF Signers
  <2>4. PICK r, s : r = Record("declaration", d, w, at) /\ s = Record("admitted", d, d, at)
    OBVIOUS
  <2>5. /\ r = [kind |-> "declaration", decl |-> d, who |-> w, at |-> at, electorate |-> E]
        /\ s = [kind |-> "admitted", decl |-> d, who |-> d, at |-> at, electorate |-> E]
    BY <1>7, <2>4
  <2>6. r \in EmRecord /\ s \in EmRecord /\ ~IsMarker(r) /\ ~IsMarker(s) /\ s.electorate = E
    BY <1>5, <1>6, <2>3, <2>5 DEF EmRecord, IsMarker
  <2>7. emlog' = TryActivate(emlog \o <<r, s>>, d, Len(emlog) + 1, at)
    BY <1>10, <2>1, <2>4 DEF Declare
  <2>8. emlog \o <<r, s>> = Append(Append(emlog, r), s)
    BY <1>2, <2>6
  <2>9. PICK K : K = Append(emlog, r)
    OBVIOUS
  <2>10. GoodLog(K) /\ Prefix(emlog, K)
    BY <1>2, <2>6, <2>9, PlainRecordKeeps
  <2>11. PICK L : L = Append(K, s)
    OBVIOUS
  <2>12. GoodLog(L) /\ Prefix(K, L)
    BY <2>6, <2>10, <2>11, PlainRecordKeeps
  <2>13. ElectorateOf(L) = ElectorateOf(emlog)
    <3>1. Last(L) = s
      BY <2>6, <2>10, <2>11, AppendIs DEF GoodLog
    <3> QED
      BY <1>3, <2>6, <3>1 DEF ElectorateOf
  <2>14. PICK n : n = Len(emlog) + 1
    OBVIOUS
  <2>15. PICK M : M = TryActivate(L, d, n, at)
    OBVIOUS
  <2>16. GoodLog(M) /\ Prefix(L, M)
    BY <1>6, <1>9, <2>12, <2>13, <2>14, <2>15, TryActivateKeeps
  <2>17. emlog' = M
    BY <2>7, <2>8, <2>9, <2>11, <2>14, <2>15
  <2>18. Prefix(emlog, M)
    BY <2>10, <2>12, <2>16, PrefixTrans
  <2> QED
    BY <2>16, <2>17, <2>18
<1>11. ASSUME NEW d \in Declarations, NEW w, CosignDeclaration(d, w, at)
       PROVE  GoodLog(emlog') /\ Prefix(emlog, emlog')
  <2>1. w \in Signers
    BY <1>3, <1>5, <1>11 DEF CosignDeclaration, Signers
  <2>2. PICK r : r = Record("cosign", d, w, at)
    OBVIOUS
  <2>3. r = [kind |-> "cosign", decl |-> d, who |-> w, at |-> at, electorate |-> E]
    BY <1>7, <2>2
  <2>4. r \in EmRecord /\ ~IsMarker(r) /\ r.electorate = E
    BY <1>5, <1>6, <2>1, <2>3 DEF EmRecord, IsMarker
  <2>5. PICK L : L = Append(emlog, r)
    OBVIOUS
  <2>6. GoodLog(L) /\ Prefix(emlog, L)
    BY <1>2, <2>4, <2>5, PlainRecordKeeps
  <2>7. ElectorateOf(L) = ElectorateOf(emlog)
    <3>1. Last(L) = r
      BY <1>2, <2>4, <2>5, AppendIs
    <3> QED
      BY <1>3, <2>4, <3>1 DEF ElectorateOf
  <2>8. PICK n : n = Len(emlog) + 1
    OBVIOUS
  <2>9. PICK M : M = TryActivate(L, d, n, at)
    OBVIOUS
  <2>10. GoodLog(M) /\ Prefix(L, M)
    BY <1>6, <1>9, <2>6, <2>7, <2>8, <2>9, TryActivateKeeps
  <2>11. emlog' = M
    BY <1>11, <2>2, <2>5, <2>8, <2>9 DEF CosignDeclaration
  <2>12. Prefix(emlog, M)
    BY <2>6, <2>10, PrefixTrans
  <2> QED
    BY <2>10, <2>11, <2>12
<1>12. ASSUME NEW r, emlog' = Append(emlog, r), r \in EmRecord, ~IsMarker(r)
       PROVE  GoodLog(emlog') /\ Prefix(emlog, emlog')
  <2>1. GoodLog(Append(emlog, r)) /\ Prefix(emlog, Append(emlog, r))
    BY <1>2, <1>12, PlainRecordKeeps
  <2> QED
    BY <1>12, <2>1
<1>13. ASSUME NEW d \in Declarations, NEW w \in UNION Electorates, RaiseLapse(d, w, at)
       PROVE  GoodLog(emlog') /\ Prefix(emlog, emlog')
  <2>1. PICK r : r = Record("lapse", d, w, at)
    OBVIOUS
  <2>2. r = [kind |-> "lapse", decl |-> d, who |-> w, at |-> at, electorate |-> E]
    BY <1>7, <2>1
  <2>3. w \in Signers
    BY DEF Signers
  <2>4. r \in EmRecord /\ ~IsMarker(r)
    BY <1>5, <1>6, <2>2, <2>3 DEF EmRecord, IsMarker
  <2>5. emlog' = Append(emlog, r)
    BY <1>13, <2>1 DEF RaiseLapse
  <2> QED
    BY <1>12, <2>4, <2>5
<1>14. ASSUME NEW d \in Declarations, NEW w \in UNION Electorates, NEW by \in UNION Electorates,
              CosignLapse(d, by, w, at)
       PROVE  GoodLog(emlog') /\ Prefix(emlog, emlog')
  <2>1. PICK r : r = [kind |-> "lapse_cosign", decl |-> d, who |-> w,
                      lapse |-> by, at |-> at, electorate |-> E]
    OBVIOUS
  <2>2. w \in Signers /\ by \in Signers
    BY DEF Signers
  <2>3. r \in EmRecord /\ ~IsMarker(r)
    BY <1>5, <1>6, <2>1, <2>2 DEF EmRecord, IsMarker
  <2>4. emlog' = Append(emlog, r)
    BY <1>3, <1>14, <2>1 DEF CosignLapse
  <2> QED
    BY <1>12, <2>3, <2>4
<1>15. ASSUME NEW members \in Electorates, EvidenceAdmitted(members, at)
       PROVE  GoodLog(emlog') /\ Prefix(emlog, emlog')
  <2>1. PICK r : r = Evidence(members, at)
    OBVIOUS
  <2>2. r \in EmRecord /\ ~IsMarker(r)
    BY <1>6, <2>1 DEF Evidence, EmRecord, IsMarker
  <2>3. emlog' = Append(emlog, r)
    BY <1>15, <2>1 DEF EvidenceAdmitted
  <2> QED
    BY <1>12, <2>2, <2>3
<1> QED
  BY <1>1, <1>10, <1>11, <1>13, <1>14, <1>15

LEMMA EmergencyAlways == EmergencySpec => []EmergencyInv
<1>1. EmergencyInv /\ [EmergencyNext]_emlog => EmergencyInv'
  <2>1. ASSUME EmergencyInv, UNCHANGED emlog PROVE EmergencyInv'
    <3>1. GoodLog(emlog')
      BY <2>1 DEF EmergencyInv
    <3> QED
      BY <3>1 DEF EmergencyInv
  <2> QED
    BY <2>1, EmergencyStep
<1> QED
  BY <1>1, EmergencyStart, PTL DEF EmergencySpec

\* MarkersAreBelieved always holds: the marker an open batch carries is the one
\* a replay of the log accepts, however long the log becomes.
THEOREM MarkersTheorem == EmergencySpec => []MarkersAreBelieved
<1>1. ASSUME EmergencyInv PROVE MarkersAreBelieved
  <2>1. PICK L : L = emlog
    OBVIOUS
  <2>2. L \in Seq(EmRecord) /\ Len(L) \in Nat /\ IsLog(L) /\ \A i \in 1 .. Len(L) : Stands(L, i)
    BY <1>1, <2>1, LogFacts DEF EmergencyInv, GoodLog
  <2>3. DeriveEmergencies(L) = Derivation(L, Len(L))
    BY <2>2, DerivationIs
  <2>4. ASSUME NEW i \in 1 .. Len(L), IsMarker(L[i])
        PROVE  /\ L[i].kind = "activated" =>
                     \E e \in ToSet(Derivation(L, Len(L)).timeline) : e.seq = i
               /\ L[i].kind = "refused" => L[i].decl \in Derivation(L, Len(L)).dead
    <3>1. PICK a, b, c : /\ a = Derivation(L, i - 1) /\ b = Derivation(L, i)
                         /\ c = Derivation(L, Len(L))
      OBVIOUS
    <3>2. /\ i - 1 \in 0 .. Len(L) /\ i \in 0 .. Len(L) /\ i \in Nat /\ i # 0
          /\ Len(L) \in i .. Len(L) /\ Len(L) \in 0 .. Len(L)
      BY <2>2
    <3>3. Believed(L, a, i)
      BY <2>2, <2>4, <3>1 DEF Stands
    <3>4. Sound(L, i - 1, a) /\ Shaped(a) /\ Shaped(b) /\ Shaped(c)
      BY <2>2, <3>1, <3>2, DerivationSound DEF Sound
    <3>5. b = Derived(L, a, i)
      BY <3>1, <3>2, DerivationIs
    <3>6. Changes(L, a, i, b)
      BY <3>4, <3>5, DerivedChanges DEF Shaped
    <3>7. Extends(b, c)
      BY <2>2, <3>1, <3>2, DerivationExtends
    <3>8. CASE L[i].kind = "refused"
      <4>1. L[i].decl \in b.dead
        BY <3>3, <3>6, <3>8 DEF Changes
      <4> QED
        BY <3>1, <3>7, <3>8, <4>1 DEF Extends
    <3>9. CASE L[i].kind = "activated"
      <4>1. b.timeline = Append(a.timeline, Activation(L, a, i))
        BY <3>3, <3>6, <3>9 DEF Changes
      <4>a. PICK T \in Seq(Activated) : T = a.timeline
        BY <3>4 DEF Shaped
      <4>b. PICK e : e = Activation(L, a, i)
        OBVIOUS
      <4>2. T = a.timeline /\ e = Activation(L, a, i)
        BY <4>a, <4>b
      <4>3. e.seq = i
        BY <4>2 DEF Activation
      <4>4. Len(b.timeline) = Len(T) + 1 /\ b.timeline[Len(T) + 1] = e /\ Len(T) \in Nat
        BY <4>1, <4>2
      <4>5. Len(T) + 1 \in 1 .. Len(b.timeline)
        BY <4>4
      <4>6. c.timeline[Len(T) + 1] = e /\ Len(b.timeline) <= Len(c.timeline)
        BY <3>7, <4>4, <4>5 DEF Extends
      <4>7. Len(c.timeline) \in Nat /\ DOMAIN c.timeline = 1 .. Len(c.timeline)
        BY <3>4 DEF Shaped
      <4>8. Len(T) + 1 \in DOMAIN c.timeline
        BY <4>4, <4>6, <4>7
      <4>9. e \in ToSet(c.timeline)
        BY <4>6, <4>8 DEF ToSet
      <4> QED
        BY <3>1, <3>9, <4>3, <4>9
    <3> QED
      BY <2>4, <3>8, <3>9 DEF IsMarker
  <2> QED
    BY <2>1, <2>3, <2>4 DEF MarkersAreBelieved, IsMarker
<1> QED
  BY <1>1, EmergencyAlways, PTL

\* ChainsAreBounded always holds: no sequence of declarations keeps emergency
\* powers in force past the limits of fold_chain and chain_decision.
THEOREM ChainsTheorem == EmergencySpec => []ChainsAreBounded
<1>1. ASSUME EmergencyInv PROVE ChainsAreBounded
  <2>1. PICK T : T = Timeline
    OBVIOUS
  <2>2. emlog \in Seq(EmRecord) /\ IsLog(emlog) /\ Len(emlog) \in Nat
    BY <1>1, LogFacts DEF EmergencyInv, GoodLog
  <2>3. T = Derivation(emlog, Len(emlog)).timeline
    BY <2>1, <2>2, DerivationIs DEF Timeline
  <2>4. T \in Seq(Activated) /\ Lawful(T) /\ Len(T) \in Nat
    <3>1. Len(emlog) \in 0 .. Len(emlog)
      BY <2>2
    <3>2. Sound(emlog, Len(emlog), Derivation(emlog, Len(emlog)))
      BY <2>2, <3>1, DerivationSound
    <3> QED
      BY <2>3, <3>2 DEF Sound, Shaped
  <2>5. \A k \in 1 .. Len(T) : T[k].renewal = 0 =>
          /\ Cardinality(Run(T, k)) <= MaxRenewals + 1
          /\ SumTo(RunTime(T, k), Len(T)) <= ChainMax
          /\ \A j \in 1 .. k - 1 : T[k].instant >= T[j].expiry + Cooldown
    BY <2>4, LawfulIsBounded
  <2> QED
    BY <2>1, <2>5 DEF ChainsAreBounded, Run, RunTime
<1> QED
  BY <1>1, EmergencyAlways, PTL

\* An activation found again in a longer log: only a lift may have been added.
LEMMA ActivationStands ==
    ASSUME NEW L, NEW M, IsLog(L), IsLog(M), Prefix(L, M), NEW T, NEW U,
           T = Derivation(L, Len(L)).timeline, U = Derivation(M, Len(M)).timeline
    PROVE  /\ Len(U) >= Len(T)
           /\ \A k \in 1 .. Len(T) :
                \/ U[k] = T[k]
                \/ /\ T[k].lapsed = 0 /\ U[k].lapsed > Len(L)
                   /\ U[k] = [T[k] EXCEPT !.lapsed = U[k].lapsed]
<1>1. PICK n \in Nat, m \in Nat : n = Len(L) /\ m = Len(M)
  BY DEF IsLog
<1>2. n <= m /\ n \in 0 .. n /\ n \in 0 .. m /\ m \in n .. m /\ m \in 0 .. m
  BY <1>1 DEF Prefix
<1>3. PICK a, b, c : a = Derivation(L, n) /\ b = Derivation(M, n) /\ c = Derivation(M, m)
  OBVIOUS
<1>4. Agrees(a, b) /\ Extends(b, c)
  BY <1>1, <1>2, <1>3, DerivationsAgree, DerivationExtends
<1>5. Sound(L, n, a) /\ Sound(M, m, c) /\ Sound(M, n, b)
  BY <1>1, <1>2, <1>3, DerivationSound
<1>6. T = a.timeline /\ U = c.timeline /\ T \in Seq(Activated) /\ U \in Seq(Activated)
  BY <1>1, <1>3, <1>5 DEF Sound, Shaped
<1>7. PICK V \in Seq(Activated) : V = b.timeline
  BY <1>5 DEF Sound, Shaped
<1>8. Len(T) \in Nat /\ Len(V) = Len(T) /\ Len(U) \in Nat /\ Len(U) >= Len(T)
  BY <1>4, <1>6, <1>7 DEF Agrees, Extends
<1>9. ASSUME NEW k \in 1 .. Len(T)
      PROVE  \/ U[k] = T[k]
             \/ /\ T[k].lapsed = 0 /\ U[k].lapsed > Len(L)
                /\ U[k] = [T[k] EXCEPT !.lapsed = U[k].lapsed]
  <2>1. U[k] = V[k] /\ k \in 1 .. Len(U) /\ SameActivation(T[k], V[k])
    BY <1>4, <1>6, <1>7, <1>8 DEF Agrees, Extends
  <2>2. PICK e \in Activated, f \in Activated : e = T[k] /\ f = U[k]
    BY <1>6, <2>1
  <2>3. SameActivation(e, f)
    BY <2>1, <2>2
  <2>4. /\ e.seq \in 1 .. n
        /\ e.lapsed = CrossingSeq(L, SignsLapse, e.decl, L[e.seq].electorate, n)
        /\ f.lapsed = CrossingSeq(M, SignsLapse, f.decl, M[f.seq].electorate, m)
    BY <1>1, <1>5, <1>6, <2>1, <2>2 DEF Sound
  <2>5. PICK E : E = L[e.seq].electorate
    OBVIOUS
  <2>6. M[f.seq].electorate = E /\ f.decl = e.decl
    BY <1>1, <2>3, <2>4, <2>5 DEF SameActivation, Prefix
  <2>7. IsFiniteSet(E)
    BY <1>1, <2>4, <2>5, EmergencyAssumption DEF IsLog
  <2>8. f.lapsed = e.lapsed \/ (e.lapsed = 0 /\ f.lapsed > Len(L))
    BY <1>1, <2>4, <2>5, <2>6, <2>7, CrossingGrows
  <2>9. f = [e EXCEPT !.lapsed = f.lapsed] /\ (f.lapsed = e.lapsed => f = e)
    <3>1. /\ e = [decl |-> e.decl, instant |-> e.instant, expiry |-> e.expiry, seq |-> e.seq,
                 renewal |-> e.renewal, lapsed |-> e.lapsed]
          /\ f = [decl |-> f.decl, instant |-> f.instant, expiry |-> f.expiry, seq |-> f.seq,
                 renewal |-> f.renewal, lapsed |-> f.lapsed]
      BY DEF Activated
    <3>2. f = [decl |-> e.decl, instant |-> e.instant, expiry |-> e.expiry, seq |-> e.seq,
               renewal |-> e.renewal, lapsed |-> f.lapsed]
      BY <2>3, <3>1 DEF SameActivation
    <3>3. [e EXCEPT !.lapsed = f.lapsed]
            = [decl |-> e.decl, instant |-> e.instant, expiry |-> e.expiry, seq |-> e.seq,
               renewal |-> e.renewal, lapsed |-> f.lapsed]
      BY <3>1
    <3> QED
      BY <3>1, <3>2, <3>3
  <2> QED
    BY <2>2, <2>8, <2>9
<1> QED
  BY <1>8, <1>9

\* HistoryStands always holds: a log that grows never rewrites an emergency that
\* derive_emergencies has reported.
THEOREM HistoryTheorem == EmergencySpec => HistoryStands
<1>1. ASSUME EmergencyInv, [EmergencyNext]_emlog
      PROVE  [LET was == Timeline
                  now == DeriveEmergencies(emlog').timeline
              IN  /\ Len(now) >= Len(was)
                  /\ \A k \in 1 .. Len(was) :
                       \/ now[k] = was[k]
                       \/ /\ was[k].lapsed = 0 /\ now[k].lapsed > Len(emlog)
                          /\ now[k] = [was[k] EXCEPT !.lapsed = now[k].lapsed]]_emlog
  <2>1. CASE UNCHANGED emlog
    BY <2>1
  <2>2. CASE EmergencyNext
    <3>1. Prefix(emlog, emlog') /\ GoodLog(emlog) /\ GoodLog(emlog')
      BY <1>1, <2>2, EmergencyStep DEF EmergencyInv
    <3>2. IsLog(emlog) /\ IsLog(emlog') /\ Len(emlog) \in Nat /\ Len(emlog') \in Nat
      BY <3>1, LogFacts DEF GoodLog, IsLog
    <3>3. PICK T, U : T = Timeline /\ U = DeriveEmergencies(emlog').timeline
      OBVIOUS
    <3>4. /\ T = Derivation(emlog, Len(emlog)).timeline
          /\ U = Derivation(emlog', Len(emlog')).timeline
      BY <3>2, <3>3, DerivationIs DEF Timeline
    <3>5. PICK L, M : L = emlog /\ M = emlog'
      OBVIOUS
    <3>6. /\ Len(U) >= Len(T)
          /\ \A k \in 1 .. Len(T) :
               \/ U[k] = T[k]
               \/ /\ T[k].lapsed = 0 /\ U[k].lapsed > Len(L)
                  /\ U[k] = [T[k] EXCEPT !.lapsed = U[k].lapsed]
      BY <3>1, <3>2, <3>4, <3>5, ActivationStands
    <3> QED
      BY <3>3, <3>5, <3>6
  <2> QED
    BY <1>1, <2>1, <2>2
<1> QED
  BY <1>1, EmergencyAlways, PTL DEF EmergencySpec, HistoryStands
=============================================================================
