---------------------------- MODULE LedgerProofs ----------------------------
(***************************************************************************)
(* Theorems about Ledger, for all parties, offers, requests, charges and   *)
(* limits.  The floor theorems are for a clock that never steps back.      *)
(* What the log fixes for good holds whatever the clock does: settlement   *)
(* windows in log order, every signed record taking effect once, balances  *)
(* that are the sum of what settled, certificates spent within their cap   *)
(* and overspends proven by records of the log.                            *)
(***************************************************************************)
EXTENDS Ledger, DataTheorems, SequenceTheorems, FiniteSetTheorems

-----------------------------------------------------------------------------
(* Types of the records the operations build.                              *)

\* Larger and Smaller pick one of their arguments.
LEMMA LargerProps ==
    ASSUME NEW x \in Int, NEW y \in Int
    PROVE  /\ Larger(x, y) \in Int
           /\ Larger(x, y) >= x /\ Larger(x, y) >= y
           /\ Larger(x, y) = x \/ Larger(x, y) = y
  BY DEF Larger

\* The fields of offers, requests and charges.
LEMMA OfferFields ==
    ASSUME NEW o \in Offers
    PROVE  /\ o \in OfferType
           /\ o.sender \in Parties /\ o.receiver \in Parties
           /\ o.amount \in Int /\ o.nonce \in Nat
           /\ o.proposedAt \in Nat /\ o.expiresAt \in Nat
  BY RecordAssumption DEF OfferType

LEMMA RequestFields ==
    ASSUME NEW r \in Requests
    PROVE  r.member \in Parties /\ r.cap \in Int /\ r.nonce \in Nat
  BY RecordAssumption DEF RequestType

LEMMA ChargeFields ==
    ASSUME NEW c \in Charges
    PROVE  c.buyer \in Parties /\ c.provider \in Parties /\ c.amount \in Int
  BY RecordAssumption DEF ChargeType

\* Moving one transaction to another stage.
LEMMA TxUpdate ==
    ASSUME NEW ts \in Seq(TxType), NEW i \in DOMAIN ts, NEW t \in TxType
    PROVE  /\ [ts EXCEPT ![i] = t] \in Seq(TxType)
           /\ Len([ts EXCEPT ![i] = t]) = Len(ts)
           /\ [ts EXCEPT ![i] = t][i] = t
           /\ \A j \in 1..Len(ts) : j # i => [ts EXCEPT ![i] = t][j] = ts[j]
<1>1. i \in 1..Len(ts) /\ DOMAIN ts = 1..Len(ts)
  OBVIOUS
<1> QED
  BY <1>1, ExceptSeq

LEMMA CertUpdate ==
    ASSUME NEW cs \in Seq(CertType), NEW i \in DOMAIN cs, NEW c \in CertType
    PROVE  /\ [cs EXCEPT ![i] = c] \in Seq(CertType)
           /\ Len([cs EXCEPT ![i] = c]) = Len(cs)
           /\ [cs EXCEPT ![i] = c][i] = c
           /\ \A j \in 1..Len(cs) : j # i => [cs EXCEPT ![i] = c][j] = cs[j]
<1>1. i \in 1..Len(cs) /\ DOMAIN cs = 1..Len(cs)
  OBVIOUS
<1> QED
  BY <1>1, ExceptSeq

-----------------------------------------------------------------------------
(* Committed debits.                                                       *)

\* A transaction's debit is a natural number and never grows with time.
LEMMA TxDebitProps ==
    ASSUME NEW t \in TxType, NEW m, NEW at \in Int
    PROVE  /\ TxDebit(t, m, at) \in Nat
           /\ \A later \in Int : at <= later => TxDebit(t, m, later) <= TxDebit(t, m, at)
<1>1. t.offer \in Offers /\ t.stage \in Stages
  BY DEF TxType
<1>2. t.offer.amount \in Int /\ t.offer.expiresAt \in Nat
  BY <1>1, OfferFields
<1> QED
  BY <1>2, ClockAssumption DEF TxDebit

\* So is a certificate's reservation.
LEMMA CertReserveProps ==
    ASSUME NEW c \in CertType, NEW m, NEW at \in Int
    PROVE  /\ CertReserve(c, m, at) \in Nat
           /\ \A later \in Int :
                at <= later => CertReserve(c, m, later) <= CertReserve(c, m, at)
<1>1. c.req \in Requests /\ c.expiresAt \in Nat /\ c.consumed \in Int
  BY DEF CertType
<1>2. c.req.cap \in Int
  BY <1>1, RequestFields
<1>3. SpendAdmissibleUntil(c) \in Int
  BY <1>1, ClockAssumption, CreditAssumption DEF SpendAdmissibleUntil
<1>4. Larger(c.req.cap - c.consumed, 0) \in Nat
  BY <1>1, <1>2 DEF Larger
<1>5. \A later \in Int : at <= later /\ Live(c, later) => Live(c, at)
  BY <1>3 DEF Live
<1>6. CertReserve(c, m, at) \in Nat
  BY <1>4 DEF CertReserve
<1>7. ASSUME NEW later \in Int, at <= later
      PROVE  CertReserve(c, m, later) <= CertReserve(c, m, at)
  BY <1>4, <1>5, <1>7 DEF CertReserve
<1> QED
  BY <1>6, <1>7

LEMMA TxCommittedInt ==
    ASSUME NEW ts \in Seq(TxType), NEW m, NEW at \in Int
    PROVE  TxCommitted(ts, m, at) \in Int
<1> DEFINE f == [i \in 1..Len(ts) |-> TxDebit(ts[i], m, at)]
<1>1. \A i \in 1..Len(ts) : f[i] \in Int
  BY TxDebitProps
<1>2. Len(ts) \in Nat
  OBVIOUS
<1> HIDE DEF f
<1>3. SumTo(f, Len(ts)) \in Int
  BY <1>1, <1>2, SumToInt
<1> QED
  BY <1>3 DEF TxCommitted, f

LEMMA TxCommittedAppend ==
    ASSUME NEW ts \in Seq(TxType), NEW t \in TxType, NEW m, NEW at \in Int
    PROVE  TxCommitted(Append(ts, t), m, at) = TxCommitted(ts, m, at) + TxDebit(t, m, at)
<1> DEFINE us == Append(ts, t)
           f == [i \in 1..Len(ts) |-> TxDebit(ts[i], m, at)]
           g == [i \in 1..Len(us) |-> TxDebit(us[i], m, at)]
<1>1. Len(ts) \in Nat /\ Len(us) = Len(ts) + 1 /\ us[Len(ts) + 1] = t
      /\ \A i \in 1..Len(ts) : us[i] = ts[i]
  OBVIOUS
<1>2. \A i \in 1..Len(ts) : f[i] \in Int
  BY TxDebitProps
<1> HIDE DEF us
<1>3. g[Len(ts) + 1] = TxDebit(t, m, at) /\ g[Len(ts) + 1] \in Int
  BY <1>1, TxDebitProps
<1>4. \A i \in 1..Len(ts) : g[i] = f[i]
  BY <1>1
<1> HIDE DEF f, g
<1>5. SumTo(g, Len(ts) + 1) = SumTo(f, Len(ts)) + g[Len(ts) + 1]
  BY <1>1, <1>2, <1>3, <1>4, SumToAppend
<1> QED
  BY <1>1, <1>3, <1>5 DEF TxCommitted, f, g, us

LEMMA TxCommittedUpdate ==
    ASSUME NEW ts \in Seq(TxType), NEW i \in DOMAIN ts, NEW t \in TxType,
           NEW m, NEW at \in Int
    PROVE  TxCommitted([ts EXCEPT ![i] = t], m, at)
             = TxCommitted(ts, m, at) + TxDebit(t, m, at) - TxDebit(ts[i], m, at)
<1> DEFINE us == [ts EXCEPT ![i] = t]
           f == [j \in 1..Len(ts) |-> TxDebit(ts[j], m, at)]
           g == [j \in 1..Len(ts) |-> TxDebit(us[j], m, at)]
<1>1. Len(us) = Len(ts) /\ us[i] = t /\ \A j \in 1..Len(ts) : j # i => us[j] = ts[j]
  BY TxUpdate
<1>2. Len(ts) \in Nat /\ i \in 1..Len(ts) /\ \A j \in 1..Len(ts) : ts[j] \in TxType
  OBVIOUS
<1> HIDE DEF us
<1>3. /\ f[i] = TxDebit(ts[i], m, at) /\ f[i] \in Int
      /\ g[i] = TxDebit(t, m, at) /\ g[i] \in Int
  BY <1>1, <1>2, TxDebitProps
<1>4. \A j \in 1..Len(ts) : j # i => f[j] \in Int /\ g[j] = f[j]
  BY <1>1, <1>2, TxDebitProps
<1> HIDE DEF f, g
<1>5. SumTo(g, Len(ts)) = SumTo(f, Len(ts)) + g[i] - f[i]
  BY <1>2, <1>3, <1>4, SumToUpdate
<1> QED
  BY <1>1, <1>3, <1>5 DEF TxCommitted, f, g, us

LEMMA TxCommittedFalls ==
    ASSUME NEW ts \in Seq(TxType), NEW m, NEW at \in Int, NEW later \in Int,
           at <= later
    PROVE  TxCommitted(ts, m, later) <= TxCommitted(ts, m, at)
<1> DEFINE f == [j \in 1..Len(ts) |-> TxDebit(ts[j], m, later)]
           g == [j \in 1..Len(ts) |-> TxDebit(ts[j], m, at)]
<1>1. Len(ts) \in Nat /\ \A j \in 1..Len(ts) : ts[j] \in TxType
  OBVIOUS
<1>2. \A j \in 1..Len(ts) : f[j] \in Int /\ g[j] \in Int /\ f[j] <= g[j]
  BY <1>1, TxDebitProps
<1> HIDE DEF f, g
<1>3. SumTo(f, Len(ts)) <= SumTo(g, Len(ts))
  BY <1>1, <1>2, SumToMonotone
<1> QED
  BY <1>3 DEF TxCommitted, f, g

LEMMA CertCommittedInt ==
    ASSUME NEW cs \in Seq(CertType), NEW m, NEW at \in Int
    PROVE  CertCommitted(cs, m, at) \in Int
<1> DEFINE f == [i \in 1..Len(cs) |-> CertReserve(cs[i], m, at)]
<1>1. \A i \in 1..Len(cs) : f[i] \in Int
  BY CertReserveProps
<1>2. Len(cs) \in Nat
  OBVIOUS
<1> HIDE DEF f
<1>3. SumTo(f, Len(cs)) \in Int
  BY <1>1, <1>2, SumToInt
<1> QED
  BY <1>3 DEF CertCommitted, f

LEMMA CertCommittedAppend ==
    ASSUME NEW cs \in Seq(CertType), NEW c \in CertType, NEW m, NEW at \in Int
    PROVE  CertCommitted(Append(cs, c), m, at)
             = CertCommitted(cs, m, at) + CertReserve(c, m, at)
<1> DEFINE ds == Append(cs, c)
           f == [i \in 1..Len(cs) |-> CertReserve(cs[i], m, at)]
           g == [i \in 1..Len(ds) |-> CertReserve(ds[i], m, at)]
<1>1. Len(cs) \in Nat /\ Len(ds) = Len(cs) + 1 /\ ds[Len(cs) + 1] = c
      /\ \A i \in 1..Len(cs) : ds[i] = cs[i]
  OBVIOUS
<1>2. \A i \in 1..Len(cs) : f[i] \in Int
  BY CertReserveProps
<1> HIDE DEF ds
<1>3. g[Len(cs) + 1] = CertReserve(c, m, at) /\ g[Len(cs) + 1] \in Int
  BY <1>1, CertReserveProps
<1>4. \A i \in 1..Len(cs) : g[i] = f[i]
  BY <1>1
<1> HIDE DEF f, g
<1>5. SumTo(g, Len(cs) + 1) = SumTo(f, Len(cs)) + g[Len(cs) + 1]
  BY <1>1, <1>2, <1>3, <1>4, SumToAppend
<1> QED
  BY <1>1, <1>3, <1>5 DEF CertCommitted, f, g, ds

LEMMA CertCommittedUpdate ==
    ASSUME NEW cs \in Seq(CertType), NEW i \in DOMAIN cs, NEW c \in CertType,
           NEW m, NEW at \in Int
    PROVE  CertCommitted([cs EXCEPT ![i] = c], m, at)
             = CertCommitted(cs, m, at) + CertReserve(c, m, at)
               - CertReserve(cs[i], m, at)
<1> DEFINE ds == [cs EXCEPT ![i] = c]
           f == [j \in 1..Len(cs) |-> CertReserve(cs[j], m, at)]
           g == [j \in 1..Len(cs) |-> CertReserve(ds[j], m, at)]
<1>1. Len(ds) = Len(cs) /\ ds[i] = c /\ \A j \in 1..Len(cs) : j # i => ds[j] = cs[j]
  BY CertUpdate
<1>2. Len(cs) \in Nat /\ i \in 1..Len(cs) /\ \A j \in 1..Len(cs) : cs[j] \in CertType
  OBVIOUS
<1> HIDE DEF ds
<1>3. /\ f[i] = CertReserve(cs[i], m, at) /\ f[i] \in Int
      /\ g[i] = CertReserve(c, m, at) /\ g[i] \in Int
  BY <1>1, <1>2, CertReserveProps
<1>4. \A j \in 1..Len(cs) : j # i => f[j] \in Int /\ g[j] = f[j]
  BY <1>1, <1>2, CertReserveProps
<1> HIDE DEF f, g
<1>5. SumTo(g, Len(cs)) = SumTo(f, Len(cs)) + g[i] - f[i]
  BY <1>2, <1>3, <1>4, SumToUpdate
<1> QED
  BY <1>1, <1>3, <1>5 DEF CertCommitted, f, g, ds

LEMMA CertCommittedFalls ==
    ASSUME NEW cs \in Seq(CertType), NEW m, NEW at \in Int, NEW later \in Int,
           at <= later
    PROVE  CertCommitted(cs, m, later) <= CertCommitted(cs, m, at)
<1> DEFINE f == [j \in 1..Len(cs) |-> CertReserve(cs[j], m, later)]
           g == [j \in 1..Len(cs) |-> CertReserve(cs[j], m, at)]
<1>1. Len(cs) \in Nat /\ \A j \in 1..Len(cs) : cs[j] \in CertType
  OBVIOUS
<1>2. \A j \in 1..Len(cs) : f[j] \in Int /\ g[j] \in Int /\ f[j] <= g[j]
  BY <1>1, CertReserveProps
<1> HIDE DEF f, g
<1>3. SumTo(f, Len(cs)) <= SumTo(g, Len(cs))
  BY <1>1, <1>2, SumToMonotone
<1> QED
  BY <1>3 DEF CertCommitted, f, g

-----------------------------------------------------------------------------
(* Type correctness.                                                       *)

\* MoveTo replaces one record by the same offer at another stage.
LEMMA MoveToEffect ==
    ASSUME TypeOK, NEW i \in DOMAIN txs, NEW stage \in Stages, MoveTo(i, stage)
    PROVE  \E t \in TxType :
             /\ t.offer = txs[i].offer /\ t.stage = stage
             /\ txs' = [txs EXCEPT ![i] = t]
<1> DEFINE t == [offer |-> txs[i].offer, stage |-> stage,
                 admittedAt |-> txs[i].admittedAt]
<1>1. txs[i] \in TxType
  BY DEF TypeOK
<1>2. t \in TxType
  BY <1>1 DEF TxType
<1>3. [txs[i] EXCEPT !.stage = stage] = t
  BY <1>1 DEF TxType
<1>4. txs' = [txs EXCEPT ![i] = t]
  BY <1>3 DEF MoveTo
<1> QED
  BY <1>2, <1>4

LEMMA ConfirmEffect ==
    ASSUME TypeOK, NEW i \in DOMAIN txs, SubmitConfirmation(i)
    PROVE  \E t \in TxType :
             /\ t.offer = txs[i].offer /\ t.stage = "Confirmed"
             /\ txs' = [txs EXCEPT ![i] = t]
<1> DEFINE t == [offer |-> txs[i].offer, stage |-> "Confirmed",
                 admittedAt |-> AdmissionTime(now)]
<1>1. txs[i] \in TxType
  BY DEF TypeOK
<1>2. AdmissionTime(now) \in Nat
  BY DEF AdmissionTime, Larger, TypeOK
<1>3. t \in TxType
  BY <1>1, <1>2 DEF TxType, Stages
<1>5. txs' = [txs EXCEPT ![i] = t]
  BY DEF SubmitConfirmation
<1> QED
  BY <1>3, <1>5

\* A spend on certificate i raises its consumption, a return closes it.
LEMMA SpendEffect ==
    ASSUME TypeOK, NEW i \in DOMAIN certs, NEW amount \in Int,
           certs' = [certs EXCEPT ![i].consumed = @ + amount]
    PROVE  \E c \in CertType :
             /\ c.req = certs[i].req /\ c.expiresAt = certs[i].expiresAt
             /\ c.status = certs[i].status
             /\ c.consumed = certs[i].consumed + amount
             /\ certs' = [certs EXCEPT ![i] = c]
<1> DEFINE c == [req |-> certs[i].req, expiresAt |-> certs[i].expiresAt,
                 status |-> certs[i].status,
                 consumed |-> certs[i].consumed + amount]
<1>1. certs[i] \in CertType
  BY DEF TypeOK
<1>2. c \in CertType
  BY <1>1 DEF CertType
<1>3. [certs[i] EXCEPT !.consumed = @ + amount] = c
  BY <1>1 DEF CertType
<1>4. certs' = [certs EXCEPT ![i] = c]
  BY <1>3
<1> QED
  BY <1>2, <1>4

LEMMA ReturnEffect ==
    ASSUME TypeOK, NEW i \in DOMAIN certs, ReturnCertificate(i)
    PROVE  \E c \in CertType :
             /\ c.req = certs[i].req /\ c.status = "Returned"
             /\ c.consumed = certs[i].consumed
             /\ certs' = [certs EXCEPT ![i] = c]
<1> DEFINE c == [req |-> certs[i].req, expiresAt |-> certs[i].expiresAt,
                 status |-> "Returned", consumed |-> certs[i].consumed]
<1>1. certs[i] \in CertType
  BY DEF TypeOK
<1>2. c \in CertType
  BY <1>1 DEF CertType
<1>3. [certs[i] EXCEPT !.status = "Returned"] = c
  BY <1>1 DEF CertType
<1>4. certs' = [certs EXCEPT ![i] = c]
  BY <1>3 DEF ReturnCertificate
<1> QED
  BY <1>2, <1>4

\* move_balance keeps balances integers.
LEMMA MoveBalanceType ==
    ASSUME TypeOK, NEW d \in Parties, NEW c \in Parties, NEW a \in Int
    PROVE  MoveBalance(d, c, a) \in [Parties -> Int]
  BY DEF MoveBalance, TypeOK

LEMMA AdmissionTimeType ==
    ASSUME TypeOK, NEW at \in Nat
    PROVE  AdmissionTime(at) \in Nat
  BY DEF AdmissionTime, Larger, TypeOK

\* The initial state is well typed.
LEMMA InitType == Init => TypeOK
  BY ClockAssumption DEF Init, TypeOK, NoSweep, NothingMoved, SweepType, Decisions

\* Every step keeps every variable in its type.
LEMMA NextType == TypeOK /\ [Next]_vars => TypeOK'
<1> SUFFICES ASSUME TypeOK, [Next]_vars PROVE TypeOK'
  OBVIOUS
<1>a. AdmissionTime(now) \in Nat
  BY AdmissionTimeType DEF TypeOK
<1>1. ASSUME NEW o \in Offers, SubmitProposal(o) PROVE TypeOK'
  <2>1. [offer |-> o, stage |-> "Proposed", admittedAt |-> 0] \in TxType
    BY DEF TxType, Stages
  <2>2. txs' \in Seq(TxType) /\ nonce' \in [Parties -> Nat]
    BY <1>1, <2>1, OfferFields DEF SubmitProposal, AdmitProposal, TypeOK
  <2> QED
    BY <1>1, <1>a, <2>2 DEF SubmitProposal, AdmitProposal, TypeOK
<1>2. ASSUME NEW i \in DOMAIN txs, SubmitConfirmation(i) PROVE TypeOK'
  <2>0. PICK t \in TxType : txs' = [txs EXCEPT ![i] = t]
    BY <1>2, ConfirmEffect
  <2>1. txs' \in Seq(TxType)
    BY <2>0, TxUpdate DEF TypeOK
  <2> QED
    BY <1>2, <1>a, <2>1 DEF SubmitConfirmation, TypeOK
<1>3. ASSUME NEW i \in DOMAIN txs, NEW stage \in Stages, MoveTo(i, stage)
      PROVE  txs' \in Seq(TxType) /\ tailAt' \in Nat
  <2>1. PICK t \in TxType : txs' = [txs EXCEPT ![i] = t]
    BY <1>3, MoveToEffect
  <2>2. txs \in Seq(TxType)
    BY DEF TypeOK
  <2>3. txs' \in Seq(TxType)
    BY <2>1, <2>2, TxUpdate
  <2> QED
    BY <1>3, <1>a, <2>3 DEF MoveTo
<1>4. ASSUME NEW i \in DOMAIN txs, CancelProposal(i) \/ RaiseDispute(i) \/ UpholdDispute(i)
      PROVE  TypeOK'
  BY <1>3, <1>4 DEF CancelProposal, RaiseDispute, UpholdDispute, TypeOK, Stages
<1>5. ASSUME NEW i \in DOMAIN txs, SweepSettle(i) \/ RejectDispute(i) PROVE TypeOK'
  <2>0. txs[i] \in TxType
    BY DEF TypeOK
  <2>1. txs[i].offer \in Offers
    BY <2>0 DEF TxType
  <2>2. balance' \in [Parties -> Int]
    BY <1>5, <2>1, OfferFields, MoveBalanceType DEF SweepSettle, RejectDispute, Settle
  <2> QED
    BY <1>3, <1>5, <2>2 DEF SweepSettle, RejectDispute, Settle, TypeOK, Stages
<1>6. ASSUME NEW r \in Requests, IssueCertificate(r) PROVE TypeOK'
  <2>1. [req |-> r, expiresAt |-> now + CertValidity, status |-> "Outstanding",
         consumed |-> 0] \in CertType
    BY CreditAssumption DEF CertType, TypeOK
  <2>2. certs' \in Seq(CertType) /\ nonce' \in [Parties -> Nat]
    BY <1>6, <2>1, RequestFields DEF IssueCertificate, AdmitRequest, TypeOK
  <2> QED
    BY <1>6, <1>a, <2>2 DEF IssueCertificate, AdmitRequest, TypeOK
<1>7. ASSUME NEW r \in Requests, RequestWithoutCertificate(r) PROVE TypeOK'
  <2>1. nonce' \in [Parties -> Nat]
    BY <1>7, RequestFields DEF RequestWithoutCertificate, AdmitRequest, TypeOK
  <2> QED
    BY <1>7, <1>a, <2>1 DEF RequestWithoutCertificate, AdmitRequest, TypeOK
<1>8. ASSUME NEW r \in Requests, NEW d \in Decisions, RuleEquivocation(r, d)
      PROVE  TypeOK'
  BY <1>8, <1>a DEF RuleEquivocation, TypeOK
<1>9. ASSUME NEW i \in DOMAIN certs, ReturnCertificate(i) PROVE TypeOK'
  <2>0. PICK c \in CertType : certs' = [certs EXCEPT ![i] = c]
    BY <1>9, ReturnEffect
  <2>1. certs' \in Seq(CertType)
    BY <2>0, CertUpdate DEF TypeOK
  <2> QED
    BY <1>9, <1>a, <2>1 DEF ReturnCertificate, TypeOK
<1>10. ASSUME NEW i \in DOMAIN certs, NEW o \in Offers, SubmitCertBacked(o, i)
       PROVE  TypeOK'
  <2>1. [offer |-> o, stage |-> "Proposed", admittedAt |-> 0] \in TxType
    BY DEF TxType, Stages
  <2>d. o.sender \in Parties
    BY OfferFields
  <2>e. AdmitProposal(o)
    BY <1>10 DEF SubmitCertBacked
  <2>2. txs' \in Seq(TxType) /\ nonce' \in [Parties -> Nat]
    BY <2>1, <2>d, <2>e DEF AdmitProposal, TypeOK
  <2>a. o.amount \in Int /\ o.sender \in Parties
    BY OfferFields
  <2>b. certs' = [certs EXCEPT ![i].consumed = @ + o.amount]
    BY <1>10 DEF SubmitCertBacked
  <2>c. PICK c \in CertType : certs' = [certs EXCEPT ![i] = c]
    BY <2>a, <2>b, SpendEffect
  <2>3. certs' \in Seq(CertType)
    BY <2>c, CertUpdate DEF TypeOK
  <2> QED
    BY <1>10, <1>a, <2>2, <2>3 DEF SubmitCertBacked, AdmitProposal, TypeOK
<1>11. ASSUME NEW i \in DOMAIN certs, NEW o \in Offers, RefuseOverspend(o, i)
       PROVE  TypeOK'
  <2>0. certs[i] \in CertType
    BY DEF TypeOK
  <2>1. o.cert \in Requests
    BY <1>11, <2>0 DEF RefuseOverspend, CertOfSpender, CertType
  <2>2. equivs' \subseteq Requests /\ tailAt' \in Nat /\ doubled' \subseteq Requests
    BY <1>11, <1>a, <2>1 DEF RefuseOverspend, TypeOK
  <2> QED
    BY <1>11, <2>2 DEF RefuseOverspend, TypeOK
<1>12. ASSUME BeginChargeSweep PROVE TypeOK'
  BY <1>12 DEF BeginChargeSweep, TypeOK, SweepType, NothingMoved
<1>13. ASSUME NEW c \in Charges, ChargeContract(c) PROVE TypeOK'
  <2>1. balance' \in [Parties -> Int]
    BY <1>13, ChargeFields, MoveBalanceType DEF ChargeContract
  <2>a. c.buyer \in Parties /\ c.provider \in Parties /\ c.amount \in Int
    BY ChargeFields
  <2>b. sweep \in SweepType /\ sweep' = RecordMoved(c)
    BY <1>13 DEF ChargeContract, TypeOK
  <2>c. sweep.moved \in [Parties -> Int]
    BY <2>b DEF SweepType
  <2> DEFINE d == [sweep.moved EXCEPT ![c.buyer] = @ - c.amount]
             e == [d EXCEPT ![c.provider] = @ + c.amount]
  <2>d. d \in [Parties -> Int]
    BY <2>a, <2>c
  <2>e. e \in [Parties -> Int]
    BY <2>a, <2>d
  <2> HIDE DEF d, e
  <2>f. [sweep EXCEPT !.moved = e] \in SweepType
    BY <2>b, <2>e DEF SweepType
  <2>2. sweep' \in SweepType
    BY <2>b, <2>f DEF RecordMoved, d, e
  <2>3. tailAt' \in Nat
    BY <1>13, AdmissionTimeType DEF ChargeContract, SweepType, TypeOK
  <2> QED
    BY <1>13, <2>1, <2>2, <2>3 DEF ChargeContract, TypeOK
<1>14. ASSUME EndChargeSweep PROVE TypeOK'
  BY <1>14, ClockAssumption DEF EndChargeSweep, TypeOK, NoSweep, NothingMoved, SweepType
<1>15. ASSUME NEW m \in Parties, Enroll(m) \/ EnrollRevoke(m) PROVE TypeOK'
  BY <1>15, <1>a DEF Enroll, EnrollRevoke, TypeOK
<1>16. CASE Tick
  BY <1>16, ClockAssumption DEF Tick, TypeOK
<1>17. CASE StepBack
  BY <1>17, ClockAssumption DEF StepBack, TypeOK
<1>18. CASE UNCHANGED vars
  BY <1>18 DEF vars, TypeOK
<1> QED
  BY <1>1, <1>2, <1>4, <1>5, <1>6, <1>7, <1>8, <1>9, <1>10, <1>11, <1>12, <1>13,
     <1>14, <1>15, <1>16, <1>17, <1>18 DEF Next, TxStep, CertStep

\* Type correctness, whatever the clock does.
THEOREM TypeCorrect == Spec => []TypeOK
  BY InitType, NextType, PTL DEF Spec

-----------------------------------------------------------------------------
(* The floor.  The clock never steps back: MaxBackSteps = 0.               *)

\* Balances a station-signed move leaves behind, party by party.
LEMMA MoveBalanceEffect ==
    ASSUME NEW bal \in [Parties -> Int], NEW d \in Parties, NEW c \in Parties,
           NEW a \in Int, NEW m \in Parties,
           NEW res, res = [[bal EXCEPT ![d] = @ - a] EXCEPT ![c] = @ + a]
    PROVE  res[m] = bal[m] - (IF m = d THEN a ELSE 0) + (IF m = c THEN a ELSE 0)
<1> DEFINE b == [bal EXCEPT ![d] = @ - a]
<1>1. b \in [Parties -> Int] /\ b[m] = bal[m] - (IF m = d THEN a ELSE 0)
  OBVIOUS
<1>2. res = [b EXCEPT ![c] = @ + a]
  OBVIOUS
<1> HIDE DEF b
<1>3. res[m] = b[m] + (IF m = c THEN a ELSE 0)
  BY <1>1, <1>2
<1> QED
  BY <1>1, <1>3

\* The parts a position is made of are integers.
LEMMA PositionParts ==
    ASSUME TypeOK, NEW m \in Parties
    PROVE  /\ txs \in Seq(TxType) /\ certs \in Seq(CertType)
           /\ now \in Int /\ balance[m] \in Int
           /\ TxCommitted(txs, m, now) \in Int
           /\ CertCommitted(certs, m, now) \in Int
           /\ FloorOf(m) \in Int
           /\ Position(m) = balance[m] - (TxCommitted(txs, m, now)
                                          + CertCommitted(certs, m, now))
<1>1. txs \in Seq(TxType) /\ certs \in Seq(CertType) /\ now \in Int /\ balance[m] \in Int
  BY DEF TypeOK
<1>2. TxCommitted(txs, m, now) \in Int /\ CertCommitted(certs, m, now) \in Int
  BY <1>1, TxCommittedInt, CertCommittedInt
<1>3. FloorOf(m) \in Int
  BY CreditAssumption DEF FloorOf, Larger
<1> QED
  BY <1>1, <1>2, <1>3 DEF Position, CommittedDebits

\* The sweep's account stays consistent.
LEMMA NextSweep ==
    TypeOK /\ SweepConsistent /\ MaxBackSteps = 0 /\ [Next]_vars => SweepConsistent'
<1> SUFFICES ASSUME TypeOK, SweepConsistent, MaxBackSteps = 0, [Next]_vars
             PROVE  SweepConsistent'
  OBVIOUS
<1>1. CASE UNCHANGED <<now, balance, sweep>>
  BY <1>1 DEF SweepConsistent
<1>2. ASSUME Idle, UNCHANGED sweep PROVE SweepConsistent'
  BY <1>2 DEF SweepConsistent, Idle
<1>3. CASE BeginChargeSweep
  BY <1>3 DEF BeginChargeSweep, SweepConsistent, NothingMoved, TypeOK
<1>4. ASSUME NEW c \in Charges, ChargeContract(c) PROVE SweepConsistent'
  <2>1. c.buyer \in Parties /\ c.provider \in Parties /\ c.amount \in Int
    BY ChargeFields
  <2>2. sweep.on /\ sweep.at <= now /\ sweep \in SweepType
    BY <1>4 DEF ChargeContract, SweepConsistent, TypeOK
  <2>3. sweep.moved \in [Parties -> Int] /\ sweep.snap \in [Parties -> Int]
    BY <2>2 DEF SweepType
  <2> DEFINE e == [[sweep.moved EXCEPT ![c.buyer] = @ - c.amount]
                      EXCEPT ![c.provider] = @ + c.amount]
  <2>4. sweep' = [sweep EXCEPT !.moved = e]
    BY <1>4 DEF ChargeContract, RecordMoved
  <2> HIDE DEF e
  <2>5. sweep'.moved = e /\ sweep'.snap = sweep.snap /\ sweep'.at = sweep.at /\ now' = now
    BY <1>4, <2>2, <2>4 DEF SweepType, ChargeContract
  <2>6. ASSUME NEW m \in Parties
        PROVE  sweep'.snap[m] + sweep'.moved[m] = balance'[m]
    <3>1. e[m] = sweep.moved[m] - (IF m = c.buyer THEN c.amount ELSE 0)
                 + (IF m = c.provider THEN c.amount ELSE 0)
      BY <2>1, <2>3, MoveBalanceEffect DEF e
    <3>2. balance \in [Parties -> Int]
      BY DEF TypeOK
    <3>3. balance' = [[balance EXCEPT ![c.buyer] = @ - c.amount]
                        EXCEPT ![c.provider] = @ + c.amount]
      BY <1>4 DEF ChargeContract, MoveBalance
    <3>4. balance'[m] = balance[m] - (IF m = c.buyer THEN c.amount ELSE 0)
                        + (IF m = c.provider THEN c.amount ELSE 0)
      BY <2>1, <3>2, <3>3, MoveBalanceEffect
    <3>5. sweep.snap[m] + sweep.moved[m] = balance[m]
      BY <2>2 DEF SweepConsistent
    <3> QED
      BY <2>1, <2>3, <2>5, <3>1, <3>2, <3>4, <3>5
  <2> QED
    BY <2>2, <2>5, <2>6 DEF SweepConsistent
<1>5. CASE EndChargeSweep
  BY <1>5 DEF EndChargeSweep, NoSweep, SweepConsistent
<1>6. CASE Tick
  BY <1>6 DEF Tick, SweepConsistent, TypeOK, SweepType
<1>7. CASE StepBack
  BY <1>7 DEF StepBack, TypeOK
<1> QED
  BY <1>1, <1>2, <1>3, <1>4, <1>5, <1>6, <1>7
  DEF Next, TxStep, CertStep, vars, SubmitProposal, SubmitConfirmation,
      CancelProposal, RaiseDispute, UpholdDispute, RejectDispute, SweepSettle,
      Settle, IssueCertificate, RequestWithoutCertificate, RuleEquivocation,
      ReturnCertificate, SubmitCertBacked, RefuseOverspend, Enroll, EnrollRevoke

\* A position after a step, from the parts after the step.
LEMMA PositionAfter ==
    ASSUME NEW m \in Parties
    PROVE  Position(m)' = balance'[m] - (TxCommitted(txs', m, now')
                                         + CertCommitted(certs', m, now'))
  BY DEF Position, CommittedDebits

\* Moving transaction i to another record changes the committed debits by the
\* difference of the two records' debits, and nothing else.
LEMMA TxReplaced ==
    ASSUME TypeOK, NEW m \in Parties, NEW i \in DOMAIN txs, NEW t \in TxType,
           txs' = [txs EXCEPT ![i] = t], UNCHANGED <<now, certs>>
    PROVE  /\ TxCommitted(txs', m, now') = TxCommitted(txs, m, now)
                + TxDebit(t, m, now) - TxDebit(txs[i], m, now)
           /\ CertCommitted(certs', m, now') = CertCommitted(certs, m, now)
           /\ TxDebit(t, m, now) \in Nat /\ TxDebit(txs[i], m, now) \in Nat
           /\ txs[i] \in TxType /\ txs[i].offer \in Offers
<1>1. txs \in Seq(TxType) /\ now \in Int
  BY DEF TypeOK
<1>2. txs[i] \in TxType
  BY <1>1
<1>3. txs[i].offer \in Offers
  BY <1>2 DEF TxType
<1>4. TxDebit(t, m, now) \in Nat /\ TxDebit(txs[i], m, now) \in Nat
  BY <1>1, <1>2, TxDebitProps
<1>5. TxCommitted(txs', m, now) = TxCommitted(txs, m, now)
                + TxDebit(t, m, now) - TxDebit(txs[i], m, now)
  BY <1>1, TxCommittedUpdate
<1> QED
  BY <1>2, <1>3, <1>4, <1>5

\* Appending a proposal adds its debit.
LEMMA TxAdmitted ==
    ASSUME TypeOK, NEW m \in Parties, NEW o \in Offers, AdmitProposal(o)
    PROVE  \E t \in TxType :
             /\ t.offer = o /\ t.stage = "Proposed"
             /\ TxDebit(t, m, now) \in Nat
             /\ TxCommitted(txs', m, now) = TxCommitted(txs, m, now) + TxDebit(t, m, now)
<1> DEFINE t == [offer |-> o, stage |-> "Proposed", admittedAt |-> 0]
<1>1. t \in TxType
  BY DEF TxType, Stages
<1>2. txs' = Append(txs, t)
  BY DEF AdmitProposal
<1>3. t.offer = o /\ t.stage = "Proposed"
  OBVIOUS
<1>4. txs \in Seq(TxType) /\ now \in Int
  BY DEF TypeOK
<1> HIDE DEF t
<1>5. TxDebit(t, m, now) \in Nat
  BY <1>1, <1>4, TxDebitProps
<1>6. TxCommitted(txs', m, now) = TxCommitted(txs, m, now) + TxDebit(t, m, now)
  BY <1>1, <1>2, <1>4, TxCommittedAppend
<1> QED
  BY <1>1, <1>3, <1>5, <1>6

\* A step lowers a position only if it leaves it at or above the party's floor.
NoDeeper(m) == Position(m)' >= Position(m) \/ Position(m)' >= FloorOf(m)

\* SubmitProposal: the debit of an ordinary spend is what the floor check was
\* given; a payment request commits nobody.
LEMMA ProposalStep ==
    ASSUME TypeOK, NEW m \in Parties, NEW o \in Offers, SubmitProposal(o)
    PROVE  NoDeeper(m)
<1>1. PICK t \in TxType :
        /\ t.offer = o /\ t.stage = "Proposed"
        /\ TxDebit(t, m, now) \in Nat
        /\ TxCommitted(txs', m, now) = TxCommitted(txs, m, now) + TxDebit(t, m, now)
  BY TxAdmitted DEF SubmitProposal
<1>2. now' = now /\ certs' = certs /\ balance' = balance
  BY DEF SubmitProposal
<1>3. o.amount \in Int
  BY OfferFields
<1>4. TxDebit(t, m, now) = 0 \/ (o.amount > 0 /\ o.sender = m /\ TxDebit(t, m, now) = o.amount)
  BY <1>1, <1>3 DEF TxDebit
<1>5. o.amount > 0 /\ o.sender = m =>
        balance[m] - (TxCommitted(txs, m, now) + CertCommitted(certs, m, now))
          - o.amount >= FloorOf(m)
  BY DEF SubmitProposal, CheckFloor, CommittedDebits
<1> QED
  BY <1>1, <1>2, <1>3, <1>4, <1>5, PositionAfter, PositionParts DEF NoDeeper

\* SubmitCertBacked: the spend commits what the reservation gives up.
LEMMA CertBackedStep ==
    ASSUME TypeOK, NEW m \in Parties, NEW o \in Offers, NEW i \in DOMAIN certs,
           SubmitCertBacked(o, i)
    PROVE  NoDeeper(m)
<1>1. PICK t \in TxType :
        /\ t.offer = o /\ t.stage = "Proposed"
        /\ TxDebit(t, m, now) \in Nat
        /\ TxCommitted(txs', m, now) = TxCommitted(txs, m, now) + TxDebit(t, m, now)
  BY TxAdmitted DEF SubmitCertBacked
<1>2. now' = now /\ balance' = balance
      /\ certs' = [certs EXCEPT ![i].consumed = @ + o.amount]
  BY DEF SubmitCertBacked
<1>3. o.amount \in Int /\ o.amount > 0
  BY OfferFields DEF SubmitCertBacked, CertUsable, CertOfSpender
<1>4. PICK c \in CertType :
             /\ c.req = certs[i].req /\ c.expiresAt = certs[i].expiresAt
             /\ c.status = certs[i].status
             /\ c.consumed = certs[i].consumed + o.amount
             /\ certs' = [certs EXCEPT ![i] = c]
  BY <1>2, <1>3, SpendEffect
<1>5. certs \in Seq(CertType) /\ now \in Int /\ certs[i] \in CertType
  BY DEF TypeOK
<1>6. /\ certs[i].req.cap \in Int /\ certs[i].consumed \in Int
      /\ certs[i].req.member = o.sender /\ Live(certs[i], now)
      /\ o.amount <= certs[i].req.cap - certs[i].consumed
  <2>1. certs[i].req.cap \in Int /\ certs[i].consumed \in Int
    BY <1>5, RequestFields DEF CertType
  <2>2. certs[i].req.member = o.sender /\ Live(certs[i], now)
    BY DEF SubmitCertBacked, CertUsable, CertOfSpender, Live
  <2>3. ~(o.amount > certs[i].req.cap - certs[i].consumed)
    BY DEF SubmitCertBacked, Overspends
  <2> QED
    BY <1>3, <2>1, <2>2, <2>3
<1>7. Live(c, now)
  BY <1>4, <1>6 DEF Live, SpendAdmissibleUntil
<1>8. CertCommitted(certs', m, now) = CertCommitted(certs, m, now)
        + CertReserve(c, m, now) - CertReserve(certs[i], m, now)
  BY <1>4, <1>5, CertCommittedUpdate
<1>p. /\ Position(m) = balance[m] - (TxCommitted(txs, m, now) + CertCommitted(certs, m, now))
      /\ Position(m)' = balance[m] - (TxCommitted(txs', m, now) + CertCommitted(certs', m, now))
      /\ balance[m] \in Int /\ TxCommitted(txs, m, now) \in Int
      /\ CertCommitted(certs, m, now) \in Int
  BY <1>2, PositionAfter, PositionParts
<1>9. CASE o.sender = m
  <2>1. CertReserve(c, m, now) = certs[i].req.cap - certs[i].consumed - o.amount
    BY <1>3, <1>4, <1>6, <1>7, <1>9 DEF CertReserve, Larger
  <2>2. CertReserve(certs[i], m, now) = certs[i].req.cap - certs[i].consumed
    BY <1>3, <1>6, <1>9 DEF CertReserve, Larger
  <2>3. TxDebit(t, m, now) <= o.amount
    BY <1>1, <1>3 DEF TxDebit
  <2> QED
    BY <1>1, <1>3, <1>6, <1>8, <1>p, <2>1, <2>2, <2>3 DEF NoDeeper
<1>10. CASE o.sender # m
  <2>1. CertReserve(c, m, now) = 0 /\ CertReserve(certs[i], m, now) = 0
    BY <1>4, <1>6, <1>10 DEF CertReserve
  <2>2. TxDebit(t, m, now) = 0
    BY <1>1, <1>10 DEF TxDebit
  <2> QED
    BY <1>1, <1>8, <1>p, <2>1, <2>2 DEF NoDeeper
<1> QED
  BY <1>9, <1>10

\* SubmitConfirmation: a spend was already committed, for the expiry check is
\* the release boundary; a payment request's debit was checked.
LEMMA ConfirmationStep ==
    ASSUME TypeOK, NEW m \in Parties, NEW i \in DOMAIN txs, SubmitConfirmation(i)
    PROVE  NoDeeper(m)
<1>1. PICK t \in TxType :
             /\ t.offer = txs[i].offer /\ t.stage = "Confirmed"
             /\ txs' = [txs EXCEPT ![i] = t]
  BY ConfirmEffect
<1>2. now' = now /\ certs' = certs /\ balance' = balance
  BY DEF SubmitConfirmation
<1>3. /\ TxCommitted(txs', m, now') = TxCommitted(txs, m, now)
                + TxDebit(t, m, now) - TxDebit(txs[i], m, now)
      /\ CertCommitted(certs', m, now') = CertCommitted(certs, m, now)
      /\ TxDebit(t, m, now) \in Nat /\ TxDebit(txs[i], m, now) \in Nat
      /\ txs[i].offer \in Offers
  BY <1>1, <1>2, TxReplaced
<1>4. txs[i].offer.amount \in Int
  BY <1>3, OfferFields
<1>5. txs[i].stage = "Proposed" /\ now <= txs[i].offer.expiresAt + Skew
  BY DEF SubmitConfirmation
<1>6. CASE txs[i].offer.amount >= 0
  <2>1. TxDebit(t, m, now) = TxDebit(txs[i], m, now)
    BY <1>1, <1>4, <1>5, <1>6 DEF TxDebit
  <2> QED
    BY <1>2, <1>3, <2>1, PositionAfter, PositionParts DEF NoDeeper
<1>7. CASE txs[i].offer.amount < 0
  <2>1. TxDebit(txs[i], m, now) = 0
    BY <1>4, <1>5, <1>7 DEF TxDebit
  <2>2. TxDebit(t, m, now) = 0
        \/ (txs[i].offer.receiver = m /\ TxDebit(t, m, now) = -txs[i].offer.amount)
    BY <1>1, <1>4, <1>7 DEF TxDebit
  <2>3. txs[i].offer.receiver = m =>
        balance[m] - (TxCommitted(txs, m, now) + CertCommitted(certs, m, now))
          - (-txs[i].offer.amount) >= FloorOf(m)
    BY <1>7 DEF SubmitConfirmation, CheckFloor, CommittedDebits
  <2> QED
    BY <1>2, <1>3, <1>4, <2>1, <2>2, <2>3, PositionAfter, PositionParts DEF NoDeeper
<1> QED
  BY <1>4, <1>6, <1>7

\* Cancelling or disputing commits nobody to more than before.
LEMMA StageStep ==
    ASSUME TypeOK, NEW m \in Parties, NEW i \in DOMAIN txs,
           CancelProposal(i) \/ RaiseDispute(i) \/ UpholdDispute(i)
    PROVE  NoDeeper(m)
<1>1. PICK stage \in {"Cancelled", "Disputed"} :
        /\ MoveTo(i, stage)
        /\ stage = "Disputed" => txs[i].stage = "Confirmed"
  BY DEF CancelProposal, RaiseDispute, UpholdDispute
<1>2. PICK t \in TxType :
             /\ t.offer = txs[i].offer /\ t.stage = stage
             /\ txs' = [txs EXCEPT ![i] = t]
  BY <1>1, MoveToEffect DEF Stages
<1>3. now' = now /\ certs' = certs /\ balance' = balance
  BY DEF CancelProposal, RaiseDispute, UpholdDispute
<1>4. /\ TxCommitted(txs', m, now') = TxCommitted(txs, m, now)
                + TxDebit(t, m, now) - TxDebit(txs[i], m, now)
      /\ CertCommitted(certs', m, now') = CertCommitted(certs, m, now)
      /\ TxDebit(t, m, now) \in Nat /\ TxDebit(txs[i], m, now) \in Nat
      /\ txs[i].offer \in Offers
  BY <1>2, <1>3, TxReplaced
<1>5. txs[i].offer.amount \in Int
  BY <1>4, OfferFields
<1>6. TxDebit(t, m, now) <= TxDebit(txs[i], m, now)
  BY <1>1, <1>2, <1>4, <1>5 DEF TxDebit
<1> QED
  BY <1>3, <1>4, <1>6, PositionAfter, PositionParts DEF NoDeeper

\* Settling turns a committed debit into a debit.
LEMMA SettleStep ==
    ASSUME TypeOK, NEW m \in Parties, NEW i \in DOMAIN txs,
           SweepSettle(i) \/ RejectDispute(i)
    PROVE  NoDeeper(m)
<1>1. Settle(i) /\ txs[i].stage \in {"Confirmed", "Disputed"}
  BY DEF SweepSettle, RejectDispute, Eligible
<1>2. PICK t \in TxType :
             /\ t.offer = txs[i].offer /\ t.stage = "Settled"
             /\ txs' = [txs EXCEPT ![i] = t]
  BY <1>1, MoveToEffect DEF Stages, Settle
<1>3. now' = now /\ certs' = certs
  BY <1>1 DEF Settle
<1>4. /\ TxCommitted(txs', m, now') = TxCommitted(txs, m, now)
                + TxDebit(t, m, now) - TxDebit(txs[i], m, now)
      /\ CertCommitted(certs', m, now') = CertCommitted(certs, m, now)
      /\ TxDebit(t, m, now) \in Nat /\ TxDebit(txs[i], m, now) \in Nat
      /\ txs[i].offer \in Offers
  BY <1>2, <1>3, TxReplaced
<1> DEFINE o == txs[i].offer
<1>5. o.amount \in Int /\ o.sender \in Parties /\ o.receiver \in Parties
  BY <1>4, OfferFields
<1>6. balance \in [Parties -> Int]
  BY DEF TypeOK
<1>7. balance' = [[balance EXCEPT ![o.sender] = @ - o.amount]
                     EXCEPT ![o.receiver] = @ + o.amount]
  BY <1>1 DEF Settle, MoveBalance
<1>8. balance'[m] = balance[m] - (IF m = o.sender THEN o.amount ELSE 0)
                    + (IF m = o.receiver THEN o.amount ELSE 0)
  BY <1>5, <1>6, <1>7, MoveBalanceEffect
<1>9. TxDebit(t, m, now) = 0
  BY <1>2 DEF TxDebit
<1>10. TxDebit(txs[i], m, now) >= (IF m = o.sender THEN o.amount ELSE 0)
                                  - (IF m = o.receiver THEN o.amount ELSE 0)
  BY <1>1, <1>5 DEF TxDebit
<1> HIDE DEF o
<1>11. /\ Position(m) = balance[m] - (TxCommitted(txs, m, now) + CertCommitted(certs, m, now))
       /\ Position(m)' = balance'[m] - (TxCommitted(txs', m, now') + CertCommitted(certs', m, now'))
       /\ balance[m] \in Int /\ TxCommitted(txs, m, now) \in Int
       /\ CertCommitted(certs, m, now) \in Int
  BY PositionAfter, PositionParts
<1>12. TxCommitted(txs', m, now') = TxCommitted(txs, m, now) - TxDebit(txs[i], m, now)
  BY <1>4, <1>9, <1>11
<1> QED
  BY <1>4, <1>5, <1>8, <1>10, <1>11, <1>12 DEF NoDeeper

\* Issuing a certificate reserves what the floor check was given, and a request
\* without its certificate reserves nothing.
LEMMA RequestStep ==
    ASSUME TypeOK, NEW m \in Parties, NEW r \in Requests,
           IssueCertificate(r) \/ RequestWithoutCertificate(r)
    PROVE  NoDeeper(m)
<1>1. now' = now /\ txs' = txs /\ balance' = balance
  BY DEF IssueCertificate, RequestWithoutCertificate
<1>2. r.cap \in Int /\ r.cap > 0
      /\ (r.member = m =>
            balance[m] - (TxCommitted(txs, m, now) + CertCommitted(certs, m, now))
              - r.cap >= FloorOf(m))
  BY RequestFields DEF IssueCertificate, RequestWithoutCertificate,
     RequestAdmissible, CheckFloor, CommittedDebits
<1>3. CASE IssueCertificate(r)
  <2> DEFINE c == [req |-> r, expiresAt |-> now + CertValidity,
                   status |-> "Outstanding", consumed |-> 0]
  <2>1. c \in CertType /\ c.req = r /\ c.consumed = 0
    BY CreditAssumption DEF CertType, TypeOK
  <2>2. certs' = Append(certs, c)
    BY <1>3 DEF IssueCertificate
  <2> HIDE DEF c
  <2>3. certs \in Seq(CertType) /\ now \in Int
    BY DEF TypeOK
  <2>4. CertCommitted(certs', m, now) = CertCommitted(certs, m, now) + CertReserve(c, m, now)
    BY <2>1, <2>2, <2>3, CertCommittedAppend
  <2>5. CertReserve(c, m, now) = 0 \/ (r.member = m /\ CertReserve(c, m, now) = r.cap)
    BY <1>2, <2>1 DEF CertReserve, Larger
  <2> QED
    BY <1>1, <1>2, <2>4, <2>5, PositionAfter, PositionParts DEF NoDeeper
<1>4. CASE RequestWithoutCertificate(r)
  BY <1>1, <1>4, PositionAfter, PositionParts DEF NoDeeper, RequestWithoutCertificate
<1> QED
  BY <1>3, <1>4

\* Returning a certificate releases its reservation.
LEMMA ReturnStep ==
    ASSUME TypeOK, NEW m \in Parties, NEW i \in DOMAIN certs, ReturnCertificate(i)
    PROVE  NoDeeper(m)
<1>1. PICK c \in CertType : c.status = "Returned" /\ certs' = [certs EXCEPT ![i] = c]
  BY ReturnEffect
<1>2. now' = now /\ txs' = txs /\ balance' = balance
  BY DEF ReturnCertificate
<1>3. certs \in Seq(CertType) /\ now \in Int /\ certs[i] \in CertType
  BY DEF TypeOK
<1>4. CertCommitted(certs', m, now) = CertCommitted(certs, m, now)
        + CertReserve(c, m, now) - CertReserve(certs[i], m, now)
  BY <1>1, <1>3, CertCommittedUpdate
<1>5. CertReserve(c, m, now) = 0 /\ CertReserve(certs[i], m, now) \in Nat
  BY <1>1, <1>3, CertReserveProps DEF CertReserve, Live
<1>6. /\ Position(m) = balance[m] - (TxCommitted(txs, m, now) + CertCommitted(certs, m, now))
      /\ Position(m)' = balance[m] - (TxCommitted(txs, m, now) + CertCommitted(certs', m, now))
      /\ balance[m] \in Int /\ TxCommitted(txs, m, now) \in Int
      /\ CertCommitted(certs, m, now) \in Int
  BY <1>2, PositionAfter, PositionParts
<1> QED
  BY <1>4, <1>5, <1>6 DEF NoDeeper

\* A charge fits the debtor as the ledger stands now: the sweep's account is
\* the ledger's, and what was committed at its reading has only been released.
LEMMA ChargeStep ==
    ASSUME TypeOK, SweepConsistent, NEW m \in Parties, NEW c \in Charges,
           ChargeContract(c)
    PROVE  NoDeeper(m)
<1>1. c.buyer \in Parties /\ c.provider \in Parties /\ c.amount \in Int
  BY ChargeFields
<1>2. now' = now /\ txs' = txs /\ certs' = certs
      /\ balance' = [[balance EXCEPT ![c.buyer] = @ - c.amount]
                        EXCEPT ![c.provider] = @ + c.amount]
  BY DEF ChargeContract, MoveBalance
<1>3. balance \in [Parties -> Int]
  BY DEF TypeOK
<1>4. balance'[m] = balance[m] - (IF m = c.buyer THEN c.amount ELSE 0)
                    + (IF m = c.provider THEN c.amount ELSE 0)
  BY <1>1, <1>2, <1>3, MoveBalanceEffect
<1>5. /\ Position(m) = balance[m] - (TxCommitted(txs, m, now) + CertCommitted(certs, m, now))
      /\ Position(m)' = balance'[m] - (TxCommitted(txs, m, now) + CertCommitted(certs, m, now))
      /\ balance[m] \in Int /\ TxCommitted(txs, m, now) \in Int
      /\ CertCommitted(certs, m, now) \in Int
      /\ FloorOf(m) \in Int
  BY <1>2, PositionAfter, PositionParts
<1>6. CASE m # Debtor(c)
  <2>1. balance'[m] >= balance[m]
    BY <1>1, <1>4, <1>5, <1>6 DEF Debtor
  <2> QED
    BY <1>1, <1>4, <1>5, <2>1 DEF NoDeeper
<1>7. CASE m = Debtor(c)
  <2>1. sweep.on /\ sweep.at <= now /\ sweep.snap[m] + sweep.moved[m] = balance[m]
    BY DEF ChargeContract, SweepConsistent
  <2>2. sweep.at \in Int /\ sweep.snap[m] \in Int /\ sweep.moved[m] \in Int
        /\ now \in Int /\ txs \in Seq(TxType) /\ certs \in Seq(CertType)
    BY DEF TypeOK, SweepType
  <2>3. sweep.snap[m] - (TxCommitted(txs, m, sweep.at) + CertCommitted(certs, m, sweep.at))
          - (Larger(c.amount, -c.amount) - sweep.moved[m]) >= FloorOf(m)
    BY <1>7 DEF ChargeContract, ChargeFits, CheckFloor, CommittedDebits
  <2>4. /\ TxCommitted(txs, m, now) <= TxCommitted(txs, m, sweep.at)
        /\ CertCommitted(certs, m, now) <= CertCommitted(certs, m, sweep.at)
        /\ TxCommitted(txs, m, sweep.at) \in Int /\ CertCommitted(certs, m, sweep.at) \in Int
    BY <2>1, <2>2, TxCommittedFalls, CertCommittedFalls, TxCommittedInt, CertCommittedInt
  <2>5. balance'[m] >= balance[m] - Larger(c.amount, -c.amount)
        /\ Larger(c.amount, -c.amount) \in Int /\ balance'[m] \in Int
    BY <1>1, <1>4, <1>5, <1>7 DEF Debtor, Larger
  <2>6. balance[m] - (TxCommitted(txs, m, sweep.at) + CertCommitted(certs, m, sweep.at))
          - Larger(c.amount, -c.amount) >= FloorOf(m)
    <3> DEFINE snap == sweep.snap[m]
               mv == sweep.moved[m]
               tc == TxCommitted(txs, m, sweep.at)
               cc == CertCommitted(certs, m, sweep.at)
               a == Larger(c.amount, -c.amount)
               b == balance[m]
               f == FloorOf(m)
    <3>1. snap \in Int /\ mv \in Int /\ tc \in Int /\ cc \in Int /\ a \in Int /\ f \in Int
          /\ b = snap + mv /\ snap - (tc + cc) - (a - mv) >= f
      BY <1>5, <2>1, <2>2, <2>3, <2>4, <2>5
    <3> HIDE DEF snap, mv, tc, cc, a, b, f
    <3>2. b - (tc + cc) - a >= f
      BY <3>1
    <3> QED
      BY <3>2 DEF tc, cc, a, b, f
  <2>7. balance'[m] - (TxCommitted(txs, m, now) + CertCommitted(certs, m, now)) >= FloorOf(m)
    BY <1>5, <2>4, <2>5, <2>6
  <2> QED
    BY <1>5, <2>7 DEF NoDeeper
<1> QED
  BY <1>6, <1>7

\* As the clock runs on, commitments lapse.
LEMMA TickStep ==
    ASSUME TypeOK, NEW m \in Parties, Tick
    PROVE  NoDeeper(m)
<1>1. now \in Int /\ now' \in Int /\ now <= now'
      /\ txs' = txs /\ certs' = certs /\ balance' = balance
  BY DEF Tick, TypeOK
<1>2. txs \in Seq(TxType) /\ certs \in Seq(CertType)
  BY DEF TypeOK
<1>3. /\ TxCommitted(txs, m, now') <= TxCommitted(txs, m, now)
      /\ CertCommitted(certs, m, now') <= CertCommitted(certs, m, now)
      /\ TxCommitted(txs, m, now') \in Int /\ CertCommitted(certs, m, now') \in Int
  BY <1>1, <1>2, TxCommittedFalls, CertCommittedFalls, TxCommittedInt, CertCommittedInt
<1> QED
  BY <1>1, <1>3, PositionAfter, PositionParts DEF NoDeeper

\* Steps that touch nothing a position is made of.
LEMMA StillStep ==
    ASSUME TypeOK, NEW m \in Parties, UNCHANGED <<now, txs, certs, balance>>
    PROVE  Position(m)' = Position(m) /\ NoDeeper(m)
  BY PositionAfter, PositionParts DEF NoDeeper

\* No step pushes anybody deeper than their floor.
LEMMA PositionStep ==
    ASSUME TypeOK, SweepConsistent, MaxBackSteps = 0, [Next]_vars, NEW m \in Parties
    PROVE  NoDeeper(m)
<1>1. CASE UNCHANGED <<now, txs, certs, balance>>
  BY <1>1, StillStep
<1>2. ASSUME NEW o \in Offers, SubmitProposal(o) PROVE NoDeeper(m)
  BY <1>2, ProposalStep
<1>3. CASE TxStep
  BY <1>3, ConfirmationStep, StageStep, SettleStep DEF TxStep
<1>4. CASE CertStep
  <2>1. ASSUME NEW r \in Requests, NEW d \in Decisions, RuleEquivocation(r, d)
        PROVE  NoDeeper(m)
    BY <1>1, <2>1 DEF RuleEquivocation
  <2>2. ASSUME NEW o \in Offers, NEW i \in DOMAIN certs, RefuseOverspend(o, i)
        PROVE  NoDeeper(m)
    BY <1>1, <2>2 DEF RefuseOverspend
  <2> QED
    BY <1>4, <2>1, <2>2, RequestStep, ReturnStep, CertBackedStep DEF CertStep
<1>5. ASSUME NEW c \in Charges, ChargeContract(c) PROVE NoDeeper(m)
  BY <1>5, ChargeStep
<1>6. CASE BeginChargeSweep \/ EndChargeSweep
  BY <1>1, <1>6 DEF BeginChargeSweep, EndChargeSweep
<1>7. ASSUME NEW n \in Parties, Enroll(n) \/ EnrollRevoke(n) PROVE NoDeeper(m)
  BY <1>1, <1>7 DEF Enroll, EnrollRevoke
<1>8. CASE Tick
  BY <1>8, TickStep
<1>9. CASE StepBack
  BY <1>9 DEF StepBack, TypeOK
<1>10. CASE UNCHANGED vars
  BY <1>1, <1>10 DEF vars
<1> QED
  BY <1>2, <1>3, <1>4, <1>5, <1>6, <1>7, <1>8, <1>9, <1>10 DEF Next

-----------------------------------------------------------------------------
(* The theorems about credit.                                              *)

\* The inductive invariant: positions are bounded only together with the
\* sweep's account, and strangers only because enrolled members are known.
CreditInv ==
    /\ TypeOK
    /\ SweepConsistent
    /\ enrolled \subseteq known
    /\ FloorRespected
    /\ StrangersHoldNoDebt

\* Positions are zero at the start.
LEMMA InitPosition ==
    ASSUME Init, NEW m \in Parties
    PROVE  Position(m) = 0
<1>1. txs = <<>> /\ certs = <<>> /\ balance[m] = 0
  BY DEF Init
<1>2. Len(txs) = 0 /\ Len(certs) = 0
  BY <1>1
<1>3. TxCommitted(txs, m, now) = 0 /\ CertCommitted(certs, m, now) = 0
  BY <1>2, SumToZero DEF TxCommitted, CertCommitted
<1> QED
  BY <1>1, <1>3 DEF Position, CommittedDebits

LEMMA InitCredit ==
    ASSUME DebtFloor <= 0
    PROVE  Init => CreditInv
<1> SUFFICES ASSUME Init PROVE CreditInv
  OBVIOUS
<1>1. TypeOK
  BY InitType
<1>2. SweepConsistent
  BY DEF Init, NoSweep, SweepConsistent
<1>3. enrolled \subseteq known
  BY DEF Init
<1>4. FloorRespected /\ StrangersHoldNoDebt
  BY InitPosition, CreditAssumption DEF FloorRespected, StrangersHoldNoDebt, Larger
<1> QED
  BY <1>1, <1>2, <1>3, <1>4 DEF CreditInv

\* Only Enroll and EnrollRevoke touch the member sets.
LEMMA MemberStep ==
    ASSUME [Next]_vars
    PROVE  \/ UNCHANGED <<enrolled, known>>
           \/ \E n \in Parties : Enroll(n) \/ EnrollRevoke(n)
<1>1. ASSUME NEW o \in Offers, SubmitProposal(o) PROVE UNCHANGED <<enrolled, known>>
  BY <1>1 DEF SubmitProposal
<1>2. CASE TxStep
  BY <1>2 DEF TxStep, SubmitConfirmation, CancelProposal, RaiseDispute,
     UpholdDispute, RejectDispute, SweepSettle, Settle
<1>3. CASE CertStep
  BY <1>3 DEF CertStep, IssueCertificate, RequestWithoutCertificate,
     RuleEquivocation, ReturnCertificate, SubmitCertBacked, RefuseOverspend
<1>4. ASSUME NEW c \in Charges, ChargeContract(c) PROVE UNCHANGED <<enrolled, known>>
  BY <1>4 DEF ChargeContract
<1>5. CASE BeginChargeSweep \/ EndChargeSweep \/ Tick \/ StepBack
  BY <1>5 DEF BeginChargeSweep, EndChargeSweep, Tick, StepBack
<1>6. CASE UNCHANGED vars
  BY <1>6 DEF vars
<1> QED
  BY <1>1, <1>2, <1>3, <1>4, <1>5, <1>6 DEF Next

LEMMA NextCredit ==
    ASSUME MaxBackSteps = 0
    PROVE  CreditInv /\ [Next]_vars => CreditInv'
<1> SUFFICES ASSUME CreditInv, [Next]_vars PROVE CreditInv'
  OBVIOUS
<1>1. TypeOK'
  BY NextType DEF CreditInv
<1>2. SweepConsistent'
  BY NextSweep DEF CreditInv
<1>3. (enrolled \subseteq known)' /\ known \subseteq known'
  BY MemberStep DEF CreditInv, Enroll, EnrollRevoke
<1>4. ASSUME NEW m \in Parties
      PROVE  /\ Position(m)' >= DebtFloor
             /\ m \notin known' \cup {Station} => Position(m)' >= Larger(0, DebtFloor)
  <2>1. Position(m)' >= Position(m) \/ Position(m)' >= FloorOf(m)
    BY PositionStep DEF CreditInv, NoDeeper
  <2>2. Position(m) \in Int /\ FloorOf(m) \in Int
    BY PositionParts DEF CreditInv
  <2>3. now' \in Int /\ txs' \in Seq(TxType) /\ certs' \in Seq(CertType) /\ balance'[m] \in Int
    BY <1>1 DEF TypeOK
  <2>4. Position(m)' \in Int
    BY <2>3, PositionAfter, TxCommittedInt, CertCommittedInt
  <2>5. Position(m) >= DebtFloor
        /\ (m \notin known \cup {Station} => Position(m) >= Larger(0, DebtFloor))
    BY DEF CreditInv, FloorRespected, StrangersHoldNoDebt
  <2>6. FloorOf(m) >= DebtFloor
        /\ (m \notin known \cup {Station} => FloorOf(m) = Larger(0, DebtFloor))
    BY CreditAssumption DEF CreditInv, FloorOf, IsEnrolled, Larger
  <2>7. Larger(0, DebtFloor) \in Int /\ DebtFloor \in Int
    BY CreditAssumption DEF Larger
  <2> QED
    BY <1>3, <2>1, <2>2, <2>4, <2>5, <2>6, <2>7
<1>5. FloorRespected' /\ StrangersHoldNoDebt'
  BY <1>4 DEF FloorRespected, StrangersHoldNoDebt
<1> QED
  BY <1>1, <1>2, <1>3, <1>5 DEF CreditInv

\* Nobody is ever committed below the debt floor, and a key the community never
\* enrolled never below zero, for every set of members, proposals, certificates
\* and charges, when the station's clock does not step back.
THEOREM FloorTheorem ==
    ASSUME MaxBackSteps = 0, DebtFloor <= 0
    PROVE  Spec => []FloorRespected
<1>1. Init => CreditInv
  BY InitCredit
<1>2. CreditInv /\ [Next]_vars => CreditInv'
  BY NextCredit
<1>3. CreditInv => FloorRespected
  BY DEF CreditInv
<1> QED
  BY <1>1, <1>2, <1>3, PTL DEF Spec

\* A key the community never enrolled only spends what it holds.
THEOREM StrangerTheorem ==
    ASSUME MaxBackSteps = 0, DebtFloor <= 0
    PROVE  Spec => []StrangersHoldNoDebt
<1>1. Init => CreditInv
  BY InitCredit
<1>2. CreditInv /\ [Next]_vars => CreditInv'
  BY NextCredit
<1>3. CreditInv => StrangersHoldNoDebt
  BY DEF CreditInv
<1> QED
  BY <1>1, <1>2, <1>3, PTL DEF Spec

-----------------------------------------------------------------------------
(* Ledger implements CreditLine.                                           *)

\* The initial states map to the initial state of the credit line.
LEMMA RefineInit == Init => Credit!Init
<1> SUFFICES ASSUME Init PROVE Credit!Init
  OBVIOUS
<1>1. [m \in Parties |-> Position(m)] = [m \in Parties |-> 0]
  BY InitPosition
<1> QED
  BY <1>1 DEF Init, Credit!Init

\* Every step maps to a Move, an Enroll, a Revoke or a stutter.
LEMMA RefineNext ==
    ASSUME MaxBackSteps = 0, TypeOK, TypeOK', SweepConsistent, [Next]_vars
    PROVE  [Credit!Next]_(Credit!vars)
<1> DEFINE pos == [m \in Parties |-> Position(m)]
<1>1. ASSUME UNCHANGED <<enrolled, known>> PROVE Credit!Move
  <2>1. ASSUME NEW m \in Parties
        PROVE  /\ Position(m)' \in Int
               /\ Position(m)' >= Position(m) \/ Position(m)' >= Credit!FloorOf(m)
    <3>1. Position(m)' >= Position(m) \/ Position(m)' >= FloorOf(m)
      BY PositionStep DEF NoDeeper
    <3>2. now' \in Int /\ txs' \in Seq(TxType) /\ certs' \in Seq(CertType)
          /\ balance'[m] \in Int
      BY DEF TypeOK
    <3>3. Position(m)' \in Int
      BY <3>2, PositionAfter, TxCommittedInt, CertCommittedInt
    <3>4. Credit!FloorOf(m) = FloorOf(m)
      BY CreditAssumption DEF Credit!FloorOf, Credit!StrangerFloor, FloorOf,
         IsEnrolled, Larger
    <3> QED
      BY <3>1, <3>3, <3>4
  <2>2. pos' = [m \in Parties |-> Position(m)']
    OBVIOUS
  <2>3. pos' \in [Parties -> Int]
    BY <2>1, <2>2
  <2>4. \A m \in Parties : pos'[m] >= pos[m] \/ pos'[m] >= Credit!FloorOf(m)
    BY <2>1, <2>2
  <2> QED
    BY <1>1, <2>3, <2>4 DEF Credit!Move
<1>2. ASSUME NEW n \in Parties, Enroll(n) \/ EnrollRevoke(n)
      PROVE  Credit!Enroll(n) \/ Credit!Revoke(n)
  <2>1. UNCHANGED <<now, txs, certs, balance>>
    BY <1>2 DEF Enroll, EnrollRevoke
  <2>2. \A m \in Parties : Position(m)' = Position(m)
    BY <2>1, StillStep
  <2>3. pos' = pos
    BY <2>2
  <2> QED
    BY <1>2, <2>3 DEF Enroll, EnrollRevoke, Credit!Enroll, Credit!Revoke
<1> QED
  BY <1>1, <1>2, MemberStep DEF Credit!Next

\* The whole ledger is a credit line: whatever it does to anybody's position is
\* something the abstract specification allows.
THEOREM CreditLineTheorem ==
    ASSUME MaxBackSteps = 0
    PROVE  Spec => ImplementsCreditLine
<1> DEFINE Inv == TypeOK /\ SweepConsistent
<1>1. Init => Inv
  BY InitType DEF Init, NoSweep, SweepConsistent
<1>2. Inv /\ [Next]_vars => Inv'
  BY NextType, NextSweep
<1>3. Inv /\ Inv' /\ [Next]_vars => [Credit!Next]_(Credit!vars)
  BY RefineNext
<1> QED
  BY <1>1, <1>2, <1>3, RefineInit, PTL DEF Spec, ImplementsCreditLine, Credit!Spec

-----------------------------------------------------------------------------
(* What a step does to the transactions.                                   *)

\* A transaction moved on: another stage, the same admission time.
MovedOn(i, t) ==
    /\ t.offer = txs[i].offer
    /\ t.admittedAt = txs[i].admittedAt
    /\ t.stage # "Confirmed"
    /\ txs' = [txs EXCEPT ![i] = t]

\* A transaction confirmed: its window starts at the log's new tail.
ConfirmedAtTail(i, t) ==
    /\ t.offer = txs[i].offer
    /\ t.admittedAt = tailAt'
    /\ t.stage = "Confirmed"
    /\ txs' = [txs EXCEPT ![i] = t]

LEMMA MoveToKeepsTime ==
    ASSUME TypeOK, NEW i \in DOMAIN txs,
           NEW stage \in {"Disputed", "Settled", "Cancelled"}, MoveTo(i, stage)
    PROVE  \E t \in TxType : MovedOn(i, t) /\ t.stage = stage
<1> DEFINE t == [offer |-> txs[i].offer, stage |-> stage,
                 admittedAt |-> txs[i].admittedAt]
<1>1. txs[i] \in TxType
  BY DEF TypeOK
<1>2. t \in TxType
  BY <1>1 DEF TxType, Stages
<1>3. [txs[i] EXCEPT !.stage = stage] = t
  BY <1>1 DEF TxType
<1>4. txs' = [txs EXCEPT ![i] = t]
  BY <1>3 DEF MoveTo
<1> QED
  BY <1>2, <1>4 DEF MovedOn

LEMMA ConfirmAtTail ==
    ASSUME TypeOK, NEW i \in DOMAIN txs, SubmitConfirmation(i)
    PROVE  \E t \in TxType : ConfirmedAtTail(i, t)
<1> DEFINE t == [offer |-> txs[i].offer, stage |-> "Confirmed",
                 admittedAt |-> AdmissionTime(now)]
<1>1. txs[i] \in TxType
  BY DEF TypeOK
<1>2. AdmissionTime(now) \in Nat
  BY AdmissionTimeType DEF TypeOK
<1>3. t \in TxType
  BY <1>1, <1>2 DEF TxType, Stages
<1>4. txs' = [txs EXCEPT ![i] = t] /\ tailAt' = AdmissionTime(now)
  BY DEF SubmitConfirmation
<1> QED
  BY <1>3, <1>4 DEF ConfirmedAtTail

\* A step leaves the transactions alone, admits one offer that passed the front
\* door, or moves one transaction on.
LEMMA TxsStep ==
    ASSUME TypeOK, [Next]_vars
    PROVE  \/ UNCHANGED txs
           \/ \E o \in Offers : FrontDoor(o) /\ AdmitProposal(o)
           \/ /\ UNCHANGED nonce
              /\ \E i \in DOMAIN txs, t \in TxType : MovedOn(i, t) \/ ConfirmedAtTail(i, t)
<1>1. ASSUME NEW o \in Offers, SubmitProposal(o)
      PROVE  FrontDoor(o) /\ AdmitProposal(o)
  BY <1>1 DEF SubmitProposal
<1>2. ASSUME NEW i \in DOMAIN txs, SubmitConfirmation(i)
      PROVE  UNCHANGED nonce /\ \E t \in TxType : ConfirmedAtTail(i, t)
  BY <1>2, ConfirmAtTail DEF SubmitConfirmation
<1>3. ASSUME NEW i \in DOMAIN txs,
             CancelProposal(i) \/ RaiseDispute(i) \/ UpholdDispute(i)
             \/ RejectDispute(i) \/ SweepSettle(i)
      PROVE  UNCHANGED nonce /\ \E t \in TxType : MovedOn(i, t)
  <2>1. UNCHANGED nonce
        /\ \E stage \in {"Disputed", "Settled", "Cancelled"} : MoveTo(i, stage)
    BY <1>3 DEF CancelProposal, RaiseDispute, UpholdDispute, RejectDispute, SweepSettle,
                Settle
  <2> QED
    BY <2>1, MoveToKeepsTime
<1>4. CASE CertStep
  <2>1. ASSUME NEW r \in Requests,
               IssueCertificate(r) \/ RequestWithoutCertificate(r)
               \/ \E d \in Decisions : RuleEquivocation(r, d)
        PROVE  UNCHANGED txs
    BY <2>1 DEF IssueCertificate, RequestWithoutCertificate, RuleEquivocation
  <2>2. ASSUME NEW i \in DOMAIN certs, ReturnCertificate(i) PROVE UNCHANGED txs
    BY <2>2 DEF ReturnCertificate
  <2>3. ASSUME NEW i \in DOMAIN certs, NEW o \in Offers, SubmitCertBacked(o, i)
        PROVE  FrontDoor(o) /\ AdmitProposal(o)
    BY <2>3 DEF SubmitCertBacked
  <2>4. ASSUME NEW i \in DOMAIN certs, NEW o \in Offers, RefuseOverspend(o, i)
        PROVE  UNCHANGED txs
    BY <2>4 DEF RefuseOverspend
  <2> QED
    BY <1>4, <2>1, <2>2, <2>3, <2>4 DEF CertStep
<1>5. CASE \/ BeginChargeSweep \/ EndChargeSweep \/ Tick \/ StepBack
           \/ \E c \in Charges : ChargeContract(c)
           \/ \E m \in Parties : Enroll(m) \/ EnrollRevoke(m)
           \/ UNCHANGED vars
  BY <1>5 DEF BeginChargeSweep, EndChargeSweep, Tick, StepBack, ChargeContract, Enroll,
              EnrollRevoke, vars
<1> QED
  BY <1>1, <1>2, <1>3, <1>4, <1>5 DEF Next, TxStep

-----------------------------------------------------------------------------
(* The admission clock.                                                    *)

LEMMA AdmissionTimeGrows ==
    ASSUME TypeOK, NEW at \in Nat
    PROVE  AdmissionTime(at) \in Nat /\ AdmissionTime(at) >= tailAt
  BY DEF AdmissionTime, Larger, TypeOK

\* The log's tail never goes back, even when the clock does.
LEMMA TailStep ==
    ASSUME TypeOK, [Next]_vars
    PROVE  tailAt' >= tailAt
<1>0. tailAt \in Nat /\ AdmissionTime(now) >= tailAt /\ AdmissionTime(sweep.at) >= tailAt
  <2>1. now \in Nat /\ sweep.at \in Nat
    BY ClockAssumption DEF TypeOK, SweepType
  <2> QED
    BY <2>1, AdmissionTimeGrows DEF TypeOK
<1> SUFFICES tailAt' \in {tailAt, AdmissionTime(now), AdmissionTime(sweep.at)}
  BY <1>0
<1>1. ASSUME NEW o \in Offers, SubmitProposal(o) PROVE tailAt' = AdmissionTime(now)
  BY <1>1 DEF SubmitProposal, AdmitProposal
<1>2. CASE TxStep
  BY <1>2 DEF TxStep, SubmitConfirmation, CancelProposal, RaiseDispute, UpholdDispute,
              RejectDispute, SweepSettle, Settle, MoveTo
<1>3. CASE CertStep
  BY <1>3 DEF CertStep, IssueCertificate, RequestWithoutCertificate, AdmitRequest,
              RuleEquivocation, ReturnCertificate, SubmitCertBacked, AdmitProposal,
              RefuseOverspend
<1>4. CASE \/ BeginChargeSweep \/ EndChargeSweep \/ Tick \/ StepBack
           \/ \E c \in Charges : ChargeContract(c)
           \/ \E m \in Parties : Enroll(m) \/ EnrollRevoke(m)
           \/ UNCHANGED vars
  BY <1>4 DEF BeginChargeSweep, EndChargeSweep, Tick, StepBack, ChargeContract, Enroll,
              EnrollRevoke, vars
<1> QED
  BY <1>1, <1>2, <1>3, <1>4 DEF Next

\* No transaction is stamped later than the log's tail.
StampsBelowTail == \A i \in DOMAIN txs : txs[i].admittedAt <= tailAt

LEMMA NextStamps == TypeOK /\ StampsBelowTail /\ [Next]_vars => StampsBelowTail'
<1> SUFFICES ASSUME TypeOK, StampsBelowTail, [Next]_vars,
                    NEW j \in DOMAIN txs'
             PROVE  txs'[j].admittedAt <= tailAt'
  BY DEF StampsBelowTail
<1>1. tailAt \in Nat /\ tailAt' \in Nat /\ tailAt' >= tailAt
  BY NextType, TailStep DEF TypeOK
<1>2. \A k \in DOMAIN txs : txs[k].admittedAt \in Nat /\ txs[k].admittedAt <= tailAt'
  <2>1. ASSUME NEW k \in DOMAIN txs
        PROVE txs[k].admittedAt \in Nat /\ txs[k].admittedAt <= tailAt
    <3>1. txs[k] \in TxType
      BY DEF TypeOK
    <3> QED
      BY <3>1 DEF TxType, StampsBelowTail
  <2> QED
    BY <1>1, <2>1
<1>3. CASE UNCHANGED txs
  BY <1>2, <1>3
<1>4. ASSUME NEW o \in Offers, AdmitProposal(o) PROVE txs'[j].admittedAt <= tailAt'
  <2> DEFINE t == [offer |-> o, stage |-> "Proposed", admittedAt |-> 0]
  <2>1. txs' = Append(txs, t) /\ txs \in Seq(TxType)
    BY <1>4 DEF AdmitProposal, TypeOK
  <2>2. txs'[j] = t \/ (j \in DOMAIN txs /\ txs'[j] = txs[j])
    BY <2>1
  <2> QED
    BY <1>1, <1>2, <2>2
<1>5. ASSUME NEW i \in DOMAIN txs, NEW t \in TxType, MovedOn(i, t) \/ ConfirmedAtTail(i, t)
      PROVE  txs'[j].admittedAt <= tailAt'
  <2>1. txs' = [txs EXCEPT ![i] = t]
        /\ (t.admittedAt = txs[i].admittedAt \/ t.admittedAt = tailAt')
    BY <1>5 DEF MovedOn, ConfirmedAtTail
  <2>2. j \in DOMAIN txs /\ (txs'[j] = txs[j] \/ txs'[j] = t)
    BY <2>1
  <2> QED
    BY <1>1, <1>2, <2>1, <2>2
<1> QED
  BY <1>3, <1>4, <1>5, TxsStep

\* Settlement windows follow log order for every clock: the clamp of
\* AppendLog::append is enough, however often and far the wall clock is set
\* back.
THEOREM WindowTheorem == Spec => WindowsFollowLogOrder
<1> DEFINE Later ==
      \A i, j \in DOMAIN txs :
         /\ txs[i].stage = "Proposed" /\ txs'[i].stage = "Confirmed"
         /\ txs[j].stage \notin {"Proposed", "Cancelled"}
         => txs'[i].admittedAt >= txs[j].admittedAt
<1>1. Init => TypeOK /\ StampsBelowTail
  BY InitType DEF Init, StampsBelowTail
<1>2. TypeOK /\ StampsBelowTail /\ [Next]_vars => (TypeOK /\ StampsBelowTail)'
  BY NextType, NextStamps
<1>3. TypeOK /\ StampsBelowTail /\ [Next]_vars => [Later]_vars
  <2> SUFFICES ASSUME TypeOK, StampsBelowTail, [Next]_vars,
                      NEW i \in DOMAIN txs, NEW j \in DOMAIN txs,
                      txs[i].stage = "Proposed", txs'[i].stage = "Confirmed"
               PROVE  txs'[i].admittedAt >= txs[j].admittedAt
    OBVIOUS
  <2>1. tailAt \in Nat /\ tailAt' \in Nat /\ tailAt' >= tailAt
    BY NextType, TailStep DEF TypeOK
  <2>2. txs[j].admittedAt \in Nat /\ txs[j].admittedAt <= tailAt
    <3>1. txs[j] \in TxType
      BY DEF TypeOK
    <3> QED
      BY <3>1 DEF TxType, StampsBelowTail
  <2>3. CASE UNCHANGED txs
    BY <2>3
  <2>4. ASSUME NEW o \in Offers, AdmitProposal(o) PROVE FALSE
    <3>1. txs'[i] = txs[i]
      BY <2>4 DEF AdmitProposal, TypeOK
    <3> QED
      BY <3>1
  <2>5. ASSUME NEW k \in DOMAIN txs, NEW t \in TxType,
               MovedOn(k, t) \/ ConfirmedAtTail(k, t)
        PROVE  txs'[i].admittedAt = tailAt'
    <3>1. txs' = [txs EXCEPT ![k] = t]
      BY <2>5 DEF MovedOn, ConfirmedAtTail
    <3>2. k = i /\ txs'[i] = t
      BY <3>1
    <3> QED
      BY <2>5, <3>2 DEF MovedOn, ConfirmedAtTail
  <2> QED
    BY <2>1, <2>2, <2>3, <2>4, <2>5, TxsStep
<1> QED
  BY <1>1, <1>2, <1>3, PTL DEF Spec, WindowsFollowLogOrder

-----------------------------------------------------------------------------
(* Every signed record takes effect once.                                  *)

\* A step leaves the certificates alone, issues one, or changes one that keeps
\* its request.
LEMMA CertsStep ==
    ASSUME TypeOK, [Next]_vars
    PROVE  \/ UNCHANGED certs
           \/ \E r \in Requests : IssueCertificate(r)
           \/ \E i \in DOMAIN certs, c \in CertType :
                certs' = [certs EXCEPT ![i] = c] /\ c.req = certs[i].req
<1>1. ASSUME NEW o \in Offers, SubmitProposal(o) PROVE UNCHANGED certs
  BY <1>1 DEF SubmitProposal
<1>2. CASE TxStep
  BY <1>2 DEF TxStep, SubmitConfirmation, CancelProposal, RaiseDispute, UpholdDispute,
              RejectDispute, SweepSettle, Settle
<1>3. CASE CertStep
  <2>1. ASSUME NEW r \in Requests, NEW d \in Decisions,
               RequestWithoutCertificate(r) \/ RuleEquivocation(r, d)
        PROVE  UNCHANGED certs
    BY <2>1 DEF RequestWithoutCertificate, RuleEquivocation
  <2>2. ASSUME NEW i \in DOMAIN certs, ReturnCertificate(i)
        PROVE  \E c \in CertType : certs' = [certs EXCEPT ![i] = c] /\ c.req = certs[i].req
    BY <2>2, ReturnEffect
  <2>3. ASSUME NEW i \in DOMAIN certs, NEW o \in Offers, SubmitCertBacked(o, i)
        PROVE  \E c \in CertType : certs' = [certs EXCEPT ![i] = c] /\ c.req = certs[i].req
    <3>1. o.amount \in Int /\ certs' = [certs EXCEPT ![i].consumed = @ + o.amount]
      BY <2>3, OfferFields DEF SubmitCertBacked
    <3> QED
      BY <3>1, SpendEffect
  <2>4. ASSUME NEW i \in DOMAIN certs, NEW o \in Offers, RefuseOverspend(o, i)
        PROVE  UNCHANGED certs
    BY <2>4 DEF RefuseOverspend
  <2>5. ASSUME NEW r \in Requests, RequestWithoutCertificate(r) PROVE UNCHANGED certs
    BY <2>5 DEF RequestWithoutCertificate
  <2> QED
    BY <1>3, <2>1, <2>2, <2>3, <2>4, <2>5 DEF CertStep
<1>4. CASE \/ BeginChargeSweep \/ EndChargeSweep \/ Tick \/ StepBack
           \/ \E c \in Charges : ChargeContract(c)
           \/ \E m \in Parties : Enroll(m) \/ EnrollRevoke(m)
           \/ UNCHANGED vars
  BY <1>4 DEF BeginChargeSweep, EndChargeSweep, Tick, StepBack, ChargeContract, Enroll,
              EnrollRevoke, vars
<1> QED
  BY <1>1, <1>2, <1>3, <1>4 DEF Next

\* A step leaves the nonces alone or uses up one party's next nonce.
LEMMA NonceStep ==
    ASSUME TypeOK, [Next]_vars, NEW m \in Parties
    PROVE  nonce[m] \in Nat /\ nonce'[m] \in Nat /\ nonce[m] <= nonce'[m]
<1>0. nonce \in [Parties -> Nat] /\ nonce' \in [Parties -> Nat]
  BY NextType DEF TypeOK
<1> SUFFICES UNCHANGED nonce \/ \E n \in Parties : nonce' = [nonce EXCEPT ![n] = @ + 1]
  BY <1>0
<1>1. ASSUME NEW o \in Offers, AdmitProposal(o)
      PROVE  \E n \in Parties : nonce' = [nonce EXCEPT ![n] = @ + 1]
  BY <1>1, OfferFields DEF AdmitProposal
<1>2. ASSUME NEW r \in Requests, AdmitRequest(r)
      PROVE  \E n \in Parties : nonce' = [nonce EXCEPT ![n] = @ + 1]
  BY <1>2, RequestFields DEF AdmitRequest
<1>3. CASE TxStep
  BY <1>3 DEF TxStep, SubmitConfirmation, CancelProposal, RaiseDispute, UpholdDispute,
              RejectDispute, SweepSettle, Settle
<1>4. CASE CertStep
  BY <1>1, <1>2, <1>4 DEF CertStep, IssueCertificate, RequestWithoutCertificate,
              RuleEquivocation, ReturnCertificate, SubmitCertBacked, RefuseOverspend
<1>5. CASE \/ BeginChargeSweep \/ EndChargeSweep \/ Tick \/ StepBack
           \/ \E c \in Charges : ChargeContract(c)
           \/ \E n \in Parties : Enroll(n) \/ EnrollRevoke(n)
           \/ UNCHANGED vars
  BY <1>5 DEF BeginChargeSweep, EndChargeSweep, Tick, StepBack, ChargeContract, Enroll,
              EnrollRevoke, vars
<1>6. ASSUME NEW o \in Offers, SubmitProposal(o) PROVE AdmitProposal(o)
  BY <1>6 DEF SubmitProposal
<1> QED
  BY <1>1, <1>3, <1>4, <1>5, <1>6 DEF Next

\* The nonce of everything admitted is used up, and no two admitted offers of
\* one sender, nor two certificates of one request, share theirs.
TxNoncesUsed == \A i \in DOMAIN txs : txs[i].offer.nonce < nonce[txs[i].offer.sender]
CertNoncesUsed == \A i \in DOMAIN certs : certs[i].req.nonce < nonce[certs[i].req.member]

TxNoncesDistinct ==
    \A i, j \in DOMAIN txs :
        /\ txs[i].offer.sender = txs[j].offer.sender
        /\ txs[i].offer.nonce = txs[j].offer.nonce
        => i = j
CertRequestsDistinct == \A i, j \in DOMAIN certs : certs[i].req = certs[j].req => i = j

ReplayInv ==
    TypeOK /\ TxNoncesUsed /\ CertNoncesUsed /\ TxNoncesDistinct /\ CertRequestsDistinct

LEMMA TxOffers ==
    ASSUME TypeOK, NEW i \in DOMAIN txs
    PROVE  /\ txs[i].offer \in Offers
           /\ txs[i].offer.sender \in Parties /\ txs[i].offer.nonce \in Nat
<1>1. txs[i] \in TxType
  BY DEF TypeOK
<1> QED
  BY <1>1, OfferFields DEF TxType

LEMMA CertRequests ==
    ASSUME TypeOK, NEW i \in DOMAIN certs
    PROVE  certs[i].req.member \in Parties /\ certs[i].req.nonce \in Nat
<1>1. certs[i] \in CertType
  BY DEF TypeOK
<1> QED
  BY <1>1, RequestFields DEF CertType

LEMMA NextTxNonces ==
    ASSUME ReplayInv, [Next]_vars
    PROVE  TxNoncesUsed' /\ TxNoncesDistinct'
<1> USE DEF ReplayInv
<1>1. \A i \in DOMAIN txs :
        txs[i].offer.sender \in Parties /\ txs[i].offer.nonce \in Nat
        /\ txs[i].offer.nonce < nonce[txs[i].offer.sender]
        /\ txs[i].offer.nonce < nonce'[txs[i].offer.sender]
  BY TxOffers, NonceStep DEF TxNoncesUsed
<1>2. CASE UNCHANGED txs
  BY <1>1, <1>2 DEF TxNoncesUsed, TxNoncesDistinct
<1>3. ASSUME NEW o \in Offers, FrontDoor(o), AdmitProposal(o)
      PROVE  TxNoncesUsed' /\ TxNoncesDistinct'
  <2> DEFINE t == [offer |-> o, stage |-> "Proposed", admittedAt |-> 0]
             n == Len(txs) + 1
  <2>1. txs' = Append(txs, t) /\ txs \in Seq(TxType)
    BY <1>3 DEF AdmitProposal, TypeOK
  <2>2. /\ DOMAIN txs' = DOMAIN txs \cup {n} /\ n \notin DOMAIN txs
        /\ txs'[n].offer = o /\ \A i \in DOMAIN txs : txs'[i] = txs[i]
    BY <2>1
  <2>3. o.sender \in Parties /\ o.nonce = nonce[o.sender] /\ nonce[o.sender] \in Nat
        /\ nonce'[o.sender] = nonce[o.sender] + 1
    BY <1>3, OfferFields DEF FrontDoor, AdmitProposal, TypeOK
  <2> HIDE DEF n
  <2>4. TxNoncesUsed'
    BY <1>1, <2>2, <2>3 DEF TxNoncesUsed
  <2>5. \A i \in DOMAIN txs :
           txs[i].offer.sender = o.sender => txs[i].offer.nonce # o.nonce
    BY <1>1, <2>3
  <2>6. TxNoncesDistinct'
    BY <2>2, <2>5 DEF TxNoncesDistinct
  <2> QED
    BY <2>4, <2>6
<1>4. ASSUME NEW i \in DOMAIN txs, NEW t \in TxType, MovedOn(i, t) \/ ConfirmedAtTail(i, t)
      PROVE  TxNoncesUsed' /\ TxNoncesDistinct'
  <2>1. txs' = [txs EXCEPT ![i] = t] /\ t.offer = txs[i].offer
    BY <1>4 DEF MovedOn, ConfirmedAtTail
  <2>2. DOMAIN txs' = DOMAIN txs /\ \A j \in DOMAIN txs : txs'[j].offer = txs[j].offer
    BY <2>1
  <2> QED
    BY <1>1, <2>2 DEF TxNoncesUsed, TxNoncesDistinct
<1> QED
  BY <1>2, <1>3, <1>4, TxsStep

LEMMA NextCertNonces ==
    ASSUME ReplayInv, [Next]_vars
    PROVE  CertNoncesUsed' /\ CertRequestsDistinct'
<1> USE DEF ReplayInv
<1>1. \A i \in DOMAIN certs :
        certs[i].req.member \in Parties /\ certs[i].req.nonce \in Nat
        /\ certs[i].req.nonce < nonce[certs[i].req.member]
        /\ certs[i].req.nonce < nonce'[certs[i].req.member]
  BY CertRequests, NonceStep DEF CertNoncesUsed
<1>2. CASE UNCHANGED certs
  BY <1>1, <1>2 DEF CertNoncesUsed, CertRequestsDistinct
<1>3. ASSUME NEW r \in Requests, IssueCertificate(r)
      PROVE  CertNoncesUsed' /\ CertRequestsDistinct'
  <2> DEFINE c == [req |-> r, expiresAt |-> now + CertValidity,
                   status |-> "Outstanding", consumed |-> 0]
             n == Len(certs) + 1
  <2>1. certs' = Append(certs, c) /\ certs \in Seq(CertType)
    BY <1>3 DEF IssueCertificate, TypeOK
  <2>2. /\ DOMAIN certs' = DOMAIN certs \cup {n} /\ n \notin DOMAIN certs
        /\ certs'[n].req = r /\ \A i \in DOMAIN certs : certs'[i] = certs[i]
    BY <2>1
  <2>3. r.member \in Parties /\ r.nonce = nonce[r.member] /\ nonce[r.member] \in Nat
        /\ nonce'[r.member] = nonce[r.member] + 1
    BY <1>3, RequestFields DEF IssueCertificate, RequestAdmissible, AdmitRequest, TypeOK
  <2> HIDE DEF n
  <2>4. CertNoncesUsed'
    BY <1>1, <2>2, <2>3 DEF CertNoncesUsed
  <2>5. \A i \in DOMAIN certs : certs[i].req # r
    BY <1>1, <2>3
  <2>6. CertRequestsDistinct'
    BY <2>2, <2>5 DEF CertRequestsDistinct
  <2> QED
    BY <2>4, <2>6
<1>4. ASSUME NEW i \in DOMAIN certs, NEW c \in CertType,
             certs' = [certs EXCEPT ![i] = c], c.req = certs[i].req
      PROVE  CertNoncesUsed' /\ CertRequestsDistinct'
  <2>1. DOMAIN certs' = DOMAIN certs /\ \A j \in DOMAIN certs : certs'[j].req = certs[j].req
    BY <1>4
  <2> QED
    BY <1>1, <2>1 DEF CertNoncesUsed, CertRequestsDistinct
<1> QED
  BY <1>2, <1>3, <1>4, CertsStep

\* A signed proposal takes effect at most once and a signed request opens at
\* most one certificate, however often the carriers present them: the engine's
\* strictly sequential nonces are enough, without the check for a known
\* transaction.
THEOREM ReplayTheorem == Spec => []NoReplay
<1>1. Init => ReplayInv
  BY InitType DEF Init, ReplayInv, TxNoncesUsed, CertNoncesUsed, TxNoncesDistinct,
                  CertRequestsDistinct
<1>2. ReplayInv /\ [Next]_vars => ReplayInv'
  BY NextType, NextTxNonces, NextCertNonces DEF ReplayInv
<1>3. ReplayInv => NoReplay
  BY DEF ReplayInv, TxNoncesDistinct, CertRequestsDistinct, NoReplay
<1> QED
  BY <1>1, <1>2, <1>3, PTL DEF Spec

-----------------------------------------------------------------------------
(* Balances are what settled.                                              *)

\* The two halves of the fold.
SettledSum(ts, m) == SumTo([i \in 1..Len(ts) |-> SettledFor(ts[i], m)], Len(ts))
ChargedSum(cs, m) == SumTo([i \in 1..Len(cs) |-> ChargedTo(cs[i], m)], Len(cs))

LEMMA SettledForInt ==
    ASSUME NEW t \in TxType, NEW m
    PROVE  SettledFor(t, m) \in Int
<1>1. t.offer.amount \in Int
  BY OfferFields DEF TxType
<1> QED
  BY <1>1 DEF SettledFor

LEMMA ChargedToInt ==
    ASSUME NEW c \in Charges, NEW m
    PROVE  ChargedTo(c, m) \in Int
  BY ChargeFields DEF ChargedTo

LEMMA SumsInt ==
    ASSUME NEW ts \in Seq(TxType), NEW cs \in Seq(Charges), NEW m
    PROVE  SettledSum(ts, m) \in Int /\ ChargedSum(cs, m) \in Int
<1> DEFINE f == [i \in 1..Len(ts) |-> SettledFor(ts[i], m)]
           g == [i \in 1..Len(cs) |-> ChargedTo(cs[i], m)]
<1>1. Len(ts) \in Nat /\ Len(cs) \in Nat
  OBVIOUS
<1>2. \A i \in 1..Len(ts) : f[i] \in Int
  BY SettledForInt
<1>3. \A i \in 1..Len(cs) : g[i] \in Int
  BY ChargedToInt
<1> HIDE DEF f, g
<1>4. SumTo(f, Len(ts)) \in Int /\ SumTo(g, Len(cs)) \in Int
  BY <1>1, <1>2, <1>3, SumToInt
<1> QED
  BY <1>4 DEF SettledSum, ChargedSum, f, g

LEMMA FoldInt ==
    ASSUME TypeOK, NEW m
    PROVE  SettledSum(txs, m) \in Int /\ ChargedSum(charged, m) \in Int
  BY SumsInt DEF TypeOK

LEMMA SettledSumAppend ==
    ASSUME NEW ts \in Seq(TxType), NEW t \in TxType, NEW m
    PROVE  SettledSum(Append(ts, t), m) = SettledSum(ts, m) + SettledFor(t, m)
<1> DEFINE us == Append(ts, t)
           f == [i \in 1..Len(ts) |-> SettledFor(ts[i], m)]
           g == [i \in 1..Len(us) |-> SettledFor(us[i], m)]
<1>1. Len(ts) \in Nat /\ Len(us) = Len(ts) + 1 /\ us[Len(ts) + 1] = t
      /\ \A i \in 1..Len(ts) : us[i] = ts[i]
  OBVIOUS
<1>2. \A i \in 1..Len(ts) : f[i] \in Int
  BY SettledForInt
<1> HIDE DEF us
<1>3. g[Len(ts) + 1] = SettledFor(t, m) /\ g[Len(ts) + 1] \in Int
  BY <1>1, SettledForInt
<1>4. \A i \in 1..Len(ts) : g[i] = f[i]
  BY <1>1
<1> HIDE DEF f, g
<1>5. SumTo(g, Len(ts) + 1) = SumTo(f, Len(ts)) + g[Len(ts) + 1]
  BY <1>1, <1>2, <1>3, <1>4, SumToAppend
<1> QED
  BY <1>1, <1>3, <1>5 DEF SettledSum, f, g, us

LEMMA ChargedSumAppend ==
    ASSUME NEW cs \in Seq(Charges), NEW c \in Charges, NEW m
    PROVE  ChargedSum(Append(cs, c), m) = ChargedSum(cs, m) + ChargedTo(c, m)
<1> DEFINE ds == Append(cs, c)
           f == [i \in 1..Len(cs) |-> ChargedTo(cs[i], m)]
           g == [i \in 1..Len(ds) |-> ChargedTo(ds[i], m)]
<1>1. Len(cs) \in Nat /\ Len(ds) = Len(cs) + 1 /\ ds[Len(cs) + 1] = c
      /\ \A i \in 1..Len(cs) : ds[i] = cs[i]
  OBVIOUS
<1>2. \A i \in 1..Len(cs) : f[i] \in Int
  BY ChargedToInt
<1> HIDE DEF ds
<1>3. g[Len(cs) + 1] = ChargedTo(c, m) /\ g[Len(cs) + 1] \in Int
  BY <1>1, ChargedToInt
<1>4. \A i \in 1..Len(cs) : g[i] = f[i]
  BY <1>1
<1> HIDE DEF f, g
<1>5. SumTo(g, Len(cs) + 1) = SumTo(f, Len(cs)) + g[Len(cs) + 1]
  BY <1>1, <1>2, <1>3, <1>4, SumToAppend
<1> QED
  BY <1>1, <1>3, <1>5 DEF ChargedSum, f, g, ds

LEMMA SettledSumUpdate ==
    ASSUME NEW ts \in Seq(TxType), NEW i \in DOMAIN ts, NEW t \in TxType, NEW m
    PROVE  SettledSum([ts EXCEPT ![i] = t], m)
             = SettledSum(ts, m) + SettledFor(t, m) - SettledFor(ts[i], m)
<1> DEFINE us == [ts EXCEPT ![i] = t]
           f == [j \in 1..Len(ts) |-> SettledFor(ts[j], m)]
           g == [j \in 1..Len(ts) |-> SettledFor(us[j], m)]
<1>1. Len(us) = Len(ts) /\ us[i] = t /\ \A j \in 1..Len(ts) : j # i => us[j] = ts[j]
  BY TxUpdate
<1>2. Len(ts) \in Nat /\ i \in 1..Len(ts) /\ \A j \in 1..Len(ts) : ts[j] \in TxType
  OBVIOUS
<1> HIDE DEF us
<1>3. /\ f[i] = SettledFor(ts[i], m) /\ f[i] \in Int
      /\ g[i] = SettledFor(t, m) /\ g[i] \in Int
  BY <1>1, <1>2, SettledForInt
<1>4. \A j \in 1..Len(ts) : j # i => f[j] \in Int /\ g[j] = f[j]
  BY <1>1, <1>2, SettledForInt
<1> HIDE DEF f, g
<1>5. SumTo(g, Len(ts)) = SumTo(f, Len(ts)) + g[i] - f[i]
  BY <1>2, <1>3, <1>4, SumToUpdate
<1> QED
  BY <1>1, <1>3, <1>5 DEF SettledSum, f, g, us

\* What each step does to m's balance and to the two halves of its fold.
FoldAfter(m) ==
    balance'[m] - SettledSum(txs', m) - ChargedSum(charged', m)
      = balance[m] - SettledSum(txs, m) - ChargedSum(charged, m)

\* Confirming, cancelling, disputing and upholding settle nothing.
LEMMA UnsettledFold ==
    ASSUME TypeOK, NEW m \in Parties, NEW i \in DOMAIN txs,
           SubmitConfirmation(i) \/ CancelProposal(i) \/ RaiseDispute(i) \/ UpholdDispute(i)
    PROVE  FoldAfter(m)
<1>1. UNCHANGED <<balance, charged>> /\ txs[i].stage # "Settled"
  BY DEF SubmitConfirmation, CancelProposal, RaiseDispute, UpholdDispute
<1>2. \E t \in TxType : t.stage # "Settled" /\ txs' = [txs EXCEPT ![i] = t]
  <2>1. CASE SubmitConfirmation(i)
    BY <2>1, ConfirmEffect
  <2>2. CASE CancelProposal(i) \/ RaiseDispute(i) \/ UpholdDispute(i)
    <3>1. \E stage \in {"Disputed", "Cancelled"} : MoveTo(i, stage)
      BY <2>2 DEF CancelProposal, RaiseDispute, UpholdDispute
    <3> QED
      BY <3>1, MoveToEffect DEF Stages
  <2> QED
    BY <2>1, <2>2
<1>3. PICK t \in TxType : t.stage # "Settled" /\ txs' = [txs EXCEPT ![i] = t]
  BY <1>2
<1>4. SettledFor(t, m) = 0 /\ SettledFor(txs[i], m) = 0
  BY <1>1, <1>3 DEF SettledFor
<1>5. SettledSum(txs', m) = SettledSum(txs, m) + SettledFor(t, m) - SettledFor(txs[i], m)
  BY <1>3, SettledSumUpdate DEF TypeOK
<1>6. SettledSum(txs', m) = SettledSum(txs, m)
  BY <1>4, <1>5, FoldInt
<1> QED
  BY <1>1, <1>6 DEF FoldAfter

\* Settling moves the balances by what the transaction now counts for.
LEMMA SettledFold ==
    ASSUME TypeOK, NEW m \in Parties, NEW i \in DOMAIN txs,
           SweepSettle(i) \/ RejectDispute(i)
    PROVE  FoldAfter(m)
<1>1. Settle(i) /\ txs[i].stage # "Settled"
  BY DEF SweepSettle, RejectDispute, Eligible
<1>2. PICK t \in TxType :
             /\ t.offer = txs[i].offer /\ t.stage = "Settled"
             /\ txs' = [txs EXCEPT ![i] = t]
  BY <1>1, MoveToEffect DEF Stages, Settle
<1> DEFINE o == txs[i].offer
<1>3. o.amount \in Int /\ o.sender \in Parties /\ o.receiver \in Parties
  BY TxOffers, OfferFields
<1>4. balance'[m] = balance[m] - (IF m = o.sender THEN o.amount ELSE 0)
                    + (IF m = o.receiver THEN o.amount ELSE 0)
  <2>1. balance \in [Parties -> Int]
    BY DEF TypeOK
  <2>2. balance' = [[balance EXCEPT ![o.sender] = @ - o.amount]
                       EXCEPT ![o.receiver] = @ + o.amount]
    BY <1>1 DEF Settle, MoveBalance
  <2> QED
    BY <1>3, <2>1, <2>2, MoveBalanceEffect
<1>5. SettledFor(txs[i], m) = 0
      /\ SettledFor(t, m) = (IF o.receiver = m THEN o.amount ELSE 0)
                            - (IF o.sender = m THEN o.amount ELSE 0)
  BY <1>1, <1>2 DEF SettledFor
<1>6. SettledSum(txs', m) = SettledSum(txs, m) + SettledFor(t, m) - SettledFor(txs[i], m)
  BY <1>2, SettledSumUpdate DEF TypeOK
<1>7. balance[m] \in Int /\ SettledSum(txs, m) \in Int /\ ChargedSum(charged, m) \in Int
      /\ charged' = charged
  BY <1>1, FoldInt DEF TypeOK, Settle
<1> HIDE DEF o
<1> QED
  BY <1>3, <1>4, <1>5, <1>6, <1>7 DEF FoldAfter

\* A charge moves the balances by what it counts for.
LEMMA ChargedFold ==
    ASSUME TypeOK, NEW m \in Parties, NEW c \in Charges, ChargeContract(c)
    PROVE  FoldAfter(m)
<1>1. c.amount \in Int /\ c.buyer \in Parties /\ c.provider \in Parties
  BY ChargeFields
<1>2. balance'[m] = balance[m] - (IF m = c.buyer THEN c.amount ELSE 0)
                    + (IF m = c.provider THEN c.amount ELSE 0)
  <2>1. balance \in [Parties -> Int]
    BY DEF TypeOK
  <2>2. balance' = [[balance EXCEPT ![c.buyer] = @ - c.amount]
                       EXCEPT ![c.provider] = @ + c.amount]
    BY DEF ChargeContract, MoveBalance
  <2> QED
    BY <1>1, <2>1, <2>2, MoveBalanceEffect
<1>3. ChargedSum(charged', m) = ChargedSum(charged, m) + ChargedTo(c, m)
  BY ChargedSumAppend DEF ChargeContract, TypeOK
<1>4. balance[m] \in Int /\ SettledSum(txs, m) \in Int /\ ChargedSum(charged, m) \in Int
      /\ txs' = txs
  BY FoldInt DEF TypeOK, ChargeContract
<1> QED
  BY <1>1, <1>2, <1>3, <1>4 DEF FoldAfter, ChargedTo

LEMMA FoldStep ==
    ASSUME TypeOK, [Next]_vars, NEW m \in Parties
    PROVE  FoldAfter(m)
<1>1. ASSUME NEW o \in Offers, AdmitProposal(o), UNCHANGED <<balance, charged>>
      PROVE  FoldAfter(m)
  <2> DEFINE t == [offer |-> o, stage |-> "Proposed", admittedAt |-> 0]
  <2>1. t \in TxType /\ txs' = Append(txs, t) /\ SettledFor(t, m) = 0
    BY <1>1 DEF TxType, Stages, AdmitProposal, SettledFor
  <2>2. SettledSum(txs', m) = SettledSum(txs, m)
    BY <2>1, SettledSumAppend, FoldInt DEF TypeOK
  <2> QED
    BY <1>1, <2>2 DEF FoldAfter
<1>2. CASE UNCHANGED <<txs, balance, charged>>
  BY <1>2 DEF FoldAfter
<1>3. ASSUME NEW o \in Offers, SubmitProposal(o) PROVE FoldAfter(m)
  BY <1>1, <1>3 DEF SubmitProposal
<1>4. CASE TxStep
  BY <1>4, UnsettledFold, SettledFold DEF TxStep
<1>5. CASE CertStep
  <2>1. ASSUME NEW i \in DOMAIN certs, NEW o \in Offers, SubmitCertBacked(o, i)
        PROVE  FoldAfter(m)
    BY <1>1, <2>1 DEF SubmitCertBacked
  <2>2. ASSUME NEW i \in DOMAIN certs,
               ReturnCertificate(i) \/ \E o \in Offers : RefuseOverspend(o, i)
        PROVE  UNCHANGED <<txs, balance, charged>>
    BY <2>2 DEF ReturnCertificate, RefuseOverspend
  <2>3. ASSUME NEW r \in Requests,
               IssueCertificate(r) \/ RequestWithoutCertificate(r)
               \/ \E d \in Decisions : RuleEquivocation(r, d)
        PROVE  UNCHANGED <<txs, balance, charged>>
    BY <2>3 DEF IssueCertificate, RequestWithoutCertificate, RuleEquivocation
  <2> QED
    BY <1>2, <1>5, <2>1, <2>2, <2>3 DEF CertStep
<1>6. CASE \/ BeginChargeSweep \/ EndChargeSweep \/ Tick \/ StepBack
           \/ \E n \in Parties : Enroll(n) \/ EnrollRevoke(n)
           \/ UNCHANGED vars
  BY <1>2, <1>6 DEF BeginChargeSweep, EndChargeSweep, Tick, StepBack, Enroll,
                    EnrollRevoke, vars
<1> QED
  BY <1>3, <1>4, <1>5, <1>6, ChargedFold DEF Next

\* The fold, in the two halves of this module.
LEMMA FoldForm ==
    BalanceIsFold
      <=> \A m \in Parties : balance[m] = SettledSum(txs, m) + ChargedSum(charged, m)
  BY DEF BalanceIsFold, SettledSum, ChargedSum

\* Balances are exactly what the settled transactions and the charges moved,
\* each once, for every mix of operations and every clock.
THEOREM BalanceTheorem == Spec => []BalanceIsFold
<1> DEFINE Inv == TypeOK /\ BalanceIsFold
<1>1. Init => Inv
  <2> SUFFICES ASSUME Init, NEW m \in Parties
               PROVE  balance[m] = SettledSum(txs, m) + ChargedSum(charged, m)
    BY InitType, FoldForm
  <2>1. Len(txs) = 0 /\ Len(charged) = 0 /\ balance[m] = 0
    BY DEF Init
  <2>2. SettledSum(txs, m) = 0 /\ ChargedSum(charged, m) = 0
    BY <2>1, SumToZero DEF SettledSum, ChargedSum
  <2> QED
    BY <2>1, <2>2
<1>2. Inv /\ [Next]_vars => Inv'
  <2> SUFFICES ASSUME TypeOK, BalanceIsFold, [Next]_vars PROVE BalanceIsFold'
    BY NextType
  <2>1. TypeOK'
    BY NextType
  <2>2. ASSUME NEW m \in Parties
        PROVE  balance'[m] = SettledSum(txs', m) + ChargedSum(charged', m)
    <3>1. FoldAfter(m) /\ balance[m] = SettledSum(txs, m) + ChargedSum(charged, m)
      BY FoldStep, FoldForm
    <3>2. balance'[m] \in Int
      BY <2>1 DEF TypeOK
    <3>3. SettledSum(txs, m) \in Int /\ ChargedSum(charged, m) \in Int
      BY FoldInt
    <3>4. SettledSum(txs', m) \in Int /\ ChargedSum(charged', m) \in Int
      BY <2>1, SumsInt DEF TypeOK
    <3>5. balance'[m] - SettledSum(txs', m) - ChargedSum(charged', m) = 0
      BY <3>1, <3>3 DEF FoldAfter
    <3> QED
      BY <3>5, <3>2, <3>3, <3>4
  <2> QED
    BY <2>2, FoldForm DEF BalanceIsFold, SettledSum, ChargedSum
<1> QED
  BY <1>1, <1>2, PTL DEF Spec

-----------------------------------------------------------------------------
(* Certificates: the spends one backs, and the proof of an overspend.      *)

SpendOn(t, r) == IF t.offer.cert = r THEN t.offer.amount ELSE 0

SpentOn(ts, r) == SumTo([k \in 1..Len(ts) |-> SpendOn(ts[k], r)], Len(ts))

LEMMA SpendOnInt ==
    ASSUME NEW t \in TxType, NEW r
    PROVE  SpendOn(t, r) \in Int
<1>1. t.offer \in Offers
  BY DEF TxType
<1> QED
  BY <1>1, OfferFields DEF SpendOn

LEMMA SpentOnAppend ==
    ASSUME NEW ts \in Seq(TxType), NEW t \in TxType, NEW r
    PROVE  SpentOn(Append(ts, t), r) = SpentOn(ts, r) + SpendOn(t, r)
<1> DEFINE us == Append(ts, t)
           f == [i \in 1..Len(ts) |-> SpendOn(ts[i], r)]
           g == [i \in 1..Len(us) |-> SpendOn(us[i], r)]
<1>1. Len(ts) \in Nat /\ Len(us) = Len(ts) + 1 /\ us[Len(ts) + 1] = t
      /\ \A i \in 1..Len(ts) : us[i] = ts[i]
  OBVIOUS
<1>2. \A i \in 1..Len(ts) : f[i] \in Int
  BY SpendOnInt
<1> HIDE DEF us
<1>3. g[Len(ts) + 1] = SpendOn(t, r) /\ g[Len(ts) + 1] \in Int
  BY <1>1, SpendOnInt
<1>4. \A i \in 1..Len(ts) : g[i] = f[i]
  BY <1>1
<1> HIDE DEF f, g
<1>5. SumTo(g, Len(ts) + 1) = SumTo(f, Len(ts)) + g[Len(ts) + 1]
  BY <1>1, <1>2, <1>3, <1>4, SumToAppend
<1> QED
  BY <1>1, <1>3, <1>5 DEF SpentOn, f, g, us

LEMMA SpentOnNothing ==
    ASSUME NEW ts \in Seq(TxType), NEW r, \A k \in 1..Len(ts) : ts[k].offer.cert # r
    PROVE  SpentOn(ts, r) = 0
<1> DEFINE f == [k \in 1..Len(ts) |-> SpendOn(ts[k], r)]
           z == [k \in 1..0 |-> 0]
           Zeros(n) == SumTo(f, n) = 0
           Bad == {n \in 0..Len(ts) : ~Zeros(n)}
<1>1. Len(ts) \in Nat /\ \A k \in 1..Len(ts) : f[k] = 0
  BY DEF SpendOn
<1>2. SpentOn(ts, r) = SumTo(f, Len(ts))
  BY DEF SpentOn
<1> HIDE DEF f
<1>3. SUFFICES ASSUME Bad # {} PROVE FALSE
  BY <1>1, <1>2
<1>4. Bad \subseteq Nat
  BY <1>1
<1> HIDE DEF Bad
<1>5. PICK n \in Bad : \A j \in Bad : n <= j
  BY <1>3, <1>4, LeastNatural
<1> USE DEF Bad
<1>6. n # 0
  BY <1>5, SumToZero
<1>7. n - 1 \in 0..Len(ts) /\ n \in 1..Len(ts) /\ n - 1 \notin Bad
  BY <1>1, <1>5, <1>6
<1>8. n - 1 \in Nat /\ f[n - 1 + 1] \in Int /\ \A k \in 1..n - 1 : f[k] \in Int /\ f[k] = f[k]
  BY <1>1, <1>7
<1>9. SumTo(f, n - 1 + 1) = SumTo(f, n - 1) + f[n - 1 + 1]
  BY <1>8, SumToAppend
<1> QED
  BY <1>1, <1>5, <1>7, <1>9

\* The spends of a certificate and their sum, over the sequence.
LEMMA SpendsAre ==
    ASSUME TypeOK, NEW r
    PROVE  /\ AmountSum(CertBackedSpends(r)) = SpentOn(txs, r)
           /\ SpentOn(txs, r) \in Int
           /\ IsFiniteSet(CertBackedSpends(r)) /\ Cardinality(CertBackedSpends(r)) \in Nat
<1>1. txs \in Seq(TxType) /\ DOMAIN txs = 1..Len(txs) /\ Len(txs) \in Nat
  BY DEF TypeOK
<1> DEFINE f == [k \in 1..Len(txs) |-> IF k \in CertBackedSpends(r) THEN AmountOf(k) ELSE 0]
           g == [k \in 1..Len(txs) |-> SpendOn(txs[k], r)]
<1>2. f = g
  BY <1>1 DEF CertBackedSpends, AmountOf, SpendOn
<1>3. \A k \in 1..Len(txs) : g[k] \in Int
  BY <1>1, SpendOnInt
<1> HIDE DEF f, g
<1>4. SumTo(g, Len(txs)) \in Int
  BY <1>1, <1>3, SumToInt
<1>5. AmountSum(CertBackedSpends(r)) = SumTo(f, Len(txs)) /\ SpentOn(txs, r) = SumTo(g, Len(txs))
  BY DEF AmountSum, SpentOn, f, g
<1>6. IsFiniteSet(1..Len(txs)) /\ CertBackedSpends(r) \subseteq 1..Len(txs)
  BY <1>1, FS_Interval DEF CertBackedSpends
<1>7. IsFiniteSet(CertBackedSpends(r))
  BY <1>6, FS_Subset
<1> QED
  BY <1>2, <1>4, <1>5, <1>7, FS_CardinalityType

\* Every certificate has consumed what it backed, within its cap.
ConsumedIsSpent ==
    \A i \in DOMAIN certs :
        certs[i].consumed = SpentOn(txs, certs[i].req) /\ certs[i].consumed <= certs[i].req.cap

\* A spend that names a certificate is the holder's, and the certificate exists.
SpendsAreBacked ==
    \A k \in DOMAIN txs : txs[k].offer.cert # NoCert =>
        /\ txs[k].offer.amount > 0 /\ txs[k].offer.sender = txs[k].offer.cert.member
        /\ \E i \in DOMAIN certs : certs[i].req = txs[k].offer.cert

\* One place of the evidence is left for the spend to be refused.
EvidenceHasRoom ==
    \A r \in Requests : CertBackedSpends(r) # {} =>
        Cardinality(CertBackedSpends(r)) <= MaxEvidence - 1

SpendInv ==
    ReplayInv /\ ConsumedIsSpent /\ SpendsAreBacked /\ EvidenceHasRoom /\ OverspendsAreProven

LEMMA CertFields ==
    ASSUME TypeOK, NEW i \in DOMAIN certs
    PROVE  /\ certs[i] \in CertType /\ certs[i].req \in Requests /\ certs[i].req # NoCert
           /\ certs[i].consumed \in Int /\ certs[i].req.cap \in Int
<1>1. certs[i] \in CertType
  BY DEF TypeOK
<1> QED
  BY <1>1, RequestFields, RecordAssumption DEF CertType

\* A step leaves every offer and what every certificate consumed, issues a
\* certificate, or admits an offer with or without one.
SameOffers ==
    /\ DOMAIN txs' = DOMAIN txs /\ Len(txs') = Len(txs)
    /\ \A k \in DOMAIN txs : txs'[k].offer = txs[k].offer

SameConsumed ==
    /\ DOMAIN certs' = DOMAIN certs
    /\ \A i \in DOMAIN certs :
          certs'[i].req = certs[i].req /\ certs'[i].consumed = certs[i].consumed

LEMMA SpendSteps ==
    ASSUME TypeOK, [Next]_vars
    PROVE  \/ SameOffers /\ SameConsumed /\ doubled' = doubled /\ equivs' = equivs
           \/ \E i \in DOMAIN certs, o \in Offers : RefuseOverspend(o, i)
           \/ \E r \in Requests : IssueCertificate(r)
           \/ \E o \in Offers : SubmitProposal(o)
           \/ \E i \in DOMAIN certs, o \in Offers : SubmitCertBacked(o, i)
<1>1. UNCHANGED txs => SameOffers
  BY DEF SameOffers
<1>2. UNCHANGED certs => SameConsumed
  BY DEF SameConsumed
<1>3. ASSUME NEW i \in DOMAIN txs, NEW t \in TxType, t.offer = txs[i].offer,
             txs' = [txs EXCEPT ![i] = t]
      PROVE  SameOffers
  <2>1. txs \in Seq(TxType) /\ DOMAIN txs = 1..Len(txs)
    BY DEF TypeOK
  <2>2. /\ txs' \in Seq(TxType) /\ Len(txs') = Len(txs) /\ txs'[i] = t
        /\ \A j \in 1..Len(txs) : j # i => txs'[j] = txs[j]
    BY <1>3, <2>1, TxUpdate
  <2> QED
    BY <1>3, <2>1, <2>2 DEF SameOffers
<1>4. CASE TxStep
  <2>1. UNCHANGED <<certs, doubled, equivs>>
    BY <1>4 DEF TxStep, SubmitConfirmation, CancelProposal, RaiseDispute, UpholdDispute,
                RejectDispute, SweepSettle, Settle
  <2>2. ASSUME NEW i \in DOMAIN txs, SubmitConfirmation(i) PROVE SameOffers
    BY <1>3, <2>2, ConfirmAtTail DEF ConfirmedAtTail
  <2>3. ASSUME NEW i \in DOMAIN txs, CancelProposal(i) \/ RaiseDispute(i) \/ UpholdDispute(i)
               \/ RejectDispute(i) \/ SweepSettle(i)
        PROVE  SameOffers
    <3>1. \E stage \in {"Disputed", "Settled", "Cancelled"} : MoveTo(i, stage)
      BY <2>3 DEF CancelProposal, RaiseDispute, UpholdDispute, RejectDispute, SweepSettle, Settle
    <3>2. \E t \in TxType : MovedOn(i, t)
      BY <3>1, MoveToKeepsTime
    <3> QED
      BY <1>3, <3>2 DEF MovedOn
  <2> QED
    BY <1>2, <1>4, <2>1, <2>2, <2>3 DEF TxStep
<1>5. ASSUME NEW i \in DOMAIN certs, ReturnCertificate(i)
      PROVE  SameOffers /\ SameConsumed /\ doubled' = doubled /\ equivs' = equivs
  <2>1. certs' = [certs EXCEPT ![i].status = "Returned"] /\ UNCHANGED <<txs, doubled, equivs>>
    BY <1>5 DEF ReturnCertificate
  <2>2. \A j \in DOMAIN certs : certs[j] \in CertType
    BY CertFields
  <2>3. SameConsumed
    <3>1. DOMAIN certs' = DOMAIN certs /\ certs'[i] = [certs[i] EXCEPT !.status = "Returned"]
          /\ \A j \in DOMAIN certs : j # i => certs'[j] = certs[j]
      BY <2>1
    <3>2. certs'[i].req = certs[i].req /\ certs'[i].consumed = certs[i].consumed
      BY <2>2, <3>1 DEF CertType
    <3> QED
      BY <3>1, <3>2 DEF SameConsumed
  <2> QED
    BY <1>1, <2>1, <2>3
<1>6. ASSUME NEW r \in Requests,
             RequestWithoutCertificate(r) \/ \E d \in Decisions : RuleEquivocation(r, d)
      PROVE  UNCHANGED <<txs, certs, doubled, equivs>>
  BY <1>6 DEF RequestWithoutCertificate, RuleEquivocation
<1>7. CASE CertStep
  BY <1>1, <1>2, <1>5, <1>6, <1>7 DEF CertStep
<1>8. CASE \/ BeginChargeSweep \/ EndChargeSweep \/ Tick \/ StepBack
           \/ \E c \in Charges : ChargeContract(c)
           \/ \E m \in Parties : Enroll(m) \/ EnrollRevoke(m)
           \/ UNCHANGED vars
  <2>1. UNCHANGED <<txs, certs, doubled, equivs>>
    BY <1>8 DEF BeginChargeSweep, EndChargeSweep, Tick, StepBack, ChargeContract, Enroll,
                EnrollRevoke, vars
  <2> QED
    BY <1>1, <1>2, <2>1
<1> QED
  BY <1>4, <1>7, <1>8 DEF Next

LEMMA SameOffersKeepSpends ==
    ASSUME TypeOK, TypeOK', SameOffers, NEW r
    PROVE  SpentOn(txs', r) = SpentOn(txs, r) /\ CertBackedSpends(r)' = CertBackedSpends(r)
<1>1. /\ DOMAIN txs = 1..Len(txs) /\ Len(txs) \in Nat
      /\ \A k \in 1..Len(txs) : txs[k] \in TxType
  BY DEF TypeOK
<1> DEFINE f == [k \in 1..Len(txs) |-> SpendOn(txs[k], r)]
           g == [k \in 1..Len(txs') |-> SpendOn(txs'[k], r)]
<1>2. f = g
  BY <1>1 DEF SameOffers, SpendOn
<1> HIDE DEF f, g
<1>3. SpentOn(txs', r) = SumTo(g, Len(txs)) /\ SpentOn(txs, r) = SumTo(f, Len(txs))
  BY DEF SpentOn, f, g, SameOffers
<1>4. CertBackedSpends(r)' = CertBackedSpends(r)
  BY DEF CertBackedSpends, SameOffers
<1> QED
  BY <1>2, <1>3, <1>4

\* What admitting an offer does to the spends of every certificate.
LEMMA AdmitSpends ==
    ASSUME TypeOK, TypeOK', NEW o \in Offers, AdmitProposal(o)
    PROVE  /\ Len(txs) \in Nat /\ DOMAIN txs = 1..Len(txs) /\ DOMAIN txs' = 1..Len(txs) + 1
           /\ \A k \in DOMAIN txs : txs'[k] = txs[k]
           /\ txs'[Len(txs) + 1].offer = o
           /\ \A r : SpentOn(txs', r) = SpentOn(txs, r) + (IF o.cert = r THEN o.amount ELSE 0)
           /\ \A r : CertBackedSpends(r)' =
                       CertBackedSpends(r) \cup (IF o.cert = r THEN {Len(txs) + 1} ELSE {})
<1> DEFINE t == [offer |-> o, stage |-> "Proposed", admittedAt |-> 0]
<1>1. t \in TxType /\ txs' = Append(txs, t) /\ txs \in Seq(TxType) /\ t.offer = o
  BY DEF TxType, Stages, AdmitProposal, TypeOK
<1> HIDE DEF t
<1>2. /\ Len(txs) \in Nat /\ DOMAIN txs = 1..Len(txs) /\ DOMAIN txs' = 1..Len(txs) + 1
      /\ \A k \in DOMAIN txs : txs'[k] = txs[k]
      /\ txs'[Len(txs) + 1] = t
  BY <1>1
<1>3. ASSUME NEW r
      PROVE  SpentOn(txs', r) = SpentOn(txs, r) + (IF o.cert = r THEN o.amount ELSE 0)
  BY <1>1, SpentOnAppend DEF SpendOn
<1>4. ASSUME NEW r
      PROVE  CertBackedSpends(r)' =
               CertBackedSpends(r) \cup (IF o.cert = r THEN {Len(txs) + 1} ELSE {})
  BY <1>1, <1>2 DEF CertBackedSpends
<1> QED
  BY <1>1, <1>2, <1>3, <1>4

\* An issued certificate is new: no admitted spend names its request.
LEMMA IssueKeepsSpends ==
    ASSUME SpendInv, TypeOK', NEW r \in Requests, IssueCertificate(r)
    PROVE  ConsumedIsSpent' /\ SpendsAreBacked' /\ EvidenceHasRoom' /\ OverspendsAreProven'
<1> USE DEF SpendInv, ReplayInv
<1> DEFINE c == [req |-> r, expiresAt |-> now + CertValidity, status |-> "Outstanding", consumed |-> 0]
<1>1. /\ certs' = Append(certs, c) /\ r.cap > 0 /\ r.nonce = nonce[r.member]
      /\ UNCHANGED <<txs, equivs, doubled>>
  BY DEF IssueCertificate, RequestAdmissible
<1>2. c \in CertType /\ c.req = r /\ c.consumed = 0
  BY ClockAssumption, CreditAssumption DEF CertType, TypeOK
<1> HIDE DEF c
<1>3. /\ DOMAIN certs' = 1..Len(certs) + 1 /\ DOMAIN certs = 1..Len(certs) /\ Len(certs) \in Nat
      /\ \A i \in DOMAIN certs : certs'[i] = certs[i]
      /\ certs'[Len(certs) + 1] = c
  BY <1>1, <1>2 DEF TypeOK
<1>4. \A i \in DOMAIN certs : certs[i].req # r
  <2> SUFFICES ASSUME NEW i \in DOMAIN certs, certs[i].req = r PROVE FALSE
    OBVIOUS
  <2>1. r.nonce < nonce[r.member]
    BY DEF CertNoncesUsed
  <2>2. r.nonce \in Nat
    BY RequestFields
  <2> QED
    BY <1>1, <2>1, <2>2
<1>5. SpentOn(txs, r) = 0
  <2>1. txs \in Seq(TxType) /\ DOMAIN txs = 1..Len(txs)
    BY DEF TypeOK
  <2>2. \A k \in 1..Len(txs) : txs[k].offer.cert # r
    BY <1>4, <2>1, RecordAssumption DEF SpendsAreBacked
  <2> QED
    BY <2>1, <2>2, SpentOnNothing
<1>6. r.cap \in Int
  BY RequestFields
<1>7. ConsumedIsSpent'
  <2> SUFFICES ASSUME NEW i \in DOMAIN certs'
               PROVE  certs'[i].consumed = SpentOn(txs', certs'[i].req)
                      /\ certs'[i].consumed <= certs'[i].req.cap
    BY DEF ConsumedIsSpent
  <2>1. CASE i \in DOMAIN certs
    BY <1>1, <1>3, <2>1 DEF ConsumedIsSpent
  <2>2. CASE i = Len(certs) + 1
    BY <1>1, <1>2, <1>3, <1>5, <1>6, <2>2
  <2> QED
    BY <1>3, <2>1, <2>2
<1>8. SpendsAreBacked'
  <2>1. \A i \in DOMAIN certs : i \in DOMAIN certs'
    BY <1>3
  <2> QED
    BY <1>1, <1>3, <2>1 DEF SpendsAreBacked
<1>9. EvidenceHasRoom' /\ OverspendsAreProven'
  BY <1>1 DEF EvidenceHasRoom, OverspendsAreProven, CertBackedSpends
<1> QED
  BY <1>7, <1>8, <1>9

\* An ordinary proposal names no certificate.
LEMMA ProposalKeepsSpends ==
    ASSUME SpendInv, TypeOK', NEW o \in Offers, SubmitProposal(o)
    PROVE  ConsumedIsSpent' /\ SpendsAreBacked' /\ EvidenceHasRoom' /\ OverspendsAreProven'
<1> USE DEF SpendInv, ReplayInv
<1>1. AdmitProposal(o) /\ o.cert = NoCert /\ UNCHANGED <<certs, equivs, doubled>>
  BY DEF SubmitProposal
<1>2. /\ Len(txs) \in Nat /\ DOMAIN txs = 1..Len(txs) /\ DOMAIN txs' = 1..Len(txs) + 1
      /\ \A k \in DOMAIN txs : txs'[k] = txs[k]
      /\ txs'[Len(txs) + 1].offer = o
      /\ \A r : SpentOn(txs', r) = SpentOn(txs, r) + (IF o.cert = r THEN o.amount ELSE 0)
      /\ \A r : CertBackedSpends(r)' =
                  CertBackedSpends(r) \cup (IF o.cert = r THEN {Len(txs) + 1} ELSE {})
  BY <1>1, AdmitSpends
<1>3. ASSUME NEW r \in Requests
      PROVE  SpentOn(txs', r) = SpentOn(txs, r) /\ CertBackedSpends(r)' = CertBackedSpends(r)
  <2>1. o.cert # r /\ SpentOn(txs, r) \in Int
    BY <1>1, SpendsAre, RecordAssumption
  <2>2. SpentOn(txs', r) = SpentOn(txs, r) + 0
    BY <1>2, <2>1
  <2>3. CertBackedSpends(r)' = CertBackedSpends(r) \cup {}
    BY <1>2, <2>1
  <2> QED
    BY <2>1, <2>2, <2>3
<1>4. ConsumedIsSpent'
  BY <1>1, <1>3, CertFields DEF ConsumedIsSpent
<1>5. SpendsAreBacked'
  <2>1. \A k \in DOMAIN txs' : k \in DOMAIN txs \/ k = Len(txs) + 1
    BY <1>2
  <2> QED
    BY <1>1, <1>2, <2>1 DEF SpendsAreBacked
<1>6. EvidenceHasRoom' /\ OverspendsAreProven'
  BY <1>1, <1>3 DEF EvidenceHasRoom, OverspendsAreProven
<1> QED
  BY <1>4, <1>5, <1>6

\* A spend within the certificate's allowance, and its place in the evidence.
LEMMA BackedSpendKeepsSpends ==
    ASSUME SpendInv, TypeOK', NEW i \in DOMAIN certs, NEW o \in Offers, SubmitCertBacked(o, i)
    PROVE  ConsumedIsSpent' /\ SpendsAreBacked' /\ EvidenceHasRoom' /\ OverspendsAreProven'
<1> USE DEF SpendInv, ReplayInv
<1> DEFINE r == certs[i].req
<1>1. /\ AdmitProposal(o) /\ o.cert = r /\ o.amount > 0 /\ r.member = o.sender
      /\ ~(o.amount > r.cap - certs[i].consumed)
      /\ Cardinality(CertBackedSpends(r)) < MaxEvidence - 1
      /\ certs' = [certs EXCEPT ![i].consumed = @ + o.amount]
      /\ UNCHANGED <<equivs, doubled>>
  BY DEF SubmitCertBacked, CertUsable, CertOfSpender, Overspends
<1>2. /\ Len(txs) \in Nat /\ DOMAIN txs = 1..Len(txs) /\ DOMAIN txs' = 1..Len(txs) + 1
      /\ \A k \in DOMAIN txs : txs'[k] = txs[k]
      /\ txs'[Len(txs) + 1].offer = o
      /\ \A x : SpentOn(txs', x) = SpentOn(txs, x) + (IF o.cert = x THEN o.amount ELSE 0)
      /\ \A x : CertBackedSpends(x)' =
                  CertBackedSpends(x) \cup (IF o.cert = x THEN {Len(txs) + 1} ELSE {})
  BY <1>1, AdmitSpends
<1>3. /\ DOMAIN certs' = DOMAIN certs
      /\ certs'[i].req = r /\ certs'[i].consumed = certs[i].consumed + o.amount
      /\ \A j \in DOMAIN certs : j # i => certs'[j] = certs[j]
  <2>1. /\ DOMAIN certs' = DOMAIN certs /\ certs'[i] = [certs[i] EXCEPT !.consumed = @ + o.amount]
        /\ \A j \in DOMAIN certs : j # i => certs'[j] = certs[j]
    BY <1>1
  <2>2. certs'[i].req = r /\ certs'[i].consumed = certs[i].consumed + o.amount
    BY <2>1, CertFields DEF CertType
  <2> QED
    BY <2>1, <2>2
<1>4. certs[i].consumed \in Int /\ r.cap \in Int /\ r \in Requests /\ o.amount \in Int
  BY CertFields, OfferFields
<1>5. \A j \in DOMAIN certs : j # i => certs[j].req # r
  BY DEF CertRequestsDistinct
<1> HIDE DEF r
<1>6. ConsumedIsSpent'
  <2> SUFFICES ASSUME NEW j \in DOMAIN certs
               PROVE  certs'[j].consumed = SpentOn(txs', certs'[j].req)
                      /\ certs'[j].consumed <= certs'[j].req.cap
    BY <1>3 DEF ConsumedIsSpent
  <2>1. CASE j = i
    BY <1>1, <1>2, <1>3, <1>4, <2>1 DEF ConsumedIsSpent, r
  <2>2. CASE j # i
    <3>1. SpentOn(txs', certs[j].req) = SpentOn(txs, certs[j].req)
      BY <1>1, <1>2, <1>5, <2>2, SpendsAre
    <3> QED
      BY <1>3, <2>2, <3>1 DEF ConsumedIsSpent
  <2> QED
    BY <2>1, <2>2
<1>7. SpendsAreBacked'
  <2>1. \A k \in DOMAIN txs' : k \in DOMAIN txs \/ k = Len(txs) + 1
    BY <1>2
  <2>2. \A j \in DOMAIN certs : certs'[j].req = certs[j].req
    BY <1>3 DEF r
  <2>3. /\ o.amount > 0 /\ o.sender = o.cert.member
        /\ \E j \in DOMAIN certs' : certs'[j].req = o.cert
    BY <1>1, <1>3
  <2> QED
    BY <1>2, <1>3, <2>1, <2>2, <2>3 DEF SpendsAreBacked
<1>8. EvidenceHasRoom'
  <2> SUFFICES ASSUME NEW x \in Requests, CertBackedSpends(x)' # {}
               PROVE  Cardinality(CertBackedSpends(x)') <= MaxEvidence - 1
    BY DEF EvidenceHasRoom
  <2>1. CASE x = r
    <3>1. /\ IsFiniteSet(CertBackedSpends(r)) /\ Cardinality(CertBackedSpends(r)) \in Nat
      BY SpendsAre
    <3>2. Len(txs) + 1 \notin CertBackedSpends(r)
      BY <1>2 DEF CertBackedSpends
    <3>3. Cardinality(CertBackedSpends(r) \cup {Len(txs) + 1}) = Cardinality(CertBackedSpends(r)) + 1
      BY <3>1, <3>2, FS_AddElement
    <3>4. CertBackedSpends(x)' = CertBackedSpends(r) \cup {Len(txs) + 1}
      BY <1>1, <1>2, <2>1
    <3> QED
      BY <1>1, <3>1, <3>3, <3>4, CreditAssumption
  <2>2. CASE x # r
    BY <1>1, <1>2, <2>2 DEF EvidenceHasRoom
  <2> QED
    BY <2>1, <2>2
<1>9. OverspendsAreProven'
  BY <1>1 DEF OverspendsAreProven
<1> QED
  BY <1>6, <1>7, <1>8, <1>9

\* The admitted spends are evidence enough, and small enough to be written.
LEMMA OverspendIsProvable ==
    ASSUME SpendInv, NEW i \in DOMAIN certs, NEW o \in Offers, CertOfSpender(o, i),
           CertBackedSpends(o.cert) # {}, Overspends(o, i), NEW E \in EvidenceChoices(o, i)
    PROVE  VerifyEvidence(E, o, i)
<1> USE DEF SpendInv, ReplayInv
<1> DEFINE spends == CertBackedSpends(o.cert)
           proves(X) == AmountSum(X) + o.amount > certs[i].req.cap
           largest == {X \in SUBSET spends :
                         /\ Cardinality(X) < Larger(MaxEvidence, 1)
                         /\ \A x \in X, y \in spends \ X : AmountOf(x) >= AmountOf(y)}
           stops(X) == X # {} /\ proves(X)
<1>1. /\ E \in largest
      /\ stops(E) \/ \A D \in largest : Cardinality(D) <= Cardinality(E)
  BY DEF EvidenceChoices
<1>2. /\ o.cert = certs[i].req /\ o.cert \in Requests /\ o.sender = o.cert.member
      /\ o.amount \in Int /\ certs[i].consumed \in Int /\ certs[i].req.cap \in Int
  BY CertFields, OfferFields DEF CertOfSpender
<1>3. IsFiniteSet(spends) /\ Cardinality(spends) \in Nat /\ AmountSum(spends) = certs[i].consumed
  BY <1>2, SpendsAre DEF ConsumedIsSpent
<1>4. Cardinality(spends) <= MaxEvidence - 1 /\ MaxEvidence \in Nat
  BY <1>2, CreditAssumption DEF EvidenceHasRoom
<1>5. stops(spends)
  BY <1>2, <1>3 DEF Overspends
<1>6. spends \in largest
  <2>1. Cardinality(spends) < Larger(MaxEvidence, 1)
    BY <1>3, <1>4 DEF Larger
  <2> HIDE DEF spends
  <2> QED
    BY <2>1
<1> HIDE DEF spends
<1>7. E \subseteq spends
  BY <1>1
<1>8. IsFiniteSet(E) /\ Cardinality(E) \in Nat /\ Cardinality(E) <= Cardinality(spends)
  BY <1>3, <1>7, FS_Subset, FS_CardinalityType
<1>9. stops(E)
  <2>1. CASE \A D \in largest : Cardinality(D) <= Cardinality(E)
    <3>1. Cardinality(E) = Cardinality(spends)
      BY <1>3, <1>6, <1>8, <2>1
    <3>2. E = spends
      BY <1>3, <1>7, <3>1, FS_Subset
    <3> QED
      BY <1>5, <3>2
  <2> QED
    BY <1>1, <2>1
<1>10. Cardinality(E) # 0
  BY <1>8, <1>9, FS_EmptySet
<1>11. \A x \in E : txs[x].offer.sender = o.sender /\ AmountOf(x) > 0
  <2> SUFFICES ASSUME NEW x \in E PROVE txs[x].offer.sender = o.sender /\ AmountOf(x) > 0
    OBVIOUS
  <2>1. x \in DOMAIN txs /\ txs[x].offer.cert = o.cert /\ o.cert # NoCert
    BY <1>2, <1>7, RecordAssumption DEF spends, CertBackedSpends
  <2> QED
    BY <1>2, <2>1 DEF SpendsAreBacked, AmountOf
<1>12. Cardinality(E) + 1 <= MaxEvidence /\ Cardinality(E) + 1 >= 2
  BY <1>3, <1>4, <1>8, <1>10
<1> QED
  BY <1>9, <1>11, <1>12 DEF VerifyEvidence

LEMMA RefusalKeepsSpends ==
    ASSUME SpendInv, NEW i \in DOMAIN certs, NEW o \in Offers, RefuseOverspend(o, i)
    PROVE  ConsumedIsSpent' /\ SpendsAreBacked' /\ EvidenceHasRoom' /\ OverspendsAreProven'
<1>1. CertOfSpender(o, i) /\ UNCHANGED <<txs, certs>>
  BY DEF RefuseOverspend
<1>2. doubled' = IF CertBackedSpends(o.cert) # {} /\ Overspends(o, i)
                 THEN doubled \cup {o.cert} ELSE doubled
  BY DEF RefuseOverspend
<1>3. PICK E \in EvidenceChoices(o, i) :
         IF o.cert \notin equivs /\ VerifyEvidence(E, o, i)
         THEN equivs' = equivs \cup {o.cert} /\ tailAt' = AdmissionTime(now)
         ELSE UNCHANGED <<equivs, tailAt>>
  BY DEF RefuseOverspend
<1>4. equivs \subseteq equivs' /\ doubled \subseteq equivs
  BY <1>3 DEF SpendInv, OverspendsAreProven
<1>5. CASE CertBackedSpends(o.cert) # {} /\ Overspends(o, i)
  <2>1. VerifyEvidence(E, o, i)
    BY <1>1, <1>5, OverspendIsProvable
  <2>2. o.cert \in equivs'
    BY <1>3, <2>1
  <2>3. OverspendsAreProven'
    BY <1>2, <1>4, <2>2 DEF OverspendsAreProven
  <2> QED
    BY <1>1, <2>3 DEF SpendInv, ConsumedIsSpent, SpendsAreBacked, EvidenceHasRoom, CertBackedSpends
<1>6. CASE ~(CertBackedSpends(o.cert) # {} /\ Overspends(o, i))
  <2>1. OverspendsAreProven'
    BY <1>2, <1>4, <1>6 DEF OverspendsAreProven
  <2> QED
    BY <1>1, <2>1 DEF SpendInv, ConsumedIsSpent, SpendsAreBacked, EvidenceHasRoom, CertBackedSpends
<1> QED
  BY <1>5, <1>6

LEMMA NextSpends == SpendInv /\ [Next]_vars => SpendInv'
<1> SUFFICES ASSUME SpendInv, [Next]_vars
             PROVE  ConsumedIsSpent' /\ SpendsAreBacked' /\ EvidenceHasRoom' /\ OverspendsAreProven'
  BY NextType, NextTxNonces, NextCertNonces DEF SpendInv, ReplayInv
<1>1. TypeOK /\ TypeOK'
  BY NextType DEF SpendInv, ReplayInv
<1>2. CASE SameOffers /\ SameConsumed /\ doubled' = doubled /\ equivs' = equivs
  <2>1. \A r : SpentOn(txs', r) = SpentOn(txs, r) /\ CertBackedSpends(r)' = CertBackedSpends(r)
    BY <1>1, <1>2, SameOffersKeepSpends
  <2>2. ConsumedIsSpent' /\ EvidenceHasRoom' /\ OverspendsAreProven'
    BY <1>2, <2>1 DEF SpendInv, ConsumedIsSpent, EvidenceHasRoom, OverspendsAreProven, SameConsumed
  <2>3. SpendsAreBacked'
    BY <1>2 DEF SpendInv, SpendsAreBacked, SameOffers, SameConsumed
  <2> QED
    BY <2>2, <2>3
<1> QED
  BY <1>1, <1>2, SpendSteps, IssueKeepsSpends, ProposalKeepsSpends, BackedSpendKeepsSpends,
     RefusalKeepsSpends

LEMMA InitSpends == Init => SpendInv
<1> SUFFICES ASSUME Init PROVE SpendInv
  OBVIOUS
<1>1. ReplayInv
  BY InitType DEF Init, ReplayInv, TxNoncesUsed, CertNoncesUsed, TxNoncesDistinct,
                  CertRequestsDistinct
<1>2. txs = <<>> /\ certs = <<>> /\ doubled = {}
  BY DEF Init
<1> QED
  BY <1>1, <1>2 DEF SpendInv, ConsumedIsSpent, SpendsAreBacked, EvidenceHasRoom,
                    OverspendsAreProven, CertBackedSpends

\* The spends a certificate backs, cancelled ones included, are what it has
\* consumed and stay within its cap (check_cert_backed), in whatever order
\* spends, returns, expiries and further certificates come.
THEOREM CertTheorem == Spec => []CertSpendsWithinCap
<1>1. SpendInv => CertSpendsWithinCap
  <2> SUFFICES ASSUME SpendInv, NEW i \in DOMAIN certs
               PROVE  /\ AmountSum(CertBackedSpends(certs[i].req)) = certs[i].consumed
                      /\ certs[i].consumed <= certs[i].req.cap
    BY DEF CertSpendsWithinCap
  <2>1. TypeOK
    BY DEF SpendInv, ReplayInv
  <2> QED
    BY <2>1, SpendsAre DEF SpendInv, ConsumedIsSpent
<1> QED
  BY <1>1, InitSpends, NextSpends, PTL DEF Spec

\* A refused overspend of a certificate that already backed a spend can always
\* be proved in MAX_EVIDENCE_ITEMS items, and so a record stands against it
\* (record_cert_overspend_equivocation).
THEOREM OverspendTheorem == Spec => []OverspendsAreProven
<1>1. SpendInv => OverspendsAreProven
  BY DEF SpendInv
<1> QED
  BY <1>1, InitSpends, NextSpends, PTL DEF Spec
=============================================================================
