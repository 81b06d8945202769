----------------------------- MODULE MCCommons ------------------------------
(***************************************************************************)
(* Small instances of what a community does on its station's log: govern   *)
(* itself, declare emergencies, judge disputes and equivocations, trade,   *)
(* and what standing that gives its members.                               *)
(* The components share no record kinds, so each behaviour is one of a     *)
(* single component, `topic', with the others at rest.                     *)
(***************************************************************************)
EXTENDS Governance, Emergency, Dispute, Equivocation, Market, MCStanding

CONSTANTS
    f1, f2, m3, c1, c2, c3, a1, a2, s1, x1,   \* Governance
    d1, d2, d3,                               \* Emergency
    j1, j2, j3, j4,                           \* Dispute and Equivocation
    i1, b1                                    \* Market

VARIABLE topic

----------------------------------------------------------------------------
(* Governance: two founders; c2 lowers the bars of c1, c3 keeps them.      *)

Bars(quorum, approval, charterApproval) ==
    [founders |-> {f1, f2}, quorum |-> quorum, approval |-> approval,
     charterQuorum |-> 50, charterApproval |-> charterApproval,
     emergencyQuorum |-> 50, emergencyApproval |-> 67,
     window |-> 1, charterWindow |-> 1, delay |-> 1, emergencyWindow |-> 1]

MCCharterTerms == [c \in Charters |-> IF c = c2 THEN Bars(40, 40, 50) ELSE Bars(50, 60, 75)]
MCAmends == [c \in Charters |-> c1]

Tabled(kind, charter) == [kind |-> kind, author |-> f1, charter |-> charter, expires |-> 3]
MCMotionOf ==
    (a1 :> Tabled("amendment", c3)) @@ (a2 :> Tabled("amendment", c2)) @@
    (s1 :> Tabled("statute", c1)) @@ (x1 :> Tabled("emergency", c1))

MCStandings == {{}, {f1, f2, m3}}

\* What each governance topic may table, and what it holds still.
Agenda == [amend |-> {a1, a2}, freeze |-> {a2, s1}, sweep |-> {s1, a2},
           statute |-> {s1}, measure |-> {x1}]

GovBounds ==
    /\ ToSet(filed') \subseteq Agenda[topic]
    /\ topic \in {"amend", "freeze", "sweep"} => established' = {}
    /\ topic # "freeze" => day' <= 2
    /\ topic = "amend" => crisis' = NoCrisis /\ (turns' # turns => enacted' # NoEntry)
    /\ topic = "sweep" => (turns' # turns => enacted' # enacted)
    /\ topic \in {"freeze", "sweep"} =>
         \A p \in DOMAIN ballots' : Range(ballots'[p]) \subseteq {"yes"}
    /\ topic = "freeze" => /\ s1 \in DOMAIN endorsed' => endorsed'[s1] = {}
                           /\ turns' # turns => crisis # NoCrisis

----------------------------------------------------------------------------
(* Emergency: one declarer whose electorate is itself or three members.    *)

MCElectorates == {{f1}, {f1, f2, m3}}
MCDeclaredBy == [d \in Declarations |-> f1]
MCRequested == [d \in Declarations |-> IF d = d1 THEN 2 ELSE 1]

\* Dispute and Equivocation: a jury with one alternate, and a jury of one.
MCDraws == {<<j1, j2, j3, j4>>, <<j1>>}
MCEqDraws == {<<j1, j2, j3>>, <<j1>>}

\* Other founders are read once the log has a record they could change (before,
\* they are another initial draw), in a behaviour whose clock is never set back,
\* and they treat every round of a case alike.  Jurors disagree where neither
\* other founders nor an earlier clock come in between.
DisputeBounds ==
    /\ dturns' + dredraws' <= 1
    /\ dturns' + dredraws' > 0 => \A j \in DOMAIN hearing'.rulings : hearing'.rulings[j].uphold
    /\ dredraws' > 0 => /\ dclock' <= 2
                        /\ hearing.rulings # NoRulings \/ hearing.escalation # NoEscalation
EquivocationBounds ==
    /\ eqturns' + eqredraws' <= 1
    /\ eqturns' + eqredraws' > 0 => \A b \in eqballots' : b.uphold
    /\ eqredraws' > eqredraws => (eqballots # {} \/ Len(reseats) > 1) /\ eqruling = "none"
    /\ \A m, n \in DOMAIN reseats' : reseats'[m].draw = reseats'[n].draw
    /\ \A n \in DOMAIN reseats' \ {1} : reseats'[n].eligible = reseats'[2].eligible
    /\ reseats'[1].eligible

----------------------------------------------------------------------------
(* Market: goods in stock, goods past their expiry, a recurring service.   *)

MCBuyer == [i \in Inquiries |-> b1]

Offer(stock, expires, recurring) ==
    [price |-> 1, negotiable |-> FALSE, stock |-> stock, expires |-> expires,
     recurring |-> recurring, commons |-> FALSE, closed |-> FALSE]
MCOffers == {Offer(2, NoOffer, FALSE), Offer(1, 0, FALSE), Offer(NoOffer, NoOffer, TRUE)}

MarketBounds ==
    /\ listing'.negotiable = listing.negotiable
    /\ listing'.expires = listing.expires
    /\ listing.recurring =>
         /\ payments' = payments /\ ~listing'.closed /\ listing'.stock = NoOffer
         /\ Cardinality(orders') > 1 => charged' = {}
    /\ ~listing.recurring =>
         /\ mday' <= (IF listing.expires = NoOffer THEN 0 ELSE 1)
         /\ standing' = standing
         /\ \A i \in Inquiries : Len(threads'[i].items) <= 1
    /\ listing.expires # NoOffer => payments' = payments

----------------------------------------------------------------------------
GovTopics == DOMAIN Agenda

\* Standing: as in MCStanding, and nothing on the log while another topic is on.
MCRepLogs == MCStartLogs \cup {<<>>}

Init ==
    /\ GovInit /\ EmergencyInit /\ DisputeInit /\ EquivocationInit /\ MarketInit
    /\ ReputationInit
    /\ topic \in GovTopics \cup {"emergency", "dispute", "equivocation", "market", "standing"}
    /\ topic \notin {"statute", "measure"} => established = {}
    /\ topic # "emergency" => emlog = <<Evidence({f1}, 0)>>
    /\ topic # "dispute" => hearing.draw = <<j1>>
    /\ reseats[1].draw # <<j1>>
    /\ topic # "market" => listing.recurring
    /\ topic = "standing" <=> repLog # <<>>

Next ==
    \/ /\ topic \in GovTopics /\ GovNext /\ GovBounds
       /\ UNCHANGED <<emlog, disputeVars, equivocationVars, marketVars, reputationVars, topic>>
    \/ /\ topic = "emergency" /\ EmergencyNext
       /\ UNCHANGED <<govVars, disputeVars, equivocationVars, marketVars, reputationVars, topic>>
    \/ /\ topic = "dispute" /\ DisputeNext /\ DisputeBounds
       /\ UNCHANGED <<govVars, emlog, equivocationVars, marketVars, reputationVars, topic>>
    \/ /\ topic = "equivocation" /\ EquivocationNext /\ EquivocationBounds
       /\ UNCHANGED <<govVars, emlog, disputeVars, marketVars, reputationVars, topic>>
    \/ /\ topic = "market" /\ MarketNext /\ MarketBounds
       /\ UNCHANGED <<govVars, emlog, disputeVars, equivocationVars, reputationVars, topic>>
    \/ /\ topic = "standing" /\ ReputationNext /\ StandingBounds
       /\ UNCHANGED <<govVars, emlog, disputeVars, equivocationVars, marketVars, topic>>

commonsVars == <<govVars, emlog, disputeVars, equivocationVars, marketVars, reputationVars, topic>>

Sweep ==
    /\ topic \in GovTopics /\ EnactDue
    /\ UNCHANGED <<emlog, disputeVars, equivocationVars, marketVars, reputationVars, topic>>

Spec == Init /\ [][Next]_commonsVars /\ WF_commonsVars(Sweep)
=============================================================================
