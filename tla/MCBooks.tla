------------------------------ MODULE MCBooks -------------------------------
(***************************************************************************)
(* Ledger's credit and escrow instances in one run: the records of a       *)
(* behaviour are all of one book, and its clock ends with that book.       *)
(***************************************************************************)
EXTENDS MCLedger

Books ==
    {[offers |-> CreditOffers, charges |-> CreditCharges,
      requests |-> {}, until |-> 2],
     [offers |-> EscrowOffers, charges |-> EscrowCharges,
      requests |-> EscrowRequests, until |-> MaxTime]}

BookOffers == CreditOffers \cup EscrowOffers

DrawnFrom(book) ==
    /\ \A i \in DOMAIN txs : txs[i].offer \in book.offers
    /\ \A i \in DOMAIN certs : certs[i].req \in book.requests
    /\ \A i \in DOMAIN charged : charged[i] \in book.charges
    /\ now <= book.until

\* Steps that would mix the books are not taken.
OneBook == \E book \in Books : DrawnFrom(book)'
=============================================================================
