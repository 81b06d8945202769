------------------------------- MODULE Browse -------------------------------
(***************************************************************************)
(* The marketplace's browse index (search.rs, listings_index.rs and the    *)
(* places of core.rs that keep it in step).  The log says which listings   *)
(* are on offer; a table answers the filters and a full-text index answers *)
(* a text.  Both are derived: one listing is written after a record about  *)
(* it is appended, and both are rebuilt from the log at every start.       *)
(*                                                                         *)
(* A listing is its price, its expiry and its stock.  One text is asked    *)
(* for; Relevance ranks the listings that match it.  The station's clock   *)
(* is taken not to go back.                                                *)
(***************************************************************************)
EXTENDS Naturals, FiniteSets

CONSTANTS
    Goods,        \* the listings
    Relevance,    \* the score of those that match the text
    AskedPrices,  \* prices
    Expiries,     \* expiry instants; one that is never reached stands for none
    Units,        \* capacities
    LastMoment,   \* bound of the model: the clock
    MaxSales,     \* bound of the model: sales of one listing
    MaxMisses     \* bound of the model: index writes that fail

ASSUME RelevanceAssumption ==
    /\ IsFiniteSet(Goods)
    /\ DOMAIN Relevance \subseteq Goods /\ \A l \in DOMAIN Relevance : Relevance[l] \in Nat

ASSUME AmountsAssumption == AskedPrices \cup Expiries \cup Units \subseteq Nat

VARIABLES
    listed,    \* what the log says of each listing published
    table,     \* the rows of listings_index
    docs,      \* the documents of the text index
    stale,     \* history: listings whose last index write failed
    moment,    \* the station's clock
    misses

browseVars == <<listed, table, docs, stale, moment, misses>>

-----------------------------------------------------------------------------
(* The state of a listing: state_of.                                       *)

Remaining(l) == IF listed[l].units > listed[l].sold THEN listed[l].units - listed[l].sold ELSE 0

ListingState(l) ==
    IF listed[l].closed \/ Remaining(l) = 0 THEN "closed"
    ELSE IF moment > listed[l].until THEN "expired"
    ELSE "active"

OnOffer == {l \in DOMAIN listed : ListingState(l) = "active"}
-----------------------------------------------------------------------------
(* The two halves of the index.                                            *)

\* Slip: a row does not say that its listing was closed.
EveryRowActive(l) ==
    [status |-> "active", price |-> listed[l].price, until |-> listed[l].until, left |-> Remaining(l)]

\* write_listing: a listing that has expired but is not closed keeps an active
\* row, which the query's own look at the clock hides.
RowOf(l) ==
    [status |-> IF ListingState(l) = "closed" THEN "closed" ELSE "active",
     price |-> listed[l].price, until |-> listed[l].until, left |-> Remaining(l)]

Without(rows, gone) == [k \in DOMAIN rows \ gone |-> rows[k]]

With(rows, l, row) == [k \in DOMAIN rows \cup {l} |-> IF k = l THEN row ELSE rows[k]]

\* upsert and remove: the row is written, then the document is committed, and
\* either write may fail; reindex_listing and the sweep only log that.
Written(l, row) ==
    \/ /\ table' = With(table, l, row) /\ docs' = docs \cup {l}
       /\ stale' = stale \ {l} /\ UNCHANGED misses
    \/ /\ misses < MaxMisses /\ misses' = misses + 1
       /\ table' \in {table, With(table, l, row)} /\ docs' = docs
       /\ stale' = stale \cup {l}

Removed(gone) ==
    \/ /\ table' = Without(table, gone) /\ docs' = docs \ gone
       /\ stale' = stale \ gone /\ UNCHANGED misses
    \/ /\ misses < MaxMisses /\ misses' = misses + 1
       /\ \E l \in gone :
            /\ table' \in {Without(table, gone \ {l}), Without(table, gone)}
            /\ docs' = docs \ (gone \ {l})
            /\ stale' = (stale \ gone) \cup {l}

\* reindex_listing, of the listing as the append has left it.
Reindex(l) ==
    IF ListingState(l)' = "active" THEN Written(l, RowOf(l)') ELSE Removed({l})

\* rebuild, of every listing on the log.
RebuiltTable == [l \in DOMAIN listed |-> RowOf(l)]
RebuiltDocs == DOMAIN listed
-----------------------------------------------------------------------------
(* What a search returns.                                                  *)

\* active_matching.
Candidates(rows, limit) ==
    {l \in DOMAIN rows :
        rows[l].status = "active" /\ rows[l].until >= moment /\ rows[l].price <= limit}

\* relevance: the best n documents of the whole text index.
Best(found, n) ==
    {l \in found \cap DOMAIN Relevance :
        Cardinality({k \in found \cap DOMAIN Relevance : Relevance[k] > Relevance[l]}) < n}

TextHits(rows, found, limit) ==
    Candidates(rows, limit) \cap Best(found, Cardinality(Candidates(rows, limit)))
-----------------------------------------------------------------------------
(* What happens to a listing.  Each is an append, then the reindex of the  *)
(* listing it names; a replicated record is reindexed the same way.        *)

\* marketplace_create_listing, and a phone's channel_submit_listing.  The expiry
\* is after the creation, which a phone signs for itself: it may have passed.
Publish(l, p, u, n) ==
    /\ l \notin DOMAIN listed
    /\ listed' = With(listed, l,
           [price |-> p, until |-> u, units |-> n, sold |-> 0, closed |-> FALSE])
    /\ UNCHANGED moment
    /\ Reindex(l)

\* marketplace_edit_listing: until the close record, also when the listing has
\* expired or is sold out.
Edit(l, p, u, n) ==
    /\ l \in DOMAIN listed /\ ~listed[l].closed
    /\ listed' = [listed EXCEPT ![l].price = p, ![l].until = u, ![l].units = n]
    /\ listed' # listed
    /\ UNCHANGED moment
    /\ Reindex(l)

CloseListing(l) ==
    /\ l \in DOMAIN listed /\ ~listed[l].closed
    /\ listed' = [listed EXCEPT ![l].closed = TRUE]
    /\ UNCHANGED moment
    /\ Reindex(l)

\* attest_sale: append_stock_consumed does not look at the stock that is left.
SaleAttested(l) ==
    /\ l \in DOMAIN listed /\ listed[l].sold < MaxSales
    /\ listed' = [listed EXCEPT ![l].sold = @ + 1]
    /\ UNCHANGED moment
    /\ Reindex(l)

\* do_expire_listings: a close record for each, and out of the index whether or
\* not that could be appended.
ExpireListings ==
    LET gone == {l \in DOMAIN listed : ListingState(l) = "expired"}
    IN  /\ gone # {}
        /\ \E appended \in SUBSET gone :
             listed' = [l \in DOMAIN listed |->
                          [listed[l] EXCEPT !.closed = @ \/ l \in appended]]
        /\ UNCHANGED moment
        /\ Removed(gone)

\* Core::run begins with rebuild_listing_index.
Restart ==
    /\ table' = RebuiltTable /\ docs' = RebuiltDocs /\ stale' = {}
    /\ UNCHANGED <<listed, moment, misses>>

\* It fails half-way: the table was emptied first, and refilled up to some
\* listing; nothing of the text index was committed.
RestartHalfway ==
    /\ misses < MaxMisses /\ misses' = misses + 1
    /\ \E filled \in SUBSET DOMAIN listed : table' = [l \in filled |-> RowOf(l)]
    /\ stale' = DOMAIN listed
    /\ UNCHANGED <<listed, docs, moment>>

Moment ==
    /\ moment < LastMoment /\ moment' = moment + 1
    /\ UNCHANGED <<listed, table, docs, stale, misses>>
-----------------------------------------------------------------------------
BrowseInit ==
    /\ listed = <<>> /\ table = <<>> /\ docs = {} /\ stale = {}
    /\ moment = 0 /\ misses = 0

BrowseNext ==
    \/ \E l \in Goods, p \in AskedPrices, u \in Expiries, n \in Units :
         Publish(l, p, u, n) \/ Edit(l, p, u, n)
    \/ \E l \in Goods : CloseListing(l) \/ SaleAttested(l)
    \/ ExpireListings
    \/ Restart \/ RestartHalfway
    \/ Moment

BrowseSpec == BrowseInit /\ [][BrowseNext]_browseVars
-----------------------------------------------------------------------------
\* Browse shows the log: of every listing whose last index write went through, a
\* search without a text returns exactly those on offer now, as they now read,
\* whatever was edited, sold, swept, rebuilt or ran out since the row was
\* written.  A text that matches such a listing finds it too, unless the index
\* ranks above it a listing that the filters hide: the text half is cut to as
\* many places as there are candidates, and hidden ones may fill them.
BrowseIsTheLog ==
    \A limit \in AskedPrices : \A l \in DOMAIN listed \ stale :
      LET wanted == l \in OnOffer /\ listed[l].price <= limit
          better == {k \in docs \cap DOMAIN Relevance : Relevance[k] > Relevance[l]}
      IN  /\ l \in Candidates(table, limit) <=> wanted
          /\ wanted => table[l] = RowOf(l)
          /\ wanted /\ l \in DOMAIN Relevance /\ better \subseteq Candidates(table, limit)
             => l \in TextHits(table, docs, limit)
=============================================================================
