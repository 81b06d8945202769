------------------------------ MODULE MCBrowse ------------------------------
(***************************************************************************)
(* A small instance of Browse: two listings that match the text, the first *)
(* better.  The second is never dear nor short of stock.                   *)
(***************************************************************************)
EXTENDS Browse, TLC

CONSTANTS g1, g2

MCRelevance == (g1 :> 2) @@ (g2 :> 1)

PlainSecond == g2 \in DOMAIN listed => listed[g2].price = 1 /\ listed[g2].units = 2

BrowseSmall == BrowseNext /\ PlainSecond'
=============================================================================
