------------------------------- MODULE MCDtn --------------------------------
(***************************************************************************)
(* Small instances of Dtn: one member, one writer station.                 *)
(***************************************************************************)
EXTENDS Dtn

\* The proposals are alike until they are signed.
PaySymmetry == Permutations(Pays)

Whole(b) == \A i \in DOMAIN b : b[i].intact

\* Three stories in one run: how answers change and travel, with every bundle
\* handed over at once; how bundles travel, one entry to a bundle and at most one
\* proposal dead; and how damaged bundles travel and what is answered to them.
OneStory ==
    \/ /\ bags' = {} /\ restores' = 0 /\ crashes' = 0
       /\ Cardinality(signed' \cap Pays) <= 1
    \/ /\ mail' = {} /\ errands' = 0
       /\ signed' \cap Notes = {}
       /\ Cardinality({r \in Records : fate'[r] = "dead"}) <= 1
       /\ \A b \in bags' : Len(b) = 1
       /\ \A b \in bags' \cup DOMAIN receipts' : Whole(b)
       /\ job'.phase # "idle" => Len(job'.bundle) = 1
    \/ /\ restores' = 0 /\ crashes' = 0 /\ errands' = 0
       /\ signed' \cap Notes = {} /\ Cardinality(signed') <= 2
       /\ Cardinality(DOMAIN receipts') <= 2
       /\ \A r \in signed' : fate'[r] = "live"

\* Nothing reads the fate of a record before it is signed.
FateLater == \A r \in Records : fate'[r] = fate[r] \/ r \in signed
=============================================================================
