------------------------------ MODULE Replica -------------------------------
(***************************************************************************)
(* A read-replica pulling its writer's log over the peer port (gossip.rs,  *)
(* core.do_log_range, core.do_append_entries, AppendLog).                  *)
(*                                                                         *)
(* A round is a handshake that reads the writer's tail, then pages from a  *)
(* cursor the replica keeps in memory, each a connection of its own that   *)
(* may fail.  The writer goes on appending between any two of them, its    *)
(* operator edits the replica allowlist, and it may be restored from an    *)
(* older copy of its database; the replica may stop and start.             *)
(*                                                                         *)
(* An entry is known by its content hash.  Admission stamps are Ledger's   *)
(* subject and the browse index of listings is derived from the log.       *)
(***************************************************************************)
EXTENDS Integers, Sequences, FiniteSets, FiniteSetsExt, SequencesExt

CONSTANTS
    LogEntries,     \* entries the writer's log may come to hold
    Unverifiable,   \* those whose signature does not verify (bytes damaged)
    Size,           \* payload bytes of an entry
    PageBytes,      \* MAX_LOG_RANGE_PAGE_BYTES
    PageEntries,    \* MAX_LOG_RANGE_ENTRIES
    PagesPerRound,  \* MAX_PAGES_PER_ROUND
    MaxWriterRestores, MaxReplicaStops, MaxPeerFaults   \* bounds of the model

ASSUME ReplicaAssumption ==
    /\ Unverifiable \subseteq LogEntries
    /\ Size \in [LogEntries -> Nat \ {0}]
    /\ {PageEntries, PagesPerRound} \subseteq Nat \ {0}

VARIABLES
    served,     \* the writer's log
    allowed,    \* the replica's address is in the writer's [network] replicas
    held,       \* the replica's log
    pull,       \* the replica's cursor: the next seq to fetch
    round,      \* the gossip round in progress
    reachable,  \* ConnectivityState: outcome of the last round
    warned,     \* refused_by: the refusal has been reported
    eclipsed,   \* the writer was cut back below the cursor, and no round rewound
    peerFaults  \* restores, stops, faults so far

replicaVars == <<served, allowed, held, pull, round, reachable, warned, eclipsed,
                 peerFaults>>

NoRound == [phase |-> "idle"]

Pulling(tail, pages) == [phase |-> "pull", tail |-> tail, pages |-> pages]
Paged(tail, pages, page) ==
    [phase |-> "page", tail |-> tail, pages |-> pages, page |-> page]

Verifies(e) == e \notin Unverifiable
Held        == ToSet(held)

ReplicaInit ==
    /\ served = <<>>  /\ held = <<>>
    /\ allowed \in BOOLEAN
    /\ pull = 1  /\ round = NoRound
    /\ reachable = FALSE  /\ warned = FALSE  /\ eclipsed = FALSE
    /\ peerFaults = [restore |-> 0, stop |-> 0, fault |-> 0]

Strike(kind, max) ==
    /\ peerFaults[kind] < max
    /\ peerFaults' = [peerFaults EXCEPT ![kind] = @ + 1]
-----------------------------------------------------------------------------
(* The writer.                                                             *)

\* AppendLog::append on the writer.
WriterAppends(e) ==
    /\ e \notin ToSet(served)
    /\ served' = Append(served, e)
    /\ UNCHANGED <<allowed, held, pull, round, reachable, warned, eclipsed, peerFaults>>

\* The first seq beyond what the replica has pulled, or is about to apply.
Reach == IF round.phase = "page" THEN round.page.next ELSE pull

\* The operator restores the writer from a backup that holds the first n entries.
WriterRestored(n) ==
    /\ n < Len(served)
    /\ Strike("restore", MaxWriterRestores)
    /\ served' = SubSeq(served, 1, n)
    /\ eclipsed' = (eclipsed \/ n < Reach - 1)
    /\ UNCHANGED <<allowed, held, pull, round, reachable, warned>>

\* The operator lists the replica, or takes it off the list.
ListReplica ==
    /\ ~allowed  /\ allowed' = TRUE
    /\ UNCHANGED <<served, held, pull, round, reachable, warned, eclipsed, peerFaults>>

UnlistReplica ==
    /\ allowed  /\ Strike("fault", MaxPeerFaults)
    /\ allowed' = FALSE
    /\ UNCHANGED <<served, held, pull, round, reachable, warned, eclipsed>>

\* range_within: entries from..to, at most PageEntries and PageBytes of them, but
\* the first one whatever its size.
Bytes(from, to) ==
    LET sum[i \in (from - 1) .. to] ==
            IF i < from THEN 0 ELSE sum[i - 1] + Size[served[i]]
    IN  sum[to]

\* Slip in Fits: the budget holds for the first entry too.
FitsStrictly(from, to) == Bytes(from, to) <= PageBytes

Fits(from, to) == to = from \/ Bytes(from, to) <= PageBytes

\* do_log_range: the page, and the seq after its last entry.
LogRange(from, to) ==
    LET last  == Min({to, Len(served), from + PageEntries - 1})
        ends  == {i \in from .. last : Fits(from, i)}
        end   == IF ends = {} THEN from - 1 ELSE Max(ends)
    IN  [entries |-> SubSeq(served, from, end), next |-> end + 1]
-----------------------------------------------------------------------------
(* The replica's gossip loop.                                              *)

\* The loop records the outcome of a round with this peer.
RoundOver(ok) ==
    /\ round' = NoRound
    /\ reachable' = ok
    /\ warned' = (warned /\ ~ok)

\* rewind_if_shrunk
Rewound(tail) == IF tail < pull - 1 THEN 1 ELSE pull

\* peer_handshake: the writer's tail now.
Handshake ==
    /\ round = NoRound  /\ allowed
    /\ pull' = Rewound(Len(served))
    /\ eclipsed' = (eclipsed /\ pull' = pull)
    /\ round' = Pulling(Len(served), 0)
    /\ UNCHANGED <<served, allowed, held, reachable, warned, peerFaults>>

\* A call the gate refuses ends the round; the operator is warned once.
Refused ==
    /\ round.phase \in {"idle", "pull"}  /\ ~allowed
    /\ round' = NoRound  /\ reachable' = FALSE  /\ warned' = TRUE
    /\ UNCHANGED <<served, allowed, held, pull, eclipsed, peerFaults>>

\* A connect, an exchange or a read fails or times out.
CallFails ==
    /\ round.phase \in {"idle", "pull"}
    /\ Strike("fault", MaxPeerFaults)
    /\ round' = NoRound  /\ reachable' = FALSE
    /\ UNCHANGED <<served, allowed, held, pull, warned, eclipsed>>

MorePages == round.phase = "pull" /\ pull <= round.tail /\ round.pages < PagesPerRound

\* log_range answers with a page; an empty one ends the round.
FetchPage ==
    /\ MorePages  /\ allowed
    /\ LET page == LogRange(pull, round.tail)
       IN  IF page.entries = <<>>
           THEN RoundOver(TRUE)
           ELSE /\ round' = Paged(round.tail, round.pages, page)
                /\ UNCHANGED <<reachable, warned>>
    /\ UNCHANGED <<served, allowed, held, pull, eclipsed, peerFaults>>

RoundEnds ==
    /\ round.phase = "pull"  /\ ~MorePages
    /\ RoundOver(TRUE)
    /\ UNCHANGED <<served, allowed, held, pull, eclipsed, peerFaults>>

\* append_raw over the first k entries of a page, one after another: what does
\* not verify and what is held is skipped.
Appended(entries, k) ==
    LET log[i \in 0 .. k] ==
            IF i = 0 THEN held
            ELSE IF Verifies(entries[i]) /\ entries[i] \notin ToSet(log[i - 1])
                 THEN Append(log[i - 1], entries[i])
                 ELSE log[i - 1]
    IN  log[k]

\* do_append_entries applies the page and the cursor passes it.
ApplyPage ==
    /\ round.phase = "page"
    /\ held' = Appended(round.page.entries, Len(round.page.entries))
    /\ pull' = round.page.next
    /\ round' = Pulling(round.tail, round.pages + 1)
    /\ UNCHANGED <<served, allowed, reachable, warned, eclipsed, peerFaults>>

\* Slip in PulledTo: the cursor passes a page that was applied in part.
PulledToPage == round.page.next

\* Where the cursor stands after a page that was applied in part.
PulledTo == pull

\* A storage failure after k entries of the page: the round fails.
ApplyFails(k) ==
    /\ round.phase = "page"  /\ k < Len(round.page.entries)
    /\ Strike("fault", MaxPeerFaults)
    /\ held' = Appended(round.page.entries, k)
    /\ pull' = PulledTo
    /\ round' = NoRound  /\ reachable' = FALSE
    /\ UNCHANGED <<served, allowed, warned, eclipsed>>

\* The replica stops, or crashes, and starts again: cursor and health are
\* memory, the log is not.
ReplicaRestarts ==
    /\ Strike("stop", MaxReplicaStops)
    /\ pull' = 1  /\ round' = NoRound
    /\ reachable' = FALSE  /\ warned' = FALSE  /\ eclipsed' = FALSE
    /\ UNCHANGED <<served, allowed, held>>

ReplicaNext ==
    \/ \E e \in LogEntries : WriterAppends(e)
    \/ \E n \in 0 .. Len(served) : WriterRestored(n)
    \/ ListReplica \/ UnlistReplica
    \/ Handshake \/ Refused \/ CallFails \/ FetchPage \/ RoundEnds \/ ApplyPage
    \/ \E k \in 0 .. PageEntries : ApplyFails(k)
    \/ ReplicaRestarts

\* The ticker starts rounds for ever and every call of a round is bounded by a
\* timeout; faults are finitely many.
ReplicaFairness == WF_replicaVars(Handshake \/ FetchPage \/ RoundEnds \/ ApplyPage)

ReplicaSpec == ReplicaInit /\ [][ReplicaNext]_replicaVars /\ ReplicaFairness
-----------------------------------------------------------------------------
(* Properties.                                                             *)

\* Every verifiable entry the writer serves below the replica's cursor is in
\* the replica's log, whatever pages failed half-way (gossip.rs: "the cursor
\* advances past a page only once the core reports it fully applied"), unless
\* a restored writer grew past the cursor again before a round could see that
\* its log had shrunk.
PulledIsHeld ==
    eclipsed \/ \A i \in 1 .. Min({pull - 1, Len(served)}) :
                    Verifies(served[i]) => served[i] \in Held

\* While the operator lists the replica, whatever the writer serves reaches it,
\* or is taken back by a restore of the writer; an entry larger than a page
\* must not block the pull.
ReplicaCatchesUp ==
    <>[]allowed =>
        \A e \in LogEntries \ Unverifiable :
            e \in ToSet(served) ~> (e \in Held \/ e \notin ToSet(served) \/ eclipsed)
=============================================================================
