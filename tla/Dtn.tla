-------------------------------- MODULE Dtn ---------------------------------
(***************************************************************************)
(* Store-and-forward submission (DTN) between one member's wallet and the  *)
(* community's writer station: the wallet's outbox chain (rrn-cli wallet,  *)
(* OutboxStore), bundles and receipts in the hands of carriers, and the    *)
(* station's ingest, receipt store and delivery queue (core.ingest_bundle, *)
(* DtnStore).                                                              *)
(*                                                                         *)
(* Carriers promise nothing: a bundle or a receipt they hold may arrive    *)
(* any number of times, in any order, or never, and an entry of a bundle   *)
(* may be damaged on the way (its signature no longer verifies; its record *)
(* still reads, and so does its hash).  The station's core thread          *)
(* runs one ingest at a time, but every write of it is a transaction of    *)
(* its own, so an ingest is a job of several steps that a crash may cut    *)
(* short after any of them.  The wallet's steps touch nothing the station  *)
(* touches and commute with the steps of a job: they wait for it here.     *)
(*                                                                         *)
(* A record is a payment proposal, which takes the wallet's next nonce, or *)
(* a note: any record without a nonce (confirmation, dispute, ballot...).  *)
(* What the engine behind the front door thinks of a record is the         *)
(* environment's choice: `fate' for what lasts, a coin for the debt floor. *)
(***************************************************************************)
EXTENDS Integers, Sequences, FiniteSets, FiniteSetsExt, SequencesExt

CONSTANTS
    Pays,         \* proposals the member may sign
    Notes,        \* nonce-free records the member may sign
    MaxBundle,    \* MAX_BUNDLE_ENTRIES
    MaxRestores,  \* bound of the model: times the wallet is restored
    MaxCrashes,   \* bound of the model: crashes of the wallet or the station
    MaxBags,      \* bound of the model: bundles couriers hold at once
    MaxMail,      \* bound of the model: receipts carriers hold at once
    MaxErrands,   \* bound of the model: author's fetches and retention sweeps
    MaxDamage     \* bound of the model: damaged entries couriers hold at once

ASSUME RecordsAssumption == Pays \cap Notes = {} /\ IsFiniteSet(Pays \cup Notes)
ASSUME BoundsAssumption ==
    /\ MaxBundle \in Nat \ {0}
    /\ {MaxRestores, MaxCrashes, MaxBags, MaxMail, MaxErrands, MaxDamage} \subseteq Nat

VARIABLES
    rows,      \* wallet: outbox_entries, from position to entry and ack
    chain,     \* wallet: meta chain_state
    cursor,    \* wallet: meta nonce_cursor
    syncing,   \* wallet: a sync is between its head and its nonce call
    signed,    \* records ever signed (a record is signed once)
    restores,  \* how often the wallet has been restored from its seed
    top,       \* highest position the station had seen at the last re-anchor
    bags,      \* bundles in couriers' hands
    mail,      \* receipts in carriers' hands
    seen,      \* station: seen_outbox_entries, from position to entry
    forks,     \* station: positions in outbox_forks
    equivs,    \* station: positions with a fork equivocation in the log
    log,       \* station: records admitted
    receipts,  \* station: issued_receipts, from presentation to outcomes
    queue,     \* station: receipt_deliveries, from record to its row
    told,      \* a history: records whose verdict was in a page the author was served
    job,       \* station: the ingest in progress
    fate,      \* environment: what the engine would make of each record
    crashes,   \* how many crashes have happened
    errands    \* how many fetches and sweeps have happened

wallet  == <<rows, chain, cursor, syncing, signed, restores, top>>
ingest  == <<seen, forks, equivs, log, receipts, queue, told, job>>
carried == <<bags, mail>>
count   == <<crashes, errands>>
vars    == <<wallet, ingest, carried, fate, count>>

Records   == Pays \cup Notes
Positions == 0 .. (Cardinality(Records) - 1)

\* A signed outbox entry: its hash covers the first three, and outbox::validate
\* accepts it while it is intact.  The nonce is the proposal's; a note has none.
Entries == [pos : Positions, rec : Records, nonce : Nat, intact : BOOLEAN]

\* What a receipt says of a record: "never" and "later" are refusals whose
\* reason is final or may change, "fork" is the final refusal OutboxFork, and
\* "bad" the final refusal BadSignature, of this copy of the record.
Dispositions == {"admitted", "known", "never", "later", "fork", "bad"}

IsFinal(disp) == disp # "later"

Outcomes == [rec : Records, disp : Dispositions]

\* The records whose own fate a receipt says: a verdict, not "later", and not
\* about a damaged copy.
Decided(outs) == {outs[i].rec : i \in {j \in DOMAIN outs : outs[j].disp \notin {"later", "bad"}}}

ReceiptIsFinal(outs) == \A i \in DOMAIN outs : IsFinal(outs[i].disp)

\* acked_outcome of an outbox row; "anchor" is the stand-in row of a
\* restore, acked but carrying no record.
Acks == Dispositions \cup {"pending", "abandoned", "anchor"}

NoJob == [phase |-> "idle"]

Idle == job = NoJob

\* The carriers gain what is in `new' and keep no more than `max' of it all.
Keep(held, new, max) ==
    LET all == held \cup new
    IN  kSubset(IF Cardinality(all) < max THEN Cardinality(all) ELSE max, all)

-----------------------------------------------------------------------------
(* The wallet's outbox.                                                    *)

NoRows == [p \in {} |-> NoJob]

HasHead == DOMAIN rows # {}
Head_   == Max(DOMAIN rows)

NextPosition == IF HasHead THEN Head_ + 1 ELSE 0

IsPending(p)     == rows[p].ack = "pending"
PendingPositions == {p \in DOMAIN rows : IsPending(p)}
PendingRecords   == {rows[p].entry.rec : p \in PendingPositions}

\* The pending entries in the order of their positions: k of them at most, and
\* never more than MAX_BUNDLE_ENTRIES.
PendingBundle(k) ==
    LET cap == IF k < MaxBundle THEN k ELSE MaxBundle
        taken[n \in 0 .. cap] ==
            IF n = 0 THEN <<>>
            ELSE LET sofar == taken[n - 1]
                     later == {p \in PendingPositions : \A i \in DOMAIN sofar : sofar[i].pos < p}
                 IN  IF later = {} THEN sofar ELSE Append(sofar, rows[Min(later)].entry)
    IN  taken[cap]

HasPendingProposals == PendingRecords \cap Pays # {}

\* Slip: everything acked goes, the head too.
PrunedEmpty(rs) == [p \in {q \in DOMAIN rs : rs[q].ack = "pending"} |-> rs[p]]

\* prune_acked: drops what is acked below the first pending row; with
\* nothing pending, all but the head.
Pruned(rs) ==
    LET pending == {p \in DOMAIN rs : rs[p].ack = "pending"}
        floor   == IF pending # {} THEN Min(pending)
                   ELSE IF DOMAIN rs # {} THEN Max(DOMAIN rs) ELSE 0
    IN  [p \in {q \in DOMAIN rs : q >= floor} |-> rs[p]]
-----------------------------------------------------------------------------
(* The wallet's commands.                                                  *)

\* require_signable, and a record not signed before.
Signable(r) == Idle /\ chain # "unknown" /\ r \notin signed

Appended(r, nonce) ==
    LET entry == [pos |-> NextPosition, rec |-> r, nonce |-> nonce, intact |-> TRUE]
    IN  [p \in DOMAIN rows \cup {NextPosition} |->
            IF p = NextPosition THEN [entry |-> entry, ack |-> "pending"] ELSE rows[p]]

\* cmd_pay: append the entry, then advance the cursor.
SignPay(r) ==
    /\ r \in Pays /\ Signable(r)
    /\ rows' = Appended(r, cursor)
    /\ cursor' = cursor + 1
    /\ signed' = signed \cup {r}
    /\ syncing' = FALSE
    /\ UNCHANGED <<chain, restores, top, ingest, carried, fate, count>>

\* The wallet dies after the append and before the cursor write.
SignPayCrash(r) ==
    /\ r \in Pays /\ Signable(r) /\ crashes < MaxCrashes
    /\ rows' = Appended(r, cursor)
    /\ signed' = signed \cup {r}
    /\ crashes' = crashes + 1
    /\ syncing' = FALSE
    /\ UNCHANGED <<cursor, chain, restores, top, ingest, carried, fate, errands>>

\* cmd_confirm and every other signing command without a nonce.
SignNote(r) ==
    /\ r \in Notes /\ Signable(r)
    /\ rows' = Appended(r, 0)
    /\ signed' = signed \cup {r}
    /\ syncing' = FALSE
    /\ UNCHANGED <<chain, cursor, restores, top, ingest, carried, fate, count>>

\* cmd_export: a bundle file or its QR codes go to a courier.
Export(k) ==
    /\ Idle /\ PendingPositions # {}
    /\ bags' \in Keep(bags, {PendingBundle(k)}, MaxBags)
    /\ syncing' = FALSE
    /\ UNCHANGED <<rows, chain, cursor, signed, restores, top, ingest, mail,
                   fate, count>>

\* cmd_abandon: a proposal's nonce is in flight, so it cannot be abandoned.
Abandon(p) ==
    /\ Idle /\ p \in PendingPositions
    /\ rows[p].entry.rec \in Notes
    /\ rows' = [rows EXCEPT ![p].ack = "abandoned"]
    /\ syncing' = FALSE
    /\ UNCHANGED <<chain, cursor, signed, restores, top, ingest, carried,
                   fate, count>>

\* cmd_recover, init --restore: a new device that knows only the seed.
Restore ==
    /\ Idle /\ restores < MaxRestores
    /\ rows' = NoRows
    /\ chain' = "unknown"
    /\ cursor' = 0
    /\ restores' = restores + 1
    /\ syncing' = FALSE
    /\ UNCHANGED <<signed, top, ingest, carried, fate, count>>

\* Row p of rs after the receipt's outcomes: a refusal that may change
\* leaves a note pending, an abandoned row yields to an admission only, and
\* any other acked row keeps its first answer.
AckedRow(row, outs) ==
    LET disps == {outs[i].disp : i \in {j \in DOMAIN outs : outs[j].rec = row.entry.rec}}
        takes == {d \in disps :
                    \/ row.ack = "pending" /\ (IsFinal(d) \/ row.entry.rec \in Pays)
                    \/ row.ack = "abandoned" /\ d \in {"admitted", "known"}}
    IN  IF takes = {} THEN row ELSE [row EXCEPT !.ack = CHOOSE d \in takes : TRUE]

\* apply_receipt_bytes: every outcome, then prune_acked.
Applied(outs) == Pruned([p \in DOMAIN rows |-> AckedRow(rows[p], outs)])

\* cmd_receipts_apply, or the page of a fetch.
ApplyReceipt(outs) ==
    /\ Idle /\ outs \in mail
    /\ rows' = Applied(outs)
    /\ syncing' = FALSE
    /\ UNCHANGED <<chain, cursor, signed, restores, top, ingest, carried,
                   fate, count>>

-----------------------------------------------------------------------------
(* cmd_sync: learn the station's view of the chain, then its next nonce.   *)

HighestSeen == Max(DOMAIN seen)
NextNonce   == Cardinality(log \cap Pays)

\* The position a wallet without a chain re-anchors on.
AnchorPosition == HighestSeen

\* No local chain, and the station knows this key.
SyncAnchor ==
    /\ Idle /\ ~HasHead /\ DOMAIN seen # {}
    /\ LET p == AnchorPosition
       IN  rows' = [q \in {p} |-> [entry |-> seen[p], ack |-> "anchor"]]
    /\ chain' = "anchored"
    /\ top' = HighestSeen
    /\ syncing' = TRUE
    /\ UNCHANGED <<cursor, signed, restores, ingest, carried, fate, count>>

\* A local chain, and the station has seen the author: behind or at odds
\* with it, the wallet may sign no more.
SyncHead ==
    /\ Idle /\ HasHead /\ DOMAIN seen # {}
    /\ chain' = IF \/ HighestSeen > Head_
                   \/ HighestSeen = Head_ /\ seen[Head_] # rows[Head_].entry
                THEN "unknown" ELSE "anchored"
    /\ syncing' = TRUE
    /\ UNCHANGED <<rows, cursor, signed, restores, top, ingest, carried, fate,
                   count>>

\* The station has seen nothing: only a chain that never was restored goes
\* on, and it stays as it is.  A restored wallet without rows is told it is
\* blocked and goes on to the nonce, too; one with rows is turned away.
SyncUnseen ==
    /\ Idle /\ DOMAIN seen = {}
    /\ ~(HasHead /\ chain = "unknown")
    /\ syncing' = TRUE
    /\ UNCHANGED <<rows, chain, cursor, signed, restores, top, ingest, carried,
                   fate, count>>

ReconciledCursor ==
    IF HasPendingProposals THEN Max({NextNonce, cursor}) ELSE NextNonce

SyncNonce ==
    /\ Idle /\ syncing
    /\ cursor' = ReconciledCursor
    /\ syncing' = FALSE
    /\ UNCHANGED <<rows, chain, signed, restores, top, ingest, carried, fate,
                   count>>
-----------------------------------------------------------------------------
(* ingest_bundle: one job, in the order of its writes.                     *)

Job(b, online, at, outs, phase) ==
    [bundle |-> b, online |-> online, at |-> at, outs |-> outs, phase |-> phase]

\* Slip: a stored answer is served again though it may have changed.
ServesStoredAlways(b) == b \in DOMAIN receipts

\* A stored answer is re-issued verbatim when nothing in it can change.
ServesStored(b) == b \in DOMAIN receipts /\ ReceiptIsFinal(receipts[b])

\* A bundle reaches the station: by a courier, or online from the wallet.
Present(b, online) ==
    /\ Idle
    /\ job' = IF ServesStored(b) THEN Job(b, online, Len(b), receipts[b], "reply")
              ELSE Job(b, online, 1, <<>>, "entries")
    /\ UNCHANGED <<wallet, seen, forks, equivs, log, receipts, queue, told, carried,
                   fate, count>>

\* A carrier's copy of a bundle with one entry damaged: another presentation,
\* since the presentation key covers the signatures.
Damage(b, i) ==
    /\ Idle /\ b \in bags
    /\ Cardinality(UNION {{<<c, j>> : j \in {k \in DOMAIN c : ~c[k].intact}} : c \in bags})
         < MaxDamage
    /\ bags' \in Keep(bags, {[b EXCEPT ![i].intact = FALSE]}, MaxBags)
    /\ UNCHANGED <<wallet, ingest, mail, fate, count>>

CourierPresents(b) == b \in bags /\ Present(b, FALSE)

\* cmd_submit, over the sealed channel.
Submit(k) == PendingPositions # {} /\ Present(PendingBundle(k), TRUE)

Entry == job.bundle[job.at]

\* The entry's outcome is settled: on to the next entry, or to the receipt.
Settled(disp) ==
    LET last == job.at = Len(job.bundle)
    IN  Job(job.bundle, job.online, IF last THEN job.at ELSE job.at + 1,
            Append(job.outs, [rec |-> Entry.rec, disp |-> disp]),
            IF last THEN "finish" ELSE "entries")

AtEntry == job.phase = "entries" /\ Entry.intact

\* outbox::validate fails: refused for good, and neither the chain nor the log
\* is looked at.
RefuseDamaged ==
    /\ job.phase = "entries" /\ ~Entry.intact
    /\ job' = Settled("bad")
    /\ UNCHANGED <<wallet, seen, forks, equivs, log, receipts, queue, told, carried, fate,
                   count>>

IsFork == Entry.pos \in DOMAIN seen /\ seen[Entry.pos] # Entry

\* note_entry: a position not seen before is recorded, and never replaced.
Noted ==
    [p \in DOMAIN seen \cup {Entry.pos} |-> IF p \in DOMAIN seen THEN seen[p] ELSE Entry]

\* Slip: no look at the log before the front door.
AlreadyLoggedSkipped(r) == FALSE

AlreadyLogged(r) == r \in log

\* route_dtn_record: what the engine's front door may answer to a record it
\* is handed.  A note that already took effect finds its transaction closed.
FrontDoor(e) ==
    IF fate[e.rec] = "dead" \/ e.rec \in log THEN {"never"}
    ELSE IF fate[e.rec] = "waiting" \/ (e.rec \in Pays /\ e.nonce # NextNonce) THEN {"later"}
    ELSE IF e.rec \in Notes THEN {"admitted"}
    ELSE {"admitted", "later"}

\* An entry that is new, or the one seen before: note it, answer from the
\* log if its record is there, and hand it to the front door otherwise.
TakeEntry ==
    /\ AtEntry /\ ~IsFork
    /\ seen' = Noted
    /\ \E disp \in IF AlreadyLogged(Entry.rec) THEN {"known"} ELSE FrontDoor(Entry) :
        /\ job' = Settled(disp)
        /\ log' = IF disp = "admitted" THEN log \cup {Entry.rec} ELSE log
    /\ UNCHANGED <<wallet, forks, equivs, receipts, queue, told, carried, fate, count>>

\* record_fork, then record_fork_equivocation: one proof for each position,
\* written now unless it is already there.
FoundForks == forks \cup {Entry.pos}

\* Slip: the proof is written only by whoever finds the fork first.
FoundEquivsOnce == IF Entry.pos \in forks THEN equivs ELSE equivs \cup {Entry.pos}

FoundEquivs == equivs \cup {Entry.pos}

RefuseFork ==
    /\ AtEntry /\ IsFork
    /\ forks' = FoundForks
    /\ equivs' = FoundEquivs
    /\ job' = Settled("fork")
    /\ UNCHANGED <<wallet, seen, log, receipts, queue, told, carried, fate, count>>

\* put_receipt replaces whatever was stored for this presentation.
Stored ==
    [b \in DOMAIN receipts \cup {job.bundle} |->
        IF b = job.bundle THEN job.outs ELSE receipts[b]]

\* The first n outcomes that may have a delivery row: only an entry that passed
\* outbox::validate names its author.
Attested(n) ==
    [r \in {job.outs[i].rec : i \in {j \in 1 .. n : job.outs[j].disp # "bad"}} |->
        CHOOSE out \in Range(job.outs) : out.rec = r]

\* Slip: a row pointed at a new receipt is not armed again.
QueuedStillConfirmed(n) ==
    LET mine == Attested(n)
    IN  [r \in DOMAIN queue \cup DOMAIN mine |->
            IF r \notin DOMAIN mine \/ (r \in DOMAIN queue /\ queue[r].final) THEN queue[r]
            ELSE [bundle |-> job.bundle, final |-> IsFinal(mine[r].disp),
                  confirmed |-> r \in DOMAIN queue /\ queue[r].confirmed]]

\* record_receipt_delivery for the first n outcomes: a final row is left
\* alone, any other is pointed at this receipt and armed again.
Queued(n) ==
    LET mine == Attested(n)
    IN  [r \in DOMAIN queue \cup DOMAIN mine |->
            IF r \notin DOMAIN mine \/ (r \in DOMAIN queue /\ queue[r].final) THEN queue[r]
            ELSE [bundle |-> job.bundle, final |-> IsFinal(mine[r].disp),
                  confirmed |-> FALSE]]

FinishIngest ==
    /\ job.phase = "finish"
    /\ receipts' = Stored
    /\ queue' = Queued(Len(job.outs))
    /\ job' = [job EXCEPT !.phase = "reply"]
    /\ UNCHANGED <<wallet, seen, forks, equivs, log, told, carried, fate, count>>

\* The receipt leaves the station and may reach no one at once.
Reply ==
    /\ job.phase = "reply"
    /\ mail' \in Keep(mail, {job.outs}, MaxMail)
    /\ job' = NoJob
    /\ UNCHANGED <<wallet, seen, forks, equivs, log, receipts, queue, told, bags, fate,
                   count>>

\* cmd_submit gets the answer to its call and applies it.
ReplyOnline ==
    /\ job.phase = "reply" /\ job.online
    /\ rows' = Applied(job.outs)
    /\ job' = NoJob
    /\ syncing' = FALSE
    /\ UNCHANGED <<chain, cursor, signed, restores, top, seen, forks, equivs, log,
                   receipts, queue, told, carried, fate, count>>

\* The station dies inside the ingest, before the step it was about to take
\* or part way through its writes: what is written stays, the rest is lost.
Crash ==
    /\ ~Idle /\ crashes < MaxCrashes
    /\ job' = NoJob
    /\ crashes' = crashes + 1
    /\ UNCHANGED <<wallet, told, carried, fate, errands>>

CrashBetween ==
    Crash /\ UNCHANGED <<seen, forks, equivs, log, receipts, queue>>

CrashAfterNote ==
    /\ Crash /\ AtEntry /\ ~IsFork
    /\ seen' = Noted
    /\ UNCHANGED <<forks, equivs, log, receipts, queue>>

CrashAfterFork ==
    /\ Crash /\ AtEntry /\ IsFork
    /\ forks' = FoundForks
    /\ UNCHANGED <<seen, equivs, log, receipts, queue>>

CrashInFinish(n) ==
    /\ Crash /\ job.phase = "finish" /\ n < Len(job.outs)
    /\ receipts' = Stored
    /\ queue' = Queued(n)
    /\ UNCHANGED <<seen, forks, equivs, log>>

CrashIngest ==
    \/ CrashBetween \/ CrashAfterNote \/ CrashAfterFork
    \/ \E n \in 0 .. MaxBundle : CrashInFinish(n)

-----------------------------------------------------------------------------
(* Receipts on their way back, and the environment.                        *)

Unconfirmed == {r \in DOMAIN queue : ~queue[r].confirmed}
DueReceipts == {receipts[queue[r].bundle] : r \in Unconfirmed}

\* receipts_fetch of a courier: counts, never confirms.
CourierFetch ==
    /\ Idle /\ Unconfirmed # {}
    /\ mail' \in Keep(mail, DueReceipts, MaxMail)
    /\ UNCHANGED <<wallet, ingest, bags, fate, count>>

\* receipts_fetch of the author: the whole page is marked confirmed before
\* the reply leaves, and the reply may be lost.
AuthorFetch ==
    /\ Idle /\ Unconfirmed # {} /\ errands < MaxErrands
    /\ errands' = errands + 1
    /\ queue' = [r \in DOMAIN queue |-> [queue[r] EXCEPT !.confirmed = TRUE]]
    /\ told' = told \cup UNION {Decided(outs) : outs \in DueReceipts}
    /\ mail' \in Keep(mail, DueReceipts, MaxMail) \cup {mail}
    /\ UNCHANGED <<wallet, seen, forks, equivs, log, receipts, job, bags, fate,
                   crashes>>

\* prune_delivered: the retention timer drops a row of either kind, the
\* unconfirmed ones later; the receipt itself is kept.
PruneDelivered(r) ==
    /\ Idle /\ r \in DOMAIN queue /\ errands < MaxErrands
    /\ errands' = errands + 1
    /\ queue' = [q \in DOMAIN queue \ {r} |-> queue[q]]
    /\ UNCHANGED <<wallet, seen, forks, equivs, log, receipts, told, job, carried, fate,
                   crashes>>

\* What a record waits for lands (the confirmation's proposal, a member's
\* enrollment), or it expires or is overtaken for good.
FateChanges(r) ==
    /\ Idle
    /\ \/ fate[r] = "waiting" /\ fate' = [fate EXCEPT ![r] = "live"]
       \/ fate[r] # "dead" /\ fate' = [fate EXCEPT ![r] = "dead"]
    /\ UNCHANGED <<wallet, ingest, carried, count>>
-----------------------------------------------------------------------------
Init ==
    /\ rows = NoRows /\ chain = "fresh" /\ cursor = 0 /\ syncing = FALSE
    /\ signed = {} /\ restores = 0 /\ top = -1
    /\ bags = {} /\ mail = {}
    /\ seen = NoRows /\ forks = {} /\ equivs = {} /\ log = {}
    /\ receipts = NoRows /\ queue = NoRows /\ told = {} /\ job = NoJob
    /\ fate \in [Records -> {"waiting", "live"}]
    /\ \A r \in Pays : fate[r] = "live"
    /\ crashes = 0 /\ errands = 0

WalletStep ==
    \/ \E r \in Records : SignPay(r) \/ SignPayCrash(r) \/ SignNote(r)
    \/ \E k \in 1 .. MaxBundle : Export(k) \/ Submit(k)
    \/ \E p \in DOMAIN rows : Abandon(p)
    \/ Restore
    \/ SyncAnchor \/ SyncHead \/ SyncUnseen \/ SyncNonce
    \/ \E outs \in mail : ApplyReceipt(outs)

IngestStep == RefuseDamaged \/ TakeEntry \/ RefuseFork \/ FinishIngest

ReturnStep ==
    \/ Reply \/ ReplyOnline \/ CourierFetch \/ AuthorFetch
    \/ \E r \in DOMAIN queue : PruneDelivered(r)

Next ==
    \/ WalletStep
    \/ \E b \in bags : CourierPresents(b) \/ \E i \in DOMAIN b : Damage(b, i)
    \/ IngestStep \/ ReturnStep \/ CrashIngest
    \/ \E r \in Records : FateChanges(r)

Spec == Init /\ [][Next]_vars

\* The core thread finishes what it started.  A member with pending records
\* submits all of them again and again, and now and then the answer to such
\* a call gets through.
Fairness ==
    /\ WF_vars(IngestStep)
    /\ WF_vars(Reply)
    /\ SF_vars(Submit(MaxBundle))
    /\ SF_vars(ReplyOnline /\ job.bundle = PendingBundle(MaxBundle))

FairSpec == Spec /\ Fairness

-----------------------------------------------------------------------------
(* What must hold.                                                         *)

Interval(S) == \A a, b \in S : (a .. b) \subseteq S

Bundles     == DOMAIN receipts \cup bags
OutcomeSeqs == mail \cup Range(receipts) \cup (IF Idle THEN {} ELSE {job.outs})

\* Every variable has its type; the wallet keeps an unbroken suffix of its
\* chain (prune_acked never punches holes), and an ingest's bookkeeping
\* stays in step with its bundle.
TypeOK ==
    /\ Interval(DOMAIN rows) /\ DOMAIN rows \subseteq Positions
    /\ \A p \in DOMAIN rows :
        /\ rows[p].entry \in Entries /\ rows[p].entry.pos = p /\ rows[p].entry.intact
        /\ rows[p].ack \in Acks
    /\ chain \in {"fresh", "anchored", "unknown"}
    /\ cursor \in Nat /\ top \in Positions \cup {-1}
    /\ syncing \in BOOLEAN
    /\ signed \subseteq Records /\ log \subseteq signed
    /\ restores \in 0 .. MaxRestores /\ crashes \in 0 .. MaxCrashes
    /\ errands \in 0 .. MaxErrands
    /\ \A b \in Bundles : b \in Seq(Entries) /\ Len(b) \in 1 .. MaxBundle
    /\ \A outs \in OutcomeSeqs : outs \in Seq(Outcomes)
    /\ DOMAIN seen \subseteq Positions
    /\ \A p \in DOMAIN seen : seen[p] \in Entries /\ seen[p].pos = p /\ seen[p].intact
    /\ equivs \subseteq forks /\ forks \subseteq DOMAIN seen
    /\ told \subseteq signed
    /\ \A r \in DOMAIN queue : r \in signed /\ queue[r].bundle \in DOMAIN receipts
    /\ ~Idle => /\ job.at \in 1 .. Len(job.bundle)
                /\ job.phase = "entries" => Len(job.outs) = job.at - 1
                /\ job.phase \in {"finish", "reply"} => Len(job.outs) = Len(job.bundle)

\* A receipt never lies, however late it is read: what it calls admitted or
\* known is in the log, and what it refuses for a final reason of the record's
\* own is not and never will be.  The same holds of what the wallet wrote down
\* from it.  A bad signature is a verdict on a copy: it is said of the damaged
\* entries of a presentation and of no other, and says nothing of the record,
\* whose genuine copy may be in the log already or get there later.
AnswersAreTrue ==
    LET True(rec, disp) == /\ disp \in {"admitted", "known"} => rec \in log
                           /\ disp \in {"never", "fork"} => rec \notin log
    IN  /\ \A outs \in OutcomeSeqs : \A i \in DOMAIN outs : True(outs[i].rec, outs[i].disp)
        /\ \A p \in DOMAIN rows : True(rows[p].entry.rec, rows[p].ack)
        /\ \A b \in DOMAIN receipts : \A i \in DOMAIN receipts[b] :
              receipts[b][i].disp = "bad" <=> ~b[i].intact

\* An honest wallet that was never restored leaves no fork at the station,
\* whatever the carriers, the member's abandons and crashes do; one that was
\* restored disagrees with the station only above the position it
\* re-anchored on.
HonestChain ==
    /\ restores = 0 => forks = {}
    /\ \A p \in DOMAIN rows \cap DOMAIN seen :
        seen[p] # rows[p].entry => restores > 0 /\ p > top

\* Whoever is told that a record forks the chain finds the evidence and the
\* signed proof at the station, though a crash may fall between the two
\* writes (record_fork, record_fork_equivocation).
ForksAreRecorded ==
    \A b \in DOMAIN receipts : \A i \in DOMAIN receipts[b] :
        receipts[b][i].disp = "fork" => b[i].pos \in forks \cap equivs

\* Every pending proposal, and every pending note once the station could
\* decide it, is eventually settled in the wallet: a stored receipt that can
\* still change never stands in the way of the answer.
EventuallyAnswered ==
    /\ \A r \in Pays : (r \in PendingRecords) ~> (r \notin PendingRecords)
    /\ \A r \in Notes : (r \in PendingRecords /\ fate[r] # "waiting")
                            ~> (r \notin PendingRecords)

-----------------------------------------------------------------------------
(* What the repository says of itself, and the code keeps only in part.     *)

\* rrn-cli wallet.rs: a wallet never forks its own chain, not even restored.
NoSelfFork == forks = {}

\* rrn-storage dtn.rs: a changed answer is delivered again.  While a row counts
\* as delivered, a verdict on its record in the receipt it points at has been in
\* a page the author was served: an answer that became final after a delivery
\* does not rest on the delivery of the one before.  It holds of an ingest that
\* ends; a crash between put_receipt and record_receipt_delivery breaks it for
\* good.
ChangedAnswerIsQueued ==
    Idle => \A r \in DOMAIN queue :
        queue[r].confirmed /\ r \in Decided(receipts[queue[r].bundle]) => r \in told

\* What is left of it: as long as no crash cut an ingest short, a verdict that
\* came after its row's delivery waits in the queue until it is served itself.
ChangedAnswerQueuedUncut == crashes = 0 => ChangedAnswerIsQueued
=============================================================================
