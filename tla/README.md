# Verification of the Railroad Network station

TLA+ models of the `station` repository (`src/`), TLC runs that check them on
small instances, and TLAPS proofs for every value of the constants.

## 1. Inventory

The station is one daemon per community. A single *core thread* owns the
database and serves every command (console, phone channel, timers, gossip,
bundles) one after the other, so two commands never interleave inside one
another; what interleaves is commands of different origin, the clock, crashes
between two database writes, and everything outside the station (wallets,
carriers, replicas, the radio sidecar). The source of truth is a signed,
hash-chained, append-only log; every balance, standing and tally is derived by
replaying it.

| component | code | state | operations | what is hard | correct when |
|---|---|---|---|---|---|
| Ledger engine | `rrn-ledger/{engine,state,credit,settlement,tier,transaction}.rs` | transactions, nonces, balances | propose, confirm, cancel, dispute, uphold/reject, settle | records in any order and repeated; expiry; clock | nobody is committed below the floor, nothing takes effect twice, balances are what settled |
| Escrow certificates | `rrn-ledger/escrow.rs`, `engine.rs` | certificates, consumption, equivocations | request, issue, return, spend, refuse with proof, rule | crash between request and grant; the shared boundary; evidence limit | spends stay within the reserved cap; every overspend is provable |
| Contract charges | `rrn-station/core.rs` 2967-3157 | a sweep's running account | sweep, charge | one snapshot, many charges | charges never jointly breach a floor |
| Offline spending | `rrn-ledger/offline_spend.rs`, `rrn-cli/wallet.rs` | the wallet's account of a certificate, vouchers | sign, show, accept, reconcile, return | wallet, shop and station each decide on what they know | an honest holder is never convicted; what a shop accepted is honoured |
| Enrollment | `rrn-ledger/enrollment.rs`, `core.rs` 7362-7577 | enrollment events | enroll, revoke, backfill | floor changes under live commitments | strangers never owe |
| Append log | `rrn-storage/log.rs` | entries, chain | append, append_raw, batch | clock steps back, foreign entries | stamps never go back; chain contiguous |
| Gossip and replicas | `rrn-station/gossip.rs`, `core.rs` 3174-3268 | replica logs | pull range, append entries | partial transfer, forged station records | a replica is a prefix of the writer |
| DTN submission | `rrn-cli/wallet.rs`, `rrn-storage/{outbox,dtn}.rs`, `rrn-protocol/{outbox,bundle,receipt}.rs`, `core.rs` 4812-5499 | wallet outbox chain, station dispositions, receipts, forks, pushes | sign, bundle, ingest, receipt, ack, prune, re-anchor, abandon | lost, repeated, reordered bundles and receipts; restored wallets; crashes inside ingest | a record is admitted once, a final answer stays true, an honest wallet never forks itself |
| Push and sync loop | `rrn-station/{dtn_loop,dtn_sync}.rs`, `rrn-protocol/{framing,transport}.rs`, `core.rs` | `dtn_pushes` rows, a syncer at each end | push, pull, pump, ack, ask again, poke, settle, abandon | lost and reordered frames, full queues, respawned adapters | a push is settled once and never stranded |
| CRDTs | `rrn-storage/crdt` | PN-counter, OR-set, LWW register | update, merge | no other crate uses them | merge is a join |
| Disputes | `rrn-dispute/*`, `core.rs` | cases, panels, rulings | open, draw panel, rule, escalate, lapse | deadlines racing rulings | a case ends once, and one way |
| Governance | `rrn-governance/*` | charter, proposals, votes, emergencies | propose, vote, tally, enact, declare, renew, end | windows, electorate changes, TTLs | one enacted charter per version; emergencies end |
| Marketplace | `rrn-marketplace/*` | listings, needs, inquiries, contracts | list, ask, counter, agree, terminate, attest | races of counter-offers, stock | no stock sold twice; a contract's periods charged once |
| Browse index | `rrn-marketplace/search.rs`, `rrn-storage/listings_index.rs`, `core.rs` | `listings_index` table, text documents | reindex, expire, rebuild, search | an index write fails after the append; a rebuild stops half-way | browse shows what the log offers |
| Reputation | `rrn-reputation/*` | derived scores, vouches, anchors, bundles | vouch, stake, penalise, overturn, export, verify | judged at a log position, again and again, by others too | anchoring is judged once; a bundle gives the exporter's profile |
| Pairing and channel | `rrn-station/{pairing,rpc_envelope,channel_client,events,paired}.rs`, `rrn-storage/replay.rs` | sessions, replay cache, subscriptions | start, finish, call, long-poll | replays, timeouts, late answers | no request is executed twice |
| Identity and recovery | `rrn-identity/*` | shares, ceremonies | split, approve, combine | waiting periods, cancelled recoveries | enough shares, once |
| Carriers | `rrn-protocol/{airtime,paper,binding}.rs`, `rrn-station/{sms,sidecar,reticulum}.rs` | reassembly buffers, budgets, queues | frame, reassemble, send, retry | loss, reordering, limits | budgets hold; what is reassembled was sent |
| At-rest storage | `rrn-station/storage/*`, `backup.rs`, `recovery.rs` | volume, key slots, backups | encrypt in place, unlock, refresh, restore | a stop between any two steps, the daemon started in between | no stop loses an admitted entry or the key to it |
| Daemon | `rrn-station/{core,station,server,mobile_server}.rs` | the core's queue, parked polls, the watch on the tail | call, sweep, park, wake, panic, shut down | everyone waits on one thread | nobody waits in vain; a clean stop cuts no sweep |
| Crypto, CBOR, CLI, FFI, mDNS, config | `rrn-crypto`, `rrn-mobile-ffi`, `rrn-cli` formatting, ... | none of their own | | | not modelled |

## 2. Plan

The order follows what a mistake would cost: first the money, then the road a
signed record takes to the station, then everything that rules over both.

| step | module | about | state |
|---|---|---|---|
| 1 | `Ledger`, abstract `CreditLine` | engine, certificates, charges, settlement, enrollment, clock | checked, safety proved |
| 2 | `Dtn` | wallet outbox, bundles, ingest, receipts, delivery queue | checked, safety proved |
| 3 | `Replica` | gossip pull, `log_range`, `append_entries` | checked, safety proved |
| 4 | `Push`, `Airtime` | the station's outgoing bundles on a lossy, paced carrier | checked, safety proved |
| 5 | `Jury`, `Dispute`, `Equivocation` | panels, appeal window, escalation, lapse, re-seated juries | checked, safety proved |
| 6 | `Governance`, `Emergency` | proposals, ballots, tallies, charter lineage, enactment, emergencies | checked, safety proved |
| 7 | `Market`, `Browse` | listings and stock, inquiries, contracts and terminations, the browse index | checked, safety proved |
| 8 | `Channel` | pairing sessions, request nonces, events and long-polls | checked, safety proved |
| 9 | `AtRest` | encryption in place, unlocking, key refresh | checked, safety proved |
| 10 | `OfflineSpend` | certificates spent out of the station's reach | checked, safety proved |
| 11 | `Reputation` | standing, anchors, portable bundles | checked, safety proved |
| 12 | `Daemon` | the core thread, who waits on it, shutdown | checked, safety proved |
| - | `Crdt` | dropped: nothing outside `rrn-storage/crdt` uses the CRDTs | |

Every safety property the runs check is proved. What is left is breadth: the parts of
section 10 that are left out, and in `Market` several listings at once.

## 3. The ledger: `Ledger`, `CreditLine`

`rrn-ledger` derives a `LedgerSnapshot` from the whole log before each
operation. In `Ledger` the snapshot *is* the state, and an operation is one
action: its guard is the operation's checks, its effect is what replaying the
records it appends does.

| state | code |
|---|---|
| `txs` | `LedgerSnapshot.transactions`, with stage and the confirmation's admission time |
| `certs` | issued certificates with `consumed` and status |
| `nonce`, `balance` | `next_nonce`, `balances` |
| `charged`, `sweep` | contract charges in the log; the one running `do_charge_contracts` with what it read and has moved (`SweepFloor`) |
| `enrolled`, `known` | the last enrollment event is an enroll; there is any event |
| `equivs`, `verdict`, `doubled` | equivocation records, their terminal ruling, and a history variable: certificates on which a double spend was refused |
| `now`, `tailAt`, `backSteps` | the wall clock, the tail's `created_at` (`AppendLog::append` stamps `max(now, tail)`), and how often the clock stepped back |

| action | code |
|---|---|
| `SubmitProposal`, `SubmitCertBacked`, `RefuseOverspend` | `Engine::submit_proposal`, `check_cert_backed`, `record_cert_overspend_equivocation` |
| `SubmitConfirmation`, `CancelProposal` | `submit_confirmation`, `cancel_proposal` |
| `RaiseDispute`, `UpholdDispute`, `RejectDispute` | the dispute operations |
| `SweepSettle` | `Settler::find_eligible` and `settle` |
| `IssueCertificate`, `RequestWithoutCertificate`, `ReturnCertificate` | `submit_certificate_request` (its two appends, and a stop between them), `submit_certificate_return` |
| `RuleEquivocation` | the verdict applied from the jury |
| `BeginChargeSweep`, `ChargeContract`, `EndChargeSweep` | `do_charge_contracts` |
| `Enroll`, `EnrollRevoke` | `m_enroll`, `m_enroll_revoke` |
| `Tick`, `StepBack` | `Clock::system` |

A refused operation writes nothing and is no action; `RefuseOverspend` is the
refusal that writes. Signatures are assumed to verify: `Offers` and `Requests`
are what some member really signed, and any of them may be presented at any
time, any number of times. A charge sweep runs alone on the core thread, so
other actions wait for it; only the clock moves meanwhile.

`CreditLine` is the promise: each party has a *position* (balance minus all
it has signed for); a step may lower it only to the floor its owner is held to;
enrolling and revoking move no position. `Ledger` implements it under
`position <- balance - CommittedDebits`.

## 4. Store-and-forward: `Dtn`

One member's wallet and the writer station, with carriers between them that
lose, repeat and reorder.

| state | code |
|---|---|
| `rows`, `chain`, `cursor` | `outbox_entries` and the meta rows `chain_state`, `nonce_cursor` of `OutboxStore` |
| `seen`, `forks` | `seen_outbox_entries`, `outbox_forks` of `DtnStore` |
| `log`, `equivs` | records, and fork equivocations, in the station's log |
| `receipts`, `queue` | `issued_receipts` and `receipt_deliveries` |
| `job` | the ingest the core thread is in: entries, then the receipt, then the reply |
| `bags`, `mail` | bundles and receipts in carriers' hands; an entry of a bundle may be damaged (`intact`) |
| `fate` | environment: what the engine would make of a record (waiting for something, live, dead) |
| `syncing` | a `cmd_sync` between its two calls |
| `told` | history: the records with a verdict in a page of receipts their author was served |
| `signed`, `restores`, `top`, `crashes`, `errands` | history and bounds |

`SignPay`/`SignPayCrash` (the entry and the cursor are two writes),
`SignNote`, `Export`, `Submit`, `Abandon`, `Restore`, `SyncAnchor`, `SyncHead`,
`SyncUnseen`, `SyncNonce` and `ApplyReceipt` are the wallet's commands;
`RefuseDamaged`, `TakeEntry`, `RefuseFork`, `FinishIngest` are `ingest_bundle` in the
order of its writes, with a crash after each of them (`CrashBetween`, `CrashAfterNote`,
`CrashAfterFork`, `CrashInFinish`; a storage error that aborts the ingest has
the same effect); `CourierFetch`, `AuthorFetch`, `PruneDelivered` are
`receipts_fetch` and the retention sweep. The wallet and an ingest share no
state, so the wallet's steps wait while a job runs; no behaviour is lost,
since they commute.

A carrier may damage an entry (`Damage`). The station then refuses it for its
signature, and for good: the receipt names the record's hash, but the answer is kept
under the hash of this very presentation, opens no delivery row and leaves no trace in
`seen`. So "bad" is a verdict on a copy, the one final refusal of which
`AnswersAreTrue` says nothing about the log: the genuine copy may be there already or
get there later. What it does say is that no other entry is ever refused so. The
wallet does not tell the two apart: a row acked on such a receipt claims nothing of
the log.

`ChangedAnswerIsQueued` is about delivery, not about flags: a row that counts as
delivered, and points at a receipt with a verdict on its record, has its verdict in
`told`. A delivery of the transient answer before does not count.

The engine behind the front door is abstracted to its answers: a dead record is
refused for good, a waiting one or one out of nonce order for now, a payment in
order is admitted or meets the debt floor.

## 5. Around the log: `Replica`, `Push`, `Airtime`, `Channel`, `AtRest`, `OfflineSpend`, `Daemon`, `Browse`

**`Replica`** (`gossip.rs`, `core.rs` `do_log_range`, `do_append_entries`).
`served` is the writer's log, `allowed` its replica allowlist, `held` and `pull`
the replica's log and in-memory cursor, `round` the gossip round with the tail it
read and the page in hand, `reachable` and `warned` the connectivity state.
`Handshake`, `Refused`, `FetchPage`, `ApplyPage`, `RoundEnds` and `CallFails` are
the steps of a round, each a connection of its own; `ApplyFails` stops a page
half-way; `WriterAppends`, `WriterRestored`, `ListReplica`, `UnlistReplica` and
`ReplicaRestarts` happen in between. `PulledIsHeld`: what lies below the cursor is
held. It has one exception, kept in `eclipsed`: a restored writer that grows past
the cursor before the next handshake is never noticed, and the replica keeps
entries the writer no longer has. `ReplicaCatchesUp` is the liveness side.

**`Push`** (`m_dtn_push`, `dtn_loop.rs`, `dtn_sync.rs`, `framing.rs`). `rows` is
the `dtn_pushes` table, `ring`, `rescan` and `fresh` what wakes the loop, `syncer`
the `DtnSyncer` at either end (queues, in-flight set, reassembly, caches of
finished and recently received payloads), `air` the frames under way. `HomeStep`
and `PeerStep` are one tick of the loop: pull due rows, take a frame, serve acks
and requests, ask for what is missing, poke, send. Timers are flags. `NoPhantoms`
relates the queued-chunk set to the queues; `NeverStranded` says that a pending
push can still be answered; `RowsSettleOnce` is an action property on the rows.

**`Airtime`** (`airtime.rs`). A token bucket and three strict-priority queues;
`Offer`, `Pump` (refill, then send whole frames in class order), a clock that may
be set back. `BudgetKept`: one burst plus the rate over the seconds the clock moved
forward. A second it runs through twice, after a set-back, counts twice there as it does
in `refill`, so the property does not see that credit given twice.

**`Channel`** (`pairing.rs`, `paired.rs`, `events.rs`, `mobile_server.rs`,
`core.rs` `authenticate_envelope`). One phone: `session` and `sessions`, `wire` and
`requests` (everything ever sent, delivered any time and repeatedly), `book` and
`file` (the paired list in memory and on disk, with the request-nonce mark),
`parked` polls, `replies`, and the phone's own cursor; `events` is the station's log as
far as the phone is concerned: an event of its own, its enrollment, or something else.
Pairing enrolls first (`Enrolled`): that append may fail, and a crash after it leaves a
member enrolled and not paired. A save may fail, the station may restart, and a poll may
read less than the log (`Reads`): `events_since` stops at what it cannot read, and
`tail_seq` answers 0. The reply still names the tail, so events above a failed read are
skipped; they are kept in the phone's `missed`. `DispatchedOnce` and
`CursorCoversEvents` are the two promises to the phone, the second but for `missed`.

**`AtRest`** (`rrn-station/storage`, `recovery.rs`, `rrn-identity/recovery`). The
administrative commands as processes with a next step (`command`), beside the
daemon: config, container, mount, descriptor, originals, splits of the key and the
shards holders stored. `EncryptInPlace` runs `Provision`, the copies, `Verify`,
`WriteConfig`, `SecureErase`, `PrintShards`; `Unlock` and `Refresh` likewise; a
step may fail (`MigrationFails`), the command may be killed (`CommandDies`) and the
power may be cut (`PowerCut`, which unmounts). `LedgerOutlivesStops` is an action
property: no stop takes away what could be read, or rebuilt by a quorum of holders,
before it.

**`OfflineSpend`** (`wallet.rs`, `offline_spend.rs`, `engine.rs`). `purse`, `next`
and `history` are the wallet's outbox, nonce cursor and account of the
certificate; `accepted` what shops confirmed on a voucher alone, on clocks off by
`ShopDrift`; `booked`, `given`, `refused` and `proven` what the station has made of
the bundles that reached it. `HolderIsNotConvicted` excepts one crash: after
`cmd_pay` wrote the entry and before it wrote the history. `AcceptedIsHonoured`
names its four exceptions one by one.

**`Daemon`** (`core.rs` `Core::run`, `station.rs`, `server.rs`,
`mobile_server.rs`). `box` is the core's queue, `core` what the core thread is at,
`caller` what each timer, socket connection and phone waits for, `tail` and
`watched` the log and the watch channel, `over` what a shutdown has joined. A
command makes two appends or looks for news; a handler may panic. `Exit` needs the
timers and the HTTP server to be over, and nothing of the core.

**`Browse`** (`search.rs`, `listings_index.rs`, `core.rs`). `listed` is what the log
says, `table` and `docs` the two derived indexes; a record is appended first and
indexed afterwards, and the second may fail (`stale`). `Restart` rebuilds both,
`RestartHalfway` stops between them. The text index ranks by the constant
`Relevance`. A text search is cut to as many places as the table has candidates, while
the index also holds listings the table hides; `BrowseIsTheLog` says that a listing whose
text matches is found unless one of those ranks above it.

## 6. On the log: `Governance`, `Emergency`, `Jury`, `Dispute`, `Equivocation`, `Market`, `Reputation`

The code keeps no state for these but the log: every call derives what it needs by
replay, at its own instant and position. The hard question is always the same:
does whoever derives the state later reach what the writer decided?

**`Governance`** keeps what the log says of the charter ceremony (`founded`), the
motions (`filed`, `window`, `endorsed`, `ballots`, `enacted`), the emergency in
force (`crisis`) and two clocks, the wall clock `day` and the tail's `tailDay`.
Actions are the station's `governance_*` calls. `EnactDue` is one whole pass of the
sweep, in the order of filing (`SweepTo`); each enactment is an append of its own, and
`EnactTorn` is the pass the station dies in between two of them. `ProposeTorn` is the
crash between the two appends of a proposal. `CharterNeverReverts`,
`CharterIsFrozen` and `ResultStands` are action properties; `PassedIsEnacted` is
liveness.

**`Emergency`** has a single variable, the log. The writer's gates and every
reader's `DeriveEmergencies` are different operators over it, as in the code:
`MarkersAreBelieved` says a reader believes each activation and refusal the writer
attested, `HistoryStands` that no later record changes a past interval,
`ChainsAreBounded` that renewals cannot keep an emergency alive.

**`Jury`** has no state: a panel is derived from a draw, the rulings and an instant.
**`Dispute`** and **`Equivocation`** use it; their gates judge by the admission
stamp, their sweeps by the raw clock, which may be set back. Neither keeps a draw: every
call draws the jury and the electorate again from the founders of the charter in force,
and the dispute sweep from none when it cannot read the charter. So what is drawn may be
another at every derivation (`Redraw`, `EquivocationRedraw`). An admitted ruling need
not count, nor an escalation govern, while other founders are read
(`audit-2026-10.md`, RRN-A-033). `AdmittedRulingsCount` and `EscalationGoverns` say what
does hold: under the founders it was admitted under a ruling counts and an escalation
governs at every later instant, whatever was read and admitted in between.
`JuryOfOneRound` names the majority a terminal ruling rests on: jurors seated in one
round, each with a ballot of that round inside its response window, then and ever
after.

**`Market`** is one listing with its inquiries, payments and contracts. Everything
is judged against the listing and the standings *as they are now*, so admitted
records may stop counting and count again, offers of the wrong sign among them
(`OfferOk`, `Opened`, `Sent`). A patch replaces the stock wholesale, counted or not.
`SalesWereAgreed`, `OneStandingOrder`
and `PenaltyClosesTheBook` hold all the same.

**`Reputation`**'s operators take the log they read as an argument, so the same
definitions give the exporter's view and, of the entries in a bundle, the
verifier's. Scores are whole numbers, times are weeks. `EnrollFounders` is one batch
of the log, in any order the charter may list the founders in; everybody else is
enrolled one at a time (`EnsureEnrolled`). A profile re-derived from a bundle is not
simply the exporter's: a bundle carries neither equivocations nor disputes, and not
all that once anchored a voucher's voucher. `BundleReproduces` states what is left, in
two halves: where nobody was penalised it is never higher, and where nobody it carries
was revoked it is never lower. `BundleIsTheProfile` and `AnchorTravels` are what the
comments promise beyond that, and both fail. `AnchoringIsJudgedOnce` is an action
property on who is anchored.

## 7. Runs

| run | instance | shows |
|---|---|---|
| `LedgerBooks` | two parties; either four offers (two under one nonce, a payment request) and two charges with a common debtor, or two certificate requests and seven offers around the cap, evidence limit 3, skew 1 | floor, spends within the cap, no replay, overspends proven, refinement of `CreditLine` |
| `LedgerClock` | two offers, a charge, the clock steps back once | every confirmed transfer is resolved (liveness) |
| `LedgerClockFloor` | as before | **violation**: a settled balance below the floor |
| `DtnStation` | a payment and a note with receipts over every road; or three payments, a restore, a crash and a courier; or two payments and a damaged entry | answers are true, a changed answer is queued again, where forks can be and that they are proven |
| `DtnSync` | a payment and a note, a courier with old bundles | every record the station can decide is settled in the wallet (liveness) |
| `DtnFork` | three payments, a restore, no crash | **violation**: an honest restored wallet forks itself |
| `DtnCrash` | one note, one crash | **violation**: a changed answer is never queued again |
| `Peers` | the modules of section 5 | their fourteen properties |
| `Commons` | the modules of section 6 | their fifteen properties |
| `MarketContract` | as `Commons` | **violation**: an admitted contract stops counting |
| `ReputationBundle` | two founders, three members, three trades done, the charter published or not; as in `Commons` | **violation**: a bundle reads a penalised member too high |
| `ReputationChain` | three founders, a chain of two vouches, two revocations | **violation**: an anchored member's bundle does not anchor it |

*How several components share a run.* The modules of `MCPeers` share no variable, nor
do those of `MCCommons`; their product would only multiply the state spaces. `topic`
chooses, in the initial state, the one component that moves, and the others stay at
their initial state, so the run checks each component on its own instance. Governance
has five topics (what may be tabled, and whether standings, the clock or an emergency
move), since all of it at once is out of reach. In `MCBooks` a behaviour draws all its
records from one of two books (`OneBook`, an action constraint). In `MCDtn` a
behaviour is one of three stories (`OneStory`): receipts travel and change, bundles
travel and the wallet is restored, or an entry is damaged on its way; a step into none
is checked but not followed. `ChannelBounds` keeps the log at two entries once it
holds one that does not concern the phone, `SpendBounds` lets a holder whose payment
was torn sign one more record, `MarketBounds` keeps a service listing without stock,
and charges nothing while two orders are on its log. `FateLater` postpones the change
of a record's fate until it is signed: nothing reads it before. `MonotoneView` drops
`tailAt` from `LedgerBooks`: while the clock does not step back the next stamp is
`now`. `MCStanding` and `MCAnchor` start from a log with the trades done and bound who
vouches for whom (`StandingBounds`, `AnchorBounds`); in the first both halves of
`BundleReproduces` meet logs that satisfy their condition and logs that do not.
`PaySymmetry` permutes payments that are alike until signed; it is used for invariants
only. `MCBrowse` varies the first listing and keeps the second plain.

*Why the bounds are enough.* The floor needs at most two commitments that compete, of
each kind that can (spend, request, certificate, charge), and one instant on each side
of every expiry. A certificate needs two spends within the cap, one beyond it, and one
more than the evidence limit holds. A fork needs two entries for one position and one
entry before them: three payments. A transient answer needs one later final answer:
one note. `MaxBags`, `MaxMail` and `MaxErrands` bound what carriers hold at once, not
how often they present it. A damaged copy needs one damaged entry and the genuine one
beside it (`MaxDamage` 1). A cursor needs an event on each side of it and the
enrollment (`MaxLog` 3). A replica needs a page that holds, one that does not, an
entry larger than a page and one that does not verify. A push needs two chunks, a
queue that holds one, and a bundle too large to frame. A pairing needs two attempts
that overlap; a nonce mark, one request that is repeated across a restart. Encryption
needs two keys (an orphan and its replacement), two splits and two thresholds, and two
stops, of which one a power cut. A spend out of reach needs a certificate used up, one
payment beside it and an hour past the expiry. The daemon needs one caller of each
kind. An amendment needs a rival and a successor; an emergency, a chain with one
renewal and a third declaration beyond it; a jury, one alternate to redraw and other
founders once (`MaxRedraws`, `EqMaxRedraws`; that they may come and go is in the
proof); standing, two founders of whom one is revoked, a voucher with evidence and no
anchor, and a vouch dated ahead; a contract, three periods and a sweep that charges
one at a time.

*Deadlock* is not checked: clocks and errands are bounded, and a quiet station with
nothing presented to it is a legal end.

*Fairness.* `LedgerClock`: the clock runs on, a sweep that began ends, and the
settlement sweep gets its turn again and again; the core serves its queue in
order and the settlement timer keeps posting (strong fairness, since another
sweep may be running whenever one looks). `DtnSync`: the core thread finishes an
ingest; a member with pending records submits them all again and again, and the
answer to such a call gets through now and then. No courier is assumed to be
fair. Nothing is assumed of what a record waits for: the property starts from a
note the station could decide. `Peers`: weak fairness of a replica's round; the
gossip ticker runs for ever, every call has a timeout, and failures are bounded.
`Commons`: weak fairness of the enactment sweep, a periodic task. All other
properties are safety properties and need none.

## 8. Findings

- `LedgerClockFloor`: an expired proposal's headroom is released by the raw
  clock, and the engine refuses its confirmation by the same raw clock; after
  a step back the confirmation is accepted though the headroom was lent again.
- `DtnFork`: `cmd_sync` re-anchors a restored wallet on what the station has
  seen so far. An entry of the lost device still with a courier sits on the
  position the restored wallet signs next; the honest member is recorded as an
  equivocator. `HonestChain` states what does hold: without a restore there is
  no fork, and after one the wallet and the station agree up to the anchor.
- `DtnCrash`: `put_receipt` and the delivery rows are separate writes; a
  crash between them leaves a final receipt whose row stays confirmed from the
  transient answer. The answer is not lost (a re-submission gets it), but no fetch
  returns it. Without a crash it is queued again (`ChangedAnswerQueuedUncut`).
- `MarketContract`: a contract is "self-contained on the log" by its comment, and
  is checked again against today's listing by every scan: after a price change it
  is neither charged nor terminable.
- `ReputationBundle`: a bundle carries the cancellation of an upheld dispute but
  not the dispute, so the verifier's replay skips it and the penalty is gone.
- `ReputationChain`: `anchor_chain` follows each edge to the one its voucher was
  anchored through, and from there to what that one rested on when *it* formed. If the
  chain below was replaced in between, what anchored the voucher at the later vouch
  is left behind, and a member who lost nothing at home arrives without an anchor.

Seen while reading, and stated by no run of their own:

- *Pairing.* `m_pair_confirm` changes the list before it saves it: a failed save leaves
  the phone paired until the next restart; a failed save of an unpairing is undone by
  it.
- *Events.* A read error in `events_since` shortens the answer but not the cursor it
  carries: the phone never asks for what was left out.
- *Governance.* `append_proposal` makes two appends; a proposal cut off between them has
  no window, and nobody can vote on it until its author proposes it again. A declaration
  whose electorate shrinks after it was co-signed may never activate (`try_activate`
  returns early).
- *Disputes.* The founders who judge by default are those of today's charter, so an
  amendment of them draws the jury of an open dispute again. A ballot admitted in the
  second of a re-seat may complete the earlier round's majority. The round window of an
  equivocation ballot is not enforced when it is appended, though the comment at
  `equivocation.rs` 731-736 says so; the derivation drops it.
- *Browsing.* A rebuild of the text index writes a document for closed listings too,
  which the running index deletes; they take places among the candidates of a text
  search, so a listing on offer may not be found after a restart.
- *Market.* `attest_sale` finds no agreement after a price patch: a paid sale then
  consumes no stock. A text search with a price or surface filter also loses matches:
  its limit counts all candidates.
- *Offline spending.* A crash between `cmd_pay`'s writes convicts an honest holder. A
  wallet restored from its seed has no certificate history. The spend limit
  `MAX_EVIDENCE_ITEMS - 1` is known to the station only. `confirm --from` a bundle skips
  the voucher check.
- *Encryption at rest.* Shards are shown only after the originals are erased, and cannot
  be shown again. The daemon check of `encrypt-in-place` is made once: what a daemon
  started later admits to the originals is lost. The package and the config are written
  in place; a torn package blocks a refresh, a torn config is refused loudly. A failed
  provisioning leaves its container behind.
- *Shutdown* does not join the core thread, though its comment says it stops it.

## 9. Proofs

Every theorem is about the module's own specification, for every value of its
constants, the bounds of the runs included.

| theorem | property | assumes | invariant |
|---|---|---|---|
| `LedgerProofs` | | | |
| `TypeCorrect` | `TypeOK` | | itself, by action |
| `FloorTheorem`, `StrangerTheorem` | `FloorRespected`, `StrangersHoldNoDebt` | `MaxBackSteps = 0`, `DebtFloor <= 0` | `CreditInv` |
| `CreditLineTheorem` | `ImplementsCreditLine` | `MaxBackSteps = 0` | every step maps to a `CreditLine` step |
| `WindowTheorem` | `WindowsFollowLogOrder` | | no stamp is later than the log's tail, and the tail never goes back |
| `ReplayTheorem` | `NoReplay` | | `ReplayInv`: the nonce of everything admitted is below its owner's next one |
| `BalanceTheorem` | `BalanceIsFold` | | each step changes a balance and its fold alike |
| `CertTheorem`, `OverspendTheorem` | `CertSpendsWithinCap`, `OverspendsAreProven` | | `SpendInv` |
| `DtnProofs` | | | |
| `AnswersTheorem`, `HonestChainTheorem`, `ForksTheorem`, `ChangedAnswerTheorem` | `AnswersAreTrue`, `HonestChain`, `ForksAreRecorded`, `ChangedAnswerQueuedUncut` | `RecordsAssumption`, `BoundsAssumption` | `DtnInv` (`DtnTheorem`) |
| `PeersProofs` | | | |
| `RequestTheorem`, `CursorTheorem` | `DispatchedOnce`, `CursorCoversEvents` | | `ChannelInv` |
| `PulledTheorem` | `PulledIsHeld` | | `ReplicaInv` |
| `BudgetTheorem` | `BudgetKept` | `AirtimeAssumption` | `AirtimeInv` |
| `PhantomTheorem`, `StrandedTheorem`, `RowsTheorem` | `NoPhantoms`, `NeverStranded`, `RowsSettleOnce` | `PushAssumption` | `PushInv` |
| `StationProofs` | | | |
| `NobodyWaitsInVainTheorem`, `SweepsAreNotCutTheorem` | `NobodyWaitsInVain`, `SweepsAreNotCut` | `DaemonAssumption` | `DaemonInv` (`DaemonTheorem`) |
| `BrowseTheorem` | `BrowseIsTheLog` | `AmountsAssumption`, `RelevanceAssumption` | `BrowseInv`, `DocInv` |
| `LedgerOutlivesStopsTheorem` | `LedgerOutlivesStops` | `AtRestAssumption` | `AtRestInv` |
| `NotConvictedTheorem`, `HonouredTheorem` | `HolderIsNotConvicted`, `AcceptedIsHonoured` | `SpendAssumption` | `SpendInv` over the holder's chain |
| `CommonsProofs` | | | |
| `SalesTheorem`, `StandingOrderTheorem`, `PenaltyTheorem` | `SalesWereAgreed`, `OneStandingOrder`, `PenaltyClosesTheBook` | `MarketAssumption` | `MarketInv` |
| `CharterIsFrozenTheorem`, `ResultStandsTheorem` | `CharterIsFrozen`, `ResultStands` | `GovernanceAssumption` | `GovInv` |
| `CharterNeverRevertsTheorem` | `CharterNeverReverts` | `GovernanceAssumption` | `GovInv`, `LineInv` |
| `MarkersTheorem`, `HistoryTheorem`, `ChainsTheorem` | `MarkersAreBelieved`, `HistoryStands`, `ChainsAreBounded` | `EmergencyAssumption` | `EmergencyInv` |
| `JuryProofs` | | | |
| `AdmittedRulingsTheorem`, `EscalationTheorem` | `AdmittedRulingsCount`, `EscalationGoverns` | `DisputeAssumption` | `DisputeInv` |
| `JuryOfOneRoundTheorem` | `JuryOfOneRound` | `EquivocationAssumption` | `EqInv` |
| `ReputationProofs` | | | |
| `ReachIsLeast` | what `Reach` computes | `ReputationAssumption` | |
| `AnchoringTheorem` | `AnchoringIsJudgedOnce` | `ReputationAssumption` | `RepInv` |
| `BundleTheorem` | `BundleReproduces` | `ReputationAssumption` | `RepInv` |

The assumptions are the ones the code needs. `LedgerClockFloor` is the
counterexample to the floor under a clock that steps back, and a positive floor
would be broken by the empty ledger. The named ones are the `ASSUME`s of the modules, which
TLC evaluates in every run, and say what the constants are: amounts, windows and
periods are natural numbers (`parse_amount` reads digits only), a jury's draw names nobody
twice (`draw_sequence` draws without replacement), timers and callers are told apart,
what is counted is finite, the founders' charter replaces no other, and the log a
behaviour of `Reputation` starts from is one its records could have made: what settles
was confirmed, and who is enrolled is enrolled again only as a founder.

*The floor.* `FloorRespected` alone is not inductive: a charge is checked against what
the sweep read when it began, so the floor follows only if the sweep's account agrees
with the ledger (`SweepConsistent`), and a revoked member may stand below the floor a
stranger is held to. `CreditInv` is `TypeOK`, `SweepConsistent`, `enrolled \subseteq
known`, `FloorRespected` and `StrangersHoldNoDebt`. Its core is `PositionStep`: a step
leaves a position no lower than it was, or at or above its owner's floor (`NoDeeper`);
one lemma for each kind of step. The positions are sums over positions of a sequence
(`Sums`), and `DataTheorems` proves what appending, replacing, comparing and picking
out terms does to them.

*The log.* `TxsStep` and `CertsStep` say what any step can do to the transactions
and the certificates: nothing, admit one, move one on. No assumption about the clock
is needed. `SpendInv` keeps two books of one allowance together: a certificate has
consumed what it backed, cancelled spends included (`ConsumedIsSpent`), what backs a
spend exists and is its sender's (`SpendsAreBacked`), and the spends of a certificate
leave one place of the evidence free (`EvidenceHasRoom`).

*Submission.* `DtnInv` has five parts beside the types. `Identity`: all copies of a
record's entry, in the outbox, with couriers, in the ingest at hand and in `seen`, are
the same entry. `AnswerInv`: what was answered admitted is in the log; what was
refused for good is dead or has, for every copy still about, another entry in its
place. `RecordInv`: a stored receipt answers its bundle in order, with the fork it
speaks of, and refuses as damaged what is; evaluated again it takes no verdict back.
`ChainInv`: a wallet that was restored signs nothing before it has the station's head,
and goes on above it. `QueueInv`: as long as no crash cut an ingest, a row of the
queue is final exactly when the receipt it points at has a verdict on its record, and
a final row that was delivered was delivered with it.

*Spending offline.* No variable holds what the proof is about, the holder's chain:
everything it signed (`sig`), how many of the first i are payments (`cur`), and how
much of it the station has been shown (`hi`). `SpendInv` says that such a chain exists as
long as no payment was torn: purse and carrier hold runs of it that begin within
what was shown, the wallet's account holds every spend of it once and within the cap,
and the station has booked every payment before the first it refused, in turn.
A spend not booked is then within what is left (`NotOverspent`, a comparison of two sums
over different sequences), which is the first theorem; that a refusal is final only
for the reasons `AcceptedIsHonoured` names (`ForGood`) is the second.

*Peers.* `ChannelInv`: whatever got through is at or below the mark in memory and the
one on disk; and a reply, wherever it is, has every event between the cursor it
answers and the one it names, shown or missed, which the log, only ever longer, does
not change. `ReplicaInv`: a page in hand begins at the cursor and is what the writer
serves there. `AirtimeInv`: the seconds not yet turned into tokens count as tokens.
`PushInv`: each syncer's tables are about payloads its end may have (`Good`), a row is
delivered only if its bundle was ingested (`RowInv`), home acknowledges a receipt only
once its row is settled (`WireInv`), and without a fault the peer holds the receipt of
whatever it finished (`FaultInv`).

*The station.* `DaemonInv`: a caller that waits has its command in the queue or in the
core's hand, and a parked poll that has news is woken. `BrowseInv`: a row whose last
write went through is the row the log gives, or neither is on offer nor will be.
`DocInv`: what is on offer and was written has its document, so the places of a text
search suffice for all the candidates that rank as high (`WithinCut`).
`AtRestInv`: until the config says encrypted the originals are whole, from then on the
container is, and shards leave the process only after the originals are gone.

*The commons.* `MarketInv`: orders differ by agreement and price, each charge belongs
to an order, was due, and follows the one before it, and a penalty is the last.
`GovInv`: what is enacted is closed to ballots on the clock that admits them; the
charter in force is a walk along `NextOf`, and `GovStep` says which parts a step
leaves alone. `EmergencyInv` is about the log alone: every marker in it is one the
derivation of the records before it believes (`Stands`). It is inductive because the
derivations of a log and of a longer one agree on everything but lifts
(`DerivationsAgree`), and because the marker, which signs nothing, leaves the crossing
the writer saw where it was (`CrossingSkips`). A crossing once made stays and a new
one lies in what was appended (`CrossingGrows`), so a lift is only ever added; and
along a run of renewals the chain `fold_chain` computes counts what the run holds
(`RunIsCounted`). The juries rest on lemmas about `Seating`: panels derived at two
instants seat a candidate at the same instant wherever both seat it, and a ruling that
counts at one counts at every later one, whatever rulings were added after it.
`DisputeInv` says this of each ruling and the draw it was admitted under, and of an
escalation that it applies under its own (`Grounded`); neither mentions the draw of
today, so a redraw leaves them alone. The rest is that a side's majority stays one as
rulings are added and time passes (`SideLater`) and a verdict with it
(`VerdictStays`). `EqInv` keeps, for a terminal ruling, the round and the instant it
was read at, and that the round still has that majority.

*The charter.* Nothing in `append_proposal` compares `previous_hash` with the charter in
force, so an amendment may wait for a charter that is yet to come or is long replaced.
`LineInv` speaks of the whole line from the founders' charter to the one in force
(`GoodLine`): what could still pass of a charter left behind was filed after the
amendment that replaced it (`FirstCome`), and what could pass of the one in force after
every amendment enacted (`NoneMissed`). A sweep enacts in the order of filing, so as long
as amendments are filed in order an enactment leaves the line alone or makes it longer,
and a line visits no charter twice.

*Standing.* A log is all the state there is, and `RepInv` says only that it is one
(`IsRepLog`); the work is in the operators. `Reach` is a table of passes, and
`ReachIsLeast` says what it computes: the least set with the roots and the subject of
every live edge whose voucher it has. From there on nobody looks at passes. Appending
changes no judgement already made, since each reads the log below its vouch (the
forming of edges is local); so anchors are lost only where an edge or a root is, and
won only where one is added. A founders' batch is taken one entry at a time
(`FoundsOneByOne`).

*Bundles.* A bundle is the image of an order embedding into the log (`Picks`), and
`Bundled` says that it has all entries that concern the people it carries. *Never
higher*: enrollment and eligibility of whoever is named read alike on both sides; what
is credited grows with the evidence (the weekly cap included), so without penalties
every edge of the bundle is one of the log's, and a least set of fewer edges is
smaller. *Never lower*: for those carried all evidence is there, so raw scores agree
or the bundle's lacks a penalty. The anchor needs the chain: from `IsChain` the traced
edges and their witnesses are closed (`WitnessClosed`), a root that nobody revoked is
still one, and with nobody carried revoked a witness that once anchored a voucher
anchors it at every later vouch. So by least counterexample along the log every edge
of the chain forms in the replay (`FormsThere`). `ReputationChain` shows that the
hypothesis is needed.

`StrangersHoldNoDebt`, `WindowsFollowLogOrder` and `BalanceIsFold` are proved and no
longer run: the proofs hold for every instance.

Only model-checked: liveness (`ConfirmedIsResolved`, `EventuallyAnswered`,
`ReplicaCatchesUp`, `PassedIsEnacted`), which is out of the prover's reach.

## 10. Not modelled

Cryptography and encoding are taken as perfect, every database write as atomic and
durable. In `Governance` a pass ends with the first append that is not made; one that
fails while a later one of the same pass succeeds is not modelled. In `Dtn` an entry
may be damaged, but not signed by another hand than its author's. `Ledger` leaves out
replay of foreign or forged records, and the answer to a dispute (a record without
effect on balances or stages). `Dtn` has one author; several authors in one bundle
share nothing but the receipt. Two limits of the code are known and not stated as
properties: as many transiently refused notes as a bundle holds keep later records
back; and a proposal refused for now may be paid again and then still be admitted from
a courier's copy.

Left out altogether, and why:

- the CRDTs and their replay handler: no other crate uses them;
- SMS, paper sheets and the radio sidecar: they carry the same whole bundles, which
  `Dtn` takes as lost, repeated or reordered, or the frames of `Push`;
- SQLite access, schema migrations, backup archives and block-device commands: input
  and output with no decision of their own;
- read-only views, configuration, discovery, request parsing, the command line and the
  mobile bindings: they change no state of the station, except for the wallet's
  commands, which are in `Dtn` and `OfflineSpend`;
- matching of needs, the daily snapshot cache and the velocity alerts of reputation:
  they read the log and change nothing that anyone else reads;
- recovery ceremonies beyond what rebuilds a key (`AtRest`): encoding over
  cryptography.

The source files hold their unit tests inline, more than a third of their lines; these are
read as documentation of the code and are not modelled.
