-------------------------------- MODULE Push --------------------------------
(***************************************************************************)
(* A station pushes bundles to a peer over a lossy carrier: the durable    *)
(* dtn_pushes rows and the outbound loop (m_dtn_push, DtnLoop,             *)
(* do_dtn_pending_pushes, do_dtn_receipt), and the reliability layer both  *)
(* ends run (DtnSyncer over Reassembler and PacedSender).                  *)
(*                                                                         *)
(* A payload is a bundle or the receipt the peer signs for it; its chunks  *)
(* are numbered.  Time enters as flags: what is compared with a timer is   *)
(* fresh until the interval has passed.  The bytes on hand in the token    *)
(* bucket decide how much a tick sends: nothing or one frame here, in the  *)
(* strict order of the classes (Airtime models the bucket).  A frame on    *)
(* the air is delayed, reordered or lost.                                  *)
(***************************************************************************)
EXTENDS Integers, Sequences, FiniteSets, FiniteSetsExt, SequencesExt

CONSTANTS
    Pushes,        \* bundles the operator may push
    ChunkCount,    \* chunks of each bundle; a receipt is one chunk
    Unframeable,   \* bundles too large to frame for this carrier
    PushClass,     \* priority of a bundle: 0 economic, 1 governance, 2 bulk
    QueueCap,      \* QueueCaps
    RecentCap,     \* RECENT_COMPLETED_CAP
    MaxInflight,   \* max_inflight_payloads
    MaxMishaps,    \* bound of the model: losses, respawns, silences and faults
    MaxAir         \* bound of the model: frames on the air to one end

ASSUME PushAssumption ==
    /\ IsFiniteSet(Pushes)
    /\ ChunkCount \in [Pushes -> Nat \ {0}]
    /\ PushClass \in [Pushes -> 0 .. 2]  /\ QueueCap \in [0 .. 2 -> Nat \ {0}]
    /\ {RecentCap, MaxInflight} \subseteq Nat \ {0}

VARIABLES
    rows,      \* home: dtn_pushes, by push
    ring,      \* home: a wake signal waits for the loop
    rescan,    \* home: the re-scan interval has passed
    fresh,     \* home: the loop has not made its first step
    syncer,    \* the DtnSyncer at each end
    air,       \* frames on their way
    ingested,  \* peer: bundles the core has ingested
    mishaps    \* losses, respawns, silences and faults so far

pushVars == <<rows, ring, rescan, fresh, syncer, air, ingested, mishaps>>

Ends     == {"home", "peer"}
Other(s) == IF s = "home" THEN "peer" ELSE "home"

Bundle(b)  == [kind |-> "bundle", push |-> b]
Receipt(b) == [kind |-> "receipt", push |-> b]
Payloads   == [kind : {"bundle", "receipt"}, push : Pushes]

\* The order a table of payloads is walked in: any, the tables are hash maps.
Visit == SetToSeq(Payloads)

\* y once step is made for each payload of todo.
Walk(step(_, _), y, todo) ==
    LET after[i \in 0 .. Len(Visit)] ==
            IF i = 0 THEN y
            ELSE IF Visit[i] \in todo THEN step(after[i - 1], Visit[i]) ELSE after[i - 1]
    IN  after[Len(Visit)]

Chunks(p)  == IF p.kind = "bundle" THEN ChunkCount[p.push] ELSE 1
Indexes(p) == 1 .. Chunks(p)
ClassOf(p) == IF p.kind = "bundle" THEN PushClass[p.push] ELSE 0

Chunk(p, i)   == [type |-> "chunk", pay |-> p, idx |-> i]
Ack(p)        == [type |-> "ack", pay |-> p]
Ask(p, lacks) == [type |-> "ask", pay |-> p, lacks |-> lacks]

NoMap == [x \in {} |-> x]
Put(f, k, v) == [x \in DOMAIN f \cup {k} |-> IF x = k THEN v ELSE f[x]]
Drop(f, ks)  == [x \in DOMAIN f \ ks |-> f[x]]

\* DtnSyncer::new
NewSyncer ==
    [queue   |-> [c \in 0 .. 2 |-> <<>>],  \* PacedSender's three queues
     cache   |-> NoMap,   \* outbound: unacked payloads, to whether a poke is due
     queued  |-> {},      \* pending: chunks in the queue
     asked   |-> {},      \* pending_requests: payloads with a request in the queue
     partial |-> NoMap,   \* Reassembler::partials
     recent  |-> <<>>,    \* Reassembler::recent_completed
     inbound |-> NoMap]   \* payloads to ask for, to their request timer

PushInit ==
    /\ rows = NoMap  /\ ring = FALSE  /\ rescan = FALSE  /\ fresh = TRUE
    /\ syncer = [s \in Ends |-> NewSyncer]
    /\ air = [s \in Ends |-> {}]
    /\ ingested = {}
    /\ mishaps = [loss |-> 0, respawn |-> 0, silence |-> 0, fault |-> 0]

Mishap(kind) ==
    /\ mishaps.loss + mishaps.respawn + mishaps.silence + mishaps.fault < MaxMishaps
    /\ mishaps' = [mishaps EXCEPT ![kind] = @ + 1]
-----------------------------------------------------------------------------
(* The pacer and the chunk queue.  y is a syncer.                          *)

\* PacedSender::enqueue: economic and governance frames are refused when their
\* queue is full, a bulk frame pushes the oldest out.
Room(y, c) == Len(y.queue[c]) < QueueCap[c]

Enqueue(y, c, f) ==
    CASE Room(y, c) -> [y EXCEPT !.queue[c] = Append(@, f)]
      [] ~Room(y, c) /\ c = 2 -> [y EXCEPT !.queue[c] = Append(Tail(@), f)]
      [] OTHER -> y

ChunkKey(f) == IF f.type = "chunk" THEN {<<f.pay, f.idx>>} ELSE {}

\* The queued chunk that a bulk frame would push out.
Evicted(y, c) == IF c = 2 /\ ~Room(y, c) THEN ChunkKey(Head(y.queue[c])) ELSE {}

\* Slip in Forgets: the evicted chunk stays in the in-flight set.
ForgetsNothing(y, c) == {}

\* In-flight keys an enqueue of class c drops.
Forgets(y, c) == Evicted(y, c)

EnqueueChunk(y, p, i) ==
    LET c == ClassOf(p)
    IN  IF <<p, i>> \in y.queued \/ (~Room(y, c) /\ c # 2)
        THEN y
        ELSE [Enqueue(y, c, Chunk(p, i)) EXCEPT
                 !.queued = (@ \ Forgets(y, c)) \cup {<<p, i>>}]

EnqueueChunks(y, p, is) ==
    LET upTo[i \in 0 .. Chunks(p)] ==
            IF i = 0 THEN y
            ELSE IF i \in is THEN EnqueueChunk(upTo[i - 1], p, i) ELSE upTo[i - 1]
    IN  upTo[Chunks(p)]

\* Slip in Send: a payload whose class is full is refused, not cached.
SendIfRoom(y, p) ==
    IF Room(y, ClassOf(p))
    THEN EnqueueChunks([y EXCEPT !.cache = Put(@, p, FALSE)], p, Indexes(p)) ELSE y

\* send: the payload is cached before its chunks are queued.
Send(y, p) ==
    EnqueueChunks([y EXCEPT !.cache = Put(@, p, FALSE)], p, Indexes(p))

\* The class pump would serve: the highest that is not empty.
Served(y) == {c \in 0 .. 2 : y.queue[c] # <<>>}

Pumped(y) ==
    LET c == Min(Served(y))
        f == Head(y.queue[c])
    IN  [y EXCEPT !.queue[c] = Tail(@),
                  !.queued = @ \ ChunkKey(f),
                  !.asked = IF f.type = "ask" THEN @ \ {f.pay} ELSE @]
-----------------------------------------------------------------------------
(* Arrivals.                                                               *)

Known(y, p) == p \in ToSet(y.recent)

\* Reassembler::accept places a new chunk, evicting the oldest partial (any:
\* their order is not kept here) when it would be one too many.
Placed(y, p, i) ==
    {[y EXCEPT !.partial = Put(Drop(@, out), p, (IF p \in DOMAIN @ THEN @[p] ELSE {}) \cup {i})] :
        out \in IF p \in DOMAIN y.partial \/ Cardinality(DOMAIN y.partial) < MaxInflight
                THEN {{}} ELSE {{q} : q \in DOMAIN y.partial}}

\* RecentCompleted::insert
Remembered(recent, p) ==
    LET all == Append(recent, p)
    IN  IF Len(all) > RecentCap THEN Tail(all) ELSE all

Completes(y, p) == y.partial[p] = Indexes(p)

\* finish_inbound
Finished(y, p) ==
    Enqueue([y EXCEPT !.partial = Drop(@, {p}), !.recent = Remembered(@, p),
                      !.inbound = Drop(@, {p})],
            0, Ack(p))

\* A chunk of a payload finished before: the first ack may have been lost.
ReAcked(y, p) == Enqueue(y, 0, Ack(p))

\* The chunk is stored and its payload is not complete: it will be asked for.
Tracked(y, p) == [y EXCEPT !.inbound = IF p \in DOMAIN @ THEN @ ELSE Put(@, p, TRUE)]

\* handle_control
Acked(y, p) ==
    [y EXCEPT !.cache = Drop(@, {p}), !.queued = {k \in @ : k[1] # p}]

Answered(y, p, lacks) ==
    IF p \in DOMAIN y.cache
    THEN EnqueueChunks(y, p, lacks \cap Indexes(p))
    ELSE y

\* What a frame makes of a syncer, and the payload it completes, if any.
Arrival(y, f) ==
    CASE f.type = "ack" -> {[y |-> Acked(y, f.pay), done |-> {}]}
      [] f.type = "ask" -> {[y |-> Answered(y, f.pay, f.lacks), done |-> {}]}
      [] f.type = "chunk" /\ Known(y, f.pay) -> {[y |-> ReAcked(y, f.pay), done |-> {}]}
      [] OTHER -> {IF Completes(z, f.pay)
                   THEN [y |-> Finished(z, f.pay), done |-> {f.pay}]
                   ELSE [y |-> Tracked(z, f.pay), done |-> {}] : z \in Placed(y, f.pay, f.idx)}
-----------------------------------------------------------------------------
(* The rest of a tick.                                                     *)

\* request_missing for one payload.
Requested(y, p) ==
    IF p \notin DOMAIN y.partial
    THEN [y EXCEPT !.inbound = Drop(@, {p})]
    ELSE IF ~y.inbound[p] \/ p \in y.asked
    THEN y
    ELSE LET z == [y EXCEPT !.inbound[p] = FALSE]
         IN  IF Room(z, 0)
             THEN [Enqueue(z, 0, Ask(p, Indexes(p) \ z.partial[p])) EXCEPT
                      !.asked = @ \cup {p}]
             ELSE z

RequestMissing(y) == Walk(Requested, y, DOMAIN y.inbound)

\* poke_unacked for one payload.
Poked(y, p) ==
    LET z == IF \E k \in y.queued : k[1] = p THEN y ELSE EnqueueChunk(y, p, 1)
    IN  [z EXCEPT !.cache[p] = FALSE]

PokeUnacked(y) == Walk(Poked, y, {p \in DOMAIN y.cache : y.cache[p]})

\* A tick's nudges.  Reassembler::prune and prune_outbound only act once a
\* day or a week has passed: they are the tick of PartialExpires, CacheExpires.
Nudged(y) == PokeUnacked(RequestMissing(y))

\* What a tick may put on the air: one frame at most, the pacer's next.
Sendable(y) ==
    {{}} \cup {{Head(y.queue[c])} : c \in {d \in Served(y) : d = Min(Served(y))}}

\* What poll_recv may return: one frame at most.
Receivable(s) == {{}} \cup {{f} : f \in air[s]}

\* The syncers a tick may leave behind, each with what it completed.
Ticked(y, sent, took) ==
    LET z   == IF sent = {} THEN y ELSE Pumped(y)
        all == IF took = {} THEN {[y |-> z, done |-> {}]}
               ELSE UNION {Arrival(z, f) : f \in took}
    IN  {[a EXCEPT !.y = Nudged(@)] : a \in all}

\* A frame sent reaches the air or is lost; a frame taken has left it.
Carried(s, sent, took) ==
    \/ /\ sent # {} => Cardinality(air[Other(s)]) < MaxAir
       /\ air' = [air EXCEPT ![s] = @ \ took, ![Other(s)] = @ \cup sent]
       /\ UNCHANGED mishaps
    \/ /\ sent # {}
       /\ Mishap("loss")
       /\ air' = [air EXCEPT ![s] = @ \ took]
-----------------------------------------------------------------------------
(* Home: the outbound loop and the dtn_pushes table.                       *)

Pending(rs) == {b \in DOMAIN rs : rs[b].state = "pending"}

\* The rows a pull hands over.
HandedOver(rs, due) == {b \in Pending(rs) \cap due : ~rs[b].expired}

\* do_dtn_pending_pushes: rows past their TTL are abandoned, `due' ones sent.
\* send_push abandons a bundle that cannot be framed.
PulledRows(rs, due) ==
    LET sent == HandedOver(rs, due)
    IN  [b \in DOMAIN rs |->
            [rs[b] EXCEPT
                !.state = IF b \in Pending(rs) /\ (rs[b].expired \/ b \in sent \cap Unframeable)
                          THEN "abandoned" ELSE @,
                !.quiet = @ /\ b \notin sent]]

PulledSyncer(y, rs, due) ==
    Walk(Send, y, {Bundle(b) : b \in HandedOver(rs, due) \ Unframeable})

\* Slip in MarkDelivered: any receipt settles its row.
MarkDeliveredAlways(rs, done) ==
    [b \in DOMAIN rs |->
        IF Receipt(b) \in done THEN [rs[b] EXCEPT !.state = "delivered"] ELSE rs[b]]

\* do_dtn_receipt, mark_delivered: a receipt settles a row still pending.
MarkDelivered(rs, done) ==
    [b \in DOMAIN rs |->
        IF Receipt(b) \in done /\ b \in Pending(rs)
        THEN [rs[b] EXCEPT !.state = "delivered"] ELSE rs[b]]

\* DtnLoop::step at home.
HomeStep ==
    LET wake  == fresh \/ ring
        first == IF wake THEN DOMAIN rows ELSE {}
        rows1 == IF wake THEN PulledRows(rows, first) ELSE rows
        sync1 == IF wake THEN PulledSyncer(syncer["home"], rows, first)
                 ELSE syncer["home"]
    IN  \E sent \in Sendable(sync1), took \in Receivable("home") :
        \E t \in Ticked(sync1, sent, took) :
            LET rows2 == MarkDelivered(rows1, t.done)
                again == {b \in DOMAIN rows2 : rows2[b].quiet}
            IN  /\ rows' = IF rescan THEN PulledRows(rows2, again) ELSE rows2
                /\ syncer' = [syncer EXCEPT !["home"] =
                                IF rescan THEN PulledSyncer(t.y, rows2, again) ELSE t.y]
                /\ Carried("home", sent, took)
                /\ fresh' = FALSE  /\ ring' = FALSE  /\ rescan' = FALSE
                /\ UNCHANGED ingested

\* The receipt of what a tick completed, at most one payload.
Receipted(y, done) ==
    IF done = {} THEN y ELSE Send(y, Receipt((CHOOSE p \in done : TRUE).push))

\* DtnLoop::step at the peer, whose own table of pushes is empty: a completed
\* bundle is ingested and its receipt sent.
PeerStep ==
    \E sent \in Sendable(syncer["peer"]), took \in Receivable("peer") :
    \E t \in Ticked(syncer["peer"], sent, took) :
        /\ Carried("peer", sent, took)
        /\ syncer' = [syncer EXCEPT !["peer"] = Receipted(t.y, t.done)]
        /\ ingested' = ingested \cup {p.push : p \in t.done}
        /\ UNCHANGED <<rows, ring, rescan, fresh>>

\* ingest_bundle_bytes answers None: the ingest failed in the core.
IngestFails ==
    \E took \in Receivable("peer") :
    \E t \in Ticked(syncer["peer"], {}, took) :
        /\ t.done # {}
        /\ Mishap("fault")
        /\ air' = [air EXCEPT !["peer"] = @ \ took]
        /\ syncer' = [syncer EXCEPT !["peer"] = t.y]
        /\ UNCHANGED <<rows, ring, rescan, fresh, ingested>>

\* m_dtn_push: the row first, then a signal that may find the channel full.
PushBundle(b, heard) ==
    /\ b \in DOMAIN rows => rows[b].state = "pending"
    /\ rows' = IF b \in DOMAIN rows THEN rows
               ELSE Put(rows, b, [state |-> "pending", quiet |-> TRUE, expired |-> FALSE])
    /\ ring' = (ring \/ heard)
    /\ UNCHANGED <<rescan, fresh, syncer, air, ingested, mishaps>>
-----------------------------------------------------------------------------
(* Time, and failures of the carrier's adapter.                            *)

\* resend_interval_secs pass at s.
Elapse(s) ==
    /\ syncer' = [syncer EXCEPT ![s].cache = [p \in DOMAIN @ |-> TRUE],
                                ![s].inbound = [p \in DOMAIN @ |-> TRUE]]
    /\ UNCHANGED <<rows, ring, rescan, fresh, air, ingested, mishaps>>

\* push_rescan_secs pass at home.
RescanDue ==
    /\ rescan' = TRUE
    /\ rows' = [b \in DOMAIN rows |->
                  IF b \in Pending(rows) THEN [rows[b] EXCEPT !.quiet = TRUE] ELSE rows[b]]
    /\ UNCHANGED <<ring, fresh, syncer, air, ingested, mishaps>>

\* push_ttl_secs pass since the row was queued.
TtlPasses(b) ==
    /\ b \in Pending(rows)  /\ ~rows[b].expired
    /\ Mishap("silence")
    /\ rows' = [rows EXCEPT ![b].expired = TRUE]
    /\ UNCHANGED <<ring, rescan, fresh, syncer, air, ingested>>

\* prune_outbound: cache_ttl_secs pass without a word of the other end.
CacheExpires(s, p) ==
    /\ p \in DOMAIN syncer[s].cache
    /\ Mishap("silence")
    /\ syncer' = [syncer EXCEPT ![s].cache = Drop(@, {p}),
                                ![s].queued = {k \in @ : k[1] # p}]
    /\ UNCHANGED <<rows, ring, rescan, fresh, air, ingested>>

\* Reassembler::prune: ttl_secs pass since a partial's first chunk.
PartialExpires(s, p) ==
    /\ p \in DOMAIN syncer[s].partial
    /\ Mishap("silence")
    /\ syncer' = [syncer EXCEPT ![s].partial = Drop(@, {p})]
    /\ UNCHANGED <<rows, ring, rescan, fresh, air, ingested>>

\* The adapter dies and is spawned again with an empty syncer.
Respawn(s) ==
    /\ Mishap("respawn")
    /\ syncer' = [syncer EXCEPT ![s] = NewSyncer]
    /\ fresh' = (fresh \/ s = "home")
    /\ UNCHANGED <<rows, ring, rescan, air, ingested>>

PushNext ==
    \/ HomeStep \/ PeerStep \/ IngestFails
    \/ \E b \in Pushes, heard \in BOOLEAN : PushBundle(b, heard)
    \/ \E s \in Ends : Elapse(s) \/ Respawn(s)
    \/ \E s \in Ends, p \in Payloads : CacheExpires(s, p) \/ PartialExpires(s, p)
    \/ \E b \in Pushes : TtlPasses(b)
    \/ RescanDue

PushSpec == PushInit /\ [][PushNext]_pushVars
-----------------------------------------------------------------------------
(* Properties.                                                             *)

\* A chunk the syncer believes to be queued is queued, and so is a request for
\* missing chunks: a phantom would suppress its retransmission for ever
\* (enqueue_chunk, tick and prune_outbound keep the two in step).
NoPhantoms ==
    \A s \in Ends :
        LET y  == syncer[s]
            fs == UNION {ToSet(y.queue[c]) : c \in 0 .. 2}
        IN  /\ y.queued \subseteq {<<f.pay, f.idx>> : f \in {g \in fs : g.type = "chunk"}}
            /\ y.asked \subseteq {f.pay : f \in {g \in fs : g.type = "ask"}}

\* The peer has finished the bundle of a pending push, and would not take it
\* from the carrier again, but has nothing left to send the receipt from.
Stranded(b) ==
    /\ b \in Pending(rows)
    /\ Bundle(b) \in ToSet(syncer["peer"].recent)
    /\ Receipt(b) \notin DOMAIN syncer["peer"].cache

\* A push is not stranded: while it is pending, the receipt of a bundle the
\* peer has finished stays in the peer's cache until it is acknowledged,
\* however many frames are lost and adapters respawned.  Only an ingest that
\* fails, or a home that is silent for the whole life of the cache, strands it.
NeverStranded ==
    (mishaps.fault = 0 /\ mishaps.silence = 0) => \A b \in Pushes : ~Stranded(b)

\* A push is settled once: no receipt, TTL or re-scan changes a row that was
\* delivered or abandoned, and what is delivered was ingested by the peer.
RowsSettleOnce ==
    [][\A b \in DOMAIN rows :
          /\ b \notin Pending(rows) => rows'[b].state = rows[b].state
          /\ rows'[b].state = "delivered" => b \in ingested]_pushVars
=============================================================================
