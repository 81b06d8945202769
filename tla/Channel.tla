------------------------------ MODULE Channel -------------------------------
(***************************************************************************)
(* One phone and its station: the two-round pairing handshake              *)
(* (pairing.rs), the paired list with its request-nonce marks (paired.rs), *)
(* the authenticated request channel (core.rs authenticate_envelope) and   *)
(* the long-poll for events it carries (events.rs, mobile_server.rs).      *)
(* Everything is keyed by the phone's address, so one phone is modelled.   *)
(*                                                                         *)
(* The network keeps whatever was ever sent and delivers any of it at any  *)
(* time, again and again, or never.  The paired list lives in memory and   *)
(* in a file that is written after it: a write may fail, and a restart     *)
(* forgets pairing sessions, parked polls and what was not written.  A     *)
(* read of the log may fail too: what was read until then goes out.        *)
(* Signatures and seals are perfect: a finish is accepted only for the     *)
(* commitment and station nonce it was signed over.  Every request is a    *)
(* poll here; another method differs only in what it does once dispatched. *)
(***************************************************************************)
EXTENDS Integers, Sequences, FiniteSets

CONSTANTS
    Tries,        \* the phone's pairing attempts, each a commitment
    MaxSessions,  \* bound on sessions the station opens
    PairSkew,     \* REQUESTED_AT_SKEW_SECS and TIMESTAMP_SKEW_SECS
    PendingTtl,   \* PENDING_TTL_SECS
    MaxRequests,  \* bound on the phone's requests
    MaxLog,       \* bound on the log
    LastTick,     \* bound on the clock
    MaxFaults     \* bound on failed reads and writes and restarts

VARIABLES
    tick,        \* the station's clock
    session,     \* the pending session of the phone's address
    sessions,    \* how many were opened: the station's fresh nonces
    wire,        \* every pairing message ever sent
    book, file,  \* the paired list in memory and on disk
    requests,    \* every request ever sent
    dispatched,  \* how often each request got past authentication
    events,      \* the log: an event for the phone, its enrollment, another entry
    parked,      \* polls held open
    replies,     \* replies ever sent
    phone,       \* the phone's cursor, the events it has shown and, a history
                 \* variable, the ones a failed read kept from its replies
    faults

channelVars == <<tick, session, sessions, wire, book, file, requests, dispatched,
                 events, parked, replies, phone, faults>>

pairVars == <<session, sessions, wire>>
pollVars == <<requests, dispatched, events, parked, replies, phone>>

NoSession == [stage |-> "none", try |-> 0, at |-> 0, since |-> 0, nonce |-> 0]

ChannelInit ==
    /\ tick = 0 /\ session = NoSession /\ sessions = 0 /\ wire = {}
    /\ book = [paired |-> FALSE, mark |-> 0, retired |-> 0] /\ file = book
    /\ requests = << >> /\ dispatched = << >>
    /\ events = << >> /\ parked = {} /\ replies = {}
    /\ phone = [cursor |-> 0, shown |-> {}, missed |-> {}]
    /\ faults = 0

WithinSkew(at) == tick - at <= PairSkew /\ at - tick <= PairSkew

----------------------------------------------------------------------------
(* Pairing.                                                                *)

Start(t, at)  == [kind |-> "start", try |-> t, at |-> at]
OfferFor(t, n) == [kind |-> "offer", try |-> t, nonce |-> n]
Finish(t, n)  == [kind |-> "finish", try |-> t, nonce |-> n]

Revealed(t) == \E n \in 1 .. MaxSessions : Finish(t, n) \in wire

\* The phone commits to a fresh nonce.
PhoneStarts(t) ==
    /\ \A m \in wire : m.try # t
    /\ wire' = wire \cup {Start(t, tick)}
    /\ UNCHANGED <<tick, session, sessions, book, file, pollVars, faults>>

\* The phone answers the first offer for its commitment and shows the code.
PhoneReveals(t, n) ==
    /\ OfferFor(t, n) \in wire /\ ~Revealed(t)
    /\ wire' = wire \cup {Finish(t, n)}
    /\ UNCHANGED <<tick, session, sessions, book, file, pollVars, faults>>

\* The session left once prune_pending has dropped an aged one.
Pruned ==
    IF session # NoSession /\ tick - session.since > PendingTtl THEN NoSession ELSE session

\* do_pair_start: a repeat of the awaiting session's start is answered again, a
\* start that is not newer is refused, a newer one replaces the session.
PairStart(t, at) ==
    /\ Start(t, at) \in wire /\ WithinSkew(at)
    /\ \/ /\ Pruned # NoSession /\ Pruned.try = t
          /\ session' = Pruned
          /\ wire' = IF Pruned.stage = "reveal"
                     THEN wire \cup {OfferFor(t, Pruned.nonce)} ELSE wire
          /\ UNCHANGED sessions
       \/ /\ Pruned # NoSession /\ Pruned.try # t /\ at <= Pruned.at
          /\ session' = Pruned
          /\ UNCHANGED <<wire, sessions>>
       \/ /\ Pruned = NoSession \/ (Pruned.try # t /\ at > Pruned.at)
          /\ sessions < MaxSessions
          /\ sessions' = sessions + 1
          /\ session' = [stage |-> "reveal", try |-> t, at |-> at,
                         since |-> tick, nonce |-> sessions + 1]
          /\ wire' = wire \cup {OfferFor(t, sessions + 1)}
    /\ UNCHANGED <<tick, book, file, pollVars, faults>>

\* do_pair_finish
PairFinish(t, n) ==
    /\ Finish(t, n) \in wire
    /\ session' = IF /\ Pruned # NoSession /\ Pruned.stage = "reveal"
                     /\ Pruned.try = t /\ Pruned.nonce = n
                  THEN [Pruned EXCEPT !.stage = "operator", !.since = tick]
                  ELSE Pruned
    /\ UNCHANGED <<tick, sessions, wire, book, file, pollVars, faults>>

Faulty(bad) ==
    /\ bad => faults < MaxFaults
    /\ faults' = IF bad THEN faults + 1 ELSE faults

\* A save that succeeds leaves the file as the memory; one that fails, as it was.
Saved(fails) == file' = IF fails THEN file ELSE book'

Higher(a, b) == IF a > b THEN a ELSE b

\* PairedMobiles::add with the mark of the last pairing reset.
AddsAfresh(b) == [paired |-> TRUE, mark |-> 0, retired |-> 0]

\* PairedMobiles::add: the mark carries over a re-pair and an unpair.
Adds(b) ==
    [paired |-> TRUE, mark |-> Higher(IF b.paired THEN b.mark ELSE 0, b.retired), retired |-> 0]

Enrolled == \E i \in DOMAIN events : events[i] = "enroll"

\* m_pair_confirm on the writer, with a code the phone shows.  ensure_enrolled
\* comes first: when it fails the session stays, and a crash after it leaves a
\* member enrolled and not paired.  When the save fails the operator sees an
\* error, and the phone is paired until the station restarts.
PairConfirm(t, n, mishap) ==
    /\ Finish(t, n) \in wire
    /\ Pruned # NoSession /\ Pruned.stage = "operator"
    /\ Pruned.try = t /\ Pruned.nonce = n
    /\ Faulty(mishap # "none")
    /\ Enrolled \/ mishap = "enroll" \/ Len(events) < MaxLog
    /\ events' = IF Enrolled \/ mishap = "enroll" THEN events ELSE Append(events, "enroll")
    /\ session' = IF mishap = "enroll" THEN Pruned ELSE NoSession
    /\ book' = CASE mishap = "enroll" -> book
                 [] mishap = "crash"  -> file
                 [] OTHER             -> Adds(book)
    /\ Saved(mishap # "none")
    /\ parked' = IF mishap = "crash" THEN {} ELSE parked
    /\ UNCHANGED <<tick, sessions, wire, requests, dispatched, replies, phone>>

\* m_unpair; PairedMobiles::remove keeps the mark.
Unpair(fails) ==
    /\ book.paired
    /\ book' = [paired |-> FALSE, mark |-> 0, retired |-> Higher(book.retired, book.mark)]
    /\ Faulty(fails) /\ Saved(fails)
    /\ UNCHANGED <<tick, pairVars, pollVars>>

----------------------------------------------------------------------------
(* Requests and events.                                                    *)

\* The phone numbers its requests upwards, the number recorded before use.
PhoneSends ==
    /\ Len(requests) < MaxRequests
    /\ requests' = Append(requests, [at |-> tick, cursor |-> phone.cursor])
    /\ dispatched' = Append(dispatched, 0)
    /\ UNCHANGED <<tick, pairVars, book, file, events, parked, replies, phone, faults>>

\* The log positions from i to j that are events for the phone.
Between(i, j) == {e \in i .. j : events[e] = "event"}

\* What a poll from a cursor gets to read: all up to the tail, or part of it
\* when the snapshot or an entry cannot be read, or nothing when the tail cannot.
Reads(cursor) ==
    [tail : {Len(events)}, upto : cursor .. Len(events)] \cup {[tail |-> 0, upto |-> 0]}

Partial(read) == read # [tail |-> Len(events), upto |-> Len(events)]

\* The last entry left out.
EventsBefore(cursor, upto) == Between(cursor + 1, upto - 1)

\* events_since
EventsSince(cursor, upto) == Between(cursor + 1, upto)

\* The cursor is the tail, however far the read got.
Reply(cursor, read) ==
    [cursor |-> read.tail, shown  |-> EventsSince(cursor, read.upto),
                           missed |-> Between(read.upto + 1, read.tail)]

\* do_subscribe behind authenticate_envelope: paired, in time, a nonce above
\* the mark, the mark saved; then what is new, or the poll is parked.
Subscribe(n, fails, read) ==
    /\ book.paired /\ WithinSkew(requests[n].at)
    /\ n > book.mark
    /\ book' = [book EXCEPT !.mark = n]
    /\ Faulty(fails \/ Partial(read)) /\ Saved(fails)
    /\ IF fails THEN UNCHANGED <<dispatched, parked, replies>>
       ELSE /\ dispatched' = [dispatched EXCEPT ![n] = @ + 1]
            /\ IF EventsSince(requests[n].cursor, read.upto) = {}
               THEN parked' = parked \cup {requests[n].cursor} /\ UNCHANGED replies
               ELSE replies' = replies \cup {Reply(requests[n].cursor, read)} /\ UNCHANGED parked
    /\ UNCHANGED <<tick, pairVars, requests, events, phone>>

\* A parked poll is answered if anything read is for the phone.
Wakes(c, read) == EventsSince(c, read.upto) # {}

\* do_collect_events: woken by the tail, or by the hold timer with a heartbeat
\* that carries whatever was read and moves the cursor to the tail.
CollectEvents(c, force, read) ==
    /\ force \/ Wakes(c, read)
    /\ Faulty(Partial(read))
    /\ parked' = parked \ {c}
    /\ replies' = replies \cup {Reply(c, read)}
    /\ UNCHANGED <<tick, pairVars, book, file, requests, dispatched, events, phone>>

PhoneHears(r) ==
    /\ phone' = [cursor |-> r.cursor, shown  |-> phone.shown \cup r.shown,
                                      missed |-> phone.missed \cup r.missed]
    /\ UNCHANGED <<tick, pairVars, book, file, requests, dispatched, events, parked, replies, faults>>

LogGrows(kind) ==
    /\ Len(events) < MaxLog
    /\ events' = Append(events, kind)
    /\ UNCHANGED <<tick, pairVars, book, file, requests, dispatched, parked, replies, phone, faults>>

----------------------------------------------------------------------------
StationRestarts ==
    /\ faults < MaxFaults /\ faults' = faults + 1
    /\ session' = NoSession /\ book' = file /\ parked' = {}
    /\ UNCHANGED <<tick, sessions, wire, file, requests, dispatched, events, replies, phone>>

Ticks ==
    /\ tick < LastTick /\ tick' = tick + 1
    /\ UNCHANGED <<pairVars, book, file, pollVars, faults>>

ChannelNext ==
    \/ \E t \in Tries : PhoneStarts(t)
    \/ \E t \in Tries, at \in 0 .. LastTick : PairStart(t, at)
    \/ \E t \in Tries, n \in 1 .. MaxSessions :
          \/ PhoneReveals(t, n)
          \/ PairFinish(t, n)
          \/ \E mishap \in {"none", "enroll", "crash", "save"} : PairConfirm(t, n, mishap)
    \/ \E fails \in BOOLEAN : Unpair(fails)
    \/ PhoneSends
    \/ \E n \in DOMAIN requests : \E fails \in BOOLEAN, read \in Reads(requests[n].cursor) :
          Subscribe(n, fails, read)
    \/ \E c \in parked : \E force \in BOOLEAN, read \in Reads(c) : CollectEvents(c, force, read)
    \/ \E r \in replies : PhoneHears(r)
    \/ \E kind \in {"event", "other"} : LogGrows(kind)
    \/ StationRestarts
    \/ Ticks

ChannelSpec == ChannelInit /\ [][ChannelNext]_channelVars
----------------------------------------------------------------------------
\* A recorded request is dispatched at most once, whatever the network repeats
\* and through failed writes, restarts, unpairing and pairing again: the mark
\* in force is never below a request that got through (paired.rs).
DispatchedOnce == \A n \in DOMAIN dispatched : dispatched[n] <= 1

\* The phone's cursor never passes an event it was not shown, although replies
\* are lost, come late or out of order and heartbeats move the cursor too
\* (do_subscribe, do_collect_events).  The one way an event is skipped is a read
\* of the log that failed below it while the reply still named the tail.
CursorCoversEvents == Between(1, phone.cursor) \subseteq phone.shown \cup phone.missed
=============================================================================
