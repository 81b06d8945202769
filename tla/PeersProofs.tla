---------------------------- MODULE PeersProofs -----------------------------
(***************************************************************************)
(* What a station's peers and phones can rely on: a request that got       *)
(* through is never dispatched again, and only a failed read of the log    *)
(* makes a phone skip an event (Channel); a replica holds what its cursor  *)
(* says it holds (Replica); a carrier stays within its duty cycle          *)
(* (Airtime); a pushed bundle is not stranded, nor settled twice (Push).   *)
(***************************************************************************)
EXTENDS Channel, Replica, Airtime, Push, DataTheorems, FiniteSetTheorems

-----------------------------------------------------------------------------
(* Channel: the marks of requests.                                         *)

\* A paired list, for one phone: a mark while it is paired, the retired mark
\* of its last pairing while it is not.
BookType ==
    {b \in [paired : BOOLEAN, mark : Nat, retired : Nat] :
        IF b.paired THEN b.retired = 0 ELSE b.mark = 0}

\* A request at or below the floor of a list is refused, now or, for a phone
\* that is not paired, from its next pairing on.
MarkFloor(b) == Higher(b.mark, b.retired)

\* Whatever got through is at or below the mark in memory, and at or below the
\* one on disk, which a restart brings back.
MarksCover ==
    \A n \in DOMAIN dispatched :
        dispatched[n] > 0 => n <= MarkFloor(book) /\ n <= MarkFloor(file)

RequestInv ==
    /\ book \in BookType /\ file \in BookType
    /\ dispatched \in Seq(Nat) /\ Len(dispatched) = Len(requests)
    /\ requests \in Seq([at : Nat, cursor : Nat])
    /\ MarksCover
    /\ DispatchedOnce

\* No list ever forgets a mark: pairing again and unpairing keep the floor.
LEMMA FloorKept ==
    ASSUME NEW b \in BookType
    PROVE  /\ Adds(b) \in BookType /\ MarkFloor(Adds(b)) = MarkFloor(b)
           /\ LET gone == [paired |-> FALSE, mark |-> 0, retired |-> Higher(b.retired, b.mark)]
              IN  gone \in BookType /\ MarkFloor(gone) = MarkFloor(b)
  BY DEF BookType, MarkFloor, Adds, Higher

\* A change of the list that keeps its floor, saved or not.
LEMMA SavedKeepsMarks ==
    ASSUME RequestInv, UNCHANGED <<dispatched, requests>>,
           book' \in BookType, MarkFloor(book)' >= MarkFloor(book),
           file' \in {file, book'}
    PROVE  RequestInv'
<1>1. MarkFloor(book) \in Nat /\ MarkFloor(book)' \in Nat
  BY DEF RequestInv, BookType, MarkFloor, Higher
<1>2. MarkFloor(file)' \in {MarkFloor(file), MarkFloor(book)'}
  BY DEF MarkFloor
<1>3. MarkFloor(file) \in Nat
  BY DEF RequestInv, BookType, MarkFloor, Higher
<1>4. DOMAIN dispatched \subseteq Nat
  BY DEF RequestInv
<1>5. MarksCover'
  BY <1>1, <1>2, <1>3, <1>4 DEF MarksCover, RequestInv
<1> QED
  BY <1>5 DEF RequestInv, DispatchedOnce

LEMMA PhoneSendsKeepsMarks ==
    ASSUME RequestInv, PhoneSends, tick \in Nat, phone.cursor \in Nat
    PROVE  RequestInv'
<1>1. /\ requests' \in Seq([at : Nat, cursor : Nat])
      /\ Len(requests') = Len(requests) + 1
  BY DEF RequestInv, PhoneSends
<1>2. /\ dispatched' \in Seq(Nat)
      /\ Len(dispatched') = Len(dispatched) + 1
      /\ \A n \in DOMAIN dispatched' :
            IF n \in DOMAIN dispatched THEN dispatched'[n] = dispatched[n]
                                       ELSE dispatched'[n] = 0
  BY DEF RequestInv, PhoneSends
<1>3. UNCHANGED <<book, file>>
  BY DEF PhoneSends
<1>4. MarksCover' /\ DispatchedOnce'
  <2>1. \A n \in DOMAIN dispatched' : dispatched'[n] > 0 =>
            n \in DOMAIN dispatched /\ dispatched'[n] = dispatched[n]
    BY <1>2
  <2>2. MarkFloor(book)' = MarkFloor(book) /\ MarkFloor(file)' = MarkFloor(file)
    BY <1>3
  <2>3. MarksCover'
    BY <2>1, <2>2 DEF RequestInv, MarksCover
  <2>4. DispatchedOnce'
    BY SMTT(30), <1>2 DEF RequestInv, DispatchedOnce
  <2> QED
    BY <2>3, <2>4
<1> QED
  BY <1>1, <1>2, <1>3, <1>4 DEF RequestInv

LEMMA SubscribeKeepsMarks ==
    ASSUME RequestInv, NEW n \in DOMAIN requests, NEW fails \in BOOLEAN, NEW read,
           Subscribe(n, fails, read)
    PROVE  RequestInv'
<1>1. /\ n \in Nat /\ n \in DOMAIN dispatched
      /\ book.paired /\ n > book.mark
      /\ book' = [paired |-> TRUE, mark |-> n, retired |-> 0]
      /\ MarkFloor(book) = book.mark /\ MarkFloor(book)' = n
      /\ book' \in BookType
  <2>1. n \in Nat /\ n \in DOMAIN dispatched
    BY DEF RequestInv
  <2>2. book.paired /\ n > book.mark /\ book' = [book EXCEPT !.mark = n]
    BY DEF Subscribe
  <2>3. book' = [paired |-> TRUE, mark |-> n, retired |-> 0]
    BY <2>2 DEF RequestInv, BookType
  <2>4. MarkFloor(book) = book.mark
    BY <2>2 DEF RequestInv, BookType, MarkFloor, Higher
  <2>5. MarkFloor(book)' = n /\ book' \in BookType
    BY <2>1, <2>3 DEF BookType, MarkFloor, Higher
  <2> QED
    BY <2>1, <2>2, <2>3, <2>4, <2>5
<1>2. CASE fails
  <2>1. UNCHANGED <<dispatched, requests>> /\ file' = file
    BY <1>2 DEF Subscribe, Saved
  <2>2. MarkFloor(book)' >= MarkFloor(book)
    BY <1>1 DEF RequestInv, BookType
  <2> QED
    BY <1>1, <2>1, <2>2, SavedKeepsMarks
<1>3. CASE ~fails
  <2>1. /\ file' = book' /\ requests' = requests
        /\ dispatched' = [dispatched EXCEPT ![n] = @ + 1]
    BY <1>3 DEF Subscribe, Saved
  <2>2. dispatched[n] = 0
    BY <1>1 DEF RequestInv, MarksCover, BookType
  <2>3. dispatched' \in Seq(Nat) /\ Len(dispatched') = Len(dispatched)
    BY <1>1, <2>1 DEF RequestInv
  <2>4. MarksCover'
    <3> SUFFICES ASSUME NEW i \in DOMAIN dispatched', dispatched'[i] > 0
                 PROVE  i <= n
      BY <1>1, <2>1 DEF MarksCover, MarkFloor
    <3>1. i \in DOMAIN dispatched /\ i \in Nat
      BY <2>1, <2>3 DEF RequestInv
    <3>2. CASE i # n
      BY <1>1, <2>1, <3>1, <3>2 DEF RequestInv, MarksCover, BookType
    <3> QED
      BY <3>2, <1>1
  <2>5. DispatchedOnce'
    BY <1>1, <2>1, <2>2 DEF RequestInv, DispatchedOnce
  <2> QED
    BY <1>1, <2>1, <2>3, <2>4, <2>5 DEF RequestInv
<1> QED
  BY <1>2, <1>3
-----------------------------------------------------------------------------
(* Channel: the phone's cursor.                                            *)

\* What the phone can be said to know: the events it was shown, and those a
\* failed read kept from it.
Told == phone.shown \cup phone.missed

\* The events up to c are all in some set.
Covered(c, some) == c \in 0 .. Len(events) /\ Between(1, c) \subseteq some

EventInv ==
    /\ tick \in Nat /\ events \in Seq({"event", "other", "enroll"})
    /\ Covered(phone.cursor, Told)
    /\ \A n \in DOMAIN requests : Covered(requests[n].cursor, Told)
    /\ \A c \in parked : Covered(c, Told)
    /\ \A r \in replies : Covered(r.cursor, Told \cup r.shown \cup r.missed)

\* The log only grows, so what was covered stays covered.
LEMMA CoveredLater ==
    ASSUME events \in Seq({"event", "other", "enroll"}), NEW kind,
           events' = events \/ events' = Append(events, kind),
           NEW c, NEW some, Covered(c, some)
    PROVE  Covered(c, some)'
<1>1. c \in 0 .. Len(events) /\ Len(events) \in Nat /\ Between(1, c) \subseteq some
  BY DEF Covered
<1>2. Len(events') \in Nat /\ Len(events) <= Len(events')
  OBVIOUS
<1>3. \A e \in 1 .. c : events'[e] = events[e]
  BY <1>1
<1>4. Between(1, c)' = Between(1, c)
  BY <1>3 DEF Between
<1> QED
  BY <1>1, <1>2, <1>4 DEF Covered

\* A reply to a poll from cursor c brings, or has missed, all there is after c
\* up to the cursor it carries.
LEMMA ReplyIsComplete ==
    ASSUME NEW c, NEW some, Covered(c, some), NEW read \in Reads(c),
           events \in Seq({"event", "other", "enroll"})
    PROVE  Covered(Reply(c, read).cursor,
                   some \cup Reply(c, read).shown \cup Reply(c, read).missed)
<1> DEFINE r == Reply(c, read)
<1>0. c \in Nat /\ Len(events) \in Nat /\ c \in 0 .. Len(events)
  BY DEF Covered
<1>1. /\ r.cursor = read.tail /\ r.shown = Between(c + 1, read.upto)
      /\ r.missed = Between(read.upto + 1, read.tail)
  BY DEF Reply, EventsSince
<1>2. CASE read \in [tail : {Len(events)}, upto : c .. Len(events)]
  <2>1. read.tail = Len(events) /\ read.upto \in c .. Len(events) /\ read.upto \in Nat
    BY <1>0, <1>2
  <2>2. Between(1, Len(events)) \subseteq
            Between(1, c) \cup Between(c + 1, read.upto) \cup Between(read.upto + 1, Len(events))
    BY <1>0, <2>1 DEF Between
  <2> QED
    BY <1>0, <1>1, <2>1, <2>2 DEF Covered
<1>3. CASE read = [tail |-> 0, upto |-> 0]
  <2>1. r.cursor = 0
    BY <1>1, <1>3
  <2> QED
    BY <1>0, <2>1 DEF Covered, Between
<1> QED
  BY <1>2, <1>3 DEF Reads

\* A poll answered adds a reply that is complete.
LEMMA AnsweredKeepsEvents ==
    ASSUME EventInv, NEW c, Covered(c, Told), NEW read \in Reads(c),
           replies' = replies \cup {Reply(c, read)}, parked' \subseteq parked,
           UNCHANGED <<tick, requests, events, phone>>
    PROVE  EventInv'
<1>1. Covered(Reply(c, read).cursor, Told \cup Reply(c, read).shown \cup Reply(c, read).missed)
  BY ReplyIsComplete DEF EventInv
<1>2. \A d, some : Covered(d, some)' <=> Covered(d, some)
  BY DEF Covered, Between
<1>3. Told' = Told
  BY DEF Told
<1> QED
  BY <1>1, <1>2, <1>3 DEF EventInv

\* Whatever leaves the phone, its requests and its replies alone.
LEMMA LogKeepsEvents ==
    ASSUME EventInv, NEW kind \in {"event", "other", "enroll"},
           events' = events \/ events' = Append(events, kind),
           tick' \in Nat, parked' \subseteq parked, UNCHANGED <<requests, replies, phone>>
    PROVE  EventInv'
<1>1. \A c, some : Covered(c, some) => Covered(c, some)'
  BY CoveredLater DEF EventInv
<1>2. Told' = Told
  BY DEF Told
<1>3. events' \in Seq({"event", "other", "enroll"})
  BY DEF EventInv
<1> QED
  BY <1>1, <1>2, <1>3 DEF EventInv

LEMMA EventStep ==
    ASSUME RequestInv, EventInv, [ChannelNext]_channelVars
    PROVE  EventInv'
<1>0. \A c, some, more : Covered(c, some) => Covered(c, some \cup more)
  BY DEF Covered
<1>1. ASSUME UNCHANGED <<requests, events, parked, replies, phone>>, tick' \in Nat
      PROVE  EventInv'
  BY <1>1, LogKeepsEvents
<1>2. CASE \/ \E t \in Tries : PhoneStarts(t)
           \/ \E t \in Tries, at \in 0 .. LastTick : PairStart(t, at)
           \/ \E t \in Tries, n \in 1 .. MaxSessions : PhoneReveals(t, n) \/ PairFinish(t, n)
           \/ \E fails \in BOOLEAN : Unpair(fails)
           \/ UNCHANGED channelVars
  <2>1. UNCHANGED <<tick, requests, events, parked, replies, phone>>
    BY <1>2 DEF PhoneStarts, PairStart, PhoneReveals, PairFinish, Unpair, channelVars, pollVars
  <2> QED
    BY <1>1, <2>1 DEF EventInv
<1>3. CASE Ticks
  BY <1>1, <1>3 DEF Ticks, pollVars, EventInv
<1>4. CASE PhoneSends
  <2>1. requests' = Append(requests, [at |-> tick, cursor |-> phone.cursor])
    BY <1>4 DEF PhoneSends
  <2>2. \A n \in DOMAIN requests' :
            \/ n \in DOMAIN requests /\ requests'[n] = requests[n]
            \/ requests'[n].cursor = phone.cursor
    BY <2>1 DEF RequestInv
  <2>3. UNCHANGED <<tick, events, parked, replies, phone>>
    BY <1>4 DEF PhoneSends
  <2>4. \A c, some : Covered(c, some)' <=> Covered(c, some)
    BY <2>3 DEF Covered, Between
  <2>5. Told' = Told
    BY <2>3 DEF Told
  <2> QED
    BY <2>2, <2>3, <2>4, <2>5 DEF EventInv
<1>5. ASSUME NEW n \in DOMAIN requests, NEW fails \in BOOLEAN,
             NEW read \in Reads(requests[n].cursor), Subscribe(n, fails, read)
      PROVE  EventInv'
  <2>1. UNCHANGED <<tick, requests, events, phone>>
    BY <1>5 DEF Subscribe
  <2>2. Covered(requests[n].cursor, Told)
    BY DEF EventInv
  <2>3. \/ UNCHANGED <<parked, replies>>
        \/ UNCHANGED parked /\ replies' = replies \cup {Reply(requests[n].cursor, read)}
        \/ UNCHANGED replies /\ parked' = parked \cup {requests[n].cursor}
    BY <1>5 DEF Subscribe
  <2>4. CASE UNCHANGED replies /\ parked' = parked \cup {requests[n].cursor}
    <3>1. \A c, some : Covered(c, some)' <=> Covered(c, some)
      BY <2>1 DEF Covered, Between
    <3>2. Told' = Told
      BY <2>1 DEF Told
    <3> QED
      BY <2>1, <2>2, <2>4, <3>1, <3>2 DEF EventInv
  <2>5. CASE UNCHANGED parked /\ replies' = replies \cup {Reply(requests[n].cursor, read)}
    BY <2>1, <2>2, <2>5, AnsweredKeepsEvents
  <2>6. CASE UNCHANGED <<parked, replies>>
    BY <1>1, <2>1, <2>6 DEF EventInv
  <2> QED
    BY <2>3, <2>4, <2>5, <2>6
<1>6. ASSUME NEW c \in parked, NEW force \in BOOLEAN, NEW read \in Reads(c),
             CollectEvents(c, force, read)
      PROVE  EventInv'
  <2>1. Covered(c, Told)
    BY DEF EventInv
  <2>2. /\ replies' = replies \cup {Reply(c, read)} /\ parked' \subseteq parked
        /\ UNCHANGED <<tick, requests, events, phone>>
    BY <1>6 DEF CollectEvents
  <2> QED
    BY <2>1, <2>2, AnsweredKeepsEvents
<1>7. ASSUME NEW r \in replies, PhoneHears(r)
      PROVE  EventInv'
  <2>1. /\ phone'.cursor = r.cursor /\ Told' = Told \cup r.shown \cup r.missed
        /\ UNCHANGED <<tick, requests, events, parked, replies>>
    BY <1>7 DEF PhoneHears, Told
  <2>2. \A c, some : Covered(c, some)' <=> Covered(c, some)
    BY <2>1 DEF Covered, Between
  <2>3. PICK more : Told' = Told \cup more /\ more = r.shown \cup r.missed
    BY <2>1
  <2>4. Covered(r.cursor, Told')
    <3>1. Covered(r.cursor, Told \cup r.shown \cup r.missed)
      BY DEF EventInv
    <3> QED
      BY <2>1, <3>1
  <2>5. \A c : Covered(c, Told) => Covered(c, Told')
    BY <1>0, <2>3
  <2>6. ASSUME NEW q \in replies
        PROVE  Covered(q.cursor, Told' \cup q.shown \cup q.missed)
    <3>1. Covered(q.cursor, Told \cup q.shown \cup q.missed)
      BY DEF EventInv
    <3>2. Told \cup q.shown \cup q.missed \cup more = Told' \cup q.shown \cup q.missed
      BY <2>3
    <3> QED
      BY <1>0, <3>1, <3>2
  <2> QED
    BY <2>1, <2>2, <2>4, <2>5, <2>6 DEF EventInv
<1>8. ASSUME NEW kind \in {"event", "other"}, LogGrows(kind)
      PROVE  EventInv'
  BY <1>8, LogKeepsEvents DEF LogGrows, EventInv
<1>9. CASE StationRestarts
  <2>1. UNCHANGED <<tick, requests, events, replies, phone>> /\ parked' \subseteq parked
    BY <1>9 DEF StationRestarts
  <2> QED
    BY <2>1, LogKeepsEvents DEF EventInv
<1>10. ASSUME NEW t \in Tries, NEW n \in 1 .. MaxSessions, NEW mishap, PairConfirm(t, n, mishap)
      PROVE  EventInv'
  <2>1. /\ UNCHANGED <<tick, requests, replies, phone>> /\ parked' \subseteq parked
        /\ events' = events \/ events' = Append(events, "enroll")
    BY <1>10 DEF PairConfirm
  <2> QED
    BY <2>1, LogKeepsEvents DEF EventInv
<1> QED
  BY <1>2, <1>3, <1>4, <1>5, <1>6, <1>7, <1>8, <1>9, <1>10 DEF ChannelNext

LEMMA RequestStep ==
    ASSUME RequestInv, EventInv, [ChannelNext]_channelVars
    PROVE  RequestInv'
<1>1. ASSUME UNCHANGED <<book, file, dispatched, requests>>
      PROVE  RequestInv'
  BY <1>1 DEF RequestInv, MarksCover, DispatchedOnce, MarkFloor
<1>2. CASE \/ \E t \in Tries : PhoneStarts(t)
           \/ \E t \in Tries, at \in 0 .. LastTick : PairStart(t, at)
           \/ \E t \in Tries, n \in 1 .. MaxSessions : PhoneReveals(t, n) \/ PairFinish(t, n)
           \/ UNCHANGED channelVars
  BY <1>1, <1>2 DEF PhoneStarts, PairStart, PhoneReveals, PairFinish, channelVars, pollVars
<1>3. CASE \/ \E c \in parked : \E force \in BOOLEAN, read \in Reads(c) : CollectEvents(c, force, read)
           \/ \E r \in replies : PhoneHears(r)
           \/ (\E kind \in {"event", "other"} : LogGrows(kind)) \/ Ticks
  BY <1>1, <1>3 DEF CollectEvents, PhoneHears, LogGrows, Ticks, pollVars
<1>4. ASSUME NEW t \in Tries, NEW n \in 1 .. MaxSessions,
             NEW mishap \in {"none", "enroll", "crash", "save"}, PairConfirm(t, n, mishap)
      PROVE  RequestInv'
  <2>0. UNCHANGED <<dispatched, requests>>
    BY <1>4 DEF PairConfirm
  <2>1. CASE mishap \in {"none", "save"}
    <3>1. book' = Adds(book) /\ file' \in {file, book'}
      BY <1>4, <2>1 DEF PairConfirm, Saved
    <3>2. book' \in BookType /\ MarkFloor(book)' = MarkFloor(book) /\ MarkFloor(book) \in Nat
      BY <3>1, FloorKept DEF RequestInv, MarkFloor, BookType, Higher
    <3> QED
      BY <2>0, <3>1, <3>2, SavedKeepsMarks
  <2>2. CASE mishap = "enroll"
    <3>1. book' = book /\ file' = file
      BY <1>4, <2>2 DEF PairConfirm, Saved
    <3> QED
      BY <1>1, <2>0, <3>1
  <2>3. CASE mishap = "crash"
    <3>1. book' = file /\ file' = file
      BY <1>4, <2>3 DEF PairConfirm, Saved
    <3> QED
      BY <2>0, <3>1 DEF RequestInv, MarksCover, DispatchedOnce, MarkFloor
  <2> QED
    BY <2>1, <2>2, <2>3
<1>5. ASSUME NEW fails \in BOOLEAN, Unpair(fails)
      PROVE  RequestInv'
  <2>1. /\ book' = [paired |-> FALSE, mark |-> 0, retired |-> Higher(book.retired, book.mark)]
        /\ file' \in {file, book'}
        /\ UNCHANGED <<dispatched, requests>>
    BY <1>5 DEF Unpair, Saved, pollVars
  <2>2. book' \in BookType /\ MarkFloor(book)' = MarkFloor(book) /\ MarkFloor(book) \in Nat
    BY <2>1, FloorKept DEF RequestInv, MarkFloor, BookType, Higher
  <2> QED
    BY <2>1, <2>2, SavedKeepsMarks
<1>6. CASE PhoneSends
  BY <1>6, PhoneSendsKeepsMarks DEF EventInv, Covered
<1>7. CASE StationRestarts
  BY <1>7 DEF StationRestarts, RequestInv, MarksCover, DispatchedOnce, MarkFloor
<1> QED
  BY <1>2, <1>3, <1>4, <1>5, <1>6, <1>7, SubscribeKeepsMarks DEF ChannelNext

ChannelInv == RequestInv /\ EventInv

LEMMA ChannelInvariant == ChannelSpec => []ChannelInv
<1>1. ChannelInit => ChannelInv
  BY DEF ChannelInit, ChannelInv, RequestInv, EventInv, MarksCover, DispatchedOnce, BookType,
         Covered, Between, Told
<1>2. ChannelInv /\ [ChannelNext]_channelVars => ChannelInv'
  BY RequestStep, EventStep DEF ChannelInv
<1> QED
  BY <1>1, <1>2, PTL DEF ChannelSpec

\* For any number of requests, pairings, faults and any log: no request of the
\* phone gets past authentication twice.  The mark on disk covers whatever got
\* through, since Subscribe dispatches only what it has saved.
THEOREM RequestTheorem == ChannelSpec => []DispatchedOnce
<1>1. ChannelInv => DispatchedOnce
  BY DEF ChannelInv, RequestInv
<1> QED
  BY <1>1, ChannelInvariant, PTL

\* For any log, any order of replies and any failed reads: whatever lies below
\* the phone's cursor and concerns it has been shown, or lay past the point where
\* a read for one of the phone's replies failed.
THEOREM CursorTheorem == ChannelSpec => []CursorCoversEvents
<1>1. ChannelInv => CursorCoversEvents
  BY DEF ChannelInv, EventInv, CursorCoversEvents, Covered, Told
<1> QED
  BY <1>1, ChannelInvariant, PTL
-----------------------------------------------------------------------------
(* Replica: what append_raw leaves in the replica's log.                   *)

\* log[i] is the replica's log after the first i entries.
IsAppending(log, entries, k) ==
    log = [i \in 0 .. k |->
             IF i = 0 THEN held
             ELSE IF Verifies(entries[i]) /\ entries[i] \notin ToSet(log[i - 1])
                  THEN Append(log[i - 1], entries[i])
                  ELSE log[i - 1]]

LEMMA AppendingExists ==
    ASSUME NEW entries, NEW k \in Nat
    PROVE  \E log : IsAppending(log, entries, k)
<1> DEFINE Bad == {j \in 0 .. k : ~ \E log : IsAppending(log, entries, j)}
<1>1. SUFFICES ASSUME Bad # {} PROVE FALSE
  OBVIOUS
<1>2. Bad \subseteq Nat
  OBVIOUS
<1> HIDE DEF Bad
<1>3. PICK j \in Bad : \A l \in Bad : j <= l
  BY <1>1, <1>2, LeastNatural
<1> USE DEF Bad
<1>4. CASE j = 0
  <2>1. IsAppending([i \in 0 .. 0 |-> held], entries, 0)
    BY DEF IsAppending
  <2> QED
    BY <1>3, <1>4, <2>1
<1>5. CASE j # 0
  <2>1. j - 1 \in 0 .. k /\ j - 1 \notin Bad
    BY <1>3, <1>5
  <2>2. PICK log : IsAppending(log, entries, j - 1)
    BY <2>1
  <2> DEFINE Step(b, i) == IF i = 0 THEN held
                           ELSE IF Verifies(entries[i]) /\ entries[i] \notin ToSet(b[i - 1])
                                THEN Append(b[i - 1], entries[i])
                                ELSE b[i - 1]
             more == [i \in 0 .. j |-> IF i < j THEN log[i] ELSE Step(log, j)]
  <2>3. \A i \in 0 .. j - 1 : log[i] = Step(log, i)
    BY <2>2 DEF IsAppending
  <2>4. ASSUME NEW i \in 0 .. j PROVE more[i] = Step(more, i)
    <3>1. j \in Nat /\ (i # 0 => more[i - 1] = log[i - 1])
      BY <1>3
    <3>2. Step(more, i) = Step(log, i)
      BY <3>1
    <3>3. CASE i = j
      BY <3>1, <3>2, <3>3
    <3>4. CASE i # j
      <4>1. i \in 0 .. j - 1 /\ more[i] = log[i]
        BY <3>1, <3>4
      <4> HIDE DEF more, Step
      <4> QED
        BY <2>3, <3>2, <4>1
    <3> QED
      BY <3>3, <3>4
  <2>5. IsAppending(more, entries, j)
    <3>1. more = [i \in 0 .. j |-> more[i]]
      OBVIOUS
    <3> HIDE DEF more
    <3> QED
      BY <2>4, <3>1 DEF IsAppending
  <2> QED
    BY <1>3, <2>5
<1> QED
  BY <1>4, <1>5

\* Nothing is lost, and what verifies is there.
LEMMA AppendedHolds ==
    ASSUME NEW entries \in Seq(LogEntries), NEW k \in 0 .. Len(entries),
           held \in Seq(LogEntries)
    PROVE  /\ Appended(entries, k) \in Seq(LogEntries)
           /\ Held \subseteq ToSet(Appended(entries, k))
           /\ \A i \in 1 .. k : Verifies(entries[i]) => entries[i] \in ToSet(Appended(entries, k))
<1> DEFINE log == CHOOSE l : IsAppending(l, entries, k)
           Holds(j) == /\ log[j] \in Seq(LogEntries)
                       /\ Held \subseteq ToSet(log[j])
                       /\ \A i \in 1 .. j : Verifies(entries[i]) => entries[i] \in ToSet(log[j])
           Bad == {j \in 0 .. k : ~ Holds(j)}
<1>1. Appended(entries, k) = log[k]
  BY DEF Appended, IsAppending
<1>2. IsAppending(log, entries, k)
  <2>1. k \in Nat
    OBVIOUS
  <2>2. \E l : IsAppending(l, entries, k)
    BY <2>1, AppendingExists
  <2> QED
    BY <2>2
<1> HIDE DEF log
<1>3. Bad \subseteq Nat
  OBVIOUS
<1>4. ASSUME Bad # {} PROVE FALSE
  <2> HIDE DEF Bad
  <2>1. PICK j \in Bad : \A l \in Bad : j <= l
    BY <1>3, <1>4, LeastNatural
  <2> USE DEF Bad
  <2>2. j # 0
    BY <1>2, <2>1 DEF IsAppending, Held
  <2>3. Holds(j - 1) /\ j \in 1 .. k /\ entries[j] \in LogEntries
    BY <2>1, <2>2
  <2>4. log[j] = IF Verifies(entries[j]) /\ entries[j] \notin ToSet(log[j - 1])
                 THEN Append(log[j - 1], entries[j]) ELSE log[j - 1]
    <3>1. \A i \in 0 .. k :
            log[i] = IF i = 0 THEN held
                     ELSE IF Verifies(entries[i]) /\ entries[i] \notin ToSet(log[i - 1])
                          THEN Append(log[i - 1], entries[i])
                          ELSE log[i - 1]
      BY <1>2 DEF IsAppending
    <3> QED
      BY <2>3, <3>1
  <2>5. /\ log[j] \in Seq(LogEntries)
        /\ ToSet(log[j - 1]) \subseteq ToSet(log[j])
        /\ Verifies(entries[j]) => entries[j] \in ToSet(log[j])
    BY <2>3, <2>4, ToSetAppend
  <2>6. Holds(j)
    BY <2>3, <2>5
  <2> QED
    BY <2>1, <2>6
<1>5. Holds(k)
  BY <1>4
<1> QED
  BY <1>1, <1>5
-----------------------------------------------------------------------------
(* Replica: the page the writer answers with.                              *)

\* A page is a stretch of the writer's log, and ends within it unless empty.
LEMMA PageOfLog ==
    ASSUME served \in Seq(LogEntries), NEW from \in Nat \ {0}, NEW to \in Nat
    PROVE  LET page == LogRange(from, to)
           IN  /\ page.next \in Nat /\ page.next >= from
               /\ page.next = from \/ page.next - 1 <= Len(served)
               /\ page.entries = SubSeq(served, from, page.next - 1)
<1> DEFINE last == Min({to, Len(served), from + PageEntries - 1})
           ends == {i \in from .. last : Fits(from, i)}
           end  == IF ends = {} THEN from - 1 ELSE Max(ends)
<1>1. LogRange(from, to) = [entries |-> SubSeq(served, from, end), next |-> end + 1]
  BY DEF LogRange
<1>2. last \in Int /\ last <= Len(served)
  <2>1. from + PageEntries - 1 \in Int /\ to \in Int /\ Len(served) \in Int
    BY ReplicaAssumption
  <2> HIDE DEF last
  <2> QED
    BY <2>1, MinOfThree DEF last
<1> HIDE DEF last
<1>3. ends # {} => end \in from .. last
  <2>1. ends \subseteq from .. last
    OBVIOUS
  <2>2. from \in Int
    OBVIOUS
  <2> HIDE DEF ends
  <2>3. ASSUME ends # {} PROVE Max(ends) \in ends
    BY <1>2, <2>1, <2>2, <2>3, MaxOfRange
  <2> QED
    BY <2>1, <2>3
<1>4. ends = {} => end = from - 1
  OBVIOUS
<1> HIDE DEF end
<1>5. Len(served) \in Nat
  OBVIOUS
<1>6. end + 1 \in Nat /\ end + 1 >= from /\ (end + 1 = from \/ end <= Len(served)) /\ (end + 1) - 1 = end
  BY <1>2, <1>3, <1>4, <1>5
<1> QED
  BY <1>1, <1>6
-----------------------------------------------------------------------------
(* Replica: what lies below the cursor is held.                            *)

ReplicaTypeOK ==
    /\ served \in Seq(LogEntries) /\ held \in Seq(LogEntries)
    /\ pull \in Nat \ {0} /\ eclipsed \in BOOLEAN
    /\ round.phase \in {"idle", "pull", "page"}
    /\ round.phase \in {"pull", "page"} => round.tail \in Nat

\* While the writer was not cut back below what was pulled or is about to be
\* applied, that is still there, and the cursor stands after what is held.
PullInv ==
    ~eclipsed =>
        /\ pull - 1 <= Len(served)
        /\ \A i \in 1 .. pull - 1 : Verifies(served[i]) => served[i] \in Held

\* A page in hand begins at the cursor and is what the writer serves there.
PageInv ==
    round.phase = "page" =>
        /\ round.page.next \in Nat /\ round.page.next >= pull
        /\ round.page.entries \in Seq(LogEntries)
        /\ Len(round.page.entries) = round.page.next - pull
        /\ ~eclipsed =>
             /\ round.page.next - 1 <= Len(served)
             /\ \A i \in pull .. round.page.next - 1 :
                   served[i] = round.page.entries[i - pull + 1]

ReplicaInv == ReplicaTypeOK /\ PullInv /\ PageInv

\* A page in hand stays good while the first n entries of the writer's log do,
\* and it ends among them.
LEMMA SamePage ==
    ASSUME ReplicaInv, UNCHANGED <<pull, round>>, ~eclipsed' => ~eclipsed,
           NEW n \in Nat, n <= Len(served), n <= Len(served'),
           \A i \in 1 .. n : served'[i] = served[i],
           Len(served') \in Nat,
           ~eclipsed' /\ round.phase = "page" => round.page.next - 1 <= n
    PROVE  PageInv'
<1> SUFFICES ASSUME round.phase = "page"
             PROVE  /\ round.page.next \in Nat /\ round.page.next >= pull
                    /\ round.page.entries \in Seq(LogEntries)
                    /\ Len(round.page.entries) = round.page.next - pull
                    /\ ~eclipsed' =>
                         /\ round.page.next - 1 <= Len(served')
                         /\ \A i \in pull .. round.page.next - 1 :
                               served'[i] = round.page.entries[i - pull + 1]
  BY DEF PageInv
<1>1. /\ round.page.next \in Nat /\ round.page.next >= pull
      /\ round.page.entries \in Seq(LogEntries)
      /\ Len(round.page.entries) = round.page.next - pull
  BY DEF ReplicaInv, PageInv
<1>2. ASSUME ~eclipsed'
      PROVE  round.page.next - 1 <= Len(served')
  BY <1>1, <1>2
<1>3. ASSUME ~eclipsed', NEW i \in pull .. round.page.next - 1
      PROVE  served'[i] = round.page.entries[i - pull + 1]
  <2>1. served[i] = round.page.entries[i - pull + 1]
    BY <1>3 DEF ReplicaInv, PageInv
  <2>2. i \in 1 .. n
    BY <1>1, <1>3 DEF ReplicaInv, ReplicaTypeOK
  <2> QED
    BY <2>1, <2>2
<1> QED
  BY <1>1, <1>2, <1>3

LEMMA WriterAppendsKeeps ==
    ASSUME ReplicaInv, NEW e \in LogEntries, WriterAppends(e)
    PROVE  ReplicaInv'
<1>1. /\ served' \in Seq(LogEntries) /\ Len(served') = Len(served) + 1
      /\ \A i \in 1 .. Len(served) : served'[i] = served[i]
  BY DEF WriterAppends, ReplicaInv, ReplicaTypeOK
<1>2. UNCHANGED <<held, pull, round, eclipsed>>
  BY DEF WriterAppends
<1>3. ReplicaTypeOK' /\ Len(served) \in Nat
  BY <1>1, <1>2 DEF ReplicaInv, ReplicaTypeOK
<1>4. PullInv'
  BY <1>1, <1>2, <1>3 DEF ReplicaInv, ReplicaTypeOK, PullInv, Held
<1>5. PageInv'
  <2>1. ~eclipsed /\ round.phase = "page" => round.page.next - 1 <= Len(served)
    BY DEF ReplicaInv, PageInv
  <2> QED
    BY <1>1, <1>2, <1>3, <2>1, SamePage
<1> QED
  BY <1>3, <1>4, <1>5 DEF ReplicaInv

LEMMA WriterRestoredKeeps ==
    ASSUME ReplicaInv, NEW n \in 0 .. Len(served), WriterRestored(n)
    PROVE  ReplicaInv'
<1>1. served' = SubSeq(served, 1, n) /\ n < Len(served)
  BY DEF WriterRestored
<1>2. /\ served' \in Seq(LogEntries) /\ Len(served') = n
      /\ \A i \in 1 .. n : served'[i] = served[i]
  BY <1>1 DEF ReplicaInv, ReplicaTypeOK
<1>3. UNCHANGED <<held, pull, round>> /\ eclipsed' = (eclipsed \/ n < Reach - 1)
  BY DEF WriterRestored
<1>4. ReplicaTypeOK'
  BY <1>2, <1>3 DEF ReplicaInv, ReplicaTypeOK
<1>5. CASE eclipsed'
  BY <1>3, <1>4, <1>5 DEF ReplicaInv, PullInv, PageInv
<1>6. CASE ~eclipsed'
  <2>1. ~eclipsed /\ ~(n < Reach - 1) /\ n \in Nat
    <3>1. n \in Nat
      OBVIOUS
    <3>2. ~(eclipsed \/ n < Reach - 1)
      BY <1>3, <1>6
    <3> QED
      BY <3>1, <3>2
  <2>2. pull - 1 <= n /\ (round.phase = "page" => round.page.next - 1 <= n)
    BY <2>1 DEF Reach, ReplicaInv, ReplicaTypeOK, PageInv
  <2>3. PullInv'
    BY <1>2, <1>3, <2>1, <2>2 DEF ReplicaInv, ReplicaTypeOK, PullInv, Held
  <2>4. PageInv'
    BY <1>1, <1>2, <1>3, <2>1, <2>2, SamePage DEF ReplicaInv, ReplicaTypeOK
  <2> QED
    BY <1>4, <2>3, <2>4 DEF ReplicaInv
<1> QED
  BY <1>5, <1>6

LEMMA HandshakeKeeps ==
    ASSUME ReplicaInv, Handshake
    PROVE  ReplicaInv'
<1>1. /\ UNCHANGED <<served, held>>
      /\ pull' = Rewound(Len(served)) /\ eclipsed' = (eclipsed /\ pull' = pull)
      /\ round' = Pulling(Len(served), 0)
  BY DEF Handshake
<1>2. round'.phase = "pull" /\ round'.tail = Len(served)
  BY <1>1 DEF Pulling
<1>3. ReplicaTypeOK'
  BY <1>1, <1>2 DEF ReplicaInv, ReplicaTypeOK, Rewound
<1>4. PageInv'
  BY <1>2 DEF PageInv
<1>5. PullInv'
  BY <1>1 DEF ReplicaInv, ReplicaTypeOK, PullInv, Rewound, Held
<1> QED
  BY <1>3, <1>4, <1>5 DEF ReplicaInv

LEMMA FetchPageKeeps ==
    ASSUME ReplicaInv, FetchPage
    PROVE  ReplicaInv'
<1> DEFINE page == LogRange(pull, round.tail)
<1>1. /\ UNCHANGED <<served, held, pull, eclipsed>> /\ round.phase = "pull"
      /\ IF page.entries = <<>> THEN round' = NoRound
         ELSE round' = Paged(round.tail, round.pages, page)
  BY DEF FetchPage, MorePages, RoundOver
<1>2. /\ page.next \in Nat /\ page.next >= pull
      /\ page.next = pull \/ page.next - 1 <= Len(served)
      /\ page.entries = SubSeq(served, pull, page.next - 1)
  BY <1>1, PageOfLog DEF ReplicaInv, ReplicaTypeOK
<1>3. PullInv'
  BY <1>1 DEF ReplicaInv, PullInv, Held
<1>4. CASE page.entries = <<>>
  <2>1. round'.phase = "idle"
    BY <1>1, <1>4 DEF NoRound
  <2> QED
    BY <1>1, <1>3, <2>1 DEF ReplicaInv, ReplicaTypeOK, PageInv
<1>5. CASE page.entries # <<>>
  <2>1. round'.phase = "page" /\ round'.tail = round.tail /\ round'.page = page
    BY <1>1, <1>5 DEF Paged
  <2> HIDE DEF page
  <2>2. page.next # pull
    BY <1>2, <1>5 DEF ReplicaInv, ReplicaTypeOK
  <2>3. /\ page.entries \in Seq(LogEntries)
        /\ Len(page.entries) = page.next - pull
        /\ \A i \in pull .. page.next - 1 : served[i] = page.entries[i - pull + 1]
    <3>1. served \in Seq(LogEntries) /\ pull \in Nat \ {0}
      BY DEF ReplicaInv, ReplicaTypeOK
    <3>2. PICK q : q = page.next - 1
      OBVIOUS
    <3>3. q \in Nat /\ pull <= q /\ q <= Len(served)
      BY <1>2, <2>2, <3>1, <3>2
    <3>4. PICK e : e = SubSeq(served, pull, q)
      OBVIOUS
    <3>5. e \in Seq(LogEntries) /\ Len(e) = q - pull + 1
      BY <3>1, <3>3, <3>4
    <3>6. \A i \in pull .. q : served[i] = e[i - pull + 1]
      BY <3>1, <3>3, <3>4
    <3> QED
      <4>1. page.entries = e
        BY <1>2, <3>2, <3>4
      <4>2. q - pull + 1 = page.next - pull
        BY <1>2, <3>1, <3>2
      <4> QED
        BY <3>2, <3>5, <3>6, <4>1, <4>2
  <2>4. PageInv'
    BY <1>1, <1>2, <2>1, <2>2, <2>3 DEF PageInv
  <2>5. ReplicaTypeOK'
    BY <1>1, <2>1 DEF ReplicaInv, ReplicaTypeOK
  <2> QED
    BY <1>3, <2>4, <2>5 DEF ReplicaInv
<1> QED
  BY <1>4, <1>5

LEMMA ApplyPageKeeps ==
    ASSUME ReplicaInv, ApplyPage
    PROVE  ReplicaInv'
<1> DEFINE entries == round.page.entries
<1>1. /\ round.phase = "page"
      /\ held' = Appended(entries, Len(entries))
      /\ pull' = round.page.next
      /\ round' = Pulling(round.tail, round.pages + 1)
      /\ UNCHANGED <<served, eclipsed>>
  BY DEF ApplyPage
<1>2. /\ entries \in Seq(LogEntries) /\ Len(entries) \in 0 .. Len(entries)
      /\ round.page.next \in Nat \ {0} /\ Len(entries) = round.page.next - pull
  BY <1>1 DEF ReplicaInv, ReplicaTypeOK, PageInv
<1>3. /\ held' \in Seq(LogEntries)
      /\ Held \subseteq Held'
      /\ \A i \in 1 .. Len(entries) : Verifies(entries[i]) => entries[i] \in Held'
  <2>1. held \in Seq(LogEntries) /\ Held' = ToSet(held')
    BY DEF ReplicaInv, ReplicaTypeOK, Held
  <2> HIDE DEF entries
  <2> QED
    BY <1>1, <1>2, <2>1, AppendedHolds
<1>4. round'.phase = "pull" /\ round'.tail = round.tail
  BY <1>1 DEF Pulling
<1>5. ReplicaTypeOK'
  BY <1>1, <1>2, <1>3, <1>4 DEF ReplicaInv, ReplicaTypeOK
<1>6. PullInv'
  <2> SUFFICES ASSUME ~eclipsed
               PROVE  /\ round.page.next - 1 <= Len(served)
                      /\ \A i \in 1 .. round.page.next - 1 :
                            Verifies(served[i]) => served[i] \in Held'
    BY <1>1 DEF PullInv
  <2>1. round.page.next - 1 <= Len(served)
    BY <1>1 DEF ReplicaInv, PageInv
  <2>2. ASSUME NEW i \in 1 .. round.page.next - 1, Verifies(served[i])
        PROVE  served[i] \in Held'
    <3>1. CASE i <= pull - 1
      BY <1>2, <1>3, <2>2, <3>1 DEF ReplicaInv, ReplicaTypeOK, PullInv
    <3>2. CASE i >= pull
      <4>1. i \in pull .. round.page.next - 1 /\ i - pull + 1 \in 1 .. Len(entries)
        BY <1>2, <3>2 DEF ReplicaInv, ReplicaTypeOK
      <4>2. served[i] = entries[i - pull + 1]
        BY <1>1, <4>1 DEF ReplicaInv, PageInv
      <4> QED
        BY <1>3, <2>2, <4>1, <4>2
    <3> QED
      BY <1>2, <3>1, <3>2 DEF ReplicaInv, ReplicaTypeOK
  <2> QED
    BY <2>1, <2>2
<1>7. PageInv'
  BY <1>4 DEF PageInv
<1> QED
  BY <1>5, <1>6, <1>7 DEF ReplicaInv

LEMMA ApplyFailsKeeps ==
    ASSUME ReplicaInv, NEW k \in 0 .. PageEntries, ApplyFails(k)
    PROVE  ReplicaInv'
<1> DEFINE entries == round.page.entries
<1>1. /\ round.phase = "page" /\ k < Len(entries)
      /\ held' = Appended(entries, k)
      /\ pull' = pull /\ round' = NoRound
      /\ UNCHANGED <<served, eclipsed>>
  BY DEF ApplyFails, PulledTo
<1>2. entries \in Seq(LogEntries) /\ k \in 0 .. Len(entries)
  BY <1>1, ReplicaAssumption DEF ReplicaInv, PageInv
<1>3. held' \in Seq(LogEntries) /\ Held \subseteq Held'
  <2>1. held \in Seq(LogEntries) /\ Held' = ToSet(held')
    BY DEF ReplicaInv, ReplicaTypeOK, Held
  <2> HIDE DEF entries
  <2> QED
    BY <1>1, <1>2, <2>1, AppendedHolds
<1>4. round'.phase = "idle"
  BY <1>1 DEF NoRound
<1> QED
  BY <1>1, <1>3, <1>4 DEF ReplicaInv, ReplicaTypeOK, PullInv, PageInv

LEMMA ReplicaStep ==
    ASSUME ReplicaInv, [ReplicaNext]_replicaVars
    PROVE  ReplicaInv'
<1>1. CASE ListReplica \/ UnlistReplica \/ UNCHANGED replicaVars
  <2>1. UNCHANGED <<served, held, pull, round, eclipsed>>
    BY <1>1 DEF ListReplica, UnlistReplica, replicaVars
  <2> QED
    BY <2>1 DEF ReplicaInv, ReplicaTypeOK, PullInv, PageInv, Held
<1>2. CASE Refused \/ CallFails \/ RoundEnds
  <2>1. UNCHANGED <<served, held, pull, eclipsed>> /\ round' = NoRound
    BY <1>2 DEF Refused, CallFails, RoundEnds, RoundOver
  <2>2. round'.phase = "idle"
    BY <2>1 DEF NoRound
  <2> QED
    BY <2>1, <2>2 DEF ReplicaInv, ReplicaTypeOK, PullInv, PageInv, Held
<1>3. CASE ReplicaRestarts
  <2>1. UNCHANGED <<served, held>> /\ pull' = 1 /\ round' = NoRound /\ eclipsed' \in BOOLEAN
    BY <1>3 DEF ReplicaRestarts
  <2>2. round'.phase = "idle"
    BY <2>1 DEF NoRound
  <2>3. ReplicaTypeOK' /\ PageInv'
    BY <2>1, <2>2 DEF ReplicaInv, ReplicaTypeOK, PageInv
  <2>4. PullInv'
    BY <2>1 DEF ReplicaInv, ReplicaTypeOK, PullInv
  <2> QED
    BY <2>3, <2>4 DEF ReplicaInv
<1> QED
  BY <1>1, <1>2, <1>3, WriterAppendsKeeps, WriterRestoredKeeps, HandshakeKeeps,
     FetchPageKeeps, ApplyPageKeeps, ApplyFailsKeeps DEF ReplicaNext

\* For any log, page sizes and number of faults, stops and restores: a replica
\* holds every verifiable entry its writer serves below its cursor, until the
\* writer is cut back below the cursor and grows again unnoticed.
THEOREM PulledTheorem == ReplicaSpec => []PulledIsHeld
<1>1. ReplicaInit => ReplicaInv
  <2> SUFFICES ASSUME ReplicaInit PROVE ReplicaInv
    OBVIOUS
  <2>1. round.phase = "idle" /\ served = <<>> /\ held = <<>> /\ pull = 1 /\ eclipsed \in BOOLEAN
    BY DEF ReplicaInit, NoRound
  <2>2. ReplicaTypeOK /\ PageInv
    BY <2>1 DEF ReplicaTypeOK, PageInv
  <2>3. PullInv
    BY <2>1 DEF PullInv
  <2> QED
    BY <2>2, <2>3 DEF ReplicaInv
<1>2. ReplicaInv /\ [ReplicaNext]_replicaVars => ReplicaInv'
  BY ReplicaStep
<1>3. ReplicaInv => PulledIsHeld
  <2> SUFFICES ASSUME ReplicaInv, ~eclipsed, NEW i \in 1 .. Min({pull - 1, Len(served)}),
                      Verifies(served[i])
               PROVE  served[i] \in Held
    BY DEF PulledIsHeld
  <2>1. Min({pull - 1, Len(served)}) \in Int /\ Min({pull - 1, Len(served)}) <= pull - 1
    <3>1. pull - 1 \in Int /\ Len(served) \in Int
      BY DEF ReplicaInv, ReplicaTypeOK
    <3>2. {pull - 1, Len(served)} = {pull - 1, Len(served), Len(served)}
      OBVIOUS
    <3> QED
      BY <3>1, <3>2, MinOfThree
  <2> QED
    BY <2>1 DEF ReplicaInv, ReplicaTypeOK, PullInv
<1> QED
  BY <1>1, <1>2, <1>3, PTL DEF ReplicaSpec

-----------------------------------------------------------------------------
(* Airtime.                                                                *)

AirtimeTypeOK ==
    /\ clock \in Nat /\ lastRefill \in Nat /\ advanced \in Nat /\ tokens \in Nat
    /\ waiting \in [Classes -> Seq(Int)] /\ left \in [Classes -> Seq(Int)]

\* The seconds not yet turned into tokens are part of the account.
Account == Sent + tokens + Rate * Elapsed <= Burst + Rate * advanced

AirtimeInv == AirtimeTypeOK /\ Account

LEMMA ElapsedIs ==
    ASSUME AirtimeTypeOK
    PROVE  Elapsed = IF clock >= lastRefill THEN clock - lastRefill ELSE 0
<1>1. clock - lastRefill \in Int /\ 0 \in Int
  BY DEF AirtimeTypeOK
<1>2. /\ Elapsed \in {clock - lastRefill, 0}
      /\ \A x \in {clock - lastRefill, 0} : x <= Elapsed
  BY <1>1, MaxOfTwo DEF Elapsed
<1> QED
  BY <1>1, <1>2 DEF AirtimeTypeOK

\* The same, to be used of two states of a step.
ElapsedFormula ==
    AirtimeTypeOK => Elapsed = IF clock >= lastRefill THEN clock - lastRefill ELSE 0

LEMMA ElapsedState == ElapsedFormula
BY ElapsedIs DEF ElapsedFormula

LEMMA TotalBytesInt ==
    ASSUME NEW s \in Seq(Int)
    PROVE  TotalBytes(s) \in Int
<1>1. Len(s) \in Nat /\ \A i \in 1 .. Len(s) : s[i] \in Int
  OBVIOUS
<1> QED
  BY <1>1, SumToInt DEF TotalBytes

LEMMA TotalBytesConcat ==
    ASSUME NEW s \in Seq(Int), NEW t \in Seq(Int)
    PROVE  TotalBytes(s \o t) = TotalBytes(s) + TotalBytes(t)
BY SumToConcat DEF TotalBytes

LEMMA ShareIs ==
    ASSUME AirtimeTypeOK, NEW c \in Classes, NEW n \in Nat
    PROVE  /\ Share(c, n) \in 0 .. Len(waiting[c])
           /\ n <= Ahead(c) => Share(c, n) = 0
           /\ n >= Ahead(c) + Len(waiting[c]) => Share(c, n) = Len(waiting[c])
           /\ Ahead(c) <= n /\ n <= Ahead(c) + Len(waiting[c]) => Share(c, n) = n - Ahead(c)
<1>1. waiting[0] \in Seq(Int) /\ waiting[1] \in Seq(Int) /\ waiting[c] \in Seq(Int)
  BY DEF AirtimeTypeOK, Classes
<1>2. Len(waiting[0]) \in Nat /\ Len(waiting[1]) \in Nat /\ Len(waiting[c]) \in Nat
  BY <1>1
<1>3. PICK a \in Nat : a = Ahead(c)
  <2>1. c \in {0, 1, 2}
    BY DEF Classes
  <2>2. PICK l0, l1 \in Nat : l0 = Len(waiting[0]) /\ l1 = Len(waiting[1])
    BY <1>2
  <2>4. Ahead(0) = 0 /\ Ahead(1) = l0 /\ Ahead(2) = l0 + l1
    BY <2>2 DEF Ahead
  <2>3. Ahead(c) \in Nat
    <3>1. Ahead(0) \in Nat /\ Ahead(1) \in Nat /\ Ahead(2) \in Nat
      BY <2>4
    <3> QED
      BY <2>1, <3>1
  <2> QED
    BY <2>3
<1>4. PICK l \in Nat : l = Len(waiting[c])
  BY <1>2
<1>5. PICK most : most = Min({l, n - a})
  OBVIOUS
<1>6. n - a \in Int
  OBVIOUS
<1>7. most \in {l, n - a} /\ most <= l /\ most <= n - a
  BY <1>5, <1>6, MinOfTwo
<1>8. most \in Int /\ 0 \in Int
  BY <1>6, <1>7
<1>9. Share(c, n) = Max({0, most})
  BY <1>3, <1>4, <1>5 DEF Share
<1>10. Share(c, n) \in {0, most} /\ 0 <= Share(c, n) /\ most <= Share(c, n)
  BY <1>8, <1>9, MaxOfTwo
<1>11. /\ Share(c, n) \in 0 .. l
       /\ n <= a => Share(c, n) = 0
       /\ n >= a + l => Share(c, n) = l
       /\ a <= n /\ n <= a + l => Share(c, n) = n - a
  BY <1>7, <1>8, <1>10
<1> QED
  BY <1>3, <1>4, <1>11

LEMMA Concat ==
    ASSUME NEW s \in Seq(Int), NEW t \in Seq(Int)
    PROVE  /\ s \o t \in Seq(Int) /\ Len(s \o t) = Len(s) + Len(t)
           /\ Len(s) \in Nat /\ Len(t) \in Nat
           /\ \A i \in 1 .. Len(s) : (s \o t)[i] = s[i]
           /\ \A i \in 1 .. Len(t) : (s \o t)[Len(s) + i] = t[i]
OBVIOUS

LEMMA FrontIs ==
    ASSUME NEW s \in Seq(Int), NEW n \in 0 .. Len(s)
    PROVE  /\ SubSeq(s, 1, n) \in Seq(Int) /\ Len(SubSeq(s, 1, n)) = n
           /\ \A i \in 1 .. n : SubSeq(s, 1, n)[i] = s[i]
OBVIOUS

\* The front of two sequences in line is a front of the first and then of the
\* second.
LEMMA FrontOfTwo ==
    ASSUME NEW s \in Seq(Int), NEW t \in Seq(Int), NEW a \in 0 .. Len(s), NEW b \in 0 .. Len(t),
           b # 0 => a = Len(s)
    PROVE  TotalBytes(SubSeq(s \o t, 1, a + b)) =
               TotalBytes(SubSeq(s, 1, a)) + TotalBytes(SubSeq(t, 1, b))
<1>0. Len(s) \in Nat /\ Len(t) \in Nat /\ a \in Nat /\ b \in Nat /\ a + b \in Nat
  OBVIOUS
<1>1. PICK f : f = SubSeq(s, 1, a)
  OBVIOUS
<1>11. f \in Seq(Int) /\ Len(f) = a /\ \A i \in 1 .. a : f[i] = s[i]
  BY <1>1, FrontIs
<1>2. PICK g : g = SubSeq(t, 1, b)
  OBVIOUS
<1>12. g \in Seq(Int) /\ Len(g) = b /\ \A i \in 1 .. b : g[i] = t[i]
  BY <1>2, FrontIs
<1>3. PICK u : u = s \o t
  OBVIOUS
<1>13. /\ u \in Seq(Int) /\ Len(u) = Len(s) + Len(t)
       /\ \A i \in 1 .. Len(s) : u[i] = s[i]
       /\ \A i \in 1 .. Len(t) : u[Len(s) + i] = t[i]
  BY <1>3, Concat
<1>4. PICK h : h = SubSeq(u, 1, a + b)
  OBVIOUS
<1>14. h \in Seq(Int) /\ Len(h) = a + b /\ \A i \in 1 .. (a + b) : h[i] = u[i]
  <2>1. a + b \in 0 .. Len(u)
    BY <1>0, <1>13
  <2> QED
    BY <1>4, <1>13, <2>1, FrontIs
<1>5. PICK v : v = f \o g
  OBVIOUS
<1>15. /\ v \in Seq(Int) /\ Len(v) = Len(f) + Len(g)
       /\ \A i \in 1 .. Len(f) : v[i] = f[i]
       /\ \A i \in 1 .. Len(g) : v[Len(f) + i] = g[i]
  BY ZenonT(30), <1>5, <1>11, <1>12, Concat
<1>6. \A i \in 1 .. (a + b) : v[i] = h[i] /\ h[i] \in Int
  <2> SUFFICES ASSUME NEW i \in 1 .. (a + b) PROVE v[i] = u[i] /\ h[i] \in Int
    BY <1>14
  <2>1. h[i] \in Int
    BY <1>14
  <2>2. CASE i \in 1 .. a
    <3>1. i \in 1 .. Len(s)
      BY <1>0, <2>2
    <3> QED
      BY <1>11, <1>13, <1>15, <2>1, <2>2, <3>1
  <2>3. CASE i \notin 1 .. a
    <3>1. PICK j \in 1 .. b : i = a + j
      <4>1. i - a \in 1 .. b /\ i = a + (i - a)
        BY <1>0, <2>3
      <4> QED
        BY <4>1
    <3>2. a = Len(s) /\ j \in 1 .. Len(t)
      BY <1>0, <3>1
    <3>3. v[Len(f) + j] = g[j] /\ g[j] = t[j] /\ u[Len(s) + j] = t[j]
      BY <1>12, <1>13, <1>15, <3>2
    <3> QED
      BY <1>11, <2>1, <3>1, <3>2, <3>3
  <2> QED
    BY <2>2, <2>3
<1>7. SumTo(v, a + b) = SumTo(h, a + b)
  BY <1>0, <1>6, SumToEqual
<1>8. TotalBytes(v) = TotalBytes(h)
  BY <1>11, <1>12, <1>14, <1>15, <1>7 DEF TotalBytes
<1>9. TotalBytes(v) = TotalBytes(f) + TotalBytes(g)
  BY <1>5, <1>11, <1>12, TotalBytesConcat
<1> QED
  BY <1>1, <1>2, <1>3, <1>4, <1>8, <1>9

\* What the classes give up is the front of the line.
LEMMA SharesAreTheFront ==
    ASSUME AirtimeTypeOK, NEW n \in 0 .. Len(Queue)
    PROVE  TotalBytes(SubSeq(Queue, 1, n)) =
               TotalBytes(SubSeq(waiting[0], 1, Share(0, n)))
               + TotalBytes(SubSeq(waiting[1], 1, Share(1, n)))
               + TotalBytes(SubSeq(waiting[2], 1, Share(2, n)))
<1>1. PICK w0, w1, w2 \in Seq(Int) : w0 = waiting[0] /\ w1 = waiting[1] /\ w2 = waiting[2]
  BY DEF AirtimeTypeOK, Classes
<1>2. PICK s0, s1, s2 : s0 = Share(0, n) /\ s1 = Share(1, n) /\ s2 = Share(2, n)
  OBVIOUS
<1>3. Len(w0) \in Nat /\ Len(w1) \in Nat /\ Len(w2) \in Nat
  OBVIOUS
<1>4. PICK v \in Seq(Int) : v = w0 \o w1 /\ Len(v) = Len(w0) + Len(w1)
  <2>1. w0 \o w1 \in Seq(Int) /\ Len(w0 \o w1) = Len(w0) + Len(w1)
    BY Concat
  <2> QED
    BY <2>1
<1>5. Queue = v \o w2
  BY <1>1, <1>4 DEF Queue
<1>6. Len(Queue) = Len(w0) + Len(w1) + Len(w2)
  BY <1>4, <1>5, Concat
<1>7. n \in Nat /\ n <= Len(w0) + Len(w1) + Len(w2)
  BY <1>3, <1>6
<1>8. /\ s0 \in 0 .. Len(w0) /\ s1 \in 0 .. Len(w1) /\ s2 \in 0 .. Len(w2)
      /\ n = (s0 + s1) + s2
      /\ s1 # 0 => s0 = Len(w0)
      /\ s2 # 0 => s0 + s1 = Len(v)
  <2>0. 0 \in Classes /\ 1 \in Classes /\ 2 \in Classes
    BY DEF Classes
  <2>1. Ahead(0) = 0 /\ Ahead(1) = Len(w0) /\ Ahead(2) = Len(w0) + Len(w1)
    BY <1>1, <1>3 DEF Ahead
  <2>2. /\ s0 \in 0 .. Len(w0)
        /\ n >= Len(w0) => s0 = Len(w0)
        /\ n <= Len(w0) => s0 = n
    <3>1. /\ Share(0, n) \in 0 .. Len(waiting[0])
          /\ n >= 0 + Len(waiting[0]) => Share(0, n) = Len(waiting[0])
          /\ 0 <= n /\ n <= 0 + Len(waiting[0]) => Share(0, n) = n - 0
      BY <1>7, <2>0, <2>1, ShareIs
    <3> QED
      BY <1>1, <1>2, <1>3, <1>7, <3>1
  <2>3. /\ s1 \in 0 .. Len(w1)
        /\ n <= Len(w0) => s1 = 0
        /\ n >= Len(w0) + Len(w1) => s1 = Len(w1)
        /\ Len(w0) <= n /\ n <= Len(w0) + Len(w1) => s1 = n - Len(w0)
    BY ZenonT(30), <1>1, <1>2, <1>3, <1>7, <2>0, <2>1, ShareIs
  <2>4. /\ s2 \in 0 .. Len(w2)
        /\ n <= Len(w0) + Len(w1) => s2 = 0
        /\ Len(w0) + Len(w1) <= n => s2 = n - (Len(w0) + Len(w1))
    BY ZenonT(30), <1>1, <1>2, <1>3, <1>7, <2>0, <2>1, ShareIs
  <2>5. CASE n <= Len(w0)
    BY <1>3, <1>4, <1>7, <2>2, <2>3, <2>4, <2>5
  <2>6. CASE Len(w0) < n /\ n <= Len(w0) + Len(w1)
    BY <1>3, <1>4, <1>7, <2>2, <2>3, <2>4, <2>6
  <2>7. CASE Len(w0) + Len(w1) < n
    BY <1>3, <1>4, <1>7, <2>2, <2>3, <2>4, <2>7
  <2> QED
    BY <1>3, <1>7, <2>5, <2>6, <2>7
<1>9. TotalBytes(SubSeq(v, 1, s0 + s1)) =
          TotalBytes(SubSeq(w0, 1, s0)) + TotalBytes(SubSeq(w1, 1, s1))
  BY <1>4, <1>8, FrontOfTwo
<1>10. s0 + s1 \in 0 .. Len(v)
  BY <1>3, <1>4, <1>8
<1>11. TotalBytes(SubSeq(v \o w2, 1, (s0 + s1) + s2)) =
           TotalBytes(SubSeq(v, 1, s0 + s1)) + TotalBytes(SubSeq(w2, 1, s2))
  BY <1>8, <1>10, FrontOfTwo
<1> QED
  BY <1>1, <1>2, <1>5, <1>8, <1>9, <1>11

\* Sent bytes and tokens on hand, and seconds that will still turn into tokens,
\* stay within the burst and the rate.
THEOREM AirtimeInvTheorem == AirtimeSpec => []AirtimeInv
<1>0. /\ Burst \in Nat /\ Rate \in Nat /\ FrameSizes \subseteq Int
  BY AirtimeAssumption
<1>1. AirtimeInit => AirtimeInv
  <2> SUFFICES ASSUME AirtimeInit PROVE AirtimeInv
    OBVIOUS
  <2>1. AirtimeTypeOK
    BY <1>0 DEF AirtimeInit, AirtimeTypeOK, Classes
  <2>2. TotalBytes(<<>>) = 0
    BY SumToZero DEF TotalBytes
  <2>3. left[0] = <<>> /\ left[1] = <<>> /\ left[2] = <<>>
    BY DEF AirtimeInit, Classes
  <2>4. Elapsed = 0
    BY <2>1, ElapsedIs DEF AirtimeInit
  <2> QED
    BY <1>0, <2>1, <2>2, <2>3, <2>4 DEF AirtimeInit, AirtimeInv, Account, Sent
<1>2. AirtimeInv /\ [AirtimeNext]_airtimeVars => AirtimeInv'
  <2> SUFFICES ASSUME AirtimeInv, [AirtimeNext]_airtimeVars PROVE AirtimeInv'
    OBVIOUS
  <2>1. ElapsedFormula /\ ElapsedFormula'
    BY ElapsedState, PTL
  <2>2. Sent \in Int /\ tokens \in Nat /\ Elapsed \in Nat
    <3>1. left[0] \in Seq(Int) /\ left[1] \in Seq(Int) /\ left[2] \in Seq(Int)
      BY DEF AirtimeInv, AirtimeTypeOK, Classes
    <3>2. Elapsed \in Nat
      BY <2>1 DEF ElapsedFormula, AirtimeInv, AirtimeTypeOK
    <3> QED
      BY SMTT(30), <3>1, <3>2, TotalBytesInt DEF Sent, AirtimeInv, AirtimeTypeOK
  <2>3. ASSUME NEW c \in Classes, NEW size \in FrameSizes, Offer(c, size) PROVE AirtimeInv'
    <3>1. /\ UNCHANGED <<clock, tokens, lastRefill, left, advanced>>
          /\ waiting' = [waiting EXCEPT ![c] = Append(IF Overflows(c) THEN Tail(@) ELSE @, size)]
      BY <2>3 DEF Offer
    <3>2. waiting[c] \in Seq(Int) /\ size \in Int
      BY <1>0 DEF AirtimeInv, AirtimeTypeOK
    <3>3. Overflows(c) => waiting[c] # <<>>
      <4>1. Caps[c] \in Nat \ {0}
        BY AirtimeAssumption DEF Classes
      <4> QED
        BY <3>2, <4>1 DEF Overflows
    <3>4. waiting' \in [Classes -> Seq(Int)]
      <4>1. Append(IF Overflows(c) THEN Tail(waiting[c]) ELSE waiting[c], size) \in Seq(Int)
        BY <3>2, <3>3
      <4> QED
        BY <3>1, <4>1 DEF AirtimeInv, AirtimeTypeOK
    <3> QED
      BY <3>1, <3>4 DEF AirtimeInv, AirtimeTypeOK, Account, Sent, Elapsed
  <2>4. CASE Pump
    <3>1. PICK n : n = Fitting
      OBVIOUS
    <3>2. PICK w : w = Refilled
      OBVIOUS
    <3>3. /\ tokens' = w - TotalBytes(SubSeq(Queue, 1, n))
          /\ lastRefill' = clock
          /\ left' = [c \in Classes |-> left[c] \o SubSeq(waiting[c], 1, Share(c, n))]
          /\ waiting' = [c \in Classes |->
                            SubSeq(waiting[c], Share(c, n) + 1, Len(waiting[c]))]
          /\ UNCHANGED <<clock, advanced>>
      BY <2>4, <3>1, <3>2 DEF Pump
    <3>4. PICK extra \in Nat : extra = Elapsed * Rate
      BY <1>0, <2>2
    <3>5. w \in Nat /\ w <= tokens + extra
      <4>1. tokens + Elapsed * Rate \in Nat /\ Burst \in Nat
        BY <1>0, <2>2, <3>4
      <4>2. w \in {tokens + Elapsed * Rate, Burst} /\ w <= tokens + Elapsed * Rate
        BY <3>2, <4>1, MinOfTwo DEF Refilled
      <4> QED
        BY <3>4, <4>1, <4>2
    <3>6. n \in 0 .. Len(Queue) /\ TotalBytes(SubSeq(Queue, 1, n)) <= w
      <4>1. Queue \in Seq(Int)
        <5>1. waiting[0] \in Seq(Int) /\ waiting[1] \in Seq(Int) /\ waiting[2] \in Seq(Int)
          BY DEF AirtimeInv, AirtimeTypeOK, Classes
        <5>2. waiting[0] \o waiting[1] \in Seq(Int)
          BY <5>1, Concat
        <5> QED
          BY <5>1, <5>2, Concat DEF Queue
      <4> DEFINE Fit == {k \in 0 .. Len(Queue) : TotalBytes(SubSeq(Queue, 1, k)) <= w}
      <4>2. 0 \in Int /\ Len(Queue) \in Int /\ Fit \subseteq 0 .. Len(Queue)
        BY <4>1
      <4>3. n = Max(Fit)
        BY <3>1, <3>2 DEF Fitting
      <4>4. Fit # {}
        <5>1. 0 \in 0 .. Len(Queue)
          BY <4>1
        <5>2. Len(SubSeq(Queue, 1, 0)) = 0
          BY <4>1, <5>1, FrontIs
        <5>3. TotalBytes(SubSeq(Queue, 1, 0)) = 0
          BY <5>2, SumToZero DEF TotalBytes
        <5>4. 0 \in Fit
          BY <3>5, <5>1, <5>3
        <5> QED
          BY <5>4
      <4>5. Max(Fit) \in Fit
        <5> HIDE DEF Fit
        <5> QED
          BY <4>2, <4>4, MaxOfRange
      <4> QED
        BY <4>2, <4>3, <4>5
    <3>7. PICK f : f = [c \in Classes |-> SubSeq(waiting[c], 1, Share(c, n))]
      OBVIOUS
    <3>8. ASSUME NEW c \in Classes
          PROVE  /\ f[c] \in Seq(Int) /\ left[c] \in Seq(Int) /\ left'[c] = left[c] \o f[c]
                 /\ SubSeq(waiting[c], Share(c, n) + 1, Len(waiting[c])) \in Seq(Int)
      <4>1. waiting[c] \in Seq(Int) /\ left[c] \in Seq(Int)
        BY DEF AirtimeInv, AirtimeTypeOK
      <4>2. n \in Nat
        BY <3>6
      <4>3. Share(c, n) \in 0 .. Len(waiting[c])
        BY <4>2, ShareIs DEF AirtimeInv
      <4>4. SubSeq(waiting[c], 1, Share(c, n)) \in Seq(Int)
        BY <4>1, <4>3, FrontIs
      <4>5. SubSeq(waiting[c], Share(c, n) + 1, Len(waiting[c])) \in Seq(Int)
        BY <4>1, <4>3
      <4> QED
        BY <3>3, <3>7, <4>1, <4>4, <4>5
    <3>9. /\ left' \in [Classes -> Seq(Int)] /\ waiting' \in [Classes -> Seq(Int)]
      <4>1. \A c \in Classes : left[c] \o SubSeq(waiting[c], 1, Share(c, n)) \in Seq(Int)
        BY <3>7, <3>8, Concat
      <4> QED
        BY <3>3, <3>8, <4>1
    <3>18. 0 \in Classes /\ 1 \in Classes /\ 2 \in Classes
      BY DEF Classes
    <3>10. PICK b0, b1, b2 \in Int : /\ b0 = TotalBytes(f[0]) /\ b1 = TotalBytes(f[1])
                                     /\ b2 = TotalBytes(f[2])
      <4>1. f[0] \in Seq(Int) /\ f[1] \in Seq(Int) /\ f[2] \in Seq(Int)
        BY <3>8, <3>18
      <4>2. TotalBytes(f[0]) \in Int /\ TotalBytes(f[1]) \in Int /\ TotalBytes(f[2]) \in Int
        BY <4>1, TotalBytesInt
      <4> QED
        BY <4>2
    <3>11. TotalBytes(SubSeq(Queue, 1, n)) = b0 + b1 + b2
      <4>1. /\ f[0] = SubSeq(waiting[0], 1, Share(0, n)) /\ f[1] = SubSeq(waiting[1], 1, Share(1, n))
            /\ f[2] = SubSeq(waiting[2], 1, Share(2, n))
        BY <3>7, <3>18
      <4> QED
        BY <3>6, <3>10, <4>1, SharesAreTheFront DEF AirtimeInv
    <3>12. Sent' = Sent + (b0 + b1 + b2)
      <4>0. 0 \in Classes /\ 1 \in Classes /\ 2 \in Classes
        BY DEF Classes
      <4>1. /\ TotalBytes(left'[0]) = TotalBytes(left[0]) + b0
            /\ TotalBytes(left'[1]) = TotalBytes(left[1]) + b1
            /\ TotalBytes(left'[2]) = TotalBytes(left[2]) + b2
        BY <3>8, <3>10, <4>0, TotalBytesConcat
      <4>2. TotalBytes(left[0]) \in Int /\ TotalBytes(left[1]) \in Int /\ TotalBytes(left[2]) \in Int
        BY <3>8, <4>0, TotalBytesInt
      <4>3. Sent' = TotalBytes(left'[0]) + TotalBytes(left'[1]) + TotalBytes(left'[2])
        BY DEF Sent, TotalBytes
      <4> QED
        BY <4>1, <4>2, <4>3 DEF Sent
    <3>13. AirtimeTypeOK'
      <4>1. tokens' = w - (b0 + b1 + b2) /\ b0 + b1 + b2 <= w
        BY <3>3, <3>6, <3>11
      <4>2. tokens' \in Nat
        BY <3>5, <4>1
      <4> QED
        BY <3>3, <3>9, <4>2 DEF AirtimeInv, AirtimeTypeOK
    <3>14. Elapsed' = 0
      BY <2>1, <3>3, <3>13 DEF ElapsedFormula, AirtimeTypeOK
    <3>15. Sent + tokens + extra <= Burst + Rate * advanced
      BY <1>0, <2>2, <3>4 DEF AirtimeInv, Account
    <3>16. Rate * Elapsed' = 0 /\ Rate * advanced \in Nat
      BY <1>0, <3>14 DEF AirtimeInv, AirtimeTypeOK
    <3>17. Sent' + tokens' + Rate * Elapsed' <= Burst + Rate * advanced'
      BY <1>0, <2>2, <3>3, <3>5, <3>11, <3>12, <3>15, <3>16
    <3> QED
      BY <3>13, <3>17 DEF AirtimeInv, Account
  <2>5. CASE SecondPasses
    <3>1. /\ clock' = clock + 1 /\ advanced' = advanced + 1
          /\ UNCHANGED <<tokens, lastRefill, waiting, left>>
      BY <2>5 DEF SecondPasses
    <3>2. AirtimeTypeOK'
      BY <3>1 DEF AirtimeInv, AirtimeTypeOK
    <3>3. Elapsed' \in Nat /\ Elapsed' <= Elapsed + 1
      BY <2>1, <3>1, <3>2 DEF ElapsedFormula, AirtimeInv, AirtimeTypeOK
    <3>4. Sent' = Sent
      BY <3>1 DEF Sent
    <3>5. Rate * Elapsed' <= Rate * Elapsed + Rate /\ Rate * (advanced + 1) = Rate * advanced + Rate
      <4>1. \A r, x, y \in Nat : x <= y + 1 => r * x <= r * y + r
        BY SMTT(30)
      <4>2. \A r, x \in Nat : r * (x + 1) = r * x + r
        BY SMTT(30)
      <4> QED
        BY <1>0, <2>2, <3>3, <4>1, <4>2 DEF AirtimeInv, AirtimeTypeOK
    <3>6. Rate * Elapsed \in Nat /\ Rate * Elapsed' \in Nat /\ Rate * advanced \in Nat
      <4>1. \A r, x \in Nat : r * x \in Nat
        OBVIOUS
      <4> QED
        BY <1>0, <2>2, <3>3, <4>1 DEF AirtimeInv, AirtimeTypeOK
    <3>7. Sent' + tokens' + Rate * Elapsed' <= Burst + Rate * advanced'
      BY <1>0, <2>2, <3>1, <3>4, <3>5, <3>6 DEF AirtimeInv, Account
    <3> QED
      BY <3>2, <3>7 DEF AirtimeInv, Account
  <2>6. ASSUME NEW t \in 0 .. MaxClock, ClockSetBack(t) PROVE AirtimeInv'
    <3>1. /\ t \in Nat /\ t < clock /\ clock' = t
          /\ UNCHANGED <<tokens, lastRefill, waiting, left, advanced>>
      BY <2>6 DEF ClockSetBack
    <3>2. AirtimeTypeOK'
      BY <3>1 DEF AirtimeInv, AirtimeTypeOK
    <3>3. Elapsed' \in Nat /\ Elapsed' <= Elapsed
      BY <2>1, <3>1, <3>2 DEF ElapsedFormula, AirtimeInv, AirtimeTypeOK
    <3>4. Sent' = Sent
      BY <3>1 DEF Sent
    <3>5. Rate * Elapsed' <= Rate * Elapsed
      <4>1. \A r, x, y \in Nat : x <= y => r * x <= r * y
        BY SMTT(30)
      <4> QED
        BY <1>0, <2>2, <3>3, <4>1
    <3>6. Rate * Elapsed \in Nat /\ Rate * Elapsed' \in Nat /\ Rate * advanced \in Nat
      <4>1. \A r, x \in Nat : r * x \in Nat
        OBVIOUS
      <4> QED
        BY <1>0, <2>2, <3>3, <4>1 DEF AirtimeInv, AirtimeTypeOK
    <3>7. Sent' + tokens' + Rate * Elapsed' <= Burst + Rate * advanced'
      BY <1>0, <2>2, <3>1, <3>4, <3>5, <3>6 DEF AirtimeInv, Account
    <3> QED
      BY <3>2, <3>7 DEF AirtimeInv, Account
  <2>7. CASE UNCHANGED airtimeVars
    BY <2>7 DEF airtimeVars, AirtimeInv, AirtimeTypeOK, Account, Sent, Elapsed
  <2> QED
    BY <2>3, <2>4, <2>5, <2>6, <2>7 DEF AirtimeNext
<1> QED
  BY <1>1, <1>2, PTL DEF AirtimeSpec

\* What a paced carrier has sent never exceeds one burst and the sustained rate
\* over the seconds its clock has moved forward (refill, pump).
THEOREM BudgetTheorem == AirtimeSpec => []BudgetKept
<1>1. AirtimeInv => BudgetKept
  <2> SUFFICES ASSUME AirtimeInv PROVE Sent + tokens <= Burst + Rate * advanced
    BY DEF BudgetKept
  <2>1. left[0] \in Seq(Int) /\ left[1] \in Seq(Int) /\ left[2] \in Seq(Int)
    BY DEF AirtimeInv, AirtimeTypeOK, Classes
  <2>2. Sent \in Int
    BY <2>1, TotalBytesInt DEF Sent
  <2>3. Elapsed \in Nat /\ Rate \in Nat /\ Burst \in Nat /\ advanced \in Nat /\ tokens \in Int
    BY ElapsedIs, AirtimeAssumption DEF AirtimeInv, AirtimeTypeOK
  <2>4. Rate * Elapsed \in Nat /\ Rate * advanced \in Nat
    BY <2>3
  <2>5. Sent + tokens + Rate * Elapsed <= Burst + Rate * advanced
    BY DEF AirtimeInv, Account
  <2> QED
    BY <2>2, <2>3, <2>4, <2>5
<1> QED
  BY <1>1, AirtimeInvTheorem, PTL

-----------------------------------------------------------------------------
(* Push: the syncers of both ends.                                         *)

\* The tables of a syncer.
SyncFields == {"queue", "cache", "queued", "asked", "partial", "recent", "inbound"}

\* Frames an end may send: chunks of O, acknowledgements of D, any request.
Wire(O, D) ==
    [type : {"chunk"}, pay : O, idx : Nat] \cup [type : {"ack"}, pay : D]
    \cup [type : {"ask"}, pay : Payloads, lacks : SUBSET Nat]

InQueue(y, f) == \E c \in 0 .. 2 : \E i \in 1 .. Len(y.queue[c]) : y.queue[c][i] = f

HasChunk(y, k) == \E f : InQueue(y, f) /\ f.type = "chunk" /\ k = <<f.pay, f.idx>>
HasAsk(y, p)   == \E f : InQueue(y, f) /\ f.type = "ask" /\ f.pay = p

\* A syncer that sends payloads of O, takes payloads of I and has finished some
\* of D.  Only chunks are queued outside the first class.
Queued(y, O, D) ==
    /\ DOMAIN y = SyncFields
    /\ y.queue \in [0 .. 2 -> Seq(Wire(O, D))]
    /\ \A c \in 1 .. 2 : \A i \in 1 .. Len(y.queue[c]) : y.queue[c][i].type = "chunk"

Good(y, O, I, D) ==
    /\ Queued(y, O, D)
    /\ \A k \in y.queued : HasChunk(y, k)
    /\ \A p \in y.asked : HasAsk(y, p)
    /\ DOMAIN y.cache \subseteq O
    /\ DOMAIN y.partial \subseteq I
    /\ y.recent \in Seq(D)
    /\ DOMAIN y.inbound \subseteq Payloads

LEMMA SeqMonotone ==
    ASSUME NEW S, NEW T, S \subseteq T, NEW s \in Seq(S)
    PROVE  s \in Seq(T)
  OBVIOUS

LEMMA WireMonotone ==
    ASSUME NEW O, NEW P, O \subseteq P, NEW D, NEW E, D \subseteq E
    PROVE  Wire(O, D) \subseteq Wire(P, E)
  BY DEF Wire

LEMMA WireFacts ==
    ASSUME NEW O, NEW D, NEW f \in Wire(O, D)
    PROVE  /\ f.type \in {"chunk", "ack", "ask"}
           /\ f.type = "chunk" => f.pay \in O /\ f.idx \in Nat
           /\ f.type = "ack" => f.pay \in D
           /\ f.type = "ask" => f.pay \in Payloads
<1>1. CASE f \in [type : {"chunk"}, pay : O, idx : Nat]
  BY <1>1
<1>2. CASE f \in [type : {"ack"}, pay : D]
  BY <1>2
<1>3. CASE f \in [type : {"ask"}, pay : Payloads, lacks : SUBSET Nat]
  BY <1>3
<1> QED
  BY <1>1, <1>2, <1>3 DEF Wire

LEMMA GoodMonotone ==
    ASSUME NEW y, NEW O, NEW I, NEW D, Good(y, O, I, D),
           NEW P, NEW J, NEW E, O \subseteq P, I \subseteq J, D \subseteq E
    PROVE  Good(y, P, J, E)
<1>1. Wire(O, D) \subseteq Wire(P, E)
  BY WireMonotone
<1>2. \A s \in Seq(Wire(O, D)) : s \in Seq(Wire(P, E))
  BY <1>1, SeqMonotone
<1>3. y.queue \in [0 .. 2 -> Seq(Wire(P, E))]
  BY <1>2 DEF Good, Queued
<1>4. y.recent \in Seq(E)
  BY SeqMonotone DEF Good
<1> QED
  BY <1>3, <1>4 DEF Good, Queued

\* What a frame added to a queue leaves there.
Enqueued(y, z, c, f, O, D) ==
    /\ Queued(z, O, D)
    /\ z.cache = y.cache /\ z.queued = y.queued /\ z.asked = y.asked
    /\ z.partial = y.partial /\ z.recent = y.recent /\ z.inbound = y.inbound
    /\ Room(y, c) \/ c = 2 => InQueue(z, f)
    /\ \A g : InQueue(y, g) =>
          InQueue(z, g) \/ (c = 2 /\ ~ Room(y, c) /\ g = Head(y.queue[c]))

LEMMA EnqueueIs ==
    ASSUME NEW O, NEW D, NEW y, Queued(y, O, D), NEW c \in 0 .. 2,
           NEW f \in Wire(O, D), c # 0 => f.type = "chunk"
    PROVE  Enqueued(y, Enqueue(y, c, f), c, f, O, D)
<1> DEFINE z == Enqueue(y, c, f)
           W == Wire(O, D)
           q == y.queue[c]
<1>1. q \in Seq(W) /\ Len(q) \in Nat /\ f \in W /\ y.queue \in [0 .. 2 -> Seq(W)] /\ DOMAIN y = SyncFields
  BY DEF Queued
<1>2. ASSUME NEW r \in Seq(W), z = [y EXCEPT !.queue[c] = r],
             \E i \in 1 .. Len(r) : r[i] = f,
             \A i \in 1 .. Len(r) : r[i] = f \/ \E m \in 1 .. Len(q) : r[i] = q[m],
             \A i \in 1 .. Len(q) : (\E m \in 1 .. Len(r) : r[m] = q[i])
                                       \/ (c = 2 /\ ~ Room(y, c) /\ q[i] = Head(q))
      PROVE  Enqueued(y, z, c, f, O, D)
  <2> HIDE DEF z, W
  <2>1. /\ z.queue = [y.queue EXCEPT ![c] = r] /\ DOMAIN z = SyncFields
        /\ z.cache = y.cache /\ z.queued = y.queued /\ z.asked = y.asked
        /\ z.partial = y.partial /\ z.recent = y.recent /\ z.inbound = y.inbound
    BY <1>1, <1>2 DEF SyncFields
  <2>2. z.queue[c] = r /\ \A d \in 0 .. 2 : d # c => z.queue[d] = y.queue[d]
    BY <1>1, <2>1
  <2>3. z.queue \in [0 .. 2 -> Seq(W)]
    BY <1>1, <2>1
  <2>4. ASSUME NEW d \in 1 .. 2, NEW i \in 1 .. Len(z.queue[d])
        PROVE  z.queue[d][i].type = "chunk"
    <3>1. CASE d = c
      <4>1. r[i] = f \/ \E m \in 1 .. Len(q) : r[i] = q[m]
        BY <1>2, <2>2, <3>1
      <4>2. \A m \in 1 .. Len(q) : q[m].type = "chunk"
        BY <3>1 DEF Queued
      <4> QED
        BY <2>2, <3>1, <4>1, <4>2
    <3>2. CASE d # c
      BY <2>2, <3>2 DEF Queued
    <3> QED
      BY <3>1, <3>2
  <2>5. InQueue(z, f)
    BY <1>2, <2>2 DEF InQueue
  <2>6. ASSUME NEW g, InQueue(y, g)
        PROVE  InQueue(z, g) \/ (c = 2 /\ ~ Room(y, c) /\ g = Head(q))
    <3>1. PICK d \in 0 .. 2 : \E i \in 1 .. Len(y.queue[d]) : y.queue[d][i] = g
      BY <2>6 DEF InQueue
    <3>2. CASE d = c
      <4>1. (\E m \in 1 .. Len(r) : r[m] = g) \/ (c = 2 /\ ~ Room(y, c) /\ g = Head(q))
        BY <1>2, <3>1, <3>2
      <4> QED
        BY <2>2, <4>1 DEF InQueue
    <3>3. CASE d # c
      BY <2>2, <3>1, <3>3 DEF InQueue
    <3> QED
      BY <3>2, <3>3
  <2> QED
    BY <2>1, <2>3, <2>4, <2>5, <2>6 DEF Enqueued, Queued, W
<1>3. CASE Room(y, c)
  <2> DEFINE r == Append(q, f)
  <2>1. z = [y EXCEPT !.queue[c] = r]
    BY <1>3 DEF Enqueue
  <2>2. /\ r \in Seq(W) /\ Len(r) = Len(q) + 1 /\ r[Len(q) + 1] = f
        /\ \A i \in 1 .. Len(q) : r[i] = q[i]
    BY <1>1
  <2>3. /\ \E i \in 1 .. Len(r) : r[i] = f
        /\ \A i \in 1 .. Len(r) : r[i] = f \/ \E m \in 1 .. Len(q) : r[i] = q[m]
        /\ \A i \in 1 .. Len(q) : \E m \in 1 .. Len(r) : r[m] = q[i]
    <3>1. Len(q) + 1 \in 1 .. Len(r) /\ \A i \in 1 .. Len(q) : i \in 1 .. Len(r)
      BY <1>1, <2>2
    <3>2. \A i \in 1 .. Len(r) : i = Len(q) + 1 \/ i \in 1 .. Len(q)
      BY <1>1, <2>2
    <3> HIDE DEF r, q
    <3> QED
      BY <2>2, <3>1, <3>2
  <2> HIDE DEF r, z
  <2> QED
    BY <1>2, <2>1, <2>2, <2>3 DEF z
<1>4. CASE ~ Room(y, c) /\ c = 2
  <2> DEFINE r == Append(Tail(q), f)
  <2>1. z = [y EXCEPT !.queue[c] = r]
    BY <1>4 DEF Enqueue
  <2>2. Len(q) > 0 /\ Len(q) \in Nat
    <3>1. QueueCap[2] \in Nat \ {0}
      BY PushAssumption
    <3> QED
      BY <1>1, <1>4, <3>1 DEF Room
  <2>3. /\ Tail(q) \in Seq(W) /\ Len(Tail(q)) = Len(q) - 1 /\ Head(q) = q[1]
        /\ \A i \in 1 .. Len(q) - 1 : Tail(q)[i] = q[i + 1]
    <3> HIDE DEF W, q
    <3> QED
      BY <1>1, <2>2
  <2>4. /\ r \in Seq(W) /\ Len(r) = Len(q) /\ r[Len(q)] = f
        /\ \A i \in 1 .. Len(q) - 1 : r[i] = q[i + 1]
    <3> HIDE DEF W, q
    <3> QED
      BY <1>1, <2>2, <2>3
  <2>5. /\ \E i \in 1 .. Len(r) : r[i] = f
        /\ \A i \in 1 .. Len(r) : r[i] = f \/ \E m \in 1 .. Len(q) : r[i] = q[m]
    <3> HIDE DEF r, q
    <3> QED
      BY <2>2, <2>4
  <2>6. ASSUME NEW i \in 1 .. Len(q)
        PROVE  (\E m \in 1 .. Len(r) : r[m] = q[i]) \/ q[i] = Head(q)
    <3>1. CASE i = 1
      BY <2>3, <3>1
    <3>2. CASE i # 1
      <4>1. i - 1 \in 1 .. Len(q) - 1 /\ i - 1 \in 1 .. Len(r)
        BY <2>2, <2>4, <3>2
      <4>2. r[i - 1] = q[i]
        <5> HIDE DEF r, q
        <5> QED
          BY <2>4, <4>1
      <4> QED
        BY <4>1, <4>2
    <3> QED
      BY <3>1, <3>2
  <2> HIDE DEF r, z
  <2> QED
    BY <1>2, <1>4, <2>1, <2>4, <2>5, <2>6 DEF z
<1>5. CASE ~ Room(y, c) /\ c # 2
  <2>1. z = y
    BY <1>5 DEF Enqueue
  <2> QED
    BY <1>5, <2>1 DEF Enqueued
<1> QED
  BY <1>3, <1>4, <1>5

LEMMA ClassIs ==
    ASSUME NEW p \in Payloads
    PROVE  ClassOf(p) \in 0 .. 2 /\ Chunks(p) \in Nat \ {0} /\ Indexes(p) = 1 .. Chunks(p)
  BY PushAssumption DEF Payloads, ClassOf, Chunks, Indexes

\* A syncer's parts a step may leave alone.
SameRecord(y, z) ==
    /\ DOMAIN z.cache = DOMAIN y.cache /\ z.partial = y.partial /\ z.recent = y.recent

LEMMA EnqueueChunkGood ==
    ASSUME NEW O, O \subseteq Payloads, NEW I, NEW D, NEW y, Good(y, O, I, D),
           NEW p \in O, NEW i \in Nat
    PROVE  LET z == EnqueueChunk(y, p, i)
           IN  /\ Good(z, O, I, D) /\ SameRecord(y, z)
               /\ z.cache = y.cache /\ z.inbound = y.inbound
<1> DEFINE c == ClassOf(p)
           f == Chunk(p, i)
           x == Enqueue(y, c, f)
           z == EnqueueChunk(y, p, i)
<1>0. c \in 0 .. 2
  BY ClassIs
<1>1. f \in Wire(O, D) /\ f.type = "chunk" /\ f.pay = p /\ f.idx = i
  BY DEF Chunk, Wire
<1>2. Queued(y, O, D)
  BY DEF Good
<1>3. CASE <<p, i>> \in y.queued \/ (~Room(y, c) /\ c # 2)
  <2>1. z = y
    BY <1>3 DEF EnqueueChunk
  <2> QED
    BY <2>1 DEF SameRecord
<1>4. CASE ~ (<<p, i>> \in y.queued \/ (~Room(y, c) /\ c # 2))
  <2> DEFINE K == (x.queued \ Forgets(y, c)) \cup {<<p, i>>}
  <2>1. z = [x EXCEPT !.queued = K]
    BY <1>4 DEF EnqueueChunk
  <2>2. /\ Queued(x, O, D)
        /\ x.cache = y.cache /\ x.queued = y.queued /\ x.asked = y.asked
        /\ x.partial = y.partial /\ x.recent = y.recent /\ x.inbound = y.inbound
        /\ InQueue(x, f)
        /\ \A g : InQueue(y, g) =>
              InQueue(x, g) \/ (c = 2 /\ ~ Room(y, c) /\ g = Head(y.queue[c]))
    <3> HIDE DEF c, f
    <3>1. Room(y, c) \/ c = 2
      BY <1>4
    <3>2. c # 0 => f.type = "chunk"
      BY <1>1
    <3>3. Enqueued(y, x, c, f, O, D)
      BY <1>0, <1>1, <1>2, <3>2, EnqueueIs
    <3> QED
      BY <3>1, <3>3 DEF Enqueued
  <2> HIDE DEF x, z, K, c, f
  <2>3. /\ z.queue = x.queue /\ DOMAIN z = SyncFields /\ z.queued = K
        /\ z.cache = y.cache /\ z.asked = y.asked
        /\ z.partial = y.partial /\ z.recent = y.recent /\ z.inbound = y.inbound
    BY <2>1, <2>2 DEF Queued, SyncFields
  <2>4. Queued(z, O, D) /\ \A g : InQueue(z, g) <=> InQueue(x, g)
    BY <2>2, <2>3 DEF Queued, InQueue
  <2>5. ASSUME NEW k \in z.queued PROVE HasChunk(z, k)
    <3>1. CASE k = <<p, i>>
      BY <1>1, <2>2, <2>4, <3>1 DEF HasChunk
    <3>2. CASE k # <<p, i>>
      <4>1. k \in y.queued /\ k \notin Forgets(y, c)
        BY <2>2, <2>3, <3>2 DEF K
      <4>2. PICK g : InQueue(y, g) /\ g.type = "chunk" /\ k = <<g.pay, g.idx>>
        BY <4>1 DEF Good, HasChunk
      <4>3. ~ (c = 2 /\ ~ Room(y, c) /\ g = Head(y.queue[c]))
        BY <4>1, <4>2 DEF Forgets, Evicted, ChunkKey
      <4> QED
        BY <2>2, <2>4, <4>2, <4>3 DEF HasChunk
    <3> QED
      BY <3>1, <3>2
  <2>6. ASSUME NEW q \in z.asked PROVE HasAsk(z, q)
    <3>1. PICK g : InQueue(y, g) /\ g.type = "ask" /\ g.pay = q
      BY <2>3 DEF Good, HasAsk
    <3>2. ASSUME c = 2, ~ Room(y, c), g = Head(y.queue[c]) PROVE FALSE
      <4>1. y.queue[2] \in Seq(Wire(O, D)) /\ QueueCap[2] \in Nat \ {0}
        BY <1>2, PushAssumption DEF Queued
      <4>2. Len(y.queue[2]) >= QueueCap[2]
        BY <3>2, <4>1 DEF Room
      <4>3. 1 \in 1 .. Len(y.queue[2]) /\ Head(y.queue[2]) = y.queue[2][1]
        BY <4>1, <4>2
      <4>4. y.queue[2][1].type = "chunk"
        BY <1>2, <4>3 DEF Queued
      <4> QED
        BY <3>1, <3>2, <4>3, <4>4
    <3> QED
      BY <2>2, <2>4, <3>1, <3>2 DEF HasAsk
  <2>7. Good(z, O, I, D)
    BY <2>3, <2>4, <2>5, <2>6 DEF Good
  <2> QED
    BY <2>3, <2>7 DEF SameRecord, z
<1> QED
  BY <1>3, <1>4

-----------------------------------------------------------------------------
(* The loops of a syncer, one step at a time.                              *)

Do(what, y, i) ==
    IF what.op = "chunk" THEN EnqueueChunk(y, what.pay, i)
    ELSE IF what.op = "request" THEN Requested(y, Visit[i])
    ELSE IF what.op = "poke" THEN Poked(y, Visit[i]) ELSE Send(y, Visit[i])

IsWalk(a, what, y, todo, n) ==
    a = [i \in 0 .. n |-> IF i = 0 THEN y
                          ELSE IF i \in todo THEN Do(what, a[i - 1], i) ELSE a[i - 1]]

LEMMA WalkExists ==
    ASSUME NEW what, NEW y, NEW todo, NEW n \in Nat
    PROVE  \E a : IsWalk(a, what, y, todo, n)
<1> DEFINE Bad == {k \in 0 .. n : ~ \E a : IsWalk(a, what, y, todo, k)}
<1>1. SUFFICES ASSUME Bad # {} PROVE FALSE
  OBVIOUS
<1>2. Bad \subseteq Nat
  OBVIOUS
<1>3. PICK k \in Bad : \A m \in Bad : k <= m
  <2> HIDE DEF Bad
  <2> QED
    BY <1>1, <1>2, LeastNatural
<1>4. k # 0
  <2>1. IsWalk([i \in 0 .. 0 |-> y], what, y, todo, 0)
    BY DEF IsWalk
  <2> QED
    BY <2>1
<1>5. k - 1 \in 0 .. n /\ k - 1 \notin Bad /\ k \in Nat
  BY <1>3, <1>4
<1>6. PICK a : IsWalk(a, what, y, todo, k - 1)
  BY <1>5
<1> DEFINE Step(b, i) == IF i = 0 THEN y
                         ELSE IF i \in todo THEN Do(what, b[i - 1], i) ELSE b[i - 1]
           b == [i \in 0 .. k |-> IF i < k THEN a[i] ELSE Step(a, k)]
<1>7. \A i \in 0 .. k - 1 : a[i] = Step(a, i)
  BY <1>6 DEF IsWalk
<1>8. ASSUME NEW i \in 0 .. k PROVE b[i] = Step(b, i)
  <2>1. i # 0 => b[i - 1] = a[i - 1]
    BY <1>5
  <2>2. Step(b, i) = Step(a, i)
    BY <2>1
  <2>3. b[i] = Step(a, i)
    <3>1. CASE i = k
      BY <1>5, <3>1
    <3>2. CASE i # k
      <4>1. i \in 0 .. k - 1 /\ i < k
        BY <1>5, <3>2
      <4>2. b[i] = a[i]
        BY <4>1
      <4> HIDE DEF b, Step
      <4> QED
        BY <1>7, <4>1, <4>2
    <3> QED
      BY <3>1, <3>2
  <2> QED
    BY <2>2, <2>3
<1>9. IsWalk(b, what, y, todo, k)
  <2>1. b = [i \in 0 .. k |-> b[i]]
    OBVIOUS
  <2> HIDE DEF b
  <2> QED
    BY <1>8, <2>1 DEF IsWalk
<1> QED
  BY <1>9

Kept(what, y, z) ==
    /\ z.recent = y.recent /\ z.partial = y.partial
    /\ what.op # "send" => DOMAIN z.cache = DOMAIN y.cache

\* A loop whose steps keep a syncer good keeps it good.
LEMMA WalkGood ==
    ASSUME NEW what, NEW y, NEW todo, NEW n \in Nat, NEW a, IsWalk(a, what, y, todo, n),
           NEW O, NEW I, NEW D, Good(y, O, I, D),
           \A z, i : Good(z, O, I, D) /\ Kept(what, y, z) /\ i \in todo \cap (1 .. n)
                        => Good(Do(what, z, i), O, I, D) /\ Kept(what, y, Do(what, z, i))
    PROVE  Good(a[n], O, I, D) /\ Kept(what, y, a[n])
<1> DEFINE Ok(i) == Good(a[i], O, I, D) /\ Kept(what, y, a[i])
           Bad == {i \in 0 .. n : ~ Ok(i)}
<1>1. SUFFICES ASSUME Bad # {} PROVE FALSE
  OBVIOUS
<1>2. Bad \subseteq Nat
  OBVIOUS
<1>3. PICK k \in Bad : \A m \in Bad : k <= m
  <2> HIDE DEF Bad
  <2> QED
    BY <1>1, <1>2, LeastNatural
<1>4. \A i \in 0 .. n : a[i] = IF i = 0 THEN y
                               ELSE IF i \in todo THEN Do(what, a[i - 1], i) ELSE a[i - 1]
  BY DEF IsWalk
<1>5. k # 0
  BY <1>4 DEF Kept
<1>6. k - 1 \in 0 .. n /\ Ok(k - 1) /\ k \in 1 .. n
  BY <1>3, <1>5
<1>7. CASE k \in todo
  BY <1>3, <1>4, <1>6, <1>7
<1>8. CASE k \notin todo
  BY <1>3, <1>4, <1>6, <1>8
<1> QED
  BY <1>7, <1>8

\* What changes outside the queues.
LEMMA GoodFrom ==
    ASSUME NEW O, NEW I, NEW D, NEW y, Good(y, O, I, D), NEW z,
           DOMAIN z = SyncFields, z.queue = y.queue,
           z.queued \subseteq y.queued, z.asked \subseteq y.asked,
           NEW J, NEW E, D \subseteq E,
           DOMAIN z.cache \subseteq O, DOMAIN z.partial \subseteq J,
           z.recent \in Seq(E), DOMAIN z.inbound \subseteq Payloads
    PROVE  Good(z, O, J, E)
<1>1. \A s \in Seq(Wire(O, D)) : s \in Seq(Wire(O, E))
  BY WireMonotone, SeqMonotone
<1>2. \A f : InQueue(z, f) <=> InQueue(y, f)
  BY DEF InQueue
<1>3. Queued(z, O, E)
  BY <1>1 DEF Good, Queued
<1>4. \A k \in z.queued : HasChunk(z, k)
  BY <1>2 DEF Good, HasChunk
<1>5. \A p \in z.asked : HasAsk(z, p)
  BY <1>2 DEF Good, HasAsk
<1> QED
  BY <1>3, <1>4, <1>5 DEF Good

LEMMA EnqueueChunksGood ==
    ASSUME NEW O, O \subseteq Payloads, NEW I, NEW D, NEW y, Good(y, O, I, D),
           NEW p \in O, NEW is
    PROVE  LET z == EnqueueChunks(y, p, is)
           IN  Good(z, O, I, D) /\ SameRecord(y, z)
<1> DEFINE what == [op |-> "chunk", pay |-> p]
           n == Chunks(p)
           Eq(u) == u = [i \in 0 .. n |->
                           IF i = 0 THEN y
                           ELSE IF i \in is THEN EnqueueChunk(u[i - 1], p, i) ELSE u[i - 1]]
           v == CHOOSE u : Eq(u)
<1>0. n \in Nat
  BY ClassIs
<1>1. EnqueueChunks(y, p, is) = v[n]
  BY DEF EnqueueChunks
<1>2. what.op = "chunk" /\ \A z, i : Do(what, z, i) = EnqueueChunk(z, p, i)
  BY DEF Do
<1> HIDE DEF what, n
<1>3. \A u : IsWalk(u, what, y, is, n) <=> Eq(u)
  BY <1>2 DEF IsWalk
<1>4. \E u : Eq(u)
  BY <1>0, <1>3, WalkExists
<1>5. Eq(v)
  BY <1>4
<1>6. IsWalk(v, what, y, is, n)
  BY <1>3, <1>5
<1>7. ASSUME NEW z, NEW i, Good(z, O, I, D), Kept(what, y, z), i \in is \cap (1 .. n)
      PROVE  Good(Do(what, z, i), O, I, D) /\ Kept(what, y, Do(what, z, i))
  <2>1. i \in Nat
    BY <1>7
  <2>2. Good(EnqueueChunk(z, p, i), O, I, D) /\ SameRecord(z, EnqueueChunk(z, p, i))
    BY <1>7, <2>1, EnqueueChunkGood
  <2> QED
    BY <1>2, <1>7, <2>2 DEF Kept, SameRecord
<1> HIDE DEF v
<1>8. Good(v[n], O, I, D) /\ Kept(what, y, v[n])
  BY <1>0, <1>6, <1>7, WalkGood
<1> QED
  BY <1>1, <1>2, <1>8 DEF Kept, SameRecord

\* What send makes of a syncer's records.
AfterSend(y, z, p) ==
    /\ DOMAIN z.cache = DOMAIN y.cache \cup {p}
    /\ z.recent = y.recent /\ z.partial = y.partial

LEMMA SendGood ==
    ASSUME NEW O, O \subseteq Payloads, NEW I, NEW D, NEW y, Good(y, O, I, D), NEW p \in O
    PROVE  Good(Send(y, p), O, I, D) /\ AfterSend(y, Send(y, p), p)
<1> DEFINE z == [y EXCEPT !.cache = Put(@, p, FALSE)]
<1>0. DOMAIN y = SyncFields
  BY DEF Good, Queued
<1>1. DOMAIN Put(y.cache, p, FALSE) = DOMAIN y.cache \cup {p}
  BY DEF Put
<1>2. /\ DOMAIN z = SyncFields /\ z.queue = y.queue /\ z.queued = y.queued /\ z.asked = y.asked
      /\ z.cache = Put(y.cache, p, FALSE) /\ z.partial = y.partial
      /\ z.recent = y.recent /\ z.inbound = y.inbound
  BY <1>0 DEF SyncFields
<1> HIDE DEF z
<1>3. Good(z, O, I, D)
  <2>1. DOMAIN z.cache \subseteq O /\ DOMAIN z.partial \subseteq I /\ z.recent \in Seq(D)
        /\ DOMAIN z.inbound \subseteq Payloads
    BY <1>1, <1>2 DEF Good
  <2> QED
    BY <1>2, <2>1, GoodFrom
<1>4. Good(EnqueueChunks(z, p, Indexes(p)), O, I, D)
      /\ SameRecord(z, EnqueueChunks(z, p, Indexes(p)))
  BY <1>3, EnqueueChunksGood
<1>5. Send(y, p) = EnqueueChunks(z, p, Indexes(p))
  BY DEF Send, z
<1> QED
  BY <1>1, <1>2, <1>4, <1>5 DEF SameRecord, AfterSend

LEMMA RequestedGood ==
    ASSUME NEW O, O \subseteq Payloads, NEW I, NEW D, NEW y, Good(y, O, I, D), NEW p \in Payloads
    PROVE  Good(Requested(y, p), O, I, D) /\ SameRecord(y, Requested(y, p))
<1>0. DOMAIN y = SyncFields
  BY DEF Good, Queued
<1>1. CASE p \notin DOMAIN y.partial
  <2> DEFINE z == [y EXCEPT !.inbound = Drop(@, {p})]
  <2>1. DOMAIN Drop(y.inbound, {p}) \subseteq DOMAIN y.inbound
    BY DEF Drop
  <2>2. /\ DOMAIN z = SyncFields /\ z.queue = y.queue /\ z.queued = y.queued /\ z.asked = y.asked
        /\ z.cache = y.cache /\ z.partial = y.partial
        /\ z.recent = y.recent /\ z.inbound = Drop(y.inbound, {p})
    BY <1>0 DEF SyncFields
  <2>3. Requested(y, p) = z
    BY <1>1 DEF Requested
  <2> HIDE DEF z
  <2>4. Good(z, O, I, D)
    <3>1. DOMAIN z.cache \subseteq O /\ DOMAIN z.partial \subseteq I /\ z.recent \in Seq(D)
          /\ DOMAIN z.inbound \subseteq Payloads
      BY <2>1, <2>2 DEF Good
    <3> QED
      BY <2>2, <3>1, GoodFrom
  <2> QED
    BY <2>2, <2>3, <2>4 DEF SameRecord
<1>2. CASE p \in DOMAIN y.partial /\ (~y.inbound[p] \/ p \in y.asked)
  <2>1. Requested(y, p) = y
    BY <1>2 DEF Requested
  <2> QED
    BY <2>1 DEF SameRecord
<1>3. CASE p \in DOMAIN y.partial /\ ~ (~y.inbound[p] \/ p \in y.asked)
  <2> DEFINE z == [y EXCEPT !.inbound[p] = FALSE]
             f == Ask(p, Indexes(p) \ z.partial[p])
             x == Enqueue(z, 0, f)
             w == [x EXCEPT !.asked = @ \cup {p}]
  <2>1. /\ DOMAIN z = SyncFields /\ z.queue = y.queue /\ z.queued = y.queued /\ z.asked = y.asked
        /\ z.cache = y.cache /\ z.partial = y.partial
        /\ z.recent = y.recent /\ DOMAIN z.inbound = DOMAIN y.inbound
    BY <1>0 DEF SyncFields
  <2>2. Requested(y, p) = IF Room(z, 0) THEN w ELSE z
    BY <1>3 DEF Requested
  <2>3. f \in Wire(O, D) /\ f.type = "ask" /\ f.pay = p
    <3>1. Indexes(p) \ z.partial[p] \in SUBSET Nat
      BY ClassIs
    <3> QED
      BY <3>1 DEF Ask, Wire
  <2> HIDE DEF z, f
  <2>4. Good(z, O, I, D)
    <3>1. DOMAIN z.cache \subseteq O /\ DOMAIN z.partial \subseteq I /\ z.recent \in Seq(D)
          /\ DOMAIN z.inbound \subseteq Payloads
      BY <2>1 DEF Good
    <3> QED
      BY <2>1, <3>1, GoodFrom
  <2>5. CASE Room(z, 0)
    <3>1. Enqueued(z, x, 0, f, O, D)
      <4>1. Queued(z, O, D)
        BY <2>4 DEF Good
      <4>2. 0 \in 0 .. 2
        OBVIOUS
      <4> QED
        BY <2>3, <4>1, <4>2, EnqueueIs
    <3>2. /\ Queued(x, O, D)
          /\ x.cache = z.cache /\ x.queued = z.queued /\ x.asked = z.asked
          /\ x.partial = z.partial /\ x.recent = z.recent /\ x.inbound = z.inbound
          /\ InQueue(x, f) /\ \A g : InQueue(z, g) => InQueue(x, g)
      BY <2>5, <3>1 DEF Enqueued
    <3> HIDE DEF x
    <3>3. /\ DOMAIN w = SyncFields /\ w.queue = x.queue /\ w.queued = z.queued
          /\ w.asked = z.asked \cup {p} /\ w.cache = z.cache
          /\ w.partial = z.partial /\ w.recent = z.recent /\ w.inbound = z.inbound
      BY <3>2 DEF Queued, SyncFields
    <3> HIDE DEF w
    <3>4. Queued(w, O, D) /\ \A g : InQueue(w, g) <=> InQueue(x, g)
      BY <3>2, <3>3 DEF Queued, InQueue
    <3>5. \A k \in w.queued : HasChunk(w, k)
      BY <2>4, <3>2, <3>3, <3>4 DEF Good, HasChunk
    <3>6. \A q \in w.asked : HasAsk(w, q)
      BY <2>3, <2>4, <3>2, <3>3, <3>4 DEF Good, HasAsk
    <3>7. Good(w, O, I, D)
      BY <2>4, <3>3, <3>4, <3>5, <3>6 DEF Good
    <3> QED
      BY <2>1, <2>2, <2>5, <3>3, <3>7 DEF SameRecord
  <2>6. CASE ~ Room(z, 0)
    BY <2>1, <2>2, <2>4, <2>6 DEF SameRecord
  <2> QED
    BY <2>5, <2>6
<1> QED
  BY <1>1, <1>2, <1>3

LEMMA PokedGood ==
    ASSUME NEW O, O \subseteq Payloads, NEW I, NEW D, NEW y, Good(y, O, I, D),
           NEW p \in DOMAIN y.cache
    PROVE  Good(Poked(y, p), O, I, D) /\ SameRecord(y, Poked(y, p))
<1> DEFINE z == IF \E k \in y.queued : k[1] = p THEN y ELSE EnqueueChunk(y, p, 1)
           w == [z EXCEPT !.cache[p] = FALSE]
<1>0. p \in O /\ 1 \in Nat
  BY DEF Good
<1>1. Good(EnqueueChunk(y, p, 1), O, I, D) /\ SameRecord(y, EnqueueChunk(y, p, 1))
  BY <1>0, EnqueueChunkGood
<1>2. Good(z, O, I, D) /\ SameRecord(y, z)
  BY <1>1 DEF SameRecord
<1>3. Poked(y, p) = w
  BY DEF Poked
<1> HIDE DEF z
<1>4. DOMAIN z = SyncFields
  BY <1>2 DEF Good, Queued
<1>5. /\ DOMAIN w = SyncFields /\ w.queue = z.queue /\ w.queued = z.queued /\ w.asked = z.asked
      /\ DOMAIN w.cache = DOMAIN z.cache /\ w.partial = z.partial
      /\ w.recent = z.recent /\ w.inbound = z.inbound
  BY <1>4 DEF SyncFields
<1> HIDE DEF w
<1>6. DOMAIN w.cache \subseteq O /\ DOMAIN w.partial \subseteq I /\ w.recent \in Seq(D)
      /\ DOMAIN w.inbound \subseteq Payloads
  BY <1>2, <1>5 DEF Good
<1>7. Good(w, O, I, D)
  BY <1>2, <1>5, <1>6, GoodFrom
<1> QED
  BY <1>2, <1>3, <1>5, <1>7 DEF SameRecord

LEMMA VisitIs == Visit \in Seq(Payloads) /\ Len(Visit) \in Nat
<1> DEFINE B == {Bundle(b) : b \in Pushes}
           R == {Receipt(b) : b \in Pushes}
           n == Cardinality(Payloads)
<1>1. IsFiniteSet(B)
  <2> DEFINE f == [b \in Pushes |-> Bundle(b)]
  <2>1. f \in Surjection(Pushes, B)
    BY DEF Surjection
  <2> QED
    BY <2>1, FS_Surjection, PushAssumption
<1>2. IsFiniteSet(R)
  <2> DEFINE f == [b \in Pushes |-> Receipt(b)]
  <2>1. f \in Surjection(Pushes, R)
    BY DEF Surjection
  <2> QED
    BY <2>1, FS_Surjection, PushAssumption
<1>3. Payloads = B \cup R
  <2>1. ASSUME NEW p \in Payloads PROVE p \in B \cup R
    <3>1. p.push \in Pushes /\ p.kind \in {"bundle", "receipt"}
          /\ p = [kind |-> p.kind, push |-> p.push]
      BY DEF Payloads
    <3>2. p = Bundle(p.push) \/ p = Receipt(p.push)
      BY <3>1 DEF Bundle, Receipt
    <3> QED
      BY <3>1, <3>2
  <2>2. \A b \in Pushes : Bundle(b) \in Payloads /\ Receipt(b) \in Payloads
    BY DEF Payloads, Bundle, Receipt
  <2> QED
    BY <2>1, <2>2
<1>4. IsFiniteSet(Payloads)
  <2> HIDE DEF B, R
  <2> QED
    BY <1>1, <1>2, <1>3, FS_Union
<1>5. n \in Nat /\ ExistsBijection(1 .. n, Payloads)
  BY <1>4, FS_CardinalityType
<1>6. \E f \in [1 .. n -> Payloads] : IsInjective(f)
  BY <1>5 DEF ExistsBijection, Bijection, Injection, IsInjective
<1>7. Visit \in [1 .. n -> Payloads]
  BY <1>6 DEF Visit, SetToSeq
<1> HIDE DEF n
<1> QED
  BY <1>5, <1>7

LEMMA VisitedIs ==
    ASSUME NEW i \in 1 .. Len(Visit)
    PROVE  Visit[i] \in Payloads
  BY VisitIs

LEMMA RequestMissingGood ==
    ASSUME NEW O, O \subseteq Payloads, NEW I, NEW D, NEW y, Good(y, O, I, D)
    PROVE  Good(RequestMissing(y), O, I, D) /\ SameRecord(y, RequestMissing(y))
<1> DEFINE what == [op |-> "request"]
           n == Len(Visit)
           todo == {i \in 1 .. n : Visit[i] \in DOMAIN y.inbound}
           Eq(u) == u = [i \in 0 .. n |->
                           IF i = 0 THEN y
                           ELSE IF Visit[i] \in DOMAIN y.inbound
                           THEN Requested(u[i - 1], Visit[i]) ELSE u[i - 1]]
           v == CHOOSE u : Eq(u)
<1>0. n \in Nat
  BY VisitIs
<1>1. RequestMissing(y) = v[n]
  BY DEF RequestMissing, Walk
<1>2. what.op = "request" /\ \A z, i : Do(what, z, i) = Requested(z, Visit[i])
  BY DEF Do
<1>3. \A i \in 0 .. n : i # 0 => (i \in todo <=> Visit[i] \in DOMAIN y.inbound)
  BY <1>0
<1> HIDE DEF what, n, todo
<1>4. \A u : IsWalk(u, what, y, todo, n) <=> Eq(u)
  BY <1>2, <1>3 DEF IsWalk
<1>5. \E u : Eq(u)
  BY <1>0, <1>4, WalkExists
<1>6. IsWalk(v, what, y, todo, n)
  BY <1>4, <1>5
<1>7. ASSUME NEW z, NEW i, Good(z, O, I, D), Kept(what, y, z), i \in todo \cap (1 .. n)
      PROVE  Good(Do(what, z, i), O, I, D) /\ Kept(what, y, Do(what, z, i))
  <2>1. Visit[i] \in Payloads
    BY <1>7, VisitedIs DEF n
  <2>2. Good(Requested(z, Visit[i]), O, I, D) /\ SameRecord(z, Requested(z, Visit[i]))
    BY <1>7, <2>1, RequestedGood
  <2> QED
    BY <1>2, <1>7, <2>2 DEF Kept, SameRecord
<1> HIDE DEF v
<1>8. Good(v[n], O, I, D) /\ Kept(what, y, v[n])
  BY <1>0, <1>6, <1>7, WalkGood
<1> QED
  BY <1>1, <1>2, <1>8 DEF Kept, SameRecord

LEMMA PokeUnackedGood ==
    ASSUME NEW O, O \subseteq Payloads, NEW I, NEW D, NEW y, Good(y, O, I, D)
    PROVE  Good(PokeUnacked(y), O, I, D) /\ SameRecord(y, PokeUnacked(y))
<1> DEFINE what == [op |-> "poke"]
           n == Len(Visit)
           due == {p \in DOMAIN y.cache : y.cache[p]}
           todo == {i \in 1 .. n : Visit[i] \in due}
           Eq(u) == u = [i \in 0 .. n |->
                           IF i = 0 THEN y
                           ELSE IF Visit[i] \in due
                           THEN Poked(u[i - 1], Visit[i]) ELSE u[i - 1]]
           v == CHOOSE u : Eq(u)
<1>0. n \in Nat
  BY VisitIs
<1>1. PokeUnacked(y) = v[n]
  BY DEF PokeUnacked, Walk
<1>2. what.op = "poke" /\ \A z, i : Do(what, z, i) = Poked(z, Visit[i])
  BY DEF Do
<1>d. due \subseteq DOMAIN y.cache
  OBVIOUS
<1> HIDE DEF due
<1>3. \A i \in 0 .. n : i # 0 => (i \in todo <=> Visit[i] \in due)
  BY <1>0
<1>t. \A i \in todo : Visit[i] \in DOMAIN y.cache
  BY <1>d
<1> HIDE DEF what, n, todo
<1>4. \A u : IsWalk(u, what, y, todo, n) <=> Eq(u)
  BY <1>2, <1>3 DEF IsWalk
<1>5. \E u : Eq(u)
  BY <1>0, <1>4, WalkExists
<1>6. IsWalk(v, what, y, todo, n)
  BY <1>4, <1>5
<1>7. ASSUME NEW z, NEW i, Good(z, O, I, D), Kept(what, y, z), i \in todo \cap (1 .. n)
      PROVE  Good(Do(what, z, i), O, I, D) /\ Kept(what, y, Do(what, z, i))
  <2>1. Visit[i] \in DOMAIN z.cache
    BY <1>2, <1>7, <1>t DEF Kept
  <2>2. Good(Poked(z, Visit[i]), O, I, D) /\ SameRecord(z, Poked(z, Visit[i]))
    BY <1>7, <2>1, PokedGood
  <2> QED
    BY <1>2, <1>7, <2>2 DEF Kept, SameRecord
<1> HIDE DEF v
<1>8. Good(v[n], O, I, D) /\ Kept(what, y, v[n])
  BY <1>0, <1>6, <1>7, WalkGood
<1> QED
  BY <1>1, <1>2, <1>8 DEF Kept, SameRecord

LEMMA NudgedGood ==
    ASSUME NEW O, O \subseteq Payloads, NEW I, NEW D, NEW y, Good(y, O, I, D)
    PROVE  Good(Nudged(y), O, I, D) /\ SameRecord(y, Nudged(y))
<1>1. Good(RequestMissing(y), O, I, D) /\ SameRecord(y, RequestMissing(y))
  BY RequestMissingGood
<1>2. Good(PokeUnacked(RequestMissing(y)), O, I, D)
      /\ SameRecord(RequestMissing(y), PokeUnacked(RequestMissing(y)))
  BY <1>1, PokeUnackedGood
<1> QED
  BY <1>1, <1>2 DEF Nudged, SameRecord

LEMMA PulledSyncerGood ==
    ASSUME NEW O, O \subseteq Payloads, NEW I, NEW D, NEW y, Good(y, O, I, D), NEW rs, NEW due,
           \A b \in HandedOver(rs, due) : Bundle(b) \in O
    PROVE  Good(PulledSyncer(y, rs, due), O, I, D)
<1> DEFINE what == [op |-> "send"]
           n == Len(Visit)
           bs == {Bundle(b) : b \in HandedOver(rs, due) \ Unframeable}
           todo == {i \in 1 .. n : Visit[i] \in bs}
           Eq(u) == u = [i \in 0 .. n |->
                           IF i = 0 THEN y
                           ELSE IF Visit[i] \in bs
                           THEN Send(u[i - 1], Visit[i]) ELSE u[i - 1]]
           v == CHOOSE u : Eq(u)
<1>0. n \in Nat
  BY VisitIs
<1>1. PulledSyncer(y, rs, due) = v[n]
  BY DEF PulledSyncer, Walk
<1>2. what.op = "send" /\ \A z, i : Do(what, z, i) = Send(z, Visit[i])
  BY DEF Do
<1>d. bs \subseteq O
  OBVIOUS
<1> HIDE DEF bs
<1>3. \A i \in 0 .. n : i # 0 => (i \in todo <=> Visit[i] \in bs)
  BY <1>0
<1>t. \A i \in todo : Visit[i] \in O
  BY <1>d
<1> HIDE DEF what, n, todo
<1>4. \A u : IsWalk(u, what, y, todo, n) <=> Eq(u)
  BY <1>2, <1>3 DEF IsWalk
<1>5. \E u : Eq(u)
  BY <1>0, <1>4, WalkExists
<1>6. IsWalk(v, what, y, todo, n)
  BY <1>4, <1>5
<1>7. ASSUME NEW z, NEW i, Good(z, O, I, D), Kept(what, y, z), i \in todo \cap (1 .. n)
      PROVE  Good(Do(what, z, i), O, I, D) /\ Kept(what, y, Do(what, z, i))
  <2>1. Visit[i] \in O
    BY <1>7, <1>t
  <2>2. PICK p \in O : p = Visit[i]
    BY <2>1
  <2>3. Good(Send(z, p), O, I, D) /\ AfterSend(z, Send(z, p), p)
    BY <1>7, SendGood
  <2> QED
    BY <1>2, <1>7, <2>2, <2>3 DEF Kept, AfterSend
<1> HIDE DEF v
<1>8. Good(v[n], O, I, D) /\ Kept(what, y, v[n])
  BY <1>0, <1>6, <1>7, WalkGood
<1> QED
  BY <1>1, <1>8

LEMMA PumpedGood ==
    ASSUME NEW O, NEW I, NEW D, NEW y, Good(y, O, I, D), Served(y) # {}
    PROVE  /\ Good(Pumped(y), O, I, D) /\ SameRecord(y, Pumped(y))
           /\ Head(y.queue[Min(Served(y))]) \in Wire(O, D)
<1> DEFINE c == Min(Served(y))
           q == y.queue[c]
           f == Head(q)
           W == Wire(O, D)
           z == Pumped(y)
<1>1. c \in 0 .. 2 /\ q # <<>>
  <2>1. Served(y) \subseteq Nat
    BY DEF Served
  <2>2. c \in Served(y)
    BY <2>1, MinOfNaturals
  <2> QED
    BY <2>2 DEF Served
<1>2. y.queue \in [0 .. 2 -> Seq(W)] /\ DOMAIN y = SyncFields
  BY DEF Good, Queued
<1>3. q \in Seq(W) /\ Len(q) \in Nat /\ Len(q) > 0
  BY <1>1, <1>2
<1>4. /\ f = q[1] /\ f \in W /\ Tail(q) \in Seq(W) /\ Len(Tail(q)) = Len(q) - 1
      /\ \A i \in 1 .. Len(q) - 1 : Tail(q)[i] = q[i + 1]
  <2> HIDE DEF W, q
  <2> QED
    BY <1>1, <1>3
<1>5. /\ z.queue = [y.queue EXCEPT ![c] = Tail(q)] /\ DOMAIN z = SyncFields
      /\ z.queued = y.queued \ ChunkKey(f)
      /\ z.asked = IF f.type = "ask" THEN y.asked \ {f.pay} ELSE y.asked
      /\ z.cache = y.cache /\ z.partial = y.partial /\ z.recent = y.recent
      /\ z.inbound = y.inbound
  BY <1>2 DEF Pumped, SyncFields
<1> HIDE DEF c, z, W, f
<1>6. z.queue[c] = Tail(q) /\ \A d \in 0 .. 2 : d # c => z.queue[d] = y.queue[d]
  BY <1>1, <1>2, <1>5
<1>7. Queued(z, O, D)
  <2>1. z.queue \in [0 .. 2 -> Seq(W)]
    BY <1>1, <1>2, <1>4, <1>5
  <2>2. ASSUME NEW d \in 1 .. 2, NEW i \in 1 .. Len(z.queue[d])
        PROVE  z.queue[d][i].type = "chunk"
    <3>1. \A m \in 1 .. Len(y.queue[d]) : y.queue[d][m].type = "chunk"
      BY DEF Good, Queued
    <3>2. CASE d = c
      <4>0. Len(z.queue[d]) = Len(q) - 1
        BY <1>4, <1>6, <3>2
      <4>1. i \in 1 .. Len(q) - 1 /\ i + 1 \in 1 .. Len(q)
        <5> HIDE DEF q
        <5> QED
          BY <1>3, <4>0
      <4>2. z.queue[d][i] = q[i + 1]
        BY <1>4, <1>6, <3>2, <4>1
      <4> QED
        BY <3>1, <3>2, <4>1, <4>2
    <3>3. CASE d # c
      BY <1>6, <3>1, <3>3
    <3> QED
      BY <3>2, <3>3
  <2> QED
    BY <1>5, <2>1, <2>2 DEF Queued, W
<1>8. ASSUME NEW g, InQueue(y, g), g # f PROVE InQueue(z, g)
  <2>1. PICK d \in 0 .. 2 : \E i \in 1 .. Len(y.queue[d]) : y.queue[d][i] = g
    BY <1>8 DEF InQueue
  <2>2. CASE d = c
    <3>1. PICK i \in 1 .. Len(q) : q[i] = g
      BY <2>1, <2>2
    <3>2. i # 1
      BY <1>4, <1>8, <3>1
    <3>3. i - 1 \in 1 .. Len(q) - 1 /\ i - 1 \in 1 .. Len(Tail(q)) /\ (i - 1) + 1 = i
      BY <1>3, <1>4, <3>2
    <3>4. Tail(q)[i - 1] = g
      BY <1>4, <3>1, <3>3
    <3> QED
      BY <1>1, <1>6, <3>3, <3>4 DEF InQueue
  <2>3. CASE d # c
    BY <1>6, <2>1, <2>3 DEF InQueue
  <2> QED
    BY <2>2, <2>3
<1>9. ASSUME NEW k \in z.queued PROVE HasChunk(z, k)
  <2>1. PICK g : InQueue(y, g) /\ g.type = "chunk" /\ k = <<g.pay, g.idx>>
    BY <1>5 DEF Good, HasChunk
  <2>2. g # f
    BY <1>5, <2>1 DEF ChunkKey
  <2> QED
    BY <1>8, <2>1, <2>2 DEF HasChunk
<1>10. ASSUME NEW p \in z.asked PROVE HasAsk(z, p)
  <2>1. p \in y.asked /\ ~ (f.type = "ask" /\ p = f.pay)
    BY <1>5
  <2>2. PICK g : InQueue(y, g) /\ g.type = "ask" /\ g.pay = p
    BY <2>1 DEF Good, HasAsk
  <2> QED
    BY <1>8, <2>1, <2>2 DEF HasAsk
<1>11. Good(z, O, I, D)
  BY <1>5, <1>7, <1>9, <1>10 DEF Good
<1> QED
  BY <1>4, <1>5, <1>11 DEF SameRecord, z, W, f, c

LEMMA AckGood ==
    ASSUME NEW O, NEW I, NEW D, NEW y, Good(y, O, I, D), NEW p \in D
    PROVE  Good(Enqueue(y, 0, Ack(p)), O, I, D) /\ SameRecord(y, Enqueue(y, 0, Ack(p)))
<1> DEFINE f == Ack(p)
           z == Enqueue(y, 0, f)
<1>1. f \in Wire(O, D)
  BY DEF Ack, Wire
<1>2. 0 \in 0 .. 2 /\ Queued(y, O, D)
  BY DEF Good
<1>3. Enqueued(y, z, 0, f, O, D)
  <2> HIDE DEF f
  <2> QED
    BY <1>1, <1>2, EnqueueIs
<1> HIDE DEF f, z
<1>4. /\ Queued(z, O, D)
      /\ z.cache = y.cache /\ z.queued = y.queued /\ z.asked = y.asked
      /\ z.partial = y.partial /\ z.recent = y.recent /\ z.inbound = y.inbound
      /\ \A g : InQueue(y, g) => InQueue(z, g)
  BY <1>3 DEF Enqueued
<1>5. \A k \in z.queued : HasChunk(z, k)
  BY <1>4 DEF Good, HasChunk
<1>6. \A q \in z.asked : HasAsk(z, q)
  BY <1>4 DEF Good, HasAsk
<1> QED
  BY <1>4, <1>5, <1>6 DEF Good, SameRecord, f, z

LEMMA RememberedIs ==
    ASSUME NEW D, NEW s \in Seq(D), NEW p
    PROVE  /\ Remembered(s, p) \in Seq(D \cup {p})
           /\ ToSet(Remembered(s, p)) \subseteq ToSet(s) \cup {p}
<1> DEFINE E == D \cup {p}
           all == Append(s, p)
           r == Remembered(s, p)
<1>1. s \in Seq(E) /\ p \in E /\ Len(s) \in Nat
  BY SeqMonotone
<1>2. all \in Seq(E) /\ Len(all) = Len(s) + 1 /\ all[Len(s) + 1] = p
      /\ \A i \in 1 .. Len(s) : all[i] = s[i]
  <2> HIDE DEF E
  <2> QED
    BY <1>1
<1>3. r = all \/ r = Tail(all)
  BY DEF Remembered
<1> HIDE DEF all, E
<1>4. /\ Tail(all) \in Seq(E) /\ Len(Tail(all)) = Len(s)
      /\ \A i \in 1 .. Len(s) : Tail(all)[i] = all[i + 1]
  BY <1>1, <1>2
<1> HIDE DEF r
<1>5. r \in Seq(E)
  BY <1>2, <1>3, <1>4
<1>6. ASSUME NEW i \in DOMAIN r PROVE r[i] = p \/ \E m \in DOMAIN s : r[i] = s[m]
  <2>1. DOMAIN s = 1 .. Len(s)
    OBVIOUS
  <2>2. \A m \in 1 .. Len(s) + 1 : m = Len(s) + 1 \/ m \in 1 .. Len(s)
    BY <1>1
  <2>3. \A m \in 1 .. Len(s) + 1 : all[m] = p \/ \E h \in DOMAIN s : all[m] = s[h]
    BY <1>2, <2>1, <2>2
  <2>4. CASE r = all
    <3>1. i \in 1 .. Len(s) + 1
      BY <1>2, <2>4
    <3> QED
      BY <2>3, <2>4, <3>1
  <2>5. CASE r = Tail(all)
    <3>1. DOMAIN r = 1 .. Len(s)
      BY <1>4, <2>5
    <3>2. i \in 1 .. Len(s) /\ i + 1 \in 1 .. Len(s) + 1
      BY <1>1, <3>1
    <3> QED
      BY <1>4, <2>3, <2>5, <3>2
  <2> QED
    BY <1>3, <2>4, <2>5
<1> QED
  BY <1>5, <1>6 DEF ToSet, E, r

\* What an arrival makes of a syncer that acknowledgements of E may reach.
Arrived(y, a, O, I, D, E) ==
    /\ Good(a.y, O, I, D \cup a.done)
    /\ a.done = {} \/ \E p \in I : a.done = {p}
    /\ DOMAIN y.cache \ E \subseteq DOMAIN a.y.cache
    /\ ToSet(a.y.recent) \subseteq ToSet(y.recent) \cup a.done

LEMMA PlacedGood ==
    ASSUME NEW O, NEW I, NEW D, NEW y, Good(y, O, I, D), NEW p \in I, NEW i,
           NEW z \in Placed(y, p, i)
    PROVE  /\ Good(z, O, I, D)
           /\ z.cache = y.cache /\ z.recent = y.recent /\ z.inbound = y.inbound
<1>1. PICK out : z = [y EXCEPT !.partial =
                        Put(Drop(@, out), p, (IF p \in DOMAIN @ THEN @[p] ELSE {}) \cup {i})]
  BY DEF Placed
<1>2. DOMAIN y = SyncFields
  BY DEF Good, Queued
<1>3. /\ DOMAIN z = SyncFields /\ z.queue = y.queue /\ z.queued = y.queued /\ z.asked = y.asked
      /\ z.cache = y.cache /\ z.recent = y.recent /\ z.inbound = y.inbound
      /\ z.partial = Put(Drop(y.partial, out), p,
                         (IF p \in DOMAIN y.partial THEN y.partial[p] ELSE {}) \cup {i})
  BY <1>1, <1>2 DEF SyncFields
<1>4. DOMAIN z.partial \subseteq DOMAIN y.partial \cup {p}
  BY <1>3 DEF Put, Drop
<1>5. DOMAIN z.cache \subseteq O /\ DOMAIN z.partial \subseteq I /\ z.recent \in Seq(D)
      /\ DOMAIN z.inbound \subseteq Payloads
  BY <1>3, <1>4 DEF Good
<1>6. Good(z, O, I, D)
  BY <1>3, <1>5, GoodFrom
<1> QED
  BY <1>3, <1>6

LEMMA FinishedGood ==
    ASSUME NEW O, NEW I, NEW D, NEW y, Good(y, O, I, D), NEW p \in I
    PROVE  /\ Good(Finished(y, p), O, I, D \cup {p})
           /\ DOMAIN Finished(y, p).cache = DOMAIN y.cache
           /\ Finished(y, p).recent = Remembered(y.recent, p)
<1> DEFINE x == [y EXCEPT !.partial = Drop(@, {p}), !.recent = Remembered(@, p),
                          !.inbound = Drop(@, {p})]
           E == D \cup {p}
<1>1. DOMAIN y = SyncFields /\ y.recent \in Seq(D)
  BY DEF Good, Queued
<1>2. /\ DOMAIN x = SyncFields /\ x.queue = y.queue /\ x.queued = y.queued /\ x.asked = y.asked
      /\ x.cache = y.cache /\ x.partial = Drop(y.partial, {p})
      /\ x.recent = Remembered(y.recent, p) /\ x.inbound = Drop(y.inbound, {p})
  BY <1>1 DEF SyncFields
<1>3. Finished(y, p) = Enqueue(x, 0, Ack(p))
  BY DEF Finished
<1> HIDE DEF x
<1>4. x.recent \in Seq(E)
  BY <1>1, <1>2, RememberedIs
<1>5. DOMAIN x.cache \subseteq O /\ DOMAIN x.partial \subseteq I /\ DOMAIN x.inbound \subseteq Payloads
  BY <1>2 DEF Good, Drop
<1>6. D \subseteq E /\ p \in E
  OBVIOUS
<1> HIDE DEF E
<1>7. Good(x, O, I, E)
  BY <1>2, <1>4, <1>5, <1>6, GoodFrom
<1>8. Good(Enqueue(x, 0, Ack(p)), O, I, E) /\ SameRecord(x, Enqueue(x, 0, Ack(p)))
  BY <1>6, <1>7, AckGood
<1> QED
  BY <1>2, <1>3, <1>8 DEF SameRecord, E

LEMMA ArrivalGood ==
    ASSUME NEW O, O \subseteq Payloads, NEW I, I \subseteq Payloads, NEW D, NEW E,
           NEW y, Good(y, O, I, D), NEW f \in Wire(I, E), NEW a \in Arrival(y, f)
    PROVE  Arrived(y, a, O, I, D, E)
<1>0. DOMAIN y = SyncFields /\ f.type \in {"chunk", "ack", "ask"}
  BY WireFacts DEF Good, Queued
<1>d. D \cup {} = D
  OBVIOUS
<1>1. CASE f.type = "ack"
  <2> DEFINE p == f.pay
             z == Acked(y, p)
  <2>1. a.y = z /\ a.done = {}
    BY <1>1 DEF Arrival
  <2>2. p \in E
    BY <1>1, WireFacts
  <2>3. /\ DOMAIN z = SyncFields /\ z.queue = y.queue
        /\ z.queued = {k \in y.queued : k[1] # p} /\ z.asked = y.asked
        /\ z.cache = Drop(y.cache, {p}) /\ z.partial = y.partial
        /\ z.recent = y.recent /\ z.inbound = y.inbound
    BY <1>0 DEF Acked, SyncFields
  <2> HIDE DEF z, p
  <2>4. DOMAIN z.cache = DOMAIN y.cache \ {p} /\ z.queued \subseteq y.queued
    BY <2>3 DEF Drop
  <2>5. DOMAIN z.cache \subseteq O /\ DOMAIN z.partial \subseteq I /\ z.recent \in Seq(D)
        /\ DOMAIN z.inbound \subseteq Payloads
    BY <2>3, <2>4 DEF Good
  <2>6. Good(z, O, I, D)
    BY <2>3, <2>4, <2>5, GoodFrom
  <2> QED
    BY <1>d, <2>1, <2>2, <2>3, <2>4, <2>6 DEF Arrived
<1>2. CASE f.type = "ask"
  <2> DEFINE p == f.pay
             z == Answered(y, p, f.lacks)
  <2>1. a.y = z /\ a.done = {}
    BY <1>2 DEF Arrival
  <2>2. Good(z, O, I, D) /\ SameRecord(y, z)
    <3>1. CASE p \in DOMAIN y.cache
      <4>1. p \in O
        BY <3>1 DEF Good
      <4>2. z = EnqueueChunks(y, p, f.lacks \cap Indexes(p))
        BY <3>1 DEF Answered
      <4> HIDE DEF p, z
      <4> QED
        BY <4>1, <4>2, EnqueueChunksGood
    <3>2. CASE p \notin DOMAIN y.cache
      BY <3>2 DEF Answered, SameRecord
    <3> QED
      BY <3>1, <3>2
  <2> HIDE DEF z, p
  <2> QED
    BY <1>d, <2>1, <2>2 DEF Arrived, SameRecord
<1>3. CASE f.type = "chunk" /\ Known(y, f.pay)
  <2> DEFINE p == f.pay
             z == ReAcked(y, p)
  <2>1. a.y = z /\ a.done = {}
    BY <1>3 DEF Arrival
  <2>2. p \in D
    BY <1>3 DEF Known, ToSet, Good
  <2>3. Good(z, O, I, D) /\ SameRecord(y, z)
    <3> HIDE DEF p
    <3> QED
      BY <2>2, AckGood DEF ReAcked
  <2> HIDE DEF z, p
  <2> QED
    BY <1>d, <2>1, <2>3 DEF Arrived, SameRecord
<1>4. CASE f.type = "chunk" /\ ~ Known(y, f.pay)
  <2> DEFINE p == f.pay
  <2>1. p \in I
    BY <1>4, WireFacts
  <2>2. PICK z \in Placed(y, p, f.idx) :
            a = IF Completes(z, p) THEN [y |-> Finished(z, p), done |-> {p}]
                ELSE [y |-> Tracked(z, p), done |-> {}]
    BY <1>4 DEF Arrival
  <2> HIDE DEF p
  <2>3. Good(z, O, I, D) /\ z.cache = y.cache /\ z.recent = y.recent /\ z.inbound = y.inbound
    BY <2>1, <2>2, PlacedGood
  <2>4. CASE Completes(z, p)
    <3>1. a.y = Finished(z, p) /\ a.done = {p}
      BY <2>2, <2>4
    <3>2. /\ Good(Finished(z, p), O, I, D \cup {p})
          /\ DOMAIN Finished(z, p).cache = DOMAIN z.cache
          /\ Finished(z, p).recent = Remembered(z.recent, p)
      BY <2>1, <2>3, FinishedGood
    <3>3. ToSet(Remembered(z.recent, p)) \subseteq ToSet(z.recent) \cup {p}
      <4>1. z.recent \in Seq(D)
        BY <2>3 DEF Good
      <4> QED
        BY <4>1, RememberedIs
    <3> QED
      BY <2>1, <2>3, <3>1, <3>2, <3>3 DEF Arrived
  <2>5. CASE ~ Completes(z, p)
    <3> DEFINE x == Tracked(z, p)
    <3>1. a.y = x /\ a.done = {}
      BY <2>2, <2>5
    <3>2. DOMAIN z = SyncFields
      BY <2>3 DEF Good, Queued
    <3>3. /\ DOMAIN x = SyncFields /\ x.queue = z.queue /\ x.queued = z.queued
          /\ x.asked = z.asked /\ x.cache = z.cache /\ x.partial = z.partial
          /\ x.recent = z.recent
          /\ x.inbound = IF p \in DOMAIN z.inbound THEN z.inbound ELSE Put(z.inbound, p, TRUE)
      BY <3>2 DEF Tracked, SyncFields
    <3> HIDE DEF x
    <3>4. DOMAIN x.inbound \subseteq DOMAIN z.inbound \cup {p}
      BY <3>3 DEF Put
    <3>5. DOMAIN x.cache \subseteq O /\ DOMAIN x.partial \subseteq I /\ x.recent \in Seq(D)
          /\ DOMAIN x.inbound \subseteq Payloads
      BY <2>1, <2>3, <3>3, <3>4 DEF Good
    <3>6. Good(x, O, I, D)
      BY <2>3, <3>3, <3>5, GoodFrom
    <3> QED
      BY <1>d, <2>3, <3>1, <3>3, <3>6 DEF Arrived
  <2> QED
    BY <2>4, <2>5
<1> QED
  BY <1>0, <1>1, <1>2, <1>3, <1>4

LEMMA TickedGood ==
    ASSUME NEW O, O \subseteq Payloads, NEW I, I \subseteq Payloads, NEW D, NEW E,
           NEW y, Good(y, O, I, D), NEW sent \in Sendable(y),
           NEW took, took \subseteq Wire(I, E), NEW t \in Ticked(y, sent, took)
    PROVE  Arrived(y, t, O, I, D, E) /\ sent \subseteq Wire(O, D)
<1> DEFINE z == IF sent = {} THEN y ELSE Pumped(y)
<1>1. Good(z, O, I, D) /\ SameRecord(y, z) /\ sent \subseteq Wire(O, D)
  <2>1. CASE sent = {}
    BY <2>1 DEF SameRecord
  <2>2. CASE sent # {}
    <3>1. PICK c \in Served(y) : c = Min(Served(y)) /\ sent = {Head(y.queue[c])}
      BY <2>2 DEF Sendable
    <3>2. Served(y) # {}
      BY <3>1
    <3>3. /\ Good(Pumped(y), O, I, D) /\ SameRecord(y, Pumped(y))
          /\ Head(y.queue[Min(Served(y))]) \in Wire(O, D)
      BY <3>2, PumpedGood
    <3> QED
      BY <2>2, <3>1, <3>3
  <2> QED
    BY <2>1, <2>2
<1>2. PICK a : /\ t = [a EXCEPT !.y = Nudged(@)]
               /\ \/ a = [y |-> z, done |-> {}]
                  \/ \E f \in took : a \in Arrival(z, f)
  BY DEF Ticked
<1> HIDE DEF z
<1>3. DOMAIN a = {"y", "done"}
  <2>1. CASE a = [y |-> z, done |-> {}]
    BY <2>1
  <2>2. ASSUME NEW f \in took, a \in Arrival(z, f) PROVE DOMAIN a = {"y", "done"}
    <3>1. f.type \in {"chunk", "ack", "ask"}
      BY WireFacts
    <3>2. \A u, d : DOMAIN [y |-> u, done |-> d] = {"y", "done"}
      OBVIOUS
    <3>3. \E u, d : a = [y |-> u, done |-> d]
      BY <2>2, <3>1 DEF Arrival
    <3> QED
      BY <3>2, <3>3
  <2> QED
    BY <1>2, <2>1, <2>2
<1>4. Arrived(z, a, O, I, D, E)
  <2>1. CASE a = [y |-> z, done |-> {}]
    <3>1. a.y = z /\ a.done = {} /\ D \cup {} = D
      BY <2>1
    <3> QED
      BY <1>1, <3>1 DEF Arrived
  <2>2. ASSUME NEW f \in took, a \in Arrival(z, f) PROVE Arrived(z, a, O, I, D, E)
    BY <1>1, <2>2, ArrivalGood
  <2> QED
    BY <1>2, <2>1, <2>2
<1>5. t.y = Nudged(a.y) /\ t.done = a.done
  BY <1>2, <1>3
<1>6. Good(a.y, O, I, D \cup a.done)
  BY <1>4 DEF Arrived
<1>7. Good(Nudged(a.y), O, I, D \cup a.done) /\ SameRecord(a.y, Nudged(a.y))
  BY <1>6, NudgedGood
<1> QED
  BY <1>1, <1>4, <1>5, <1>7 DEF Arrived, SameRecord

-----------------------------------------------------------------------------
(* Both ends.                                                              *)

RowFields == {"state", "quiet", "expired"}

\* The rows rs2 that rs may become while the receipts of done arrive.
Settled(rs, rs2, done) ==
    /\ DOMAIN rs2 = DOMAIN rs
    /\ \A b \in DOMAIN rs :
          /\ DOMAIN rs2[b] = RowFields
          /\ rs[b].state # "pending" => rs2[b].state = rs[b].state
          /\ rs2[b].state = "delivered" => rs[b].state = "delivered" \/ Receipt(b) \in done
          /\ Receipt(b) \in done => rs2[b].state # "pending"

LEMMA PulledRowsSettle ==
    ASSUME NEW rs, NEW due, \A b \in DOMAIN rs : DOMAIN rs[b] = RowFields
    PROVE  Settled(rs, PulledRows(rs, due), {})
<1> DEFINE rs2 == PulledRows(rs, due)
<1>1. DOMAIN rs2 = DOMAIN rs
  BY DEF PulledRows
<1>2. ASSUME NEW b \in DOMAIN rs
      PROVE  /\ DOMAIN rs2[b] = RowFields
             /\ rs2[b].state = rs[b].state
                  \/ (rs[b].state = "pending" /\ rs2[b].state = "abandoned")
  BY <1>2 DEF PulledRows, Pending, RowFields
<1> HIDE DEF rs2
<1> QED
  BY <1>1, <1>2 DEF Settled, rs2

LEMMA MarkDeliveredSettles ==
    ASSUME NEW rs, NEW done, \A b \in DOMAIN rs : DOMAIN rs[b] = RowFields
    PROVE  Settled(rs, MarkDelivered(rs, done), done)
<1> DEFINE rs2 == MarkDelivered(rs, done)
<1>1. DOMAIN rs2 = DOMAIN rs
  BY DEF MarkDelivered
<1>2. ASSUME NEW b \in DOMAIN rs
      PROVE  /\ DOMAIN rs2[b] = RowFields
             /\ rs[b].state # "pending" => rs2[b].state = rs[b].state
             /\ rs2[b].state = "delivered" => rs[b].state = "delivered" \/ Receipt(b) \in done
             /\ Receipt(b) \in done => rs2[b].state # "pending"
  BY <1>2 DEF MarkDelivered, Pending, RowFields
<1> HIDE DEF rs2
<1> QED
  BY <1>1, <1>2 DEF Settled, rs2

LEMMA SettledTwice ==
    ASSUME NEW r, NEW s, NEW u, NEW d, NEW e, Settled(r, s, d), Settled(s, u, e)
    PROVE  Settled(r, u, d \cup e)
  BY DEF Settled

\* What each end sends, and what home has finished.
HomeOut(rs)       == {Bundle(b) : b \in DOMAIN rs}
PeerOut(ing)      == {Receipt(b) : b \in ing}
HomeDone(rs, ing) == {Receipt(b) : b \in ing \ Pending(rs)}

MishapType == [loss : Nat, respawn : Nat, silence : Nat, fault : Nat]

\* The peer still holds the receipt of a bundle it has finished.
ReceiptHeld(rs, y) ==
    \A b \in Pending(rs) : Bundle(b) \in ToSet(y.recent) => Receipt(b) \in DOMAIN y.cache

\* Rows, and what is ingested.
RowInv(rs, ing) ==
    /\ DOMAIN rs \subseteq Pushes /\ ing \subseteq DOMAIN rs
    /\ \A b \in DOMAIN rs :
          DOMAIN rs[b] = RowFields /\ (rs[b].state = "delivered" => b \in ing)

\* The syncers and the air hold only what the rows and the ingested account
\* for; home acknowledges a receipt only once its row is settled.
WireInv(rs, ing, sy, ar) ==
    /\ DOMAIN sy = Ends /\ DOMAIN ar = Ends
    /\ Good(sy["home"], HomeOut(rs), PeerOut(ing), HomeDone(rs, ing))
    /\ Good(sy["peer"], PeerOut(ing), HomeOut(rs), HomeOut(rs))
    /\ ar["peer"] \subseteq Wire(HomeOut(rs), HomeDone(rs, ing))
    /\ ar["home"] \subseteq Wire(PeerOut(ing), HomeOut(rs))

FaultInv(rs, sy, mi) ==
    /\ mi \in MishapType
    /\ mi.fault = 0 /\ mi.silence = 0 => ReceiptHeld(rs, sy["peer"])

PushInv ==
    /\ RowInv(rows, ingested)
    /\ WireInv(rows, ingested, syncer, air)
    /\ FaultInv(rows, syncer, mishaps)

LEMMA OutIsPayload ==
    ASSUME NEW rs, NEW ing, RowInv(rs, ing)
    PROVE  HomeOut(rs) \subseteq Payloads /\ PeerOut(ing) \subseteq Payloads
  BY DEF RowInv, HomeOut, PeerOut, Bundle, Receipt, Payloads

LEMMA Distinct ==
    \A b, c : (Receipt(b) = Receipt(c) => b = c) /\ (Bundle(b) = Bundle(c) => b = c)
              /\ Bundle(b) # Receipt(c) /\ Receipt(b).push = b /\ Bundle(b).push = b
  BY DEF Receipt, Bundle

LEMMA MishapIs ==
    ASSUME mishaps \in MishapType, NEW k \in {"loss", "respawn", "silence", "fault"}, Mishap(k)
    PROVE  /\ mishaps' \in MishapType
           /\ k \notin {"silence", "fault"} =>
                 mishaps'.fault = mishaps.fault /\ mishaps'.silence = mishaps.silence
           /\ k \in {"silence", "fault"} => ~ (mishaps'.fault = 0 /\ mishaps'.silence = 0)
  BY DEF Mishap, MishapType

LEMMA CarriedIs ==
    ASSUME DOMAIN air = Ends, NEW s \in Ends, NEW sent, NEW took, Carried(s, sent, took),
           mishaps \in MishapType
    PROVE  /\ DOMAIN air' = Ends
           /\ air'[s] \subseteq air[s] /\ air'[Other(s)] \subseteq air[Other(s)] \cup sent
           /\ mishaps' \in MishapType
           /\ mishaps'.fault = mishaps.fault /\ mishaps'.silence = mishaps.silence
<1>0. Other(s) \in Ends /\ Other(s) # s
  BY DEF Other, Ends
<1>1. CASE air' = [air EXCEPT ![s] = @ \ took, ![Other(s)] = @ \cup sent] /\ UNCHANGED mishaps
  BY <1>0, <1>1
<1>2. CASE air' = [air EXCEPT ![s] = @ \ took] /\ Mishap("loss")
  <2>1. /\ mishaps' \in MishapType
        /\ mishaps'.fault = mishaps.fault /\ mishaps'.silence = mishaps.silence
    BY <1>2, MishapIs
  <2> QED
    BY <1>0, <1>2, <2>1
<1> QED
  BY <1>1, <1>2 DEF Carried

\* What the ends account for only grows as the rows settle.
LEMMA WireGrows ==
    ASSUME NEW rs, NEW ing, NEW sy, NEW ar, RowInv(rs, ing), WireInv(rs, ing, sy, ar),
           NEW rs2, NEW ing2, DOMAIN rs \subseteq DOMAIN rs2, ing \subseteq ing2,
           \A b \in DOMAIN rs : b \notin Pending(rs) => b \notin Pending(rs2)
    PROVE  /\ HomeOut(rs) \subseteq HomeOut(rs2) /\ PeerOut(ing) \subseteq PeerOut(ing2)
           /\ HomeDone(rs, ing) \subseteq HomeDone(rs2, ing2)
           /\ WireInv(rs2, ing2, sy, ar)
<1>1. /\ HomeOut(rs) \subseteq HomeOut(rs2) /\ PeerOut(ing) \subseteq PeerOut(ing2)
      /\ HomeDone(rs, ing) \subseteq HomeDone(rs2, ing2)
  BY DEF HomeOut, PeerOut, HomeDone, RowInv
<1>2. Good(sy["home"], HomeOut(rs2), PeerOut(ing2), HomeDone(rs2, ing2))
  BY <1>1, GoodMonotone DEF WireInv
<1>3. Good(sy["peer"], PeerOut(ing2), HomeOut(rs2), HomeOut(rs2))
  BY <1>1, GoodMonotone DEF WireInv
<1>4. /\ Wire(HomeOut(rs), HomeDone(rs, ing)) \subseteq Wire(HomeOut(rs2), HomeDone(rs2, ing2))
      /\ Wire(PeerOut(ing), HomeOut(rs)) \subseteq Wire(PeerOut(ing2), HomeOut(rs2))
  BY <1>1, WireMonotone
<1>5. DOMAIN sy = Ends /\ DOMAIN ar = Ends
      /\ ar["peer"] \subseteq Wire(HomeOut(rs2), HomeDone(rs2, ing2))
      /\ ar["home"] \subseteq Wire(PeerOut(ing2), HomeOut(rs2))
  BY <1>4 DEF WireInv
<1> QED
  BY <1>1, <1>2, <1>3, <1>5 DEF WireInv

\* DtnLoop::step at home: its rows settle, by the receipts of done at most.
LEMMA HomeStepIs ==
    ASSUME PushInv, HomeStep
    PROVE  /\ PushInv'
           /\ \A b \in DOMAIN rows :
                 /\ b \notin Pending(rows) => rows'[b].state = rows[b].state
                 /\ rows'[b].state = "delivered" => b \in ingested
<1> DEFINE O == HomeOut(rows)
           I == PeerOut(ingested)
           D == HomeDone(rows, ingested)
           wake  == fresh \/ ring
           first == IF wake THEN DOMAIN rows ELSE {}
           rows1 == IF wake THEN PulledRows(rows, first) ELSE rows
           sync1 == IF wake THEN PulledSyncer(syncer["home"], rows, first)
                    ELSE syncer["home"]
<1>0. RowInv(rows, ingested) /\ WireInv(rows, ingested, syncer, air)
      /\ FaultInv(rows, syncer, mishaps)
  BY DEF PushInv
<1>1. O \subseteq Payloads /\ I \subseteq Payloads
  BY <1>0, OutIsPayload
<1>2. /\ DOMAIN syncer = Ends /\ DOMAIN air = Ends /\ Good(syncer["home"], O, I, D)
      /\ air["home"] \subseteq Wire(I, O) /\ air["peer"] \subseteq Wire(O, D)
  BY <1>0 DEF WireInv
<1>3. \A rs, due : DOMAIN rs = DOMAIN rows => \A b \in HandedOver(rs, due) : Bundle(b) \in O
  BY DEF HandedOver, Pending, HomeOut
<1>4. Settled(rows, rows1, {})
  <2>1. \A b \in DOMAIN rows : DOMAIN rows[b] = RowFields
    BY <1>0 DEF RowInv
  <2>2. Settled(rows, PulledRows(rows, first), {})
    BY <2>1, PulledRowsSettle
  <2>3. Settled(rows, rows, {})
    BY <2>1 DEF Settled
  <2> HIDE DEF first
  <2> QED
    BY <2>2, <2>3
<1>5. Good(sync1, O, I, D)
  <2>1. Good(PulledSyncer(syncer["home"], rows, first), O, I, D)
    <3> HIDE DEF O, I, D, first
    <3> QED
      BY <1>1, <1>2, <1>3, PulledSyncerGood
  <2> HIDE DEF first, O, I, D
  <2> QED
    BY <1>2, <2>1
<1>6. PICK sent \in Sendable(sync1), took \in Receivable("home") :
      \E t \in Ticked(sync1, sent, took) :
            LET rows2 == MarkDelivered(rows1, t.done)
                again == {b \in DOMAIN rows2 : rows2[b].quiet}
            IN  /\ rows' = IF rescan THEN PulledRows(rows2, again) ELSE rows2
                /\ syncer' = [syncer EXCEPT !["home"] =
                                IF rescan THEN PulledSyncer(t.y, rows2, again) ELSE t.y]
                /\ Carried("home", sent, took)
                /\ UNCHANGED ingested
  BY DEF HomeStep
<1> HIDE DEF rows1, sync1, wake, first
<1>7. PICK t \in Ticked(sync1, sent, took) :
            LET rows2 == MarkDelivered(rows1, t.done)
                again == {b \in DOMAIN rows2 : rows2[b].quiet}
            IN  /\ rows' = IF rescan THEN PulledRows(rows2, again) ELSE rows2
                /\ syncer' = [syncer EXCEPT !["home"] =
                                IF rescan THEN PulledSyncer(t.y, rows2, again) ELSE t.y]
                /\ Carried("home", sent, took)
                /\ UNCHANGED ingested
  BY <1>6
<1> DEFINE rows2 == MarkDelivered(rows1, t.done)
           again == {b \in DOMAIN rows2 : rows2[b].quiet}
           z == IF rescan THEN PulledSyncer(t.y, rows2, again) ELSE t.y
<1>8. /\ rows' = IF rescan THEN PulledRows(rows2, again) ELSE rows2
      /\ syncer' = [syncer EXCEPT !["home"] = z]
      /\ Carried("home", sent, took) /\ ingested' = ingested
  BY <1>7
<1> HIDE DEF again
<1>9. Settled(rows, rows', t.done)
  <2>1. \A b \in DOMAIN rows1 : DOMAIN rows1[b] = RowFields
    BY <1>4 DEF Settled
  <2>2. Settled(rows1, rows2, t.done)
    BY <2>1, MarkDeliveredSettles
  <2>3. Settled(rows, rows2, {} \cup t.done)
    BY <1>4, <2>2, SettledTwice
  <2> HIDE DEF rows2
  <2>4. \A b \in DOMAIN rows2 : DOMAIN rows2[b] = RowFields
    BY <2>3 DEF Settled
  <2>5. Settled(rows2, PulledRows(rows2, again), {})
    BY <2>4, PulledRowsSettle
  <2>6. Settled(rows, PulledRows(rows2, again), ({} \cup t.done) \cup {})
    BY <2>3, <2>5, SettledTwice
  <2>7. {} \cup t.done = t.done /\ ({} \cup t.done) \cup {} = t.done
    OBVIOUS
  <2> QED
    BY <1>8, <2>3, <2>6, <2>7
<1>10. Arrived(sync1, t, O, I, D, O) /\ sent \subseteq Wire(O, D)
  <2>1. took \subseteq Wire(I, O)
    BY <1>2 DEF Receivable
  <2> HIDE DEF O, I, D
  <2> QED
    BY <1>1, <1>5, <2>1, TickedGood
<1>11. Good(t.y, O, I, D \cup t.done) /\ t.done \subseteq I
  BY <1>10 DEF Arrived
<1>12. DOMAIN rows2 = DOMAIN rows
  BY <1>4 DEF Settled, MarkDelivered
<1>13. Good(z, O, I, D \cup t.done)
  <2> HIDE DEF rows2, O, I, D
  <2>1. Good(PulledSyncer(t.y, rows2, again), O, I, D \cup t.done)
    BY <1>1, <1>3, <1>11, <1>12, PulledSyncerGood
  <2> QED
    BY <1>11, <2>1
<1> HIDE DEF rows2, z
<1>14. RowInv(rows', ingested')
  <2>1. \A b \in DOMAIN rows : Receipt(b) \in t.done => b \in ingested
    BY <1>11, Distinct DEF PeerOut
  <2> QED
    BY <1>0, <1>8, <1>9, <2>1 DEF RowInv, Settled
<1>15. \A b \in DOMAIN rows : b \notin Pending(rows) => b \notin Pending(rows')
  BY <1>9 DEF Settled, Pending
<1>16. /\ O = HomeOut(rows') /\ I = PeerOut(ingested')
       /\ D \subseteq HomeDone(rows', ingested') /\ WireInv(rows', ingested', syncer, air)
  <2>1. DOMAIN rows = DOMAIN rows' /\ ingested = ingested'
    BY <1>8, <1>9 DEF Settled
  <2>2. HomeDone(rows, ingested) \subseteq HomeDone(rows', ingested')
        /\ WireInv(rows', ingested', syncer, air)
    BY <1>0, <1>15, <2>1, WireGrows
  <2> QED
    BY <2>1, <2>2 DEF HomeOut, PeerOut
<1>17. t.done \subseteq HomeDone(rows', ingested')
  <2>1. ASSUME NEW p \in t.done PROVE p \in HomeDone(rows', ingested')
    <3>1. PICK b \in ingested : p = Receipt(b)
      BY <1>11 DEF PeerOut
    <3>2. b \in DOMAIN rows
      BY <1>0 DEF RowInv
    <3>3. b \notin Pending(rows')
      BY <1>9, <3>1, <3>2 DEF Settled, Pending
    <3> QED
      BY <1>8, <3>1, <3>3 DEF HomeDone
  <2> QED
    BY <2>1
<1> DEFINE E == HomeDone(rows', ingested')
<1>18. /\ DOMAIN air' = Ends /\ air'["home"] \subseteq air["home"]
       /\ air'["peer"] \subseteq air["peer"] \cup sent
       /\ mishaps' \in MishapType
       /\ mishaps'.fault = mishaps.fault /\ mishaps'.silence = mishaps.silence
  <2>1. "home" \in Ends /\ Other("home") = "peer" /\ mishaps \in MishapType
    BY <1>0 DEF Ends, Other, FaultInv
  <2> QED
    BY <1>2, <1>8, <2>1, CarriedIs
<1>19. WireInv(rows', ingested', syncer', air')
  <2>1. Good(z, HomeOut(rows'), PeerOut(ingested'), E)
    <3>1. D \cup t.done \subseteq E
      BY <1>16, <1>17
    <3> HIDE DEF O, I, D, E
    <3> QED
      BY <1>13, <1>16, <3>1, GoodMonotone
  <2>2. /\ DOMAIN syncer' = Ends /\ syncer'["home"] = z /\ syncer'["peer"] = syncer["peer"]
    BY <1>2, <1>8 DEF Ends
  <2>3. Wire(O, D) \subseteq Wire(HomeOut(rows'), E)
    BY <1>16, WireMonotone
  <2>4. air'["peer"] \subseteq Wire(HomeOut(rows'), E)
    BY <1>2, <1>10, <1>18, <2>3
  <2>5. air'["home"] \subseteq Wire(PeerOut(ingested'), HomeOut(rows'))
    BY <1>16, <1>18 DEF WireInv
  <2>6. Good(syncer["peer"], PeerOut(ingested'), HomeOut(rows'), HomeOut(rows'))
    BY <1>16 DEF WireInv
  <2> QED
    BY <1>18, <2>1, <2>2, <2>4, <2>5, <2>6 DEF WireInv
<1>20. FaultInv(rows', syncer', mishaps')
  <2>1. syncer'["peer"] = syncer["peer"]
    BY <1>2, <1>8 DEF Ends
  <2>2. Pending(rows') \subseteq Pending(rows)
    BY <1>9, <1>15 DEF Settled, Pending
  <2> QED
    BY <1>0, <1>18, <2>1, <2>2 DEF FaultInv, ReceiptHeld
<1>21. ASSUME NEW b \in DOMAIN rows
       PROVE  /\ b \notin Pending(rows) => rows'[b].state = rows[b].state
              /\ rows'[b].state = "delivered" => b \in ingested
  <2>1. b \notin Pending(rows) => rows'[b].state = rows[b].state
    BY <1>9 DEF Settled, Pending
  <2>2. b \in DOMAIN rows'
    BY <1>9 DEF Settled
  <2> QED
    BY <1>8, <1>14, <2>1, <2>2 DEF RowInv
<1> QED
  BY <1>14, <1>19, <1>20, <1>21 DEF PushInv

\* What is common to the peer's two steps.
LEMMA PeerTick ==
    ASSUME PushInv, NEW sent \in Sendable(syncer["peer"]), NEW took \in Receivable("peer"),
           NEW t \in Ticked(syncer["peer"], sent, took)
    PROVE  /\ Arrived(syncer["peer"], t, PeerOut(ingested), HomeOut(rows), HomeOut(rows),
                      HomeDone(rows, ingested))
           /\ sent \subseteq Wire(PeerOut(ingested), HomeOut(rows))
<1> DEFINE O == PeerOut(ingested)
           I == HomeOut(rows)
           E == HomeDone(rows, ingested)
<1>1. O \subseteq Payloads /\ I \subseteq Payloads
  BY OutIsPayload DEF PushInv
<1>2. Good(syncer["peer"], O, I, I) /\ air["peer"] \subseteq Wire(I, E)
  BY DEF PushInv, WireInv
<1>3. took \subseteq Wire(I, E)
  BY <1>2 DEF Receivable
<1> HIDE DEF O, I, E
<1>4. Arrived(syncer["peer"], t, O, I, I, E) /\ sent \subseteq Wire(O, I)
  BY <1>1, <1>2, <1>3, TickedGood
<1> QED
  BY <1>4 DEF O, I, E

\* A pending push keeps its receipt through an arrival, but for the receipt of
\* what the arrival completes.
LEMMA ReceiptsKept ==
    ASSUME NEW rs, NEW ing, NEW y, NEW a, ReceiptHeld(rs, y),
           Arrived(y, a, PeerOut(ing), HomeOut(rs), HomeOut(rs), HomeDone(rs, ing)),
           NEW b \in Pending(rs), Bundle(b) \in ToSet(a.y.recent), Bundle(b) \notin a.done
    PROVE  Receipt(b) \in DOMAIN a.y.cache
<1>1. Bundle(b) \in ToSet(y.recent)
  BY DEF Arrived
<1>2. Receipt(b) \in DOMAIN y.cache
  BY <1>1 DEF ReceiptHeld
<1>3. Receipt(b) \notin HomeDone(rs, ing)
  BY Distinct DEF HomeDone
<1> QED
  BY <1>2, <1>3 DEF Arrived

LEMMA PeerStepIs ==
    ASSUME PushInv, PeerStep
    PROVE  PushInv' /\ rows' = rows
<1> DEFINE O == PeerOut(ingested)
           I == HomeOut(rows)
           E == HomeDone(rows, ingested)
           P == PeerOut(ingested')
           y == syncer["peer"]
<1>0. RowInv(rows, ingested) /\ WireInv(rows, ingested, syncer, air)
      /\ FaultInv(rows, syncer, mishaps)
  BY DEF PushInv
<1>1. PICK sent \in Sendable(y), took \in Receivable("peer") :
      \E t \in Ticked(y, sent, took) :
        /\ Carried("peer", sent, took)
        /\ syncer' = [syncer EXCEPT !["peer"] = Receipted(t.y, t.done)]
        /\ ingested' = ingested \cup {p.push : p \in t.done}
        /\ rows' = rows
  BY DEF PeerStep
<1>2. PICK t \in Ticked(y, sent, took) :
        /\ Carried("peer", sent, took)
        /\ syncer' = [syncer EXCEPT !["peer"] = Receipted(t.y, t.done)]
        /\ ingested' = ingested \cup {p.push : p \in t.done}
        /\ rows' = rows
  BY <1>1
<1>3. Arrived(y, t, O, I, I, E) /\ sent \subseteq Wire(O, I)
  BY PeerTick
<1>4. Good(t.y, O, I, I) /\ (t.done = {} \/ \E p \in I : t.done = {p})
  <2>1. I \cup t.done = I
    BY <1>3 DEF Arrived
  <2> QED
    BY <1>3, <2>1 DEF Arrived
<1>5. RowInv(rows, ingested')
  <2>1. \A p \in t.done : p.push \in DOMAIN rows
    BY <1>4, Distinct DEF HomeOut
  <2> QED
    BY <1>0, <1>2, <2>1 DEF RowInv
<1>6. O \subseteq P /\ WireInv(rows, ingested', syncer, air)
  <2>1. ingested \subseteq ingested'
    BY <1>2
  <2> QED
    BY <1>0, <2>1, WireGrows
<1>7. P \subseteq Payloads
  BY <1>5, OutIsPayload
<1>8. Good(t.y, P, I, I)
  BY <1>4, <1>6, GoodMonotone
<1> DEFINE w == Receipted(t.y, t.done)
<1>9. /\ Good(w, P, I, I) /\ w.recent = t.y.recent /\ DOMAIN t.y.cache \subseteq DOMAIN w.cache
      /\ \A b : Bundle(b) \in t.done => Receipt(b) \in DOMAIN w.cache
  <2>1. CASE t.done = {}
    BY <1>8, <2>1 DEF Receipted
  <2>2. CASE t.done # {}
    <3>1. PICK b \in DOMAIN rows : t.done = {Bundle(b)}
      BY <1>4, <2>2 DEF HomeOut
    <3>2. (CHOOSE p \in t.done : TRUE) = Bundle(b)
      BY <3>1
    <3>3. w = Send(t.y, Receipt(b))
      BY <2>2, <3>2, Distinct DEF Receipted
    <3>4. Receipt(b) \in P
      BY <1>2, <3>1, Distinct DEF PeerOut
    <3>5. PICK r : r = Receipt(b)
      OBVIOUS
    <3> HIDE DEF P, I, w
    <3>6. Good(Send(t.y, r), P, I, I) /\ AfterSend(t.y, Send(t.y, r), r)
      BY <1>7, <1>8, <3>4, <3>5, SendGood
    <3> QED
      BY <3>1, <3>3, <3>5, <3>6, Distinct DEF AfterSend
  <2> QED
    BY <2>1, <2>2
<1>10. /\ DOMAIN syncer' = Ends /\ syncer'["peer"] = w /\ syncer'["home"] = syncer["home"]
  <2> HIDE DEF w
  <2>1. syncer' = [syncer EXCEPT !["peer"] = w] /\ DOMAIN syncer = Ends
    BY <1>0, <1>2 DEF w, WireInv
  <2> QED
    BY <2>1 DEF Ends
<1> HIDE DEF w
<1>11. /\ DOMAIN air' = Ends /\ air'["peer"] \subseteq air["peer"]
       /\ air'["home"] \subseteq air["home"] \cup sent
       /\ mishaps' \in MishapType
       /\ mishaps'.fault = mishaps.fault /\ mishaps'.silence = mishaps.silence
  <2>1. "peer" \in Ends /\ Other("peer") = "home" /\ mishaps \in MishapType /\ DOMAIN air = Ends
    BY <1>0 DEF Ends, Other, FaultInv, WireInv
  <2> QED
    BY <1>2, <2>1, CarriedIs
<1>12. WireInv(rows, ingested', syncer', air')
  <2>1. Wire(O, I) \subseteq Wire(P, I)
    BY <1>6, WireMonotone
  <2> QED
    BY <1>3, <1>6, <1>9, <1>10, <1>11, <2>1 DEF WireInv
<1>13. FaultInv(rows, syncer', mishaps')
  <2>1. SUFFICES ASSUME mishaps.fault = 0, mishaps.silence = 0 PROVE ReceiptHeld(rows, w)
    BY <1>10, <1>11 DEF FaultInv
  <2>2. ReceiptHeld(rows, y)
    BY <1>0, <2>1 DEF FaultInv
  <2>3. ASSUME NEW b \in Pending(rows), Bundle(b) \in ToSet(w.recent)
        PROVE  Receipt(b) \in DOMAIN w.cache
    <3>1. CASE Bundle(b) \in t.done
      BY <1>9, <3>1
    <3>2. CASE Bundle(b) \notin t.done
      <4>1. Bundle(b) \in ToSet(t.y.recent)
        BY <1>9, <2>3
      <4>2. Receipt(b) \in DOMAIN t.y.cache
        BY <1>3, <2>2, <3>2, <4>1, ReceiptsKept
      <4> QED
        BY <1>9, <4>2
    <3> QED
      BY <3>1, <3>2
  <2> QED
    BY <2>3 DEF ReceiptHeld
<1> QED
  BY <1>2, <1>5, <1>12, <1>13 DEF PushInv

LEMMA IngestFailsIs ==
    ASSUME PushInv, IngestFails
    PROVE  PushInv' /\ rows' = rows
<1> DEFINE O == PeerOut(ingested)
           I == HomeOut(rows)
           E == HomeDone(rows, ingested)
           y == syncer["peer"]
<1>0. RowInv(rows, ingested) /\ WireInv(rows, ingested, syncer, air) /\ mishaps \in MishapType
  BY DEF PushInv, FaultInv
<1>1. PICK took \in Receivable("peer") :
      \E t \in Ticked(y, {}, took) :
        /\ Mishap("fault")
        /\ air' = [air EXCEPT !["peer"] = @ \ took]
        /\ syncer' = [syncer EXCEPT !["peer"] = t.y]
        /\ rows' = rows /\ ingested' = ingested
  BY DEF IngestFails
<1>2. PICK t \in Ticked(y, {}, took) :
        /\ Mishap("fault")
        /\ air' = [air EXCEPT !["peer"] = @ \ took]
        /\ syncer' = [syncer EXCEPT !["peer"] = t.y]
        /\ rows' = rows /\ ingested' = ingested
  BY <1>1
<1>3. Arrived(y, t, O, I, I, E)
  <2>1. {} \in Sendable(y)
    BY DEF Sendable
  <2> QED
    BY <2>1, PeerTick
<1>4. Good(t.y, O, I, I)
  <2>1. I \cup t.done = I
    BY <1>3 DEF Arrived
  <2> QED
    BY <1>3, <2>1 DEF Arrived
<1>5. DOMAIN syncer = Ends /\ DOMAIN air = Ends
  BY <1>0 DEF WireInv
<1>6. /\ DOMAIN syncer' = Ends /\ syncer'["peer"] = t.y /\ syncer'["home"] = syncer["home"]
      /\ DOMAIN air' = Ends /\ air'["peer"] \subseteq air["peer"] /\ air'["home"] = air["home"]
  BY <1>2, <1>5 DEF Ends
<1>7. WireInv(rows, ingested, syncer', air')
  BY <1>0, <1>4, <1>6 DEF WireInv
<1>8. mishaps' \in MishapType /\ ~ (mishaps'.fault = 0 /\ mishaps'.silence = 0)
  BY <1>0, <1>2, MishapIs
<1> QED
  BY <1>0, <1>2, <1>7, <1>8 DEF PushInv, FaultInv

\* What is good for one end's syncer.
GoodAt(s, y) ==
    IF s = "home" THEN Good(y, HomeOut(rows), PeerOut(ingested), HomeDone(rows, ingested))
    ELSE Good(y, PeerOut(ingested), HomeOut(rows), HomeOut(rows))

\* A step that only replaces one end's syncer.
LEMMA SyncerStep ==
    ASSUME PushInv, NEW s \in Ends, NEW z, GoodAt(s, z),
           syncer' = [syncer EXCEPT ![s] = z],
           rows' = rows, ingested' = ingested, air' = air,
           mishaps' \in MishapType,
           mishaps'.fault = 0 /\ mishaps'.silence = 0 =>
              /\ mishaps.fault = 0 /\ mishaps.silence = 0
              /\ \/ z.recent = <<>>
                 \/ z.recent = syncer[s].recent /\ DOMAIN z.cache = DOMAIN syncer[s].cache
    PROVE  PushInv'
<1>0. RowInv(rows, ingested) /\ WireInv(rows, ingested, syncer, air)
      /\ FaultInv(rows, syncer, mishaps)
  BY DEF PushInv
<1>1. DOMAIN syncer = Ends
  BY <1>0 DEF WireInv
<1>2. /\ DOMAIN syncer' = Ends /\ syncer'[s] = z
      /\ \A r \in Ends : r # s => syncer'[r] = syncer[r]
  BY <1>1
<1>3. s = "home" \/ s = "peer"
  BY DEF Ends
<1>4. WireInv(rows, ingested, syncer', air)
  <2>1. CASE s = "home"
    <3>1. syncer'["home"] = z /\ syncer'["peer"] = syncer["peer"]
      BY <1>2, <2>1 DEF Ends
    <3> QED
      BY <1>0, <1>2, <2>1, <3>1 DEF WireInv, GoodAt
  <2>2. CASE s = "peer"
    <3>1. syncer'["peer"] = z /\ syncer'["home"] = syncer["home"]
      BY <1>2, <2>2 DEF Ends
    <3> QED
      BY <1>0, <1>2, <2>2, <3>1 DEF WireInv, GoodAt
  <2> QED
    BY <1>3, <2>1, <2>2
<1>5. FaultInv(rows, syncer', mishaps')
  <2>1. SUFFICES ASSUME mishaps'.fault = 0, mishaps'.silence = 0
                 PROVE  ReceiptHeld(rows, syncer'["peer"])
    BY DEF FaultInv
  <2>2. ReceiptHeld(rows, syncer["peer"])
    BY <1>0, <2>1 DEF FaultInv
  <2>3. CASE s = "home"
    BY <1>2, <2>2, <2>3 DEF Ends
  <2>4. CASE s = "peer"
    <3>1. CASE z.recent = <<>>
      <4>1. ToSet(z.recent) = {}
        BY <3>1 DEF ToSet
      <4> QED
        BY <1>2, <2>4, <4>1 DEF ReceiptHeld
    <3>2. CASE z.recent = syncer["peer"].recent /\ DOMAIN z.cache = DOMAIN syncer["peer"].cache
      BY <1>2, <2>2, <2>4, <3>2 DEF ReceiptHeld
    <3> QED
      BY <2>1, <2>4, <3>1, <3>2
  <2> QED
    BY <1>3, <2>3, <2>4
<1> QED
  BY <1>0, <1>4, <1>5 DEF PushInv

LEMMA SyncerIs ==
    ASSUME PushInv, NEW s \in Ends
    PROVE  /\ GoodAt(s, syncer[s]) /\ DOMAIN syncer[s] = SyncFields /\ DOMAIN syncer = Ends
           /\ mishaps \in MishapType
  BY DEF PushInv, WireInv, FaultInv, GoodAt, Good, Queued, Ends

\* The queues stay and no table gains an entry.
LEMMA GoodAtFrom ==
    ASSUME NEW s, NEW y, GoodAt(s, y), NEW z, DOMAIN z = SyncFields,
           z.queue = y.queue, z.queued \subseteq y.queued, z.asked = y.asked,
           DOMAIN z.cache \subseteq DOMAIN y.cache, DOMAIN z.partial \subseteq DOMAIN y.partial,
           z.recent = y.recent, DOMAIN z.inbound \subseteq DOMAIN y.inbound
    PROVE  GoodAt(s, z)
<1>1. ASSUME NEW O, NEW I, NEW D, Good(y, O, I, D) PROVE Good(z, O, I, D)
  <2>1. DOMAIN z.cache \subseteq O /\ DOMAIN z.partial \subseteq I /\ z.recent \in Seq(D)
        /\ DOMAIN z.inbound \subseteq Payloads
    BY <1>1 DEF Good
  <2> QED
    BY <1>1, <2>1, GoodFrom
<1> QED
  BY <1>1 DEF GoodAt

LEMMA ElapseIs ==
    ASSUME PushInv, NEW s \in Ends, Elapse(s)
    PROVE  PushInv' /\ rows' = rows
<1> DEFINE y == syncer[s]
           z == [y EXCEPT !.cache = [p \in DOMAIN @ |-> TRUE],
                          !.inbound = [p \in DOMAIN @ |-> TRUE]]
<1>1. GoodAt(s, y) /\ DOMAIN y = SyncFields /\ DOMAIN syncer = Ends /\ mishaps \in MishapType
  BY SyncerIs
<1>2. syncer' = [syncer EXCEPT ![s] = z]
  <2>1. syncer' = [syncer EXCEPT ![s].cache = [p \in DOMAIN @ |-> TRUE],
                                ![s].inbound = [p \in DOMAIN @ |-> TRUE]]
    BY DEF Elapse
  <2> QED
    BY <1>1, <2>1 DEF SyncFields
<1>3. /\ DOMAIN z = SyncFields /\ z.queue = y.queue /\ z.queued = y.queued /\ z.asked = y.asked
      /\ DOMAIN z.cache = DOMAIN y.cache /\ z.partial = y.partial
      /\ z.recent = y.recent /\ DOMAIN z.inbound = DOMAIN y.inbound
  BY <1>1 DEF SyncFields
<1> HIDE DEF z
<1>4. GoodAt(s, z)
  BY <1>1, <1>3, GoodAtFrom
<1> QED
  BY <1>1, <1>2, <1>3, <1>4, SyncerStep DEF Elapse

LEMMA NewSyncerGood == \A O, I, D : Good(NewSyncer, O, I, D)
<1>1. /\ DOMAIN NewSyncer = SyncFields /\ NewSyncer.queue = [c \in 0 .. 2 |-> <<>>]
      /\ NewSyncer.queued = {} /\ NewSyncer.asked = {} /\ NewSyncer.recent = <<>>
      /\ DOMAIN NewSyncer.cache = {} /\ DOMAIN NewSyncer.partial = {}
      /\ DOMAIN NewSyncer.inbound = {}
  BY DEF NewSyncer, SyncFields, NoMap
<1>2. \A O, D : NewSyncer.queue \in [0 .. 2 -> Seq(Wire(O, D))]
  BY <1>1
<1>3. \A c \in 1 .. 2 : NewSyncer.queue[c] = <<>>
  BY <1>1
<1>4. \A c \in 1 .. 2 : \A i \in 1 .. Len(NewSyncer.queue[c]) : NewSyncer.queue[c][i].type = "chunk"
  BY <1>3
<1> QED
  BY <1>1, <1>2, <1>4 DEF Good, Queued

LEMMA RespawnIs ==
    ASSUME PushInv, NEW s \in Ends, Respawn(s)
    PROVE  PushInv' /\ rows' = rows
<1>1. \A O, I, D : Good(NewSyncer, O, I, D)
  BY NewSyncerGood
<1>2. GoodAt(s, NewSyncer) /\ NewSyncer.recent = <<>>
  BY <1>1 DEF GoodAt, NewSyncer
<1>3. mishaps' \in MishapType /\ mishaps'.fault = mishaps.fault /\ mishaps'.silence = mishaps.silence
  BY SyncerIs, MishapIs DEF Respawn
<1> QED
  BY <1>2, <1>3, SyncerStep DEF Respawn

LEMMA CacheExpiresIs ==
    ASSUME PushInv, NEW s \in Ends, NEW p, CacheExpires(s, p)
    PROVE  PushInv' /\ rows' = rows
<1> DEFINE y == syncer[s]
           z == [y EXCEPT !.cache = Drop(@, {p}), !.queued = {k \in @ : k[1] # p}]
<1>1. GoodAt(s, y) /\ DOMAIN y = SyncFields /\ DOMAIN syncer = Ends /\ mishaps \in MishapType
  BY SyncerIs
<1>2. syncer' = [syncer EXCEPT ![s] = z]
  <2>1. syncer' = [syncer EXCEPT ![s].cache = Drop(@, {p}),
                                ![s].queued = {k \in @ : k[1] # p}]
    BY DEF CacheExpires
  <2> QED
    BY <1>1, <2>1 DEF SyncFields
<1>3. /\ DOMAIN z = SyncFields /\ z.queue = y.queue
      /\ z.queued = {k \in y.queued : k[1] # p} /\ z.asked = y.asked
      /\ z.cache = Drop(y.cache, {p}) /\ z.partial = y.partial
      /\ z.recent = y.recent /\ z.inbound = y.inbound
  BY <1>1 DEF SyncFields
<1> HIDE DEF z
<1>4. DOMAIN z.cache \subseteq DOMAIN y.cache /\ z.queued \subseteq y.queued
  BY <1>3 DEF Drop
<1>5. GoodAt(s, z)
  BY <1>1, <1>3, <1>4, GoodAtFrom
<1>6. mishaps' \in MishapType /\ ~ (mishaps'.fault = 0 /\ mishaps'.silence = 0)
  BY <1>1, MishapIs DEF CacheExpires
<1> QED
  BY <1>2, <1>5, <1>6, SyncerStep DEF CacheExpires

LEMMA PartialExpiresIs ==
    ASSUME PushInv, NEW s \in Ends, NEW p, PartialExpires(s, p)
    PROVE  PushInv' /\ rows' = rows
<1> DEFINE y == syncer[s]
           z == [y EXCEPT !.partial = Drop(@, {p})]
<1>1. GoodAt(s, y) /\ DOMAIN y = SyncFields /\ DOMAIN syncer = Ends /\ mishaps \in MishapType
  BY SyncerIs
<1>2. syncer' = [syncer EXCEPT ![s] = z]
  <2>1. syncer' = [syncer EXCEPT ![s].partial = Drop(@, {p})]
    BY DEF PartialExpires
  <2> QED
    BY <1>1, <2>1 DEF SyncFields
<1>3. /\ DOMAIN z = SyncFields /\ z.queue = y.queue
      /\ z.queued = y.queued /\ z.asked = y.asked
      /\ z.cache = y.cache /\ z.partial = Drop(y.partial, {p})
      /\ z.recent = y.recent /\ z.inbound = y.inbound
  BY <1>1 DEF SyncFields
<1> HIDE DEF z
<1>4. DOMAIN z.partial \subseteq DOMAIN y.partial
  BY <1>3 DEF Drop
<1>5. GoodAt(s, z)
  BY <1>1, <1>3, <1>4, GoodAtFrom
<1>6. mishaps' \in MishapType /\ ~ (mishaps'.fault = 0 /\ mishaps'.silence = 0)
  BY <1>1, MishapIs DEF PartialExpires
<1> QED
  BY <1>2, <1>5, <1>6, SyncerStep DEF PartialExpires

\* A step of the rows alone.
LEMMA RowsStep ==
    ASSUME PushInv, RowInv(rows', ingested), UNCHANGED <<ingested, syncer, air>>,
           DOMAIN rows \subseteq DOMAIN rows',
           \A b \in DOMAIN rows : rows'[b].state = rows[b].state,
           mishaps' \in MishapType,
           mishaps'.fault = 0 /\ mishaps'.silence = 0 => mishaps.fault = 0 /\ mishaps.silence = 0
    PROVE  PushInv'
<1>0. RowInv(rows, ingested) /\ WireInv(rows, ingested, syncer, air)
      /\ FaultInv(rows, syncer, mishaps)
  BY DEF PushInv
<1>1. \A b \in DOMAIN rows : b \notin Pending(rows) => b \notin Pending(rows')
  BY DEF Pending
<1>2. WireInv(rows', ingested', syncer', air')
  BY <1>0, <1>1, WireGrows
<1>3. FaultInv(rows', syncer', mishaps')
  <2>1. SUFFICES ASSUME mishaps'.fault = 0, mishaps'.silence = 0,
                        NEW b \in Pending(rows'), Bundle(b) \in ToSet(syncer["peer"].recent)
                 PROVE  Receipt(b) \in DOMAIN syncer["peer"].cache
    BY DEF FaultInv, ReceiptHeld
  <2>2. b \in DOMAIN rows
    <3>1. syncer["peer"].recent \in Seq(HomeOut(rows))
      BY <1>0 DEF WireInv, Good
    <3>2. Bundle(b) \in HomeOut(rows)
      BY <2>1, <3>1 DEF ToSet
    <3> QED
      BY <3>2, Distinct DEF HomeOut
  <2>3. b \in Pending(rows)
    BY <2>1, <2>2 DEF Pending
  <2> QED
    BY <1>0, <2>1, <2>3 DEF FaultInv, ReceiptHeld
<1> QED
  BY <1>2, <1>3 DEF PushInv

LEMMA PushBundleIs ==
    ASSUME PushInv, NEW b \in Pushes, NEW heard, PushBundle(b, heard)
    PROVE  PushInv' /\ \A c \in DOMAIN rows : rows'[c].state = rows[c].state
<1> DEFINE new == [state |-> "pending", quiet |-> TRUE, expired |-> FALSE]
<1>0. RowInv(rows, ingested)
  BY DEF PushInv
<1>1. CASE b \in DOMAIN rows
  <2>1. rows' = rows
    BY <1>1 DEF PushBundle
  <2>2. mishaps \in MishapType
    BY DEF PushInv, FaultInv
  <2> QED
    BY <1>0, <2>1, <2>2, RowsStep DEF PushBundle
<1>2. CASE b \notin DOMAIN rows
  <2>1. rows' = Put(rows, b, new)
    BY <1>2 DEF PushBundle
  <2>2. DOMAIN new = RowFields /\ new.state = "pending"
    BY DEF RowFields
  <2> HIDE DEF new
  <2>3. /\ DOMAIN rows' = DOMAIN rows \cup {b} /\ rows'[b] = new
        /\ \A c \in DOMAIN rows : rows'[c] = rows[c]
    BY <1>2, <2>1 DEF Put
  <2>4. RowInv(rows', ingested)
    BY <1>0, <2>2, <2>3 DEF RowInv
  <2>5. mishaps \in MishapType
    BY DEF PushInv, FaultInv
  <2> QED
    BY <2>3, <2>4, <2>5, RowsStep DEF PushBundle
<1> QED
  BY <1>1, <1>2

LEMMA RescanDueIs ==
    ASSUME PushInv, RescanDue
    PROVE  PushInv' /\ \A c \in DOMAIN rows : rows'[c].state = rows[c].state
<1>0. RowInv(rows, ingested) /\ mishaps \in MishapType
  BY DEF PushInv, FaultInv
<1>1. rows' = [b \in DOMAIN rows |->
                  IF b \in Pending(rows) THEN [rows[b] EXCEPT !.quiet = TRUE] ELSE rows[b]]
  BY DEF RescanDue
<1>2. \A b \in DOMAIN rows : DOMAIN rows[b] = RowFields
  BY <1>0 DEF RowInv
<1>3. \A b \in DOMAIN rows : DOMAIN rows'[b] = RowFields /\ rows'[b].state = rows[b].state
  BY <1>1, <1>2 DEF RowFields
<1>4. DOMAIN rows' = DOMAIN rows
  BY <1>1
<1>5. RowInv(rows', ingested)
  BY <1>0, <1>3, <1>4 DEF RowInv
<1> QED
  BY <1>0, <1>3, <1>4, <1>5, RowsStep DEF RescanDue

LEMMA TtlPassesIs ==
    ASSUME PushInv, NEW b \in Pushes, TtlPasses(b)
    PROVE  PushInv' /\ \A c \in DOMAIN rows : rows'[c].state = rows[c].state
<1>0. RowInv(rows, ingested) /\ mishaps \in MishapType
  BY DEF PushInv, FaultInv
<1>1. rows' = [rows EXCEPT ![b].expired = TRUE]
  BY DEF TtlPasses
<1>2. \A c \in DOMAIN rows : DOMAIN rows[c] = RowFields
  BY <1>0 DEF RowInv
<1>3. \A c \in DOMAIN rows : DOMAIN rows'[c] = RowFields /\ rows'[c].state = rows[c].state
  BY <1>1, <1>2 DEF RowFields
<1>4. DOMAIN rows' = DOMAIN rows
  BY <1>1
<1>5. RowInv(rows', ingested)
  BY <1>0, <1>3, <1>4 DEF RowInv
<1>6. mishaps' \in MishapType /\ ~ (mishaps'.fault = 0 /\ mishaps'.silence = 0)
  BY <1>0, MishapIs DEF TtlPasses
<1> QED
  BY <1>0, <1>3, <1>4, <1>5, <1>6, RowsStep DEF TtlPasses

\* What a step of PushNext may do to the rows.
RowsStepOk ==
    \A b \in DOMAIN rows :
        /\ b \notin Pending(rows) => rows'[b].state = rows[b].state
        /\ rows'[b].state = "delivered" => b \in ingested

LEMMA SameRowsOk ==
    ASSUME PushInv, \A c \in DOMAIN rows : rows'[c].state = rows[c].state
    PROVE  RowsStepOk
  BY DEF PushInv, RowInv, RowsStepOk

LEMMA PushStep ==
    ASSUME PushInv, [PushNext]_pushVars
    PROVE  PushInv' /\ RowsStepOk
<1>1. CASE HomeStep
  BY <1>1, HomeStepIs DEF RowsStepOk
<1>2. CASE PeerStep
  BY <1>2, PeerStepIs, SameRowsOk
<1>3. CASE IngestFails
  BY <1>3, IngestFailsIs, SameRowsOk
<1>4. ASSUME NEW b \in Pushes, NEW heard \in BOOLEAN, PushBundle(b, heard)
      PROVE  PushInv' /\ RowsStepOk
  BY <1>4, PushBundleIs, SameRowsOk
<1>5. ASSUME NEW s \in Ends, Elapse(s) \/ Respawn(s) PROVE PushInv' /\ RowsStepOk
  BY <1>5, ElapseIs, RespawnIs, SameRowsOk
<1>6. ASSUME NEW s \in Ends, NEW p \in Payloads, CacheExpires(s, p) \/ PartialExpires(s, p)
      PROVE  PushInv' /\ RowsStepOk
  BY <1>6, CacheExpiresIs, PartialExpiresIs, SameRowsOk
<1>7. ASSUME NEW b \in Pushes, TtlPasses(b) PROVE PushInv' /\ RowsStepOk
  BY <1>7, TtlPassesIs, SameRowsOk
<1>8. CASE RescanDue
  BY <1>8, RescanDueIs, SameRowsOk
<1>9. CASE UNCHANGED pushVars
  <2>1. PushInv'
    BY <1>9 DEF pushVars, PushInv
  <2> QED
    BY <1>9, <2>1, SameRowsOk DEF pushVars
<1> QED
  BY <1>1, <1>2, <1>3, <1>4, <1>5, <1>6, <1>7, <1>8, <1>9 DEF PushNext

LEMMA PushStarts == PushInit => PushInv
<1> SUFFICES ASSUME PushInit PROVE PushInv
  OBVIOUS
<1>1. \A O, I, D : Good(NewSyncer, O, I, D)
  BY NewSyncerGood
<1>2. DOMAIN rows = {} /\ ingested = {}
  BY DEF PushInit, NoMap
<1>3. RowInv(rows, ingested)
  BY <1>2 DEF RowInv
<1>4. /\ DOMAIN syncer = Ends /\ DOMAIN air = Ends
      /\ syncer["home"] = NewSyncer /\ syncer["peer"] = NewSyncer
      /\ air["home"] = {} /\ air["peer"] = {}
  BY DEF PushInit, Ends
<1>5. WireInv(rows, ingested, syncer, air)
  BY <1>1, <1>4 DEF WireInv
<1>6. FaultInv(rows, syncer, mishaps)
  BY <1>2 DEF PushInit, FaultInv, MishapType, ReceiptHeld, Pending
<1> QED
  BY <1>3, <1>5, <1>6 DEF PushInv

LEMMA PushInvariant == PushSpec => []PushInv
<1>1. PushInv /\ [PushNext]_pushVars => PushInv'
  BY PushStep
<1> QED
  BY <1>1, PushStarts, PTL DEF PushSpec

\* A chunk or a request that either end's syncer believes to be queued is in
\* one of its queues, whatever is lost, evicted, acknowledged or expires.
THEOREM PhantomTheorem == PushSpec => []NoPhantoms
<1>1. PushInv => NoPhantoms
  <2>1. ASSUME NEW y, NEW O, NEW I, NEW D, Good(y, O, I, D)
        PROVE  LET fs == UNION {ToSet(y.queue[c]) : c \in 0 .. 2}
               IN  /\ y.queued \subseteq {<<f.pay, f.idx>> : f \in {g \in fs : g.type = "chunk"}}
                   /\ y.asked \subseteq {f.pay : f \in {g \in fs : g.type = "ask"}}
    <3> DEFINE fs == UNION {ToSet(y.queue[c]) : c \in 0 .. 2}
    <3>1. ASSUME NEW f, InQueue(y, f) PROVE f \in fs
      <4>1. PICK c \in 0 .. 2 : \E i \in 1 .. Len(y.queue[c]) : y.queue[c][i] = f
        BY <3>1 DEF InQueue
      <4>2. y.queue[c] \in Seq(Wire(O, D))
        BY <2>1 DEF Good, Queued
      <4>3. f \in ToSet(y.queue[c])
        BY <4>1, <4>2 DEF ToSet
      <4> QED
        BY <4>3
    <3> HIDE DEF fs
    <3>2. \A k \in y.queued : \E f \in fs : f.type = "chunk" /\ k = <<f.pay, f.idx>>
      BY <2>1, <3>1 DEF Good, HasChunk
    <3>3. \A p \in y.asked : \E f \in fs : f.type = "ask" /\ f.pay = p
      BY <2>1, <3>1 DEF Good, HasAsk
    <3>4. y.queued \subseteq {<<f.pay, f.idx>> : f \in {g \in fs : g.type = "chunk"}}
      BY <3>2
    <3>5. y.asked \subseteq {f.pay : f \in {g \in fs : g.type = "ask"}}
      BY <3>3
    <3> QED
      BY <3>4, <3>5 DEF fs
  <2> QED
    BY <2>1 DEF PushInv, WireInv, NoPhantoms, Ends
<1> QED
  BY <1>1, PushInvariant, PTL

\* While no ingest fails and neither end is silent for the life of a cache, the
\* peer never finishes the bundle of a pending push without keeping its receipt
\* to send.
THEOREM StrandedTheorem == PushSpec => []NeverStranded
<1>1. PushInv => NeverStranded
  BY DEF PushInv, FaultInv, ReceiptHeld, NeverStranded, Stranded
<1> QED
  BY <1>1, PushInvariant, PTL

\* A settled row of dtn_pushes never changes, and a row is delivered only if
\* the peer has ingested its bundle.
THEOREM RowsTheorem == PushSpec => RowsSettleOnce
<1>1. PushInv /\ [PushNext]_pushVars =>
        [\A b \in DOMAIN rows :
            /\ b \notin Pending(rows) => rows'[b].state = rows[b].state
            /\ rows'[b].state = "delivered" => b \in ingested]_pushVars
  BY PushStep DEF RowsStepOk
<1> QED
  BY <1>1, PushInvariant, PTL DEF PushSpec, RowsSettleOnce
=============================================================================
