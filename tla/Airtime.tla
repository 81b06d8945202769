------------------------------ MODULE Airtime -------------------------------
(***************************************************************************)
(* The pacer of a constrained carrier (rrn-protocol airtime): a token      *)
(* bucket in front of three strict-priority queues.  The clock is the one  *)
(* the daemon reads, and may be set back.  A frame is its size in bytes.   *)
(***************************************************************************)
EXTENDS Sums, Integers, Sequences, FiniteSetsExt

CONSTANTS
    Burst,       \* burst_bytes
    Rate,        \* sustained_bytes_per_sec
    Caps,        \* QueueCaps, by class: 0 economic, 1 governance, 2 bulk
    FrameSizes,  \* sizes of the frames callers offer
    MaxClock,    \* bound of the model: the clock's last second
    MaxSetBacks, \* bound of the model: times the clock is set back
    MaxOffers    \* bound of the model: frames offered to a class

ASSUME AirtimeAssumption ==
    /\ {Burst, Rate} \subseteq Nat \ {0}  /\ FrameSizes \subseteq Nat \ {0}
    /\ Caps \in [0 .. 2 -> Nat \ {0}]

VARIABLES
    clock,       \* the daemon's clock
    tokens,      \* bytes that may be sent now
    lastRefill,  \* clock of the last refill
    waiting,     \* the queues
    offers,      \* frames taken in, by class
    left,        \* history: frames sent, by class
    advanced,    \* history: seconds the clock has moved forward
    setBacks     \* times the clock was set back

airtimeVars == <<clock, tokens, lastRefill, waiting, offers, left, advanced, setBacks>>

Classes == 0 .. 2

\* PacedSender::with_caps: the bucket starts full.
AirtimeInit ==
    /\ clock = 0  /\ tokens = Burst  /\ lastRefill = 0
    /\ waiting = [c \in Classes |-> <<>>]
    /\ left = waiting
    /\ offers = [c \in Classes |-> 0]
    /\ advanced = 0  /\ setBacks = 0

TotalBytes(frames) == SumTo(frames, Len(frames))

\* A full queue drops its oldest frame: bulk only.
Overflows(c) == c = 2 /\ Len(waiting[c]) >= Caps[c]

\* A full queue of money or governance refuses: the caller holds the frame.
Backpressured(c) == ~Overflows(c) /\ Len(waiting[c]) >= Caps[c]

\* enqueue: a frame over the burst can never be sent and is refused too.
Offer(c, size) ==
    /\ offers[c] < MaxOffers
    /\ size <= Burst  /\ ~Backpressured(c)
    /\ waiting' = [waiting EXCEPT ![c] = Append(IF Overflows(c) THEN Tail(@) ELSE @, size)]
    /\ offers' = [offers EXCEPT ![c] = @ + 1]
    /\ UNCHANGED <<clock, tokens, lastRefill, left, advanced, setBacks>>

\* Slip in Elapsed: time set back counts as time elapsed.
ElapsedAbs == IF clock >= lastRefill THEN clock - lastRefill ELSE lastRefill - clock

\* refill: time going backwards adds nothing.
Elapsed == Max({clock - lastRefill, 0})

Refilled == Min({tokens + Elapsed * Rate, Burst})

\* pump drains the queues in their order until the next frame does not fit.
Queue == waiting[0] \o waiting[1] \o waiting[2]

Fitting == Max({n \in 0 .. Len(Queue) : TotalBytes(SubSeq(Queue, 1, n)) <= Refilled})

\* The frames of the line before the first of class c.
Ahead(c) ==
    (IF c > 0 THEN Len(waiting[0]) ELSE 0) + (IF c > 1 THEN Len(waiting[1]) ELSE 0)

\* How many of the first n frames of the line are of class c.
Share(c, n) == Max({0, Min({Len(waiting[c]), n - Ahead(c)})})

Pump ==
    /\ tokens' = Refilled - TotalBytes(SubSeq(Queue, 1, Fitting))
    /\ lastRefill' = clock
    /\ left' = [c \in Classes |-> left[c] \o SubSeq(waiting[c], 1, Share(c, Fitting))]
    /\ waiting' = [c \in Classes |->
                     SubSeq(waiting[c], Share(c, Fitting) + 1, Len(waiting[c]))]
    /\ UNCHANGED <<clock, offers, advanced, setBacks>>

SecondPasses ==
    /\ clock < MaxClock
    /\ clock' = clock + 1  /\ advanced' = advanced + 1
    /\ UNCHANGED <<tokens, lastRefill, waiting, offers, left, setBacks>>

ClockSetBack(t) ==
    /\ setBacks < MaxSetBacks  /\ t < clock
    /\ clock' = t  /\ setBacks' = setBacks + 1
    /\ UNCHANGED <<tokens, lastRefill, waiting, offers, left, advanced>>

AirtimeNext ==
    \/ \E c \in Classes, size \in FrameSizes : Offer(c, size)
    \/ Pump \/ SecondPasses
    \/ \E t \in 0 .. MaxClock : ClockSetBack(t)

AirtimeSpec == AirtimeInit /\ [][AirtimeNext]_airtimeVars
-----------------------------------------------------------------------------
(* Properties.                                                             *)

Sent == TotalBytes(left[0]) + TotalBytes(left[1]) + TotalBytes(left[2])

\* What has been sent stays within one burst and the sustained rate over the
\* seconds the clock has moved forward, wherever it was set back in between.
BudgetKept == Sent + tokens <= Burst + Rate * advanced
=============================================================================
