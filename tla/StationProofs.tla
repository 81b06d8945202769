--------------------------- MODULE StationProofs ----------------------------
(***************************************************************************)
(* What holds inside a station: nobody waits in vain for the core thread,  *)
(* a clean stop never cuts a sweep (Daemon), browsing the marketplace      *)
(* shows the log (Browse), and encrypting the ledger in place never loses  *)
(* it (AtRest).  And offline spending (OfflineSpend), for every cap,       *)
(* expiry, drift and order in which bundles arrive: an honest holder is    *)
(* never convicted, and what a shop accepts is honoured.                   *)
(***************************************************************************)
EXTENDS Daemon, Browse, AtRest, OfflineSpend, DataTheorems, FiniteSetTheorems

-----------------------------------------------------------------------------
(* Daemon.                                                                 *)

Requests == {"sweep", "write", "subscribe", "collect", "heartbeat"}

CommandType ==
    [from : Callers, does : Requests, id : Nat]
        \cup [from : {"main"}, does : {"shutdown"}, id : {0}]

CallerType == [at : {"idle", "waiting", "parked"}, id : Nat, cursor : Nat, seen : Nat]

\* The core has a command in hand until it has replied.
InHand == core.at \in {"begun", "half"}

DaemonTypeOK ==
    /\ process \in {"serving", "stopping", "ended", "crashed"}
    /\ box \in Seq(CommandType)
    /\ core.at \in {"idle", "begun", "half", "done", "stopped"}
    /\ core = [at |-> core.at, cmd |-> core.cmd]
    /\ InHand => core.cmd \in [from : Callers, does : Requests, id : Nat]
    /\ caller \in [Callers -> CallerType]
    /\ tail \in Nat /\ watched \in Nat /\ calls \in Nat
    /\ watched <= tail
    /\ \A c \in Callers : caller[c].seen <= tail

\* Whoever waits has its command in the queue or in the core's hand.
WaitsForCommand ==
    \A c \in Callers : caller[c].at = "waiting" =>
        \/ \E i \in DOMAIN box : box[i].from = c /\ box[i].id = caller[c].id
        \/ InHand /\ core.cmd.from = c /\ core.cmd.id = caller[c].id

\* While the core runs, a parked poll has seen no more of the watch than its
\* cursor covers; so when the core publishes news, the poll is woken.
ParkedIsWoken ==
    \A p \in Callers : caller[p].at = "parked" =>
        /\ core.at # "stopped" => caller[p].seen <= caller[p].cursor
        /\ tail > caller[p].cursor =>
             watched > caller[p].seen \/ core.at \in {"half", "done", "stopped"}

StopIsComing ==
    /\ core.at = "stopped" => box = <<>>
    /\ process = "stopping" =>
         core.at = "stopped" \/ \E i \in DOMAIN box : box[i].does = "shutdown"

\* A timer has one command at most, in the queue or in hand, and waits for it;
\* one that is over has none.
TimersWait ==
    \A t \in Timers :
        /\ \A i \in DOMAIN box : box[i].from = t =>
             /\ caller[t].at = "waiting"
             /\ \A j \in DOMAIN box : box[j].from = t => i = j
             /\ ~ (InHand /\ core.cmd.from = t)
        /\ InHand /\ core.cmd.from = t => caller[t].at = "waiting"
        /\ t \in over => caller[t].at = "idle"

DaemonInv ==
    /\ DaemonTypeOK
    /\ Running => WaitsForCommand /\ ParkedIsWoken /\ StopIsComing
    /\ TimersWait
    /\ process = "ended" => Timers \subseteq over

LEMMA DaemonInitInv ==
    ASSUME DaemonInit PROVE DaemonInv
<1>1. /\ box = <<>> /\ process = "serving" /\ over = {} /\ calls = 0
      /\ core.at = "idle" /\ core = [at |-> core.at, cmd |-> core.cmd]
      /\ tail \in Nat /\ watched = 0
  BY DEF DaemonInit
<1>2. \A c \in Callers : /\ caller[c].at = "idle" /\ caller[c].seen = 0
                         /\ caller[c].cursor = tail /\ caller[c].id = 0
  BY DEF DaemonInit
<1>3. caller \in [Callers -> CallerType]
  BY <1>1 DEF DaemonInit, CallerType
<1>4. DaemonTypeOK
  BY <1>1, <1>2, <1>3 DEF DaemonTypeOK, InHand
<1>5. WaitsForCommand /\ ParkedIsWoken /\ StopIsComing
  BY <1>1, <1>2 DEF WaitsForCommand, ParkedIsWoken, StopIsComing
<1>6. TimersWait
  BY <1>1, <1>2 DEF TimersWait, InHand
<1> QED
  BY <1>1, <1>4, <1>5, <1>6 DEF DaemonInv, Running

\* A caller that was idle or parked sends a command and waits for it.
LEMMA SendKeepsInv ==
    ASSUME DaemonInv, Running, NEW c \in Callers, NEW does \in Requests, NEW id \in Nat,
           caller[c].at # "waiting", c \notin over \/ c \notin Timers, core.at # "stopped",
           box' = Append(box, [from |-> c, does |-> does, id |-> id]),
           caller' \in [Callers -> CallerType],
           \A k \in Callers \ {c} : caller'[k] = caller[k],
           caller'[c].at = "waiting", caller'[c].id = id, caller'[c].seen <= tail,
           calls' \in Nat,
           UNCHANGED <<process, core, tail, watched, over>>
    PROVE  DaemonInv'
<1> DEFINE cmd == [from |-> c, does |-> does, id |-> id]
<1>1. cmd \in CommandType /\ box \in Seq(CommandType)
  BY DEF CommandType, DaemonInv, DaemonTypeOK
<1>2. /\ box' \in Seq(CommandType)
      /\ DOMAIN box' = 1 .. Len(box) + 1 /\ DOMAIN box = 1 .. Len(box) /\ Len(box) \in Nat
      /\ \A i \in DOMAIN box : i \in DOMAIN box' /\ box'[i] = box[i]
      /\ box'[Len(box) + 1] = cmd
  BY <1>1
<1>3. DaemonTypeOK'
  <2>1. \A k \in Callers : caller'[k].seen <= tail'
    BY DEF DaemonInv, DaemonTypeOK
  <2> QED
    BY <1>2, <2>1 DEF DaemonInv, DaemonTypeOK, InHand
<1>4. WaitsForCommand'
  BY <1>2 DEF DaemonInv, WaitsForCommand, InHand
<1>5. ParkedIsWoken'
  BY DEF DaemonInv, ParkedIsWoken
<1>6. StopIsComing'
  BY <1>2 DEF DaemonInv, StopIsComing
<1>7. TimersWait'
  <2> SUFFICES ASSUME NEW t \in Timers
               PROVE  /\ \A i \in DOMAIN box' : box'[i].from = t =>
                           /\ caller'[t].at = "waiting"
                           /\ \A j \in DOMAIN box' : box'[j].from = t => i = j
                           /\ ~ (InHand' /\ core'.cmd.from = t)
                      /\ InHand' /\ core'.cmd.from = t => caller'[t].at = "waiting"
                      /\ t \in over' => caller'[t].at = "idle"
    BY DEF TimersWait
  <2>0. t \in Callers /\ InHand' = InHand
    BY DEF Callers, InHand
  <2>1. CASE t = c
    <3>1. (\A i \in DOMAIN box : box[i].from # t) /\ ~(InHand /\ core.cmd.from = t)
      BY <2>1 DEF DaemonInv, TimersWait
    <3>2. \A i \in DOMAIN box' : box'[i].from = t => i = Len(box) + 1
      BY <1>2, <3>1
    <3> QED
      BY <2>0, <2>1, <3>1, <3>2
  <2>2. CASE t # c
    <3>1. \A i \in DOMAIN box' : box'[i].from = t => i \in DOMAIN box /\ box[i].from = t
      BY <1>2, <2>2
    <3>2. caller'[t] = caller[t]
      BY <2>0, <2>2
    <3> QED
      BY <2>0, <3>1, <3>2 DEF DaemonInv, TimersWait
  <2> QED
    BY <2>1, <2>2
<1> QED
  BY <1>3, <1>4, <1>5, <1>6, <1>7 DEF DaemonInv, Running

\* A caller with no command of its own among the commands is free again, or
\* only looks at the watch once the core has stopped.
LEMMA LeaveKeepsInv ==
    ASSUME DaemonInv, Running, NEW c \in Callers \ Timers,
           caller' \in [Callers -> CallerType],
           \A k \in Callers \ {c} : caller'[k] = caller[k],
           caller'[c].at = "idle" \/ (caller'[c].at = "parked" /\ core.at = "stopped"),
           caller'[c].seen <= tail,
           UNCHANGED <<process, box, core, tail, watched, over>>, calls' \in Nat
    PROVE  DaemonInv'
<1>1. DaemonTypeOK'
  <2>1. \A k \in Callers : caller'[k].seen <= tail'
    BY DEF DaemonInv, DaemonTypeOK
  <2> QED
    BY <2>1 DEF DaemonInv, DaemonTypeOK, InHand
<1>2. WaitsForCommand'
  BY DEF DaemonInv, WaitsForCommand, InHand
<1>3. ParkedIsWoken'
  BY DEF DaemonInv, ParkedIsWoken
<1>4. StopIsComing'
  BY DEF DaemonInv, StopIsComing
<1>5. \A t \in Timers : caller'[t] = caller[t]
  BY DEF Callers
<1>6. TimersWait'
  BY <1>5 DEF DaemonInv, TimersWait, InHand
<1> QED
  BY <1>1, <1>2, <1>3, <1>4, <1>6 DEF DaemonInv, Running

LEMMA FreeType ==
    ASSUME DaemonInv, NEW c \in Callers
    PROVE  /\ Free(c) \in CallerType
           /\ Free(c).at = "idle" /\ Free(c).seen = 0 /\ Free(c).seen <= tail
  BY DEF DaemonInv, DaemonTypeOK, Free, CallerType

LEMMA QueuesKeepsInv ==
    ASSUME DaemonInv, Running, NEW c \in Callers, NEW does \in Requests,
           caller[c].at = "idle", c \notin over \/ c \notin Timers, Queues(c, does)
    PROVE  DaemonInv'
<1>0. calls \in Nat /\ calls' = calls + 1 /\ tail \in Nat
  BY DEF Queues, DaemonInv, DaemonTypeOK
<1>1. CASE core.at # "stopped"
  <2>1. /\ box' = Append(box, [from |-> c, does |-> does, id |-> calls + 1])
        /\ caller' = [caller EXCEPT ![c].at = "waiting", ![c].id = calls + 1]
        /\ UNCHANGED <<process, core, tail, watched, over>>
    BY <1>1 DEF Queues
  <2>2. /\ caller' \in [Callers -> CallerType]
        /\ \A k \in Callers \ {c} : caller'[k] = caller[k]
        /\ caller'[c].at = "waiting" /\ caller'[c].id = calls + 1
        /\ caller'[c].seen <= tail
    <3>1. /\ caller \in [Callers -> CallerType] /\ caller[c] \in CallerType
          /\ caller[c].seen <= tail
      BY DEF DaemonInv, DaemonTypeOK
    <3>2. /\ DOMAIN caller' = Callers
          /\ \A k \in Callers \ {c} : caller'[k] = caller[k]
          /\ caller'[c] = [caller[c] EXCEPT !.at = "waiting", !.id = calls + 1]
      BY <2>1, <3>1
    <3>3. /\ caller'[c] \in CallerType /\ caller'[c].at = "waiting"
          /\ caller'[c].id = calls + 1 /\ caller'[c].seen = caller[c].seen
      <4> DEFINE Sent(st, n) == [st EXCEPT !.at = "waiting", !.id = n]
      <4>1. \A st \in CallerType, n \in Nat :
               /\ Sent(st, n) \in CallerType /\ Sent(st, n).at = "waiting"
               /\ Sent(st, n).id = n /\ Sent(st, n).seen = st.seen
        BY DEF CallerType
      <4>2. calls + 1 \in Nat /\ caller'[c] = Sent(caller[c], calls + 1)
        BY <1>0, <3>2
      <4> HIDE DEF Sent
      <4> QED
        BY <3>1, <4>1, <4>2
    <3>4. caller' = [k \in Callers |-> caller'[k]]
      BY <2>1, <3>1
    <3> QED
      BY <3>1, <3>2, <3>3, <3>4
  <2>3. calls + 1 \in Nat /\ calls' \in Nat
    BY <1>0
  <2> QED
    BY <1>1, <2>1, <2>2, <2>3, SendKeepsInv
<1>2. CASE core.at = "stopped"
  <2>1. /\ caller' = [caller EXCEPT ![c] = Free(c)]
        /\ UNCHANGED <<process, box, core, tail, watched, over>>
    BY <1>2 DEF Queues
  <2>2. /\ caller' \in [Callers -> CallerType]
        /\ \A k \in Callers \ {c} : caller'[k] = caller[k]
        /\ caller'[c] = Free(c)
    BY <2>1, FreeType DEF DaemonInv, DaemonTypeOK
  <2>3. DaemonTypeOK'
    BY <1>0, <2>1, <2>2, FreeType DEF DaemonInv, DaemonTypeOK, InHand
  <2>4. WaitsForCommand' /\ ParkedIsWoken' /\ StopIsComing'
    BY <2>1, <2>2, FreeType
    DEF DaemonInv, WaitsForCommand, ParkedIsWoken, StopIsComing, InHand
  <2>5. \A k \in Callers : caller'[k].at = caller[k].at
    BY <2>2, FreeType
  <2>6. TimersWait'
    BY <2>1, <2>5 DEF DaemonInv, TimersWait, InHand, Callers
  <2> QED
    BY <2>1, <2>3, <2>4, <2>6 DEF DaemonInv, Running
<1> QED
  BY <1>1, <1>2

\* The steps of the tasks around the core.
LEMMA TimerKeepsInv ==
    ASSUME DaemonInv, NEW t \in Timers, Sweep(t) \/ TimerEnds(t)
    PROVE  DaemonInv'
<1>1. CASE Sweep(t)
  BY <1>1, QueuesKeepsInv DEF Sweep, Requests, Callers
<1>2. CASE TimerEnds(t)
  <2>1. /\ process = "stopping" /\ caller[t].at = "idle" /\ over' = over \cup {t}
        /\ UNCHANGED <<process, box, core, tail, watched, caller, calls>>
    BY <1>2 DEF TimerEnds
  <2>2. DaemonTypeOK'
    BY <2>1 DEF DaemonInv, DaemonTypeOK, InHand
  <2>3. WaitsForCommand' /\ ParkedIsWoken' /\ StopIsComing'
    BY <2>1 DEF DaemonInv, WaitsForCommand, ParkedIsWoken, StopIsComing, InHand, Running
  <2>4. TimersWait'
    BY <2>1 DEF DaemonInv, TimersWait, InHand
  <2> QED
    BY <2>1, <2>2, <2>3, <2>4 DEF DaemonInv
<1> QED
  BY <1>1, <1>2

LEMMA PhoneKeepsInv ==
    ASSUME DaemonInv, NEW p \in Phones,
           LongPoll(p) \/ Wake(p) \/ HoldEnds(p) \/ WatchCloses(p) \/ HangUp(p)
    PROVE  DaemonInv'
<1>0. /\ p \in Callers \ Timers /\ tail \in Nat /\ watched \in Nat /\ watched <= tail
      /\ caller \in [Callers -> CallerType] /\ calls \in Nat /\ caller[p].id \in Nat
      /\ caller[p].seen <= tail
  BY DaemonAssumption DEF Callers, DaemonInv, DaemonTypeOK, CallerType
<1>1. CASE LongPoll(p)
  BY <1>0, <1>1, QueuesKeepsInv DEF LongPoll, Requests
<1>2. CASE Wake(p)
  <2>1. CASE core.at = "stopped"
    <3>1. /\ caller' = [caller EXCEPT ![p].seen = watched] /\ Running
          /\ UNCHANGED <<process, box, core, tail, watched, over, calls>>
          /\ caller[p].at = "parked"
      BY <1>2, <2>1 DEF Wake
    <3>2. /\ caller' \in [Callers -> CallerType]
          /\ \A k \in Callers \ {p} : caller'[k] = caller[k]
          /\ caller'[p].at = "parked" /\ caller'[p].seen <= tail
      BY <1>0, <3>1 DEF CallerType
    <3> QED
      BY <1>0, <2>1, <3>1, <3>2, LeaveKeepsInv
  <2>2. CASE core.at # "stopped"
    <3>1. /\ box' = Append(box, [from |-> p, does |-> "collect", id |-> caller[p].id])
          /\ caller' = [caller EXCEPT ![p].at = "waiting", ![p].seen = watched]
          /\ UNCHANGED <<process, core, tail, watched, over, calls>>
          /\ Running /\ caller[p].at = "parked"
      BY <1>2, <2>2 DEF Wake
    <3>2. /\ caller' \in [Callers -> CallerType]
          /\ \A k \in Callers \ {p} : caller'[k] = caller[k]
          /\ caller'[p].at = "waiting" /\ caller'[p].seen <= tail
          /\ caller'[p].id = caller[p].id
      BY <1>0, <3>1 DEF CallerType
    <3>3. "collect" \in Requests
      BY DEF Requests
    <3> QED
      BY <1>0, <2>2, <3>1, <3>2, <3>3, SendKeepsInv
  <2> QED
    BY <2>1, <2>2
<1>3. CASE HoldEnds(p)
  <2>1. /\ box' = Append(box, [from |-> p, does |-> "heartbeat", id |-> caller[p].id])
        /\ caller' = [caller EXCEPT ![p].at = "waiting"]
        /\ UNCHANGED <<process, core, tail, watched, over, calls>>
        /\ Running /\ caller[p].at = "parked" /\ core.at # "stopped"
    BY <1>3 DEF HoldEnds
  <2>2. /\ caller' \in [Callers -> CallerType]
        /\ \A k \in Callers \ {p} : caller'[k] = caller[k]
        /\ caller'[p].at = "waiting" /\ caller'[p].seen <= tail
        /\ caller'[p].id = caller[p].id
    BY <1>0, <2>1 DEF CallerType
  <2>3. "heartbeat" \in Requests
    BY DEF Requests
  <2> QED
    BY <1>0, <2>1, <2>2, <2>3, SendKeepsInv
<1>4. CASE WatchCloses(p) \/ HangUp(p)
  <2>1. /\ caller' = [caller EXCEPT ![p] = Free(p)] /\ Running
        /\ UNCHANGED <<process, box, core, tail, watched, over, calls>>
    BY <1>4 DEF WatchCloses, HangUp
  <2>2. /\ caller' \in [Callers -> CallerType]
        /\ \A k \in Callers \ {p} : caller'[k] = caller[k]
        /\ caller'[p].at = "idle" /\ caller'[p].seen <= tail
    BY <1>0, <2>1, FreeType
  <2> QED
    BY <1>0, <2>1, <2>2, LeaveKeepsInv
<1> QED
  BY <1>1, <1>2, <1>3, <1>4

\* The core takes a command.
LEMMA ServeKeepsInv ==
    ASSUME DaemonInv, Serve
    PROVE  DaemonInv'
<1>0. /\ box \in Seq(CommandType) /\ box # <<>> /\ core.at = "idle" /\ Running
      /\ caller \in [Callers -> CallerType]
      /\ UNCHANGED <<process, tail, watched, over, calls>>
  BY DEF Serve, DaemonInv, DaemonTypeOK
<1>1. CASE Head(box).does = "shutdown"
  <2>1. core' = [at |-> "stopped", cmd |-> NoCommand] /\ box' = <<>> /\ caller' = Dropped
    BY <1>1 DEF Serve
  <2>2. DOMAIN caller' = Callers
    BY <2>1 DEF Dropped
  <2>3. ASSUME NEW c \in Callers
        PROVE  /\ caller'[c] \in CallerType /\ caller'[c].seen <= tail
               /\ caller'[c].at # "waiting"
               /\ caller[c].at = "idle" /\ c \in Timers => caller'[c].at = "idle"
    <3> DEFINE Lost == {box[i] : i \in {j \in DOMAIN box :
                                 box[j].from = c /\ box[j].id = caller[c].id}}
    <3>1. \/ Lost = {} /\ caller'[c] = caller[c]
          \/ Lost # {} /\ caller'[c] \in {[caller[c] EXCEPT !.at = "parked"], Free(c)}
      BY <2>1 DEF Dropped
    <3>2. caller[c].at = "waiting" => Lost # {}
      BY <1>0 DEF DaemonInv, WaitsForCommand, InHand
    <3>3. caller[c] \in CallerType /\ caller[c].seen <= tail
      BY DEF DaemonInv, DaemonTypeOK
    <3>4. LET parked == [caller[c] EXCEPT !.at = "parked"]
          IN  parked \in CallerType /\ parked.seen <= tail /\ parked.at = "parked"
      BY <3>3 DEF CallerType
    <3>5. caller[c].at = "idle" /\ c \in Timers => Lost = {}
      BY DEF DaemonInv, TimersWait
    <3> QED
      BY <3>1, <3>2, <3>3, <3>4, <3>5, FreeType
  <2>4. caller' \in [Callers -> CallerType]
    BY <2>1, <2>3 DEF Dropped
  <2>5. DaemonTypeOK'
    BY <1>0, <2>1, <2>3, <2>4 DEF DaemonInv, DaemonTypeOK, InHand
  <2>6. WaitsForCommand' /\ ParkedIsWoken' /\ StopIsComing'
    BY <2>1, <2>3 DEF WaitsForCommand, ParkedIsWoken, StopIsComing
  <2>7. TimersWait'
    BY <1>0, <2>1, <2>3 DEF DaemonInv, TimersWait, InHand, Callers
  <2> QED
    BY <1>0, <2>5, <2>6, <2>7 DEF DaemonInv, Running
<1>2. CASE Head(box).does # "shutdown"
  <2>1. core' = [at |-> "begun", cmd |-> Head(box)] /\ box' = Tail(box) /\ caller' = caller
    BY <1>2 DEF Serve
  <2>2. /\ Head(box) = box[1] /\ 1 \in DOMAIN box /\ DOMAIN box = 1 .. Len(box)
        /\ box' \in Seq(CommandType) /\ DOMAIN box' = 1 .. Len(box) - 1
        /\ \A i \in DOMAIN box' : i + 1 \in DOMAIN box /\ box'[i] = box[i + 1]
        /\ \A i \in DOMAIN box : i # 1 => i - 1 \in DOMAIN box' /\ box'[i - 1] = box[i]
    BY <1>0, <2>1
  <2>3. box[1] \in [from : Callers, does : Requests, id : Nat]
    BY <1>0, <1>2, <2>2 DEF CommandType
  <2>4. DaemonTypeOK'
    BY <1>0, <2>1, <2>2, <2>3 DEF DaemonInv, DaemonTypeOK, InHand
  <2>5. WaitsForCommand'
    <3> SUFFICES ASSUME NEW c \in Callers, caller[c].at = "waiting"
                 PROVE  \/ \E i \in DOMAIN box' : box'[i].from = c /\ box'[i].id = caller[c].id
                        \/ box[1].from = c /\ box[1].id = caller[c].id
      BY <2>1, <2>2 DEF WaitsForCommand, InHand
    <3>1. PICK i \in DOMAIN box : box[i].from = c /\ box[i].id = caller[c].id
      BY <1>0 DEF DaemonInv, WaitsForCommand, InHand
    <3> QED
      BY <2>2, <3>1
  <2>6. ParkedIsWoken'
    BY <1>0, <2>1 DEF DaemonInv, ParkedIsWoken
  <2>7. StopIsComing'
    <3> SUFFICES ASSUME process = "stopping"
                 PROVE  \E i \in DOMAIN box' : box'[i].does = "shutdown"
      BY <1>0, <2>1 DEF StopIsComing
    <3>1. PICK i \in DOMAIN box : box[i].does = "shutdown"
      BY <1>0 DEF DaemonInv, StopIsComing
    <3> QED
      BY <1>2, <2>2, <3>1
  <2>8. TimersWait'
    <3> SUFFICES ASSUME NEW t \in Timers
                 PROVE  /\ \A i \in DOMAIN box' : box'[i].from = t =>
                             /\ caller[t].at = "waiting"
                             /\ \A j \in DOMAIN box' : box'[j].from = t => i = j
                             /\ box[1].from # t
                        /\ box[1].from = t => caller[t].at = "waiting"
                        /\ t \in over => caller[t].at = "idle"
      BY <1>0, <2>1, <2>2 DEF TimersWait, InHand
    <3>1. \A i \in DOMAIN box : box[i].from = t =>
             /\ caller[t].at = "waiting"
             /\ \A j \in DOMAIN box : box[j].from = t => i = j
      BY DEF DaemonInv, TimersWait
    <3>2. ASSUME NEW i \in DOMAIN box', box'[i].from = t
          PROVE  /\ caller[t].at = "waiting"
                 /\ \A j \in DOMAIN box' : box'[j].from = t => i = j
                 /\ box[1].from # t
      <4>1. i + 1 \in DOMAIN box /\ box[i + 1].from = t /\ i + 1 # 1
        BY <2>2, <3>2
      <4>2. ASSUME NEW j \in DOMAIN box', box'[j].from = t PROVE i = j
        <5>1. j + 1 \in DOMAIN box /\ box[j + 1].from = t
          BY <2>2, <4>2
        <5>2. j + 1 = i + 1
          BY <3>1, <4>1, <5>1
        <5> QED
          BY <2>2, <5>2
      <4>3. box[1].from # t
        BY <2>2, <3>1, <4>1
      <4> QED
        BY <3>1, <4>1, <4>2, <4>3
    <3>3. t \in over => caller[t].at = "idle"
      BY DEF DaemonInv, TimersWait
    <3> QED
      BY <2>2, <3>1, <3>2, <3>3
  <2> QED
    BY <1>0, <2>4, <2>5, <2>6, <2>7, <2>8 DEF DaemonInv, Running
<1> QED
  BY <1>1, <1>2
\* The reply to the command in hand: its caller, when it still waits for it, is
\* in another state; nobody else is.
LEMMA RepliedTo ==
    ASSUME DaemonInv, InHand, NEW state \in CallerType, state.at # "waiting",
           state.seen <= tail, caller' = Replied(core.cmd, state)
    PROVE  /\ caller' \in [Callers -> CallerType]
           /\ \A k \in Callers : caller'[k].seen <= tail
           /\ \A k \in Callers : k # core.cmd.from => caller'[k] = caller[k]
           /\ core.cmd.from \in Callers
           /\ LET c == core.cmd.from
              IN  IF caller[c].at = "waiting" /\ caller[c].id = core.cmd.id
                  THEN caller'[c] = state ELSE caller'[c] = caller[c]
<1> DEFINE c == core.cmd.from
<1>1. c \in Callers /\ caller \in [Callers -> CallerType] /\ tail \in Nat
      /\ \A k \in Callers : caller[k].seen <= tail
  BY DEF DaemonInv, DaemonTypeOK, InHand
<1>2. CASE caller[c].at = "waiting" /\ caller[c].id = core.cmd.id
  BY <1>1, <1>2 DEF Replied
<1>3. CASE ~ (caller[c].at = "waiting" /\ caller[c].id = core.cmd.id)
  BY <1>1, <1>3 DEF Replied
<1> QED
  BY <1>2, <1>3

\* A reply, with or without an append before it.
LEMMA ReplyKeepsInv ==
    ASSUME DaemonInv, Running, InHand, NEW state \in CallerType,
           \/ state.at = "idle"
           \/ state.at = "parked" /\ state.seen <= state.cursor,
           state.seen <= tail, caller' = Replied(core.cmd, state),
           core' = [core EXCEPT !.at = "done"], tail' \in {tail, tail + 1},
           UNCHANGED <<process, box, watched, over, calls>>
    PROVE  DaemonInv'
<1>0. state.at # "waiting" /\ tail \in Nat /\ tail' \in Nat /\ tail' >= tail
      /\ watched \in Nat
  BY DEF DaemonInv, DaemonTypeOK
<1>1. /\ caller' \in [Callers -> CallerType]
      /\ \A k \in Callers : caller'[k].seen <= tail
      /\ \A k \in Callers : k # core.cmd.from => caller'[k] = caller[k]
      /\ core.cmd.from \in Callers
      /\ LET c == core.cmd.from
         IN  IF caller[c].at = "waiting" /\ caller[c].id = core.cmd.id
             THEN caller'[c] = state ELSE caller'[c] = caller[c]
  BY <1>0, RepliedTo
<1>2. core'.at = "done" /\ core' = [at |-> core'.at, cmd |-> core'.cmd] /\ ~InHand'
  <2>1. core = [at |-> core.at, cmd |-> core.cmd]
    BY DEF DaemonInv, DaemonTypeOK
  <2> QED
    BY <2>1 DEF InHand
<1>3. \A k \in Callers : caller'[k].seen \in Nat /\ caller'[k].seen <= tail'
  BY <1>0, <1>1 DEF CallerType
<1>4. DaemonTypeOK'
  <2>1. watched' <= tail' /\ watched' \in Nat
    BY <1>0 DEF DaemonInv, DaemonTypeOK
  <2> QED
    BY <1>0, <1>1, <1>2, <1>3, <2>1 DEF DaemonInv, DaemonTypeOK
<1>5. WaitsForCommand'
  <2> SUFFICES ASSUME NEW c \in Callers, caller'[c].at = "waiting"
               PROVE  \E i \in DOMAIN box : box[i].from = c /\ box[i].id = caller'[c].id
    BY DEF WaitsForCommand
  <2>1. caller'[c] = caller[c] /\ ~ (core.cmd.from = c /\ core.cmd.id = caller[c].id)
    BY <1>0, <1>1
  <2> QED
    BY <2>1 DEF DaemonInv, WaitsForCommand
<1>6. ParkedIsWoken'
  <2> SUFFICES ASSUME NEW p \in Callers, caller'[p].at = "parked"
               PROVE  caller'[p].seen <= caller'[p].cursor
    BY <1>2 DEF ParkedIsWoken
  <2>1. caller'[p] = state \/ caller'[p] = caller[p]
    BY <1>1
  <2>2. core.at # "stopped"
    BY DEF InHand
  <2> QED
    BY <2>1, <2>2 DEF DaemonInv, ParkedIsWoken
<1>7. StopIsComing'
  BY <1>2 DEF DaemonInv, StopIsComing, InHand
<1>8. TimersWait'
  <2> SUFFICES ASSUME NEW t \in Timers
               PROVE  /\ \A i \in DOMAIN box : box[i].from = t =>
                           /\ caller'[t].at = "waiting"
                           /\ \A j \in DOMAIN box : box[j].from = t => i = j
                      /\ t \in over => caller'[t].at = "idle"
    BY <1>2 DEF TimersWait
  <2>1. t \in Callers
    BY DEF Callers
  <2>2. CASE t = core.cmd.from
    BY <2>1, <2>2, <1>1 DEF DaemonInv, TimersWait
  <2>3. CASE t # core.cmd.from
    BY <2>1, <2>3, <1>1 DEF DaemonInv, TimersWait
  <2> QED
    BY <2>2, <2>3
<1> QED
  BY <1>4, <1>5, <1>6, <1>7, <1>8 DEF DaemonInv, Running

LEMMA CoreKeepsInv ==
    ASSUME DaemonInv, CoreStep
    PROVE  DaemonInv'
<1>0. /\ core = [at |-> core.at, cmd |-> core.cmd] /\ tail \in Nat /\ watched \in Nat
      /\ watched <= tail /\ caller \in [Callers -> CallerType]
      /\ \A k \in Callers : caller[k].seen <= tail
      /\ InHand => core.cmd.from \in Callers
  BY DEF DaemonInv, DaemonTypeOK
<1>1. CASE Serve
  BY <1>1, ServeKeepsInv
<1>2. CASE FirstAppend
  <2>1. /\ Running /\ InHand /\ tail' = tail + 1 /\ core.at = "begun"
        /\ core' = [core EXCEPT !.at = "half"]
        /\ UNCHANGED <<process, box, watched, caller, over, calls>>
    BY <1>2 DEF FirstAppend, InHand
  <2>2. core'.at = "half" /\ core'.cmd = core.cmd /\ core' = [at |-> core'.at, cmd |-> core'.cmd]
        /\ InHand'
    BY <1>0, <2>1 DEF InHand
  <2>3. DaemonTypeOK'
    <3>1. \A k \in Callers : caller'[k].seen <= tail'
      BY <1>0, <2>1 DEF CallerType
    <3>2. watched' <= tail' /\ tail' \in Nat
      BY <1>0, <2>1
    <3> QED
      BY <2>1, <2>2, <3>1, <3>2 DEF DaemonInv, DaemonTypeOK
  <2>4. WaitsForCommand' /\ ParkedIsWoken' /\ StopIsComing'
    BY <2>1, <2>2 DEF DaemonInv, WaitsForCommand, ParkedIsWoken, StopIsComing
  <2>5. TimersWait'
    BY <2>1, <2>2 DEF DaemonInv, TimersWait
  <2> QED
    BY <2>1, <2>3, <2>4, <2>5 DEF DaemonInv, Running
<1>3. CASE SecondAppend
  <2>1. /\ Running /\ InHand /\ tail' = tail + 1 /\ core' = [core EXCEPT !.at = "done"]
        /\ caller' = Replied(core.cmd, Free(core.cmd.from))
        /\ UNCHANGED <<process, box, watched, over, calls>>
    BY <1>3 DEF SecondAppend, InHand
  <2> DEFINE state == Free(core.cmd.from)
  <2>2. state \in CallerType /\ state.at = "idle" /\ state.seen <= tail
    BY <1>0, <2>1, FreeType
  <2> HIDE DEF state
  <2>3. caller' = Replied(core.cmd, state)
    BY <2>1 DEF state
  <2> QED
    BY <2>1, <2>2, <2>3, ReplyKeepsInv
<1>4. CASE Poll
  <2> DEFINE p == core.cmd.from
             news == tail > caller[p].cursor \/ core.cmd.does = "heartbeat"
             state == IF news THEN [Free(p) EXCEPT !.cursor = tail] ELSE Parks(core.cmd, p)
  <2>1. /\ Running /\ InHand /\ core' = [core EXCEPT !.at = "done"]
        /\ caller' = Replied(core.cmd, state) /\ tail' = tail
        /\ UNCHANGED <<process, box, watched, over, calls>>
    BY <1>4 DEF Poll, InHand
  <2>2. p \in Callers /\ caller[p] \in CallerType /\ caller[p].seen <= tail
        /\ core.cmd.id \in Nat
    BY <1>0, <2>1 DEF DaemonInv, DaemonTypeOK
  <2>3. CASE news
    <3>1. state = [Free(p) EXCEPT !.cursor = tail]
      BY <2>3
    <3>2. state \in CallerType /\ state.at = "idle" /\ state.seen <= tail
      BY <1>0, <2>2, <3>1 DEF Free, CallerType
    <3> HIDE DEF state
    <3> QED
      BY <2>1, <3>2, ReplyKeepsInv
  <2>4. CASE ~news
    <3>1. state = Parks(core.cmd, p)
      BY <2>4
    <3>2. tail <= caller[p].cursor
      BY <1>0, <2>2, <2>4 DEF CallerType
    <3>3. state \in CallerType /\ state.at = "parked" /\ state.seen <= tail
          /\ state.seen <= state.cursor
      BY <1>0, <2>2, <3>1, <3>2 DEF Parks, CallerType
    <3> HIDE DEF state
    <3> QED
      BY <2>1, <3>3, ReplyKeepsInv
  <2> QED
    BY <2>3, <2>4
<1>5. CASE PublishTail
  <2>1. /\ Running /\ core.at = "done" /\ watched' = tail
        /\ core' = [at |-> "idle", cmd |-> NoCommand]
        /\ UNCHANGED <<process, box, tail, caller, over, calls>>
    BY <1>5 DEF PublishTail
  <2>2. DaemonTypeOK'
    BY <1>0, <2>1 DEF DaemonInv, DaemonTypeOK, InHand
  <2>3. WaitsForCommand' /\ StopIsComing'
    BY <2>1 DEF DaemonInv, WaitsForCommand, StopIsComing, InHand
  <2>4. ParkedIsWoken'
    <3> SUFFICES ASSUME NEW p \in Callers, caller[p].at = "parked"
                 PROVE  /\ caller[p].seen <= caller[p].cursor
                        /\ tail > caller[p].cursor => tail > caller[p].seen
      BY <2>1 DEF ParkedIsWoken
    <3>1. caller[p].seen <= caller[p].cursor
      BY <2>1 DEF DaemonInv, ParkedIsWoken
    <3> QED
      BY <1>0, <3>1 DEF CallerType
  <2>5. TimersWait'
    BY <2>1 DEF DaemonInv, TimersWait, InHand
  <2> QED
    BY <2>1, <2>2, <2>3, <2>4, <2>5 DEF DaemonInv, Running
<1> QED
  BY <1>1, <1>2, <1>3, <1>4, <1>5 DEF CoreStep

\* Station::shutdown, and a panic.
LEMMA StopKeepsInv ==
    ASSUME DaemonInv, Signal \/ ServerEnds \/ Exit \/ Panic
    PROVE  DaemonInv'
<1>1. CASE Signal
  <2> DEFINE cmd == [from |-> "main", does |-> "shutdown", id |-> 0]
  <2>1. /\ process = "serving" /\ process' = "stopping"
        /\ box' = IF core.at = "stopped" THEN box ELSE Append(box, cmd)
        /\ UNCHANGED <<core, tail, watched, caller, over, calls>>
    BY <1>1 DEF Signal
  <2>2. cmd \in CommandType /\ box \in Seq(CommandType)
    BY DEF CommandType, DaemonInv, DaemonTypeOK
  <2>3. /\ box' \in Seq(CommandType)
        /\ \A i \in DOMAIN box : i \in DOMAIN box' /\ box'[i] = box[i]
        /\ \A i \in DOMAIN box' : i \in DOMAIN box \/ box'[i] = cmd
        /\ core.at = "stopped" => box' = box
        /\ core.at # "stopped" => \E i \in DOMAIN box' : box'[i] = cmd
    <3>1. CASE core.at = "stopped"
      BY <2>1, <2>2, <3>1
    <3>2. CASE core.at # "stopped"
      <4>1. /\ Append(box, cmd) \in Seq(CommandType)
            /\ \A i \in DOMAIN box : i \in DOMAIN Append(box, cmd) /\ Append(box, cmd)[i] = box[i]
            /\ \A i \in DOMAIN Append(box, cmd) : i \in DOMAIN box \/ Append(box, cmd)[i] = cmd
            /\ Len(box) + 1 \in DOMAIN Append(box, cmd)
            /\ Append(box, cmd)[Len(box) + 1] = cmd
        BY <2>2
      <4> QED
        BY <2>1, <3>2, <4>1
    <3> QED
      BY <3>1, <3>2
  <2> HIDE DEF cmd
  <2>4. cmd.does = "shutdown" /\ cmd.from = "main"
    BY DEF cmd
  <2>5. DaemonTypeOK'
    BY <2>1, <2>3 DEF DaemonInv, DaemonTypeOK, InHand
  <2>6. WaitsForCommand'
    BY <2>1, <2>3 DEF DaemonInv, WaitsForCommand, InHand, Running
  <2>7. ParkedIsWoken'
    BY <2>1 DEF DaemonInv, ParkedIsWoken, Running
  <2>8. StopIsComing'
    BY <2>1, <2>3, <2>4 DEF DaemonInv, StopIsComing, Running
  <2>9. TimersWait'
    <3>1. \A t \in Timers : t # "main"
      BY DaemonAssumption
    <3>2. \A t \in Timers : \A i \in DOMAIN box' :
             box'[i].from = t => i \in DOMAIN box /\ box[i].from = t
      BY <2>3, <2>4, <3>1
    <3> QED
      BY <2>1, <3>2 DEF DaemonInv, TimersWait, InHand
  <2> QED
    BY <2>1, <2>5, <2>6, <2>7, <2>8, <2>9 DEF DaemonInv, Running
<1>2. CASE ServerEnds
  <2>1. /\ over' = over \cup {"http"}
        /\ UNCHANGED <<process, box, core, tail, watched, caller, calls>>
    BY <1>2 DEF ServerEnds
  <2>2. \A t \in Timers : t \in over' => t \in over
    BY <2>1, DaemonAssumption
  <2>3. TimersWait'
    BY <2>1, <2>2 DEF DaemonInv, TimersWait, InHand
  <2>4. DaemonTypeOK' /\ (process' = "ended" => Timers \subseteq over')
    BY <2>1 DEF DaemonInv, DaemonTypeOK, InHand
  <2>5. Running' => WaitsForCommand' /\ ParkedIsWoken' /\ StopIsComing'
    BY <2>1 DEF DaemonInv, WaitsForCommand, ParkedIsWoken, StopIsComing, InHand, Running
  <2> QED
    BY <2>3, <2>4, <2>5 DEF DaemonInv
<1>3. CASE Exit \/ Panic
  <2>1. /\ process' \in {"ended", "crashed"} /\ ~Running'
        /\ UNCHANGED <<box, core, tail, watched, caller, over, calls>>
        /\ process' = "ended" => Timers \subseteq over
    BY <1>3 DEF Exit, Panic, Running, Joined
  <2>2. DaemonTypeOK' /\ TimersWait'
    BY <2>1 DEF DaemonInv, DaemonTypeOK, TimersWait, InHand
  <2> QED
    BY <2>1, <2>2 DEF DaemonInv
<1> QED
  BY <1>1, <1>2, <1>3

\* Every step of a station's process keeps DaemonInv.
THEOREM DaemonTheorem == DaemonSpec => []DaemonInv
<1>1. DaemonInit => DaemonInv
  BY DaemonInitInv
<1>2. DaemonInv /\ [DaemonNext]_daemonVars => DaemonInv'
  <2> SUFFICES ASSUME DaemonInv, [DaemonNext]_daemonVars
               PROVE  DaemonInv'
    OBVIOUS
  <2>1. ASSUME NEW s \in Sockets, SocketCall(s)
        PROVE  DaemonInv'
    <3>1. s \in Callers /\ s \notin Timers
      BY DaemonAssumption DEF Callers
    <3>2. "write" \in Requests /\ Running /\ caller[s].at = "idle" /\ Queues(s, "write")
      BY <2>1 DEF Requests, SocketCall
    <3> QED
      BY <3>1, <3>2, QueuesKeepsInv
  <2>2. CASE UNCHANGED daemonVars
    BY <2>2 DEF daemonVars, DaemonInv, DaemonTypeOK, WaitsForCommand, ParkedIsWoken,
                StopIsComing, TimersWait, InHand, Running
  <2> QED
    BY <2>1, <2>2, TimerKeepsInv, PhoneKeepsInv, CoreKeepsInv, StopKeepsInv DEF DaemonNext
<1> QED
  BY <1>1, <1>2, PTL DEF DaemonSpec

\* No caller of the core thread is ever left waiting for a reply, a wake-up or
\* the end of the watch that is not on its way (Core::run, poll_events).
THEOREM NobodyWaitsInVainTheorem == DaemonSpec => []NobodyWaitsInVain
<1>1. DaemonInv => NobodyWaitsInVain
  <2> SUFFICES ASSUME DaemonInv, Running PROVE NobodyWaitsInVain
    BY DEF NobodyWaitsInVain
  <2>1. \A i \in DOMAIN box : box[i] \in ToSet(box)
    BY DEF ToSet
  <2> DEFINE onItsWay == ToSet(box) \cup (IF core.at \in {"begun", "half"} THEN {core.cmd} ELSE {})
  <2>2. \A c \in Callers : caller[c].at = "waiting" =>
           \E cmd \in onItsWay : cmd.from = c /\ cmd.id = caller[c].id
    BY <2>1 DEF DaemonInv, WaitsForCommand, InHand
  <2>3. \A p \in Phones : caller[p].at = "parked" /\ tail > caller[p].cursor =>
           watched > caller[p].seen \/ core.at \in {"half", "done", "stopped"}
    BY DEF DaemonInv, ParkedIsWoken, Callers
  <2>4. /\ core.at = "stopped" => box = <<>>
        /\ process = "stopping" =>
             core.at = "stopped" \/ \E cmd \in ToSet(box) : cmd.does = "shutdown"
    BY <2>1 DEF DaemonInv, StopIsComing
  <2> QED
    BY <2>2, <2>3, <2>4 DEF NobodyWaitsInVain
<1> QED
  BY <1>1, DaemonTheorem, PTL

\* A clean stop never leaves a timer's sweep half done (Station::shutdown).
THEOREM SweepsAreNotCutTheorem == DaemonSpec => []SweepsAreNotCut
<1>1. DaemonInv => SweepsAreNotCut
  BY DEF DaemonInv, TimersWait, SweepsAreNotCut, InHand
<1> QED
  BY <1>1, DaemonTheorem, PTL
-----------------------------------------------------------------------------
(* Browse.                                                                 *)

ListingType ==
    [price : AskedPrices, until : Expiries, units : Units, sold : Nat, closed : BOOLEAN]

\* A listing that has a row has the one it would be given now; one without a
\* row is not on offer, nor will it be by the passing of time.
UpToDate(l) ==
    /\ l \in DOMAIN table => table[l] = RowOf(l)
    /\ l \notin DOMAIN table => ListingState(l) # "active"

BrowseInv ==
    /\ moment \in Nat
    /\ \A l \in DOMAIN listed : listed[l] \in ListingType
    /\ DOMAIN table \subseteq DOMAIN listed
    /\ \A l \in DOMAIN listed \ stale : UpToDate(l)

\* A listing that no record of the step is about reads as before.
LEMMA SameListing ==
    ASSUME NEW k, listed'[k] = listed[k], moment' = moment
    PROVE  RowOf(k)' = RowOf(k) /\ ListingState(k)' = ListingState(k)
  BY DEF RowOf, ListingState, Remaining

\* Whether a listing is closed does not depend on the clock, so its row does not.
LEMMA LaterListing ==
    ASSUME BrowseInv, NEW k \in DOMAIN listed, listed' = listed, moment' = moment + 1
    PROVE  /\ RowOf(k)' = RowOf(k)
           /\ ListingState(k) # "active" => ListingState(k)' # "active"
<1>1. listed[k] \in ListingType /\ listed[k].until \in Nat /\ moment \in Nat
  BY AmountsAssumption DEF BrowseInv, ListingType
<1>2. Remaining(k)' = Remaining(k)
  BY DEF Remaining
<1>3. ListingState(k)' = "closed" <=> ListingState(k) = "closed"
  BY <1>2 DEF ListingState
<1>4. RowOf(k)' = RowOf(k)
  BY <1>2, <1>3 DEF RowOf
<1>5. ListingState(k) # "active" => ListingState(k)' # "active"
  BY <1>1, <1>2 DEF ListingState
<1> QED
  BY <1>4, <1>5

\* A record about one listing, then its reindex, whether that is written or not.
LEMMA ReindexKeepsInv ==
    ASSUME BrowseInv, NEW l, DOMAIN listed' = DOMAIN listed \cup {l},
           \A k \in DOMAIN listed \ {l} : listed'[k] = listed[k],
           listed'[l] \in ListingType, moment' = moment, Reindex(l)
    PROVE  BrowseInv'
<1>1. \A k \in DOMAIN listed' : listed'[k] \in ListingType
  BY DEF BrowseInv
<1>2. \A k \in DOMAIN listed' \ {l} :
         k \in DOMAIN listed /\ RowOf(k)' = RowOf(k) /\ ListingState(k)' = ListingState(k)
  BY SameListing
<1>3. CASE ListingState(l)' = "active"
  <2>1. Written(l, RowOf(l)')
    BY <1>3 DEF Reindex
  <2>2. \/ table' = With(table, l, RowOf(l)') /\ stale' = stale \ {l}
        \/ table' \in {table, With(table, l, RowOf(l)')} /\ stale' = stale \cup {l}
    BY <2>1 DEF Written
  <2>3. /\ DOMAIN table' \subseteq DOMAIN listed'
        /\ \A k \in DOMAIN listed' \ {l} :
              /\ k \in DOMAIN table' <=> k \in DOMAIN table
              /\ k \in DOMAIN table => table'[k] = table[k]
        /\ l \notin stale' => l \in DOMAIN table' /\ table'[l] = RowOf(l)'
    BY <2>2 DEF BrowseInv, With
  <2>4. \A k \in DOMAIN listed' \ {l} : k \notin stale' => k \notin stale
    BY <2>2
  <2>5. ASSUME NEW k \in DOMAIN listed' \ stale' PROVE UpToDate(k)'
    <3>1. CASE k = l
      BY <2>3, <3>1 DEF UpToDate
    <3>2. CASE k # l
      <4>1. UpToDate(k)
        BY <1>2, <2>4, <3>2 DEF BrowseInv
      <4> QED
        BY <1>2, <2>3, <3>2, <4>1 DEF UpToDate
    <3> QED
      BY <3>1, <3>2
  <2> QED
    BY <1>1, <2>3, <2>5 DEF BrowseInv
<1>4. CASE ListingState(l)' # "active"
  <2>1. Removed({l})
    BY <1>4 DEF Reindex
  <2>2. \/ table' = Without(table, {l}) /\ stale' = stale \ {l}
        \/ /\ table' \in {Without(table, {}), Without(table, {l})}
           /\ stale' = (stale \ {l}) \cup {l}
    <3>1. {l} \ {l} = {}
      OBVIOUS
    <3> QED
      BY <2>1, <3>1 DEF Removed
  <2>3. /\ DOMAIN table' \subseteq DOMAIN listed'
        /\ \A k \in DOMAIN listed' \ {l} :
              /\ k \in DOMAIN table' <=> k \in DOMAIN table
              /\ k \in DOMAIN table => table'[k] = table[k]
        /\ l \notin stale' => l \notin DOMAIN table'
    BY <2>2 DEF BrowseInv, Without
  <2>4. \A k \in DOMAIN listed' \ {l} : k \notin stale' => k \notin stale
    BY <2>2
  <2>5. ASSUME NEW k \in DOMAIN listed' \ stale' PROVE UpToDate(k)'
    <3>1. CASE k = l
      BY <1>4, <2>3, <3>1 DEF UpToDate
    <3>2. CASE k # l
      <4>1. UpToDate(k)
        BY <1>2, <2>4, <3>2 DEF BrowseInv
      <4> QED
        BY <1>2, <2>3, <3>2, <4>1 DEF UpToDate
    <3> QED
      BY <3>1, <3>2
  <2> QED
    BY <1>1, <2>3, <2>5 DEF BrowseInv
<1> QED
  BY <1>3, <1>4

LEMMA RecordKeepsInv ==
    ASSUME BrowseInv, NEW l \in Goods,
           \/ \E p \in AskedPrices, u \in Expiries, n \in Units :
                 Publish(l, p, u, n) \/ Edit(l, p, u, n)
           \/ CloseListing(l) \/ SaleAttested(l)
    PROVE  BrowseInv'
<1>1. ASSUME NEW p \in AskedPrices, NEW u \in Expiries, NEW n \in Units, Publish(l, p, u, n)
      PROVE  BrowseInv'
  <2>1. /\ l \notin DOMAIN listed /\ moment' = moment /\ Reindex(l)
        /\ listed' = With(listed, l,
              [price |-> p, until |-> u, units |-> n, sold |-> 0, closed |-> FALSE])
    BY <1>1 DEF Publish
  <2>2. /\ DOMAIN listed' = DOMAIN listed \cup {l}
        /\ \A k \in DOMAIN listed \ {l} : listed'[k] = listed[k]
        /\ listed'[l] \in ListingType
    BY <2>1 DEF With, ListingType
  <2> QED
    BY <2>1, <2>2, ReindexKeepsInv
<1>2. ASSUME l \in DOMAIN listed, moment' = moment, Reindex(l), NEW e \in ListingType,
             listed' = [listed EXCEPT ![l] = e]
      PROVE  BrowseInv'
  <2>1. /\ DOMAIN listed' = DOMAIN listed \cup {l}
        /\ \A k \in DOMAIN listed \ {l} : listed'[k] = listed[k]
        /\ listed'[l] \in ListingType
    BY <1>2
  <2> QED
    BY <1>2, <2>1, ReindexKeepsInv
<1>3. ASSUME NEW p \in AskedPrices, NEW u \in Expiries, NEW n \in Units, Edit(l, p, u, n)
      PROVE  BrowseInv'
  <2> DEFINE Edited(e) == [e EXCEPT !.price = p, !.until = u, !.units = n]
  <2>1. \A e \in ListingType : Edited(e) \in ListingType
    BY DEF ListingType
  <2>2. /\ l \in DOMAIN listed /\ moment' = moment /\ Reindex(l)
        /\ listed' = [listed EXCEPT ![l] = Edited(listed[l])]
    BY <1>3 DEF Edit
  <2>3. listed[l] \in ListingType
    BY <2>2 DEF BrowseInv
  <2> HIDE DEF Edited
  <2> QED
    BY <1>2, <2>1, <2>2, <2>3
<1>4. ASSUME CloseListing(l) PROVE BrowseInv'
  <2> DEFINE Closed(e) == [e EXCEPT !.closed = TRUE]
  <2>1. \A e \in ListingType : Closed(e) \in ListingType
    BY DEF ListingType
  <2>2. /\ l \in DOMAIN listed /\ moment' = moment /\ Reindex(l)
        /\ listed' = [listed EXCEPT ![l] = Closed(listed[l])]
    BY <1>4 DEF CloseListing
  <2>3. listed[l] \in ListingType
    BY <2>2 DEF BrowseInv
  <2> HIDE DEF Closed
  <2> QED
    BY <1>2, <2>1, <2>2, <2>3
<1>5. ASSUME SaleAttested(l) PROVE BrowseInv'
  <2> DEFINE Sold(e) == [e EXCEPT !.sold = @ + 1]
  <2>1. \A e \in ListingType : Sold(e) \in ListingType
    BY DEF ListingType
  <2>2. /\ l \in DOMAIN listed /\ moment' = moment /\ Reindex(l)
        /\ listed' = [listed EXCEPT ![l] = Sold(listed[l])]
    BY <1>5 DEF SaleAttested
  <2>3. listed[l] \in ListingType
    BY <2>2 DEF BrowseInv
  <2> HIDE DEF Sold
  <2> QED
    BY <1>2, <2>1, <2>2, <2>3
<1> QED
  BY <1>1, <1>3, <1>4, <1>5

\* The sweep takes every expired listing out, all at once.
LEMMA ExpireKeepsInv ==
    ASSUME BrowseInv, ExpireListings
    PROVE  BrowseInv'
<1> DEFINE gone == {l \in DOMAIN listed : ListingState(l) = "expired"}
           Swept(e, now) == [e EXCEPT !.closed = @ \/ now]
<1>1. PICK appended \in SUBSET gone :
         listed' = [l \in DOMAIN listed |-> Swept(listed[l], l \in appended)]
  BY DEF ExpireListings
<1>2. moment' = moment /\ Removed(gone)
  BY DEF ExpireListings
<1>3. \A e \in ListingType : \A now \in BOOLEAN :
         /\ Swept(e, now) \in ListingType
         /\ Swept(e, now) = [price |-> e.price, until |-> e.until, units |-> e.units,
                             sold |-> e.sold, closed |-> e.closed \/ now]
  BY DEF ListingType
<1>4. \A e \in ListingType : Swept(e, FALSE) = e
  BY <1>3 DEF ListingType
<1>5. /\ DOMAIN listed' = DOMAIN listed
      /\ \A l \in DOMAIN listed : listed'[l] = Swept(listed[l], l \in appended)
  BY <1>1
<1>6. /\ \A l \in DOMAIN listed : listed[l] \in ListingType
      /\ \A l \in DOMAIN listed : \E now \in BOOLEAN : listed'[l] = Swept(listed[l], now)
  <2>1. \A l : (l \in appended) \in BOOLEAN
    OBVIOUS
  <2> HIDE DEF Swept
  <2>2. ASSUME NEW l \in DOMAIN listed
        PROVE  \E now \in BOOLEAN : listed'[l] = Swept(listed[l], now)
    <3> WITNESS (l \in appended) \in BOOLEAN
    <3> QED
      BY <1>5
  <2> QED
    BY <2>2 DEF BrowseInv
<1>7. \A l \in DOMAIN listed' : listed'[l] \in ListingType
  <2> HIDE DEF Swept
  <2> QED
    BY Zenon, <1>3, <1>5, <1>6
<1>8. \A l \in DOMAIN listed \ gone : listed'[l] = listed[l]
  <2>1. \A l \in DOMAIN listed \ gone : (l \in appended) = FALSE
    OBVIOUS
  <2> HIDE DEF Swept, gone
  <2> QED
    BY <1>4, <1>5, <1>6, <2>1
<1>9. \A l \in gone : ListingState(l)' # "active"
  <2> SUFFICES ASSUME NEW l \in gone PROVE ListingState(l)' # "active"
    OBVIOUS
  <2>1. listed[l] \in ListingType /\ ListingState(l) = "expired"
    BY DEF BrowseInv
  <2>2. moment > listed[l].until
    BY <2>1 DEF ListingState
  <2>3. listed'[l].until = listed[l].until
    <3>1. l \in DOMAIN listed
      OBVIOUS
    <3>2. PICK now \in BOOLEAN : listed'[l] = Swept(listed[l], now)
      BY <1>6, <3>1
    <3>3. \A e \in ListingType : Swept(e, now).until = e.until
      BY DEF ListingType
    <3> HIDE DEF Swept
    <3> QED
      BY <2>1, <3>2, <3>3
  <2> QED
    BY <1>2, <2>2, <2>3 DEF ListingState
<1> HIDE DEF gone
<1>10. /\ DOMAIN table' \subseteq DOMAIN listed'
       /\ \A k \in DOMAIN listed \ gone :
             /\ k \in DOMAIN table' <=> k \in DOMAIN table
             /\ k \in DOMAIN table => table'[k] = table[k]
             /\ k \notin stale' => k \notin stale
       /\ \A k \in gone : k \notin stale' => k \notin DOMAIN table'
  <2>1. CASE table' = Without(table, gone) /\ stale' = stale \ gone
    BY <1>5, <2>1 DEF Without, BrowseInv
  <2>2. ASSUME NEW l \in gone, stale' = (stale \ gone) \cup {l},
               table' \in {Without(table, gone \ {l}), Without(table, gone)}
        PROVE  <1>10!:
    BY <1>5, <2>2 DEF Without, BrowseInv
  <2> QED
    BY <1>2, <2>1, <2>2 DEF Removed
<1>11. ASSUME NEW k \in DOMAIN listed' \ stale' PROVE UpToDate(k)'
  <2>1. CASE k \in gone
    BY <1>9, <1>10, <2>1 DEF UpToDate
  <2>2. CASE k \notin gone
    <3>1. k \in DOMAIN listed \ stale
      BY <1>5, <1>10, <2>2
    <3>2. RowOf(k)' = RowOf(k) /\ ListingState(k)' = ListingState(k)
      BY <1>2, <1>8, <2>2, <3>1, SameListing
    <3>3. UpToDate(k)
      BY <3>1 DEF BrowseInv
    <3> QED
      BY <1>10, <2>2, <3>1, <3>2, <3>3 DEF UpToDate
  <2> QED
    BY <2>1, <2>2
<1> QED
  BY <1>2, <1>7, <1>10, <1>11 DEF BrowseInv

\* The table and the log stay in step.
THEOREM BrowseInvTheorem == BrowseSpec => []BrowseInv
<1>1. BrowseInit => BrowseInv
  BY DEF BrowseInit, BrowseInv
<1>2. BrowseInv /\ [BrowseNext]_browseVars => BrowseInv'
  <2> SUFFICES ASSUME BrowseInv, [BrowseNext]_browseVars
               PROVE  BrowseInv'
    OBVIOUS
  <2>1. CASE Restart
    <3>1. table' = [l \in DOMAIN listed |-> RowOf(l)] /\ UNCHANGED <<listed, moment>>
      BY <2>1 DEF Restart, RebuiltTable
    <3>2. \A l \in DOMAIN listed : UpToDate(l)'
      BY <3>1, SameListing DEF UpToDate
    <3> QED
      BY <3>1, <3>2 DEF BrowseInv
  <2>2. CASE RestartHalfway
    <3>1. PICK filled \in SUBSET DOMAIN listed : table' = [l \in filled |-> RowOf(l)]
      BY <2>2 DEF RestartHalfway
    <3>2. stale' = DOMAIN listed /\ UNCHANGED <<listed, moment>>
      BY <2>2 DEF RestartHalfway
    <3> QED
      BY <3>1, <3>2 DEF BrowseInv
  <2>3. CASE Moment
    <3>1. moment' = moment + 1 /\ UNCHANGED <<listed, table, stale>>
      BY <2>3 DEF Moment
    <3>2. \A l \in DOMAIN listed \ stale : UpToDate(l)'
      BY <3>1, LaterListing DEF BrowseInv, UpToDate
    <3> QED
      BY <3>1, <3>2 DEF BrowseInv
  <2>4. CASE UNCHANGED browseVars
    <3>1. \A l \in DOMAIN listed \ stale : UpToDate(l)'
      BY <2>4, SameListing DEF browseVars, BrowseInv, UpToDate
    <3> QED
      BY <2>4, <3>1 DEF browseVars, BrowseInv
  <2> QED
    BY <2>1, <2>2, <2>3, <2>4, RecordKeepsInv, ExpireKeepsInv DEF BrowseNext
<1> QED
  BY <1>1, <1>2, PTL DEF BrowseSpec

\* And so does the text index, for what is on offer.
DocInv ==
    /\ BrowseInv /\ DOMAIN listed \subseteq Goods
    /\ \A l \in DOMAIN listed \ stale : ListingState(l) = "active" => l \in docs

\* Records about one listing, or none of which leaves it on offer.
LEMMA RemovedKeepsDocs ==
    ASSUME DocInv, BrowseInv', DOMAIN listed' \subseteq Goods, moment' = moment, NEW gone, Removed(gone),
           \A k \in DOMAIN listed' \ gone : k \in DOMAIN listed /\ listed'[k] = listed[k],
           \A k \in gone : ListingState(k)' # "active"
    PROVE  DocInv'
<1> SUFFICES ASSUME NEW k \in DOMAIN listed' \ stale', ListingState(k)' = "active"
             PROVE  k \in docs'
  BY DEF DocInv
<1>1. k \notin gone /\ k \in DOMAIN listed /\ listed'[k] = listed[k]
  OBVIOUS
<1>2. k \notin stale /\ (k \in docs => k \in docs')
  BY <1>1 DEF Removed
<1>3. ListingState(k) = "active"
  BY <1>1, SameListing
<1> QED
  BY <1>1, <1>2, <1>3 DEF DocInv

LEMMA ReindexKeepsDocs ==
    ASSUME DocInv, BrowseInv', NEW l \in Goods, Reindex(l), moment' = moment,
           DOMAIN listed' \subseteq DOMAIN listed \cup {l},
           \A k \in DOMAIN listed \ {l} : listed'[k] = listed[k]
    PROVE  DocInv'
<1>1. DOMAIN listed' \subseteq Goods
  BY DEF DocInv
<1>2. CASE ListingState(l)' # "active"
  <2>1. Removed({l})
    BY <1>2 DEF Reindex
  <2>2. \A k \in DOMAIN listed' \ {l} : k \in DOMAIN listed /\ listed'[k] = listed[k]
    OBVIOUS
  <2> QED
    BY <1>1, <1>2, <2>1, <2>2, RemovedKeepsDocs
<1>3. CASE ListingState(l)' = "active"
  <2>1. \/ docs' = docs \cup {l} /\ stale' = stale \ {l}
        \/ docs' = docs /\ stale' = stale \cup {l}
    BY <1>3 DEF Reindex, Written
  <2>2. ASSUME NEW k \in DOMAIN listed' \ stale', ListingState(k)' = "active"
        PROVE  k \in docs'
    <3>1. CASE k = l
      BY <2>1, <2>2, <3>1
    <3>2. CASE k # l
      <4>1. k \in DOMAIN listed \ stale /\ ListingState(k) = "active"
        BY <2>1, <2>2, <3>2, SameListing
      <4> QED
        BY <2>1, <4>1 DEF DocInv
    <3> QED
      BY <3>1, <3>2
  <2> QED
    BY <1>1, <2>2 DEF DocInv
<1> QED
  BY <1>2, <1>3

LEMMA DocStep ==
    ASSUME DocInv, BrowseInv', [BrowseNext]_browseVars
    PROVE  DocInv'
<1>1. CASE \E l \in Goods, p \in AskedPrices, u \in Expiries, n \in Units :
             Publish(l, p, u, n) \/ Edit(l, p, u, n)
  <2>1. PICK l \in Goods, p \in AskedPrices, u \in Expiries, n \in Units :
            Publish(l, p, u, n) \/ Edit(l, p, u, n)
    BY <1>1
  <2>2. /\ Reindex(l) /\ moment' = moment
        /\ DOMAIN listed' \subseteq DOMAIN listed \cup {l}
        /\ \A k \in DOMAIN listed \ {l} : listed'[k] = listed[k]
    BY <2>1 DEF Publish, Edit, With
  <2> QED
    BY <2>2, ReindexKeepsDocs
<1>2. CASE \E l \in Goods : CloseListing(l) \/ SaleAttested(l)
  <2>1. PICK l \in Goods : CloseListing(l) \/ SaleAttested(l)
    BY <1>2
  <2>2. /\ Reindex(l) /\ moment' = moment
        /\ DOMAIN listed' \subseteq DOMAIN listed \cup {l}
        /\ \A k \in DOMAIN listed \ {l} : listed'[k] = listed[k]
    BY <2>1 DEF CloseListing, SaleAttested
  <2> QED
    BY <2>2, ReindexKeepsDocs
<1>3. CASE ExpireListings
  <2> DEFINE gone == {l \in DOMAIN listed : ListingState(l) = "expired"}
  <2>1. moment' = moment /\ Removed(gone) /\ DOMAIN listed' = DOMAIN listed
    BY <1>3 DEF ExpireListings
  <2>2. PICK appended \in SUBSET gone :
           listed' = [l \in DOMAIN listed |->
                        [listed[l] EXCEPT !.closed = @ \/ l \in appended]]
    BY <1>3 DEF ExpireListings
  <2>3. \A l \in DOMAIN listed : listed[l] \in ListingType /\ listed'[l] \in ListingType
    BY <2>1 DEF DocInv, BrowseInv
  <2>4. ASSUME NEW k \in DOMAIN listed' \ gone PROVE k \in DOMAIN listed /\ listed'[k] = listed[k]
    <3>1. k \in DOMAIN listed /\ listed[k] \in ListingType /\ k \notin appended
      BY <2>1, <2>3
    <3>2. listed'[k] = [listed[k] EXCEPT !.closed = @ \/ k \in appended]
      BY <2>2, <3>1
    <3>3. PICK f \in BOOLEAN : f = listed[k].closed
      BY <3>1 DEF ListingType
    <3>4. listed'[k] = [listed[k] EXCEPT !.closed = f]
      BY <3>1, <3>2, <3>3
    <3> QED
      BY <3>1, <3>3, <3>4 DEF ListingType
  <2>5. ASSUME NEW k \in gone PROVE ListingState(k)' # "active"
    <3>1. k \in DOMAIN listed /\ ListingState(k) = "expired" /\ listed[k] \in ListingType
      BY <2>3
    <3>2. moment > listed[k].until
      BY <3>1 DEF ListingState
    <3>3. listed'[k].until = listed[k].until
      BY <2>2, <3>1 DEF ListingType
    <3> QED
      BY <2>1, <3>2, <3>3 DEF ListingState
  <2>6. DOMAIN listed' \subseteq Goods
    BY <2>1 DEF DocInv
  <2> HIDE DEF gone
  <2> QED
    BY <2>1, <2>4, <2>5, <2>6, RemovedKeepsDocs
<1>4. CASE Restart
  BY <1>4 DEF Restart, RebuiltDocs, DocInv
<1>5. CASE RestartHalfway
  BY <1>5 DEF RestartHalfway, DocInv
<1>6. CASE Moment
  <2>1. moment' = moment + 1 /\ UNCHANGED <<listed, docs, stale>>
    BY <1>6 DEF Moment
  <2>2. \A k \in DOMAIN listed : ListingState(k)' = "active" => ListingState(k) = "active"
    BY <2>1, LaterListing DEF DocInv
  <2> QED
    BY <2>1, <2>2 DEF DocInv
<1>7. CASE UNCHANGED browseVars
  <2>1. UNCHANGED <<listed, docs, stale, moment>>
    BY <1>7 DEF browseVars
  <2>2. \A k \in DOMAIN listed : ListingState(k)' = ListingState(k)
    BY <2>1, SameListing
  <2> QED
    BY <2>1, <2>2 DEF DocInv
<1> QED
  BY <1>1, <1>2, <1>3, <1>4, <1>5, <1>6, <1>7 DEF BrowseNext

LEMMA DocInvariant == BrowseSpec => []DocInv
<1>1. BrowseInit => DocInv
  BY DEF BrowseInit, BrowseInv, DocInv
<1>2. DocInv /\ BrowseInv' /\ [BrowseNext]_browseVars => DocInv'
  BY DocStep
<1> QED
  BY <1>1, <1>2, BrowseInvTheorem, PTL DEF BrowseSpec

\* With nothing hidden above it, a candidate of the index is within the cut.
LEMMA WithinCut ==
    ASSUME DocInv, NEW limit, NEW l \in Candidates(table, limit), l \in docs, l \in DOMAIN Relevance,
           {k \in docs \cap DOMAIN Relevance : Relevance[k] > Relevance[l]}
               \subseteq Candidates(table, limit)
    PROVE  l \in TextHits(table, docs, limit)
<1> DEFINE C == Candidates(table, limit)
           better == {k \in docs \cap DOMAIN Relevance : Relevance[k] > Relevance[l]}
<1>1. C \subseteq Goods
  BY DEF Candidates, DocInv, BrowseInv
<1>2. IsFiniteSet(C)
  BY <1>1, RelevanceAssumption, FS_Subset
<1>3. better \subseteq C \ {l}
  BY RelevanceAssumption
<1>4. IsFiniteSet(C \ {l}) /\ Cardinality(C \ {l}) = Cardinality(C) - 1
  BY <1>2, FS_RemoveElement
<1>5. Cardinality(C) \in Nat
  BY <1>2, FS_CardinalityType
<1>6. IsFiniteSet(better) /\ Cardinality(better) <= Cardinality(C \ {l})
  BY <1>3, <1>4, FS_Subset
<1>7. Cardinality(better) \in Nat
  BY <1>6, FS_CardinalityType
<1>8. Cardinality(better) < Cardinality(C)
  BY <1>4, <1>5, <1>6, <1>7
<1> QED
  BY <1>8 DEF TextHits, Best

\* Of every listing whose last index write went through, a search returns
\* exactly those on offer, as they now read, and a text that matches one finds
\* it unless hidden listings rank above it (active_matching, relevance,
\* reindex_listing, rebuild).
THEOREM BrowseTheorem == BrowseSpec => []BrowseIsTheLog
<1>1. DocInv => BrowseIsTheLog
  <2> SUFFICES ASSUME DocInv, NEW limit \in AskedPrices, NEW l \in DOMAIN listed \ stale
               PROVE  LET wanted == l \in OnOffer /\ listed[l].price <= limit
                          better == {k \in docs \cap DOMAIN Relevance :
                                        Relevance[k] > Relevance[l]}
                      IN  /\ l \in Candidates(table, limit) <=> wanted
                          /\ wanted => table[l] = RowOf(l)
                          /\ wanted /\ l \in DOMAIN Relevance
                               /\ better \subseteq Candidates(table, limit)
                             => l \in TextHits(table, docs, limit)
    BY DEF BrowseIsTheLog
  <2>1. UpToDate(l)
    BY DEF DocInv, BrowseInv
  <2>2. /\ listed[l].until \in Nat /\ moment \in Nat
        /\ RowOf(l).until = listed[l].until /\ RowOf(l).price = listed[l].price
        /\ RowOf(l).status = "active" <=> ListingState(l) # "closed"
    BY AmountsAssumption DEF DocInv, BrowseInv, ListingType, RowOf
  <2>3. ListingState(l) = "active" <=>
           ListingState(l) # "closed" /\ listed[l].until >= moment
    BY <2>2 DEF ListingState
  <2>4. l \in Candidates(table, limit) <=> l \in OnOffer /\ listed[l].price <= limit
    BY <2>1, <2>2, <2>3 DEF UpToDate, Candidates, OnOffer
  <2>5. l \in Candidates(table, limit) => table[l] = RowOf(l)
    BY <2>1 DEF UpToDate, Candidates
  <2>6. l \in OnOffer => l \in docs
    BY DEF DocInv, OnOffer
  <2> QED
    BY <2>4, <2>5, <2>6, WithinCut
<1> QED
  BY <1>1, DocInvariant, PTL

-----------------------------------------------------------------------------
(* AtRest.                                                                 *)

BeforeFlip == {"provision", "snapshot", "wallet", "package", "descriptor", "verify", "flip"}
AfterFlip  == {"erase_wallet", "erase_db", "print"}
Refreshing == {"re_package", "re_descriptor", "re_config"}

CommandSteps  == BeforeFlip \cup AfterFlip \cup Refreshing
ContainerType == [key : Nat, log : Nat, wallet : BOOLEAN, package : Nat]
SplitType     == [key : Nat, k : Nat \ {0, 1}, to : HolderSets]
RunningType   == [at : CommandSteps, to : HolderSets, k : Nat \ {0, 1}]

AtRestTypeOK ==
    /\ profile \in {"plaintext", "encrypted", "torn"}  /\ daemon \in {"down", "plain", "volume"}
    /\ recorded \in Nat /\ plainLog \in Nat /\ admitted \in Nat /\ late \in Nat /\ keys \in Nat
    /\ originals \subseteq StationFiles
    /\ container \in ContainerType
    /\ mounted \in BOOLEAN /\ armed \in BOOLEAN
    /\ splits \in Seq(SplitType)
    /\ command \in RunningType \cup {Idle}

\* Until config.toml says encrypted the originals are the ledger, whole.
PlainPhase ==
    recorded = 0 =>
        /\ profile # "encrypted"  /\ daemon # "volume"
        /\ originals = StationFiles  /\ plainLog = admitted
        /\ command.at \notin AfterFlip \cup Refreshing
        /\ screen = 0 /\ shards = {} /\ armed = FALSE

\* From then on the container is, but for the entries that came too late, and
\* the descriptor names its key.
VolumePhase ==
    recorded # 0 =>
        /\ profile # "plaintext"  /\ command.at \notin BeforeFlip
        /\ container.log + late >= admitted
        /\ descriptor = container.key
        /\ daemon # "down" => mounted

\* What a command has done by the step it is at.
CommandProgress ==
    /\ command.at \notin {"none", "provision"} => mounted
    /\ command.at \in {"descriptor", "re_descriptor"} =>
          /\ container.package \in 1 .. Len(splits)
          /\ splits[container.package].key = container.key
    /\ command.at \in {"verify", "flip"} => descriptor = container.key
    /\ command.at = "flip" => container.log + late >= admitted
    /\ command.at = "erase_db" => "wallet" \notin originals

\* Shards leave the process, and a refresh starts, after the originals are gone.
ShardsComeLast ==
    \/ screen # 0 \/ shards # {} \/ command.at \in Refreshing \cup {"print"}
    \/ profile = "torn" /\ recorded # 0
    => originals = {}

ArmedHasQuorum == armed => QuorumFor(container.key)

AtRestInv ==
    /\ AtRestTypeOK /\ PlainPhase /\ VolumePhase /\ CommandProgress
    /\ ShardsComeLast /\ ArmedHasQuorum

LEMMA NextStepIs ==
    /\ NextStep["provision"] = "snapshot" /\ NextStep["snapshot"] = "wallet"
    /\ NextStep["wallet"] = "package" /\ NextStep["package"] = "descriptor"
    /\ NextStep["descriptor"] = "verify" /\ NextStep["verify"] = "flip"
    /\ NextStep["flip"] = "erase_wallet" /\ NextStep["erase_wallet"] = "erase_db"
    /\ NextStep["erase_db"] = "print" /\ NextStep["re_package"] = "re_descriptor"
    /\ NextStep["re_descriptor"] = "re_config" /\ NextStep["re_config"] = "print"
BY DEF NextStep

LEMMA AdvanceIs ==
    ASSUME AtRestTypeOK, Advance, command.at \in CommandSteps \ {"print"}
    PROVE  /\ command \in RunningType /\ command' \in RunningType
           /\ command'.at = NextStep[command.at]
           /\ command'.k = command.k /\ command'.to = command.to
<1>1. command \in RunningType
  BY DEF AtRestTypeOK, Idle, CommandSteps, BeforeFlip, AfterFlip, Refreshing
<1>2. NextStep[command.at] \in CommandSteps
  BY NextStepIs DEF CommandSteps, BeforeFlip, AfterFlip, Refreshing
<1> QED
  BY <1>1, <1>2 DEF Advance, RunningType

\* A key that a quorum can rebuild stays so as shards and splits are added.
QuorumKept ==
    \A key \in Nat :
        /\ shards \subseteq shards'
        /\ Len(splits) <= Len(splits')
        /\ \A s \in 1 .. Len(splits) : splits'[s] = splits[s]
        /\ QuorumFor(key)
        => QuorumFor(key)'

LEMMA QuorumGrows == Len(splits) \in Nat /\ Len(splits)' \in Nat => QuorumKept
<1> SUFFICES ASSUME Len(splits) \in Nat, Len(splits)' \in Nat, NEW key \in Nat,
                    shards \subseteq shards',
                    Len(splits) <= Len(splits'),
                    \A s \in 1 .. Len(splits) : splits'[s] = splits[s],
                    QuorumFor(key)
             PROVE  QuorumFor(key)'
  BY DEF QuorumKept
<1>1. PICK R \in SUBSET shards : Reconstructs(R, key)
  BY DEF QuorumFor
<1>2. PICK s \in 1 .. Len(splits) :
          /\ splits[s].key = key
          /\ \A shard \in R : shard[1] = s
          /\ Cardinality(R) >= splits[s].k
  BY <1>1 DEF Reconstructs
<1>3. s \in 1 .. Len(splits') /\ splits'[s] = splits[s]
  OBVIOUS
<1>4. \E t \in 1 .. Len(splits') :
          /\ splits'[t].key = key
          /\ \A shard \in R : shard[1] = t
          /\ Cardinality(R) >= splits'[t].k
  BY <1>2, <1>3
<1>5. R \in SUBSET shards'
  OBVIOUS
<1> QED
  BY <1>4, <1>5 DEF QuorumFor, Reconstructs

\* Nobody rebuilds a key from no shard at all.
LEMMA QuorumIsOfShards ==
    ASSUME AtRestTypeOK, NEW key, QuorumFor(key)
    PROVE  shards # {}
<1>1. PICK R \in SUBSET shards : Reconstructs(R, key)
  BY DEF QuorumFor
<1>2. PICK s \in 1 .. Len(splits) : Cardinality(R) >= splits[s].k
  BY <1>1 DEF Reconstructs
<1>3. splits[s] \in SplitType
  BY DEF AtRestTypeOK
<1>5. splits[s].k \in Nat \ {0, 1}
  BY <1>3 DEF SplitType
<1>4. Cardinality({}) = 0
  BY FS_EmptySet
<1>6. R # {}
  BY SMTT(30), <1>2, <1>4, <1>5
<1> QED
  BY <1>6

LEMMA AtRestInitInv == AtRestInit => AtRestInv
<1> SUFFICES ASSUME AtRestInit PROVE AtRestInv
  OBVIOUS
<1>1. AtRestTypeOK
  <2>1. NoContainer \in ContainerType
    BY DEF ContainerType, NoContainer
  <2>2. <<>> \in Seq(SplitType)
    OBVIOUS
  <2> QED
    BY <2>1, <2>2 DEF AtRestInit, AtRestTypeOK
<1> QED
  BY <1>1 DEF AtRestInit, AtRestInv, PlainPhase, VolumePhase, CommandProgress, ShardsComeLast,
              ArmedHasQuorum, Idle, AfterFlip, Refreshing, BeforeFlip

\* What the steps of a command that only write in the container have in common.
LEMMA SameShards ==
    ASSUME AtRestInv, shards' = shards, splits' = splits, armed' = armed,
           container'.key = container.key
    PROVE  ArmedHasQuorum'
<1>1. QuorumFor(container.key) => QuorumFor(container.key)'
  BY DEF QuorumFor, Reconstructs
<1> QED
  BY <1>1 DEF AtRestInv, ArmedHasQuorum, QuorumFor, Reconstructs

\* The checks of encrypt_in_place and of finish_refresh.
LEMMA StartsKeepInv ==
    ASSUME AtRestInv, NEW to \in HolderSets, NEW k \in Thresholds,
           EncryptInPlace(to, k) \/ Refresh(to, k)
    PROVE  AtRestInv'
<1> USE AtRestAssumption
<1>1. UNCHANGED <<filesVars, shardVars, ledgerVars, keys, stops, cuts>>
  BY DEF EncryptInPlace, Refresh
<1>2. UNCHANGED <<profile, recorded, originals, plainLog, container, mounted, descriptor,
                  splits, shards, screen, armed, daemon, admitted, late, keys>>
  BY <1>1 DEF filesVars, configVars, shardVars, ledgerVars
<1>3. k \in Nat \ {0, 1}
  <2>1. to \subseteq Holders
    OBVIOUS
  <2>2. IsFiniteSet(to)
    BY <2>1, FS_Subset
  <2>3. Cardinality(to) \in Nat
    BY <2>2, FS_CardinalityType
  <2>4. k \in 2 .. Cardinality(to)
    BY DEF EncryptInPlace, Refresh, ValidHolders
  <2> QED
    BY <2>3, <2>4
<1>4. command = Idle
  BY DEF EncryptInPlace, Refresh
<1>5. \/ command' = [at |-> "provision", to |-> to, k |-> k] /\ profile = "plaintext"
      \/ /\ command' = [at |-> "re_package", to |-> to, k |-> k] /\ profile = "encrypted"
         /\ mounted /\ QuorumFor(descriptor)
  BY DEF EncryptInPlace, Refresh
<1>6. command' \in RunningType
  BY <1>3, <1>5 DEF RunningType, CommandSteps, BeforeFlip, Refreshing
<1>7. AtRestTypeOK'
  BY <1>2, <1>6 DEF AtRestInv, AtRestTypeOK
<1>8. ArmedHasQuorum'
  BY <1>2, SameShards
<1>9. CASE command'.at = "provision" /\ profile = "plaintext"
  BY <1>2, <1>4, <1>7, <1>8, <1>9 DEF AtRestInv, PlainPhase, VolumePhase, CommandProgress,
     ShardsComeLast, Idle, AfterFlip, Refreshing, BeforeFlip
<1>10. CASE command'.at = "re_package" /\ profile = "encrypted" /\ mounted /\ QuorumFor(descriptor)
  <2>1. shards # {}
    BY <1>10, QuorumIsOfShards DEF AtRestInv
  <2>2. originals = {}
    BY <2>1 DEF AtRestInv, ShardsComeLast
  <2> QED
    BY <1>2, <1>4, <1>7, <1>8, <1>10, <2>2 DEF AtRestInv, PlainPhase, VolumePhase, CommandProgress,
       ShardsComeLast, Idle, AfterFlip, Refreshing, BeforeFlip
<1> QED
  BY <1>5, <1>9, <1>10

\* The steps of encrypt_in_place and finish_refresh, up to the shards' printing.
LEMMA CommandStepsKeepInv ==
    ASSUME AtRestInv,
           \/ Provision \/ Snapshot \/ CopyWallet \/ SavePackage \/ SaveDescriptor \/ Verify
           \/ WriteConfig \/ SecureErase
    PROVE  AtRestInv'
<1> USE DEF CommandSteps, BeforeFlip, AfterFlip, Refreshing
<1>0. command.at \in CommandSteps \ {"print"} /\ Advance
  BY DEF Provision, Snapshot, CopyWallet, WriteInside, SavePackage, SaveDescriptor, Verify,
         WriteConfig, SecureErase, At
<1>1. /\ command \in RunningType /\ command' \in RunningType
      /\ command'.at = NextStep[command.at]
      /\ command'.k = command.k /\ command'.to = command.to
  BY <1>0, AdvanceIs DEF AtRestInv
<1>2. command.k \in Nat \ {0, 1} /\ command.to \in HolderSets
  BY <1>1 DEF RunningType
<1>3. UNCHANGED <<plainLog, shards, screen, armed, daemon, admitted, late>>
  BY DEF Provision, Snapshot, CopyWallet, WriteInside, SavePackage, SaveDescriptor, Verify,
         WriteConfig, SecureErase, filesVars, configVars, shardVars, ledgerVars
<1>4. CASE Provision
  <2>1. /\ command.at = "provision" /\ command'.at = "snapshot" /\ keys' = keys + 1 /\ mounted' = TRUE
        /\ container' = [NoContainer EXCEPT !.key = keys + 1]
        /\ UNCHANGED <<profile, recorded, originals, descriptor, splits>>
    BY <1>1, <1>4, NextStepIs DEF Provision, At, configVars, shardVars
  <2>2. container' \in ContainerType
    <3>1. container' = [key |-> keys + 1, log |-> 0, wallet |-> FALSE, package |-> 0]
      BY <2>1 DEF NoContainer
    <3>2. keys + 1 \in Nat
      BY DEF AtRestInv, AtRestTypeOK
    <3> QED
      BY <3>1, <3>2 DEF ContainerType
  <2>3. recorded = 0
    BY <2>1 DEF AtRestInv, VolumePhase
  <2>4. AtRestTypeOK'
    BY <1>1, <1>3, <2>1, <2>2 DEF AtRestInv, AtRestTypeOK
  <2> QED
    BY <1>3, <2>1, <2>3, <2>4 DEF AtRestInv, PlainPhase, VolumePhase, CommandProgress,
       ShardsComeLast, ArmedHasQuorum
<1>5. CASE Snapshot \/ CopyWallet
  <2>1. /\ \/ command.at = "snapshot" /\ command'.at = "wallet"
           \/ command.at = "wallet" /\ command'.at = "package"
        /\ UNCHANGED <<profile, recorded, originals, mounted, descriptor, splits, keys>>
    BY <1>1, <1>5, NextStepIs DEF Snapshot, CopyWallet, WriteInside, At, configVars, shardVars
  <2>2. container' \in ContainerType /\ container'.key = container.key
    <3>1. \/ container' = [container EXCEPT !.log = plainLog]
          \/ container' = [container EXCEPT !.wallet = TRUE]
      BY <1>5 DEF Snapshot, CopyWallet, WriteInside
    <3> QED
      BY <3>1 DEF AtRestInv, AtRestTypeOK, ContainerType
  <2>3. recorded = 0
    BY <2>1 DEF AtRestInv, VolumePhase
  <2>4. AtRestTypeOK'
    BY <1>1, <1>3, <2>1, <2>2 DEF AtRestInv, AtRestTypeOK
  <2> QED
    BY <1>3, <2>1, <2>3, <2>4 DEF AtRestInv, PlainPhase, VolumePhase, CommandProgress,
       ShardsComeLast, ArmedHasQuorum
<1>6. CASE SavePackage
  <2>1. /\ \/ command.at = "package" /\ command'.at = "descriptor"
           \/ command.at = "re_package" /\ command'.at = "re_descriptor"
        /\ splits' = Append(splits, Split)
        /\ container' = [container EXCEPT !.package = Len(splits) + 1]
        /\ UNCHANGED <<profile, recorded, originals, mounted, descriptor, keys>>
    BY <1>1, <1>6, NextStepIs DEF SavePackage, At, configVars
  <2>2. Split \in SplitType /\ Split.key = container.key
    BY <1>2 DEF AtRestInv, AtRestTypeOK, ContainerType, Split, SplitType
  <2>3. splits \in Seq(SplitType) /\ Len(splits) \in Nat
    BY DEF AtRestInv, AtRestTypeOK
  <2>4. /\ splits' \in Seq(SplitType) /\ Len(splits') = Len(splits) + 1
        /\ splits'[Len(splits) + 1] = Split
        /\ \A s \in 1 .. Len(splits) : splits'[s] = splits[s]
    BY <2>1, <2>2, <2>3
  <2>5. /\ container' \in ContainerType /\ container'.key = container.key
        /\ container'.log = container.log /\ container'.package = Len(splits) + 1
    BY <2>1, <2>3 DEF AtRestInv, AtRestTypeOK, ContainerType
  <2>6. container.key \in Nat
    BY DEF AtRestInv, AtRestTypeOK, ContainerType
  <2>7. QuorumKept
    BY <2>3, <2>4, QuorumGrows
  <2>8. QuorumFor(container.key) => QuorumFor(container.key)'
    <3>1. PICK key \in Nat : key = container.key
      BY <2>6
    <3>2. QuorumFor(key) => QuorumFor(key)'
      BY <1>3, <2>3, <2>4, <2>7 DEF QuorumKept
    <3>3. key = container'.key
      BY <2>5, <3>1
    <3> QED
      BY <3>1, <3>2, <3>3 DEF QuorumFor, Reconstructs
  <2>9. ArmedHasQuorum'
    BY <1>3, <2>8 DEF AtRestInv, ArmedHasQuorum
  <2>10. AtRestTypeOK'
    BY <1>1, <1>3, <2>1, <2>4, <2>5 DEF AtRestInv, AtRestTypeOK
  <2>11. container'.package \in 1 .. Len(splits') /\ splits'[container'.package].key = container'.key
    BY <2>2, <2>3, <2>4, <2>5
  <2> QED
    BY <1>3, <2>1, <2>5, <2>9, <2>10, <2>11 DEF AtRestInv, PlainPhase, VolumePhase, CommandProgress,
       ShardsComeLast
<1>7. CASE SaveDescriptor
  <2>1. /\ \/ command.at = "descriptor" /\ command'.at = "verify"
           \/ command.at = "re_descriptor" /\ command'.at = "re_config"
        /\ descriptor' = splits[container.package].key
        /\ UNCHANGED <<profile, recorded, originals, mounted, container, splits, keys>>
    BY <1>1, <1>7, NextStepIs DEF SaveDescriptor, At, configVars, shardVars
  <2>2. descriptor' = container.key
    BY <2>1 DEF AtRestInv, CommandProgress
  <2>3. AtRestTypeOK'
    BY <1>1, <1>3, <2>1 DEF AtRestInv, AtRestTypeOK
  <2>4. ArmedHasQuorum'
    BY <1>3, <2>1, SameShards
  <2> QED
    BY <1>3, <2>1, <2>2, <2>3, <2>4 DEF AtRestInv, PlainPhase, VolumePhase, CommandProgress,
       ShardsComeLast
<1>8. CASE Verify
  <2>1. /\ command.at = "verify" /\ command'.at = "flip" /\ container.log = plainLog
        /\ UNCHANGED <<profile, recorded, originals, mounted, descriptor, container, splits, keys>>
    BY <1>1, <1>8, NextStepIs DEF Verify, CopyVerified, At, filesVars, configVars, shardVars
  <2>2. AtRestTypeOK'
    BY <1>1, <1>3, <2>1 DEF AtRestInv, AtRestTypeOK
  <2>3. ArmedHasQuorum'
    BY <1>3, <2>1, SameShards
  <2>4. recorded = 0
    BY <2>1 DEF AtRestInv, VolumePhase
  <2>5. container.log + late >= admitted
    BY <2>1, <2>4 DEF AtRestInv, AtRestTypeOK, PlainPhase
  <2> QED
    BY <1>3, <2>1, <2>2, <2>3, <2>4, <2>5 DEF AtRestInv, PlainPhase, VolumePhase, CommandProgress,
       ShardsComeLast
<1>9. CASE WriteConfig
  <2>1. /\ \/ command.at = "flip" /\ command'.at = "erase_wallet" /\ profile' = "encrypted"
           \/ /\ command.at = "re_config" /\ command'.at = "print"
              /\ profile' \in {profile, "encrypted"}
        /\ recorded' = command.k
        /\ UNCHANGED <<originals, mounted, descriptor, container, splits, keys>>
    BY <1>1, <1>9, NextStepIs DEF WriteConfig, Saves, At, shardVars
  <2>2. AtRestTypeOK'
    BY <1>1, <1>2, <1>3, <2>1 DEF AtRestInv, AtRestTypeOK
  <2>3. ArmedHasQuorum'
    BY <1>3, <2>1, SameShards
  <2>4. recorded' # 0
    BY <1>2, <2>1
  <2> QED
    BY <1>3, <2>1, <2>2, <2>3, <2>4 DEF AtRestInv, PlainPhase, VolumePhase, CommandProgress,
       ShardsComeLast
<1>10. CASE SecureErase
  <2>1. /\ \/ /\ command.at = "erase_wallet" /\ command'.at = "erase_db"
              /\ originals' = originals \ {"wallet"}
           \/ /\ command.at = "erase_db" /\ command'.at = "print"
              /\ originals' = originals \ {"db"}
        /\ UNCHANGED <<profile, recorded, mounted, descriptor, container, splits, keys>>
    BY <1>1, <1>10, NextStepIs DEF SecureErase, At, configVars, shardVars
  <2>2. AtRestTypeOK'
    BY <1>1, <1>3, <2>1 DEF AtRestInv, AtRestTypeOK
  <2>3. ArmedHasQuorum'
    BY <1>3, <2>1, SameShards
  <2>4. recorded # 0
    BY <2>1 DEF AtRestInv, PlainPhase
  <2>5. command.at = "erase_db" => originals' = {}
    BY <2>1 DEF AtRestInv, AtRestTypeOK, StationFiles, CommandProgress
  <2> QED
    BY <1>3, <2>1, <2>2, <2>3, <2>4, <2>5 DEF AtRestInv, PlainPhase, VolumePhase, CommandProgress,
       ShardsComeLast
<1> QED
  BY <1>4, <1>5, <1>6, <1>7, <1>8, <1>9, <1>10

\* The shards leave the process, and a holder stores one.
LEMMA ShardStepsKeepInv ==
    ASSUME AtRestInv, PrintShards \/ \E h \in Holders : StoreShard(h)
    PROVE  AtRestInv'
<1>1. CASE PrintShards
  <2>1. /\ command.at = "print" /\ command' = Idle
        /\ UNCHANGED <<profile, recorded, originals, plainLog, container, mounted, descriptor,
                       splits, shards, armed, daemon, admitted, late, keys>>
    BY <1>1 DEF PrintShards, At, filesVars, configVars, ledgerVars
  <2>2. AtRestTypeOK'
    BY <2>1 DEF AtRestInv, AtRestTypeOK
  <2>3. ArmedHasQuorum'
    BY <2>1, SameShards
  <2> QED
    BY <2>1, <2>2, <2>3 DEF AtRestInv, PlainPhase, VolumePhase, CommandProgress,
       ShardsComeLast, Idle, AfterFlip, Refreshing, BeforeFlip
<1>2. ASSUME NEW h \in Holders, StoreShard(h) PROVE AtRestInv'
  <2>1. /\ screen # 0 /\ shards \subseteq shards'
        /\ armed' = (armed \/ \E R \in SUBSET shards' : Reconstructs(R, container.key))
        /\ UNCHANGED <<profile, recorded, originals, plainLog, container, mounted, descriptor,
                       splits, screen, daemon, admitted, late, command, keys>>
    BY <1>2 DEF StoreShard, filesVars, configVars, ledgerVars
  <2>2. AtRestTypeOK'
    BY <2>1 DEF AtRestInv, AtRestTypeOK
  <2>3. ArmedHasQuorum'
    <3>1. QuorumFor(container.key)' <=> \E R \in SUBSET shards' : Reconstructs(R, container.key)
      BY <2>1 DEF QuorumFor, Reconstructs
    <3>2. QuorumFor(container.key) => \E R \in SUBSET shards' : Reconstructs(R, container.key)
      BY <2>1 DEF QuorumFor
    <3> QED
      BY <2>1, <3>1, <3>2 DEF AtRestInv, ArmedHasQuorum
  <2> QED
    BY <2>1, <2>2, <2>3 DEF AtRestInv, PlainPhase, VolumePhase, CommandProgress, ShardsComeLast
<1> QED
  BY <1>1, <1>2

\* A step that fails, a command that dies, a power cut.
LEMMA StopsKeepInv ==
    ASSUME AtRestInv, MigrationFails \/ CommandDies \/ PowerCut
    PROVE  AtRestInv'
<1> USE DEF BeforeFlip, AfterFlip, Refreshing
<1>1. /\ command' = Idle
      /\ profile' \in {profile} \cup (IF Saves THEN {"torn"} ELSE {})
      /\ UNCHANGED <<recorded, originals, plainLog, splits, shards, armed, admitted, late>>
  BY DEF MigrationFails, CommandDies, PowerCut, TornConfig, shardVars, ledgerVars
<1>2. screen' \in {screen, 0} /\ daemon' \in {daemon, "down"} /\ Idle.at = "none"
  BY DEF MigrationFails, CommandDies, PowerCut, shardVars, ledgerVars, Idle
<1>3. profile' \in {profile, "torn"} /\ (recorded # 0 /\ profile' # profile => originals = {})
  BY <1>1 DEF Saves, At, AtRestInv, VolumePhase, ShardsComeLast
<1>4. CASE MigrationFails
  <2>1. /\ command.at \in BeforeFlip \ {"provision"}
        /\ mounted' \in BOOLEAN /\ container' \in {container, NoContainer}
        /\ UNCHANGED keys
    BY <1>4 DEF MigrationFails, Guarded
  <2>2. recorded = 0 /\ armed = FALSE
    BY <2>1 DEF AtRestInv, VolumePhase, PlainPhase
  <2>3. NoContainer \in ContainerType
    BY DEF NoContainer, ContainerType
  <2>4. AtRestTypeOK'
    BY <1>1, <1>2, <1>3, <2>1, <2>3 DEF AtRestInv, AtRestTypeOK
  <2> QED
    BY <1>1, <1>2, <1>3, <2>2, <2>4 DEF AtRestInv, PlainPhase, VolumePhase, CommandProgress,
       ShardsComeLast, ArmedHasQuorum
<1>5. CASE CommandDies \/ PowerCut
  <2>1. /\ container' \in TornPackage(container) \cup HalfProvisioned(container)
        /\ keys' \in {keys, keys + 1}
        /\ UNCHANGED descriptor
        /\ daemon' = "down" \/ (daemon' = daemon /\ mounted' \in {mounted, TRUE})
        /\ mounted' \in {mounted, TRUE, FALSE}
    BY <1>5 DEF CommandDies, PowerCut, ledgerVars
  <2>2. /\ container' \in ContainerType
        /\ command.at # "provision" => container'.key = container.key /\ container'.log = container.log
    <3>1. \/ container' = container
          \/ container' = [container EXCEPT !.package = 0]
          \/ command.at = "provision" /\ container' = [NoContainer EXCEPT !.key = keys + 1]
      BY <2>1 DEF TornPackage, HalfProvisioned, At
    <3>2. CASE container' = container \/ container' = [container EXCEPT !.package = 0]
      BY <3>2 DEF AtRestInv, AtRestTypeOK, ContainerType
    <3>3. CASE command.at = "provision" /\ container' = [NoContainer EXCEPT !.key = keys + 1]
      <4>1. container' = [key |-> keys + 1, log |-> 0, wallet |-> FALSE, package |-> 0]
        BY <3>3 DEF NoContainer
      <4>2. keys + 1 \in Nat
        BY DEF AtRestInv, AtRestTypeOK
      <4>3. container' \in ContainerType
        BY <4>1, <4>2 DEF ContainerType
      <4> QED
        BY <3>3, <4>3
    <3> QED
      BY <3>1, <3>2, <3>3
  <2>3. keys' \in Nat /\ mounted' \in BOOLEAN
    <3>1. keys' \in Nat
      BY <2>1 DEF AtRestInv, AtRestTypeOK
    <3>2. mounted \in BOOLEAN
      BY DEF AtRestInv, AtRestTypeOK
    <3> QED
      BY <2>1, <3>1, <3>2
  <2>4. AtRestTypeOK'
    BY <1>1, <1>2, <1>3, <2>2, <2>3 DEF AtRestInv, AtRestTypeOK
  <2>5. command.at = "provision" => recorded = 0
    BY DEF AtRestInv, VolumePhase
  <2>6. ArmedHasQuorum'
    <3>1. CASE armed
      <4>1. container'.key = container.key
        BY <2>2, <2>5, <3>1 DEF AtRestInv, PlainPhase
      <4> QED
        BY <1>1, <4>1, SameShards
    <3>2. CASE ~armed
      BY <1>1, <3>2 DEF ArmedHasQuorum
    <3> QED
      BY <3>1, <3>2
  <2>7. PlainPhase' /\ CommandProgress' /\ ShardsComeLast'
    BY <1>1, <1>2, <1>3 DEF AtRestInv, PlainPhase, CommandProgress, ShardsComeLast
  <2>8. ASSUME recorded # 0, daemon' # "down" PROVE mounted'
    <3>1. mounted /\ mounted \in BOOLEAN
      BY <2>1, <2>8 DEF AtRestInv, AtRestTypeOK, VolumePhase
    <3>2. mounted = TRUE
      BY <3>1
    <3>3. mounted' \in {mounted, TRUE}
      BY <2>1, <2>8
    <3> QED
      BY <3>2, <3>3
  <2>9. VolumePhase'
    BY <1>1, <1>2, <1>3, <2>1, <2>2, <2>5, <2>8 DEF AtRestInv, VolumePhase
  <2> QED
    BY <2>4, <2>6, <2>7, <2>9 DEF AtRestInv
<1> QED
  BY <1>4, <1>5

\* Unlocking, the daemon, and the advice its refusals give.
LEMMA StationStepsKeepInv ==
    ASSUME AtRestInv,
           \/ Unlock \/ StartDaemon \/ StopDaemon \/ Admit
           \/ ShredLeftovers \/ ClearOrphan \/ RepairConfig
    PROVE  AtRestInv'
<1> USE DEF BeforeFlip, AfterFlip, Refreshing
<1>1. UNCHANGED <<recorded, descriptor, splits, shards, screen, armed, command, keys>>
  BY DEF Unlock, StartDaemon, StopDaemon, Admit, ShredLeftovers, ClearOrphan, RepairConfig,
         filesVars, configVars, shardVars
<1>2. CASE Unlock \/ StartDaemon \/ StopDaemon \/ RepairConfig
  <2>1. /\ UNCHANGED <<originals, plainLog, container, admitted, late>>
        /\ \/ /\ profile = "encrypted" /\ mounted' = TRUE
              /\ UNCHANGED <<profile, daemon>>
           \/ /\ \/ profile = "plaintext" /\ daemon' = "plain"
                 \/ profile = "encrypted" /\ mounted /\ daemon' = "volume"
              /\ UNCHANGED <<profile, mounted>>
           \/ daemon' = "down" /\ UNCHANGED <<profile, mounted>>
           \/ /\ profile = "torn" /\ profile' = IF recorded = 0 THEN "plaintext" ELSE "encrypted"
              /\ UNCHANGED <<daemon, mounted>>
    BY <1>2 DEF Unlock, StartDaemon, StopDaemon, RepairConfig, filesVars, configVars, ledgerVars
  <2>2. AtRestTypeOK'
    BY <1>1, <2>1 DEF AtRestInv, AtRestTypeOK
  <2>3. ArmedHasQuorum'
    BY <1>1, <2>1, SameShards
  <2> QED
    BY <1>1, <2>1, <2>2, <2>3 DEF AtRestInv, PlainPhase, VolumePhase, CommandProgress,
       ShardsComeLast
<1>3. CASE Admit
  <2>1. /\ daemon # "down" /\ admitted' = admitted + 1
        /\ late' = late + (IF daemon = "plain" /\ Superseded THEN 1 ELSE 0)
        /\ plainLog' = plainLog + (IF daemon = "plain" THEN 1 ELSE 0)
        /\ container' = [container EXCEPT !.log = @ + (IF daemon = "volume" THEN 1 ELSE 0)]
        /\ UNCHANGED <<profile, originals, mounted, daemon>>
    BY <1>3 DEF Admit, configVars
  <2>2. /\ container' \in ContainerType
        /\ container'.key = container.key /\ container'.package = container.package
        /\ container'.log = container.log + (IF daemon = "volume" THEN 1 ELSE 0)
    BY SMTT(30), <2>1 DEF AtRestInv, AtRestTypeOK, ContainerType
  <2>3. AtRestTypeOK'
    BY <1>1, <2>1, <2>2 DEF AtRestInv, AtRestTypeOK
  <2>4. ArmedHasQuorum'
    BY <1>1, <2>2, SameShards
  <2>5. container.log \in Nat /\ late \in Nat /\ admitted \in Nat /\ daemon \in {"down", "plain", "volume"}
    BY DEF AtRestInv, AtRestTypeOK, ContainerType
  <2>6. recorded # 0 => Superseded
    BY DEF AtRestInv, AtRestTypeOK, VolumePhase, ShardsComeLast, Superseded
  <2>7. recorded # 0 \/ command.at = "flip" =>
            container'.log + late' >= admitted'
    <3>1. CASE recorded # 0 \/ command.at = "flip"
      <4>1. Superseded
        BY <2>6, <3>1 DEF Superseded, At
      <4>2. container.log + late >= admitted
        BY <3>1 DEF AtRestInv, VolumePhase, CommandProgress
      <4> QED
        BY <2>1, <2>2, <2>5, <4>1, <4>2
    <3> QED
      BY <3>1
  <2>8. recorded = 0 => plainLog' = admitted'
    BY <2>1, <2>5 DEF AtRestInv, AtRestTypeOK, PlainPhase
  <2> QED
    BY <1>1, <2>1, <2>2, <2>3, <2>4, <2>7, <2>8 DEF AtRestInv, PlainPhase, VolumePhase,
       CommandProgress, ShardsComeLast
<1>4. CASE ShredLeftovers
  <2>1. /\ profile = "encrypted" /\ originals' = {}
        /\ UNCHANGED <<profile, plainLog, container, mounted, daemon, admitted, late>>
    BY <1>4 DEF ShredLeftovers, configVars, ledgerVars
  <2>2. AtRestTypeOK'
    BY <1>1, <2>1 DEF AtRestInv, AtRestTypeOK
  <2>3. ArmedHasQuorum'
    BY <1>1, <2>1, SameShards
  <2> QED
    BY <1>1, <2>1, <2>2, <2>3 DEF AtRestInv, PlainPhase, VolumePhase, CommandProgress,
       ShardsComeLast
<1>5. CASE ClearOrphan
  <2>1. /\ command = Idle /\ profile = "plaintext" /\ container' = NoContainer /\ mounted' = FALSE
        /\ UNCHANGED <<profile, originals, plainLog, daemon, admitted, late>>
    BY <1>5 DEF ClearOrphan, configVars, ledgerVars
  <2>2. recorded = 0 /\ armed = FALSE
    BY <2>1 DEF AtRestInv, VolumePhase, PlainPhase
  <2>3. NoContainer \in ContainerType
    BY DEF NoContainer, ContainerType
  <2>4. AtRestTypeOK'
    BY <1>1, <2>1, <2>3 DEF AtRestInv, AtRestTypeOK
  <2> QED
    BY <1>1, <2>1, <2>2, <2>4 DEF AtRestInv, PlainPhase, VolumePhase, CommandProgress,
       ShardsComeLast, ArmedHasQuorum, Idle
<1> QED
  BY <1>2, <1>3, <1>4, <1>5

\* Every step of encrypt_in_place, unlock, refresh and the daemon's start keeps
\* the ledger's copies, the keys and the shards in one of the states AtRestInv
\* names, whatever fails or dies between the steps.
THEOREM AtRestInvTheorem == AtRestSpec => []AtRestInv
<1>1. AtRestInv /\ [AtRestNext]_atRestVars => AtRestInv'
  <2> SUFFICES ASSUME AtRestInv, [AtRestNext]_atRestVars PROVE AtRestInv'
    OBVIOUS
  <2>1. CASE UNCHANGED atRestVars
    <3>1. UNCHANGED <<profile, recorded, originals, plainLog, container, mounted, descriptor,
                      splits, shards, screen, armed, daemon, admitted, late, command, keys>>
      BY <2>1 DEF atRestVars, filesVars, configVars, shardVars, ledgerVars
    <3>2. ArmedHasQuorum'
      BY <3>1, SameShards
    <3> QED
      BY <3>1, <3>2 DEF AtRestInv, AtRestTypeOK, PlainPhase, VolumePhase, CommandProgress,
         ShardsComeLast
  <2> QED
    BY <2>1, StartsKeepInv, CommandStepsKeepInv, ShardStepsKeepInv, StopsKeepInv,
       StationStepsKeepInv DEF AtRestNext
<1> QED
  BY <1>1, AtRestInitInv, PTL DEF AtRestSpec

VolumeReadable == mounted \/ (descriptor = container.key /\ QuorumFor(container.key))

\* Some copy that can be read is long enough.
ReachIsACopy ==
    AtRestTypeOK =>
        (InReach <=> \/ "db" \in originals /\ plainLog + late >= admitted
                     \/ VolumeReadable /\ container.log + late >= admitted
                     \/ late >= admitted)

LEMMA ReachLemma == ReachIsACopy
<1> SUFFICES ASSUME AtRestTypeOK
             PROVE  InReach <=> \/ "db" \in originals /\ plainLog + late >= admitted
                                \/ VolumeReadable /\ container.log + late >= admitted
                                \/ late >= admitted
  BY DEF ReachIsACopy
<1>1. plainLog \in Nat /\ container.log \in Nat /\ late \in Nat /\ admitted \in Nat
  BY DEF AtRestTypeOK, ContainerType
<1>2. Readable \subseteq 0 .. (plainLog + container.log) /\ Readable # {}
  BY <1>1 DEF Readable
<1>3. Max(Readable) \in Readable /\ \A x \in Readable : x <= Max(Readable)
  <2>1. PICK n \in Nat : n = plainLog + container.log
    BY <1>1
  <2>2. Readable \subseteq 0 .. n
    BY <1>2, <2>1
  <2>3. 0 \in Int /\ n \in Int
    OBVIOUS
  <2> HIDE DEF Readable
  <2> QED
    BY <1>2, <2>2, <2>3, MaxOfRange
<1>4. Readable \subseteq Nat /\ Max(Readable) \in Nat
  <2>1. Readable \subseteq Nat
    BY <1>1 DEF Readable
  <2> QED
    BY <1>3, <2>1
<1>5. \A x : x \in Readable <=>
          \/ x = 0
          \/ "db" \in originals /\ x = plainLog
          \/ VolumeReadable /\ x = container.log
  BY DEF Readable, VolumeReadable
<1>6. InReach <=> \E x \in Readable : x + late >= admitted
  <2>1. ASSUME NEW x \in Readable, x + late >= admitted PROVE Max(Readable) + late >= admitted
    <3>1. x \in Nat /\ x <= Max(Readable)
      BY <1>3, <1>4
    <3> QED
      BY <1>1, <1>4, <2>1, <3>1
  <2> QED
    BY <1>3, <2>1 DEF InReach
<1> QED
  BY <1>1, <1>5, <1>6

CutsCounted == cuts \in Nat

LEMMA CutsAreCounted == AtRestSpec => []CutsCounted
<1>1. CutsCounted /\ [AtRestNext]_atRestVars => CutsCounted'
  <2> SUFFICES ASSUME cuts \in Nat, [AtRestNext]_atRestVars PROVE cuts' \in {cuts, cuts + 1}
    BY DEF CutsCounted
  <2> QED
    BY DEF AtRestNext, EncryptInPlace, Refresh, Provision, Snapshot, CopyWallet, WriteInside,
           SavePackage, SaveDescriptor, Verify, WriteConfig, SecureErase, PrintShards, StoreShard,
           MigrationFails, CommandDies, PowerCut, Unlock, StartDaemon, StopDaemon, Admit,
           ShredLeftovers, ClearOrphan, RepairConfig, atRestVars
<1>2. AtRestInit => CutsCounted
  BY DEF AtRestInit, CutsCounted
<1> QED
  BY <1>1, <1>2, PTL DEF AtRestSpec

\* While config.toml says encrypted and the volume is not mounted, no command
\* runs and no daemon serves.
LEMMA StepWithoutVolume ==
    ASSUME AtRestInv, AtRestNext, ~PowerCut, ~mounted', recorded' # 0
    PROVE  StartDaemon \/ StopDaemon \/ RepairConfig \/ \E h \in Holders : StoreShard(h)
<1> USE DEF BeforeFlip, AfterFlip, Refreshing
<1>1. ASSUME NEW to \in HolderSets, NEW k \in Thresholds, EncryptInPlace(to, k) \/ Refresh(to, k)
      PROVE  FALSE
  BY <1>1 DEF EncryptInPlace, Refresh, filesVars, configVars, AtRestInv, VolumePhase
<1>2. ~Provision
  BY DEF Provision
<1>3. ASSUME Snapshot \/ CopyWallet \/ SavePackage \/ SaveDescriptor \/ Verify \/ WriteConfig
             \/ SecureErase \/ PrintShards
      PROVE  FALSE
  <2>1. command.at \notin {"none", "provision"}
    BY <1>3 DEF Snapshot, CopyWallet, WriteInside, SavePackage, SaveDescriptor, Verify, WriteConfig,
       SecureErase, PrintShards, At
  <2>2. mounted' = mounted
    BY <1>3 DEF Snapshot, CopyWallet, WriteInside, SavePackage, SaveDescriptor, Verify, WriteConfig,
       SecureErase, PrintShards, filesVars
  <2> QED
    BY <2>1, <2>2 DEF AtRestInv, CommandProgress
<1>4. ~MigrationFails
  BY DEF MigrationFails, TornConfig, Guarded, AtRestInv, VolumePhase
<1>5. ASSUME CommandDies PROVE FALSE
  <2>1. command # Idle /\ recorded' = recorded /\ (mounted' = mounted \/ mounted' = TRUE)
    BY <1>5 DEF CommandDies, TornConfig
  <2>2. command \in RunningType
    BY <2>1 DEF AtRestInv, AtRestTypeOK
  <2>3. command.at \in CommandSteps
    BY <2>2 DEF RunningType
  <2>4. command.at \notin {"none", "provision"}
    BY <2>1, <2>3 DEF CommandSteps, AtRestInv, VolumePhase
  <2>5. mounted
    BY <2>4 DEF AtRestInv, CommandProgress
  <2>6. mounted' = mounted
    BY <2>1
  <2> QED
    BY <2>5, <2>6
<1>6. ~Unlock
  BY DEF Unlock
<1>7. ~ShredLeftovers
  BY DEF ShredLeftovers
<1>8. ~ClearOrphan
  BY DEF ClearOrphan, configVars, AtRestInv, VolumePhase
<1>9. ~Admit
  BY DEF Admit, configVars, AtRestInv, VolumePhase
<1> QED
  BY <1>1, <1>2, <1>3, <1>4, <1>5, <1>6, <1>7, <1>8, <1>9 DEF AtRestNext

\* Whatever step fails or dies, and whenever the daemon is started in between,
\* a copy of the ledger that can be read keeps every entry admitted in time, but
\* for a power cut before a quorum of holders has its shards (encrypt_in_place,
\* cleanup_orphan_container, finish_unlock_and_mount, finish_refresh).
THEOREM LedgerOutlivesStopsTheorem == AtRestSpec => LedgerOutlivesStops
<1>1. AtRestInv /\ AtRestInv' /\ CutsCounted /\ [AtRestNext]_atRestVars =>
          [InReach => InReach' \/ (cuts' # cuts /\ ~armed)]_atRestVars
  <2> SUFFICES ASSUME AtRestInv, AtRestInv', cuts \in Nat, AtRestNext, InReach,
                      ~(cuts' # cuts /\ ~armed)
               PROVE  InReach'
    BY DEF CutsCounted
  <2>1. AtRestTypeOK /\ AtRestTypeOK'
    BY DEF AtRestInv
  <2>2. /\ ReachIsACopy /\ ReachIsACopy'
    BY ReachLemma, PTL
  <2>3. CASE recorded' = 0
    <3>1. originals' = StationFiles /\ plainLog' = admitted'
      BY <2>3 DEF AtRestInv, PlainPhase
    <3>2. plainLog' \in Nat /\ late' \in Nat
      BY <2>1 DEF AtRestTypeOK
    <3>3. "db" \in originals' /\ plainLog' + late' >= admitted'
      <4>1. "db" \in originals'
        BY <3>1 DEF StationFiles
      <4>2. \A a, b \in Nat : a + b >= a
        OBVIOUS
      <4>3. plainLog' + late' >= plainLog'
        BY <3>2, <4>2
      <4> QED
        BY <3>1, <4>1, <4>3
    <3> QED
      BY <2>1, <2>2, <3>3 DEF ReachIsACopy
  <2>4. CASE recorded' # 0
    <3>1. container'.log + late' >= admitted' /\ descriptor' = container'.key
      BY <2>4 DEF AtRestInv, VolumePhase
    <3>2. CASE VolumeReadable'
      BY <2>1, <2>2, <3>1, <3>2 DEF ReachIsACopy
    <3>3. CASE ~VolumeReadable'
      <4>1. ~mounted' /\ ~QuorumFor(container.key)' /\ ~armed'
        BY <3>1, <3>3 DEF VolumeReadable, AtRestInv, ArmedHasQuorum
      <4>2. ~PowerCut
        <5>1. ASSUME PowerCut PROVE FALSE
          <6>1. armed' = armed /\ cuts' = cuts + 1
            BY <5>1 DEF PowerCut
          <6>2. cuts' # cuts
            BY <6>1
          <6> QED
            BY <4>1, <6>1, <6>2
        <5> QED
          BY <5>1
      <4>3. \/ StartDaemon \/ StopDaemon \/ RepairConfig \/ \E h \in Holders : StoreShard(h)
        BY <2>4, <4>1, <4>2, StepWithoutVolume
      <4>4. /\ UNCHANGED <<originals, plainLog, container, mounted, descriptor, splits, admitted, late>>
            /\ shards \subseteq shards'
        BY <4>3 DEF StartDaemon, StopDaemon, RepairConfig, StoreShard, filesVars, configVars,
           shardVars, ledgerVars
      <4>5. ~QuorumFor(container.key)
        BY <4>1, <4>4 DEF QuorumFor, Reconstructs
      <4>6. ~VolumeReadable
        BY <4>1, <4>4, <4>5 DEF VolumeReadable
      <4>7. \/ "db" \in originals /\ plainLog + late >= admitted
            \/ late >= admitted
        BY <2>1, <2>2, <4>6 DEF ReachIsACopy
      <4>8. \/ "db" \in originals' /\ plainLog' + late' >= admitted'
            \/ late' >= admitted'
        BY <4>4, <4>7
      <4> QED
        BY <2>1, <2>2, <4>8 DEF ReachIsACopy
    <3> QED
      BY <3>2, <3>3
  <2> QED
    BY <2>3, <2>4
<1> QED
  BY <1>1, AtRestInvTheorem, CutsAreCounted, PTL DEF AtRestSpec, LedgerOutlivesStops

-----------------------------------------------------------------------------
(* Offline spending.  The theorems rest on the holder's chain, which no    *)
(* variable holds: everything it signed (sig), the count of payments in it *)
(* (cur) and how much of it the station has been shown (hi).               *)

\* What a wallet signs.
SpendRecord == [kind : {"spend"}, id : Nat, nonce : Nat, amount : Nat, expires : Int]
WalletRecord ==
    SpendRecord \cup [kind : {"pay"}, id : Nat, nonce : Nat, expires : Int]
    \cup [kind : {"return"}, id : Nat]

LEMMA WalletRecordIs ==
    ASSUME NEW p \in WalletRecord
    PROVE  /\ p.kind \in {"spend", "pay", "return"} /\ p.id \in Nat
           /\ p.kind # "return" => p.nonce \in Nat /\ p.expires \in Int
           /\ p.kind = "spend" => p \in SpendRecord /\ p.amount \in Nat
           /\ SpendAmount(p) \in Nat
<1>1. CASE p \in SpendRecord
  BY <1>1 DEF SpendRecord, SpendAmount
<1>2. CASE p \in [kind : {"pay"}, id : Nat, nonce : Nat, expires : Int]
  BY <1>2 DEF SpendAmount
<1>3. CASE p \in [kind : {"return"}, id : Nat]
  BY <1>3 DEF SpendAmount
<1> QED
  BY <1>1, <1>2, <1>3 DEF WalletRecord

\* Everything the holder has signed, in order, and how many of the first i
\* records are payments: the nonce an undisturbed wallet gives the next.
Signed(sig, cur) ==
    /\ sig \in Seq(WalletRecord) /\ Len(sig) <= MaxSigned
    /\ \A i \in 1 .. Len(sig) : sig[i].id = i - 1
    /\ cur \in [0 .. Len(sig) -> Nat] /\ cur[0] = 0
    /\ \A i \in 1 .. Len(sig) :
          cur[i] = IF sig[i].kind = "return" THEN cur[i - 1] ELSE cur[i - 1] + 1

\* A run of what was signed, after the first c.
Run(s, sig, c) ==
    /\ s \in Seq(WalletRecord) /\ c \in Nat /\ c + Len(s) <= Len(sig)
    /\ \A i \in 1 .. Len(s) : s[i] = sig[c + i]

InLog(log, p) == \E j \in 1 .. Len(log) : log[j] = p

\* The wallet's account: every spend that was signed, each once, within the cap.
Account(H, sig) ==
    /\ H \in Seq(SpendRecord)
    /\ \A i \in 1 .. Len(H) : H[i].id < Len(sig) /\ H[i] = sig[H[i].id + 1]
    /\ \A i, j \in 1 .. Len(H) : i # j => H[i].id # H[j].id
    /\ \A i \in 1 .. Len(sig) : sig[i].kind = "spend" => InLog(H, sig[i])
    /\ Spent(H) <= Cap

\* The nonces of an undisturbed wallet.
InStep(sig, cur) ==
    \A i \in 1 .. Len(sig) : sig[i].kind # "return" => sig[i].nonce = cur[i - 1]

\* A spend refused at time t for a reason that stays.
ForGood(s, p, t) ==
    \/ t > p.expires + SpendSkew
    \/ t > SpendAdmissibleUntil
    \/ \E g \in s.given : g < p.id
    \/ Cardinality(SpendsIn(s.booked)) >= MaxItems - 1

\* The station once it has been shown the first hi records, in whatever bundles:
\* it has booked all the payments before the first it refused.
Heard(s, sig, cur, hi, t) ==
    /\ DOMAIN s = {"booked", "given", "refused", "proven"}
    /\ hi \in 0 .. Len(sig)
    /\ s.booked \in Seq(WalletRecord)
    /\ \A i \in 1 .. Len(s.booked) :
          /\ s.booked[i].kind # "return" /\ s.booked[i].id < hi
          /\ s.booked[i] = sig[s.booked[i].id + 1]
    /\ \A i, j \in 1 .. Len(s.booked) : i # j => s.booked[i].id # s.booked[j].id
    /\ \A g \in s.given : g \in Nat /\ g < hi
    /\ s.refused \in 0 .. MaxSigned /\ (s.refused = MaxSigned \/ s.refused < hi)
    /\ s.proven = FALSE
    /\ \A i \in 1 .. hi : sig[i].kind # "return" /\ i - 1 < s.refused => InLog(s.booked, sig[i])
    /\ s.refused = MaxSigned => Len(s.booked) = cur[hi]
    /\ \A i \in 1 .. hi :
          sig[i].kind = "spend" /\ sig[i].amount > 0 /\ i - 1 = s.refused
             => InLog(s.booked, sig[i]) \/ ForGood(s, sig[i], t)

\* A spend that was signed and is not booked is within what is left.
LEMMA NotOverspent ==
    ASSUME NEW sig, NEW cur, Signed(sig, cur), NEW H, Account(H, sig),
           NEW s, NEW hi, NEW t, Heard(s, sig, cur, hi, t),
           NEW k \in 1 .. Len(sig), sig[k].kind = "spend", ~ InLog(s.booked, sig[k])
    PROVE  ~ Overspent(s, sig[k])
<1> DEFINE b == s.booked
           p == sig[k]
           n == Len(b)
           fb == [i \in 1 .. n |-> SpendAmount(b[i])]
           f == [i \in 1 .. n + 1 |-> IF i = n + 1 THEN p.amount ELSE SpendAmount(b[i])]
           g == [j \in 1 .. Len(H) |-> SpendAmount(H[j])]
           r == [i \in 1 .. n + 1 |-> IF i = n + 1 THEN p ELSE b[i]]
           at == [i \in 1 .. n + 1 |->
                    IF r[i].kind = "spend" THEN CHOOSE j \in 1 .. Len(H) : H[j] = r[i] ELSE 0]
<1>1. sig \in Seq(WalletRecord) /\ Len(sig) \in Nat /\ p \in WalletRecord
      /\ b \in Seq(WalletRecord) /\ n \in Nat /\ H \in Seq(SpendRecord) /\ Len(H) \in Nat
  <2>1. sig \in Seq(WalletRecord) /\ b \in Seq(WalletRecord) /\ H \in Seq(SpendRecord)
    BY DEF Signed, Heard, Account
  <2> QED
    BY <2>1
<1>2. p.amount \in Nat /\ SpendAmount(p) = p.amount
  BY <1>1, WalletRecordIs DEF SpendAmount
<1>3. \A i \in 1 .. n : b[i] \in WalletRecord /\ SpendAmount(b[i]) \in Nat
  <2>1. \A i \in 1 .. n : b[i] \in WalletRecord
    BY <1>1
  <2> QED
    BY <2>1, WalletRecordIs
<1>4. \A j \in 1 .. Len(H) : H[j].kind = "spend" /\ H[j].amount \in Nat
  <2>1. \A j \in 1 .. Len(H) : H[j] \in SpendRecord
    BY <1>1
  <2> QED
    BY <2>1 DEF SpendRecord
<1>5. \A j \in 1 .. Len(H) : g[j] = SpendAmount(H[j]) /\ g[j] \in Nat
  BY <1>4 DEF SpendAmount
<1>6. ASSUME NEW i \in 1 .. n PROVE \E m \in 1 .. Len(sig) : b[i] = sig[m]
  <2>1. b[i].id < hi /\ hi \in 0 .. Len(sig) /\ b[i] = sig[b[i].id + 1] /\ b[i].id \in Nat
    BY <1>3, WalletRecordIs DEF Heard
  <2>2. b[i].id + 1 \in 1 .. Len(sig)
    BY <1>1, <2>1
  <2> QED
    BY <2>1, <2>2
<1>7. \A i \in 1 .. n + 1 : i = n + 1 \/ i \in 1 .. n
  BY <1>1
<1>8. ASSUME NEW i \in 1 .. n + 1, r[i].kind = "spend"
      PROVE  at[i] \in 1 .. Len(H) /\ H[at[i]] = r[i]
  <2>1. \E m \in 1 .. Len(sig) : r[i] = sig[m]
    BY <1>6, <1>7
  <2>2. \E j \in 1 .. Len(H) : H[j] = r[i]
    BY <1>8, <2>1 DEF Account, InLog
  <2> HIDE DEF r
  <2>3. at[i] = CHOOSE j \in 1 .. Len(H) : H[j] = r[i]
    BY <1>8
  <2> QED
    BY <2>2, <2>3
<1>9. ASSUME NEW i \in 1 .. n + 1, NEW j \in 1 .. n + 1, i # j PROVE r[i] # r[j]
  <2>1. \A x \in 1 .. n : b[x] # p
    BY DEF InLog
  <2>2. \A x, y \in 1 .. n : x # y => b[x] # b[y]
    BY DEF Heard
  <2>3. CASE i = n + 1
    BY <1>7, <1>9, <2>1, <2>3
  <2>4. CASE j = n + 1
    BY <1>7, <1>9, <2>1, <2>4
  <2>5. CASE i # n + 1 /\ j # n + 1
    BY <1>7, <1>9, <2>2, <2>5
  <2> QED
    BY <2>3, <2>4, <2>5
<1>10. \A i \in 1 .. n + 1 : f[i] = IF r[i].kind = "spend" THEN r[i].amount ELSE 0
  <2>1. ASSUME NEW i \in 1 .. n + 1
        PROVE  f[i] = IF r[i].kind = "spend" THEN r[i].amount ELSE 0
    <3>1. CASE i = n + 1
      <4>1. r[i] = p /\ f[i] = p.amount
        BY <3>1
      <4> QED
        BY <4>1
    <3>2. CASE i # n + 1
      <4>1. r[i] = b[i] /\ f[i] = SpendAmount(b[i])
        BY <3>2
      <4> QED
        BY <4>1 DEF SpendAmount
    <3> QED
      BY <3>1, <3>2
  <2> QED
    BY <2>1
<1>11. at \in [1 .. n + 1 -> 0 .. Len(H)]
  <2>1. ASSUME NEW i \in 1 .. n + 1 PROVE at[i] \in 0 .. Len(H)
    <3>1. CASE r[i].kind = "spend"
      <4>1. at[i] \in 1 .. Len(H)
        BY <1>8, <3>1
      <4> HIDE DEF at
      <4> QED
        BY <1>1, <4>1
    <3>2. CASE r[i].kind # "spend"
      BY <1>1, <3>2
    <3> QED
      BY <3>1, <3>2
  <2> QED
    BY <2>1
<1>12. \A i \in 1 .. n + 1 : at[i] = 0 <=> r[i].kind # "spend"
  <2>1. ASSUME NEW i \in 1 .. n + 1 PROVE at[i] = 0 <=> r[i].kind # "spend"
    <3> HIDE DEF r
    <3>1. CASE r[i].kind = "spend"
      <4>1. at[i] \in 1 .. Len(H)
        BY <1>8, <3>1
      <4> HIDE DEF at
      <4> QED
        BY <1>1, <3>1, <4>1
    <3>2. CASE r[i].kind # "spend"
      BY <3>2
    <3> QED
      BY <3>1, <3>2
  <2> QED
    BY <2>1
<1> HIDE DEF r, at, f, g
<1>13. \A i \in 1 .. n + 1 : f[i] = IF at[i] = 0 THEN 0 ELSE g[at[i]]
  <2>1. ASSUME NEW i \in 1 .. n + 1, at[i] # 0 PROVE f[i] = g[at[i]]
    <3>1. r[i].kind = "spend" /\ at[i] \in 1 .. Len(H) /\ H[at[i]] = r[i]
      BY <1>8, <1>12, <2>1
    <3> QED
      BY <1>5, <1>10, <3>1 DEF SpendAmount
  <2> QED
    BY <1>10, <1>12, <2>1
<1>14. \A i, j \in 1 .. n + 1 : i # j => at[i] = 0 \/ at[i] # at[j]
  BY <1>8, <1>9, <1>12
<1>15. SumTo(f, n + 1) <= SumTo(g, Len(H))
  <2>1. n + 1 \in Nat /\ \A j \in 1 .. Len(H) : g[j] \in Nat
    BY <1>1, <1>5
  <2> HIDE DEF n
  <2> QED
    BY <1>1, <1>11, <1>13, <1>14, <2>1, SumOfSome
<1>16. SumTo(f, n + 1) = SumTo(fb, n) + p.amount
  <2>1. f[n + 1] = p.amount /\ \A i \in 1 .. n : f[i] = fb[i] /\ fb[i] \in Int
    BY <1>1, <1>3 DEF f
  <2> HIDE DEF fb
  <2>2. f[n + 1] \in Int
    BY <1>2, <2>1
  <2> QED
    BY <1>1, <2>1, <2>2, SumToAppend
<1>17. SumTo(fb, n) \in Int /\ SumTo(g, Len(H)) \in Int
  <2>1. \A i \in 1 .. n : fb[i] \in Int
    BY <1>3
  <2>2. \A j \in 1 .. Len(H) : g[j] \in Int
    BY <1>5
  <2> HIDE DEF fb
  <2> QED
    BY <1>1, <2>1, <2>2, SumToInt
<1>18. Spent(b) = SumTo(fb, n) /\ Spent(H) = SumTo(g, Len(H))
  BY DEF Spent, g
<1>19. SumTo(g, Len(H)) <= Cap /\ Cap \in Int
  BY <1>18, SpendAssumption DEF Account
<1>20. ~ (p.amount > Cap - Spent(b))
  BY <1>2, <1>15, <1>16, <1>17, <1>18, <1>19
<1> QED
  BY <1>20 DEF Overspent

LEMMA SpendsInIs ==
    ASSUME NEW S, NEW b \in Seq(S)
    PROVE  IsFiniteSet(SpendsIn(b)) /\ Cardinality(SpendsIn(b)) \in Nat
<1> DEFINE f == [i \in 1 .. Len(b) |-> b[i]]
<1>1. Len(b) \in Nat /\ DOMAIN b = 1 .. Len(b)
  OBVIOUS
<1>2. f \in Surjection(1 .. Len(b), ToSet(b))
  BY <1>1 DEF Surjection, ToSet
<1>3. IsFiniteSet(1 .. Len(b))
  BY <1>1, FS_Interval
<1>4. IsFiniteSet(ToSet(b))
  BY <1>2, <1>3, FS_Surjection
<1>5. SpendsIn(b) \subseteq ToSet(b)
  BY DEF SpendsIn
<1>6. IsFiniteSet(SpendsIn(b))
  BY <1>4, <1>5, FS_Subset
<1> QED
  BY <1>6, FS_CardinalityType

LEMMA SpendsInGrows ==
    ASSUME NEW S, NEW b \in Seq(S), NEW p \in S
    PROVE  Cardinality(SpendsIn(b)) <= Cardinality(SpendsIn(Append(b, p)))
<1>1. Append(b, p) \in Seq(S)
  OBVIOUS
<1>2. ToSet(Append(b, p)) = ToSet(b) \cup {p}
  BY ToSetAppend
<1>3. SpendsIn(b) \subseteq SpendsIn(Append(b, p))
  BY <1>2 DEF SpendsIn
<1>4. IsFiniteSet(SpendsIn(Append(b, p)))
  BY <1>1, SpendsInIs
<1> QED
  BY <1>3, <1>4, FS_Subset

LEMMA ForGoodStays ==
    ASSUME NEW s, NEW p, NEW t \in Int, ForGood(s, p, t), p.expires \in Int,
           NEW s2, NEW t2 \in Int, t <= t2, s.given \subseteq s2.given,
           Cardinality(SpendsIn(s.booked)) \in Nat, Cardinality(SpendsIn(s2.booked)) \in Nat,
           Cardinality(SpendsIn(s.booked)) <= Cardinality(SpendsIn(s2.booked))
    PROVE  ForGood(s2, p, t2)
<1>1. SpendSkew \in Nat /\ SpendAdmissibleUntil \in Int /\ MaxItems \in Nat
  BY SpendAssumption DEF SpendAdmissibleUntil
<1>2. CASE t > p.expires + SpendSkew
  BY <1>1, <1>2 DEF ForGood
<1>3. CASE t > SpendAdmissibleUntil
  BY <1>1, <1>3 DEF ForGood
<1>4. CASE \E g \in s.given : g < p.id
  BY <1>4 DEF ForGood
<1>5. CASE Cardinality(SpendsIn(s.booked)) >= MaxItems - 1
  BY <1>1, <1>5 DEF ForGood
<1> QED
  BY <1>2, <1>3, <1>4, <1>5 DEF ForGood

\* A payment shown to the station for the first time while it has refused none
\* is in turn: it is refused for good or not at all.
LEMMA FirstTaking ==
    ASSUME NEW sig, NEW cur, Signed(sig, cur), NEW H, Account(H, sig), hour \in Int,
           NEW s, NEW hi, Heard(s, sig, cur, hi, hour), NEW k \in 1 .. Len(sig), k = hi + 1,
           s.refused = MaxSigned, InStep(sig, cur), sig[k].kind = "spend", sig[k].amount > 0,
           NEW floored, ~ Admits(s, sig[k], floored)
    PROVE  ForGood(s, sig[k], hour)
<1> DEFINE p == sig[k]
<1>0. p \in WalletRecord /\ hi \in Nat /\ Len(sig) \in Nat
  BY DEF Signed, Heard
<1>1. p.expires \in Int /\ p.nonce \in Nat /\ p.id = hi /\ p.amount \in Nat
  BY <1>0, WalletRecordIs DEF Signed
<1>2. p.nonce = Len(s.booked)
  BY <1>0 DEF InStep, Heard
<1>3. ~ InLog(s.booked, p)
  <2>1. \A i \in 1 .. Len(s.booked) : s.booked[i].id < hi
    BY DEF Heard
  <2> QED
    BY <1>0, <1>1, <2>1 DEF InLog
<1>4. ~ Overspent(s, p)
  BY <1>3, NotOverspent
<1>5. Cardinality(SpendsIn(s.booked)) \in Nat
  BY SpendsInIs DEF Heard
<1>6. SpendSkew \in Nat /\ SpendAdmissibleUntil \in Int /\ MaxItems \in Nat
  BY SpendAssumption DEF SpendAdmissibleUntil
<1>7. \/ ~ (hour <= p.expires + SpendSkew)
      \/ s.given # {} \/ ~ (hour <= SpendAdmissibleUntil)
      \/ ~ (Cardinality(SpendsIn(s.booked)) < MaxItems - 1)
  <2> HIDE DEF p
  <2> QED
    BY <1>2, <1>4 DEF Admits, InTurn, CertServes, p
<1>8. s.given # {} => \E g \in s.given : g < p.id
  BY <1>1 DEF Heard
<1> HIDE DEF p
<1> QED
  BY <1>1, <1>5, <1>6, <1>7, <1>8 DEF ForGood, p

StationFields == {"booked", "given", "refused", "proven"}

LEMMA TakeHeard ==
    ASSUME NEW sig, NEW cur, Signed(sig, cur), NEW H, Account(H, sig), hour \in Int,
           NEW s, NEW hi, Heard(s, sig, cur, hi, hour),
           NEW k \in 1 .. Len(sig), k <= hi + 1, NEW floored,
           s.refused = MaxSigned => InStep(sig, cur)
    PROVE  /\ Heard(Take(s, sig[k], floored), sig, cur, IF k = hi + 1 THEN k ELSE hi, hour)
           /\ Take(s, sig[k], floored).refused = MaxSigned => s.refused = MaxSigned
<1> DEFINE p == sig[k]
           h == IF k = hi + 1 THEN k ELSE hi
           z == Take(s, p, floored)
           b == s.booked
<1>0. /\ p \in WalletRecord /\ hi \in Nat /\ Len(sig) \in Nat /\ k \in Nat /\ p.id = k - 1
      /\ Len(sig) <= MaxSigned /\ MaxSigned \in Nat
  <2>1. sig \in Seq(WalletRecord) /\ hi \in 0 .. Len(sig) /\ Len(sig) <= MaxSigned
        /\ sig[k].id = k - 1
    BY DEF Signed, Heard
  <2>2. MaxSigned \in Nat
    BY SpendAssumption
  <2> QED
    BY <2>1, <2>2
<1>1. /\ b \in Seq(WalletRecord) /\ Len(b) \in Nat /\ DOMAIN s = StationFields
      /\ hi <= Len(sig) /\ s.refused \in 0 .. MaxSigned
      /\ s.refused = MaxSigned \/ s.refused < hi
  BY <1>0 DEF Heard, StationFields
<1>2. h \in 0 .. Len(sig) /\ hi <= h /\ k <= h /\ \A i \in 1 .. h : i \in 1 .. hi \/ i = k
  BY <1>0, <1>1
<1>3. p \in ToSet(b) <=> InLog(b, p)
  BY <1>1 DEF ToSet, InLog
<1>4. k = hi + 1 => ~ InLog(b, p)
  <2>1. \A i \in 1 .. Len(b) : b[i].id < hi
    BY DEF Heard
  <2> QED
    BY <1>0, <2>1 DEF InLog
<1>c. k = hi + 1 => cur[h] = (IF p.kind = "return" THEN cur[hi] ELSE cur[hi] + 1)
  BY <1>0 DEF Signed
<1>5. CASE p.kind = "return"
  <2>1. z = [s EXCEPT !.given = IF @ = {} THEN {p.id} ELSE @]
    BY <1>5 DEF Take
  <2>2. /\ DOMAIN z = StationFields /\ z.booked = b /\ z.refused = s.refused
        /\ z.proven = s.proven /\ z.given = IF s.given = {} THEN {p.id} ELSE s.given
    BY <1>1, <2>1 DEF StationFields
  <2> HIDE DEF z
  <2>3. \A g \in z.given : g \in Nat /\ g < h
    <3>1. \A g \in s.given : g \in Nat /\ g < hi
      BY DEF Heard
    <3> QED
      BY <1>0, <1>1, <1>2, <2>2, <3>1
  <2>4. \A i \in 1 .. Len(b) : b[i].kind # "return" /\ b[i].id < h /\ b[i] = sig[b[i].id + 1]
    <3>1. \A i \in 1 .. Len(b) : b[i] \in WalletRecord
      BY <1>1
    <3>2. \A i \in 1 .. Len(b) : b[i].id \in Nat
      BY <3>1, WalletRecordIs
    <3> QED
      BY <1>0, <1>2, <3>2 DEF Heard
  <2>5. \A i \in 1 .. h : sig[i].kind # "return" /\ i - 1 < s.refused => InLog(b, sig[i])
    BY <1>2, <1>5 DEF Heard
  <2>6. s.refused = MaxSigned => Len(b) = cur[h]
    BY <1>c, <1>5 DEF Heard
  <2>7. ASSUME NEW i \in 1 .. h, sig[i].kind = "spend", sig[i].amount > 0, i - 1 = s.refused
        PROVE  InLog(b, sig[i]) \/ ForGood(z, sig[i], hour)
    <3>1. i \in 1 .. hi
      BY <1>2, <1>5, <2>7
    <3>2. InLog(b, sig[i]) \/ ForGood(s, sig[i], hour)
      BY <2>7, <3>1 DEF Heard
    <3>3. s.given \subseteq z.given
      BY <2>2
    <3>4. Cardinality(SpendsIn(b)) \in Nat
      BY <1>1, SpendsInIs
    <3>5. sig[i] \in WalletRecord /\ i \in 1 .. Len(sig)
      BY <1>0, <1>2 DEF Signed
    <3>6. sig[i].expires \in Int
      BY <2>7, <3>5, WalletRecordIs
    <3> QED
      BY <2>2, <3>2, <3>3, <3>4, <3>6, ForGoodStays
  <2>8. Heard(z, sig, cur, h, hour)
    BY <1>1, <1>2, <2>2, <2>3, <2>4, <2>5, <2>6, <2>7 DEF Heard, StationFields
  <2> QED
    BY <2>2, <2>8 DEF z
<1>6. CASE p.kind # "return" /\ InLog(b, p)
  <2>1. z = s /\ h = hi
    BY <1>3, <1>4, <1>6 DEF Take
  <2> QED
    BY <2>1
<1>7. CASE p.kind # "return" /\ ~ InLog(b, p) /\ Admits(s, p, floored)
  <2>1. z = [s EXCEPT !.booked = Append(@, p)]
    BY <1>3, <1>7 DEF Take
  <2> DEFINE a == Append(b, p)
  <2>2. /\ DOMAIN z = StationFields /\ z.booked = a /\ z.refused = s.refused
        /\ z.proven = s.proven /\ z.given = s.given
    BY <1>1, <2>1 DEF StationFields
  <2> HIDE DEF z, p
  <2>3. /\ a \in Seq(WalletRecord) /\ Len(a) = Len(b) + 1 /\ a[Len(b) + 1] = p
        /\ \A i \in 1 .. Len(b) : a[i] = b[i]
    BY <1>0, <1>1
  <2> HIDE DEF a
  <2>4. \A i \in 1 .. Len(a) : i \in 1 .. Len(b) \/ i = Len(b) + 1
    BY <1>1, <2>3
  <2>5. \A q : InLog(b, q) => InLog(a, q)
    <3>1. \A i \in 1 .. Len(b) : i \in 1 .. Len(a)
      BY <1>1, <2>3
    <3> QED
      BY <2>3, <3>1 DEF InLog
  <2>6. InLog(a, p)
    <3>1. Len(b) + 1 \in 1 .. Len(a)
      BY <1>1, <2>3
    <3> QED
      BY <2>3, <3>1 DEF InLog
  <2>7. \A i \in 1 .. Len(b) : /\ b[i].id \in Nat /\ b[i].kind # "return" /\ b[i].id < h
                               /\ b[i] = sig[b[i].id + 1] /\ b[i].id # p.id
    <3>1. \A i \in 1 .. Len(b) : b[i] \in WalletRecord
      BY <1>1
    <3>2. \A i \in 1 .. Len(b) : b[i].id \in Nat
      BY <3>1, WalletRecordIs
    <3>3. ASSUME NEW i \in 1 .. Len(b), b[i].id = p.id PROVE FALSE
      <4>1. b[i] = sig[p.id + 1]
        BY <3>3 DEF Heard
      <4>2. b[i] = p
        BY <1>0, <4>1 DEF p
      <4> QED
        BY <1>7, <4>2 DEF InLog
    <3> QED
      BY <1>0, <1>2, <3>2, <3>3 DEF Heard
  <2>8. \A i \in 1 .. Len(a) : a[i].kind # "return" /\ a[i].id < h /\ a[i] = sig[a[i].id + 1]
    <3>1. p.id < h /\ p = sig[p.id + 1]
      BY <1>0, <1>2 DEF p
    <3> QED
      BY <1>7, <2>3, <2>4, <2>7, <3>1
  <2>9. \A i, j \in 1 .. Len(a) : i # j => a[i].id # a[j].id
    <3>1. \A i, j \in 1 .. Len(b) : i # j => b[i].id # b[j].id
      BY DEF Heard
    <3>2. ASSUME NEW i \in 1 .. Len(a), NEW j \in 1 .. Len(a), i # j PROVE a[i].id # a[j].id
      <4>1. CASE i \in 1 .. Len(b) /\ j \in 1 .. Len(b)
        BY <2>3, <3>1, <3>2, <4>1
      <4>2. CASE i \in 1 .. Len(b) /\ j = Len(b) + 1
        BY <2>3, <2>7, <4>2
      <4>3. CASE i = Len(b) + 1 /\ j \in 1 .. Len(b)
        BY <2>3, <2>7, <4>3
      <4> QED
        BY <2>4, <3>2, <4>1, <4>2, <4>3
    <3> QED
      BY <3>2
  <2>10. \A i \in 1 .. h : sig[i].kind # "return" /\ i - 1 < s.refused => InLog(a, sig[i])
    BY <1>2, <2>5, <2>6 DEF Heard, p
  <2>11. s.refused = MaxSigned => Len(a) = cur[h]
    <3>1. ASSUME s.refused = MaxSigned PROVE k = hi + 1
      <4>1. k - 1 < MaxSigned
        BY <1>0
      <4>2. k \notin 1 .. hi
        BY <1>7, <3>1, <4>1 DEF Heard, p
      <4> QED
        BY <1>0, <4>2
    <3> QED
      BY <1>c, <1>7, <2>3, <3>1 DEF Heard
  <2>12. ASSUME NEW i \in 1 .. h, sig[i].kind = "spend", sig[i].amount > 0, i - 1 = s.refused
         PROVE  InLog(a, sig[i]) \/ ForGood(z, sig[i], hour)
    <3>1. CASE i = k
      BY <2>6, <3>1 DEF p
    <3>2. CASE i # k
      <4>1. i \in 1 .. hi
        BY <1>2, <3>2
      <4>2. InLog(b, sig[i]) \/ ForGood(s, sig[i], hour)
        BY <2>12, <4>1 DEF Heard
      <4>3. /\ Cardinality(SpendsIn(b)) \in Nat /\ Cardinality(SpendsIn(a)) \in Nat
            /\ Cardinality(SpendsIn(b)) <= Cardinality(SpendsIn(a))
        BY <1>0, <1>1, <2>3, SpendsInIs, SpendsInGrows DEF a
      <4>4. sig[i] \in WalletRecord /\ i \in 1 .. Len(sig)
        BY <1>0, <1>2 DEF Signed
      <4>5. sig[i].expires \in Int
        BY <2>12, <4>4, WalletRecordIs
      <4> QED
        BY <2>2, <2>5, <4>2, <4>3, <4>5, ForGoodStays
    <3> QED
      BY <3>1, <3>2
  <2>13. \A g \in z.given : g \in Nat /\ g < h
    <3>1. \A g \in s.given : g \in Nat /\ g < hi
      BY DEF Heard
    <3> QED
      BY <1>0, <1>1, <1>2, <2>2, <3>1
  <2>14. z.refused = MaxSigned \/ z.refused < h
    BY <1>0, <1>1, <1>2, <2>2
  <2>15. Heard(z, sig, cur, h, hour)
    <3>1. s.proven = FALSE
      BY DEF Heard
    <3> HIDE DEF h
    <3> QED
      BY <1>1, <1>2, <2>2, <2>3, <2>8, <2>9, <2>10, <2>11, <2>12, <2>13, <2>14, <3>1
      DEF Heard, StationFields
  <2> QED
    BY <2>2, <2>15 DEF z, p
<1>8. CASE p.kind # "return" /\ ~ InLog(b, p) /\ ~ Admits(s, p, floored)
  <2> DEFINE m == Min({s.refused, p.id})
  <2>1. z = [s EXCEPT !.refused = Min({@, p.id}), !.proven = @ \/ Convicts(s, p)]
    BY <1>3, <1>8 DEF Take
  <2>2. Convicts(s, p) = FALSE
    <3>1. p.kind = "spend" => ~ Overspent(s, p)
      BY <1>8, NotOverspent
    <3> QED
      BY <3>1 DEF Convicts
  <2>3. s.proven = FALSE
    BY DEF Heard
  <2>4. /\ DOMAIN z = StationFields /\ z.booked = b /\ z.refused = m
        /\ z.proven = FALSE /\ z.given = s.given
    BY <1>1, <2>1, <2>2, <2>3 DEF StationFields
  <2> HIDE DEF z
  <2>5. m \in {s.refused, p.id} /\ m <= s.refused /\ m <= p.id
    <3>1. s.refused \in Int /\ p.id \in Int
      BY <1>0, <1>1
    <3> QED
      BY <3>1, MinOfTwo
  <2> HIDE DEF m
  <2>6. m \in 0 .. MaxSigned /\ m < MaxSigned /\ m < h
    BY <1>0, <1>1, <1>2, <2>5
  <2>7. \A i \in 1 .. h : sig[i].kind # "return" /\ i - 1 < m => InLog(b, sig[i])
    <3>1. ASSUME NEW i \in 1 .. h, sig[i].kind # "return", i - 1 < m PROVE InLog(b, sig[i])
      <4>1. i # k
        BY <1>0, <1>2, <2>5, <2>6, <3>1
      <4>2. i \in 1 .. hi /\ i - 1 < s.refused
        BY <1>1, <1>2, <2>5, <2>6, <3>1, <4>1
      <4> QED
        BY <3>1, <4>2 DEF Heard
    <3> QED
      BY <3>1
  <2>8. ASSUME NEW i \in 1 .. h, sig[i].kind = "spend", sig[i].amount > 0, i - 1 = m
        PROVE  InLog(b, sig[i]) \/ ForGood(z, sig[i], hour)
    <3>0. sig[i] \in WalletRecord /\ i \in 1 .. Len(sig)
      BY <1>0, <1>2 DEF Signed
    <3>1. sig[i].expires \in Int
      BY <2>8, <3>0, WalletRecordIs
    <3>2. Cardinality(SpendsIn(b)) \in Nat
      BY <1>1, SpendsInIs
    <3>3. ForGood(s, sig[i], hour) => ForGood(z, sig[i], hour)
      BY <2>4, <3>1, <3>2, ForGoodStays
    <3>4. CASE m = s.refused
      <4>0. s.refused < hi
        BY <1>0, <1>1, <2>6, <3>4
      <4>1. s.refused < hi /\ i \in 1 .. hi
        BY <1>0, <1>1, <1>2, <2>8, <3>4, <4>0
      <4> QED
        BY <2>8, <3>3, <3>4, <4>1 DEF Heard
    <3>5. CASE m # s.refused
      <4>1. m = p.id /\ p.id < s.refused /\ i = k
        BY <1>0, <1>1, <2>5, <2>8, <3>5
      <4>2. k = hi + 1
        <5>1. k \notin 1 .. hi
          BY <1>0, <1>8, <4>1 DEF Heard
        <5> QED
          BY <1>0, <5>1
      <4>3. s.refused = MaxSigned
        BY <1>0, <1>1, <4>1, <4>2
      <4>4. ForGood(s, sig[i], hour)
        BY <1>8, <2>8, <4>1, <4>2, <4>3, FirstTaking
      <4> QED
        BY <3>3, <4>4
    <3> QED
      BY <3>4, <3>5
  <2>9. \A g \in z.given : g \in Nat /\ g < h
    <3>1. \A g \in s.given : g \in Nat /\ g < hi
      BY DEF Heard
    <3> QED
      BY <1>0, <1>1, <1>2, <2>4, <3>1
  <2>10. \A i \in 1 .. Len(b) : b[i].kind # "return" /\ b[i].id < h /\ b[i] = sig[b[i].id + 1]
    <3>1. \A i \in 1 .. Len(b) : b[i] \in WalletRecord
      BY <1>1
    <3>2. \A i \in 1 .. Len(b) : b[i].id \in Nat
      BY <3>1, WalletRecordIs
    <3> QED
      BY <1>0, <1>2, <3>2 DEF Heard
  <2>11. \A i, j \in 1 .. Len(b) : i # j => b[i].id # b[j].id
    BY DEF Heard
  <2>12. m # MaxSigned
    BY <1>0, <2>6
  <2>13. Heard(z, sig, cur, h, hour)
    <3> HIDE DEF h, b
    <3> QED
      BY <1>1, <1>2, <2>4, <2>6, <2>7, <2>8, <2>9, <2>10, <2>11, <2>12 DEF Heard, StationFields
  <2> QED
    BY <2>4, <2>12, <2>13 DEF z
<1> QED
  BY <1>5, <1>6, <1>7, <1>8

\* What a bundle leaves of a station, entry by entry.
IsTakes(a, bundle, floored, s, n) ==
    a = [i \in 0 .. n |-> IF i = 0 THEN s ELSE Take(a[i - 1], bundle[i], floored)]

LEMMA TakesExist ==
    ASSUME NEW bundle, NEW floored, NEW s, NEW n \in Nat
    PROVE  \E a : IsTakes(a, bundle, floored, s, n)
<1> DEFINE Bad == {k \in 0 .. n : ~ \E a : IsTakes(a, bundle, floored, s, k)}
<1>1. SUFFICES ASSUME Bad # {} PROVE FALSE
  OBVIOUS
<1>2. Bad \subseteq Nat
  OBVIOUS
<1>3. PICK k \in Bad : \A m \in Bad : k <= m
  <2> HIDE DEF Bad
  <2> QED
    BY <1>1, <1>2, LeastNatural
<1>4. k # 0
  <2>1. IsTakes([i \in 0 .. 0 |-> s], bundle, floored, s, 0)
    BY DEF IsTakes
  <2> QED
    BY <2>1
<1>5. k - 1 \in 0 .. n /\ k - 1 \notin Bad /\ k \in Nat
  BY <1>3, <1>4
<1>6. PICK a : IsTakes(a, bundle, floored, s, k - 1)
  BY <1>5
<1> DEFINE Step(b, i) == IF i = 0 THEN s ELSE Take(b[i - 1], bundle[i], floored)
           b == [i \in 0 .. k |-> IF i < k THEN a[i] ELSE Step(a, k)]
<1>7. \A i \in 0 .. k - 1 : a[i] = Step(a, i)
  BY <1>6 DEF IsTakes
<1>8. ASSUME NEW i \in 0 .. k PROVE b[i] = Step(b, i)
  <2>1. i # 0 => b[i - 1] = a[i - 1]
    BY <1>5
  <2>2. Step(b, i) = Step(a, i)
    BY <2>1
  <2>3. b[i] = Step(a, i)
    <3>1. CASE i = k
      BY <1>5, <3>1
    <3>2. CASE i # k
      <4>1. i \in 0 .. k - 1 /\ i < k
        BY <1>5, <3>2
      <4>2. b[i] = a[i]
        BY <4>1
      <4> HIDE DEF b, Step
      <4> QED
        BY <1>7, <4>1, <4>2
    <3> QED
      BY <3>1, <3>2
  <2> QED
    BY <2>2, <2>3
<1>9. IsTakes(b, bundle, floored, s, k)
  <2>1. b = [i \in 0 .. k |-> b[i]]
    OBVIOUS
  <2> HIDE DEF b
  <2> QED
    BY <1>8, <2>1 DEF IsTakes
<1> QED
  BY <1>9

Further(x, y) == IF y > x THEN y ELSE x

\* A run of what was signed that starts within what the station has been shown.
LEMMA TakesHeard ==
    ASSUME NEW sig, NEW cur, Signed(sig, cur), NEW H, Account(H, sig), hour \in Int,
           NEW s, NEW hi, Heard(s, sig, cur, hi, hour),
           NEW bundle, NEW c, Run(bundle, sig, c), c <= hi, NEW floored,
           s.refused = MaxSigned => InStep(sig, cur),
           NEW a, IsTakes(a, bundle, floored, s, Len(bundle))
    PROVE  /\ Heard(a[Len(bundle)], sig, cur, Further(hi, c + Len(bundle)), hour)
           /\ a[Len(bundle)].refused = MaxSigned => s.refused = MaxSigned
<1> DEFINE n == Len(bundle)
           Ok(k) == /\ Heard(a[k], sig, cur, Further(hi, c + k), hour)
                    /\ a[k].refused = MaxSigned => s.refused = MaxSigned
           Bad == {k \in 0 .. n : ~ Ok(k)}
<1>1. n \in Nat /\ c \in Nat /\ hi \in Nat /\ c + n <= Len(sig) /\ Len(sig) \in Nat
  <2>1. bundle \in Seq(WalletRecord) /\ sig \in Seq(WalletRecord) /\ hi \in 0 .. Len(sig)
    BY DEF Run, Signed, Heard
  <2> QED
    BY <2>1 DEF Run
<1> HIDE DEF n
<1>2. SUFFICES ASSUME Bad # {} PROVE FALSE
  BY <1>1 DEF n
<1>3. Bad \subseteq Nat
  BY <1>1
<1>4. PICK k \in Bad : \A m \in Bad : k <= m
  <2> HIDE DEF Bad
  <2> QED
    BY <1>2, <1>3, LeastNatural
<1>5. k # 0
  <2>1. a[0] = s
    BY <1>1 DEF IsTakes, n
  <2>2. Further(hi, c + 0) = hi
    BY <1>1 DEF Further
  <2>3. Ok(0)
    BY <2>1, <2>2
  <2> QED
    BY <1>4, <2>3
<1>6. k \in 1 .. n /\ k - 1 \in 0 .. n /\ k - 1 \notin Bad
  BY <1>1, <1>4, <1>5
<1>7. Ok(k - 1)
  BY <1>6
<1>8. a[k] = Take(a[k - 1], sig[c + k], floored)
  <2>1. bundle[k] = sig[c + k]
    BY <1>6 DEF Run, n
  <2> QED
    BY SMTT(30), <1>1, <1>6, <2>1 DEF IsTakes, n
<1>9. PICK f : f = Further(hi, c + (k - 1))
  OBVIOUS
<1>10. PICK j : j = c + k
  OBVIOUS
<1>11. j \in 1 .. Len(sig) /\ j <= f + 1 /\ Further(hi, c + k) = IF j = f + 1 THEN j ELSE f
  BY <1>1, <1>6, <1>9, <1>10 DEF Further
<1>12. PICK z : z = a[k - 1]
  OBVIOUS
<1>13. Heard(z, sig, cur, f, hour) /\ (z.refused = MaxSigned => s.refused = MaxSigned)
  BY <1>7, <1>9, <1>12
<1>14. /\ Heard(Take(z, sig[j], floored), sig, cur, IF j = f + 1 THEN j ELSE f, hour)
       /\ Take(z, sig[j], floored).refused = MaxSigned => z.refused = MaxSigned
  BY <1>11, <1>13, TakeHeard
<1>15. Ok(k)
  BY <1>8, <1>10, <1>11, <1>12, <1>13, <1>14
<1> QED
  BY <1>4, <1>15

\* ingest_bundle, for such a bundle.
Station == [booked |-> booked, given |-> given, refused |-> refused, proven |-> proven]

LEMMA IngestHeard ==
    ASSUME NEW sig, NEW cur, Signed(sig, cur), NEW H, Account(H, sig), hour \in Int,
           NEW hi, Heard(Station, sig, cur, hi, hour),
           NEW bundle, NEW c, Run(bundle, sig, c), c <= hi,
           refused = MaxSigned => InStep(sig, cur), Ingest(bundle)
    PROVE  \E s : /\ s.booked = booked' /\ s.given = given' /\ s.refused = refused'
                  /\ s.proven = proven'
                  /\ Heard(s, sig, cur, Further(hi, c + Len(bundle)), hour)
                  /\ s.refused = MaxSigned => refused = MaxSigned
<1> DEFINE n == Len(bundle)
           Eq(v, floored) == v = [i \in 0 .. n |->
               IF i = 0 THEN [booked |-> booked, given |-> given,
                              refused |-> refused, proven |-> proven]
               ELSE Take(v[i - 1], bundle[i], floored)]
<1>1. n \in Nat
  BY DEF Run
<1>2. PICK floored : LET v == CHOOSE v : Eq(v, floored)
                     IN  /\ booked' = v[n].booked /\ given' = v[n].given
                         /\ refused' = v[n].refused /\ proven' = v[n].proven
  BY DEF Ingest
<1>3. \A v : Eq(v, floored) <=> IsTakes(v, bundle, floored, Station, n)
  BY DEF IsTakes, Station
<1>4. PICK v : v = CHOOSE u : Eq(u, floored)
  OBVIOUS
<1>5. \E u : Eq(u, floored)
  BY <1>1, <1>3, TakesExist
<1> HIDE DEF Eq
<1>6. IsTakes(v, bundle, floored, Station, n)
  BY <1>3, <1>4, <1>5
<1>7. Station.refused = refused
  BY DEF Station
<1>8. /\ Heard(v[Len(bundle)], sig, cur, Further(hi, c + Len(bundle)), hour)
      /\ v[Len(bundle)].refused = MaxSigned => Station.refused = MaxSigned
  BY <1>6, <1>7, TakesHeard
<1> QED
  BY <1>2, <1>4, <1>7, <1>8

\* The count of payments grows with the chain, and by its payments only.
LEMMA CountGrows ==
    ASSUME NEW sig, NEW cur, Signed(sig, cur), NEW i \in 0 .. Len(sig), NEW j \in i .. Len(sig)
    PROVE  /\ cur[i] \in Nat /\ cur[j] \in Nat /\ cur[i] <= cur[j]
           /\ (\A m \in i + 1 .. j : sig[m].kind = "return") => cur[i] = cur[j]
<1> DEFINE n == Len(sig)
           Ok(k) == cur[i] <= cur[k] /\ ((\A m \in i + 1 .. k : sig[m].kind = "return") => cur[i] = cur[k])
           Bad == {k \in i .. n : ~ Ok(k)}
<1>1. n \in Nat /\ \A k \in 0 .. n : cur[k] \in Nat
  BY DEF Signed
<1>2. SUFFICES ASSUME Bad # {} PROVE FALSE
  BY <1>1
<1> HIDE DEF n
<1>3. Bad \subseteq Nat
  BY <1>1 DEF n
<1>4. PICK k \in Bad : \A m \in Bad : k <= m
  <2> HIDE DEF Bad
  <2> QED
    BY <1>2, <1>3, LeastNatural
<1>5. i \in Nat /\ i <= n
  BY <1>1 DEF n
<1>6. k # i
  <2>1. Ok(i)
    BY <1>1, <1>5
  <2> QED
    BY <1>4, <2>1
<1>7. k - 1 \in i .. n /\ k - 1 \notin Bad /\ k \in 1 .. n /\ k \in i + 1 .. k
      /\ \A m \in i + 1 .. k - 1 : m \in i + 1 .. k
  BY <1>1, <1>4, <1>5, <1>6
<1>8. Ok(k - 1)
  BY <1>7
<1>9. cur[k] = IF sig[k].kind = "return" THEN cur[k - 1] ELSE cur[k - 1] + 1
  BY <1>7 DEF Signed, n
<1>10. cur[k - 1] \in Nat /\ cur[i] \in Nat
  BY <1>1, <1>5, <1>7
<1>11. Ok(k)
  <2>1. CASE sig[k].kind = "return"
    BY <1>7, <1>8, <1>9, <2>1
  <2>2. CASE sig[k].kind # "return"
    BY <1>7, <1>8, <1>9, <1>10, <2>2
  <2> QED
    BY <2>1, <2>2
<1> QED
  BY <1>4, <1>11

\* One more record signed.
Counted(sig, cur, p) ==
    [i \in 0 .. Len(sig) + 1 |->
       IF i = Len(sig) + 1 THEN (IF p.kind = "return" THEN cur[Len(sig)] ELSE cur[Len(sig)] + 1)
       ELSE cur[i]]

LEMMA SignedMore ==
    ASSUME NEW sig, NEW cur, Signed(sig, cur), NEW p \in WalletRecord, p.id = Len(sig),
           Len(sig) < MaxSigned
    PROVE  /\ Signed(Append(sig, p), Counted(sig, cur, p))
           /\ Len(Append(sig, p)) = Len(sig) + 1 /\ Append(sig, p)[Len(sig) + 1] = p
           /\ \A i \in 1 .. Len(sig) : Append(sig, p)[i] = sig[i]
           /\ \A i \in 0 .. Len(sig) : Counted(sig, cur, p)[i] = cur[i]
           /\ Counted(sig, cur, p)[Len(sig) + 1] =
                 IF p.kind = "return" THEN cur[Len(sig)] ELSE cur[Len(sig)] + 1
<1> DEFINE n == Len(sig)
           q == Append(sig, p)
           d == Counted(sig, cur, p)
<1>1. sig \in Seq(WalletRecord) /\ n \in Nat
  BY DEF Signed
<1>2. q \in Seq(WalletRecord) /\ Len(q) = n + 1 /\ q[n + 1] = p /\ \A i \in 1 .. n : q[i] = sig[i]
  BY <1>1
<1> HIDE DEF q
<1>3. /\ \A i \in 0 .. n : d[i] = cur[i]
      /\ d[n + 1] = IF p.kind = "return" THEN cur[n] ELSE cur[n] + 1
  BY <1>1 DEF Counted
<1>4. cur \in [0 .. n -> Nat]
  BY DEF Signed
<1>5. d \in [0 .. n + 1 -> Nat]
  BY <1>1, <1>4 DEF Counted
<1> HIDE DEF d
<1>6. \A i \in 1 .. n + 1 : i \in 1 .. n \/ i = n + 1
  BY <1>1
<1>7. \A i \in 1 .. n : i - 1 \in 0 .. n /\ i \in 0 .. n
  BY <1>1
<1>8. \A i \in 1 .. n + 1 : q[i].id = i - 1
  <2>1. \A i \in 1 .. n : sig[i].id = i - 1
    BY DEF Signed
  <2>2. n = (n + 1) - 1
    BY <1>1
  <2> QED
    BY <1>2, <1>6, <2>1, <2>2
<1>9. ASSUME NEW i \in 1 .. n + 1
      PROVE  d[i] = IF q[i].kind = "return" THEN d[i - 1] ELSE d[i - 1] + 1
  <2>1. CASE i \in 1 .. n
    <3>1. cur[i] = IF sig[i].kind = "return" THEN cur[i - 1] ELSE cur[i - 1] + 1
      BY <2>1 DEF Signed
    <3> QED
      BY <1>2, <1>3, <1>7, <2>1, <3>1
  <2>2. CASE i = n + 1
    <3>1. i - 1 = n /\ n \in 0 .. n
      BY <1>1, <2>2
    <3> QED
      BY <1>2, <1>3, <2>2, <3>1
  <2> QED
    BY <1>6, <2>1, <2>2
<1>10. d[0] = 0 /\ n + 1 <= MaxSigned
  <2>1. 0 \in 0 .. n /\ cur[0] = 0 /\ MaxSigned \in Nat
    BY <1>1, SpendAssumption DEF Signed
  <2> QED
    BY <1>1, <1>3, <2>1
<1> HIDE DEF n
<1>11. Signed(q, d)
  BY <1>2, <1>5, <1>8, <1>9, <1>10 DEF Signed
<1> QED
  BY <1>2, <1>3, <1>11 DEF q, d, n

\* What the wallet, the carrier and the station hold does not change with it.
Longer(sig, cur, sig2, cur2) ==
    /\ Len(sig) \in Nat /\ Len(sig2) \in Nat /\ Len(sig) <= Len(sig2)
    /\ \A i \in 1 .. Len(sig) : sig2[i] = sig[i]
    /\ \A i \in 0 .. Len(sig) : cur2[i] = cur[i]

LEMMA RunStays ==
    ASSUME NEW sig, NEW cur, NEW sig2, NEW cur2, Longer(sig, cur, sig2, cur2),
           NEW s, NEW c, Run(s, sig, c)
    PROVE  Run(s, sig2, c)
<1>1. c \in Nat /\ Len(s) \in Nat /\ c + Len(s) <= Len(sig)
  BY DEF Run
<1>2. \A i \in 1 .. Len(s) : c + i \in 1 .. Len(sig)
  BY <1>1 DEF Longer
<1>3. c + Len(s) <= Len(sig2)
  BY <1>1 DEF Longer
<1> QED
  BY <1>2, <1>3 DEF Run, Longer

LEMMA HeardStays ==
    ASSUME NEW sig, NEW cur, NEW sig2, NEW cur2, Longer(sig, cur, sig2, cur2),
           NEW s, NEW hi, NEW t, Heard(s, sig, cur, hi, t)
    PROVE  Heard(s, sig2, cur2, hi, t)
<1>1. hi \in 0 .. Len(sig) /\ hi \in 0 .. Len(sig2) /\ \A i \in 1 .. hi : i \in 1 .. Len(sig)
  <2>1. hi \in 0 .. Len(sig)
    BY DEF Heard
  <2> QED
    BY <2>1 DEF Longer
<1>2. \A i \in 1 .. hi : sig2[i] = sig[i]
  BY <1>1 DEF Longer
<1>3. cur2[hi] = cur[hi]
  BY <1>1 DEF Longer
<1>4. ASSUME NEW i \in 1 .. Len(s.booked) PROVE s.booked[i] = sig2[s.booked[i].id + 1]
  <2>1. s.booked[i] \in WalletRecord /\ s.booked[i].id < hi /\ s.booked[i] = sig[s.booked[i].id + 1]
    BY DEF Heard
  <2>2. s.booked[i].id \in Nat
    BY <2>1, WalletRecordIs
  <2>3. s.booked[i].id + 1 \in 1 .. hi
    BY <1>1, <2>1, <2>2
  <2> QED
    BY <1>2, <2>1, <2>3
<1>5. /\ DOMAIN s = {"booked", "given", "refused", "proven"}
      /\ s.booked \in Seq(WalletRecord)
      /\ \A i \in 1 .. Len(s.booked) : s.booked[i].kind # "return" /\ s.booked[i].id < hi
      /\ \A i, j \in 1 .. Len(s.booked) : i # j => s.booked[i].id # s.booked[j].id
      /\ \A g \in s.given : g \in Nat /\ g < hi
      /\ s.refused \in 0 .. MaxSigned /\ (s.refused = MaxSigned \/ s.refused < hi)
      /\ s.proven = FALSE
  BY DEF Heard
<1>6. \A i \in 1 .. hi : sig2[i].kind # "return" /\ i - 1 < s.refused => InLog(s.booked, sig2[i])
  BY <1>2 DEF Heard
<1>7. s.refused = MaxSigned => Len(s.booked) = cur2[hi]
  BY <1>3 DEF Heard
<1>8. \A i \in 1 .. hi :
          sig2[i].kind = "spend" /\ sig2[i].amount > 0 /\ i - 1 = s.refused
             => InLog(s.booked, sig2[i]) \/ ForGood(s, sig2[i], t)
  BY <1>2 DEF Heard
<1> QED
  BY <1>1, <1>4, <1>5, <1>6, <1>7, <1>8 DEF Heard

LEMMA SpentMore ==
    ASSUME NEW H \in Seq(SpendRecord), NEW p \in SpendRecord
    PROVE  Spent(H) \in Int /\ Spent(Append(H, p)) = Spent(H) + p.amount /\ p.amount \in Nat
<1> DEFINE n == Len(H)
           q == Append(H, p)
           f == [i \in 1 .. n |-> SpendAmount(H[i])]
           g == [i \in 1 .. n + 1 |-> SpendAmount(q[i])]
<1>1. n \in Nat /\ q \in Seq(SpendRecord) /\ Len(q) = n + 1 /\ q[n + 1] = p
      /\ \A i \in 1 .. n : q[i] = H[i]
  OBVIOUS
<1>2. \A r \in SpendRecord : SpendAmount(r) = r.amount /\ r.amount \in Nat
  BY DEF SpendRecord, SpendAmount
<1>3. \A i \in 1 .. n : f[i] \in Int
  BY <1>2
<1>4. g[n + 1] = p.amount /\ \A i \in 1 .. n : g[i] = f[i]
  <2> HIDE DEF q
  <2> QED
    BY <1>1, <1>2
<1>5. Spent(H) = SumTo(f, n)
  BY DEF Spent
<1>6. Spent(q) = SumTo(g, n + 1)
  <2> HIDE DEF q
  <2> QED
    BY <1>1 DEF Spent
<1> HIDE DEF f, g
<1>7. SumTo(f, n) \in Int
  BY <1>1, <1>3, SumToInt
<1>8. SumTo(g, n + 1) = SumTo(f, n) + g[n + 1]
  <2>1. g[n + 1] \in Int
    BY <1>2, <1>4
  <2> HIDE DEF n
  <2> QED
    BY <1>1, <1>3, <1>4, <2>1, SumToAppend
<1> QED
  BY <1>2, <1>4, <1>5, <1>6, <1>7, <1>8

\* A record that is no spend leaves the account as it is.
LEMMA AccountStays ==
    ASSUME NEW sig, NEW cur, NEW sig2, NEW cur2, Longer(sig, cur, sig2, cur2),
           Len(sig2) = Len(sig) + 1, sig2[Len(sig) + 1].kind # "spend",
           NEW H, Account(H, sig)
    PROVE  Account(H, sig2)
<1>1. Len(sig) \in Nat /\ \A i \in 1 .. Len(sig) : sig2[i] = sig[i]
  BY DEF Longer
<1>2. ASSUME NEW i \in 1 .. Len(H) PROVE H[i].id < Len(sig2) /\ H[i] = sig2[H[i].id + 1]
  <2>1. H[i] \in SpendRecord /\ H[i].id < Len(sig) /\ H[i] = sig[H[i].id + 1]
    BY DEF Account
  <2>2. H[i].id \in Nat
    BY <2>1 DEF SpendRecord
  <2>3. H[i].id + 1 \in 1 .. Len(sig)
    BY <1>1, <2>1, <2>2
  <2> QED
    BY <1>1, <2>1, <2>2, <2>3
<1>3. ASSUME NEW i \in 1 .. Len(sig2), sig2[i].kind = "spend" PROVE InLog(H, sig2[i])
  <2>1. i \in 1 .. Len(sig)
    BY <1>1, <1>3
  <2> QED
    BY <1>1, <1>3, <2>1 DEF Account
<1> QED
  BY <1>2, <1>3 DEF Account

\* A spend within what is left is entered.
LEMMA AccountMore ==
    ASSUME NEW sig, NEW cur, NEW sig2, NEW cur2, Longer(sig, cur, sig2, cur2),
           NEW p \in SpendRecord, p.id = Len(sig),
           Len(sig2) = Len(sig) + 1, sig2[Len(sig) + 1] = p,
           NEW H, Account(H, sig), p.amount <= Cap - Spent(H)
    PROVE  Account(Append(H, p), sig2)
<1> DEFINE n == Len(H)
           q == Append(H, p)
<1>1. Len(sig) \in Nat /\ \A i \in 1 .. Len(sig) : sig2[i] = sig[i]
  BY DEF Longer
<1>2. H \in Seq(SpendRecord) /\ n \in Nat
  BY DEF Account
<1>3. q \in Seq(SpendRecord) /\ Len(q) = n + 1 /\ q[n + 1] = p /\ \A i \in 1 .. n : q[i] = H[i]
  BY <1>2
<1> HIDE DEF q
<1>4. \A i \in 1 .. n + 1 : i \in 1 .. n \/ i = n + 1
  BY <1>2
<1>5. ASSUME NEW i \in 1 .. n
      PROVE  H[i].id < Len(sig) /\ H[i].id < Len(sig2) /\ H[i] = sig2[H[i].id + 1]
  <2>1. H[i] \in SpendRecord /\ H[i].id < Len(sig) /\ H[i] = sig[H[i].id + 1]
    BY DEF Account
  <2>2. H[i].id \in Nat
    BY <2>1 DEF SpendRecord
  <2>3. H[i].id + 1 \in 1 .. Len(sig)
    BY <1>1, <2>1, <2>2
  <2> QED
    BY <1>1, <2>1, <2>2, <2>3
<1>6. \A i \in 1 .. n + 1 : q[i].id < Len(sig2) /\ q[i] = sig2[q[i].id + 1]
  BY <1>1, <1>3, <1>4, <1>5
<1>7. \A i, j \in 1 .. n + 1 : i # j => q[i].id # q[j].id
  <2>1. \A i, j \in 1 .. n : i # j => H[i].id # H[j].id
    BY DEF Account
  <2>2. \A i \in 1 .. n : H[i].id # Len(sig)
    BY <1>1, <1>5
  <2> QED
    BY <1>3, <1>4, <2>1, <2>2
<1>8. ASSUME NEW i \in 1 .. Len(sig2), sig2[i].kind = "spend" PROVE InLog(q, sig2[i])
  <2>1. CASE i \in 1 .. Len(sig)
    <3>1. PICK j \in 1 .. n : H[j] = sig2[i]
      BY <1>1, <1>8, <2>1 DEF Account, InLog
    <3>2. j \in 1 .. n + 1
      BY <1>2
    <3> QED
      BY <1>3, <3>1, <3>2 DEF InLog
  <2>2. CASE i = Len(sig) + 1
    <3>1. n + 1 \in 1 .. n + 1
      BY <1>2
    <3> QED
      BY <1>3, <2>2, <3>1 DEF InLog
  <2> QED
    BY <1>1, <2>1, <2>2
<1>9. Spent(q) <= Cap
  <2>1. Spent(H) \in Int /\ Spent(q) = Spent(H) + p.amount /\ p.amount \in Nat
    BY <1>2, SpentMore DEF q
  <2>2. Cap \in Nat
    BY SpendAssumption
  <2> QED
    BY <2>1, <2>2
<1> HIDE DEF n
<1>10. Account(q, sig2)
  BY <1>3, <1>6, <1>7, <1>8, <1>9 DEF Account
<1> QED
  BY <1>10 DEF q

LEMMA RunMore ==
    ASSUME NEW sig, NEW cur, NEW sig2, NEW cur2, Longer(sig, cur, sig2, cur2),
           NEW p \in WalletRecord, Len(sig2) = Len(sig) + 1, sig2[Len(sig) + 1] = p,
           NEW s, Run(s, sig, Len(sig) - Len(s))
    PROVE  Run(Append(s, p), sig2, Len(sig2) - Len(Append(s, p)))
           /\ Len(sig2) - Len(Append(s, p)) = Len(sig) - Len(s)
<1> DEFINE n == Len(s)
           q == Append(s, p)
           c == Len(sig) - n
<1>1. s \in Seq(WalletRecord) /\ n \in Nat /\ c \in Nat /\ Len(sig) \in Nat
      /\ \A i \in 1 .. Len(sig) : sig2[i] = sig[i]
  BY DEF Run, Longer
<1>2. q \in Seq(WalletRecord) /\ Len(q) = n + 1 /\ q[n + 1] = p /\ \A i \in 1 .. n : q[i] = s[i]
  BY <1>1
<1> HIDE DEF q
<1>3. Len(sig2) - Len(q) = c
  BY <1>1, <1>2
<1>4. ASSUME NEW i \in 1 .. n + 1 PROVE q[i] = sig2[c + i]
  <2>1. CASE i \in 1 .. n
    <3>1. s[i] = sig[c + i]
      BY <2>1 DEF Run
    <3>2. c + i \in 1 .. Len(sig)
      BY <1>1, <2>1
    <3> QED
      BY <1>1, <1>2, <2>1, <3>1, <3>2
  <2>2. CASE i = n + 1
    <3>1. c + i = Len(sig) + 1
      BY <1>1, <2>2
    <3> QED
      BY <1>2, <2>2, <3>1
  <2> QED
    BY <1>1, <2>1, <2>2
<1>5. c + Len(q) <= Len(sig2)
  BY <1>1, <1>2
<1>6. Run(q, sig2, c)
  BY <1>1, <1>2, <1>4, <1>5 DEF Run
<1> QED
  BY <1>3, <1>6 DEF q

LEMMA InStepMore ==
    ASSUME NEW sig, NEW cur, NEW sig2, NEW cur2, Longer(sig, cur, sig2, cur2), InStep(sig, cur),
           Len(sig2) = Len(sig) + 1,
           sig2[Len(sig) + 1].kind # "return" => sig2[Len(sig) + 1].nonce = cur[Len(sig)]
    PROVE  InStep(sig2, cur2)
<1>1. Len(sig) \in Nat /\ (\A i \in 1 .. Len(sig) : sig2[i] = sig[i])
      /\ \A i \in 0 .. Len(sig) : cur2[i] = cur[i]
  BY DEF Longer
<1>2. ASSUME NEW i \in 1 .. Len(sig2), sig2[i].kind # "return" PROVE sig2[i].nonce = cur2[i - 1]
  <2>0. i - 1 \in 0 .. Len(sig)
    BY <1>1
  <2>1. CASE i \in 1 .. Len(sig)
    BY <1>1, <1>2, <2>0, <2>1 DEF InStep
  <2>2. CASE i = Len(sig) + 1
    <3>1. i - 1 = Len(sig)
      BY <1>1, <2>2
    <3> QED
      BY <1>1, <1>2, <2>0, <2>2, <3>1
  <2> QED
    BY <1>1, <2>1, <2>2
<1> QED
  BY <1>2 DEF InStep

\* Nor does it with time: what was refused for good stays refused for good.
LEMMA HeardLater ==
    ASSUME NEW sig, NEW cur, Signed(sig, cur), NEW s, NEW hi, NEW t \in Int, NEW u \in Int,
           t <= u, Heard(s, sig, cur, hi, t)
    PROVE  Heard(s, sig, cur, hi, u)
<1>1. ASSUME NEW i \in 1 .. hi, sig[i].kind = "spend", ForGood(s, sig[i], t)
      PROVE  ForGood(s, sig[i], u)
  <2>1. i \in 1 .. Len(sig) /\ sig \in Seq(WalletRecord)
    BY DEF Heard, Signed
  <2>2. sig[i] \in WalletRecord
    BY <2>1
  <2>3. sig[i].expires \in Int
    BY <1>1, <2>2, WalletRecordIs
  <2>4. Cardinality(SpendsIn(s.booked)) \in Nat
    BY SpendsInIs DEF Heard
  <2> QED
    BY <1>1, <2>3, <2>4, ForGoodStays
<1> QED
  BY <1>1 DEF Heard

LEMMA HeardFields ==
    ASSUME NEW sig, NEW cur, NEW s, NEW hi, NEW t, Heard(s, sig, cur, hi, t),
           NEW z, DOMAIN z = {"booked", "given", "refused", "proven"},
           z.booked = s.booked, z.given = s.given, z.refused = s.refused, z.proven = s.proven
    PROVE  Heard(z, sig, cur, hi, t)
<1>1. \A p : ForGood(s, p, t) => ForGood(z, p, t)
  BY DEF ForGood
<1> QED
  BY <1>1 DEF Heard

\* Without a torn payment the holder's whole chain accounts for the state: what
\* is in the purse and with a carrier are runs of it, and the station has been
\* shown its first hi records.
Honest(sig, cur, hi, c) ==
    /\ hour \in Nat /\ next \in Nat /\ made = Len(sig)
    /\ Signed(sig, cur)
    /\ Run(purse, sig, made - Len(purse)) /\ made - Len(purse) <= hi
    /\ Run(carried, sig, c) /\ c <= hi
    /\ Account(history, sig)
    /\ \A p \in accepted : p \in SpendRecord /\ p.amount > 0 /\ p.id < made /\ p = sig[p.id + 1]
    /\ Heard(Station, sig, cur, hi, hour)
    /\ refused = MaxSigned => next = cur[made] /\ InStep(sig, cur)

SpendInv ==
    /\ tears \in Nat
    /\ tears = 0 => \E sig, cur, hi, c : Honest(sig, cur, hi, c)

LEMMA SpendInitHolds == SpendInit => SpendInv
<1> SUFFICES ASSUME SpendInit PROVE SpendInv
  OBVIOUS
<1> DEFINE none == <<>>
           zero == [i \in 0 .. 0 |-> 0]
<1>1. /\ hour = 0 /\ next = 0 /\ made = 0 /\ tears = 0 /\ purse = <<>> /\ history = <<>>
      /\ carried = <<>> /\ booked = <<>> /\ accepted = {} /\ given = {} /\ refused = MaxSigned
      /\ proven = FALSE
  BY DEF SpendInit
<1>2. none \in Seq(WalletRecord) /\ Len(none) = 0 /\ none \in Seq(SpendRecord)
  OBVIOUS
<1>3. MaxSigned \in Nat /\ Cap \in Nat
  BY SpendAssumption
<1>4. Signed(none, zero)
  <2>1. zero \in [0 .. 0 -> Nat] /\ zero[0] = 0
    OBVIOUS
  <2> HIDE DEF zero
  <2> QED
    BY <1>2, <1>3, <2>1 DEF Signed
<1>5. Run(none, none, 0)
  BY <1>2 DEF Run
<1>6. Spent(none) = 0
  <2>1. Spent(none) = SumTo([i \in 1 .. Len(none) |-> SpendAmount(none[i])], 0)
    BY DEF Spent
  <2> QED
    BY <2>1, SumToZero
<1>7. Account(none, none)
  BY <1>2, <1>3, <1>6 DEF Account
<1>8. Heard(Station, none, zero, 0, hour)
  <2>1. /\ DOMAIN Station = {"booked", "given", "refused", "proven"}
        /\ Station.booked = none /\ Station.given = {} /\ Station.refused = MaxSigned
        /\ Station.proven = FALSE
    BY <1>1 DEF Station
  <2>2. zero[0] = 0
    OBVIOUS
  <2> HIDE DEF zero
  <2> QED
    BY <1>2, <1>3, <2>1, <2>2 DEF Heard
<1>9. InStep(none, zero)
  BY <1>2 DEF InStep
<1>10. Honest(none, zero, 0, 0)
  BY <1>1, <1>2, <1>4, <1>5, <1>7, <1>8, <1>9 DEF Honest
<1> QED
  BY <1>1, <1>10 DEF SpendInv

\* A record signed with every write of it done.
LEMMA SigningIsHonest ==
    ASSUME NEW sig, NEW cur, NEW hi, NEW c, Honest(sig, cur, hi, c),
           NEW p \in WalletRecord, p.id = made, p.kind # "return" => p.nonce = next,
           made < MaxSigned, purse' = Append(purse, p), made' = made + 1,
           next' = IF p.kind = "return" THEN next ELSE next + 1,
           \/ p.kind # "spend" /\ history' = history
           \/ p.kind = "spend" /\ history' = Append(history, p) /\ p.amount <= Cap - Spent(history),
           UNCHANGED <<hour, accepted, carried, booked, given, refused, proven>>
    PROVE  \E sig2, cur2 : Honest(sig2, cur2, hi, c)'
<1>1. PICK sig2 : sig2 = Append(sig, p)
  OBVIOUS
<1>2. PICK cur2 : cur2 = Counted(sig, cur, p)
  OBVIOUS
<1>3. /\ hour \in Nat /\ next \in Nat /\ made = Len(sig) /\ Signed(sig, cur)
      /\ Run(purse, sig, made - Len(purse)) /\ made - Len(purse) <= hi
      /\ Run(carried, sig, c) /\ c <= hi /\ Account(history, sig)
      /\ Heard(Station, sig, cur, hi, hour)
  BY DEF Honest
<1>4. /\ Signed(sig2, cur2) /\ Len(sig2) = Len(sig) + 1 /\ sig2[Len(sig) + 1] = p
      /\ \A i \in 1 .. Len(sig) : sig2[i] = sig[i]
      /\ \A i \in 0 .. Len(sig) : cur2[i] = cur[i]
      /\ cur2[Len(sig) + 1] = IF p.kind = "return" THEN cur[Len(sig)] ELSE cur[Len(sig)] + 1
  BY <1>1, <1>2, <1>3, SignedMore
<1>5. Longer(sig, cur, sig2, cur2) /\ Len(sig) \in Nat
  <2>1. Len(sig) \in Nat
    BY <1>3 DEF Signed
  <2> QED
    BY <1>4, <2>1 DEF Longer
<1>6. Run(purse', sig2, made' - Len(purse')) /\ made' - Len(purse') <= hi
  <2>1. Run(Append(purse, p), sig2, Len(sig2) - Len(Append(purse, p)))
        /\ Len(sig2) - Len(Append(purse, p)) = Len(sig) - Len(purse)
    BY <1>3, <1>4, <1>5, RunMore
  <2> QED
    BY <1>3, <1>4, <2>1
<1>7. Run(carried', sig2, c) /\ c <= hi
  BY <1>3, <1>5, RunStays
<1>8. Account(history', sig2)
  <2>1. CASE p.kind # "spend"
    BY <1>3, <1>4, <1>5, <2>1, AccountStays
  <2>2. CASE p.kind = "spend"
    <3>1. p \in SpendRecord
      BY <2>2, WalletRecordIs
    <3>2. history' = Append(history, p) /\ p.amount <= Cap - Spent(history) /\ p.id = Len(sig)
      BY <1>3, <2>2
    <3>3. Account(Append(history, p), sig2)
      BY <1>3, <1>4, <1>5, <3>1, <3>2, AccountMore
    <3> QED
      BY <3>2, <3>3
  <2> QED
    BY <2>1, <2>2
<1>9. \A q \in accepted' : q \in SpendRecord /\ q.amount > 0 /\ q.id < made' /\ q = sig2[q.id + 1]
  <2>1. ASSUME NEW q \in accepted
        PROVE  q \in SpendRecord /\ q.amount > 0 /\ q.id < made' /\ q = sig2[q.id + 1]
    <3>1. q \in SpendRecord /\ q.amount > 0 /\ q.id < made /\ q = sig[q.id + 1]
      BY DEF Honest
    <3>2. q.id \in Nat
      BY <3>1 DEF SpendRecord
    <3>3. q.id + 1 \in 1 .. Len(sig) /\ q.id < made'
      BY <1>3, <1>5, <3>1, <3>2
    <3> QED
      BY <1>4, <3>1, <3>3
  <2> QED
    BY <2>1
<1>10. Heard(Station', sig2, cur2, hi, hour')
  <2>1. Station' = Station
    BY DEF Station
  <2> QED
    BY <1>3, <1>5, <2>1, HeardStays
<1>11. ASSUME refused' = MaxSigned PROVE next' = cur2[made'] /\ InStep(sig2, cur2)
  <2>1. next = cur[made] /\ InStep(sig, cur)
    BY <1>11 DEF Honest
  <2>2. InStep(sig2, cur2)
    BY <1>3, <1>4, <1>5, <2>1, InStepMore
  <2> QED
    BY <1>3, <1>4, <2>1, <2>2
<1>12. next' \in Nat /\ hour' \in Nat /\ made' = Len(sig2)
  BY <1>3, <1>4
<1>13. Honest(sig2, cur2, hi, c)'
  BY <1>4, <1>6, <1>7, <1>8, <1>9, <1>10, <1>11, <1>12 DEF Honest
<1> QED
  BY <1>13

\* A bundle the station takes in.
LEMMA IngestIsHonest ==
    ASSUME NEW sig, NEW cur, NEW hi, NEW c, Honest(sig, cur, hi, c),
           NEW bundle, NEW b, Run(bundle, sig, b), b <= hi, Ingest(bundle),
           \/ purse' = purse
           \/ purse' = <<>> /\ b + Len(bundle) = made,
           UNCHANGED <<hour, next, history, made, accepted, carried>>
    PROVE  \E h : Honest(sig, cur, h, c)'
<1>1. PICK h : h = Further(hi, b + Len(bundle))
  OBVIOUS
<1>2. /\ hour \in Nat /\ next \in Nat /\ made = Len(sig) /\ Signed(sig, cur)
      /\ Run(purse, sig, made - Len(purse)) /\ made - Len(purse) <= hi
      /\ Run(carried, sig, c) /\ c <= hi /\ Account(history, sig)
      /\ Heard(Station, sig, cur, hi, hour)
      /\ refused = MaxSigned => next = cur[made] /\ InStep(sig, cur)
  BY DEF Honest
<1>3. /\ b \in Nat /\ Len(bundle) \in Nat /\ hi \in Nat /\ c \in Nat
      /\ Len(purse) \in Nat /\ made \in Nat
  <2>1. sig \in Seq(WalletRecord) /\ bundle \in Seq(WalletRecord) /\ purse \in Seq(WalletRecord)
        /\ hi \in 0 .. Len(sig)
    BY <1>2 DEF Run, Signed, Heard
  <2> QED
    BY <1>2, <2>1 DEF Run
<1>4. hi <= h /\ b + Len(bundle) <= h /\ h \in Nat
  BY <1>1, <1>3 DEF Further
<1>5. PICK s : /\ s.booked = booked' /\ s.given = given' /\ s.refused = refused'
               /\ s.proven = proven' /\ Heard(s, sig, cur, h, hour)
               /\ s.refused = MaxSigned => refused = MaxSigned
  <2>1. hour \in Int
    BY <1>2
  <2>2. \E s : /\ s.booked = booked' /\ s.given = given' /\ s.refused = refused'
               /\ s.proven = proven'
               /\ Heard(s, sig, cur, Further(hi, b + Len(bundle)), hour)
               /\ s.refused = MaxSigned => refused = MaxSigned
    BY <1>2, <2>1, IngestHeard
  <2> QED
    BY <1>1, <2>2
<1>6. Heard(Station', sig, cur, h, hour')
  <2>1. PICK z : z = Station'
    OBVIOUS
  <2>2. /\ DOMAIN z = {"booked", "given", "refused", "proven"}
        /\ z.booked = s.booked /\ z.given = s.given /\ z.refused = s.refused /\ z.proven = s.proven
    BY <1>5, <2>1 DEF Station
  <2>3. Heard(z, sig, cur, h, hour)
    BY <1>5, <2>2, HeardFields
  <2> QED
    BY <2>1, <2>3
<1>7. refused' = MaxSigned => next' = cur[made'] /\ InStep(sig, cur)
  BY <1>2, <1>5
<1>8. Run(purse', sig, made' - Len(purse')) /\ made' - Len(purse') <= h
  <2>1. CASE purse' = purse
    <3>1. made - Len(purse) <= h
      BY <1>2, <1>3, <1>4
    <3> QED
      BY <1>2, <2>1, <3>1
  <2>2. CASE purse' = <<>> /\ b + Len(bundle) = made
    <3>1. PICK q : q = purse'
      OBVIOUS
    <3>2. q \in Seq(WalletRecord) /\ Len(q) = 0
      BY <2>2, <3>1
    <3>3. made - Len(q) = made
      BY <1>3, <3>2
    <3>4. Run(q, sig, made)
      BY <1>2, <1>3, <3>2 DEF Run
    <3> QED
      BY <1>4, <2>2, <3>1, <3>3, <3>4
  <2> QED
    BY <2>1, <2>2
<1>9. c <= h
  BY <1>2, <1>3, <1>4
<1>10. /\ Run(carried', sig, c) /\ Account(history', sig) /\ hour' \in Nat /\ next' \in Nat
       /\ made' = Len(sig)
  BY <1>2
<1>11. \A p \in accepted' : p \in SpendRecord /\ p.amount > 0 /\ p.id < made' /\ p = sig[p.id + 1]
  BY DEF Honest
<1>12. Honest(sig, cur, h, c)'
  BY <1>2, <1>6, <1>7, <1>8, <1>9, <1>10, <1>11 DEF Honest
<1> QED
  BY <1>12

\* cmd_sync moves the cursor of an undisturbed wallet nowhere.
LEMMA ReconciledInStep ==
    ASSUME NEW sig, NEW cur, NEW hi, NEW c, Honest(sig, cur, hi, c)
    PROVE  Reconciled \in Nat /\ (refused = MaxSigned => Reconciled = next)
<1>1. /\ next \in Nat /\ made = Len(sig) /\ Signed(sig, cur)
      /\ Run(purse, sig, made - Len(purse)) /\ made - Len(purse) <= hi
      /\ Heard(Station, sig, cur, hi, hour) /\ (refused = MaxSigned => next = cur[made])
  BY DEF Honest
<1>2. Station.booked = booked /\ Station.refused = refused
  BY DEF Station
<1>3. /\ Len(booked) \in Nat /\ hi \in 0 .. made /\ made \in Nat /\ Len(purse) \in Nat
      /\ (refused = MaxSigned => Len(booked) = cur[hi])
  <2>1. sig \in Seq(WalletRecord) /\ booked \in Seq(WalletRecord) /\ purse \in Seq(WalletRecord)
        /\ hi \in 0 .. Len(sig) /\ (refused = MaxSigned => Len(booked) = cur[hi])
    BY <1>1, <1>2 DEF Run, Signed, Heard
  <2> QED
    BY <1>1, <2>1
<1>4. /\ cur[hi] \in Nat /\ cur[made] \in Nat /\ cur[hi] <= cur[made]
      /\ (\A m \in hi + 1 .. made : sig[m].kind = "return") => cur[hi] = cur[made]
  <2>1. hi \in 0 .. Len(sig) /\ made \in hi .. Len(sig)
    BY <1>1, <1>3
  <2> QED
    BY <1>1, <2>1, CountGrows
<1>5. Max({next, Len(booked)}) \in {next, Len(booked)}
      /\ \A x \in {next, Len(booked)} : x <= Max({next, Len(booked)})
  <2>1. PICK x : x = Len(booked)
    OBVIOUS
  <2>2. PICK y : y = next
    OBVIOUS
  <2>3. x \in Int /\ y \in Int
    BY <1>1, <1>3, <2>1, <2>2
  <2>4. Max({y, x}) \in {y, x} /\ \A u \in {y, x} : u <= Max({y, x})
    BY <2>3, MaxOfTwo
  <2> QED
    BY <2>1, <2>2, <2>4
<1>6. CASE \E i \in DOMAIN purse : purse[i].kind # "return"
  <2>1. Reconciled = Max({next, Len(booked)})
    BY <1>6 DEF Reconciled
  <2>2. refused = MaxSigned => Len(booked) <= next
    BY <1>1, <1>3, <1>4
  <2> QED
    BY <1>1, <1>3, <1>5, <2>1, <2>2
<1>7. CASE ~ \E i \in DOMAIN purse : purse[i].kind # "return"
  <2>1. Reconciled = Len(booked)
    BY <1>7 DEF Reconciled
  <2>2. ASSUME NEW m \in hi + 1 .. made PROVE sig[m].kind = "return"
    <3>1. PICK i : i = m - (made - Len(purse))
      OBVIOUS
    <3>2. i \in 1 .. Len(purse) /\ (made - Len(purse)) + i = m
      BY <1>1, <1>3, <3>1
    <3>3. purse \in Seq(WalletRecord) /\ purse[i] = sig[(made - Len(purse)) + i]
      BY <1>1, <3>2 DEF Run
    <3>4. i \in DOMAIN purse
      BY <3>2, <3>3
    <3> QED
      BY <1>7, <3>2, <3>3, <3>4
  <2> QED
    BY <1>1, <1>3, <1>4, <2>1, <2>2
<1> QED
  BY <1>6, <1>7

\* A step that tears nothing keeps an honest chain.
LEMMA SpendStep ==
    ASSUME NEW sig, NEW cur, NEW hi, NEW c, Honest(sig, cur, hi, c), SpendNext,
           tears = 0, tears' = 0
    PROVE  \E sig2, cur2, hi2, c2 : Honest(sig2, cur2, hi2, c2)'
<1>0. /\ hour \in Nat /\ next \in Nat /\ made = Len(sig) /\ made \in Nat /\ Signed(sig, cur)
      /\ Run(purse, sig, made - Len(purse)) /\ made - Len(purse) <= hi
      /\ Run(carried, sig, c) /\ c <= hi /\ Account(history, sig)
      /\ Heard(Station, sig, cur, hi, hour)
      /\ refused = MaxSigned => next = cur[made] /\ InStep(sig, cur)
  BY DEF Honest, Signed
<1>k. /\ DeliveryGrace \in Nat /\ ProposalTtl \in Nat /\ CertExpires \in Nat /\ Amounts \subseteq Nat
  BY SpendAssumption
<1>1. ASSUME NEW amount \in Amounts, NEW carrier \in {"fast", "slow"}, NEW done \in 1 .. 3,
             CmdPayOnCertificate(amount, carrier, done)
      PROVE  \E sig2, cur2, hi2, c2 : Honest(sig2, cur2, hi2, c2)'
  <2>1. PICK p : p = [kind |-> "spend", id |-> made, nonce |-> next, amount |-> amount,
                      expires |-> ResolveExpiry(carrier)]
    OBVIOUS
  <2>2. ResolveExpiry(carrier) \in Int
    <3>1. PICK x : x = hour + IF carrier = "fast" THEN ProposalTtl ELSE DeliveryGrace
      OBVIOUS
    <3>2. x \in Int
      BY <1>0, <1>k, <3>1
    <3>3. Max({CertExpires, x}) \in {CertExpires, x}
      BY <1>k, <3>2, MaxOfTwo
    <3> QED
      BY <1>k, <3>1, <3>2, <3>3 DEF ResolveExpiry
  <2>3. /\ p \in WalletRecord /\ p.id = made /\ p.kind = "spend" /\ p.nonce = next
        /\ p.amount = amount
    BY <1>0, <1>k, <2>1, <2>2 DEF WalletRecord, SpendRecord
  <2>4. Sign(p, 3, done) /\ amount <= Cap - Spent(history)
    BY <1>1, <2>1 DEF CmdPayOnCertificate, WithinAllowance
  <2>5. done = 3
    BY <2>4 DEF Sign
  <2>6. /\ made < MaxSigned /\ purse' = Append(purse, p) /\ next' = next + 1
        /\ history' = Append(history, p) /\ made' = made + 1
        /\ UNCHANGED <<hour, accepted, carried, booked, given, refused, proven>>
    BY <2>4, <2>5 DEF Sign
  <2>7. \E sig2, cur2 : Honest(sig2, cur2, hi, c)'
    BY <2>3, <2>4, <2>6, SigningIsHonest
  <2> QED
    BY <2>7
<1>2. ASSUME NEW done \in 1 .. 2, CmdPay(done)
      PROVE  \E sig2, cur2, hi2, c2 : Honest(sig2, cur2, hi2, c2)'
  <2>1. PICK p : p = [kind |-> "pay", id |-> made, nonce |-> next, expires |-> hour + DeliveryGrace]
    OBVIOUS
  <2>2. hour + DeliveryGrace \in Int
    BY <1>0, <1>k
  <2>3. p \in WalletRecord /\ p.id = made /\ p.kind = "pay" /\ p.nonce = next
    BY <1>0, <2>1, <2>2 DEF WalletRecord
  <2>4. Sign(p, 2, done)
    BY <1>2, <2>1 DEF CmdPay
  <2>5. done = 2
    BY <2>4 DEF Sign
  <2>6. /\ made < MaxSigned /\ purse' = Append(purse, p) /\ next' = next + 1
        /\ history' = history /\ made' = made + 1
        /\ UNCHANGED <<hour, accepted, carried, booked, given, refused, proven>>
    BY <2>4, <2>5 DEF Sign
  <2>7. \E sig2, cur2 : Honest(sig2, cur2, hi, c)'
    BY <2>3, <2>6, SigningIsHonest
  <2> QED
    BY <2>7
<1>3. ASSUME CertReturn PROVE \E sig2, cur2, hi2, c2 : Honest(sig2, cur2, hi2, c2)'
  <2>1. PICK p : p = [kind |-> "return", id |-> made]
    OBVIOUS
  <2>3. p \in WalletRecord /\ p.id = made /\ p.kind = "return"
    BY <1>0, <2>1 DEF WalletRecord
  <2>6. /\ made < MaxSigned /\ purse' = Append(purse, p) /\ next' = next
        /\ history' = history /\ made' = made + 1
        /\ UNCHANGED <<hour, accepted, carried, booked, given, refused, proven>>
    BY <1>3, <2>1 DEF CertReturn
  <2>7. \E sig2, cur2 : Honest(sig2, cur2, hi, c)'
    BY <2>3, <2>6, SigningIsHonest
  <2> QED
    BY <2>7
<1>4. ASSUME CmdSync PROVE \E sig2, cur2, hi2, c2 : Honest(sig2, cur2, hi2, c2)'
  <2>1. Reconciled \in Nat /\ (refused = MaxSigned => Reconciled = next)
    BY ReconciledInStep
  <2>2. next' \in Nat /\ (refused = MaxSigned => next' = next) /\ Station' = Station
    BY <1>4, <2>1 DEF CmdSync, Station
  <2>3. Honest(sig, cur, hi, c)'
    BY <1>4, <2>2 DEF CmdSync, Honest
  <2> QED
    BY <2>3
<1>5. ASSUME NEW i \in DOMAIN history, Accept(i)
      PROVE  \E sig2, cur2, hi2, c2 : Honest(sig2, cur2, hi2, c2)'
  <2>1. history[i].amount > 0 /\ accepted' = accepted \cup {history[i]}
    BY <1>5 DEF Accept, VerifyOfflineSpend
  <2>2. history[i] \in SpendRecord /\ history[i].id < made /\ history[i] = sig[history[i].id + 1]
    BY <1>0 DEF Account
  <2>3. \A p \in accepted' : p \in SpendRecord /\ p.amount > 0 /\ p.id < made /\ p = sig[p.id + 1]
    BY <2>1, <2>2 DEF Honest
  <2>4. Station' = Station
    BY <1>5 DEF Accept, Station
  <2>5. Honest(sig, cur, hi, c)'
    BY <1>0, <1>5, <2>3, <2>4 DEF Accept, Honest
  <2> QED
    BY <2>5
<1>6. ASSUME CmdSubmit PROVE \E sig2, cur2, hi2, c2 : Honest(sig2, cur2, hi2, c2)'
  <2>1. /\ Ingest(purse) /\ purse' = <<>>
        /\ UNCHANGED <<hour, next, history, made, accepted, carried>>
    BY <1>6 DEF CmdSubmit
  <2>2. PICK bundle : bundle = purse
    OBVIOUS
  <2>3. PICK b : b = made - Len(purse)
    OBVIOUS
  <2>4. Run(bundle, sig, b) /\ b <= hi /\ Ingest(bundle)
    BY <1>0, <2>1, <2>2, <2>3
  <2>5. b + Len(bundle) = made
    <3>1. Len(purse) \in Nat
      BY <1>0 DEF Run
    <3> QED
      BY <1>0, <2>2, <2>3, <3>1
  <2>6. \E h : Honest(sig, cur, h, c)'
    BY <2>1, <2>4, <2>5, IngestIsHonest
  <2> QED
    BY <2>6
<1>7. ASSUME CmdExport PROVE \E sig2, cur2, hi2, c2 : Honest(sig2, cur2, hi2, c2)'
  <2>1. PICK b : b = made - Len(purse)
    OBVIOUS
  <2>2. Station' = Station
    BY <1>7 DEF CmdExport, Station
  <2>3. Honest(sig, cur, hi, b)'
    BY <1>0, <1>7, <2>1, <2>2 DEF CmdExport, Honest
  <2> QED
    BY <2>3
<1>8. ASSUME Deliver PROVE \E sig2, cur2, hi2, c2 : Honest(sig2, cur2, hi2, c2)'
  <2>1. /\ Ingest(carried) /\ purse' = purse
        /\ UNCHANGED <<hour, next, history, made, accepted, carried>>
    BY <1>8 DEF Deliver
  <2>2. PICK bundle : bundle = carried
    OBVIOUS
  <2>4. Run(bundle, sig, c) /\ c <= hi /\ Ingest(bundle)
    BY <1>0, <2>1, <2>2
  <2>6. \E h : Honest(sig, cur, h, c)'
    BY <2>1, <2>4, IngestIsHonest
  <2> QED
    BY <2>6
<1>9. ASSUME HourPasses PROVE \E sig2, cur2, hi2, c2 : Honest(sig2, cur2, hi2, c2)'
  <2>1. hour' \in Nat /\ hour' \in Int /\ hour \in Int /\ hour <= hour' /\ Station' = Station
    BY <1>0, <1>9 DEF HourPasses, Station
  <2>2. PICK t : t = hour'
    OBVIOUS
  <2>3. Heard(Station, sig, cur, hi, t)
    BY <1>0, <2>1, <2>2, HeardLater
  <2>4. Heard(Station', sig, cur, hi, hour')
    BY <2>1, <2>2, <2>3
  <2>5. Honest(sig, cur, hi, c)'
    BY <1>9, <2>1, <2>4 DEF HourPasses, Honest
  <2> QED
    BY <2>5
<1> QED
  BY <1>1, <1>2, <1>3, <1>4, <1>5, <1>6, <1>7, <1>8, <1>9 DEF SpendNext

LEMMA SpendInvHolds == SpendSpec => []SpendInv
<1>1. ASSUME SpendInv, [SpendNext]_spendVars PROVE SpendInv'
  <2>1. CASE UNCHANGED spendVars
    <3>1. tears' = tears /\ Station' = Station
      BY <2>1 DEF spendVars, Station
    <3>2. ASSUME NEW sig, NEW cur, NEW hi, NEW c, Honest(sig, cur, hi, c)
          PROVE  Honest(sig, cur, hi, c)'
      BY <2>1, <3>1, <3>2 DEF spendVars, Honest
    <3> QED
      BY <1>1, <3>1, <3>2 DEF SpendInv
  <2>2. CASE SpendNext
    <3>1. tears' \in {tears, tears + 1}
      BY <2>2 DEF SpendNext, CmdPayOnCertificate, CmdPay, Sign, CertReturn, CmdSync, Accept,
                  CmdSubmit, CmdExport, Deliver, HourPasses
    <3>2. tears \in Nat /\ tears' \in Nat /\ (tears' = 0 => tears = 0)
      BY <1>1, <3>1 DEF SpendInv
    <3>3. ASSUME tears' = 0 PROVE \E sig, cur, hi, c : Honest(sig, cur, hi, c)'
      <4>1. PICK sig, cur, hi, c : Honest(sig, cur, hi, c)
        BY <1>1, <3>2, <3>3 DEF SpendInv
      <4> QED
        BY <2>2, <3>2, <3>3, <4>1, SpendStep
    <3> QED
      BY <3>2, <3>3 DEF SpendInv
  <2> QED
    BY <1>1, <2>1, <2>2
<1> QED
  BY <1>1, SpendInitHolds, PTL DEF SpendSpec

\* No holder is proven to have overspent unless cmd_pay was cut short between
\* its writes: check_cert_backed finds room for every spend the wallet signs, in
\* whatever order, and however late and often, its bundles reach the station.
THEOREM NotConvictedTheorem == SpendSpec => []HolderIsNotConvicted
<1>1. SpendInv => HolderIsNotConvicted
  <2>1. ASSUME SpendInv, proven PROVE tears > 0
    <3>1. tears \in Nat
      BY <2>1 DEF SpendInv
    <3>2. ASSUME tears = 0 PROVE FALSE
      <4>1. PICK sig, cur, hi, c : Honest(sig, cur, hi, c)
        BY <2>1, <3>2 DEF SpendInv
      <4>2. Station.proven = FALSE /\ Station.proven = proven
        BY <4>1 DEF Honest, Heard, Station
      <4> QED
        BY <2>1, <4>2
    <3> QED
      BY <3>1, <3>2
  <2> QED
    BY <2>1 DEF HolderIsNotConvicted
<1> QED
  BY <1>1, SpendInvHolds, PTL

\* A spend a shop confirmed on a voucher (verify_offline_spend) is booked, or
\* will be admitted in its turn, but for the four ways out the property names.
THEOREM HonouredTheorem == SpendSpec => []AcceptedIsHonoured
<1>1. SpendInv => AcceptedIsHonoured
  <2>1. ASSUME SpendInv, tears = 0, hour <= SpendAdmissibleUntil, NEW p \in accepted,
               p \notin ToSet(booked), ~ (p.nonce > Len(booked)),
               ~ (hour > p.expires + SpendSkew), ~ \E g \in given : g < p.id,
               ~ (Cardinality(SpendsIn(booked)) >= MaxItems - 1), ~ (refused < p.id)
        PROVE  Admits([booked |-> booked, given |-> given], p, {})
    <3>1. PICK sig, cur, hi, c : Honest(sig, cur, hi, c)
      BY <2>1 DEF SpendInv
    <3>2. /\ hour \in Nat /\ made = Len(sig) /\ Signed(sig, cur) /\ Account(history, sig)
          /\ Heard(Station, sig, cur, hi, hour) /\ (refused = MaxSigned => InStep(sig, cur))
          /\ p \in SpendRecord /\ p.amount > 0 /\ p.id < made /\ p = sig[p.id + 1]
      BY <3>1 DEF Honest
    <3>3. /\ Station.booked = booked /\ Station.given = given /\ Station.refused = refused
      BY DEF Station
    <3>4. /\ booked \in Seq(WalletRecord) /\ hi \in 0 .. made /\ refused \in 0 .. MaxSigned
          /\ (refused = MaxSigned \/ refused < hi) /\ made \in Nat /\ MaxSigned \in Nat
          /\ Len(booked) \in Nat
      <4>1. booked \in Seq(WalletRecord) /\ hi \in 0 .. made /\ refused \in 0 .. MaxSigned
            /\ (refused = MaxSigned \/ refused < hi) /\ sig \in Seq(WalletRecord)
        BY <3>2, <3>3 DEF Heard, Signed
      <4> QED
        BY <3>2, <4>1, SpendAssumption
    <3>5. p.kind = "spend" /\ p.id \in Nat /\ p.nonce \in Nat /\ p.expires \in Int /\ p.amount \in Nat
      BY <3>2 DEF SpendRecord
    <3>6. ~ InLog(booked, p)
      BY <2>1, <3>4 DEF InLog, ToSet
    <3>7. PICK k : k = p.id + 1
      OBVIOUS
    <3>8. k \in 1 .. Len(sig) /\ k - 1 = p.id /\ p = sig[k]
      BY <3>2, <3>4, <3>5, <3>7
    <3>9. Cardinality(SpendsIn(booked)) \in Nat /\ MaxItems \in Nat /\ SpendSkew \in Nat
          /\ SpendAdmissibleUntil \in Int
      BY <3>4, SpendsInIs, SpendAssumption DEF SpendAdmissibleUntil
    <3>10. ~ ForGood(Station, p, hour)
      BY <2>1, <3>2, <3>3, <3>5, <3>9 DEF ForGood
    <3>11. k > hi
      <4>1. SUFFICES ASSUME k <= hi PROVE FALSE
        BY <3>4, <3>8
      <4>2. k \in 1 .. hi
        BY <3>4, <3>8, <4>1
      <4>3. p.id < refused => InLog(booked, p)
        BY <3>2, <3>3, <3>5, <3>8, <4>2 DEF Heard
      <4>4. p.id = refused => InLog(booked, p) \/ ForGood(Station, p, hour)
        BY <3>2, <3>3, <3>5, <3>8, <4>2 DEF Heard
      <4> QED
        BY <2>1, <3>4, <3>5, <3>6, <3>10, <4>3, <4>4
    <3>12. refused = MaxSigned
      BY <2>1, <3>4, <3>5, <3>8, <3>11
    <3>13. p.nonce = Len(booked)
      <4>1. p.nonce = cur[k - 1]
        BY <3>2, <3>5, <3>8, <3>12 DEF InStep
      <4>2. hi \in 0 .. Len(sig) /\ k - 1 \in hi .. Len(sig)
        BY <3>2, <3>4, <3>8, <3>11
      <4>3. cur[hi] <= cur[k - 1] /\ cur[hi] \in Nat
        BY <3>2, <4>2, CountGrows
      <4>4. Len(booked) = cur[hi]
        BY <3>2, <3>3, <3>12 DEF Heard
      <4> QED
        BY <2>1, <3>5, <4>1, <4>3, <4>4
    <3>14. given = {}
      <4>1. \A g \in given : g \in Nat /\ g < hi
        BY <3>2, <3>3 DEF Heard
      <4>2. \A g \in given : g < p.id
        BY <3>4, <3>5, <3>8, <3>11, <4>1
      <4> QED
        BY <2>1, <4>2
    <3>15. ~ Overspent(Station, sig[k])
      BY <3>2, <3>3, <3>5, <3>6, <3>8, NotOverspent
    <3>16. ~ (p.amount > Cap - Spent(booked))
      BY <3>3, <3>8, <3>15 DEF Overspent
    <3>17. PICK s : s = [booked |-> booked, given |-> given]
      OBVIOUS
    <3>18. s.booked = booked /\ s.given = given
      BY <3>17
    <3>19. InTurn(s, p)
      BY <2>1, <3>2, <3>5, <3>9, <3>13, <3>18 DEF InTurn
    <3>20. CertServes(s, p) /\ ~ Overspent(s, p)
      BY <3>2, <3>14, <3>16, <3>18 DEF CertServes, Overspent
    <3>21. Cardinality(SpendsIn(s.booked)) < MaxItems - 1
      BY <2>1, <3>9, <3>18
    <3>22. Admits(s, p, {})
      BY <2>1, <3>5, <3>19, <3>20, <3>21 DEF Admits
    <3> QED
      BY <3>17, <3>22
  <2> QED
    BY <2>1 DEF AcceptedIsHonoured
<1> QED
  BY <1>1, SpendInvHolds, PTL

=============================================================================
