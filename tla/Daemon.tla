------------------------------- MODULE Daemon -------------------------------
(***************************************************************************)
(* The station as a process: one core thread that serves a queue of        *)
(* commands (core.rs, Core::run), the tasks around it that send commands   *)
(* and wait for the replies (server.rs, mobile_server.rs, the timers of    *)
(* station.rs), the watch on the log's tail that parked long-polls wait    *)
(* on, a handler's panic, and Station::shutdown.                           *)
(*                                                                         *)
(* What a command does is two appends (a sweep or a write) or a look at    *)
(* what is new (a long-poll); Station::shutdown waits for the timers and   *)
(* the HTTP server, not for the connections of the socket nor for the core *)
(* thread.                                                                 *)
(***************************************************************************)
EXTENDS Naturals, Sequences, FiniteSets, SequencesExt

CONSTANTS
    Timers,    \* tasks that sweep: their join handles are kept
    Phones,    \* requests of the HTTP server: graceful shutdown waits for them
    Sockets,   \* connections of the Unix socket and the peer port: nobody waits
    MaxCalls   \* bound of the model: commands sent

\* A task is one of a kind; "http" and "main" name the server and shutdown.
ASSUME DaemonAssumption ==
    /\ Timers \cap (Phones \cup Sockets) = {}
    /\ {"http", "main"} \cap (Timers \cup Phones \cup Sockets) = {}

VARIABLES
    process,   \* "serving", "stopping", "ended" or "crashed"
    box,       \* the core's mpsc queue
    core,      \* the core thread: what it is at, and on which command
    tail,      \* entries of the log
    watched,   \* the tail last published to the watch channel
    caller,    \* what each task waits for
    over,      \* the timers that have stopped, and "http"
    calls      \* commands sent so far

daemonVars == <<process, box, core, tail, watched, caller, over, calls>>

Callers == Timers \cup Phones \cup Sockets

Running == process \in {"serving", "stopping"}

NoCommand == [from |-> "none", does |-> "nothing", id |-> 0]

Free(c) == [at |-> "idle", id |-> 0, cursor |-> caller[c].cursor, seen |-> 0]

\* CoreHandle: a command is queued with the sender of its reply.  Once the
\* core has stopped the queue is closed, and the call returns at once.
Queues(c, does) ==
    /\ calls < MaxCalls
    /\ calls' = calls + 1
    /\ IF core.at = "stopped"
       THEN /\ box' = box
            /\ caller' = [caller EXCEPT ![c] = Free(c)]
       ELSE /\ box' = Append(box, [from |-> c, does |-> does, id |-> calls + 1])
            /\ caller' = [caller EXCEPT ![c].at = "waiting", ![c].id = calls + 1]
    /\ UNCHANGED <<process, core, tail, watched, over>>

\* sweep_timer and its like: the tick and the shutdown flag are raced, so a
\* timer may sweep again before it sees the flag.
Sweep(t) ==
    /\ Running /\ t \notin over /\ caller[t].at = "idle"
    /\ Queues(t, "sweep")

TimerEnds(t) ==
    /\ process = "stopping" /\ t \notin over /\ caller[t].at = "idle"
    /\ over' = over \cup {t}
    /\ UNCHANGED <<process, box, core, tail, watched, caller, calls>>

\* A connection stays until the process ends.
SocketCall(s) ==
    /\ Running /\ caller[s].at = "idle"
    /\ Queues(s, "write")

\* POST /subscribe.
LongPoll(p) ==
    /\ Running /\ "http" \notin over /\ caller[p].at = "idle"
    /\ Queues(p, "subscribe")

\* The watch has a value this receiver has not seen: poll_events again.
Wake(p) ==
    /\ Running /\ caller[p].at = "parked" /\ watched > caller[p].seen
    /\ IF core.at = "stopped"
       THEN caller' = [caller EXCEPT ![p].seen = watched] /\ UNCHANGED <<box, calls>>
       ELSE /\ box' = Append(box, [from |-> p, does |-> "collect", id |-> caller[p].id])
            /\ caller' = [caller EXCEPT ![p].at = "waiting", ![p].seen = watched]
            /\ UNCHANGED calls
    /\ UNCHANGED <<process, core, tail, watched, over>>

\* The hold is over: poll_events with force, which always has a reply.
HoldEnds(p) ==
    /\ Running /\ caller[p].at = "parked" /\ core.at # "stopped"
    /\ box' = Append(box, [from |-> p, does |-> "heartbeat", id |-> caller[p].id])
    /\ caller' = [caller EXCEPT ![p].at = "waiting"]
    /\ UNCHANGED <<process, core, tail, watched, over, calls>>

\* The core has dropped the sender of the watch: 503.
WatchCloses(p) ==
    /\ Running /\ caller[p].at = "parked" /\ core.at = "stopped"
    /\ caller' = [caller EXCEPT ![p] = Free(p)]
    /\ UNCHANGED <<process, box, core, tail, watched, over, calls>>

\* The phone goes away and its handler is dropped; the command stays.
HangUp(p) ==
    /\ Running /\ caller[p].at \in {"waiting", "parked"}
    /\ caller' = [caller EXCEPT ![p] = Free(p)]
    /\ UNCHANGED <<process, box, core, tail, watched, over, calls>>

\* The HTTP server takes no more requests and waits for those it has.
ServerEnds ==
    /\ process = "stopping" /\ "http" \notin over
    /\ \A p \in Phones : caller[p].at = "idle"
    /\ over' = over \cup {"http"}
    /\ UNCHANGED <<process, box, core, tail, watched, caller, calls>>
-----------------------------------------------------------------------------
(* The core thread.                                                        *)

\* The reply to a command reaches its caller unless that has gone away.
Replied(cmd, state) ==
    LET c == cmd.from
    IN  IF caller[c].at = "waiting" /\ caller[c].id = cmd.id
        THEN [caller EXCEPT ![c] = state]
        ELSE caller

\* Slip: the callers whose commands were still queued are left waiting.
LeftBehind == caller

\* The queue is dropped with the senders of the replies in it: a call returns,
\* and a poll of a parked request goes back to the watch, which has closed.
Dropped ==
    LET Lost(c) == {box[i] : i \in {j \in DOMAIN box :
                                 box[j].from = c /\ box[j].id = caller[c].id}}
    IN  [c \in Callers |->
            CASE Lost(c) = {} -> caller[c]
              [] \E cmd \in Lost(c) : cmd.does = "collect" -> [caller[c] EXCEPT !.at = "parked"]
              [] OTHER -> Free(c)]

Serve ==
    /\ Running /\ core.at = "idle" /\ box # <<>>
    /\ IF Head(box).does = "shutdown"
       THEN /\ core' = [at |-> "stopped", cmd |-> NoCommand]
            /\ box' = <<>>
            /\ caller' = Dropped
       ELSE /\ core' = [at |-> "begun", cmd |-> Head(box)]
            /\ box' = Tail(box)
            /\ UNCHANGED caller
    /\ UNCHANGED <<process, tail, watched, over, calls>>

\* A sweep or a write: its first append, then its second and the reply.
FirstAppend ==
    /\ Running /\ core.at = "begun" /\ core.cmd.does \in {"sweep", "write"}
    /\ tail' = tail + 1
    /\ core' = [core EXCEPT !.at = "half"]
    /\ UNCHANGED <<process, box, watched, caller, over, calls>>

SecondAppend ==
    /\ Running /\ core.at = "half"
    /\ tail' = tail + 1
    /\ core' = [core EXCEPT !.at = "done"]
    /\ caller' = Replied(core.cmd, Free(core.cmd.from))
    /\ UNCHANGED <<process, box, watched, over, calls>>

\* do_subscribe and do_collect_events: news, a heartbeat, or wait.  A handle's
\* own receiver of the watch has seen nothing but its first value.
Parks(cmd, p) ==
    [at |-> "parked", id |-> cmd.id, cursor |-> caller[p].cursor,
     seen |-> IF cmd.does = "subscribe" THEN 0 ELSE caller[p].seen]

Poll ==
    /\ Running /\ core.at = "begun" /\ core.cmd.does \in {"subscribe", "collect", "heartbeat"}
    /\ LET p == core.cmd.from
       IN  caller' =
             Replied(core.cmd,
                     IF tail > caller[p].cursor \/ core.cmd.does = "heartbeat"
                     THEN [Free(p) EXCEPT !.cursor = tail]
                     ELSE Parks(core.cmd, p))
    /\ core' = [core EXCEPT !.at = "done"]
    /\ UNCHANGED <<process, box, tail, watched, over, calls>>

PublishTail ==
    /\ Running /\ core.at = "done"
    /\ watched' = tail
    /\ core' = [at |-> "idle", cmd |-> NoCommand]
    /\ UNCHANGED <<process, box, tail, caller, over, calls>>

\* A handler panics: its caller is answered and the process exits.
Panic ==
    /\ Running /\ core.at \in {"begun", "half"}
    /\ process' = "crashed"
    /\ UNCHANGED <<box, core, tail, watched, caller, over, calls>>
-----------------------------------------------------------------------------
(* Station::shutdown.                                                      *)

Signal ==
    /\ process = "serving"
    /\ process' = "stopping"
    /\ box' = IF core.at = "stopped" THEN box
              ELSE Append(box, [from |-> "main", does |-> "shutdown", id |-> 0])
    /\ UNCHANGED <<core, tail, watched, caller, over, calls>>

\* Slip: nothing is waited for.
NothingJoined == TRUE

Joined == Timers \cup {"http"} \subseteq over

Exit ==
    /\ process = "stopping" /\ Joined
    /\ process' = "ended"
    /\ UNCHANGED <<box, core, tail, watched, caller, over, calls>>
-----------------------------------------------------------------------------
DaemonInit ==
    /\ process = "serving" /\ box = <<>> /\ over = {} /\ calls = 0
    /\ core = [at |-> "idle", cmd |-> NoCommand]
    /\ tail \in 0 .. 1 /\ watched = 0
    /\ caller = [c \in Callers |-> [at |-> "idle", id |-> 0, cursor |-> tail, seen |-> 0]]

CoreStep == Serve \/ FirstAppend \/ SecondAppend \/ Poll \/ PublishTail

DaemonNext ==
    \/ \E t \in Timers : Sweep(t) \/ TimerEnds(t)
    \/ \E s \in Sockets : SocketCall(s)
    \/ \E p \in Phones :
         LongPoll(p) \/ Wake(p) \/ HoldEnds(p) \/ WatchCloses(p) \/ HangUp(p)
    \/ ServerEnds
    \/ CoreStep
    \/ Panic
    \/ Signal
    \/ Exit

DaemonSpec == DaemonInit /\ [][DaemonNext]_daemonVars
-----------------------------------------------------------------------------
\* A clean stop never cuts a sweep in two: Station::shutdown waits for the
\* timers, and a timer for the reply.  (It may cut what a connection or a phone
\* that hung up has asked for: nobody waits for the core thread.)
SweepsAreNotCut == process = "ended" => ~(core.at = "half" /\ core.cmd.from \in Timers)

\* Nobody waits in vain: while the process runs, what a caller waits for is on
\* its way.  The command is queued or in hand; a parked poll that missed news has
\* a wake-up to come, or the end of the watch; and while a shutdown waits for all
\* of them, the core has stopped or has yet to reach the command to stop.
NobodyWaitsInVain ==
    Running =>
      /\ \A c \in Callers : caller[c].at = "waiting" =>
           \E cmd \in ToSet(box) \cup (IF core.at \in {"begun", "half"} THEN {core.cmd} ELSE {}) :
               cmd.from = c /\ cmd.id = caller[c].id
      /\ \A p \in Phones : caller[p].at = "parked" /\ tail > caller[p].cursor =>
           watched > caller[p].seen \/ core.at \in {"half", "done", "stopped"}
      /\ core.at = "stopped" => box = <<>>
      /\ process = "stopping" =>
           core.at = "stopped" \/ \E cmd \in ToSet(box) : cmd.does = "shutdown"
=============================================================================
