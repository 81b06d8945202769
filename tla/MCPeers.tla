------------------------------ MODULE MCPeers -------------------------------
(***************************************************************************)
(* Small instances of what a station does around its log, with its peers,  *)
(* its phones, its disk, the wallets out of its reach, its threads and its *)
(* browse index: Replica, Push, Airtime, Channel, AtRest, OfflineSpend,    *)
(* Daemon and Browse.  They share no state, so a behaviour of one says     *)
(* nothing of the others: each behaviour here is one of a single           *)
(* component, `topic', with the others at rest.                            *)
(***************************************************************************)
EXTENDS Replica, Push, Airtime, Channel, AtRest, OfflineSpend, Daemon, MCBrowse

CONSTANTS e1, e2, e3, b1, b2, h1, h2, h3, t1, p1, s1

VARIABLE topic

stationVars ==
    <<replicaVars, pushVars, airtimeVars, channelVars, atRestVars, spendVars>>

peersVars == <<stationVars, daemonVars, browseVars, topic>>

\* e2 is larger than a page.
MCSize == [e \in LogEntries |-> IF e = e2 THEN 3 ELSE 1]

\* A bulk bundle of two chunks for a queue of one.
MCChunkCount == [b \in Pushes |-> 2]
MCPushClass  == [b \in Pushes |-> 2]
MCQueueCap   == [c \in 0 .. 2 |-> 1]

MCCaps == [c \in 0 .. 2 |-> 1]

\* Two events and the phone's enrollment, or one entry of no concern to it.
ChannelBounds == (\E i \in DOMAIN events' : events'[i] = "other") => Len(events') <= 2

\* After a torn payment the holder signs at most its second record.
SpendBounds == tears' > 0 => made' <= 2

Init ==
    /\ ReplicaInit /\ PushInit /\ AirtimeInit /\ ChannelInit /\ AtRestInit
    /\ SpendInit /\ DaemonInit /\ BrowseInit
    /\ topic \in {"replica", "push", "airtime", "channel", "atrest", "spend",
                  "daemon", "browse"}
    /\ topic # "replica" => allowed
    /\ topic # "daemon" => tail = 0

Next ==
    \/ /\ topic = "replica" /\ ReplicaNext
       /\ UNCHANGED <<pushVars, airtimeVars, channelVars, atRestVars, spendVars,
                      daemonVars, browseVars, topic>>
    \/ /\ topic = "push" /\ PushNext
       /\ UNCHANGED <<replicaVars, airtimeVars, channelVars, atRestVars, spendVars,
                      daemonVars, browseVars, topic>>
    \/ /\ topic = "airtime" /\ AirtimeNext
       /\ UNCHANGED <<replicaVars, pushVars, channelVars, atRestVars, spendVars,
                      daemonVars, browseVars, topic>>
    \/ /\ topic = "channel" /\ ChannelNext /\ ChannelBounds
       /\ UNCHANGED <<replicaVars, pushVars, airtimeVars, atRestVars, spendVars,
                      daemonVars, browseVars, topic>>
    \/ /\ topic = "atrest" /\ AtRestNext
       /\ UNCHANGED <<replicaVars, pushVars, airtimeVars, channelVars, spendVars,
                      daemonVars, browseVars, topic>>
    \/ /\ topic = "spend" /\ SpendNext /\ SpendBounds
       /\ UNCHANGED <<replicaVars, pushVars, airtimeVars, channelVars, atRestVars,
                      daemonVars, browseVars, topic>>
    \/ /\ topic = "daemon" /\ DaemonNext
       /\ UNCHANGED <<stationVars, browseVars, topic>>
    \/ /\ topic = "browse" /\ BrowseSmall
       /\ UNCHANGED <<stationVars, daemonVars, topic>>

Rounds ==
    /\ topic = "replica"
    /\ Handshake \/ FetchPage \/ RoundEnds \/ ApplyPage
    /\ UNCHANGED <<pushVars, airtimeVars, channelVars, atRestVars, spendVars,
                   daemonVars, browseVars, topic>>

Spec == Init /\ [][Next]_peersVars /\ WF_peersVars(Rounds)
=============================================================================
