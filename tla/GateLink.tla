------------------------------ MODULE GateLink ------------------------------
(***************************************************************************)
(* The link from a logic server to the gateway (tcp_client.cpp,            *)
(* logic_manager.cpp), with the gateway at its other end (GateServers).    *)
(* The library connects, reports, and connects again when a connection is  *)
(* lost; its callbacks put events into m_event_list.  The "MsgThread" of   *)
(* the logic server takes the events and answers each CONNECTED one with   *)
(* SVRLOGIN_CMD, over whichever connection there is by then.               *)
(*                                                                         *)
(* Every step conjoins a step of GateServers or leaves the gateway alone.  *)
(* The two ends of a connection are lost at different times, and what is   *)
(* on the way is lost with the gateway's end.  A logic server may crash    *)
(* and be started again.  The messages it receives are those LogicHandoff  *)
(* begins with; SVRLOGIN_ACK is only freed and is left out.                *)
(***************************************************************************)
EXTENDS GateServers

VARIABLES valid,        \* m_valid
          status,       \* m_status
          link,         \* m_client.connection(): the key of its other end, or 0
          cliEvents,    \* m_event_list
          evts,         \* evts, a local of MsgThread
          tpc,          \* where MsgThread is
          net           \* the logins on the way over each connection

clientVars == <<valid, status, link, cliEvents, evts, tpc>>
linkVars == <<clientVars, net>>
allVars == <<vars, linkVars>>

\* One server's client as a process starts with it.
Fresh(s) ==
    /\ valid' = [valid EXCEPT ![s] = FALSE]
    /\ status' = [status EXCEPT ![s] = "disconnected"]
    /\ link' = [link EXCEPT ![s] = 0]
    /\ cliEvents' = [cliEvents EXCEPT ![s] = <<>>]
    /\ evts' = [evts EXCEPT ![s] = <<>>]
    /\ tpc' = [tpc EXCEPT ![s] = "start"]

LinkInit ==
    /\ Init
    /\ valid = [s \in Server |-> FALSE]
    /\ status = [s \in Server |-> "disconnected"]
    /\ link = [s \in Server |-> 0]
    /\ cliEvents = [s \in Server |-> <<>>] /\ evts = [s \in Server |-> <<>>]
    /\ tpc = [s \in Server |-> "start"]
    /\ net = [k \in Key |-> 0]

-----------------------------------------------------------------------------
(* The library's thread in the logic server, and the network.              *)

\* Variant with a fault: one event waits at most.
SendEventUnlessWaiting(s, id) ==
    cliEvents' = [cliEvents EXCEPT ![s] = IF @ = <<>> THEN <<id>> ELSE @]

SendEvent(s, id) == cliEvents' = [cliEvents EXCEPT ![s] = Append(@, id)]

\* Retry is on: m_client connects whenever it has no connection, once connect() was called.
OnConnected(s) ==
    /\ valid[s] /\ link[s] = 0
    /\ Connect(s)
    /\ link' = [link EXCEPT ![s] = keyIndex']
    /\ SendEvent(s, "connected")
    /\ status' = [status EXCEPT ![s] = "connected"]
    /\ UNCHANGED <<valid, evts, tpc, net>>

\* The logic server's end is lost; the gateway closes its own when it learns of that.
OnDisconnect(s) ==
    /\ link[s] # 0
    /\ link' = [link EXCEPT ![s] = 0]
    /\ SendEvent(s, "disconnected")
    /\ status' = [status EXCEPT ![s] = "disconnected"]
    /\ UNCHANGED <<vars, valid, evts, tpc, net>>

LoginArrives(k) ==
    /\ net[k] > 0
    /\ SvrLoginArrives(k)
    /\ net' = [net EXCEPT ![k] = @ - 1]
    /\ UNCHANGED clientVars

GateCloses(k) == Close(k) /\ UNCHANGED linkVars

\* The process ends and is started again.
Crash(s) == tpc[s] # "start" /\ Fresh(s) /\ UNCHANGED <<vars, net>>

-----------------------------------------------------------------------------
(* MsgThread of logic server s.                                            *)

\* Start: connect() may have led to a connection before m_status is set.
StartClient(s) ==
    /\ tpc[s] = "start"
    /\ ~valid[s]
    /\ valid' = [valid EXCEPT ![s] = TRUE]
    /\ tpc' = [tpc EXCEPT ![s] = "status"]
    /\ UNCHANGED <<vars, status, link, cliEvents, evts, net>>

SetConnecting(s) ==
    /\ tpc[s] = "status"
    /\ status' = [status EXCEPT ![s] = "connecting"]
    /\ tpc' = [tpc EXCEPT ![s] = "take"]
    /\ UNCHANGED <<vars, valid, link, cliEvents, evts, net>>

\* ReceiveEvent adds to the caller's list, which OnClientEvent's caller has cleared.
ReceiveEvent(s) ==
    /\ tpc[s] = "take" /\ cliEvents[s] # <<>>
    /\ evts' = [evts EXCEPT ![s] = @ \o cliEvents[s]]
    /\ cliEvents' = [cliEvents EXCEPT ![s] = <<>>]
    /\ tpc' = [tpc EXCEPT ![s] = "handle"]
    /\ UNCHANGED <<vars, valid, status, link, net>>

\* Variant with a fault: the list is cleared after its first event.
OnClientEventFirst(s) ==
    /\ tpc[s] = "handle" /\ evts[s] # <<>>
    /\ net' = [k \in Key |->
                 IF evts[s][1] = "connected" /\ k = link[s] THEN net[k] + 1 ELSE net[k]]
    /\ evts' = [evts EXCEPT ![s] = <<>>]
    /\ UNCHANGED <<vars, valid, status, link, cliEvents, tpc>>

\* OnClientEvent: without a connection SendMessage drops the login.
OnClientEvent(s) ==
    /\ tpc[s] = "handle" /\ evts[s] # <<>>
    /\ net' = [k \in Key |->
                 IF evts[s][1] = "connected" /\ k = link[s] THEN net[k] + 1 ELSE net[k]]
    /\ evts' = [evts EXCEPT ![s] = Tail(@)]
    /\ UNCHANGED <<vars, valid, status, link, cliEvents, tpc>>

EventsDone(s) ==
    /\ tpc[s] = "handle" /\ evts[s] = <<>>
    /\ tpc' = [tpc EXCEPT ![s] = "take"]
    /\ UNCHANGED <<vars, valid, status, link, cliEvents, evts, net>>

MsgThread(s) ==
    \/ StartClient(s) \/ SetConnecting(s)
    \/ ReceiveEvent(s) \/ OnClientEvent(s) \/ EventsDone(s)

-----------------------------------------------------------------------------

GateStep == (IoDisConnect \/ ServerMsgThread) /\ UNCHANGED linkVars

LinkNext ==
    \/ \E s \in Server : OnConnected(s) \/ OnDisconnect(s) \/ Crash(s) \/ MsgThread(s)
    \/ \E k \in Key : LoginArrives(k) \/ GateCloses(k)
    \/ GateStep

\* Every thread runs on, a connection that stays up delivers, and one whose other end
\* is gone is closed.  Nothing makes a good connection be lost or a server crash.
LinkFairness ==
    /\ WF_allVars(IoDisConnect /\ UNCHANGED linkVars)
    /\ WF_allVars(ServerMsgThread /\ UNCHANGED linkVars)
    /\ \A s \in Server : WF_allVars(MsgThread(s))
    /\ \A k \in Key :
         /\ WF_allVars(LoginArrives(k))
         /\ WF_allVars(GateCloses(k) /\ \A s \in Server : link[s] # k)

LinkSpec == LinkInit /\ [][LinkNext]_allVars /\ LinkFairness

-----------------------------------------------------------------------------
(* Properties.                                                             *)

LinkTypeOK ==
    /\ TypeOK
    /\ valid \in [Server -> BOOLEAN]
    /\ status \in [Server -> {"disconnected", "connecting", "connected"}]
    /\ link \in [Server -> Key \cup {0}]
    /\ cliEvents \in [Server -> Seq({"connected", "disconnected"})]
    /\ evts \in [Server -> Seq({"connected", "disconnected"})]
    /\ tpc \in [Server -> {"start", "status", "take", "handle"}]
    /\ net \in [Key -> Nat]

\* A connection has its login coming as long as it is unanswered for: the CONNECTED
\* event it caused waits, or the login is on the way, or it has come.  A late event of
\* an earlier connection may add a second login, never replace the one that is due.
LoginUnderWay ==
    \A s \in Server : link[s] # 0 =>
        \/ \E i \in 1 .. Len(cliEvents[s]) : cliEvents[s][i] = "connected"
        \/ \E i \in 1 .. Len(evts[s]) : evts[s][i] = "connected"
        \/ net[link[s]] > 0
        \/ link[s] \in loggedIn

\* A connection that both ends keep is logged in over, whatever became of those before.
LinkLogsIn ==
    \A s \in Server, k \in Key :
        link[s] = k ~> (k \in loggedIn \/ link[s] # k \/ k \notin connMap)
=============================================================================
