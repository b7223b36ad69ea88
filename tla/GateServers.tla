---------------------------- MODULE GateServers -----------------------------
(***************************************************************************)
(* The server side of the gateway (gate_manager.cpp): the listener logic   *)
(* servers connect to and the "ServerMsg" thread, which keeps              *)
(* m_server_id_list, the connection each logic server is reached by.  The  *)
(* list has no lock; the "ClientMsg" thread looks servers up in it.        *)
(*                                                                         *)
(* A logic server says who it is with SVRLOGIN_CMD, here once for each     *)
(* connection.  It reconnects when its connection is lost, and the gateway *)
(* may learn of the loss only after the new connection.  GateLink puts the *)
(* logic server's own client in the place of this environment.             *)
(***************************************************************************)
EXTENDS TcpServer

CONSTANTS Absent        \* no entry in m_server_id_list

ASSUME AbsentAssumption == Absent \notin Nat

VARIABLES serverIds,    \* m_server_id_list: server id to socket key
          peer,         \* which logic server is at the other end (0: not accepted)
          spc,          \* where the ServerMsg thread is
          batch,        \* msgs
          events,       \* evts
          alias,        \* the session the message's UserSession pointer denotes
          loggedIn,     \* the connections over which SVRLOGIN_CMD came
          answered      \* those that got SVRLOGIN_ACK

gateVars == <<serverIds, peer, spc, batch, events, alias, loggedIn, answered>>
vars == <<serverVars, gateVars>>

\* Only logins are queued here: heartbeats are sent back, and replies passed on to
\* clients, without a change to anything of the server side.
Body == [cmd : {"svrlogin"}, server : Server]

\* SendMsgToServer, which the ClientMsg thread calls: the connection a message for the
\* server is sent over.  Without an entry, or the connection, it is dropped.
Route(s) == IF serverIds[s] \in connMap THEN serverIds[s] ELSE 0

Init ==
    /\ ServerInit
    /\ serverIds = [s \in Server |-> Absent]
    /\ peer = [k \in Key |-> 0]
    /\ spc = "event" /\ batch = <<>> /\ events = <<>>
    /\ alias = NoSession
    /\ loggedIn = {} /\ answered = {}

-----------------------------------------------------------------------------
(* The logic servers, and the callbacks they cause.                        *)

Connect(s) ==
    /\ OnConnect
    /\ peer' = [peer EXCEPT ![keyIndex'] = s]
    /\ UNCHANGED <<serverIds, spc, batch, events, alias, loggedIn, answered>>

SvrLoginArrives(k) ==
    /\ OnMessage(k, [cmd |-> "svrlogin", server |-> peer[k]])
    /\ loggedIn' = loggedIn \cup {k}
    /\ UNCHANGED <<serverIds, peer, spc, batch, events, alias, answered>>

SendSvrLogin(k) == k \notin loggedIn /\ SvrLoginArrives(k)

Close(k) == OnDisConnect(k) /\ UNCHANGED gateVars

IoDisConnect == (DisConnectSession \/ DisConnectEvent) /\ UNCHANGED gateVars

-----------------------------------------------------------------------------
(* The ServerMsg thread.                                                   *)

TakeMessages ==
    /\ spc = "event" /\ events = <<>>
    /\ batch' = msgList /\ ReceiveMsg
    /\ spc' = "message"
    /\ UNCHANGED <<keyIndex, connMap, sessMap, ctxUser, ctxServer, shut, eventList, io>>
    /\ UNCHANGED <<serverIds, peer, events, alias, loggedIn, answered>>

Current == batch[1]

\* SVRLOGIN_CMD of an unknown server: enter it, under the key the session names ...
Register ==
    /\ spc = "message" /\ batch # <<>>
    /\ serverIds[Current.body.server] = Absent
    /\ alias' \in SessionReads(Current.key)
    /\ serverIds' = [serverIds EXCEPT ![Current.body.server] = alias'.key]
    /\ spc' = "ack"
    /\ UNCHANGED <<serverVars, peer, batch, events, loggedIn, answered>>

\* ... answer ...
SendAck ==
    /\ spc = "ack"
    /\ answered' = IF alias.key \in connMap THEN answered \cup {alias.key} ELSE answered
    /\ spc' = "name"
    /\ UNCHANGED <<serverVars, serverIds, peer, batch, events, alias, loggedIn>>

\* ... and name the server in the session.  A session freed and not reused is gone,
\* and what is written there is lost.
NameSession ==
    /\ spc = "name"
    /\ ctxServer' = IF alias.key = 0 THEN ctxServer
                    ELSE [ctxServer EXCEPT ![alias.key] = Current.body.server]
    /\ batch' = Tail(batch)
    /\ alias' = NoSession
    /\ spc' = "message"
    /\ UNCHANGED <<keyIndex, connMap, sessMap, ctxUser, shut, msgList, eventList, io>>
    /\ UNCHANGED <<serverIds, peer, events, loggedIn, answered>>

\* Variant with a fault: the new connection replaces the entry.
IgnoreLoginNot ==
    /\ spc = "message" /\ batch # <<>>
    /\ serverIds[Current.body.server] # Absent
    /\ serverIds' = [serverIds EXCEPT ![Current.body.server] = Current.key]
    /\ batch' = Tail(batch)
    /\ UNCHANGED <<serverVars, peer, spc, events, alias, loggedIn, answered>>

\* A server that has an entry already gets neither a new one nor an answer.
IgnoreLogin ==
    /\ spc = "message" /\ batch # <<>>
    /\ serverIds[Current.body.server] # Absent
    /\ batch' = Tail(batch)
    /\ UNCHANGED <<serverVars, serverIds, peer, spc, events, alias, loggedIn, answered>>

TakeEvents ==
    /\ spc = "message" /\ batch = <<>>
    /\ events' = eventList /\ GetEvents
    /\ spc' = "event"
    /\ UNCHANGED <<keyIndex, connMap, sessMap, ctxUser, ctxServer, shut, msgList, io>>
    /\ UNCHANGED <<serverIds, peer, batch, alias, loggedIn, answered>>

\* Variant with a fault: only an entry whose connection is up goes.
UnregisterIfUp ==
    /\ spc = "event" /\ events # <<>>
    /\ serverIds' = [s \in Server |-> IF s = events[1].server /\ Route(s) # 0
                                       THEN Absent ELSE serverIds[s]]
    /\ events' = Tail(events)
    /\ UNCHANGED <<serverVars, peer, spc, batch, alias, loggedIn, answered>>

\* OnGateServerEvent: the entry of the server the connection was named for goes.
Unregister ==
    /\ spc = "event" /\ events # <<>>
    /\ serverIds' = [s \in Server |-> IF s = events[1].server THEN Absent ELSE serverIds[s]]
    /\ events' = Tail(events)
    /\ UNCHANGED <<serverVars, peer, spc, batch, alias, loggedIn, answered>>

ServerMsgThread ==
    \/ TakeMessages \/ Register \/ SendAck \/ NameSession \/ IgnoreLogin
    \/ TakeEvents \/ Unregister

-----------------------------------------------------------------------------

LogicServers ==
    \/ \E s \in Server : Connect(s)
    \/ \E k \in Key : SendSvrLogin(k) \/ Close(k)

Next == LogicServers \/ IoDisConnect \/ ServerMsgThread

Spec == Init /\ [][Next]_vars

-----------------------------------------------------------------------------
(* Properties.                                                             *)

TypeOK ==
    /\ ServerTypeOK(Body)
    /\ serverIds \in [Server -> Key \cup {0, Absent}]
    /\ peer \in [Key -> Server \cup {0}]
    /\ spc \in {"message", "ack", "name", "event"}
    /\ batch \in Seq(MessageIn(Body)) /\ events \in Seq(Event)
    /\ alias \in [key : Key \cup {0}, user : User \cup {0}, server : Server \cup {0}]
    /\ loggedIn \subseteq Key /\ answered \subseteq Key

\* A logic server that is registered over a connection that is up stays so: the late
\* event of an earlier connection, or of a second one that was ignored, does not
\* unregister it.
LiveStaysRegistered ==
    [][\A s \in Server : Route(s) # 0 => serverIds'[s] = serverIds[s]]_vars

\* Once the IO thread has reported that a connection named for a server is lost, the
\* server's entry is removed, so that it can register anew.
LostIsUnregistered ==
    \A s \in Server, k \in Key :
        (\E i \in 1 .. Len(eventList) : eventList[i].server = s /\ eventList[i].key = k)
            ~> (serverIds[s] # k)

\* SVRLOGIN_ACK is the answer to SVRLOGIN_CMD: a connection that stays up gets it.
LoginAnswered ==
    \A k \in Key : k \in loggedIn ~> (k \in answered \/ k \notin connMap)
=============================================================================
