---------------------------- MODULE GateClients -----------------------------
(***************************************************************************)
(* The client side of the gateway (gate_manager.cpp): the listener that    *)
(* clients connect to, with its IO thread, and the "ClientMsg" thread that *)
(* takes a batch of messages, then a batch of events, for ever.  A login   *)
(* message binds its connection to a user and a logic server; any other is *)
(* forwarded to the server its connection is bound to; the end of a        *)
(* connection is forwarded to that server as USERLOGIN_CMD.                *)
(*                                                                         *)
(* Heartbeats and logins with a wrong check key are only sent back, and    *)
(* left out.  Here the set of registered logic servers is fixed.           *)
(***************************************************************************)
EXTENDS TcpServer

CONSTANTS Registered,   \* the servers in m_server_id_list
          MaxSends,     \* bound on the messages clients send
          LoginsPerConn \* bound on the logins over one connection

ASSUME ClientsAssumption ==
    Registered \subseteq Server /\ MaxSends \in Nat /\ LoginsPerConn \in Nat

VARIABLES cpc,          \* where the ClientMsg thread is
          batch,        \* msgs, the batch of messages it is working on
          events,       \* evts, the batch of events
          target,       \* the connection AddSession is binding, or 0
          sends,        \* how many messages clients have sent
          logins,       \* how many of them, per connection, were logins
          sent          \* what a logic server was sent last

clientVars == <<cpc, batch, events, target, sends, logins, sent>>
vars == <<serverVars, clientVars>>

Login == [cmd : {"login"}, user : User, server : Server]
Game == [cmd |-> "game"]
Body == Login \cup {Game}

Nothing == [cmd |-> "none", user |-> 0, key |-> 0, server |-> 0]

Init ==
    /\ ServerInit
    /\ cpc = "event" /\ batch = <<>> /\ events = <<>> /\ target = 0
    /\ sends = 0 /\ logins = [k \in Key |-> 0]
    /\ sent = Nothing

-----------------------------------------------------------------------------
(* The clients, and the callbacks they cause in the IO thread.             *)

Connect == OnConnect /\ UNCHANGED clientVars

SendLogin(k, body) ==
    /\ sends < MaxSends /\ logins[k] < LoginsPerConn
    /\ OnMessage(k, body)
    /\ sends' = sends + 1 /\ logins' = [logins EXCEPT ![k] = @ + 1]
    /\ UNCHANGED <<cpc, batch, events, target, sent>>

SendGame(k) ==
    /\ sends < MaxSends
    /\ OnMessage(k, Game)
    /\ sends' = sends + 1
    /\ UNCHANGED <<cpc, batch, events, target, logins, sent>>

Close(k) == OnDisConnect(k) /\ UNCHANGED clientVars

IoDisConnect == (DisConnectSession \/ DisConnectEvent) /\ UNCHANGED clientVars

-----------------------------------------------------------------------------
(* The ClientMsg thread.                                                   *)

\* SendMsgToServer drops the message when the server is not registered.
SendMsgToServer(server, cmd, user, key) ==
    sent' = IF server \in Registered
            THEN [cmd |-> cmd, user |-> user, key |-> key, server |-> server]
            ELSE sent

\* The events are done: round the loop.
TakeMessages ==
    /\ cpc = "event" /\ events = <<>>
    /\ batch' = msgList /\ ReceiveMsg
    /\ cpc' = "message"
    /\ UNCHANGED <<keyIndex, connMap, sessMap, ctxUser, ctxServer, shut, eventList, io>>
    /\ UNCHANGED <<events, target, sends, logins, sent>>

\* The message being handled, and the body of it.
Current == batch[1]

Handling(cmd) == cpc = "message" /\ batch # <<>> /\ Current.body.cmd = cmd

ForwardGame ==
    /\ Handling("game")
    /\ \E s \in SessionReads(Current.key) :
           SendMsgToServer(s.server, "game", s.user, Current.key)
    /\ batch' = Tail(batch)
    /\ UNCHANGED <<serverVars, cpc, events, target, sends, logins>>

\* Variant with a fault: whether the user has a session is not looked up.
AddSessionAnyway ==
    /\ Handling("login")
    /\ \E s \in SessionReads(Current.key) :
           IF s.key \in connMap
           THEN target' = s.key /\ cpc' = "bindUser"
           ELSE target' = 0 /\ cpc' = "forward"
    /\ UNCHANGED <<serverVars, batch, events, sends, logins, sent>>

\* PRE_LOGIN_CMD with the right key calls AddSession for the socket key its session
\* names.  The user has no session yet: bind the connection, if it is still there.
AddSession ==
    /\ Handling("login")
    /\ sessMap[Current.body.user] = 0
    /\ \E s \in SessionReads(Current.key) :
           IF s.key \in connMap
           THEN target' = s.key /\ cpc' = "bindUser"
           ELSE target' = 0 /\ cpc' = "forward"
    /\ UNCHANGED <<serverVars, batch, events, sends, logins, sent>>

BindUser ==
    /\ cpc = "bindUser"
    /\ ctxUser' = [ctxUser EXCEPT ![target] = Current.body.user]
    /\ cpc' = "bindServer"
    /\ UNCHANGED <<keyIndex, connMap, sessMap, ctxServer, shut, msgList, eventList, io>>
    /\ UNCHANGED <<batch, events, target, sends, logins, sent>>

BindServer ==
    /\ cpc = "bindServer"
    /\ ctxServer' = [ctxServer EXCEPT ![target] = Current.body.server]
    /\ cpc' = "insert"
    /\ UNCHANGED <<keyIndex, connMap, sessMap, ctxUser, shut, msgList, eventList, io>>
    /\ UNCHANGED <<batch, events, target, sends, logins, sent>>

InsertSession ==
    /\ cpc = "insert"
    /\ sessMap' = [sessMap EXCEPT ![Current.body.user] = target]
    /\ target' = 0
    /\ cpc' = "forward"
    /\ UNCHANGED <<keyIndex, connMap, ctxUser, ctxServer, shut, msgList, eventList, io>>
    /\ UNCHANGED <<batch, events, sends, logins, sent>>

\* Variant with a fault: the second login takes the session over.
RefuseSessionTaken ==
    /\ Handling("login")
    /\ sessMap[Current.body.user] # 0
    /\ sessMap' = [sessMap EXCEPT ![Current.body.user] = Current.key]
    /\ DisConnect(sessMap[Current.body.user])
    /\ cpc' = "forward"
    /\ UNCHANGED <<keyIndex, connMap, ctxUser, ctxServer, msgList, eventList, io>>
    /\ UNCHANGED <<batch, events, target, sends, logins, sent>>

\* The user has a session already: if it is another connection's, that one is shut
\* down, and the new one is not bound.
RefuseSession ==
    /\ Handling("login")
    /\ sessMap[Current.body.user] # 0
    /\ \E s \in SessionReads(Current.key) :
           IF s.key = sessMap[Current.body.user] THEN UNCHANGED shut
                                                ELSE DisConnect(sessMap[Current.body.user])
    /\ cpc' = "forward"
    /\ UNCHANGED <<keyIndex, connMap, sessMap, ctxUser, ctxServer, msgList, eventList, io>>
    /\ UNCHANGED <<batch, events, target, sends, logins, sent>>

\* Either way the login is forwarded, with what the session holds by now.
ForwardLogin ==
    /\ cpc = "forward"
    /\ \E s \in SessionReads(Current.key) :
           SendMsgToServer(Current.body.server, "login", s.user, Current.key)
    /\ batch' = Tail(batch)
    /\ cpc' = "message"
    /\ UNCHANGED <<serverVars, events, target, sends, logins>>

\* Variant with a fault: of the events taken only the first is kept.
TakeFirstEvent ==
    /\ cpc = "message" /\ batch = <<>>
    /\ events' = (IF eventList = <<>> THEN <<>> ELSE <<Head(eventList)>>) /\ GetEvents
    /\ cpc' = "event"
    /\ UNCHANGED <<keyIndex, connMap, sessMap, ctxUser, ctxServer, shut, msgList, io>>
    /\ UNCHANGED <<batch, target, sends, logins, sent>>

TakeEvents ==
    /\ cpc = "message" /\ batch = <<>>
    /\ events' = eventList /\ GetEvents
    /\ cpc' = "event"
    /\ UNCHANGED <<keyIndex, connMap, sessMap, ctxUser, ctxServer, shut, msgList, io>>
    /\ UNCHANGED <<batch, target, sends, logins, sent>>

\* The logic server is told that the player is gone.
ForwardLogout ==
    /\ cpc = "event" /\ events # <<>>
    /\ SendMsgToServer(events[1].server, "logout", events[1].user, events[1].key)
    /\ events' = Tail(events)
    /\ UNCHANGED <<serverVars, cpc, batch, target, sends, logins>>

ClientMsgThread ==
    \/ TakeMessages \/ ForwardGame \/ ForwardLogin
    \/ AddSession \/ BindUser \/ BindServer \/ InsertSession \/ RefuseSession
    \/ TakeEvents \/ ForwardLogout

Clients ==
    \/ Connect
    \/ \E k \in Key :
          \/ \E body \in Login : SendLogin(k, body)
          \/ SendGame(k) \/ Close(k)

Next == Clients \/ IoDisConnect \/ ClientMsgThread

Spec == Init /\ [][Next]_vars

\* Both threads run on, and a client whose connection is shut down closes it.
Fairness ==
    /\ WF_vars(IoDisConnect) /\ WF_vars(ClientMsgThread)
    /\ \A k \in Key : WF_vars(k \in shut /\ Close(k))

FairSpec == Spec /\ Fairness

-----------------------------------------------------------------------------
(* Properties.                                                             *)

Sent == [cmd : {"login", "game", "logout"}, user : User \cup {0}, key : Key, server : Server]

TypeOK ==
    /\ ServerTypeOK(Body)
    /\ cpc \in {"message", "bindUser", "bindServer", "insert", "forward", "event"}
    /\ batch \in Seq(MessageIn(Body)) /\ events \in Seq(Event)
    /\ target \in Key \cup {0}
    /\ sends \in 0 .. MaxSends /\ logins \in [Key -> 0 .. LoginsPerConn]
    /\ sent \in Sent \cup {Nothing}

\* The connection whose context AddSession has written but not yet entered in the map.
Binding(k) == target = k /\ cpc \in {"bindServer", "insert"}

\* A live connection that speaks for a user is the one m_session_map names for that
\* user, so messages for the user reach it and no second one can speak for him; this
\* although both threads change the map and the contexts, and although the socket
\* key given to AddSession is read through a pointer that may be stale.
SessionOwner ==
    \A k \in connMap : ctxUser[k] # 0 => Binding(k) \/ sessMap[ctxUser[k]] = k

\* The session of a user never passes from a connection that is still up to another,
\* nor is it dropped: a second login can only make the first one's peer close.
NoTakeover ==
    [][\A u \in User : sessMap[u] # 0 /\ sessMap'[u] # sessMap[u] =>
           sessMap'[u] = 0 /\ sessMap[u] \notin connMap]_vars

\* A login of another user over the connection has passed the look at m_connection_map,
\* but has not written its server to the context.
Rebinding(k) == target = k /\ cpc \in {"bindUser", "bindServer"}

\* The server the connection's context names, or is just being given.
ServerToBe(k) == IF Rebinding(k) THEN Current.body.server ELSE ctxServer[k]

\* When a bound connection goes away, the logic server of its session is told of the
\* logout; but one that has just then been given to another login may tell that login's
\* server instead, and the first is never told: the event's server is read anew, after
\* the session map was left.
LogoutReported ==
    \A k \in Key, u \in User, s, r \in Registered :
        (io = [pc |-> "event", key |-> k, user |-> u] /\ ctxServer[k] = s /\ ServerToBe(k) = r)
            ~> \E t \in {s, r} : sent = [cmd |-> "logout", user |-> u, key |-> k, server |-> t]

\* USERLOGIN_CMD says that the player is offline: no connection that is up speaks for
\* a user in whose name it is forwarded.
LogoutMeansOffline ==
    [][ForwardLogout /\ events[1].user # 0 =>
           \A k \in connMap : ctxUser[k] # events[1].user]_vars
=============================================================================
