----------------------------- MODULE TcpServer ------------------------------
(***************************************************************************)
(* A TCP listener (tcp_server.h, tcp_server.cpp): the callbacks its one IO *)
(* thread runs and the calls another thread makes on it.  m_msg_List and   *)
(* m_event_list have mutexes; m_connection_map, m_session_map and the      *)
(* UserSession inside each connection have none, so every operation on     *)
(* them is a step of its own that others may come between.  A queued       *)
(* message holds a bare pointer into its connection's UserSession: the     *)
(* session is freed with the connection, and may by then be another's.     *)
(***************************************************************************)
EXTENDS Naturals, Sequences

CONSTANTS MaxConn,      \* bound on the connections ever accepted
          User,         \* user ids
          Server        \* server ids

ASSUME IdAssumption ==
    MaxConn \in Nat /\ User \subseteq Nat \ {0} /\ Server \subseteq Nat \ {0}

\* Socket keys are handed out in order; m_socket_key_index starts at 1 and is
\* incremented before use.  0 stands for no key, no user and no server.
Key == 2 .. MaxConn + 1

VARIABLES keyIndex,     \* m_socket_key_index
          connMap,      \* the keys in m_connection_map
          sessMap,      \* m_session_map: the key of each user's connection, or 0
          ctxUser,      \* m_user_id and m_session_server_id of the UserSession
          ctxServer,    \*   in each connection's context
          shut,         \* the connections shutdown() was called on
          msgList,      \* m_msg_List
          eventList,    \* m_event_list
          io            \* where the IO thread is: idle, or inside onDisConnect

serverVars == <<keyIndex, connMap, sessMap, ctxUser, ctxServer, shut, msgList, eventList, io>>

Idle == [pc |-> "idle", key |-> 0, user |-> 0]

Accepted == 2 .. keyIndex

\* The connection object is kept by either map, and by the callback that runs on it.
Freed(k) == k \notin connMap /\ io.key # k /\ \A u \in User : sessMap[u] # k

Session(k) == [key |-> k, user |-> ctxUser[k], server |-> ctxServer[k]]

NoSession == [key |-> 0, user |-> 0, server |-> 0]

\* What a read through a queued UserSession pointer can return.  Freed memory may
\* still hold the session, be overwritten, or be the session of a later connection.
SessionReads(k) ==
    IF Freed(k)
    THEN {Session(k), NoSession} \cup {Session(j) : j \in {l \in Accepted : l > k}}
    ELSE {Session(k)}

ServerInit ==
    /\ keyIndex = 1
    /\ connMap = {}
    /\ sessMap = [u \in User |-> 0]
    /\ ctxUser = [k \in Key |-> 0] /\ ctxServer = [k \in Key |-> 0]
    /\ shut = {}
    /\ msgList = <<>> /\ eventList = <<>>
    /\ io = Idle

-----------------------------------------------------------------------------
(* Callbacks of the IO thread.                                             *)

\* Variant with a fault: key and user swapped.
SetEventSwapped(k, user, server) ==
    eventList' = Append(eventList, [key |-> user, user |-> k, server |-> server])

\* setEvent.  Only DISCONNECTED events are queued here: every user of the listener
\* merely logs a CONNECTED event.
SetEvent(k, user, server) ==
    eventList' = Append(eventList, [key |-> k, user |-> user, server |-> server])

\* No other thread can name the new connection before its first message.
OnConnect ==
    /\ io = Idle
    /\ keyIndex <= MaxConn
    /\ keyIndex' = keyIndex + 1
    /\ connMap' = connMap \cup {keyIndex'}
    /\ ctxUser' = [ctxUser EXCEPT ![keyIndex'] = 0]
    /\ ctxServer' = [ctxServer EXCEPT ![keyIndex'] = 0]
    /\ UNCHANGED <<sessMap, shut, msgList, eventList, io>>

\* One complete message of the buffer; the mutex is taken anew for each.
OnMessage(k, body) ==
    /\ io = Idle
    /\ k \in connMap
    /\ msgList' = Append(msgList, [key |-> k, body |-> body])
    /\ UNCHANGED <<keyIndex, connMap, sessMap, ctxUser, ctxServer, shut, eventList, io>>

\* onDisConnect: leave the connection map ...
OnDisConnect(k) ==
    /\ io = Idle
    /\ k \in connMap
    /\ connMap' = connMap \ {k}
    /\ io' = [pc |-> "session", key |-> k, user |-> 0]
    /\ UNCHANGED <<keyIndex, sessMap, ctxUser, ctxServer, shut, msgList, eventList>>

\* ... then the session map, under the user the context names now ...
DisConnectSession ==
    /\ io.pc = "session"
    /\ io' = [io EXCEPT !.pc = "event", !.user = ctxUser[io.key]]
    /\ sessMap' = [u \in User |-> IF u = ctxUser[io.key] THEN 0 ELSE sessMap[u]]
    /\ UNCHANGED <<keyIndex, connMap, ctxUser, ctxServer, shut, msgList, eventList>>

\* ... then report it, with the server the context names by then.
DisConnectEvent ==
    /\ io.pc = "event"
    /\ SetEvent(io.key, io.user, ctxServer[io.key])
    /\ io' = Idle
    /\ UNCHANGED <<keyIndex, connMap, sessMap, ctxUser, ctxServer, shut, msgList>>

-----------------------------------------------------------------------------
(* What the calls of another thread do; the caller says what stays.        *)

\* The caller's list, cleared before, gets what was queued.
ReceiveMsg == msgList' = <<>>

GetEvents == eventList' = <<>>

\* DisConnect only shuts the sending side; the peer closes in answer.
DisConnect(k) == shut' = IF k \in connMap THEN shut \cup {k} ELSE shut

-----------------------------------------------------------------------------

MessageIn(Body) == [key : Key, body : Body]
Event == [key : Key, user : User \cup {0}, server : Server \cup {0}]

ServerTypeOK(Body) ==
    /\ keyIndex \in 1 .. MaxConn + 1
    /\ connMap \subseteq Key /\ shut \subseteq Key
    /\ sessMap \in [User -> Key \cup {0}]
    /\ ctxUser \in [Key -> User \cup {0}]
    /\ ctxServer \in [Key -> Server \cup {0}]
    /\ msgList \in Seq(MessageIn(Body))
    /\ eventList \in Seq(Event)
    /\ io \in [pc : {"idle", "session", "event"}, key : Key \cup {0}, user : User \cup {0}]
=============================================================================
