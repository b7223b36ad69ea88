-------------------------- MODULE GateClientsProofs -------------------------
(***************************************************************************)
(* The client side of the gateway, for any number of connections, users,   *)
(* servers and messages.                                                   *)
(***************************************************************************)
EXTENDS GateClients, TLAPS

\* The connections whose contexts still speak for a user: those that are up, and the
\* one onDisConnect has taken off m_connection_map but not yet off m_session_map.
Live == connMap \cup (IF io.pc = "session" THEN {io.key} ELSE {})

LiveOwner ==
    \A k \in Live : ctxUser[k] # 0 => Binding(k) \/ sessMap[ctxUser[k]] = k

\* Where AddSession is between its look at the maps and the insertion.
BindPhase ==
    cpc \in {"bindUser", "bindServer", "insert"} =>
        /\ batch # <<>> /\ Current.body \in Login
        /\ target \in Accepted
        /\ sessMap[Current.body.user] = 0
        /\ cpc # "bindUser" => ctxUser[target] = Current.body.user

\* Keys are those handed out; the one being taken down is on the map no more.
KeysAccepted ==
    /\ connMap \subseteq Accepted
    /\ io.pc = "session" => io.key \in Accepted \ connMap
    /\ io.pc = "event" => io.key \in Key

InForward == cpc = "forward" => batch # <<>> /\ Current.body \in Login

IInv == TypeOK /\ LiveOwner /\ BindPhase /\ KeysAccepted /\ InForward

LEMMA KeyFacts == Key \subseteq Nat \ {0} /\ (TypeOK => Accepted \subseteq Key)
BY IdAssumption DEF Key, Accepted, TypeOK, ServerTypeOK

\* What is read through a queued pointer names a key, a user and a server.
SessionType == [key : Key \cup {0}, user : User \cup {0}, server : Server \cup {0}]

LEMMA ReadsType ==
  ASSUME TypeOK, NEW k \in Key, NEW s \in SessionReads(k)
  PROVE  s \in SessionType
<1>1. \A j \in Key : Session(j) \in SessionType
  BY DEF TypeOK, ServerTypeOK, Session, SessionType
<1>2. NoSession \in SessionType
  BY DEF NoSession, SessionType
<1> QED
  BY <1>1, <1>2, KeyFacts DEF SessionReads

\* The message in hand, its connection and its body.
LEMMA CurrentType ==
  ASSUME TypeOK, batch # <<>>
  PROVE  /\ Current \in MessageIn(Body) /\ Current.key \in Key /\ Current.body \in Body
         /\ Current.body.cmd = "login" => Current.body \in Login
         /\ Tail(batch) \in Seq(MessageIn(Body))
<1>1. Current \in MessageIn(Body) /\ Tail(batch) \in Seq(MessageIn(Body))
  BY DEF TypeOK, Current
<1>2. Current.key \in Key /\ Current.body \in Body
  BY <1>1 DEF MessageIn
<1>3. Game.cmd # "login"
  BY DEF Game
<1> QED
  BY <1>1, <1>2, <1>3 DEF Body

LEMMA LoginFields ==
  ASSUME NEW body \in Login
  PROVE  body.user \in User /\ body.server \in Server
BY DEF Login

LEMMA InitIInv == Init => IInv
<1> SUFFICES ASSUME Init PROVE IInv
  OBVIOUS
<1>1. TypeOK
  BY IdAssumption, ClientsAssumption
  DEF Init, ServerInit, TypeOK, ServerTypeOK, Idle, Nothing, Key
<1>2. LiveOwner /\ BindPhase /\ KeysAccepted /\ InForward
  BY DEF Init, ServerInit, Idle, LiveOwner, Live, BindPhase, KeysAccepted, InForward
<1> QED
  BY <1>1, <1>2 DEF IInv

-----------------------------------------------------------------------------
(* Type correctness of a step, action by action.                           *)

LEMMA AppendType ==
  ASSUME NEW S, NEW q \in Seq(S), NEW e \in S
  PROVE  Append(q, e) \in Seq(S)
OBVIOUS

LEMMA SentType ==
  ASSUME TypeOK, NEW server \in Server \cup {0}, NEW cmd \in {"login", "game", "logout"},
         NEW user \in User \cup {0}, NEW key \in Key,
         SendMsgToServer(server, cmd, user, key)
  PROVE  sent' \in Sent \cup {Nothing}
<1>1. CASE server \in Registered
  BY <1>1, ClientsAssumption DEF SendMsgToServer, Sent
<1>2. CASE server \notin Registered
  BY <1>2 DEF SendMsgToServer, TypeOK
<1> QED
  BY <1>1, <1>2

LEMMA ClientTypes == TypeOK /\ KeysAccepted /\ (Clients \/ IoDisConnect) => TypeOK'
<1> SUFFICES ASSUME TypeOK, KeysAccepted, Clients \/ IoDisConnect PROVE TypeOK'
  OBVIOUS
<1> USE DEF TypeOK, ServerTypeOK
<1>1. CASE Connect
  <2>1. keyIndex' \in 1 .. MaxConn + 1 /\ keyIndex' \in Key
    BY <1>1, IdAssumption DEF Connect, OnConnect, Key
  <2> QED
    BY <1>1, <2>1 DEF Connect, OnConnect, clientVars
<1>2. ASSUME NEW k \in Key, NEW body \in Login, SendLogin(k, body)
      PROVE  TypeOK'
  <2>1. msgList' \in Seq(MessageIn(Body))
    BY <1>2, AppendType DEF SendLogin, OnMessage, MessageIn, Body
  <2>2. sends' \in 0 .. MaxSends /\ logins' \in [Key -> 0 .. LoginsPerConn]
    BY <1>2, ClientsAssumption DEF SendLogin
  <2> QED
    BY <1>2, <2>1, <2>2 DEF SendLogin, OnMessage
<1>3. ASSUME NEW k \in Key, SendGame(k)
      PROVE  TypeOK'
  <2>1. msgList' \in Seq(MessageIn(Body))
    BY <1>3, AppendType DEF SendGame, OnMessage, MessageIn, Body
  <2>2. sends' \in 0 .. MaxSends
    BY <1>3, ClientsAssumption DEF SendGame
  <2> QED
    BY <1>3, <2>1, <2>2 DEF SendGame, OnMessage
<1>4. ASSUME NEW k \in Key, Close(k)
      PROVE  TypeOK'
  BY <1>4 DEF Close, OnDisConnect, clientVars
<1>5. CASE DisConnectSession /\ UNCHANGED clientVars
  <2>1. io.key \in Key /\ ctxUser[io.key] \in User \cup {0}
    BY <1>5, KeyFacts DEF DisConnectSession, KeysAccepted
  <2>2. sessMap' \in [User -> Key \cup {0}]
    BY <1>5 DEF DisConnectSession
  <2> QED
    BY <1>5, <2>1, <2>2 DEF DisConnectSession, clientVars
<1>6. CASE DisConnectEvent /\ UNCHANGED clientVars
  <2>1. io.key \in Key
    BY <1>6 DEF DisConnectEvent, KeysAccepted
  <2>2. [key |-> io.key, user |-> io.user, server |-> ctxServer[io.key]] \in Event
    BY <2>1 DEF Event
  <2>3. eventList' \in Seq(Event)
    BY <1>6, <2>2, AppendType DEF DisConnectEvent, SetEvent
  <2> QED
    BY <1>6, <2>3 DEF DisConnectEvent, Idle, clientVars
<1> QED
  BY <1>1, <1>2, <1>3, <1>4, <1>5, <1>6 DEF Clients, IoDisConnect

LEMMA ThreadTypes == TypeOK /\ BindPhase /\ InForward /\ ClientMsgThread => TypeOK'
<1> SUFFICES ASSUME TypeOK, BindPhase, InForward, ClientMsgThread PROVE TypeOK'
  OBVIOUS
<1> USE DEF TypeOK, ServerTypeOK
<1>1. CASE TakeMessages
  BY <1>1 DEF TakeMessages, ReceiveMsg
<1>2. CASE TakeEvents
  BY <1>2 DEF TakeEvents, GetEvents
<1>3. CASE ForwardGame
  <2>1. batch # <<>>
    BY <1>3 DEF ForwardGame, Handling
  <2>2. PICK s \in SessionReads(Current.key) :
             SendMsgToServer(s.server, "game", s.user, Current.key)
    BY <1>3 DEF ForwardGame
  <2>3. s \in SessionType /\ Current.key \in Key /\ Tail(batch) \in Seq(MessageIn(Body))
    BY <2>1, CurrentType, ReadsType
  <2>4. s.user \in User \cup {0} /\ s.server \in Server \cup {0}
    BY <2>3 DEF SessionType
  <2>5. sent' \in Sent \cup {Nothing}
    BY <2>2, <2>3, <2>4, SentType
  <2> QED
    BY <1>3, <2>3, <2>5 DEF ForwardGame, serverVars
<1>4. CASE ForwardLogin
  <2>1. batch # <<>> /\ Current.body \in Login
    BY <1>4 DEF ForwardLogin, InForward
  <2>2. PICK s \in SessionReads(Current.key) :
             SendMsgToServer(Current.body.server, "login", s.user, Current.key)
    BY <1>4 DEF ForwardLogin
  <2>3. s \in SessionType /\ Current.key \in Key /\ Tail(batch) \in Seq(MessageIn(Body))
    BY <2>1, CurrentType, ReadsType
  <2>4. s.user \in User \cup {0} /\ Current.body.server \in Server \cup {0}
    BY <2>1, <2>3, LoginFields DEF SessionType
  <2>5. sent' \in Sent \cup {Nothing}
    BY <2>2, <2>3, <2>4, SentType
  <2> QED
    BY <1>4, <2>3, <2>5 DEF ForwardLogin, serverVars
<1>5. CASE AddSession
  <2>1. target' \in Key \cup {0} /\ cpc' \in {"bindUser", "forward"}
    BY <1>5 DEF AddSession
  <2> QED
    BY <1>5, <2>1 DEF AddSession, serverVars
<1>6. CASE BindUser \/ BindServer \/ InsertSession
  <2>1. Current.body \in Login /\ target \in Key
    BY <1>6, KeyFacts DEF BindUser, BindServer, InsertSession, BindPhase
  <2>2. Current.body.user \in User /\ Current.body.server \in Server
    BY <2>1, LoginFields
  <2>3. CASE BindUser
    BY <2>1, <2>2, <2>3 DEF BindUser
  <2>4. CASE BindServer
    BY <2>1, <2>2, <2>4 DEF BindServer
  <2>5. CASE InsertSession
    BY <2>1, <2>2, <2>5 DEF InsertSession
  <2> QED
    BY <1>6, <2>3, <2>4, <2>5
<1>7. CASE RefuseSession
  <2>1. shut' \subseteq Key
    BY <1>7 DEF RefuseSession, DisConnect
  <2> QED
    BY <1>7, <2>1 DEF RefuseSession
<1>8. CASE ForwardLogout
  <2>1. events # <<>> /\ events[1] \in Event /\ Tail(events) \in Seq(Event)
    BY <1>8 DEF ForwardLogout
  <2>2. /\ events[1].key \in Key /\ events[1].user \in User \cup {0}
        /\ events[1].server \in Server \cup {0}
    BY <2>1 DEF Event
  <2>3. sent' \in Sent \cup {Nothing}
    BY <1>8, <2>2, SentType DEF ForwardLogout
  <2> QED
    BY <1>8, <2>1, <2>3 DEF ForwardLogout, serverVars
<1> QED
  BY <1>1, <1>2, <1>3, <1>4, <1>5, <1>6, <1>7, <1>8 DEF ClientMsgThread

-----------------------------------------------------------------------------
(* The owners of sessions, action by action.                               *)

\* What the four parts speak of, apart from keyIndex, connMap and io.
ownerVars == <<sessMap, ctxUser, cpc, batch, target>>

LEMMA Untouched ==
  ASSUME IInv, UNCHANGED <<keyIndex, connMap, io>>, UNCHANGED ownerVars
  PROVE  LiveOwner' /\ BindPhase' /\ KeysAccepted' /\ InForward'
BY DEF IInv, ownerVars, LiveOwner, Live, Binding, BindPhase, KeysAccepted, InForward, Current, Accepted

\* The keys speak for the users they spoke for, and no new ones do.
LEMMA ConnectOwner ==
  ASSUME IInv, OnConnect, UNCHANGED clientVars
  PROVE  LiveOwner' /\ BindPhase' /\ KeysAccepted' /\ InForward'
<1> DEFINE new == keyIndex'
<1>1. /\ new \in Key /\ new \notin Accepted /\ Accepted' = Accepted \cup {new}
      /\ \A k \in Accepted : ctxUser'[k] = ctxUser[k]
      /\ ctxUser'[new] = 0
  BY IdAssumption DEF IInv, TypeOK, ServerTypeOK, OnConnect, Key, Accepted
<1>2. io' = io /\ io.pc = "idle" /\ sessMap' = sessMap /\ connMap' = connMap \cup {new}
  BY DEF OnConnect, Idle
<1>3. cpc' = cpc /\ batch' = batch /\ target' = target /\ Current' = Current
  BY DEF clientVars, Current
<1>4. KeysAccepted'
  BY <1>1, <1>2 DEF KeysAccepted, IInv
<1>5. BindPhase' /\ InForward'
  BY <1>1, <1>2, <1>3 DEF BindPhase, InForward, IInv
<1>6. LiveOwner'
  <2> SUFFICES ASSUME NEW k \in connMap \cup {new}, ctxUser'[k] # 0
               PROVE  Binding(k)' \/ sessMap'[ctxUser'[k]] = k
    BY <1>2 DEF LiveOwner, Live
  <2>1. k \in connMap /\ ctxUser'[k] = ctxUser[k]
    BY <1>1 DEF IInv, KeysAccepted
  <2> QED
    BY <1>2, <1>3, <2>1 DEF IInv, LiveOwner, Live, Binding
<1> QED
  BY <1>4, <1>5, <1>6

LEMMA DisConnectOwner ==
  ASSUME IInv, NEW k \in Key, OnDisConnect(k), UNCHANGED clientVars
  PROVE  LiveOwner' /\ BindPhase' /\ KeysAccepted' /\ InForward'
<1>1. /\ io.pc = "idle" /\ io'.pc = "session" /\ io'.key = k /\ k \in connMap
      /\ connMap' = connMap \ {k}
      /\ Accepted' = Accepted /\ sessMap' = sessMap /\ ctxUser' = ctxUser
  BY DEF OnDisConnect, Idle, Accepted
<1>2. cpc' = cpc /\ batch' = batch /\ target' = target /\ Current' = Current
  BY DEF clientVars, Current
<1>3. KeysAccepted' /\ Live' = Live
  BY <1>1 DEF IInv, KeysAccepted, Live
<1>4. LiveOwner' /\ BindPhase' /\ InForward'
  BY <1>1, <1>2, <1>3 DEF IInv, LiveOwner, Binding, BindPhase, InForward
<1> QED
  BY <1>3, <1>4

\* While a user has a session, every live connection that speaks for him is its owner.
LEMMA OwnsSession ==
  ASSUME IInv, NEW k \in Live, ctxUser[k] # 0, sessMap[ctxUser[k]] # 0
  PROVE  sessMap[ctxUser[k]] = k
<1>1. CASE Binding(k)
  BY <1>1 DEF IInv, BindPhase, Binding
<1> QED
  BY <1>1 DEF IInv, LiveOwner

LEMMA SessionGone ==
  ASSUME IInv, DisConnectSession, UNCHANGED clientVars
  PROVE  LiveOwner' /\ BindPhase' /\ KeysAccepted' /\ InForward'
<1>1. /\ io.pc = "session" /\ io'.pc = "event" /\ io'.key = io.key
      /\ connMap' = connMap /\ Accepted' = Accepted /\ ctxUser' = ctxUser
      /\ sessMap' = [u \in User |-> IF u = ctxUser[io.key] THEN 0 ELSE sessMap[u]]
  BY DEF DisConnectSession, Accepted, IInv, TypeOK, ServerTypeOK
<1>2. cpc' = cpc /\ batch' = batch /\ target' = target /\ Current' = Current
  BY DEF clientVars, Current
<1>3. io.key \in Live /\ io.key \in Key /\ io.key \notin connMap /\ connMap \subseteq Key
  BY <1>1, KeyFacts DEF Live, IInv, KeysAccepted
<1>4. KeysAccepted'
  BY <1>1, <1>3 DEF IInv, KeysAccepted
<1>5. BindPhase' /\ InForward'
  <2>1. cpc \in {"bindUser", "bindServer", "insert"} => Current.body.user \in User
    BY LoginFields DEF IInv, BindPhase
  <2> QED
    BY <1>1, <1>2, <2>1 DEF IInv, BindPhase, InForward
<1>6. LiveOwner'
  <2> SUFFICES ASSUME NEW k \in connMap, ctxUser[k] # 0
               PROVE  Binding(k)' \/ sessMap'[ctxUser[k]] = k
    BY <1>1 DEF LiveOwner, Live
  <2>1. k \in Live /\ k \in Key /\ ctxUser[k] \in User /\ k # io.key
    BY <1>3 DEF Live, IInv, TypeOK, ServerTypeOK
  <2>2. Binding(k)' <=> Binding(k)
    BY <1>2 DEF Binding
  <2>3. CASE ctxUser[k] # ctxUser[io.key]
    BY <1>1, <2>1, <2>2, <2>3 DEF IInv, LiveOwner
  <2>4. CASE ctxUser[k] = ctxUser[io.key]
    <3>1. CASE sessMap[ctxUser[k]] = 0
      <4>1. k # 0
        BY <2>1, KeyFacts
      <4> QED
        BY <2>1, <2>2, <3>1, <4>1 DEF IInv, LiveOwner
    <3>2. CASE sessMap[ctxUser[k]] # 0
      BY <1>3, <2>1, <2>4, <3>2, OwnsSession
    <3> QED
      BY <3>1, <3>2
  <2> QED
    BY <2>3, <2>4
<1> QED
  BY <1>4, <1>5, <1>6

LEMMA AddSessionOwner ==
  ASSUME IInv, AddSession
  PROVE  LiveOwner' /\ BindPhase' /\ KeysAccepted' /\ InForward'
<1>1. /\ cpc = "message" /\ batch # <<>> /\ Current.body \in Login
      /\ sessMap[Current.body.user] = 0
  BY CurrentType DEF IInv, AddSession, Handling
<1>2. /\ UNCHANGED serverVars /\ UNCHANGED batch
      /\ \/ target' \in connMap /\ cpc' = "bindUser"
         \/ cpc' = "forward"
  BY DEF AddSession
<1>3. KeysAccepted' /\ BindPhase' /\ InForward'
  BY <1>1, <1>2 DEF IInv, KeysAccepted, BindPhase, InForward, serverVars, Current, Accepted
<1>4. LiveOwner'
  BY <1>1, <1>2 DEF IInv, LiveOwner, Live, Binding, serverVars
<1> QED
  BY <1>3, <1>4

LEMMA BindUserOwner ==
  ASSUME IInv, BindUser
  PROVE  LiveOwner' /\ BindPhase' /\ KeysAccepted' /\ InForward'
<1>1. /\ cpc = "bindUser" /\ cpc' = "bindServer"
      /\ UNCHANGED <<keyIndex, connMap, sessMap, io, batch, target>>
      /\ ctxUser' = [ctxUser EXCEPT ![target] = Current.body.user]
  BY DEF BindUser
<1>2. target \in Key /\ \A k \in Key \ {target} : ctxUser'[k] = ctxUser[k]
  BY <1>1, KeyFacts DEF IInv, BindPhase, TypeOK, ServerTypeOK
<1>3. ctxUser'[target] = Current.body.user
  BY <1>1, <1>2 DEF IInv, TypeOK, ServerTypeOK
<1>4. KeysAccepted' /\ BindPhase' /\ InForward'
  BY <1>1, <1>3 DEF IInv, KeysAccepted, BindPhase, InForward, Current, Accepted
<1>5. LiveOwner'
  <2> SUFFICES ASSUME NEW k \in Live, ctxUser'[k] # 0
               PROVE  Binding(k)' \/ sessMap[ctxUser'[k]] = k
    BY <1>1 DEF LiveOwner, Live
  <2>1. k \in Key
    BY KeyFacts DEF Live, IInv, KeysAccepted
  <2>2. CASE k = target
    BY <1>1, <2>2 DEF Binding
  <2>3. CASE k # target
    BY <1>1, <1>2, <2>1, <2>3 DEF IInv, LiveOwner, Binding
  <2> QED
    BY <2>2, <2>3
<1> QED
  BY <1>4, <1>5

LEMMA BindServerOwner ==
  ASSUME IInv, BindServer
  PROVE  LiveOwner' /\ BindPhase' /\ KeysAccepted' /\ InForward'
<1>1. /\ cpc = "bindServer" /\ cpc' = "insert"
      /\ UNCHANGED <<keyIndex, connMap, sessMap, ctxUser, io, batch, target>>
  BY DEF BindServer
<1> QED
  BY <1>1
  DEF IInv, LiveOwner, Live, Binding, KeysAccepted, BindPhase, InForward, Current, Accepted

LEMMA InsertSessionOwner ==
  ASSUME IInv, InsertSession
  PROVE  LiveOwner' /\ BindPhase' /\ KeysAccepted' /\ InForward'
<1>1. /\ cpc = "insert" /\ cpc' = "forward"
      /\ UNCHANGED <<keyIndex, connMap, ctxUser, io, batch>>
      /\ sessMap' = [sessMap EXCEPT ![Current.body.user] = target]
  BY DEF InsertSession
<1>2. /\ batch # <<>> /\ Current.body \in Login /\ Current.body.user \in User
      /\ sessMap[Current.body.user] = 0 /\ ctxUser[target] = Current.body.user
  BY <1>1, LoginFields DEF IInv, BindPhase
<1>3. KeysAccepted' /\ BindPhase' /\ InForward'
  BY <1>1, <1>2 DEF IInv, KeysAccepted, BindPhase, InForward, Current, Accepted
<1>4. LiveOwner'
  <2> SUFFICES ASSUME NEW k \in Live, ctxUser[k] # 0
               PROVE  sessMap'[ctxUser[k]] = k
    BY <1>1 DEF LiveOwner, Live
  <2>1. k \in Key /\ k # 0 /\ ctxUser[k] \in User
    BY KeyFacts DEF Live, IInv, KeysAccepted, TypeOK, ServerTypeOK
  <2>2. CASE k = target
    BY <1>1, <1>2, <2>2 DEF IInv, TypeOK, ServerTypeOK
  <2>3. CASE k # target
    BY <1>1, <1>2, <2>1, <2>3 DEF IInv, LiveOwner, Binding, TypeOK, ServerTypeOK
  <2> QED
    BY <2>2, <2>3
<1> QED
  BY <1>3, <1>4

\* The other steps of the thread leave the owners alone and are outside AddSession.
LEMMA OtherOwner ==
  ASSUME IInv,
         TakeMessages \/ ForwardGame \/ ForwardLogin \/ RefuseSession \/ TakeEvents \/ ForwardLogout
  PROVE  LiveOwner' /\ BindPhase' /\ KeysAccepted' /\ InForward'
<1>1. /\ UNCHANGED <<keyIndex, connMap, sessMap, ctxUser, io, target>>
      /\ cpc \in {"message", "forward", "event"} /\ cpc' \in {"message", "forward", "event"}
  BY DEF TakeMessages, ForwardGame, ForwardLogin, RefuseSession, TakeEvents, ForwardLogout,
         Handling, serverVars
<1>2. InForward'
  <2>1. CASE RefuseSession
    BY <2>1, CurrentType DEF IInv, RefuseSession, Handling, InForward, Current
  <2>2. CASE TakeMessages \/ ForwardGame \/ ForwardLogin \/ TakeEvents \/ ForwardLogout
    BY <2>2 DEF TakeMessages, ForwardGame, ForwardLogin, TakeEvents, ForwardLogout, Handling, InForward
  <2> QED
    BY <2>1, <2>2
<1> QED
  BY <1>1, <1>2 DEF IInv, LiveOwner, Live, Binding, KeysAccepted, BindPhase, Accepted

LEMMA NextIInv == IInv /\ [Next]_vars => IInv'
<1> SUFFICES ASSUME IInv, [Next]_vars PROVE IInv'
  OBVIOUS
<1>1. TypeOK'
  <2>1. CASE UNCHANGED vars
    BY <2>1 DEF vars, serverVars, clientVars, IInv, TypeOK, ServerTypeOK
  <2> QED
    BY <2>1, ClientTypes, ThreadTypes DEF IInv, Next
<1>2. LiveOwner' /\ BindPhase' /\ KeysAccepted' /\ InForward'
  <2>1. CASE Connect
    BY <2>1, ConnectOwner DEF Connect
  <2>2. ASSUME NEW k \in Key, Close(k)
        PROVE  LiveOwner' /\ BindPhase' /\ KeysAccepted' /\ InForward'
    BY <2>2, DisConnectOwner DEF Close
  <2>3. ASSUME NEW k \in Key, SendGame(k) \/ \E body \in Login : SendLogin(k, body)
        PROVE  LiveOwner' /\ BindPhase' /\ KeysAccepted' /\ InForward'
    BY <2>3, Untouched DEF SendGame, SendLogin, OnMessage, ownerVars
  <2>4. CASE DisConnectSession /\ UNCHANGED clientVars
    BY <2>4, SessionGone
  <2>5. CASE DisConnectEvent /\ UNCHANGED clientVars
    BY <2>5 DEF DisConnectEvent, Idle, clientVars, IInv, LiveOwner, Live, Binding,
                KeysAccepted, BindPhase, InForward, Current, Accepted
  <2>6. CASE ClientMsgThread
    BY <2>6, AddSessionOwner, BindUserOwner, BindServerOwner, InsertSessionOwner, OtherOwner
    DEF ClientMsgThread
  <2>7. CASE UNCHANGED vars
    BY <2>7, Untouched DEF vars, serverVars, clientVars, ownerVars
  <2> QED
    BY <2>1, <2>2, <2>3, <2>4, <2>5, <2>6, <2>7 DEF Next, Clients, IoDisConnect
<1> QED
  BY <1>1, <1>2 DEF IInv

LEMMA Invariance == Spec => []IInv
<1>1. Init => IInv
  BY InitIInv
<1>2. IInv /\ [Next]_vars => IInv'
  BY NextIInv
<1> QED
  BY <1>1, <1>2, PTL DEF Spec

\* The gateway's client side keeps its state well typed.
THEOREM ClientsTypeCorrect == Spec => []TypeOK
<1>1. IInv => TypeOK
  BY DEF IInv
<1> QED
  BY <1>1, Invariance, PTL

\* AddSession and onDisConnect, although they share no lock, never leave two live
\* connections that speak for one user (tcp_server.cpp:149-205).
THEOREM OneSpeakerPerUser == Spec => []SessionOwner
<1>1. IInv => SessionOwner
  BY DEF IInv, LiveOwner, Live, SessionOwner
<1> QED
  BY <1>1, Invariance, PTL

\* A session is given up only when its own connection has gone (tcp_server.cpp:157).
THEOREM SessionsAreKept == Spec => NoTakeover
<1>1. IInv /\ [Next]_vars =>
        [\A u \in User : sessMap[u] # 0 /\ sessMap'[u] # sessMap[u] =>
             sessMap'[u] = 0 /\ sessMap[u] \notin connMap]_vars
  <2> SUFFICES ASSUME IInv, Next, NEW u \in User, sessMap[u] # 0, sessMap'[u] # sessMap[u]
               PROVE  sessMap'[u] = 0 /\ sessMap[u] \notin connMap
    OBVIOUS
  <2>1. CASE DisConnectSession
    <3>1. io.pc = "session" /\ ctxUser[io.key] = u /\ sessMap'[u] = 0
      BY <2>1 DEF DisConnectSession
    <3>2. io.key \in Live /\ io.key \notin connMap /\ ctxUser[io.key] # 0
      BY <3>1, IdAssumption DEF Live, IInv, KeysAccepted
    <3> QED
      BY <3>1, <3>2, OwnsSession
  <2>2. CASE InsertSession
    <3>1. sessMap[Current.body.user] = 0
      BY <2>2 DEF InsertSession, IInv, BindPhase
    <3> QED
      BY <2>2, <3>1 DEF InsertSession, IInv, TypeOK, ServerTypeOK
  <2>3. CASE ~DisConnectSession /\ ~InsertSession
    <3>1. sessMap' = sessMap
      BY <2>3 DEF Next, Clients, IoDisConnect, ClientMsgThread, Connect, OnConnect,
           SendLogin, SendGame, OnMessage, Close, OnDisConnect, DisConnectEvent,
           TakeMessages, ForwardGame, ForwardLogin, AddSession, BindUser, BindServer,
           RefuseSession, TakeEvents, ForwardLogout, serverVars
    <3> QED
      BY <3>1
  <2> QED
    BY <2>1, <2>2, <2>3
<1> QED
  BY <1>1, Invariance, PTL DEF Spec, NoTakeover
=============================================================================
