------------------------- MODULE GateServersProofs --------------------------
(***************************************************************************)
(* The server side of the gateway, and the link from a logic server to it: *)
(* a server that is registered over a connection that is up stays          *)
(* registered, and a connection has its login coming, for any number of    *)
(* connections, servers and messages.                                      *)
(***************************************************************************)
EXTENDS GateLink, SequenceTheorems, TLAPS

-----------------------------------------------------------------------------
(* The inductive invariant.                                                *)

KeysAccepted ==
    /\ connMap \subseteq Accepted
    /\ \A k \in Accepted : peer[k] # 0
    /\ io.pc # "idle" => io.key \in Accepted \ connMap

\* Each connection is reported lost once, after it has left the map.
Past(q) ==
    \A i \in 1 .. Len(q) : /\ q[i].key \in Accepted \ connMap
                           /\ io.pc # "idle" => q[i].key # io.key

NoTwice(q) == \A i, j \in 1 .. Len(q) : i # j => q[i].key # q[j].key

Apart(q, r) == \A i \in 1 .. Len(q), j \in 1 .. Len(r) : q[i].key # r[j].key

EventsOnce ==
    /\ Past(events) /\ Past(eventList)
    /\ NoTwice(events) /\ NoTwice(eventList) /\ Apart(events, eventList)
    /\ spc # "event" => events = <<>>

\* Whatever still speaks for a server, a connection or an event of one, is the one the
\* server is registered over: only what registered it names it, and only its own event
\* lets another register.
Up == connMap \cup (IF io.pc = "idle" THEN {} ELSE {io.key})

NamesClaim == \A k \in Up : ctxServer[k] # 0 => serverIds[ctxServer[k]] = k

Claimed(q) == \A i \in 1 .. Len(q) : q[i].server # 0 => serverIds[q[i].server] = q[i].key

\* Between the entry and the name.
RegisterPhase ==
    spc \in {"ack", "name"} => batch # <<>> /\ serverIds[Current.body.server] = alias.key

ServersInv ==
    /\ TypeOK /\ KeysAccepted /\ EventsOnce
    /\ NamesClaim /\ Claimed(events) /\ Claimed(eventList) /\ RegisterPhase

-----------------------------------------------------------------------------
(* Types.                                                                  *)

LEMMA KeyFacts ==
  /\ Key \subseteq Nat \ {0} /\ Absent \notin Key \cup {0}
  /\ Server \subseteq Nat \ {0}
  /\ TypeOK => Accepted \subseteq Key
BY IdAssumption, AbsentAssumption DEF Key, Accepted, TypeOK, ServerTypeOK

SessionType == [key : Key \cup {0}, user : User \cup {0}, server : Server \cup {0}]

LEMMA ReadsType ==
  ASSUME TypeOK, NEW k \in Key, NEW s \in SessionReads(k)
  PROVE  s \in SessionType
<1>1. \A j \in Key : Session(j) \in SessionType
  BY DEF TypeOK, ServerTypeOK, Session, SessionType
<1>2. NoSession \in SessionType
  BY DEF NoSession, SessionType
<1> QED
  BY <1>1, <1>2, KeyFacts DEF SessionReads

LEMMA CurrentType ==
  ASSUME TypeOK, batch # <<>>
  PROVE  /\ Current.key \in Key /\ Current.body.server \in Server
         /\ Tail(batch) \in Seq(MessageIn(Body))
<1>1. Current \in MessageIn(Body) /\ Tail(batch) \in Seq(MessageIn(Body))
  BY DEF TypeOK, Current
<1> QED
  BY <1>1 DEF MessageIn, Body

LEMMA EventType ==
  ASSUME TypeOK
  PROVE  /\ Len(events) \in Nat /\ Len(eventList) \in Nat
         /\ \A i \in 1 .. Len(events) : events[i] \in Event
         /\ \A i \in 1 .. Len(eventList) : eventList[i] \in Event
         /\ \A e \in Event : e.key \in Key /\ e.server \in Server \cup {0}
<1>1. events \in Seq(Event) /\ eventList \in Seq(Event)
  BY DEF TypeOK, ServerTypeOK
<1>2. /\ Len(events) \in Nat /\ Len(eventList) \in Nat
      /\ \A i \in 1 .. Len(events) : events[i] \in Event
      /\ \A i \in 1 .. Len(eventList) : eventList[i] \in Event
  BY <1>1, LenProperties, ElementOfSeq
<1> QED
  BY <1>2 DEF Event

LEMMA InitInv == Init => ServersInv
<1> SUFFICES ASSUME Init PROVE ServersInv
  OBVIOUS
<1> USE DEF Init, ServerInit, Idle
<1>1. TypeOK
  BY IdAssumption DEF TypeOK, ServerTypeOK, NoSession, Key
<1>2. KeysAccepted /\ NamesClaim /\ RegisterPhase
  BY DEF KeysAccepted, Accepted, NamesClaim, Up, RegisterPhase
<1>3. EventsOnce /\ Claimed(events) /\ Claimed(eventList)
  BY DEF EventsOnce, Past, NoTwice, Apart, Claimed
<1> QED
  BY <1>1, <1>2, <1>3 DEF ServersInv

\* GateLink's logic servers may send SVRLOGIN_CMD more than once.
Step == [Next]_vars \/ \E k \in Key : SvrLoginArrives(k)

LEMMA TypeStep == TypeOK /\ KeysAccepted /\ RegisterPhase /\ Step => TypeOK'
<1> SUFFICES ASSUME TypeOK, KeysAccepted, RegisterPhase, Step PROVE TypeOK'
  OBVIOUS
<1> USE DEF TypeOK, ServerTypeOK
<1>1. ASSUME NEW s \in Server, Connect(s)
      PROVE  TypeOK'
  <2>1. keyIndex' \in 1 .. MaxConn + 1 /\ keyIndex' \in Key
    BY <1>1, IdAssumption DEF Connect, OnConnect, Key
  <2> QED
    BY <1>1, <2>1 DEF Connect, OnConnect
<1>2. ASSUME NEW k \in Key, SvrLoginArrives(k)
      PROVE  TypeOK'
  <2>1. peer[k] \in Server
    BY <1>2 DEF SvrLoginArrives, OnMessage, KeysAccepted
  <2>2. [key |-> k, body |-> [cmd |-> "svrlogin", server |-> peer[k]]] \in MessageIn(Body)
    BY <2>1 DEF MessageIn, Body
  <2>3. msgList' \in Seq(MessageIn(Body))
    BY <1>2, <2>2, AppendProperties DEF SvrLoginArrives, OnMessage
  <2> QED
    BY <1>2, <2>3 DEF SvrLoginArrives, OnMessage
<1>3. ASSUME NEW k \in Key, Close(k)
      PROVE  TypeOK'
  BY <1>3 DEF Close, OnDisConnect, gateVars
<1>4. CASE DisConnectSession /\ UNCHANGED gateVars
  <2>1. io.key \in Key /\ ctxUser[io.key] \in User \cup {0}
    BY <1>4, KeyFacts DEF DisConnectSession, KeysAccepted
  <2>2. sessMap' \in [User -> Key \cup {0}]
    BY <1>4 DEF DisConnectSession
  <2> QED
    BY <1>4, <2>1, <2>2 DEF DisConnectSession, gateVars
<1>5. CASE DisConnectEvent /\ UNCHANGED gateVars
  <2>1. io.key \in Key
    BY <1>5, KeyFacts DEF DisConnectEvent, KeysAccepted
  <2>2. [key |-> io.key, user |-> io.user, server |-> ctxServer[io.key]] \in Event
    BY <2>1 DEF Event
  <2>3. eventList' \in Seq(Event)
    BY <1>5, <2>2, AppendProperties DEF DisConnectEvent, SetEvent
  <2> QED
    BY <1>5, <2>3 DEF DisConnectEvent, Idle, gateVars
<1>6. CASE TakeMessages
  BY <1>6 DEF TakeMessages, ReceiveMsg
<1>7. CASE TakeEvents
  BY <1>7 DEF TakeEvents, GetEvents
<1>8. CASE Register
  <2>1. Current.key \in Key /\ Current.body.server \in Server
    BY <1>8, CurrentType DEF Register
  <2>2. alias' \in SessionType
    BY <1>8, <2>1, ReadsType DEF Register
  <2>3. alias'.key \in Key \cup {0}
    BY <2>2 DEF SessionType
  <2> QED
    BY <1>8, <2>1, <2>2, <2>3 DEF Register, SessionType, serverVars
<1>9. CASE SendAck
  <2>1. answered' \subseteq Key
    BY <1>9 DEF SendAck
  <2> QED
    BY <1>9, <2>1 DEF SendAck, serverVars
<1>10. CASE NameSession
  <2>1. Current.body.server \in Server /\ Tail(batch) \in Seq(MessageIn(Body))
    BY <1>10, CurrentType DEF NameSession, RegisterPhase
  <2>2. ctxServer' \in [Key -> Server \cup {0}]
    BY <1>10, <2>1 DEF NameSession
  <2> QED
    BY <1>10, <2>1, <2>2 DEF NameSession, NoSession
<1>11. CASE IgnoreLogin
  <2>1. Tail(batch) \in Seq(MessageIn(Body))
    BY <1>11, CurrentType DEF IgnoreLogin
  <2> QED
    BY <1>11, <2>1 DEF IgnoreLogin, serverVars
<1>12. CASE Unregister
  BY <1>12 DEF Unregister, serverVars
<1>13. CASE UNCHANGED vars
  BY <1>13 DEF vars, serverVars, gateVars
<1> QED
  BY <1>1, <1>2, <1>3, <1>4, <1>5, <1>6, <1>7, <1>8, <1>9, <1>10, <1>11, <1>12, <1>13
  DEF Step, Next, LogicServers, SendSvrLogin, IoDisConnect, ServerMsgThread

-----------------------------------------------------------------------------
(* The claims on a server's entry, action by action.                       *)

ClaimInv ==
    /\ KeysAccepted /\ EventsOnce
    /\ NamesClaim /\ Claimed(events) /\ Claimed(eventList) /\ RegisterPhase

LEMMA ConnectClaim ==
  ASSUME ServersInv, NEW s \in Server, Connect(s)
  PROVE  ClaimInv'
<1> DEFINE new == keyIndex'
<1>1. /\ new \in Key /\ new \notin Accepted /\ Accepted' = Accepted \cup {new}
      /\ \A k \in Accepted : ctxServer'[k] = ctxServer[k] /\ peer'[k] = peer[k]
      /\ ctxServer'[new] = 0 /\ peer'[new] = s
  BY IdAssumption DEF ServersInv, TypeOK, ServerTypeOK, Connect, OnConnect, Key, Accepted
<1>2. /\ io' = io /\ io.pc = "idle" /\ connMap' = connMap \cup {new}
      /\ UNCHANGED <<serverIds, spc, batch, events, eventList, alias>> /\ Current' = Current
  BY DEF Connect, OnConnect, Idle, Current
<1> HIDE DEF new
<1>3. KeysAccepted'
  BY <1>1, <1>2, KeyFacts DEF ServersInv, KeysAccepted
<1>4. EventsOnce'
  BY <1>1, <1>2 DEF ServersInv, EventsOnce, Past, NoTwice, Apart
<1>5. NamesClaim'
  BY <1>1, <1>2 DEF ServersInv, KeysAccepted, NamesClaim, Up
<1>6. Claimed(events)' /\ Claimed(eventList)' /\ RegisterPhase'
  BY <1>2 DEF ServersInv, Claimed, RegisterPhase
<1> QED
  BY <1>3, <1>4, <1>5, <1>6 DEF ClaimInv

LEMMA CloseClaim ==
  ASSUME ServersInv, NEW c \in Key, Close(c)
  PROVE  ClaimInv'
<1>1. /\ io.pc = "idle" /\ io'.pc = "session" /\ io'.key = c /\ c \in connMap
      /\ connMap' = connMap \ {c} /\ Accepted' = Accepted /\ ctxServer' = ctxServer
      /\ UNCHANGED <<serverIds, peer, spc, batch, events, eventList, alias>> /\ Current' = Current
  BY DEF Close, OnDisConnect, Idle, Accepted, gateVars, Current
<1>2. KeysAccepted' /\ Up' = Up
  BY <1>1 DEF ServersInv, KeysAccepted, Up
<1>3. EventsOnce'
  BY <1>1 DEF ServersInv, EventsOnce, Past, NoTwice, Apart
<1>4. NamesClaim' /\ Claimed(events)' /\ Claimed(eventList)' /\ RegisterPhase'
  BY <1>1, <1>2 DEF ServersInv, NamesClaim, Claimed, RegisterPhase
<1> QED
  BY <1>2, <1>3, <1>4 DEF ClaimInv

\* The lost connection's place is taken by its event.
LEMMA EventClaim ==
  ASSUME ServersInv, DisConnectEvent, UNCHANGED gateVars
  PROVE  ClaimInv'
<1> DEFINE e == [key |-> io.key, user |-> io.user, server |-> ctxServer[io.key]]
           n == Len(eventList)
<1>1. /\ io.pc = "event" /\ io'.pc = "idle"
      /\ connMap' = connMap /\ Accepted' = Accepted /\ ctxServer' = ctxServer
      /\ UNCHANGED <<serverIds, peer, spc, batch, events, alias>> /\ Current' = Current
      /\ eventList' = Append(eventList, e)
  BY DEF DisConnectEvent, SetEvent, Idle, Accepted, gateVars, Current
<1>2. io.key \in Accepted \ connMap /\ io.key \in Up /\ io.key \in Key
  BY <1>1, KeyFacts DEF ServersInv, KeysAccepted, Up
<1>3. e \in Event /\ e.key = io.key /\ e.server = ctxServer[io.key]
  BY <1>1, <1>2 DEF Event, ServersInv, TypeOK, ServerTypeOK
<1> HIDE DEF e
<1>4. /\ n \in Nat /\ Len(eventList') = n + 1 /\ eventList'[n + 1] = e
      /\ \A i \in 1 .. n : eventList'[i] = eventList[i]
  BY <1>1, <1>3, AppendProperties, EventType DEF ServersInv, TypeOK, ServerTypeOK
<1> HIDE DEF n
<1>5. \A i \in 1 .. Len(eventList') : i \in 1 .. n \/ i = n + 1
  BY <1>4
<1>6. /\ Past(events) /\ NoTwice(events) /\ Apart(events, eventList)
      /\ Past(eventList) /\ NoTwice(eventList)
  BY DEF ServersInv, EventsOnce
<1>7. /\ \A i \in 1 .. Len(events) : events[i].key # io.key
      /\ \A i \in 1 .. n : eventList[i].key # io.key
  BY <1>1, <1>6 DEF Past, n
<1>8. KeysAccepted'
  BY <1>1 DEF ServersInv, KeysAccepted
<1>9. Past(events)' /\ NoTwice(events)' /\ (spc # "event" => events = <<>>)'
  BY <1>1, <1>6 DEF ServersInv, EventsOnce, Past, NoTwice
<1>10. Past(eventList)'
  <2> SUFFICES ASSUME NEW i \in 1 .. Len(eventList')
               PROVE  eventList'[i].key \in Accepted \ connMap
    BY <1>1 DEF Past
  <2>1. CASE i \in 1 .. n
    BY <1>4, <1>6, <2>1 DEF Past, n
  <2>2. CASE i = n + 1
    BY <1>2, <1>3, <1>4, <2>2
  <2> QED
    BY <1>5, <2>1, <2>2
<1>11. NoTwice(eventList)'
  <2> SUFFICES ASSUME NEW i \in 1 .. Len(eventList'), NEW j \in 1 .. Len(eventList'), i # j
               PROVE  eventList'[i].key # eventList'[j].key
    BY DEF NoTwice
  <2>1. CASE i \in 1 .. n /\ j \in 1 .. n
    BY <1>4, <1>6, <2>1 DEF NoTwice, n
  <2>2. CASE i = n + 1 \/ j = n + 1
    BY <1>3, <1>4, <1>5, <1>7, <2>2
  <2> QED
    BY <1>5, <2>1, <2>2
<1>12. Apart(events, eventList)'
  <2> SUFFICES ASSUME NEW i \in 1 .. Len(events), NEW j \in 1 .. Len(eventList')
               PROVE  events[i].key # eventList'[j].key
    BY <1>1 DEF Apart
  <2>1. CASE j \in 1 .. n
    BY <1>4, <1>6, <2>1 DEF Apart, n
  <2>2. CASE j = n + 1
    BY <1>3, <1>4, <1>7, <2>2
  <2> QED
    BY <1>5, <2>1, <2>2
<1>13. NamesClaim' /\ Claimed(events)' /\ RegisterPhase'
  BY <1>1 DEF ServersInv, NamesClaim, Up, Claimed, RegisterPhase
<1>14. Claimed(eventList)'
  <2> SUFFICES ASSUME NEW i \in 1 .. Len(eventList'), eventList'[i].server # 0
               PROVE  serverIds[eventList'[i].server] = eventList'[i].key
    BY <1>1 DEF Claimed
  <2>1. CASE i \in 1 .. n
    BY <1>4, <2>1 DEF ServersInv, Claimed, n
  <2>2. CASE i = n + 1
    BY <1>2, <1>3, <1>4, <2>2 DEF ServersInv, NamesClaim
  <2> QED
    BY <1>5, <2>1, <2>2
<1> QED
  BY <1>8, <1>9, <1>10, <1>11, <1>12, <1>13, <1>14 DEF ClaimInv, EventsOnce

LEMMA UpFacts ==
  ASSUME ServersInv
  PROVE  \A k \in Up : k \in Key /\ ctxServer[k] \in Server \cup {0} /\ k # Absent
<1>1. Accepted \subseteq Key /\ Absent \notin Key
  BY KeyFacts DEF ServersInv
<1>2. Up \subseteq Accepted
  BY DEF ServersInv, KeysAccepted, Up
<1>3. \A k \in Key : ctxServer[k] \in Server \cup {0}
  BY DEF ServersInv, TypeOK, ServerTypeOK
<1> QED
  BY <1>1, <1>2, <1>3

\* An entry is made only where there is none, so nothing spoke for the server before.
LEMMA RegisterClaim ==
  ASSUME ServersInv, Register
  PROVE  ClaimInv'
<1> DEFINE s == Current.body.server
<1>1. /\ batch # <<>> /\ s \in Server /\ serverIds[s] = Absent /\ spc = "message"
      /\ serverIds' = [serverIds EXCEPT ![s] = alias'.key]
      /\ spc' = "ack" /\ Current' = Current
      /\ UNCHANGED <<serverVars, peer, batch, events>>
      /\ serverIds'[s] = alias'.key
      /\ \A t \in Server : t # s => serverIds'[t] = serverIds[t]
  BY CurrentType DEF Register, ServersInv, TypeOK, Current
<1> HIDE DEF s
<1>2. \A k \in Up : k \in Key /\ ctxServer[k] \in Server \cup {0} /\ k # Absent
  BY UpFacts
<1>3. NamesClaim'
  <2>1. \A k \in Up : ctxServer[k] # 0 => ctxServer[k] # s
    BY <1>1, <1>2 DEF ServersInv, NamesClaim
  <2> QED
    BY <1>1, <1>2, <2>1 DEF ServersInv, NamesClaim, Up, serverVars
<1>4. events = <<>> /\ Claimed(events)'
  BY <1>1 DEF ServersInv, EventsOnce, Claimed
<1>5. Claimed(eventList)'
  <2> SUFFICES ASSUME NEW i \in 1 .. Len(eventList), eventList[i].server # 0
               PROVE  serverIds'[eventList[i].server] = eventList[i].key
    BY <1>1 DEF Claimed, serverVars
  <2>1. eventList[i].server \in Server /\ eventList[i].key \in Key
    BY EventType DEF ServersInv
  <2>2. serverIds[eventList[i].server] = eventList[i].key
    BY DEF ServersInv, Claimed
  <2> QED
    BY <1>1, <2>1, <2>2, KeyFacts
<1>6. KeysAccepted' /\ EventsOnce'
  BY <1>1 DEF ServersInv, KeysAccepted, EventsOnce, Past, NoTwice, Apart, Accepted, serverVars
<1>7. RegisterPhase'
  BY <1>1 DEF RegisterPhase, s
<1> QED
  BY <1>3, <1>4, <1>5, <1>6, <1>7 DEF ClaimInv

\* The connection that is named is the one the server is registered over.
LEMMA NameClaim ==
  ASSUME ServersInv, NameSession
  PROVE  ClaimInv'
<1> DEFINE s == Current.body.server
<1>1. /\ spc = "name" /\ spc' = "message"
      /\ UNCHANGED <<keyIndex, connMap, eventList, io, serverIds, peer, events>>
      /\ serverIds[s] = alias.key
      /\ \A k \in Key : ctxServer'[k] = IF k = alias.key THEN s ELSE ctxServer[k]
  BY KeyFacts DEF NameSession, ServersInv, RegisterPhase, TypeOK, ServerTypeOK
<1> HIDE DEF s
<1>2. Up' = Up /\ \A k \in Up : k \in Key
  BY <1>1, KeyFacts DEF ServersInv, KeysAccepted, Up
<1>3. NamesClaim'
  BY <1>1, <1>2 DEF ServersInv, NamesClaim
<1>4. Claimed(events)' /\ Claimed(eventList)' /\ RegisterPhase'
  BY <1>1 DEF ServersInv, Claimed, RegisterPhase
<1>5. KeysAccepted' /\ EventsOnce'
  BY <1>1 DEF ServersInv, KeysAccepted, EventsOnce, Past, NoTwice, Apart, Accepted
<1> QED
  BY <1>3, <1>4, <1>5 DEF ClaimInv

\* The event that removes an entry is the last that spoke for the server.
LEMMA UnregisterClaim ==
  ASSUME ServersInv, Unregister
  PROVE  ClaimInv'
<1> DEFINE e    == events[1]
           rest == Tail(events)
<1>1. /\ spc = "event" /\ events # <<>>
      /\ serverIds' = [s \in Server |-> IF s = e.server THEN Absent ELSE serverIds[s]]
      /\ events' = rest
      /\ UNCHANGED <<keyIndex, connMap, ctxServer, eventList, io, peer, spc, batch, alias>>
  BY DEF Unregister, serverVars
<1>2. /\ events \in Seq(Event) /\ Len(events) \in Nat /\ 1 \in 1 .. Len(events)
      /\ e \in Event /\ e.key \in Key /\ e.server \in Server \cup {0}
      /\ Len(rest) = Len(events) - 1 /\ \A i \in 1 .. Len(rest) : rest[i] = events[i + 1]
  BY <1>1, EventType, HeadTailProperties, EmptySeq DEF ServersInv, TypeOK
<1> HIDE DEF rest, e
<1>3. \A i \in 1 .. Len(rest) : i + 1 \in 1 .. Len(events) /\ i + 1 # 1 /\ rest[i] = events[i + 1]
  BY <1>2
<1>4. /\ e.server # 0 => serverIds[e.server] = e.key
      /\ e.key \notin Up
      /\ \A i \in 1 .. Len(rest) : rest[i].key # e.key
      /\ \A i \in 1 .. Len(eventList) : eventList[i].key # e.key
  <2>1. e.server # 0 => serverIds[e.server] = e.key
    BY <1>2 DEF ServersInv, Claimed, e
  <2>2. e.key \notin Up
    BY <1>2 DEF ServersInv, EventsOnce, Past, Up, e
  <2>3. ASSUME NEW i \in 1 .. Len(rest) PROVE rest[i].key # e.key
    <3>1. i + 1 \in 1 .. Len(events) /\ i + 1 # 1 /\ rest[i] = events[i + 1]
      BY <1>3
    <3>2. NoTwice(events)
      BY DEF ServersInv, EventsOnce
    <3> QED
      BY <1>2, <3>1, <3>2 DEF NoTwice, e
  <2>4. \A i \in 1 .. Len(eventList) : eventList[i].key # e.key
    BY <1>2 DEF ServersInv, EventsOnce, Apart, e
  <2> QED
    BY <2>1, <2>2, <2>3, <2>4
<1>5. /\ Past(rest) /\ NoTwice(rest) /\ Apart(rest, eventList) /\ Claimed(rest)
  <2>0. Past(events) /\ Claimed(events)
    BY DEF ServersInv, EventsOnce
  <2>1. Past(rest) /\ Claimed(rest)
    <3>1. ASSUME NEW i \in 1 .. Len(rest)
          PROVE  /\ rest[i].key \in Accepted \ connMap
                 /\ io.pc # "idle" => rest[i].key # io.key
                 /\ rest[i].server # 0 => serverIds[rest[i].server] = rest[i].key
      <4>1. i + 1 \in 1 .. Len(events) /\ rest[i] = events[i + 1]
        BY <1>3
      <4> QED
        BY <2>0, <4>1 DEF Past, Claimed
    <3> QED
      BY <3>1 DEF Past, Claimed
  <2>2. Apart(rest, eventList)
    BY <1>3 DEF ServersInv, EventsOnce, Apart
  <2>3. NoTwice(rest)
    <3> SUFFICES ASSUME NEW i \in 1 .. Len(rest), NEW j \in 1 .. Len(rest), i # j
                 PROVE  rest[i].key # rest[j].key
      BY DEF NoTwice
    <3>1. i + 1 # j + 1
      BY <1>2
    <3> QED
      BY <1>3, <3>1 DEF ServersInv, EventsOnce, NoTwice
  <2> QED
    BY <2>1, <2>2, <2>3
<1>6. KeysAccepted'
  BY <1>1 DEF ServersInv, KeysAccepted, Accepted
<1>7. EventsOnce'
  <2>1. Past(eventList) /\ NoTwice(eventList)
    BY DEF ServersInv, EventsOnce
  <2> QED
    BY <1>1, <1>5, <2>1 DEF EventsOnce, Past, NoTwice, Apart, Accepted
<1>8. NamesClaim'
  <2> SUFFICES ASSUME NEW k \in Up, ctxServer[k] # 0
               PROVE  serverIds'[ctxServer[k]] = k
    BY <1>1 DEF NamesClaim, Up
  <2>1. ctxServer[k] \in Server /\ serverIds[ctxServer[k]] = k
    BY UpFacts DEF ServersInv, NamesClaim
  <2>2. ctxServer[k] # e.server
    BY <1>4, <2>1
  <2> QED
    BY <1>1, <2>1, <2>2
<1>9. Claimed(eventList)'
  <2> SUFFICES ASSUME NEW i \in 1 .. Len(eventList), eventList[i].server # 0
               PROVE  serverIds'[eventList[i].server] = eventList[i].key
    BY <1>1 DEF Claimed
  <2>1. eventList[i].server \in Server
    BY EventType DEF ServersInv
  <2>2. serverIds[eventList[i].server] = eventList[i].key /\ eventList[i].key # e.key
    BY <1>4 DEF ServersInv, Claimed
  <2> QED
    BY <1>1, <1>4, <2>1, <2>2
<1>10. Claimed(events)'
  <2> SUFFICES ASSUME NEW i \in 1 .. Len(rest), rest[i].server # 0
               PROVE  serverIds'[rest[i].server] = rest[i].key
    BY <1>1 DEF Claimed
  <2>1. rest[i].server \in Server
    BY <1>3, EventType DEF ServersInv
  <2>2. serverIds[rest[i].server] = rest[i].key /\ rest[i].key # e.key
    BY <1>4, <1>5 DEF Claimed
  <2> QED
    BY <1>1, <1>4, <2>1, <2>2
<1>11. RegisterPhase'
  BY <1>1 DEF RegisterPhase
<1> QED
  BY <1>6, <1>7, <1>8, <1>9, <1>10, <1>11 DEF ClaimInv

\* The other steps change no name, no entry and no event.
LEMMA OtherClaim ==
  ASSUME ServersInv,
         \/ \E k \in Key : SvrLoginArrives(k)
         \/ DisConnectSession /\ UNCHANGED gateVars
         \/ TakeMessages \/ SendAck \/ IgnoreLogin \/ UNCHANGED vars
  PROVE  ClaimInv'
<1>1. /\ UNCHANGED <<keyIndex, connMap, ctxServer, eventList, serverIds, peer, events>>
      /\ io'.key = io.key /\ (io'.pc = "idle" <=> io.pc = "idle")
      /\ (spc' # "event" => events = <<>>)
  BY DEF SvrLoginArrives, OnMessage, DisConnectSession, gateVars, TakeMessages, SendAck,
         IgnoreLogin, vars, serverVars, ServersInv, EventsOnce, TypeOK, ServerTypeOK
<1>2. RegisterPhase'
  BY DEF SvrLoginArrives, DisConnectSession, gateVars, TakeMessages, SendAck,
         IgnoreLogin, vars, ServersInv, RegisterPhase, Current
<1>3. KeysAccepted' /\ NamesClaim' /\ Claimed(events)' /\ Claimed(eventList)'
  BY <1>1 DEF ServersInv, KeysAccepted, NamesClaim, Up, Claimed, Accepted
<1>4. EventsOnce'
  BY <1>1 DEF ServersInv, EventsOnce, Past, NoTwice, Apart, Accepted
<1> QED
  BY <1>2, <1>3, <1>4 DEF ClaimInv

LEMMA TakeEventsClaim ==
  ASSUME ServersInv, TakeEvents
  PROVE  ClaimInv'
<1>1. /\ UNCHANGED <<keyIndex, connMap, ctxServer, io, serverIds, peer>>
      /\ events' = eventList /\ eventList' = <<>> /\ spc' = "event"
  BY DEF TakeEvents, GetEvents
<1>2. RegisterPhase' /\ KeysAccepted' /\ NamesClaim'
  BY <1>1 DEF RegisterPhase, ServersInv, KeysAccepted, NamesClaim, Up, Accepted
<1>3. EventsOnce' /\ Claimed(events)' /\ Claimed(eventList)'
  BY <1>1 DEF ServersInv, EventsOnce, Past, NoTwice, Apart, Claimed, Accepted
<1> QED
  BY <1>2, <1>3 DEF ClaimInv

LEMMA NextInv == ServersInv /\ Step => ServersInv'
<1> SUFFICES ASSUME ServersInv, Step PROVE ServersInv'
  OBVIOUS
<1>1. TypeOK'
  BY TypeStep DEF ServersInv
<1>2. ClaimInv'
  BY ConnectClaim, CloseClaim, EventClaim, RegisterClaim, NameClaim, UnregisterClaim,
     OtherClaim, TakeEventsClaim
  DEF Step, Next, LogicServers, SendSvrLogin, IoDisConnect, ServerMsgThread
<1> QED
  BY <1>1, <1>2 DEF ServersInv, ClaimInv

LEMMA Invariance == Spec => []ServersInv
<1>1. ServersInv /\ [Next]_vars => ServersInv'
  BY NextInv DEF Step
<1> QED
  BY <1>1, InitInv, PTL DEF Spec

-----------------------------------------------------------------------------
(* The theorems.                                                           *)

\* The gateway's server side keeps its state well typed.
THEOREM ServersTypeCorrect == Spec => []TypeOK
<1>1. ServersInv => TypeOK
  BY DEF ServersInv
<1> QED
  BY <1>1, Invariance, PTL

LEMMA LiveStep ==
  ASSUME ServersInv, Step, NEW s \in Server, Route(s) # 0
  PROVE  serverIds'[s] = serverIds[s]
<1>1. serverIds[s] \in connMap /\ serverIds[s] # Absent
  BY KeyFacts DEF Route, ServersInv, TypeOK, ServerTypeOK
<1>2. CASE Register
  BY <1>1, <1>2 DEF Register, ServersInv, TypeOK
<1>3. CASE Unregister
  <2>1. events # <<>> /\ 1 \in 1 .. Len(events)
    BY <1>3, EmptySeq DEF Unregister, ServersInv, TypeOK
  <2>2. events[1].server # s
    <3>1. events[1].key \notin connMap
      BY <2>1 DEF ServersInv, EventsOnce, Past
    <3>2. events[1].server # 0 => serverIds[events[1].server] = events[1].key
      BY <2>1 DEF ServersInv, Claimed
    <3> QED
      BY <1>1, <3>1, <3>2, KeyFacts
  <2> QED
    BY <1>3, <2>2 DEF Unregister
<1>4. CASE ~Register /\ ~Unregister
  BY <1>4 DEF Step, Next, LogicServers, IoDisConnect, ServerMsgThread, Connect, SendSvrLogin,
     SvrLoginArrives, Close, gateVars, vars, TakeMessages, SendAck, NameSession, IgnoreLogin,
     TakeEvents
<1> QED
  BY <1>2, <1>3, <1>4

\* No event that comes late, of an earlier connection or of one that was ignored, takes
\* the entry of a server whose connection is up (gate_manager.cpp:155, 277-280).
THEOREM LiveServersStay == Spec => LiveStaysRegistered
<1>1. ServersInv /\ [Next]_vars =>
        [\A s \in Server : Route(s) # 0 => serverIds'[s] = serverIds[s]]_vars
  BY LiveStep DEF Step
<1> QED
  BY <1>1, Invariance, PTL DEF Spec, LiveStaysRegistered

-----------------------------------------------------------------------------
(* The link: with the logic servers' own client for environment the        *)
(* gateway keeps who is registered, and every connection has its login     *)
(* coming.                                                                 *)

Cause == {"connected", "disconnected"}

LinkInv == ServersInv /\ LinkTypeOK /\ LoginUnderWay

\* Of a step of the composition the gateway sees one of its own, or nothing.
LEMMA LinkStep ==
  ASSUME [LinkNext]_allVars
  PROVE  Step
<1>1. ASSUME NEW s \in Server, OnConnected(s)
      PROVE  Step
  BY <1>1 DEF OnConnected, Step, Next, LogicServers
<1>2. ASSUME NEW s \in Server, OnDisconnect(s) \/ Crash(s) \/ MsgThread(s)
      PROVE  Step
  BY <1>2 DEF OnDisconnect, Crash, MsgThread, StartClient, SetConnecting, ReceiveEvent,
              OnClientEvent, EventsDone, Step
<1>3. ASSUME NEW k \in Key, LoginArrives(k) \/ GateCloses(k)
      PROVE  Step
  BY <1>3 DEF LoginArrives, GateCloses, Step, Next, LogicServers
<1>4. CASE GateStep
  BY <1>4 DEF GateStep, Step, Next
<1>5. CASE UNCHANGED allVars
  BY <1>5 DEF allVars, Step
<1> QED
  BY <1>1, <1>2, <1>3, <1>4, <1>5 DEF LinkNext

LEMMA LinkInit0 == LinkInit => LinkInv
<1> SUFFICES ASSUME LinkInit PROVE LinkInv
  OBVIOUS
<1>1. ServersInv
  BY InitInv DEF LinkInit
<1>2. LinkTypeOK /\ LoginUnderWay
  BY <1>1 DEF LinkInit, LinkTypeOK, LoginUnderWay, ServersInv
<1> QED
  BY <1>1, <1>2 DEF LinkInv

\* What is due of one server's login.
Coming(s) ==
    \/ \E i \in 1 .. Len(cliEvents[s]) : cliEvents[s][i] = "connected"
    \/ \E i \in 1 .. Len(evts[s]) : evts[s][i] = "connected"
    \/ net[link[s]] > 0
    \/ link[s] \in loggedIn

LEMMA ConnectedLink ==
  ASSUME LinkInv, NEW s \in Server, OnConnected(s)
  PROVE  LinkTypeOK' /\ LoginUnderWay'
<1>1. TypeOK' /\ keyIndex' \in Key
  <2>1. ServersInv' /\ keyIndex' = keyIndex + 1 /\ keyIndex <= MaxConn
    BY NextInv DEF LinkInv, OnConnected, Step, Next, LogicServers, Connect, OnConnect
  <2>2. keyIndex \in Nat /\ MaxConn \in Nat /\ keyIndex >= 1
    BY <2>1, IdAssumption DEF LinkInv, LinkTypeOK, TypeOK, ServerTypeOK, Key
  <2>3. keyIndex' \in Key
    BY <2>1, <2>2 DEF Key
  <2>4. TypeOK'
    BY <2>1 DEF ServersInv
  <2> QED
    BY <2>3, <2>4
<1>2. /\ link' = [link EXCEPT ![s] = keyIndex']
      /\ cliEvents' = [cliEvents EXCEPT ![s] = Append(cliEvents[s], "connected")]
      /\ status' = [status EXCEPT ![s] = "connected"]
      /\ UNCHANGED <<valid, evts, tpc, net, loggedIn>>
  BY DEF OnConnected, SendEvent, Connect
<1>3. /\ Append(cliEvents[s], "connected") \in Seq(Cause)
      /\ LET q == Append(cliEvents[s], "connected")
         IN  Len(q) \in 1 .. Len(q) /\ q[Len(q)] = "connected"
  BY AppendProperties, LenProperties DEF LinkInv, LinkTypeOK, Cause
<1>4. LinkTypeOK'
  BY <1>1, <1>2, <1>3 DEF LinkInv, LinkTypeOK, Cause
<1>5. LoginUnderWay'
  <2> SUFFICES ASSUME NEW t \in Server, link'[t] # 0 PROVE Coming(t)'
    BY DEF LoginUnderWay, Coming
  <2>1. CASE t = s
    BY <1>2, <1>3, <2>1 DEF Coming, LinkInv, LinkTypeOK
  <2>2. CASE t # s
    BY <1>2, <2>2 DEF Coming, LinkInv, LoginUnderWay, LinkTypeOK
  <2> QED
    BY <2>1, <2>2
<1> QED
  BY <1>4, <1>5

\* Without a link nothing is due.
LEMMA LinkLost ==
  ASSUME LinkInv, NEW s \in Server, OnDisconnect(s) \/ Crash(s)
  PROVE  LinkTypeOK' /\ LoginUnderWay'
<1>1. /\ UNCHANGED <<vars, net>> /\ link' = [link EXCEPT ![s] = 0]
      /\ \A t \in Server : t # s => cliEvents'[t] = cliEvents[t] /\ evts'[t] = evts[t]
  BY DEF OnDisconnect, Crash, Fresh, SendEvent, LinkInv, LinkTypeOK
<1>2. TypeOK' /\ loggedIn' = loggedIn
  BY <1>1 DEF LinkInv, LinkTypeOK, vars, serverVars, gateVars, TypeOK, ServerTypeOK
<1>3. Append(cliEvents[s], "disconnected") \in Seq(Cause) /\ <<>> \in Seq(Cause)
  BY AppendProperties, EmptySeq DEF LinkInv, LinkTypeOK, Cause
<1>4. LinkTypeOK'
  <2>1. CASE OnDisconnect(s)
    BY <1>1, <1>2, <1>3, <2>1 DEF OnDisconnect, SendEvent, LinkInv, LinkTypeOK, Cause
  <2>2. CASE Crash(s)
    BY <1>1, <1>2, <1>3, <2>2 DEF Crash, Fresh, LinkInv, LinkTypeOK, Cause
  <2> QED
    BY <2>1, <2>2
<1>5. LoginUnderWay'
  <2> SUFFICES ASSUME NEW t \in Server, link'[t] # 0 PROVE Coming(t)'
    BY DEF LoginUnderWay, Coming
  <2>1. t # s /\ link'[t] = link[t]
    BY <1>1 DEF LinkInv, LinkTypeOK
  <2> QED
    BY <1>1, <1>2, <2>1 DEF Coming, LinkInv, LoginUnderWay
<1> QED
  BY <1>4, <1>5

\* The events move on; the one that makes the login is not dropped before it has.
LEMMA ThreadLink ==
  ASSUME LinkInv, NEW s \in Server, MsgThread(s)
  PROVE  LinkTypeOK' /\ LoginUnderWay'
<1>1. UNCHANGED vars /\ link' = link
  BY DEF MsgThread, StartClient, SetConnecting, ReceiveEvent, OnClientEvent, EventsDone
<1>2. TypeOK' /\ loggedIn' = loggedIn
  BY <1>1 DEF LinkInv, LinkTypeOK, vars, serverVars, gateVars, TypeOK, ServerTypeOK
<1>3. cliEvents[s] \in Seq(Cause) /\ evts[s] \in Seq(Cause)
  BY DEF LinkInv, LinkTypeOK, Cause
<1>4. CASE StartClient(s) \/ SetConnecting(s) \/ EventsDone(s)
  <2>1. UNCHANGED <<cliEvents, evts, net>>
    BY <1>4 DEF StartClient, SetConnecting, EventsDone
  <2>2. LinkTypeOK'
    BY <1>1, <1>2, <1>4 DEF LinkInv, LinkTypeOK, StartClient, SetConnecting, EventsDone
  <2> QED
    BY <1>1, <1>2, <2>1, <2>2 DEF LinkInv, LoginUnderWay
<1>5. CASE ReceiveEvent(s)
  <2>1. /\ evts' = [evts EXCEPT ![s] = evts[s] \o cliEvents[s]]
        /\ cliEvents' = [cliEvents EXCEPT ![s] = <<>>]
        /\ tpc' = [tpc EXCEPT ![s] = "handle"]
        /\ UNCHANGED <<valid, status, net>>
    BY <1>5 DEF ReceiveEvent
  <2>2. /\ evts[s] \o cliEvents[s] \in Seq(Cause) /\ <<>> \in Seq(Cause)
        /\ Len(evts[s] \o cliEvents[s]) = Len(evts[s]) + Len(cliEvents[s])
        /\ \A i \in 1 .. Len(evts[s]) + Len(cliEvents[s]) :
             (evts[s] \o cliEvents[s])[i] = IF i <= Len(evts[s]) THEN evts[s][i]
                                            ELSE cliEvents[s][i - Len(evts[s])]
        /\ Len(evts[s]) \in Nat /\ Len(cliEvents[s]) \in Nat
    <3>1. PICK p, q \in Seq(Cause) : p = evts[s] /\ q = cliEvents[s]
      BY <1>3
    <3>2. /\ p \o q \in Seq(Cause) /\ Len(p \o q) = Len(p) + Len(q)
          /\ \A i \in 1 .. Len(p) + Len(q) :
               (p \o q)[i] = IF i <= Len(p) THEN p[i] ELSE q[i - Len(p)]
      BY ConcatProperties
    <3>3. Len(p) \in Nat /\ Len(q) \in Nat /\ <<>> \in Seq(Cause)
      BY LenProperties, EmptySeq
    <3> QED
      BY <3>1, <3>2, <3>3
  <2>3. LinkTypeOK'
    BY <1>1, <1>2, <2>1, <2>2 DEF LinkInv, LinkTypeOK, Cause
  <2>4. LoginUnderWay'
    <3> SUFFICES ASSUME NEW t \in Server, link[t] # 0, Coming(t) PROVE Coming(t)'
      BY <1>1 DEF LinkInv, LoginUnderWay, Coming
    <3>1. CASE t # s
      BY <1>1, <1>2, <2>1, <3>1 DEF Coming, LinkInv, LinkTypeOK
    <3>2. CASE t = s
      <4>1. evts'[s] = evts[s] \o cliEvents[s]
        BY <2>1 DEF LinkInv, LinkTypeOK
      <4>2. ASSUME NEW i \in 1 .. Len(cliEvents[s]), cliEvents[s][i] = "connected"
            PROVE  Coming(t)'
        <5>1. /\ Len(evts[s]) + i \in 1 .. Len(evts[s]) + Len(cliEvents[s])
              /\ ~(Len(evts[s]) + i <= Len(evts[s]))
              /\ Len(evts[s]) + i - Len(evts[s]) = i
          <6>1. PICK n, m \in Nat : n = Len(evts[s]) /\ m = Len(cliEvents[s])
            BY <2>2
          <6>2. i \in 1 .. m
            BY <6>1
          <6>3. n + i \in 1 .. n + m /\ ~(n + i <= n) /\ n + i - n = i
            BY <6>2
          <6> QED
            BY <6>1, <6>3
        <5>2. (evts[s] \o cliEvents[s])[Len(evts[s]) + i] = "connected"
          BY <2>2, <4>2, <5>1
        <5> QED
          BY <2>2, <3>2, <4>1, <5>1, <5>2 DEF Coming
      <4>3. ASSUME NEW i \in 1 .. Len(evts[s]), evts[s][i] = "connected"
            PROVE  Coming(t)'
        <5>1. i \in 1 .. Len(evts[s]) + Len(cliEvents[s]) /\ i <= Len(evts[s])
          <6>1. PICK n, m \in Nat : n = Len(evts[s]) /\ m = Len(cliEvents[s])
            BY <2>2
          <6>2. i \in 1 .. n
            BY <6>1
          <6>3. i \in 1 .. n + m /\ i <= n
            BY <6>2
          <6> QED
            BY <6>1, <6>3
        <5>2. (evts[s] \o cliEvents[s])[i] = "connected"
          BY <2>2, <4>3, <5>1
        <5> QED
          BY <2>2, <3>2, <4>1, <5>1, <5>2 DEF Coming
      <4>4. CASE net[link[t]] > 0 \/ link[t] \in loggedIn
        BY <1>1, <1>2, <2>1, <4>4 DEF Coming
      <4> QED
        BY <3>2, <4>2, <4>3, <4>4 DEF Coming
    <3> QED
      BY <3>1, <3>2
  <2> QED
    BY <2>3, <2>4
<1>6. CASE OnClientEvent(s)
  <2>1. /\ evts[s] # <<>>
        /\ net' = [k \in Key |->
                     IF evts[s][1] = "connected" /\ k = link[s] THEN net[k] + 1 ELSE net[k]]
        /\ evts' = [evts EXCEPT ![s] = Tail(evts[s])]
        /\ UNCHANGED <<valid, status, cliEvents, tpc>>
    BY <1>6 DEF OnClientEvent
  <2>2. /\ Tail(evts[s]) \in Seq(Cause) /\ Len(Tail(evts[s])) = Len(evts[s]) - 1
        /\ \A i \in 1 .. Len(Tail(evts[s])) : Tail(evts[s])[i] = evts[s][i + 1]
        /\ Len(evts[s]) \in Nat
    BY <1>3, <2>1, HeadTailProperties, LenProperties
  <2>3. net' \in [Key -> Nat] /\ \A k \in Key : net'[k] \in Nat /\ net[k] \in Nat /\ net'[k] >= net[k]
    BY <2>1 DEF LinkInv, LinkTypeOK
  <2>4. LinkTypeOK'
    BY <1>1, <1>2, <2>1, <2>2, <2>3 DEF LinkInv, LinkTypeOK, Cause
  <2>5. LoginUnderWay'
    <3> SUFFICES ASSUME NEW t \in Server, link[t] # 0, Coming(t) PROVE Coming(t)'
      BY <1>1 DEF LinkInv, LoginUnderWay, Coming
    <3>0. link[t] \in Key
      BY DEF LinkInv, LinkTypeOK
    <3>1. CASE net[link[t]] > 0 \/ link[t] \in loggedIn
      <4>1. net[link[t]] > 0 => net'[link[t]] > 0
        BY <2>3, <3>0
      <4> QED
        BY <1>1, <1>2, <3>1, <4>1 DEF Coming
    <3>2. CASE \E i \in 1 .. Len(cliEvents[t]) : cliEvents[t][i] = "connected"
      BY <2>1, <3>2 DEF Coming
    <3>3. ASSUME NEW i \in 1 .. Len(evts[t]), evts[t][i] = "connected"
          PROVE  Coming(t)'
      <4>1. CASE t # s
        BY <2>1, <3>3, <4>1 DEF Coming, LinkInv, LinkTypeOK
      <4>2. CASE t = s /\ i = 1
        <5>1. net'[link[t]] = net[link[t]] + 1
          BY <2>1, <3>0, <3>3, <4>2
        <5>2. net'[link[t]] > 0
          BY <2>3, <3>0, <5>1
        <5> QED
          BY <1>1, <5>2 DEF Coming
      <4>3. CASE t = s /\ i # 1
        <5>1. i - 1 \in 1 .. Len(Tail(evts[s])) /\ i - 1 + 1 = i
          BY <2>2, <3>3, <4>3
        <5>2. Tail(evts[s])[i - 1] = "connected"
          BY <2>2, <3>3, <4>3, <5>1
        <5>3. evts'[t] = Tail(evts[s])
          BY <2>1, <4>3 DEF LinkInv, LinkTypeOK
        <5> QED
          BY <5>1, <5>2, <5>3 DEF Coming
      <4> QED
        BY <4>1, <4>2, <4>3
    <3> QED
      BY <3>1, <3>2, <3>3 DEF Coming
  <2> QED
    BY <2>4, <2>5
<1> QED
  BY <1>4, <1>5, <1>6 DEF MsgThread

LEMMA GatewayLink ==
  ASSUME LinkInv,
         \/ \E k \in Key : LoginArrives(k) \/ GateCloses(k)
         \/ GateStep \/ UNCHANGED allVars
  PROVE  LinkTypeOK' /\ LoginUnderWay'
<1>1. TypeOK'
  BY NextInv, LinkStep DEF LinkInv, ServersInv, LinkNext
<1>2. CASE UNCHANGED <<linkVars, loggedIn>>
  BY <1>1, <1>2 DEF linkVars, clientVars, LinkInv, LinkTypeOK, LoginUnderWay
<1>3. ASSUME NEW k \in Key, LoginArrives(k)
      PROVE  LinkTypeOK' /\ LoginUnderWay'
  <2>1. /\ net[k] > 0 /\ net' = [net EXCEPT ![k] = @ - 1]
        /\ loggedIn' = loggedIn \cup {k} /\ UNCHANGED clientVars
    BY <1>3 DEF LoginArrives, SvrLoginArrives
  <2>2. net' \in [Key -> Nat] /\ \A j \in Key : j # k => net'[j] = net[j]
    BY <2>1 DEF LinkInv, LinkTypeOK
  <2>3. LinkTypeOK'
    BY <1>1, <2>1, <2>2 DEF LinkInv, LinkTypeOK, clientVars
  <2>4. LoginUnderWay'
    BY <2>1, <2>2 DEF LinkInv, LinkTypeOK, LoginUnderWay, clientVars
  <2> QED
    BY <2>3, <2>4
<1>4. CASE GateStep \/ UNCHANGED allVars \/ \E k \in Key : GateCloses(k)
  <2>1. UNCHANGED <<linkVars, loggedIn>>
    BY <1>4 DEF GateStep, allVars, vars, GateCloses, Close, gateVars, IoDisConnect, ServerMsgThread,
       TakeMessages, Register, SendAck, NameSession, IgnoreLogin, TakeEvents, Unregister
  <2> QED
    BY <1>2, <2>1
<1> QED
  BY <1>3, <1>4

LEMMA LinkNextInv == LinkInv /\ [LinkNext]_allVars => LinkInv'
<1> SUFFICES ASSUME LinkInv, [LinkNext]_allVars PROVE LinkInv'
  OBVIOUS
<1>1. ServersInv'
  BY LinkStep, NextInv DEF LinkInv
<1>2. LinkTypeOK' /\ LoginUnderWay'
  BY ConnectedLink, LinkLost, ThreadLink, GatewayLink DEF LinkNext
<1> QED
  BY <1>1, <1>2 DEF LinkInv

LEMMA LinkInvariance == LinkSpec => []LinkInv
BY LinkInit0, LinkNextInv, PTL DEF LinkSpec

-----------------------------------------------------------------------------
(* The theorems.                                                           *)

\* Both ends of the link keep their types.
THEOREM LinkTypeCorrect == LinkSpec => []LinkTypeOK
<1>1. LinkInv => LinkTypeOK
  BY DEF LinkInv
<1> QED
  BY <1>1, LinkInvariance, PTL

\* A link that is up has its SVRLOGIN_CMD done or due, whatever events of earlier links
\* MsgThread still goes through and whenever the server crashes (logic_manager.cpp).
THEOREM LoginIsUnderWay == LinkSpec => []LoginUnderWay
<1>1. LinkInv => LoginUnderWay
  BY DEF LinkInv
<1> QED
  BY <1>1, LinkInvariance, PTL

\* The composition implements the promise of the gateway's server side, although its
\* logic servers log in more than once.
THEOREM LinkKeepsLiveServers == LinkSpec => LiveStaysRegistered
<1>1. LinkInv /\ [LinkNext]_allVars =>
        [\A s \in Server : Route(s) # 0 => serverIds'[s] = serverIds[s]]_vars
  BY LinkStep, LiveStep DEF LinkInv
<1> QED
  BY <1>1, LinkInvariance, PTL DEF LinkSpec, LiveStaysRegistered
=============================================================================
