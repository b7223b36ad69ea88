-------------------------------- MODULE Relay -------------------------------
(***************************************************************************)
(* A message's way from a client through the gateway to the logic server,  *)
(* and the way of the answers back, as bytes: one client, one connection   *)
(* to the logic server.  Connections, sessions and queues are GateClients' *)
(* and LogicHandoff's matter, and none breaks here; TCP cuts and joins the *)
(* streams wherever it likes.  The client is outside of the repository:    *)
(* what it sends is what the logic server's handlers expect, and it reads  *)
(* an answer as the class its command is named for.                        *)
(***************************************************************************)
EXTENDS Frames, Protobuf

CONSTANTS User,         \* the user of the client's account
          Request,      \* what clients send: records of a command and a message
          MaxRequests,  \* bound on the requests of the client
          Chunk,        \* numbers of cells that may arrive at once, besides all there are
          Sample(_)     \* messages of a class to try the codec on

THIS_SERVER_ID == 1

\* The streams: client to gateway, gateway to logic server, and back.
Link == {"clientUp", "serverUp", "serverDown", "clientDown"}

VARIABLES wire,         \* cells under way
          buf,          \* cells in the receiver's buffer
          inbox,        \* messages taken from the buffer and not handled yet
          started,      \* the logic server has handled the event of its connection
          serverIds,    \* the keys of m_server_id_list
          session,      \* the user and the server of the client's session
          asked,        \* requests sent by the client
          handled,      \* how many of them the gateway has handled
          passed,       \* of these, those it has passed on, and for whom
          returned,     \* and those it has sent back
          heard,        \* requests as the logic server read them
          answered,     \* answers the logic server wrote
          told,         \* answers as the client read them
          echoed        \* requests sent back, as the client read them

links == <<wire, buf, inbox>>
history == <<asked, handled, passed, returned, heard, answered, told, echoed>>
vars == <<links, started, serverIds, session, history>>

NoSession == [user |-> 0, server |-> 0]

\* The client has logged in already or not.
Init ==
    /\ wire = [l \in Link |-> << >>]
    /\ buf = [l \in Link |-> << >>]
    /\ inbox = [l \in Link |-> << >>]
    /\ started = FALSE /\ serverIds = {}
    /\ session \in {NoSession, [user |-> User, server |-> THIS_SERVER_ID]}
    /\ asked = << >> /\ handled = 0 /\ passed = << >> /\ returned = << >>
    /\ heard = << >> /\ answered = << >> /\ told = << >> /\ echoed = << >>

-----------------------------------------------------------------------------
(* Streams.                                                                *)

\* con->send.
Send(l, p) == wire' = [wire EXCEPT ![l] = @ \o p]

\* The library appends what has come to the buffer and calls onMessage, which has taken
\* what it could the last time.
Arrive(l) ==
    /\ ~EnoughData(buf[l])
    /\ \E n \in Chunk \cup {Len(wire[l])} :
          /\ n \in 1 .. Len(wire[l])
          /\ buf' = [buf EXCEPT ![l] = @ \o SubSeq(wire[l], 1, n)]
          /\ wire' = [wire EXCEPT ![l] = SubSeq(@, n + 1, Len(@))]
    /\ UNCHANGED <<inbox, started, serverIds, session, history>>

\* One turn of the loop of onMessage.
OnMessage(l) ==
    /\ EnoughData(buf[l])
    /\ inbox' = [inbox EXCEPT ![l] = Append(@, NewMsgFromBuffer(buf[l]))]
    /\ buf' = [buf EXCEPT ![l] = Retrieved(@)]
    /\ UNCHANGED <<wire, started, serverIds, session, history>>

\* A thread takes up the next message that has come over l.
Take(l) ==
    /\ inbox[l] # << >>
    /\ inbox' = [inbox EXCEPT ![l] = Tail(@)]
    /\ UNCHANGED buf

-----------------------------------------------------------------------------
(* The client.                                                             *)

\* The class a handler of the logic server reads under a command.  The others read none.
RequestClass(cmd) ==
    CASE cmd = "PRE_LOGIN_CMD"   -> "ReqLogin"
      [] cmd = "CREATE_ROLE_CMD" -> "ReqCreateRole"
      [] cmd = "ENTER_GAME_CMD"  -> "ReqEnterGame"
      [] cmd = "MOVE_CMD"        -> "ReqMove"
      [] cmd = "CHAT_CMD"        -> "Chat"
      [] OTHER                   -> "ReqClientReady"

\* The class a command to the client is named for.
AnswerClass(cmd) ==
    CASE cmd = "PRE_LOGIN_ACK"   -> "AckLogin"
      [] cmd = "CREATE_ROLE_ACK" -> "AckCreateRole"
      [] cmd = "ENTER_GAME_ACK"  -> "AckEnterGame"
      [] cmd = "MOVE_ACK"        -> "AckMove"
      [] cmd = "ADDOBJ_CMD"      -> "MapAddObject"
      [] cmd = "DELOBJ_CMD"      -> "MapDelObject"
      [] OTHER                   -> RequestClass(cmd)

Read(class, data) == ParseFromArray(class, data).msg

Ask(r) ==
    /\ Len(asked) < MaxRequests
    /\ asked' = Append(asked, r)
    /\ Send("clientUp", Packet(r.cmd, Serialize(RequestClass(r.cmd), r.msg)))
    /\ UNCHANGED <<buf, inbox, started, serverIds, session, handled, passed, returned, heard,
                   answered, told, echoed>>

\* The client knows by the command whether it has got its own request back.
ReadAnswer ==
    LET p == Head(inbox["clientDown"])
        a == [cmd |-> Cmd(p), msg |-> Read(AnswerClass(Cmd(p)), Data(p))]
    IN
    /\ Take("clientDown")
    /\ IF Cmd(p) \in {"PRE_LOGIN_CMD", "HEART_CMD"}
       THEN echoed' = Append(echoed, a) /\ UNCHANGED told
       ELSE told' = Append(told, a) /\ UNCHANGED echoed
    /\ UNCHANGED <<wire, started, serverIds, session, asked, handled, passed, returned, heard,
                   answered>>

-----------------------------------------------------------------------------
(* The gateway.                                                            *)

\* SendMsgToServer drops a packet for a server that is not registered.
SendMsgToServer(id, p) ==
    IF id \in serverIds THEN Send("serverUp", p) ELSE UNCHANGED wire

\* The request at hand is passed on for the session's user, if his server is registered.
PassedOn(s) ==
    LET r == asked[handled + 1] IN
    /\ handled' = handled + 1
    /\ passed' = IF s.server \in serverIds
                 THEN Append(passed, [cmd |-> r.cmd, user |-> s.user, msg |-> r.msg]) ELSE passed

GoodKey(m) == IsSet(m, "checkKey") /\ m["checkKey"] = "md5"

\* OnGateClientMessage of a login whose key is the account's: a session that is not the
\* user's yet gets user and server first.
GatewayLogin ==
    LET p == Head(inbox["clientUp"])
        m == Read("ReqLogin", Data(p))
        s == [user |-> GetInt(m, "userId"), server |-> GetInt(m, "serverId")]
    IN
    /\ Take("clientUp")
    /\ Cmd(p) = "PRE_LOGIN_CMD" /\ GoodKey(m)
    /\ session' = IF session.user = s.user THEN session ELSE s
    /\ SendMsgToServer(s.server, Wrap("TRANSIT_CMD", session'.server, session'.user, p))
    /\ PassedOn(s)
    /\ UNCHANGED <<started, serverIds, asked, returned, heard, answered, told, echoed>>

\* With another key it is sent back as it came: the AckLogin made for it is not used.
\* So is a heartbeat.
GatewayEcho ==
    LET p == Head(inbox["clientUp"]) IN
    /\ Take("clientUp")
    /\ \/ Cmd(p) = "HEART_CMD"
       \/ Cmd(p) = "PRE_LOGIN_CMD" /\ ~GoodKey(Read("ReqLogin", Data(p)))
    /\ Send("clientDown", p)
    /\ handled' = handled + 1
    /\ returned' = Append(returned, asked[handled + 1])
    /\ UNCHANGED <<started, serverIds, session, asked, passed, heard, answered, told, echoed>>

GatewayForward ==
    LET p == Head(inbox["clientUp"]) IN
    /\ Take("clientUp")
    /\ Cmd(p) \notin {"PRE_LOGIN_CMD", "HEART_CMD"}
    /\ SendMsgToServer(session.server, Wrap("TRANSIT_CMD", session.server, session.user, p))
    /\ PassedOn(session)
    /\ UNCHANGED <<started, serverIds, session, asked, returned, heard, answered, told, echoed>>

\* OnGateServerMessage.
GatewayServerLogin ==
    LET p == Head(inbox["serverDown"])
        m == Read("ReqLoginServer", Data(Inner(p)))
        ack == [checkCode |-> GetInt(m, "checkCode"), serverId |-> GetInt(m, "serverId"),
                serverType |-> GetInt(m, "serverType")]
    IN
    /\ Take("serverDown")
    /\ Cmd(p) = "SVRLOGIN_CMD"
    /\ serverIds' = serverIds \cup {GetInt(m, "serverId")}
    /\ IF GetInt(m, "serverId") \in serverIds THEN UNCHANGED wire
       ELSE Send("serverUp", Wrap("SVRLOGIN_ACK", 1, 0,
                                  Packet("SVRLOGIN_ACK", Serialize("AckLoginServer", ack))))
    /\ UNCHANGED <<started, session, history>>

\* SendMsgToUser finds the client by its user.
GatewayAnswer ==
    LET p == Head(inbox["serverDown"]) IN
    /\ Take("serverDown")
    /\ Cmd(p) = "TRANSIT_ACK"
    /\ IF InnerUser(p) = session.user THEN Send("clientDown", Inner(p)) ELSE UNCHANGED wire
    /\ UNCHANGED <<started, serverIds, session, history>>

-----------------------------------------------------------------------------
(* The logic server.                                                       *)

\* OnClientEvent: it logs in at the gateway, in the class meant for the answer; 9 stands
\* for SERVER_CHECK_NUM.
LogicConnected ==
    /\ ~started /\ started' = TRUE
    /\ LET m == [serverId |-> THIS_SERVER_ID, serverType |-> 1, checkCode |-> 9]
       IN  Send("serverDown", Wrap("SVRLOGIN_CMD", 1, 0,
                                   Packet("SVRLOGIN_CMD", Serialize("AckLoginServer", m))))
    /\ UNCHANGED <<buf, inbox, serverIds, session, history>>

LogicServerAck ==
    /\ Take("serverUp")
    /\ Cmd(Head(inbox["serverUp"])) = "SVRLOGIN_ACK"
    /\ UNCHANGED <<wire, started, serverIds, session, history>>

Answer(cmd, class, m) == [cmd |-> cmd, class |-> class, data |-> Serialize(class, m)]

RoleInfo(name, job, country) ==
    [playerName |-> name, playerLevel |-> 0, playerJob |-> job, playerCountry |-> country,
     playerOnlyId |-> 3, lastLoginTime |-> 0]

Roles(roles) == [errorCode |-> 0, playerCount |-> 1, playerInfoArray |-> roles]
Location(map, x, y) == [mapId |-> map, curx |-> x, cury |-> y]

PreLoginAnswers ==
    {<<Answer("PRE_LOGIN_ACK", "AckLogin", [errorCode |-> 0, playerCount |-> 0])>>,
     <<Answer("PRE_LOGIN_ACK", "AckLogin", Roles(<<RoleInfo("ann", 1, 2)>>))>>}

CreatePlayerAnswers(m) ==
    LET name == IF IsSet(m, "playerName") THEN m["playerName"] ELSE ""
        role == RoleInfo(name, GetInt(m, "playerJob"), GetInt(m, "playerCountry"))
    IN  {<<Answer("CREATE_ROLE_ACK", "AckCreateRole", Roles(<<role>>))>>}

EnterGameAnswers(m) ==
    {<<Answer("ENTER_GAME_ACK", "AckEnterGame", a)>> :
        a \in {[errorCode |-> 0, tmpId |-> GetInt(m, "playerOnlyId")], [errorCode |-> 1]}}

\* Variant with a fault: a player who comes into view is announced as one who leaves it.
AppearedAsGone == Answer("DELOBJ_CMD", "MapAddObject", [tmpId |-> 4, curx |-> 2, cury |-> 0])

\* SendAddViewPlayers and SendDelViewPlayers, of another player.
Appeared == Answer("ADDOBJ_CMD", "MapAddObject", [tmpId |-> 4, curx |-> 2, cury |-> 0])
Left == Answer("DELOBJ_CMD", "MapDelObject", [tmpId |-> 4])

Moved(m) ==
    Answer("MOVE_ACK", "AckMove",
           [errorCode |-> 0, tmpId |-> 3, pixelx |-> GetInt(m, "pixelx"),
            pixely |-> GetInt(m, "pixely"),
            location |-> Location(1, GetInt(m, "curx"), GetInt(m, "cury"))])

\* A user without a role is on no map: an AckMove goes out under the command of a MapDelObject.
MoveRefused ==
    Answer("DELOBJ_CMD", "AckMove",
           [errorCode |-> 0, tmpId |-> 0, location |-> Location(0, 0, 0)])

\* ChatModule passes the bytes on as they came, to everyone, to one, or to nobody.
ChatAnswers(data) == {<< >>, <<[cmd |-> "CHAT_CMD", class |-> "Chat", data |-> data]>>}

Answers(cmd, m, data) ==
    CASE cmd = "PRE_LOGIN_CMD"    -> PreLoginAnswers
      [] cmd = "CREATE_ROLE_CMD"  -> CreatePlayerAnswers(m)
      [] cmd = "ENTER_GAME_CMD"   -> EnterGameAnswers(m)
      [] cmd = "CLIENT_READY_CMD" -> {<< >>, <<Appeared>>}
      [] cmd = "MOVE_CMD"         -> {<<Left, Moved(m)>>, <<Moved(m), Appeared>>, <<MoveRefused>>}
      [] cmd = "CHAT_CMD"         -> ChatAnswers(data)
      [] cmd = "USERLOGIN_CMD"    -> {<< >>, <<Left>>}
      [] OTHER                    -> {<< >>}

\* DispatchModuleMessage, and SendMsgToPlayer for every answer; what a module decides is
\* left open.
LogicDispatch ==
    LET p == Head(inbox["serverUp"])
        cmd == Cmd(Inner(p))
        data == Data(Inner(p))
        m == Read(RequestClass(cmd), data)
    IN
    /\ Take("serverUp")
    /\ Cmd(p) = "TRANSIT_CMD"
    /\ heard' = Append(heard, [cmd |-> cmd, user |-> InnerUser(p), msg |-> m])
    /\ \E as \in Answers(cmd, m, data) :
          /\ answered' = answered \o as
          /\ Send("serverDown", FlattenSeq([i \in DOMAIN as |->
                 Wrap("TRANSIT_ACK", THIS_SERVER_ID, InnerUser(p), Packet(as[i].cmd, as[i].data))]))
    /\ UNCHANGED <<started, serverIds, session, asked, handled, passed, returned, told, echoed>>

-----------------------------------------------------------------------------

Gateway == GatewayLogin \/ GatewayEcho \/ GatewayForward \/ GatewayServerLogin \/ GatewayAnswer
Logic == LogicConnected \/ LogicServerAck \/ LogicDispatch

Next ==
    \/ \E r \in Request : Ask(r)
    \/ \E l \in Link : Arrive(l) \/ OnMessage(l)
    \/ Gateway \/ Logic \/ ReadAnswer

Spec == Init /\ [][Next]_vars

-----------------------------------------------------------------------------

\* What the client sends under a command is of the class that is read there, and its good
\* logins are all for one user.  That restricts the one client looked at; the gateway does
\* not enforce it, as there is no user in the key it compares (OnGateClientMessage).
ASSUME RelayAssumption ==
    /\ User \in Nat \ {0} /\ MaxRequests \in Nat
    /\ \A r \in Request :
          /\ r = [cmd |-> r.cmd, msg |-> r.msg]
          /\ OfClass(RequestClass(r.cmd), r.msg)
          /\ r.cmd = "PRE_LOGIN_CMD" /\ GoodKey(r.msg) => GetInt(r.msg, "userId") = User

\* What the messages of the model hold is text, which the provers do not know of a literal.
ASSUME TextAssumption == {"", "ann"} \subseteq STRING

ASSUME SampleAssumption == \A c \in Class : \A m \in Sample(c) : OfClass(c, m)

-----------------------------------------------------------------------------
(* Properties.                                                             *)

TypeOK ==
    /\ \A l \in Link : \A i \in DOMAIN inbox[l] :
          /\ Len(inbox[l][i]) = PACKET_SIZE(DataLen(inbox[l][i]))
          /\ inbox[l][i][1] = <<"size", DataLen(inbox[l][i]), 1>>
    /\ started \in BOOLEAN /\ serverIds \subseteq {THIS_SERVER_ID}
    /\ session = NoSession \/ session.user = User
    /\ handled \in 0 .. Len(asked) /\ Len(asked) <= MaxRequests

\* The logic server reads what the client wrote: the requests the gateway passed on, each
\* whole, for the right user, and in the order they were sent, wherever TCP cut the two
\* streams and whatever was packed around them.
HeardAsPassed == IsPrefix(heard, passed)

\* What the client is to read in an answer: that a move was refused looks like the removal
\* of object 0, followed by fields the client does not know.
Meaning(a) == [cmd |-> a.cmd, msg |-> Read(IF a = MoveRefused THEN "MapDelObject" ELSE a.class, a.data)]

\* The client reads the answers the logic server wrote, each as the message it was written
\* as and in their order, and its own requests where the gateway sends them back, however
\* the two are mixed.
ToldAsAnswered ==
    /\ IsPrefix(told, [i \in DOMAIN answered |-> Meaning(answered[i])])
    /\ IsPrefix(echoed, returned)

\* Nothing stays behind: when the streams are still and the threads have nothing to do, no
\* buffer holds the beginning of a message, every request has been handled, and every
\* answer has reached the client.
NothingStuck ==
    (\A l \in Link : wire[l] = << >> /\ ~EnoughData(buf[l]) /\ inbox[l] = << >>) =>
        /\ \A l \in Link : buf[l] = << >>
        /\ handled = Len(asked)
        /\ Len(heard) = Len(passed)
        /\ Len(told) = Len(answered) /\ Len(echoed) = Len(returned)

\* Whatever fields are set, a message is read as it was written, a field set to zero or to
\* the empty text included, and the size announced for it is that of its bytes.  Bytes of
\* two messages in a row are read as MergeFrom merges the messages; the first may be of
\* another class.  This is about no state, and looked at before the first step.
CodecFaithful ==
    asked = << >> /\ ~started => \A c \in Class : \A m \in Sample(c) :
        /\ ByteSize(c, m) = Len(Serialize(c, m))
        /\ ParseFromArray(c, Serialize(c, m)) = [ok |-> TRUE, msg |-> m, at |-> ByteSize(c, m)]
        /\ \A d \in {c, "ReqClientReady"} : \A k \in Sample(d) :
              LET read == ParseFromArray(c, Serialize(d, k))
              IN  read.ok => ParseFromArray(c, Serialize(d, k) \o Serialize(c, m)).msg
                             = MergeFrom(c, read.msg, m)
=============================================================================
