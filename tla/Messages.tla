------------------------------ MODULE Messages ------------------------------
(***************************************************************************)
(* The message classes of src/projects/proto: a table of each one's        *)
(* fields, in the order of their numbers, and a table of the classes for   *)
(* each .proto file.  int32 and int64 are both "int".  Nobody sends the    *)
(* classes of task.proto, ServerHeartBeat and ReqUserLogout.               *)
(***************************************************************************)
EXTENDS Naturals, Sequences

\* Rows of a table.  The numbers run from 1 in every class.
Optional(name, type) == [name |-> name, type |-> type, repeated |-> FALSE]
Repeated(name, type) == [name |-> name, type |-> type, repeated |-> TRUE]

Whole(name) == Optional(name, "int")
Text(name) == Optional(name, "string")
Times == Repeated("info", "TimeInfo")

TimeInfo == <<Text("tag"), Whole("sendTime"), Whole("receiveTime")>>

TimeSchema == [TimeInfo |-> TimeInfo]

Chat == <<Whole("chatType"), Text("fromPlayerName"), Whole("fromPlayerOnlyId"),
          Text("toPlayerName"), Whole("toPlayerOnlyId"), Text("chatMsg"),
          Whole("vipLevel"), Times>>

ChatSchema == [Chat |-> Chat]

-----------------------------------------------------------------------------
(* login.proto                                                             *)

ReqLogin == <<Text("account"), Whole("userId"), Whole("serverId"), Text("checkKey"),
              Whole("time"), Times>>

PlayerInfo == <<Text("playerName"), Whole("playerLevel"), Whole("playerJob"),
                Whole("playerCountry"), Whole("playerOnlyId"), Whole("mapId"),
                Whole("lastLoginTime")>>

AckLogin == <<Whole("errorCode"), Whole("playerCount"),
              Repeated("playerInfoArray", "PlayerInfo"), Times>>

ReqCreateRole == <<Text("playerName"), Whole("playerJob"), Whole("playerCountry"), Times>>

AckCreateRole == <<Whole("errorCode"), Whole("playerCount"),
                   Repeated("playerInfoArray", "PlayerInfo"), Times>>

ReqEnterGame == <<Whole("playerOnlyId"), Times>>

AckEnterGame == <<Whole("errorCode"), Whole("tmpId"), Times>>

ReqClientReady == <<Times>>

ReqUserLogout == << >>

LoginSchema ==
    [ReqLogin       |-> ReqLogin,       PlayerInfo    |-> PlayerInfo,
     AckLogin       |-> AckLogin,       ReqCreateRole |-> ReqCreateRole,
     AckCreateRole  |-> AckCreateRole,  ReqEnterGame  |-> ReqEnterGame,
     AckEnterGame   |-> AckEnterGame,   ReqClientReady |-> ReqClientReady,
     ReqUserLogout  |-> ReqUserLogout]

-----------------------------------------------------------------------------
(* move.proto                                                              *)

ReqMove == <<Whole("curx"), Whole("cury"), Whole("pixelx"), Whole("pixely"), Times>>

MapLocation == <<Whole("mapId"), Whole("curx"), Whole("cury")>>

AckMove == <<Whole("errorCode"), Whole("pixelx"), Whole("pixely"), Whole("tmpId"),
             Optional("location", "MapLocation"), Times>>

MapAddObject == <<Whole("dir"), Whole("curx"), Whole("cury"), Whole("pixelx"), Whole("pixely"),
                  Whole("tmpId"), Times>>

MapDelObject == <<Whole("tmpId"), Times>>

MoveSchema ==
    [ReqMove |-> ReqMove, MapLocation |-> MapLocation, AckMove |-> AckMove,
     MapAddObject |-> MapAddObject, MapDelObject |-> MapDelObject]

-----------------------------------------------------------------------------
(* server.proto                                                            *)

ReqLoginServer == <<Whole("checkCode"), Whole("serverId"), Whole("serverType")>>

AckLoginServer == <<Whole("checkCode"), Whole("serverId"), Whole("serverType")>>

ServerHeartBeat == <<Whole("isNeedAck"), Whole("checkNum")>>

ServerSchema ==
    [ReqLoginServer |-> ReqLoginServer, AckLoginServer |-> AckLoginServer,
     ServerHeartBeat |-> ServerHeartBeat]

-----------------------------------------------------------------------------
(* task.proto                                                              *)

ReqTaskAccept == <<Whole("id")>>

TaskTarget == <<Whole("id"), Whole("count"), Whole("value")>>

TaskInfo == <<Whole("id"), Whole("status"), Repeated("target", "TaskTarget")>>

AckTaskAccept == <<Optional("info", "TaskInfo")>>

AckTaskProgress == <<Optional("info", "TaskInfo")>>

AckTaskComplete == <<Whole("id"), Whole("status")>>

ReqTaskComplete == <<Whole("id")>>

TaskSchema ==
    [ReqTaskAccept |-> ReqTaskAccept, TaskTarget |-> TaskTarget, TaskInfo |-> TaskInfo,
     AckTaskAccept |-> AckTaskAccept, AckTaskProgress |-> AckTaskProgress,
     AckTaskComplete |-> AckTaskComplete, ReqTaskComplete |-> ReqTaskComplete]

-----------------------------------------------------------------------------

Class ==
    DOMAIN TimeSchema \cup DOMAIN ChatSchema \cup DOMAIN LoginSchema
    \cup DOMAIN MoveSchema \cup DOMAIN ServerSchema \cup DOMAIN TaskSchema

Schema ==
    [c \in Class |->
        CASE c \in DOMAIN TimeSchema   -> TimeSchema[c]
          [] c \in DOMAIN ChatSchema   -> ChatSchema[c]
          [] c \in DOMAIN LoginSchema  -> LoginSchema[c]
          [] c \in DOMAIN MoveSchema   -> MoveSchema[c]
          [] c \in DOMAIN ServerSchema -> ServerSchema[c]
          [] c \in DOMAIN TaskSchema   -> TaskSchema[c]]
=============================================================================
