# A verification project for QCLib

QCLib is a C++ library for game servers on Linux (muduo, redis, MySQL, protobuf)
with the servers built from it: a gateway, a logic server and a database
gateway.  This directory holds TLA+ models of it, configurations that check them
with TLC, and proofs that TLAPS checks.  Every definition is translated from the
code; PROJECT.json maps each one to the lines it stands for.

The repository is in the middle of a refactoring and does not build as committed
(`thread.h` makes `RunInThread` pure where its users override `ThreadRun`,
`data_cache.cpp` calls an overload `db_cache.h` no longer has).  What is modelled
is what these lines evidently mean: the pieces that are modelled do not depend on
which of the two names wins.

## The system

    clients ──TCP──> [ gateway: GateManager ] <──TCP── [ logic server ] ──> redis <── [ db gateway ] ──> MySQL
                       listener for clients               TcpClient link,
                       listener for servers               message thread, main logic thread,
                                                          HTTP port

| Part | State it keeps | Operations | Who shares it |
|---|---|---|---|
| TCP listener, `tcp_server.*` | key counter, connection map, session map, a `UserSession` in each connection, message and event queues | accept, message, disconnect (IO thread); receive, events, send, disconnect, add session (a worker thread) | only the two queues have a mutex |
| Gateway, `gate_manager.*` | two listeners, the server list | "ClientMsg" thread: login, forward, logout; "ServerMsg" thread: register, answer, unregister, send to users | each worker thread with the IO thread of its listener, and with the other worker over the server list |
| Link, `tcp_client.*`, `logic_manager.*` | status, message and event queues | start, retry, send, receive; register on CONNECTED | IO thread and message thread |
| Hand-off, `logic_thread.*`, `containers_define.h` | three rings, a condition variable | set message, notify; wait, append, pop, dispatch | message thread and main logic thread |
| Login and cache, `login_module.*`, `data_cache.*` | cached players, user index, the id counter, a string stream for numbers | list, create, enter, leave; load, save | main logic thread; the counter's timed save is in the message thread, which shares the stream and the redis connection without a lock |
| Map, `map_module.*`, `tower_aoi.*` | each tower's objects and watchers, each player's view list | appear, move, leave | main logic thread |
| redis, `redis_client.*`, `db_cache.*` | one connection, never renewed | get, set, keys | any thread, no lock |
| Database gateway, `dbgateway/` | none between rounds | MySQL to redis once, redis to MySQL every five minutes | with the logic server, through redis |
| Packets, `base_define.h`, `function_for_muduo.h` | a buffer per thread | wrap, unwrap, cut from a stream | every connection |
| Message classes, `proto/` | the fields of an object | set, get, merge, size, write, read | every handler |
| HTTP port, `http_server.*` | a context per connection | parse, answer | the listener's IO thread |
| Logger, `logger.*`, `file_writer.*` | a buffer, a cache, a file per appender | append, flush, switch file | all threads and the logger's own |

What is hard about it: containers touched by two threads without a lock, raw
pointers into connections that wait in queues, batches of messages and of events
that are taken in turn and so overtake each other, a condition variable, state
kept by differences (the view lists), streams that arrive in any pieces, and crashes
between saves.  The hazards are
listed line by line in PROJECT.json.

What makes each part correct, in a sentence: the listener and the gateway never
let two connections speak for one user, and tell a logic server about the logout of
every connection that spoke for one, the session's own or that of a login which has just
then been given the connection; a logic server that is connected stays
registered, and one that had its name is removed once its loss was reported; the hand-off
is a FIFO that never sleeps on its messages; the towers agree with where the players are,
the view lists with each other for those who keep to the map, and what the clients show
with the view lists; ids do not repeat but for what a crash or the start copy of the
database gateway took back; what is saved comes through both copies and back, but for names
that do not get through the texts of the two databases; a message is read
as it was written, however its bytes are cut; no log record is lost.

## Modules

| Module | What it models |
|---|---|
| `LoopArray` | `LoopArray<T>`, the ring buffer, as operators on records |
| `LogicHandoff` | the message thread and the main logic thread around `m_cond`; one action per step between which the other thread can come |
| `MessageFifo` | what the hand-off promises: a bounded first-in first-out queue; the abstract specification `LogicHandoff` implements |
| `LogicHandoffProofs` | theorems about the ring buffer and the hand-off |
| `TcpServer` | a listener: the IO thread's callbacks as actions, the worker's calls as operators |
| `GateClients` | `TcpServer` with the ClientMsg thread and clients |
| `GateClientsProofs` | theorems about it |
| `GateServers` | `TcpServer` with the ServerMsg thread and logic servers |
| `GateLink` | a logic server's `TcpClient` and message thread, composed with `GateServers`; crashes and reconnections |
| `GateServersProofs` | theorems about `GateServers` and about its composition with `GateLink` |
| `TowerAoi` | the towers: which of them a cell has in view, watchers, moves |
| `World` | `TowerAoi` with the data cache, the login and the map module; one action per message handler, as one thread runs them all |
| `WorldProofs` | theorems about the two |
| `RedisStore` | redis as both of its users see it |
| `GameData` | the logic server's ids and roles in redis: create, list, load, save, crash |
| `DbGateway` | both directions of the copy between redis and MySQL, a command at a time |
| `RoleRecord` | a role as a struct, as fields of redis and as a row: pure conversions |
| `Persistence` | `GameData`, `DbGateway` and `RedisStore` composed, with their faults |
| `PersistenceProofs` | theorems about the composition and about `RoleRecord` |
| `Frames` | packets: padding, packets in packets, cutting a stream |
| `Messages`, `Protobuf` | the generated message classes: a table of each one's fields, and the methods the generator wrote for all of them as operators over the table |
| `CodecProofs` | theorems about `Frames` and `Protobuf` |
| `Relay` | a request's way as bytes from client to gateway to logic server, and the way of its answers, composed of `Frames`, `Protobuf` and the handlers of both servers |
| `RelayProofs` | theorems about it |
| `Http` | the HTTP port: the request parser over pieces of a stream, and the answers |
| `LogWriter` | the logger: threads that log, the thread that writes, and `~Logger` |
| `LogWriterProofs` | theorems about it |
| `MC*` | instances for TLC |

### How state and actions correspond to the code

*LogicHandoff.*  `outer`, `inner`, `local` are `m_msg_queue`, `m_msg_queue_inner`
and the local `msg_queue` of `ThreadRun`; `owner` is who holds `m_cond`'s mutex and
`waiting` whether the logic thread is blocked in `Wait`.  `HaveMessage` reads
`inner` without the lock, at any moment of the other thread's `Append`, each of
whose iterations is an action.  A full `m_msg_queue` drops the message
(`SetMessage`); the history variable `accepted` records the others.  A spurious
wakeup may come at any time.

*TcpServer.*  Each access to an unlocked map or context is an action: the callback
`onDisConnect` is `OnDisConnect`, `DisConnectSession`, `DisConnectEvent`.  A queued
message names the connection whose `UserSession` it points into; `SessionReads`
says what reading it can yield once the connection object is freed: what it held,
nothing, or the session of a later connection.  Damage to a `std::map` by a
concurrent search is not modelled, nor is an error that muduo reports (`onError`
is empty).  CONNECTED events are not queued in the model: both gateways only log them.

*GateClients.*  `AddSession` of the code is `AddSession`, `BindUser`, `BindServer`,
`InsertSession` where the user has no session and `RefuseSession` where he has;
`ForwardLogin`, `ForwardGame`, `ForwardLogout` send to the logic server, and `sent`
is the last thing sent.  The set of registered servers is fixed.  `onDisConnect` reads the
server of its event from the context when it has left both maps, and `AddSession` may be
giving the context to another login at that time (`Rebinding`): then that login's server may
be told in place of the session's, which is never told.  `LogoutReported` says that one of
the two is told.

*GateServers.*  `serverIds` is `m_server_id_list`; `Register`, `SendAck` and
`NameSession` are the three effects of the first SVRLOGIN of a server, `IgnoreLogin`
that of one that has an entry.  A logic server logs in once on each connection
(`logic_manager.cpp`, on CONNECTED), which `peer` and `loggedIn` record; `GateLink` has
the second login it sends when it handles two CONNECTED events late, both over the newer
connection.

*GateLink.*  `StartClient` and `SetConnecting` are the two halves of `TcpClient::Start`,
between which the library may already have connected; `OnConnected` and `OnDisconnect` are
the callbacks, `ReceiveEvent`, `OnClientEvent` and `EventsDone` the message thread.  Logins
on the way are counted in `net`.  Both ends of a connection are lost at times of their own
(`OnDisconnect`, `GateCloses`), and `Crash` is the end of the process and its next start.
Every step of the gateway in it is one of `GateServers`.  `status` is `m_status`, at which no
action looks, as nobody in the code does.

*World.*  `loaded` is the keys of the player cache and `userObj` the user index;
`owner` is what the database holds; `loc` and `view` are kept with the cached player.
Positions are not saved, so a loaded player starts at `Start`.  `Added` is the loop of
`SendAddViewPlayers`: it stops adding when either list is full or the player is on
his own list, in ascending order of ids.  With `Orderly` the clients keep to
create/enter, ready, move, leave; without it they send anything at any time.
A client's coordinates are never compared with the map: `Reach` is the positions, in the map
and out of it, that are found walkable and at which every access of the towers and of the grid
of cells is to something they have.  The number of such a position's tower may be that of another
one (`At`), which the player does not watch: he and those who do are then on each other's lists
until one of them moves or leaves, and then the lists may differ for good (run `no_ghost`).  What
further moves do is undefined: they are left out.  The history variable
`strayed` has the roles that were ever outside.  `screen` is what each user's client has
been told to show, added up from the additions, moves and removals that were sent to it
(`ShowAdd`, `ShowMove`, `ShowDel`).

*LogWriter.*  Writer 0 is the process's, the others are modules'.  A record is one unit of
data, so `FlushSize` and `PieceSize` are in records.  `SwitchBuffer` really swaps buffer and
cache: that the cache is empty then is up to `WriteDone`.  The time matters only through
which writers are a second behind when a round begins (`due`).  A record's level, the file
within a writer's directory and a `write()` that fails are left out; the servers as committed
log to standard output, where there is only one file.

*Persistence.*  A step is one command to redis or to MySQL.  Creating a role takes two
(`CreatePlayer`, `ListNewPlayer`), between which the process may end or the message thread
may save the count.  Both threads put numbers through one string stream, the main logic thread also for each
move (`game_debug.cpp`): when they meet, the id listed or the count saved may be another number, or the text of none
(`Garbage`).  A role is a model value here, as none of its fields ever changes; `UserOf` is the
user it is of.  Those with a quote in the name are `Refused`: MySQL does not take the statements
about them, whose result the gateway ignores (`WriteRow`).  `RoleRecord` follows
all of a role's fields through `DESCRIBE_FIELD`, the text of the command to redis, the columns of
`table2redis.xml`, the text of the statement to MySQL, and back.  What the two texts make of a word is
a constant: redisCommand takes its text for a format, so that a percent sign does not survive it
(`RedisText`; the process may not either, which `Persistence` has as a crash), and MySQL takes a
backslash away (`SqlText`) and refuses a quote too many (`Quoted`).  `given` and
`forgotten` are histories for `CountOrder`: the highest id that was handed out, and whether
redis was ever left behind it by the end of the server or by a start copy.  A
client of redis whose connection is lost has none for good (`gconn`, `dconn`), and the first
reply it reads ends the process, NULL as it is (`GameEnds`, `GatewayEnds`, `NullReply`); the calls
that check for NULL go on without effect, so that a gateway which has lost redis between two rounds
goes through rounds without keys for ever and copies nothing any more.

*Relay.*  One client and one connection to the logic server; the four directions are
sequences of cells, of which any number may `Arrive` at once.  A cell is a byte, except in
message bodies, where a tag, a varint, a length and a text are one each.  `OnMessage` is a
turn of the loop that cuts messages from the buffer.  `Gateway...` are the branches of the
gateway's two handlers, `LogicDispatch` the module manager and the module; what a module
decides from its state is left open (`Answers`).  The one client logs in for one user: the
gateway does not see to that, since the key it compares is of the account and the time only.  The histories say what was asked, how much of
it the gateway has handled, what of that it `passed` on and what it `returned`, and what the
three receivers read.  The client is outside the repository: it
reads an answer as the class its command is named for, and knows by its command a request it has
got back.  Not modelled: lengths beyond the
65535 bytes of the send buffers, and streams that are not packets.

*Messages, Protobuf.*  The 26 generated classes differ only in their tables of fields, so
each class is a row of `Messages`, and stands for that class's methods; `Protobuf` has each
method once.  The methods call themselves for the fields of a message that are messages, which
no class does more than once: `Serialize` is `Serialize1` for a field, this is `Serialize0`, and so
with the others.  Reading is a fold of `Turn`, the turn of the generated loop, over the cells;
`Behind` is what the turn leaves in front of the next.  `ServerHeartBeat`, `ReqUserLogout` and the classes of `task.proto` are
sent by nobody, and are checked as codecs only.

*Http.*  A connection is a record; `OnLibMessage` is the callback for a piece that has come.
The context, the request and the sending come from muduo and are taken as http_server.cpp
uses them.

## What is checked

| Run | Instance | What it shows |
|---|---|---|
| `logic_handoff` | rings of 2, 7 messages | nothing accepted is lost, duplicated or overtaken; the shared ring is exclusive; no lost wakeup; it implements `MessageFifo`, liveness included |
| `gate_clients` | 2 connections, 2 users, 2 registered servers, 2 messages | who speaks for a user owns his session; a session that is up is never taken over; each logout of a bound connection is reported to the session's server, or to the one another login over the connection is being given to |
| `gate_link` | 2 connections, 1 server | a connection's login is made or under way, whatever order events are handled in; in the end it has come; a registered server that is up stays registered, one whose loss was reported is unregistered |
| `world` | 3x3 towers and a position beside them, 2 roles, 2 users, lists of 1, any order of messages | with moves out of the map: the index leads to a role of the user; the towers hold who is there and who watches; the lists of those who stay on the map agree and show only who is near; what a client shows is its player's view list |
| `world_orderly` | 3x3 towers, 3 roles, 3 users, lists of 3, orderly clients | a view list is exactly the neighbourhood |
| `log_writer` | a process writer and one module's, 4 records, pieces of 2 | no record is lost, doubled or reordered; what was logged before `~Logger` is written when it ends; each record is written in the end |
| `persistence` | 2 users, 3 roles, 1 id, 2 faults | no copy of the count runs ahead of the next, and no id is handed out twice but for what a crash or the start copy took back; roles are listed; a started gateway has refilled redis; a role's fields survive both copies, its name if both databases keep it; what stays in redis comes to MySQL, if the gateway keeps its connection and MySQL takes the name |
| `relay` | 2 requests of 9 kinds, pieces of 4 cells or all | requests and answers are read as they were written, and nothing is stuck; every message class is read as written; HTTP requests are answered in order, bad ones refused once |
| `gate_logout_offline` | 2 connections, 1 user | violation: a logout is forwarded for a user who is back online |
| `gate_login_answered` | 2 connections, 1 server | violation: a server that restarts quickly is never answered |
| `entered_plays` | 2 users | violation: entering a second role succeeds but does not lead to it |
| `no_ghost` | 3x3 towers and what lies around them, 2 users | violation: a player outside the map keeps showing one who has logged out |

The four violations are disagreements of the code with its own comments and
messages; PROJECT.json quotes them.

### Bounds, and why they are enough

* `Capacity = 2`, `MaxMsgs = 7`: each ring wraps, all three can be full at once (six
  messages and one in the logic thread's hand), and a message can be dropped.
* `MaxConn = 2`: every hazard of the gateway is between a connection and the one
  after it; freed memory can be that of the later one.  `MaxSends = 2` with at most
  two logins per connection: a login, and a second login by the other connection, for
  another user or for another server, which is written over the first one's context.  The
  client side has two servers to tell, both registered (what is sent to one that is not is dropped,
  which the theorems cover); `gate_link` has one server, two of whose connections
  may be up; its theorems are about any number.
* A 3x3 grid of one-cell towers with a view of one tower: there are towers in view and
  out of view of each other in both directions, at corners, edges and the middle.
  Two roles for two users: one user can have both, and `MaxView = 1` makes both a
  player's own list, with himself on it when he is ready twice, and the other's fill.
  `world_orderly` and `entered_plays` have three.
* `Outside`, the positions outside the map that are looked at: one to the right of the map, and for
  `no_ghost` one to the left of it too.  The number of each one's tower is that of a tower the
  player does not watch.  The theorems are about any positions.
* Key counters, sends and messages are capped in the guards of `OnConnect`,
  `SendLogin`/`SendGame` and `SetMessage`; nothing else is bounded.
* `MaxId = 1` with `MaxFaults = 2`: one id is enough to be handed out a second time, to the
  other user, after a crash; two faults are enough for a crash of each side, or for a crash
  and a redis that comes back empty.  Three roles: one of each user and one MySQL refuses.
  The gateway's own rounds are not bounded.  `MaxCount`
  is the bound the code has, 2^56 - 1: that a server does not hand out so many ids is
  `CountAssumption`, so the count never starts again at 0 within a behaviour.
* `MaxRequests = 2`, `Chunk = {4}`: a message may be cut behind its length, in its padding and
  in the middle of the next one; two requests of any kinds follow each other.  The codec is
  tried on full messages, on each field alone, on all but one, and on pairs of these.  HTTP: two
  requests, cut at every two places.
* `MaxRecords = 4` with `FlushSize = 1`, `PieceSize = 2`: a buffer is due by size or by time, is
  written in one to four pieces, and is filled again while its cache is being written.

Deadlock is checked in every run but `log_writer`, where a destroyed logger is the end, and
`relay`, where the client has no more to ask (`NothingStuck` says that this is the only way
to stop).

### Fairness

Weak fairness is assumed of each thread's own next step: all of them are endless
loops on threads the kernel schedules.  In `LogicHandoff` taking the mutex is
strongly fair, since another thread releases and takes it again and again, and
it is a pthread mutex, which the kernel withholds from nobody for ever.
`LogoutReported` assumes that the
IO thread and the worker go on; `GateClients` also assumes that the peer of a
connection on which `shutdown` was called closes it (`LogoutReported` does not need
it).  `LogWriter` assumes that the logger thread and
`~Logger` run on and that time passes: in rounds without end each writer is a second
behind again and again.  `GateLink`, `LostIsUnregistered` included, assumes that both processes' threads run on, that a connection
that stays up delivers, and that an end whose other end is gone is closed; a connection
need not stay up and a server need not crash.  `Persistence` assumes that the database
gateway is started again and works on, that it ends when it reads a reply that is NULL, as it
reads the reply's type at address 0 then, and nothing of the game.  `Relay` assumes nothing:
its behaviours end, and `NothingStuck` says what holds then.  No fairness is assumed of
clients otherwise.

## What is proved

TLAPS checks these for every value of the constants.  The proofs rest on no assumption but
those below and, for `ViewsAreNeighbourhoods`, its stated hypothesis.

| Theorem | Says |
|---|---|
| `LogicHandoffProofs!PushBackAppends`, `PopFrontTakesOldest` | the ring buffer is a bounded queue, for every capacity |
| `LogicHandoffProofs!TypeCorrect`, `HandoffKeepsOrder`, `InnerIsExclusive`, `WakeupNotLost` | the invariants of run `logic_handoff` |
| `LogicHandoffProofs!HandoffIsFifo` | `Spec => Fifo!FifoSpec`: each step is a step of `MessageFifo` or a stutter |
| `GateClientsProofs!ClientsTypeCorrect`, `OneSpeakerPerUser`, `SessionsAreKept` | the safety properties of run `gate_clients` |
| `GateServersProofs!ServersTypeCorrect`, `LiveServersStay` | the types and the action property of run `gate_link`, for the gateway with any logic servers that log in once on a connection |
| `GateServersProofs!LinkTypeCorrect`, `LoginIsUnderWay`, `LinkKeepsLiveServers` | the invariants of run `gate_link`, and its action property there |
| `WorldProofs!WorldTypeCorrect`, `UsersHavePlayers`, `TowersAreRight`, `ViewsAreMutual`, `ViewsAreNear`, `ViewsAreCapped`, `ScreensAreTrue` | the invariants of run `world`, for every order of messages and every move in `Reach`, whatever `Outside` is; `ViewsAreMutual` and `ViewsAreNear` for two players who have kept to the map |
| `WorldProofs!ViewsAreNeighbourhoods` | that of run `world_orderly`: a view list is the neighbourhood, if clients are `Orderly`, which keeps them on the map, and a list has room for every role |
| `LogWriterProofs!LoggerTypeCorrect`, `RecordsAreKept`, `EndWritesAll` | the invariants of run `log_writer` |
| `PersistenceProofs!PersistenceTypeCorrect`, `CountsInOrder`, `RolesAreListed`, `StartCopyRefills` | the invariants of run `persistence` but `RecordFaithful`, and not `RowPersisted` |
| `PersistenceProofs!RoleIsKept`, `RecordIsFaithful` | a role of any name is saved over any row, restored from columns in any order and saved again as `RoleKept` says: as it was, with one word for its name, if both databases keep that word; with all else as it was, if MySQL takes the name; so are those of the run |
| `CodecProofs!PacketIsRead`, `StreamIsCut`, `WrapIsUndone` | packets are read as they were written: data of any length, a stream cut anywhere, a packet inside another |
| `CodecProofs!SizeIsAnnounced`, `MessageIsReadBack`, `MessagesMerge` | for each of the 26 classes and every message of it: the size announced is that of the bytes, what is written is read back, and two messages in a row are read as `MergeFrom` merges them |
| `RelayProofs!RelayTypeCorrect`, `RequestsAreHeard`, `AnswersAreTold`, `NothingStaysBehind` | the invariants of run `relay` about the streams: for any set and number of requests, and wherever TCP cuts the four streams |
| `RelayProofs!CodecIsFaithful` | `CodecFaithful` of that run, for samples of any size |

The assumptions on the constants, each in the module that declares them:

* `CapacityAssumption`, `NullAssumption`, `ItemAssumption`: a ring has a slot, NULL is no
  message, messages are numbered.
* `IdAssumption`, `ClientsAssumption`, `AbsentAssumption`: ids are positive numbers, 0 being
  the code's "none"; the registered servers are servers; a missing entry is no key.
* `GridAssumption`, `WorldAssumption`, `MapAssumption`: sizes of the map, a tower and a view
  are numbers, all but the last not 0, with as many towers across as down; positions outside are numbers too; ids are positive; the
  objects are finitely many, as they are in any process; players start on the map.
* `LogAssumption`: sizes and counts are numbers, and a write takes at least one record.
* `StoreAssumption`, `CountAssumption`, `FaultAssumption`, `RefusedAssumption`: a key has its
  kind, and NULL and a garbled number are no values; a role has a user; ids stay below `MAX_COUNT`;
  faults are counted; what MySQL refuses are roles.  `NumeralAssumption`: both databases keep
  numerals as they are.
* `RelayAssumption`: what the client sends under a command is a message of the class the logic
  server's handler reads under it, and its good logins are for one user: a restriction to such
  clients, which the gateway does not enforce.  `SampleAssumption`: the samples of a class are messages of it.
  `TextAssumption`: two literals are texts, which the provers take for values of no type.

*The hand-off.*  `NoLossNoReorder` says of each ring which stretch of `accepted` it
holds, and is almost inductive: that `LogicPop` finds a message needs `PopReady` (the
Append before it moved one), that nobody else touches `inner` during an Append
needs `InnerExclusive`, and that a notification wakes the right thread needs
`AsleepInWait`.  Their conjunction with the type invariant is `IInv`; it was checked
with TLC on the run's instance before it was proved.  Each ring operation has a lemma (`HoldsPush`, `HoldsPop`) that rests on the two
theorems about the ring, whose own proofs are about modular arithmetic.

*The gateway.*  `SessionOwner` alone is not inductive: when `onDisConnect` erases the
session of the user its context names, it must not be another connection's.  So the
invariant `LiveOwner` also covers the connection that has left `m_connection_map` but
not yet `m_session_map` (`Live`), and `BindPhase` records that from AddSession's look
to its insertion the user has no session and the target is an accepted connection.
`OwnsSession` follows: while a user has a session, whoever speaks for him owns it, from
which both theorems follow.

*The servers' side.*  An entry of `m_server_id_list` is taken away for the server an event
names, and that is right only if the event is of the connection the entry is for.  The
invariant `ServersInv` therefore says that each connection is reported lost once
(`EventsOnce`), after it has left the map, and that of all that speaks for a server, the
connections that are up and the events of those that are not, each names the key the entry
has (`NamesClaim`, `Claimed`; `RegisterPhase` for the time between the entry and the name).
A connection that is up and has the entry then has no event.

*The link.*  `LinkStep` shows that a step of `GateLink` is for the gateway a step of its own,
its environment's second logins included, or none; so `ServersInv` holds there and with it
`LiveStaysRegistered`.  `LoginUnderWay` is inductive with the types: the step that takes the
cause of a login away (`OnClientEvent`) sends one over whatever connection there is, and
one that was sent and is not under way has been handled.

*The world.*  The invariants of run `world` are inductive together, with five helpers:
what is cached is a role (`LoadedRoles`), a player on the map is his user's present one
(`OnMapPlays`), who has not strayed is in a cell (`KeptCells`), only players on the map have view
lists (`ShownOnMap`), and other
users' screens are blank (`OthersBlank`).  The proof begins with the grid: on the map a tower's number
is its own and being in view is mutual, everywhere positions of one tower see the same
(`CeilDivFacts` and what follows it); then what `Added` adds to two lists at a time, so that neither
passes its cap and both or neither list has the other (`AddMembers`); then one lemma per
handler.  For `ViewsAreNeighbourhoods` the invariant `OrderInv` is added: an orderly player is
never on his own list, and is on the map exactly while his user is ready.

*The logger.*  `NoRecordLost` needs that the cache is empty when `SwitchBuffer` swaps it
(`CachesEmpty`), where the writing is (`WritingAt`), and that a round's writers are those that
exist (`WritersKnown`).  `WrittenAtEnd` follows from `OwedWritten`: while `~Logger` makes its
last round, the writers it has passed are written as far as they were logged when it began, and the
one it is at will be with the rest of its cache.

*Persistence.*  The two programs copy the same records to and fro, so the invariant speaks of
every copy there is: in redis, in the cache, in a row, in the result of a SELECT, and in the
record that is on its way to MySQL.  `PersistInv` says of them that what is still to be
restored is a row as it is (`Copying`), that redis has a record of whatever has a copy
(`Held`) while it keeps its data, that the counts are in order and the one on its way too
(`Counts`; `Fresh` for the ids handed out), that each copy's owner has the role in his list, or gets it, or was cut short
(`OwnersListed`), and that a row which is not in redis is one the start copy has still to
come to (`RefilledSoFar`, `Due`).  TLC finds it invariant in the run's instance, and with two
ids and one user.

That a role survives its record (`RoleIsKept`) needs no state, and nothing of the two texts but
what `Numbered` and `Plain` say of the role's words.  `DESCRIBE_FIELD` reads the first
word of each member into one string, which keeps the word of the member before when there is none:
only the name can have no word or several (`NameWord`).  The proof exhibits the recursive
function that does this (`TextIs`), says of each place which word it saves (`Word`), and that the
order of the columns does not matter as long as each of them occurs (`Order`).

*Packets and messages.*  `CodecProofs` begins with sequences of whatever elements (`IsSeq`): cells
are tuples of numbers, names and texts, of which no set is wanted.  A packet is a concatenation of
stretches of known length; `Joined` and `Stretch` say where in it each one is, and `PacketSize`
that the padding is at most seven cells.  A list of stretches is joined by `FlattenSeq`, which the
library defines by a recursive function of sets of sequences; `FlattenFirst`, `FlattenAppend` and
`FlattenCat` say what it does.  Where these proofs need induction over numbers they use
`SetInduction`: a set of naturals with 0 and the successor of each of its members is all of them.
It follows from the library's induction without an operator as its parameter, so that it can be
cited; so "for all n" is said by a set {n : ...}.

The methods of a class work on a level (`WriteAt`, `ReadAt`, ...): what is proved of level l takes
what is proved of l - 1 for the messages in its fields, and there are three.  `Rows` and the
`...Tables` lemmas go through the table of each class once: numbers and names of fields are
distinct and their types known.  `WritesStep` proves the sizes.  For reading, `Leads` says that the
turns of the loop over the cells t take the message a to b, wherever in the stream t is:
`FieldIsRead` for one field, `OneIsRead` and `ListIsRead` for those of one number, and
`NumberStep` up to each number: the message read so far has the merged value in the fields up to
it and the old one in the others (`Halfway`).  Behind the last one it is `MergeFrom` of the two
(`ReadsStep`), with an empty message to start with the message itself (`MergeNew`).
`MessagesMerge` reads bytes of another class first, of which nothing is known but that they are
read: `Goes` says of a turn over any cells that it does the same when more cells come
behind them (`Begins`), unless it fails.

*The relay.*  The invariant names, by an existential quantifier, the packets Q that are on the way in
each direction: `Carries` says that some of them are in the inbox, and the cells of the others
are those of the buffer and the wire, however they are cut.  `Arrived`, `Received`, `Taken` and `Sent`
are what the four things that happen to a stream do to it; from `StreamIsCut` follows that what is
taken from the buffer is the next of the packets, and that a buffer in which there is not enough data
holds none when nothing more comes (`Still`).  `Row` says of three directions that the packets
on the way are the items of a history which the receiver has not had yet, each as it is packed there
(`IsRequest`, `IsPassed`, `IsAnswered`), behind a login of the server or its answer at the most.
On the way to the client answers and returned requests are mixed: `Telling` has a count of each of
the two behind every packet.  `Sessions` adds what decides whether a packet is passed on: before the
server has registered there is nothing to answer, and once a request was passed on the session is
the user's, so that no answer is dropped.  `IInv` is their conjunction, and there is a lemma for
each action.  Whether an answer is a message of the class it is announced as is
`AnswersAreGood`; the one that is not (`MoveRefused`) has `Meaning` say how it is read.

Only model-checked:

* liveness, which needs ENABLED: `ImplementsFifo`'s fairness part, `LogoutReported`,
  `LostIsUnregistered`, `RecordWritten`, `LinkLogsIn`, `RowPersisted`;
* `AnsweredInOrder` and `RefusedOnce`: they are about two requests cut at every two places, and the
  parser of `Http` goes through the pieces with a RECURSIVE operator, of which the provers know nothing;
* what the four violation runs refute.

## What is not modelled, and why

PROJECT.json lists every part with what is left out of it.

* `gate_main.cpp`, library start-up, the factory in `tcp_module.cpp`: sequential, before the
  threads start.
* `ThreadGroup`/`ModuleThreadGroup`, `ClientManager`, `TcpManager`, the asynchronous redis
  client, HMGET and deletion: called by nobody in the servers as committed.
* `game_debug.cpp` keeps view lists and move counts in JSON files for the developers; that it
  uses the string stream the message thread uses too is part of `GameData`.  The test programs
  print what they do.  MD5 is a published digest nobody's state depends on.
* The logger's files and their switch: which file a record goes to depends on the date and
  the disk only.  Writes that fail: what follows is undefined behaviour.
* Of MySQL, the reconnecting of the adaptor, and statements that fail for another reason than a
  quote: the caller looks at no result.  A row that was not written is tried again five minutes
  later; a SELECT that fails at the start is taken for an empty table (`db_gateway.cpp:268`).
* A role with a quote in its name never gets a row: MySQL refuses its statement in every round.
  `RowPersisted` leaves it out, as it does whatever stands in redis when the gateway has lost it.
* What percent signs in a name do to the process: redisCommand reads arguments nobody gave.
* Moves to positions outside `Reach`: accesses outside the towers or the cells, and a loop that
  does not end.
* A logic server's connection that is lost between the entry of its login and its name: what is
  then read through the session is in `GateServers`, but `LostIsUnregistered` speaks only of
  connections that had their name (`gate_manager.cpp:280`, `:289`, `:291`).
* Of the generated classes: descriptors, copying of objects, memory, and the encoding of a
  number as bytes.
* Torn containers: a `std::map` or a string stream that two threads damage has no states
  worth listing; the models keep each operation on one a single step, and the numbers that
  can come out of the stream.

Hazards met while reading that no property speaks of, beside those PROJECT.json lists:
`Start` sets the client's status after connect(), over the CONNECTED the callback may have set
by then (`tcp_client.cpp:70`; it happens in `GateLink`, and nobody reads the status); two
`std::map` operations at once (`tcp_server.cpp:143`); the key of a server read through a
stale session (`gate_manager.cpp:280`, happens in `GateServers`, refutes nothing stated);
16 bytes copied of a 10-byte object (`gate_manager.cpp:126`); send buffers of 65535 bytes that
are not checked (`base_define.h:138`); `TowerId` multiplying by rows where columns are meant
(`tower_aoi.cpp:16`, the one map is square); a mutex local to each call of `get_next_obj_id`
(`define_logic_data.h:195`, one thread calls it); a failing `write` (`file_writer.cpp:172`);
`AddLogModel` after the start (`logger.cpp:188`); `realtimewrite` not passed on (`logger.cpp:105`);
a created role that is not saved because its id is cached, and is reported as created
(`data_cache.cpp:233`); a role list that stops at four and repeats the role before one without
a record (`login_module.cpp:65`, `:74`); the order of fields of HGETALL (`data_cache.cpp:303`).

## Plan

1. *(done)* the hand-off; the gateway's two sides; the world; the logger.
2. *(done)* the link composed with the gateway; persistence with both copies and all crashes;
   packets, message classes and the relay of messages; the HTTP port.
3. *(done)* proofs of every invariant and every action property of every component but the HTTP
   port, for all values of the constants.
4. Left: `Http` with a recursive function in place of its RECURSIVE operator, and a theorem about
   any number of requests on a connection, along the lines of `Goes`: a piece more
   does not change what was parsed.
