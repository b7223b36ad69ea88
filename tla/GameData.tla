------------------------------ MODULE GameData ------------------------------
(***************************************************************************)
(* How the logic server hands out object ids and keeps its roles in redis  *)
(* (data_cache.cpp, define_logic_data.h, login_module.cpp).  The main      *)
(* logic thread creates, loads and saves roles; MsgThread loads g_count    *)
(* when it starts, before it lets any message in, and saves it now and     *)
(* then.  Nothing is saved when the process ends.                          *)
(*                                                                         *)
(* Both threads put numbers through g_stream without a lock: when they     *)
(* meet, what either reads back may be the other's number, both in a row,  *)
(* or nothing.  No field of a role ever changes; how redis keeps each of   *)
(* them as text, and what it makes of some names, is RoleRecord's matter.  *)
(***************************************************************************)
EXTENDS RedisStore

CONSTANTS MaxCount      \* MAX_COUNT

\* The ids of a behaviour stay below MAX_COUNT, which is 2^56 - 1.
ASSUME CountAssumption == MaxCount \in Nat /\ MaxId <= MaxCount

VARIABLES gCount,       \* g_count
          cache,        \* m_player_data_cache: each cached role
          gpc,          \* where the main logic thread is; "down" before the start
          gid, grole,   \* new_data of NewAndSavePlayerData
          gconn,        \* the connection to redis works
          mixed,        \* g_stream was used by both threads during the creation
          torn          \* ids of roles whose creation was not finished

gameVars == <<gCount, cache, gpc, gid, grole, gconn, mixed, torn>>

NoCache == [id \in Id |-> None]

GameInit ==
    /\ gCount = 0 /\ cache = NoCache
    /\ gpc = "down" /\ gid = 0 /\ grole = None
    /\ gconn = FALSE /\ mixed = FALSE /\ torn = {}

-----------------------------------------------------------------------------

\* Variant with a fault: the saved count is not taken over.
LoadTempDataNot == gCount' = 0

\* Variant with a fault: a record that is not there is not looked for.
LoadTempDataAsIs == gCount' = hash[CountKey]

\* What the saved text is read as: garbage may begin with digits, or be no number.
LoadTempData ==
    CASE hash[CountKey] = None -> gCount' = 0
      [] hash[CountKey] = Garbage -> gCount' \in Count
      [] OTHER -> gCount' = hash[CountKey]

\* main connects, MsgThread loads, and only then connects to the gateway.
Boot ==
    /\ gpc = "down"
    /\ gconn' = TRUE
    /\ LoadTempData
    /\ gpc' = "idle"
    /\ UNCHANGED <<redisVars, cache, gid, grole, mixed, torn>>

\* get_next_obj_id(ObjectType_Player); type 0 leaves the count as it is.
NextObjId == IF gCount < MaxCount THEN gCount + 1 ELSE 0

\* NewAndSavePlayerData up to its second command: AddPlayerData, which refuses an id the
\* cache has (then nothing is saved, and the user is told of success all the same), and
\* the HMSET of the role.  Nobody looks at the count or the cache between the two.
CreatePlayer(role) ==
    /\ gpc = "idle" /\ gconn
    /\ gCount < MaxId
    /\ gCount' = NextObjId
    /\ IF cache[gCount'] = None
       THEN /\ cache' = [cache EXCEPT ![gCount'] = role]
            /\ gid' = gCount' /\ grole' = role
            /\ RedisSetHash(gCount', role)
            /\ gpc' = "list"
       ELSE UNCHANGED <<hash, cache, gid, grole, gpc>>
    /\ UNCHANGED <<sets, gconn, mixed, torn>>

\* Variant with a fault: the role is listed under the name of the column.
ListNewPlayerByColumn ==
    /\ gpc = "list" /\ gconn
    /\ RedisAddSet("user_id", UserOf[grole], gid)
    /\ gpc' = "idle" /\ gid' = 0 /\ grole' = None /\ mixed' = FALSE
    /\ UNCHANGED <<hash, gCount, cache, gconn, torn>>

\* The id goes through g_stream, then into the user's set.  Another number or none may
\* come out, which lists some other id or none.
ListNewPlayer ==
    /\ gpc = "list" /\ gconn
    /\ \/ RedisAddSet("m_user_id", UserOf[grole], gid) /\ UNCHANGED torn
       \/ /\ mixed
          /\ torn' = torn \cup {gid}
          /\ \/ UNCHANGED sets
             \/ \E id \in Id : RedisAddSet("m_user_id", UserOf[grole], id)
    /\ gpc' = "idle" /\ gid' = 0 /\ grole' = None /\ mixed' = FALSE
    /\ UNCHANGED <<hash, gCount, cache, gconn>>

\* RedisAddSet survives a NULL reply, when freeReplyObject does.
ListNewPlayerFails ==
    /\ gpc = "list" /\ ~gconn
    /\ torn' = torn \cup {gid}
    /\ gpc' = "idle" /\ gid' = 0 /\ grole' = None /\ mixed' = FALSE
    /\ UNCHANGED <<redisVars, gCount, cache, gconn>>

\* EnterGame of a role that is not cached: LoadPlayerDataFromDb.
LoadPlayer(id) ==
    /\ gpc = "idle" /\ gconn
    /\ cache[id] = None /\ RedisGetHashAll(id) # None
    /\ cache' = [cache EXCEPT ![id] = RedisGetHashAll(id)]
    /\ UNCHANGED <<redisVars, gCount, gpc, gid, grole, gconn, mixed, torn>>

\* LoginOut: DelPlayerData saves the role and forgets it.  Which role is a user's is
\* World's matter.
DelPlayerData(id) ==
    /\ gpc = "idle" /\ gconn
    /\ cache[id] # None
    /\ RedisSetHash(id, cache[id])
    /\ cache' = [cache EXCEPT ![id] = None]
    /\ UNCHANGED <<sets, gCount, gpc, gid, grole, gconn, mixed, torn>>

\* MsgThread, five seconds after the start and every ten minutes.  The main logic thread
\* may be using g_stream for a new role's id, or for the records of moves it keeps for
\* debugging (game_debug.cpp), which go nowhere else.
SaveTempData ==
    /\ gpc # "down" /\ gconn
    /\ \/ RedisSetHash(CountKey, gCount) /\ UNCHANGED mixed
       \/ RedisSetHash(CountKey, Garbage) /\ mixed' = (gpc = "list")
       \/ gpc = "list" /\ RedisSetHash(CountKey, gCount) /\ mixed' = TRUE
    /\ UNCHANGED <<sets, gCount, cache, gpc, gid, grole, gconn, torn>>

\* The process ends.  Without a connection any other command makes it: the reply is NULL
\* and is read all the same.
GameEnds ==
    /\ gpc # "down"
    /\ torn' = IF gpc = "list" THEN torn \cup {gid} ELSE torn
    /\ gCount' = 0 /\ cache' = NoCache
    /\ gpc' = "down" /\ gid' = 0 /\ grole' = None
    /\ gconn' = FALSE /\ mixed' = FALSE
    /\ UNCHANGED redisVars

GameStep ==
    \/ Boot \/ ListNewPlayer \/ ListNewPlayerFails \/ SaveTempData
    \/ \E role \in Role : CreatePlayer(role)
    \/ \E id \in Id : LoadPlayer(id) \/ DelPlayerData(id)

GameTypeOK ==
    /\ gCount \in Count
    /\ cache \in [Id -> Role \cup {None}]
    /\ gpc \in {"down", "idle", "list"}
    /\ gid \in Id \cup {0} /\ grole \in Role \cup {None}
    /\ gconn \in BOOLEAN /\ mixed \in BOOLEAN /\ torn \subseteq Id
=============================================================================
