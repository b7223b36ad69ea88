----------------------------- MODULE RedisStore -----------------------------
(***************************************************************************)
(* The redis database the logic server and the database gateway share, as  *)
(* redis_client.cpp and db_cache.cpp use it.  A hash holds one record: the *)
(* role "player_data:<id>" or the record "r_temporary_record:g_count", a   *)
(* number.  A set "player_data:<field>:    *)
(* <user>" holds role ids.  A RedisSyncClient connects once; after its     *)
(* connection is lost it has none for good, and every reply it gets is     *)
(* NULL.                                                                   *)
(***************************************************************************)
EXTENDS Naturals

CONSTANTS User,         \* user ids
          Role,         \* the records roles are saved as, but for the id
          UserOf,       \* the user each is of: m_user_id
          MaxId,        \* bound on the object ids handed out
          CountKey,     \* the key of the record of g_count
          None,         \* no record
          Garbage       \* a value that is not the number that was meant

ASSUME StoreAssumption ==
    /\ MaxId \in Nat \ {0}
    /\ UserOf \in [Role -> User]
    /\ CountKey \notin Nat /\ None \notin Nat \cup Role /\ Garbage \notin Nat \cup {None}

Id == 1 .. MaxId
Key == Id \cup {CountKey}
Count == 0 .. MaxId

VARIABLES hash,         \* the record under each key
          sets          \* the role ids under each field name and user

redisVars == <<hash, sets>>

\* The game's name of the field, and the name its column has in MySQL.
Field == {"m_user_id", "user_id"}

EmptyHash == [k \in Key |-> None]
EmptySets == [f \in Field |-> [u \in User |-> {}]]

RedisInit == hash = EmptyHash /\ sets = EmptySets

\* HMSET.  All writers write every field of a record.
RedisSetHash(k, v) == hash' = [hash EXCEPT ![k] = v]

\* HGETALL of a key that does not exist is an empty list.
RedisGetHashAll(k) == hash[k]

\* KEYS <prefix>:*, without those that hold a further separator: the keys of hashes.
RedisGetAllKeys(table) == {k \in table : hash[k] # None}

\* SADD.
RedisAddSet(f, u, id) == sets' = [sets EXCEPT ![f][u] = @ \cup {id}]

\* Redis is restarted, from what it saved or empty.
RedisRestart ==
    \/ UNCHANGED redisVars
    \/ hash' = EmptyHash /\ sets' = EmptySets

RedisTypeOK ==
    /\ hash \in [Key -> Role \cup Count \cup {None, Garbage}]
    /\ sets \in [Field -> [User -> SUBSET Id]]
=============================================================================
