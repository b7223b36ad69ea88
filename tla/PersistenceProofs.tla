-------------------------- MODULE PersistenceProofs -------------------------
(***************************************************************************)
(* What crashes of the logic server, of the database gateway and of redis  *)
(* leave of the count and of the roles, for every number of users, ids and *)
(* faults.                                                                 *)
(***************************************************************************)
EXTENDS Persistence, TLAPS

\* A role's record is a role, the count's a number, wherever a copy of it is.
Value(k) == IF k = CountKey THEN Count \cup {None, Garbage} ELSE Role \cup {None}

Kinds ==
    /\ \A k \in Key : hash[k] \in Value(k) /\ rows[k] \in Value(k) /\ result[k] \in Value(k)
    /\ record.value \in Value(record.key)

\* A role that is being created has an id.
Creating == gpc = "list" => gid \in Id /\ grole \in Role

\* What the gateway still has to restore are rows of MySQL as they are; what it has to
\* write it has read.
Copying ==
    /\ \A k \in Key : result[k] # None => dpc = "restore" /\ result[k] = rows[k]
    /\ dpc # "write" => record.value = None

\* The copies of a count that was never saved as garbage are none either.
Ungarbled ==
    ~garbled =>
        /\ hash[CountKey] # Garbage /\ rows[CountKey] # Garbage
        /\ record.key = CountKey => record.value # Garbage

\* Redis has a record of all of which there is a copy: always before it lost its data,
\* and of what the gateway is about to write as long as that keeps its connection.
Held ==
    /\ ~lost => /\ \A k \in Key : rows[k] # None => hash[k] # None
                /\ \A id \in Id : cache[id] # None => hash[id] # None
    /\ (~lost \/ dconn) /\ record.value # None => hash[record.key] # None

\* The order of the counts, with the one that is on its way to MySQL.
Ordered == ~lost /\ ~garbled => CopiesOrdered

Counts ==
    /\ Ordered
    /\ ~lost /\ ~garbled /\ record.key = CountKey =>
           Number(record.value) <= Number(hash[CountKey])

\* There is a copy of the role under the id somewhere.
Copy(id, role) ==
    \/ role = hash[id] \/ role = rows[id] \/ role = cache[id]
    \/ record.key = id /\ role = record.value

\* The role's user has it in the list, or will have, or its creation was cut short.
Listed(id, role) ==
    \/ id \in torn
    \/ gpc = "list" /\ id = gid /\ role = grole
    \/ id \in sets["m_user_id"][UserOf[role]]

OwnersListed == ~lost => \A id \in Id, role \in Role : Copy(id, role) => Listed(id, role)

\* The start copy has still to come to record k.
Due(k) ==
    \/ dpc = "select" /\ (table = 1 \/ k = CountKey)
    \/ dpc = "restore" /\ (result[k] # None \/ (table = 1 /\ k = CountKey))

\* A row is in redis unless the start copy has still to come to it.
RefilledSoFar ==
    dconn => /\ dpc # "down"
             /\ \A k \in Key : rows[k] # None => hash[k] # None \/ Due(k)

PersistInv ==
    /\ TypeOK /\ Kinds /\ Creating /\ Copying /\ Ungarbled
    /\ Held /\ Counts /\ OwnersListed /\ RefilledSoFar

-----------------------------------------------------------------------------
(* What the commands do.                                                   *)

LEMMA KeyFacts == /\ Id \subseteq Key /\ CountKey \in Key /\ CountKey \notin Id
                  /\ None \notin Role /\ None \notin Count /\ None # Garbage
                  /\ Garbage \notin Count /\ Id \subseteq Count /\ 0 \in Count
                  /\ Count \subseteq Nat
BY StoreAssumption DEF Key, Id, Count

LEMMA UserOfRole == \A role \in Role : UserOf[role] \in User
BY StoreAssumption

LEMMA TableFacts == /\ Len(Tables) = 2 /\ Tables[1] = Id /\ Tables[2] = {CountKey}
BY DEF Tables

LEMMA SetHash ==
  ASSUME RedisTypeOK, NEW k \in Key, NEW v \in Role \cup Count \cup {None, Garbage},
         RedisSetHash(k, v)
  PROVE  /\ hash' \in [Key -> Role \cup Count \cup {None, Garbage}]
         /\ hash'[k] = v /\ \A j \in Key : j # k => hash'[j] = hash[j]
BY DEF RedisTypeOK, RedisSetHash

LEMMA AddSet ==
  ASSUME RedisTypeOK, NEW f \in Field, NEW u \in User, NEW id \in Id, RedisAddSet(f, u, id)
  PROVE  /\ sets' \in [Field -> [User -> SUBSET Id]]
         /\ id \in sets'[f][u]
         /\ \A g \in Field, w \in User : sets[g][w] \subseteq sets'[g][w]
BY DEF RedisTypeOK, RedisAddSet

-----------------------------------------------------------------------------
(* The logic server.                                                       *)

\* It puts records of the right kind into redis, and takes none out.
HashGrows == \A k \in Key : hash'[k] \in Value(k) /\ (hash'[k] = hash[k] \/ hash'[k] # None)

\* Sets of redis only grow.
SetsGrow == \A f \in Field, w \in User : sets[f][w] \subseteq sets'[f][w]

GameEffect ==
    /\ RedisTypeOK' /\ GameTypeOK' /\ Creating'
    /\ HashGrows /\ SetsGrow
    /\ ~lost => \A id \in Id : cache'[id] # None => hash'[id] # None

LEMMA BootEffect ==
  ASSUME PersistInv, Boot
  PROVE  GameEffect
<1>1. gCount' \in Count
  BY KeyFacts DEF PersistInv, Kinds, Value, Boot, LoadTempData
<1> QED
  BY <1>1, KeyFacts DEF PersistInv, TypeOK, Kinds, Held, Creating, Boot, redisVars, GameEffect, RedisTypeOK,
     GameTypeOK, HashGrows, SetsGrow

LEMMA CreateEffect ==
  ASSUME PersistInv, NEW u \in Role, CreatePlayer(u)
  PROVE  GameEffect /\ gCount' = gCount + 1 /\ gCount' \in Id
<1>1. gCount' = gCount + 1 /\ gCount' \in Id
  BY CountAssumption, StoreAssumption
     DEF PersistInv, TypeOK, GameTypeOK, Count, Id, CreatePlayer, NextObjId
<1>2. UNCHANGED <<sets, gconn, mixed, torn>>
  BY DEF CreatePlayer
<1>3. CASE cache[gCount'] = None
  <2>1. /\ cache' = [cache EXCEPT ![gCount'] = u] /\ gid' = gCount' /\ grole' = u
        /\ RedisSetHash(gCount', u) /\ gpc' = "list"
    BY <1>3 DEF CreatePlayer
  <2>2. PICK n \in Id : n = gCount'
    BY <1>1
  <2>3. RedisTypeOK' /\ hash'[n] = u /\ \A j \in Key : j # n => hash'[j] = hash[j]
    BY <1>2, <2>1, <2>2, SetHash, KeyFacts DEF PersistInv, TypeOK, RedisTypeOK
  <2>4. GameTypeOK' /\ Creating'
    BY <1>2, <2>1, <2>2, KeyFacts DEF PersistInv, TypeOK, GameTypeOK, Creating
  <2>5. HashGrows /\ SetsGrow
    BY <1>2, <2>2, <2>3, KeyFacts DEF HashGrows, SetsGrow, PersistInv, Kinds, Value
  <2>6. ASSUME ~lost, NEW id \in Id, cache'[id] # None PROVE hash'[id] # None
    BY <2>1, <2>2, <2>3, <2>6, KeyFacts DEF PersistInv, TypeOK, GameTypeOK, Held
  <2> QED
    BY <1>1, <2>3, <2>4, <2>5, <2>6 DEF GameEffect
<1>4. CASE cache[gCount'] # None
  BY <1>1, <1>2, <1>4, KeyFacts DEF CreatePlayer, PersistInv, TypeOK, Kinds, Held, Creating, GameEffect,
     RedisTypeOK, GameTypeOK, HashGrows, SetsGrow
<1> QED
  BY <1>3, <1>4

LEMMA ListEffect ==
  ASSUME PersistInv, ListNewPlayer \/ ListNewPlayerFails
  PROVE  /\ GameEffect
         /\ UNCHANGED <<hash, gCount, cache>> /\ gpc = "list" /\ gpc' = "idle"
         /\ torn \subseteq torn'
         /\ gid \in torn' \/ gid \in sets'["m_user_id"][UserOf[grole]]
<1>1. /\ UNCHANGED <<hash, gCount, cache, gconn>> /\ gpc = "list"
      /\ gpc' = "idle" /\ gid' = 0 /\ grole' = None /\ mixed' = FALSE
  BY DEF ListNewPlayer, ListNewPlayerFails, redisVars
<1>2. gid \in Id /\ UserOf[grole] \in User /\ "m_user_id" \in Field
  BY <1>1, UserOfRole DEF PersistInv, Creating, Field
<1>3. RedisTypeOK
  BY DEF PersistInv, TypeOK
<1>4. /\ sets' \in [Field -> [User -> SUBSET Id]] /\ SetsGrow
      /\ torn \subseteq torn' /\ torn' \subseteq Id
      /\ gid \in torn' \/ gid \in sets'["m_user_id"][UserOf[grole]]
  <2>1. CASE UNCHANGED sets /\ torn' = torn \cup {gid}
    BY <1>2, <1>3, <2>1 DEF RedisTypeOK, SetsGrow, PersistInv, TypeOK, GameTypeOK
  <2>2. CASE RedisAddSet("m_user_id", UserOf[grole], gid) /\ UNCHANGED torn
    BY <1>2, <1>3, <2>2, AddSet DEF SetsGrow, PersistInv, TypeOK, GameTypeOK
  <2>3. CASE torn' = torn \cup {gid} /\ \E id \in Id : RedisAddSet("m_user_id", UserOf[grole], id)
    BY <1>2, <1>3, <2>3, AddSet DEF SetsGrow, PersistInv, TypeOK, GameTypeOK
  <2> QED
    BY <2>1, <2>2, <2>3 DEF ListNewPlayer, ListNewPlayerFails, redisVars
<1>5. RedisTypeOK' /\ GameTypeOK' /\ Creating'
  BY <1>1, <1>3, <1>4 DEF RedisTypeOK, GameTypeOK, Creating, PersistInv, TypeOK
<1>6. HashGrows /\ (~lost => \A id \in Id : cache'[id] # None => hash'[id] # None)
  BY <1>1 DEF HashGrows, PersistInv, Kinds, Held
<1> QED
  BY <1>1, <1>4, <1>5, <1>6 DEF GameEffect

LEMMA LoadEffect ==
  ASSUME PersistInv, NEW id \in Id, LoadPlayer(id)
  PROVE  GameEffect
<1>1. /\ hash[id] # None /\ cache' = [cache EXCEPT ![id] = hash[id]]
      /\ UNCHANGED <<hash, sets, gCount, gpc, gid, grole, gconn, mixed, torn>>
  BY DEF LoadPlayer, RedisGetHashAll, redisVars
<1>2. hash[id] \in Role
  BY <1>1, KeyFacts DEF PersistInv, Kinds, Value
<1> QED
  BY <1>1, <1>2 DEF PersistInv, TypeOK, Kinds, Held, Creating, GameEffect, RedisTypeOK, GameTypeOK,
     HashGrows, SetsGrow

LEMMA DelEffect ==
  ASSUME PersistInv, NEW id \in Id, DelPlayerData(id)
  PROVE  /\ GameEffect
         /\ hash'[id] = cache[id] /\ \A j \in Key : j # id => hash'[j] = hash[j]
         /\ cache' = [cache EXCEPT ![id] = None]
         /\ UNCHANGED <<sets, gCount, gpc, gid, grole, torn>>
<1>1. /\ cache[id] # None /\ RedisSetHash(id, cache[id])
      /\ cache' = [cache EXCEPT ![id] = None]
      /\ UNCHANGED <<sets, gCount, gpc, gid, grole, gconn, mixed, torn>>
  BY DEF DelPlayerData
<1>2. PICK u \in Role : u = cache[id]
  BY <1>1 DEF PersistInv, TypeOK, GameTypeOK
<1>3. RedisTypeOK' /\ hash'[id] = u /\ \A j \in Key : j # id => hash'[j] = hash[j]
  BY <1>1, <1>2, SetHash, KeyFacts DEF PersistInv, TypeOK, RedisTypeOK
<1>4. GameTypeOK' /\ Creating'
  BY <1>1 DEF PersistInv, TypeOK, GameTypeOK, Creating
<1>5. HashGrows /\ SetsGrow
  BY <1>1, <1>2, <1>3, KeyFacts DEF HashGrows, SetsGrow, PersistInv, Kinds, Value
<1>6. ASSUME ~lost, NEW j \in Id, cache'[j] # None PROVE hash'[j] # None
  BY <1>1, <1>2, <1>3, <1>6, KeyFacts DEF PersistInv, TypeOK, GameTypeOK, Held
<1> QED
  BY <1>1, <1>2, <1>3, <1>4, <1>5, <1>6 DEF GameEffect

LEMMA SaveEffect ==
  ASSUME PersistInv, SaveTempData
  PROVE  /\ GameEffect
         /\ hash'[CountKey] \in {gCount, Garbage}
         /\ \A j \in Key : j # CountKey => hash'[j] = hash[j]
         /\ gpc # "down" /\ UNCHANGED <<sets, gCount, cache, gpc, gid, grole, torn>>
<1>1. /\ gpc # "down" /\ UNCHANGED <<sets, gCount, cache, gpc, gid, grole, gconn, torn>>
      /\ mixed' \in BOOLEAN
      /\ RedisSetHash(CountKey, gCount) \/ RedisSetHash(CountKey, Garbage)
  BY DEF SaveTempData, PersistInv, TypeOK, GameTypeOK
<1>2. gCount \in Count
  BY DEF PersistInv, TypeOK, GameTypeOK
<1>3. /\ RedisTypeOK' /\ hash'[CountKey] \in {gCount, Garbage}
      /\ \A j \in Key : j # CountKey => hash'[j] = hash[j]
  BY <1>1, <1>2, SetHash, KeyFacts DEF PersistInv, TypeOK, RedisTypeOK
<1>4. GameTypeOK' /\ Creating'
  BY <1>1 DEF PersistInv, TypeOK, GameTypeOK, Creating
<1>5. HashGrows /\ SetsGrow
  BY <1>1, <1>2, <1>3, KeyFacts DEF HashGrows, SetsGrow, PersistInv, Kinds, Value
<1>6. ~lost => \A j \in Id : cache'[j] # None => hash'[j] # None
  BY <1>1, <1>3, KeyFacts DEF PersistInv, Held
<1> QED
  BY <1>1, <1>3, <1>4, <1>5, <1>6 DEF GameEffect

\* The counts, after each kind of step of the logic server.
LEMMA GameCounts ==
  ASSUME PersistInv, Game
  PROVE  Ungarbled' /\ Counts'
<1>1. /\ garbled' = (garbled \/ hash'[CountKey] = Garbage)
      /\ UNCHANGED <<rows, record, lost>> /\ GameStep
  BY DEF Game, gatewayVars
<1>2. Ungarbled'
  BY <1>1 DEF PersistInv, Ungarbled
<1>3. /\ gCount \in Nat /\ rows[CountKey] \in Count \cup {None, Garbage}
      /\ hash[CountKey] \in Count \cup {None, Garbage}
      /\ record.key = CountKey => record.value \in Count \cup {None, Garbage}
  BY KeyFacts DEF PersistInv, TypeOK, GameTypeOK, Kinds, Value
<1>4. SUFFICES ASSUME ~lost', ~garbled' PROVE Counts'
  BY <1>2 DEF Counts, Ordered, CopiesOrdered
<1>5. /\ ~lost /\ ~garbled /\ hash[CountKey] # Garbage /\ hash'[CountKey] # Garbage
      /\ rows[CountKey] # Garbage /\ (record.key = CountKey => record.value # Garbage)
  BY <1>1, <1>4 DEF PersistInv, Ungarbled
<1>6. /\ Number(rows[CountKey]) \in Nat /\ Number(hash[CountKey]) \in Nat
      /\ record.key = CountKey => Number(record.value) \in Nat
  BY <1>3, <1>5, KeyFacts DEF Number
<1>7. /\ Number(rows[CountKey]) <= Number(hash[CountKey])
      /\ gpc # "down" => Number(hash[CountKey]) <= gCount
      /\ record.key = CountKey => Number(record.value) <= Number(hash[CountKey])
  BY <1>5 DEF PersistInv, Counts, Ordered, CopiesOrdered
<1>8. \/ Number(hash'[CountKey]) = Number(hash[CountKey])
      \/ gpc # "down" /\ Number(hash'[CountKey]) = gCount
  <2>1. CASE hash'[CountKey] = hash[CountKey]
    BY <2>1 DEF Number
  <2>2. CASE SaveTempData
    <3>1. gpc # "down" /\ hash'[CountKey] = gCount
      BY <1>5, <2>2, SaveEffect
    <3>2. gCount # None
      BY <1>3, StoreAssumption
    <3>3. Number(gCount) = gCount
      BY <3>2 DEF Number
    <3> QED
      BY <3>1, <3>3
  <2>3. Boot \/ ListNewPlayer \/ ListNewPlayerFails \/ (\E id \in Id : LoadPlayer(id))
            => hash'[CountKey] = hash[CountKey]
    BY DEF Boot, ListNewPlayer, ListNewPlayerFails, LoadPlayer, redisVars
  <2>4. ASSUME NEW u \in Role, CreatePlayer(u)
        PROVE  hash'[CountKey] = hash[CountKey]
    BY <2>4, CreateEffect, KeyFacts DEF CreatePlayer, RedisSetHash, PersistInv, TypeOK, RedisTypeOK
  <2>5. ASSUME NEW id \in Id, DelPlayerData(id)
        PROVE  hash'[CountKey] = hash[CountKey]
    BY <2>5, DelEffect, KeyFacts
  <2>6. SaveTempData \/ hash'[CountKey] = hash[CountKey]
    BY <1>1, <2>3, <2>4, <2>5 DEF GameStep
  <2> QED
    BY <2>1, <2>2, <2>6
<1>9. gpc' # "down" => Number(hash'[CountKey]) <= gCount'
  <2>1. CASE Boot
    <3>1. gCount' = Number(hash[CountKey]) /\ hash' = hash
      BY <1>5, <2>1 DEF Boot, LoadTempData, Number, redisVars
    <3> QED
      BY <1>6, <3>1
  <2>2. CASE gpc # "down" /\ (gCount' = gCount \/ gCount' = gCount + 1)
    BY <1>3, <1>6, <1>7, <1>8, <2>2
  <2>3. CASE SaveTempData \/ ListNewPlayer \/ ListNewPlayerFails
    BY <2>2, <2>3 DEF SaveTempData, ListNewPlayer, ListNewPlayerFails
  <2>4. CASE \E u \in Role : CreatePlayer(u)
    BY <2>2, <2>4, CreateEffect DEF CreatePlayer
  <2>5. CASE \E id \in Id : LoadPlayer(id) \/ DelPlayerData(id)
    BY <2>2, <2>5 DEF LoadPlayer, DelPlayerData
  <2> QED
    BY <1>1, <2>1, <2>3, <2>4, <2>5 DEF GameStep
<1>10. Ordered'
  <2>1. Number(rows'[CountKey]) <= Number(hash'[CountKey])
    BY <1>1, <1>3, <1>6, <1>7, <1>8
  <2> QED
    BY <1>9, <2>1 DEF Ordered, CopiesOrdered, Number
<1>11. record'.key = CountKey => Number(record'.value) <= Number(hash'[CountKey])
  BY <1>1, <1>3, <1>6, <1>7, <1>8
<1> QED
  BY <1>10, <1>11 DEF Counts, Number

\* The owners, after each kind of step of the logic server.
LEMMA GameOwners ==
  ASSUME PersistInv, Game
  PROVE  OwnersListed'
<1>1. UNCHANGED <<rows, record, lost>> /\ GameStep
  BY DEF Game, gatewayVars
<1> SUFFICES ASSUME NEW id \in Id, NEW u \in Role, ~lost, Copy(id, u)' PROVE Listed(id, u)'
  BY <1>1 DEF OwnersListed
<1>2. Copy(id, u) => Listed(id, u)
  BY DEF PersistInv, OwnersListed
<1>3. "m_user_id" \in Field /\ u # None /\ id \in Key
  BY KeyFacts DEF Field
<1>4. CASE Boot
  BY <1>1, <1>2, <1>4 DEF Boot, redisVars, Copy, Listed
<1>5. ASSUME NEW w \in Role, CreatePlayer(w)
      PROVE  Listed(id, u)'
  <2>1. UNCHANGED <<sets, torn>> /\ gpc = "idle" /\ gCount' \in Id
    BY <1>5, CreateEffect DEF CreatePlayer
  <2>2. CASE cache[gCount'] = None
    <3>1. /\ cache' = [cache EXCEPT ![gCount'] = w] /\ gid' = gCount' /\ grole' = w
          /\ hash' = [hash EXCEPT ![gCount'] = w] /\ gpc' = "list"
      BY <1>5, <2>2 DEF CreatePlayer, RedisSetHash
    <3>2. Copy(id, u) \/ (id = gCount' /\ u = w)
      BY <1>1, <2>1, <3>1, KeyFacts DEF Copy, PersistInv, TypeOK, RedisTypeOK, GameTypeOK
    <3> QED
      BY <1>2, <2>1, <3>1, <3>2 DEF Listed
  <2>3. CASE cache[gCount'] # None
    BY <1>1, <1>2, <1>5, <2>1, <2>3 DEF CreatePlayer, Copy, Listed
  <2> QED
    BY <2>2, <2>3
<1>6. CASE ListNewPlayer \/ ListNewPlayerFails
  <2>1. /\ UNCHANGED <<hash, cache>> /\ gpc = "list" /\ torn \subseteq torn' /\ SetsGrow
        /\ gid \in torn' \/ gid \in sets'["m_user_id"][UserOf[grole]]
    BY <1>6, ListEffect DEF GameEffect
  <2>2. Listed(id, u)
    BY <1>1, <1>2, <2>1 DEF Copy
  <2> QED
    BY <1>3, <2>1, <2>2, UserOfRole DEF Listed, SetsGrow
<1>7. ASSUME NEW j \in Id, LoadPlayer(j)
      PROVE  Listed(id, u)'
  <2>1. /\ cache' = [cache EXCEPT ![j] = hash[j]]
        /\ UNCHANGED <<hash, sets, gpc, gid, grole, torn>>
    BY <1>7 DEF LoadPlayer, RedisGetHashAll, redisVars
  <2>2. Copy(id, u)
    BY <1>1, <2>1 DEF Copy, PersistInv, TypeOK, GameTypeOK
  <2> QED
    BY <1>2, <2>1, <2>2 DEF Listed
<1>8. ASSUME NEW j \in Id, DelPlayerData(j)
      PROVE  Listed(id, u)'
  <2>1. /\ hash'[j] = cache[j] /\ \A k \in Key : k # j => hash'[k] = hash[k]
        /\ cache' = [cache EXCEPT ![j] = None]
        /\ UNCHANGED <<sets, gpc, gid, grole, torn>>
    BY <1>8, DelEffect
  <2>2. Copy(id, u)
    BY <1>1, <1>3, <2>1 DEF Copy, PersistInv, TypeOK, GameTypeOK
  <2> QED
    BY <1>2, <2>1, <2>2 DEF Listed
<1>9. CASE SaveTempData
  <2>1. hash'[id] = hash[id] /\ UNCHANGED <<sets, cache, gpc, gid, grole, torn>>
    BY <1>3, <1>9, SaveEffect, KeyFacts
  <2> QED
    BY <1>1, <1>2, <2>1 DEF Copy, Listed
<1> QED
  BY <1>1, <1>4, <1>5, <1>6, <1>7, <1>8, <1>9 DEF GameStep

LEMMA GameInv ==
  ASSUME PersistInv, Game
  PROVE  PersistInv'
<1>1. /\ UNCHANGED <<rows, dpc, table, result, keys, record, dconn, lost, forgotten>> /\ GameStep
      /\ given' \in {given, gCount'}
      /\ garbled' \in BOOLEAN /\ faults' \in {faults, faults + 1} /\ faults' <= MaxFaults
  BY DEF Game, gatewayVars
<1>2. GameEffect
  BY <1>1, BootEffect, CreateEffect, ListEffect, LoadEffect, DelEffect, SaveEffect DEF GameStep
<1>3. TypeOK'
  <2>1. faults' \in 0 .. MaxFaults
    BY <1>1, FaultAssumption DEF PersistInv, TypeOK
  <2> QED
    BY <1>1, <1>2, <2>1 DEF GameEffect, PersistInv, TypeOK, GameTypeOK, GatewayTypeOK
<1>4. Kinds' /\ Copying'
  BY <1>1, <1>2 DEF GameEffect, HashGrows, PersistInv, Kinds, Copying, Value
<1>5. Held'
  <2>1. record.key \in Key
    BY DEF PersistInv, TypeOK, GatewayTypeOK
  <2> QED
    BY <1>1, <1>2, <2>1 DEF GameEffect, HashGrows, PersistInv, Held
<1>6. RefilledSoFar'
  BY <1>1, <1>2 DEF GameEffect, HashGrows, PersistInv, RefilledSoFar, Due
<1> QED
  BY <1>2, <1>3, <1>4, <1>5, <1>6, GameCounts, GameOwners DEF GameEffect, PersistInv

-----------------------------------------------------------------------------
(* The database gateway.                                                   *)

\* A step that moves the gateway on changes no record, but may forget the one it has.
LEMMA MovesOn ==
  ASSUME PersistInv, UNCHANGED <<redisVars, gameVars, rows, faults, lost, garbled, given>>, forgotten' \in BOOLEAN,
         (record' = record /\ (dconn' => dconn)) \/ record'.value = None
  PROVE  /\ RedisTypeOK' /\ GameTypeOK' /\ faults' \in 0 .. MaxFaults
         /\ lost' \in BOOLEAN /\ garbled' \in BOOLEAN /\ given' \in Count
         /\ Creating' /\ Ungarbled' /\ Held' /\ Counts' /\ OwnersListed'
<1> USE DEF redisVars, gameVars
<1>1. /\ RedisTypeOK' /\ GameTypeOK' /\ faults' \in 0 .. MaxFaults
      /\ lost' \in BOOLEAN /\ garbled' \in BOOLEAN /\ given' \in Count /\ Creating'
  BY DEF PersistInv, TypeOK, RedisTypeOK, GameTypeOK, Creating
<1>2. Ungarbled'
  BY KeyFacts DEF PersistInv, Ungarbled
<1>3. Held'
  BY DEF PersistInv, Held
<1>4. Counts'
  <2>0. ~lost /\ ~garbled => Number(hash[CountKey]) \in Nat
    BY KeyFacts DEF PersistInv, Kinds, Value, Ungarbled, Number
  <2>1. ~lost /\ ~garbled => Number(hash[CountKey]) >= 0
    BY <2>0
  <2>2. record'.value = None => Number(record'.value) = 0
    BY DEF Number
  <2> QED
    BY <2>1, <2>2 DEF PersistInv, Counts, Ordered, CopiesOrdered, Number
<1>5. OwnersListed'
  <2> SUFFICES ASSUME NEW id \in Id, NEW u \in Role, ~lost, Copy(id, u)' PROVE Listed(id, u)'
    BY DEF OwnersListed
  <2>1. Copy(id, u)
    BY KeyFacts DEF Copy
  <2>2. Listed(id, u)
    BY <2>1 DEF PersistInv, OwnersListed
  <2> QED
    BY <2>2 DEF Listed
<1> QED
  BY <1>1, <1>2, <1>3, <1>4, <1>5

LEMMA StartInv ==
  ASSUME PersistInv, StartGateway, UNCHANGED <<gameVars, faults, lost, garbled, given>>, forgotten' \in BOOLEAN
  PROVE  PersistInv'
<1>1. /\ dpc = "down" /\ dpc' = "select" /\ table' = 1 /\ dconn' = TRUE
      /\ UNCHANGED <<redisVars, rows, result, keys, record>>
  BY DEF StartGateway
<1>2. record.value = None
  BY <1>1 DEF PersistInv, Copying
<1>3. GatewayTypeOK'
  BY <1>1, TableFacts DEF PersistInv, TypeOK, GatewayTypeOK
<1>4. Kinds' /\ Copying' /\ RefilledSoFar'
  BY <1>1, <1>2 DEF PersistInv, Kinds, Copying, RefilledSoFar, Due, Value, redisVars
<1> QED
  BY <1>1, <1>2, <1>3, <1>4, MovesOn DEF PersistInv, TypeOK

LEMMA SelectInv ==
  ASSUME PersistInv, SelectRows, UNCHANGED <<gameVars, faults, lost, garbled, given>>, forgotten' \in BOOLEAN
  PROVE  PersistInv'
<1>1. /\ dpc = "select" /\ dpc' = "restore"
      /\ result' = [k \in Key |-> IF k \in Tables[table] THEN rows[k] ELSE None]
      /\ UNCHANGED <<redisVars, rows, table, keys, record, dconn>>
  BY DEF SelectRows
<1>2. GatewayTypeOK'
  BY <1>1 DEF PersistInv, TypeOK, GatewayTypeOK
<1>3. Kinds' /\ Copying'
  BY <1>1, KeyFacts DEF PersistInv, Kinds, Copying, Value, redisVars
<1>4. RefilledSoFar'
  <2> SUFFICES ASSUME dconn, NEW k \in Key, rows[k] # None, hash[k] = None PROVE Due(k)'
    BY <1>1 DEF RefilledSoFar, redisVars
  <2>1. table = 1 \/ k = CountKey
    BY <1>1 DEF PersistInv, RefilledSoFar, Due
  <2>2. table \in {1, 2}
    BY TableFacts DEF PersistInv, TypeOK, GatewayTypeOK
  <2>3. k \in Tables[table] \/ (table = 1 /\ k = CountKey)
    BY <2>1, <2>2, TableFacts DEF Key
  <2> QED
    BY <1>1, <2>3 DEF Due
<1> QED
  BY <1>1, <1>2, <1>3, <1>4, MovesOn DEF PersistInv, TypeOK

LEMMA NextTableInv ==
  ASSUME PersistInv, NextTable, UNCHANGED <<gameVars, faults, lost, garbled, given>>, forgotten' \in BOOLEAN
  PROVE  PersistInv'
<1>1. /\ dpc = "restore" /\ result = EmptyHash
      /\ \/ table = 2 /\ dpc' = "keys" /\ table' = 1
         \/ table = 1 /\ dpc' = "select" /\ table' = 2
      /\ UNCHANGED <<redisVars, rows, result, keys, record, dconn>>
  BY TableFacts DEF NextTable, PersistInv, TypeOK, GatewayTypeOK
<1>2. \A k \in Key : result[k] = None
  BY <1>1 DEF EmptyHash
<1>3. record.value = None
  BY <1>1 DEF PersistInv, Copying
<1>4. GatewayTypeOK'
  BY <1>1, TableFacts DEF PersistInv, TypeOK, GatewayTypeOK
<1>5. Kinds' /\ Copying' /\ RefilledSoFar'
  BY <1>1, <1>2, <1>3 DEF PersistInv, Kinds, Copying, RefilledSoFar, Due, Value, redisVars
<1> QED
  BY <1>1, <1>3, <1>4, <1>5, MovesOn DEF PersistInv, TypeOK

LEMMA KeysInv ==
  ASSUME PersistInv, GetAllKeys \/ TableCopied, UNCHANGED <<gameVars, faults, lost, garbled, given>>, forgotten' \in BOOLEAN
  PROVE  PersistInv'
<1>1. /\ dpc \in {"keys", "copy"} /\ dpc' \in {"keys", "copy"}
      /\ table' \in 1 .. Len(Tables) /\ keys' \subseteq Key
      /\ UNCHANGED <<redisVars, rows, result, record, dconn>>
  <2>1. table \in {1, 2} /\ keys \subseteq Key
    BY TableFacts DEF PersistInv, TypeOK, GatewayTypeOK
  <2> QED
    BY <2>1, TableFacts, KeyFacts DEF GetAllKeys, TableCopied, RedisGetAllKeys
<1>2. record.value = None
  BY <1>1 DEF PersistInv, Copying
<1>3. GatewayTypeOK'
  BY <1>1 DEF PersistInv, TypeOK, GatewayTypeOK
<1>4. Kinds' /\ Copying' /\ RefilledSoFar'
  BY <1>1, <1>2 DEF PersistInv, Kinds, Copying, RefilledSoFar, Due, Value, redisVars
<1> QED
  BY <1>1, <1>2, <1>3, <1>4, MovesOn DEF PersistInv, TypeOK

\* What is read is of its kind, is in redis, and is no greater than what is there.
LEMMA ReadInv ==
  ASSUME PersistInv, NEW k \in Key, ReadRecord(k), UNCHANGED <<gameVars, faults, lost, garbled, given>>, forgotten' \in BOOLEAN
  PROVE  PersistInv'
<1>1. /\ dpc = "copy" /\ dconn /\ keys' = keys \ {k}
      /\ record' = [key |-> k, value |-> hash[k]]
      /\ dpc' = IF hash[k] = None THEN "copy" ELSE "write"
      /\ UNCHANGED <<redisVars, rows, table, result, dconn>>
  BY DEF ReadRecord, RedisGetHashAll
<1>2. record'.key = k /\ record'.value = hash[k]
  BY <1>1
<1>3. TypeOK'
  <2>1. hash[k] \in Role \cup Count \cup {None, Garbage}
    BY DEF PersistInv, TypeOK, RedisTypeOK
  <2> QED
    BY <1>1, <2>1 DEF PersistInv, TypeOK, RedisTypeOK, GameTypeOK, GatewayTypeOK, redisVars, gameVars
<1>4. Kinds' /\ Copying' /\ Creating'
  BY <1>1, <1>2 DEF PersistInv, Kinds, Copying, Creating, Value, redisVars, gameVars
<1>5. Ungarbled' /\ Held' /\ RefilledSoFar'
  BY <1>1, <1>2 DEF PersistInv, Ungarbled, Held, RefilledSoFar, Due, redisVars, gameVars
<1>6. Counts'
  <2>1. ~lost /\ ~garbled => Number(hash[CountKey]) \in Nat
    BY KeyFacts DEF PersistInv, Kinds, Value, Ungarbled, Number
  <2> QED
    BY <1>1, <1>2, <2>1 DEF PersistInv, Counts, Ordered, CopiesOrdered, Number, redisVars, gameVars
<1>7. OwnersListed'
  BY <1>1, <1>2 DEF PersistInv, OwnersListed, Copy, Listed, redisVars, gameVars
<1> QED
  BY <1>3, <1>4, <1>5, <1>6, <1>7 DEF PersistInv

\* What is written was in redis and is there still, so nothing gets ahead of it.
LEMMA WriteInv ==
  ASSUME PersistInv, WriteRow, UNCHANGED <<gameVars, faults, lost, garbled, given>>, forgotten' \in BOOLEAN
  PROVE  PersistInv'
<1>1. /\ dpc = "write" /\ dpc' = "copy"
      /\ rows' = [rows EXCEPT ![record.key] = IF record.value \in Refused THEN @ ELSE record.value]
      /\ record' = NoRecord
      /\ UNCHANGED <<redisVars, table, result, keys, dconn>>
  BY DEF WriteRow
<1>0. PICK r \in Key : r = record.key
  BY DEF PersistInv, TypeOK, GatewayTypeOK
<1>2. PICK v \in Value(r) : v = record.value
  BY <1>0 DEF PersistInv, Kinds
<1>3. record'.key = CountKey /\ record'.value = None /\ record' \in [key : Key, value : {None}]
  BY <1>1, KeyFacts DEF NoRecord
<1>4. rows'[r] \in {v, rows[r]} /\ \A k \in Key : k # r => rows'[k] = rows[k]
  BY <1>0, <1>1, <1>2 DEF PersistInv, TypeOK, GatewayTypeOK
<1>5. v \in Role \cup Count \cup {None, Garbage}
  BY DEF Value
<1>6. TypeOK'
  BY <1>0, <1>1, <1>2, <1>3, <1>5 DEF PersistInv, TypeOK, RedisTypeOK, GameTypeOK, GatewayTypeOK,
     redisVars, gameVars
<1>7. Kinds' /\ Copying' /\ Creating'
  BY <1>1, <1>3, <1>4 DEF PersistInv, Kinds, Copying, Creating, Value, redisVars, gameVars
<1>8. Ungarbled'
  BY <1>0, <1>1, <1>2, <1>3, <1>4, KeyFacts DEF PersistInv, Ungarbled, redisVars
<1>9. Held' /\ RefilledSoFar'
  <2>1. (~lost \/ dconn) /\ v # None => hash[r] # None
    BY <1>0, <1>2 DEF PersistInv, Held
  <2> QED
    BY <1>1, <1>3, <1>4, <2>1 DEF PersistInv, Held, RefilledSoFar, Due, redisVars, gameVars
<1>10. Counts'
  <2>1. ~lost /\ ~garbled => /\ Number(hash[CountKey]) \in Nat
                             /\ r = CountKey => Number(v) <= Number(hash[CountKey])
    BY <1>0, <1>2, KeyFacts DEF PersistInv, Kinds, Value, Ungarbled, Number, Counts
  <2>2. ~lost /\ ~garbled => Number(rows'[CountKey]) <= Number(hash[CountKey])
    BY <1>4, <2>1, KeyFacts DEF PersistInv, Counts, Ordered, CopiesOrdered
  <2> QED
    BY <1>1, <1>3, <2>1, <2>2 DEF PersistInv, Counts, Ordered, CopiesOrdered, Number, redisVars, gameVars
<1>11. OwnersListed'
  <2> SUFFICES ASSUME NEW id \in Id, NEW u \in Role, ~lost, Copy(id, u)' PROVE Listed(id, u)'
    BY DEF OwnersListed, gameVars
  <2>1. Copy(id, u)
    BY <1>0, <1>1, <1>2, <1>3, <1>4, KeyFacts DEF Copy, redisVars, gameVars
  <2>2. Listed(id, u)
    BY <2>1 DEF PersistInv, OwnersListed
  <2> QED
    BY <1>1, <2>2 DEF Listed, redisVars, gameVars
<1> QED
  BY <1>6, <1>7, <1>8, <1>9, <1>10, <1>11 DEF PersistInv

\* A row that is put back is still what MySQL has: redis falls back to it, not behind it.
LEMMA RestoreInv ==
  ASSUME PersistInv, NEW k \in Key, RestoreRow(k), UNCHANGED <<gameVars, faults, lost, garbled, given>>, forgotten' \in BOOLEAN
  PROVE  PersistInv'
<1>1. /\ dpc = "restore" /\ dconn /\ result[k] # None
      /\ IF k = CountKey THEN UNCHANGED sets ELSE RedisAddSet("user_id", UserOf[result[k]], k)
      /\ RedisSetHash(k, result[k])
      /\ result' = [result EXCEPT ![k] = None]
      /\ UNCHANGED <<rows, dpc, table, keys, record, dconn>>
  BY DEF RestoreRow
<1>2. PICK v \in Value(k) : v = result[k] /\ v = rows[k] /\ v # None
  BY <1>1 DEF PersistInv, Kinds, Copying
<1>3. RedisTypeOK /\ v \in Role \cup Count \cup {None, Garbage} /\ "user_id" \in Field
  BY DEF PersistInv, TypeOK, Value, Field
<1>4. /\ hash' \in [Key -> Role \cup Count \cup {None, Garbage}]
      /\ hash'[k] = v /\ \A j \in Key : j # k => hash'[j] = hash[j]
  BY <1>1, <1>2, <1>3, SetHash
<1>5. sets' \in [Field -> [User -> SUBSET Id]] /\ SetsGrow
  <2>1. CASE k = CountKey
    BY <1>1, <1>3, <2>1 DEF RedisTypeOK, SetsGrow
  <2>2. CASE k # CountKey
    <3>1. k \in Id /\ UserOf[v] \in User
      BY <1>2, <2>2, UserOfRole DEF Key, Value
    <3>2. RedisAddSet("user_id", UserOf[v], k)
      BY <1>1, <1>2, <2>2
    <3> QED
      BY <1>3, <3>1, <3>2, AddSet DEF SetsGrow
  <2> QED
    BY <2>1, <2>2
<1>6. record.value = None /\ result'[k] = None /\ \A j \in Key : j # k => result'[j] = result[j]
  BY <1>1 DEF PersistInv, Copying, TypeOK, GatewayTypeOK
<1>7. TypeOK'
  <2>1. RedisTypeOK'
    BY <1>4, <1>5 DEF RedisTypeOK
  <2>2. GameTypeOK'
    BY <1>1 DEF PersistInv, TypeOK, GameTypeOK, gameVars
  <2>3. GatewayTypeOK'
    BY <1>1 DEF PersistInv, TypeOK, GatewayTypeOK
  <2> QED
    BY <1>1, <2>1, <2>2, <2>3 DEF PersistInv, TypeOK
<1>8. Kinds' /\ Copying' /\ Creating'
  <2>1. None \in Value(k)
    BY DEF Value
  <2> QED
    BY <1>1, <1>4, <1>6, <2>1 DEF PersistInv, Kinds, Copying, Creating, Value, gameVars
<1>9. Ungarbled' /\ Held'
  BY <1>1, <1>2, <1>4, <1>6, KeyFacts DEF PersistInv, Ungarbled, Held, gameVars
<1>10. Counts'
  <2>1. ~lost /\ ~garbled =>
          /\ Number(hash[CountKey]) \in Nat /\ Number(rows[CountKey]) \in Nat /\ gCount \in Nat
          /\ Number(rows[CountKey]) <= Number(hash[CountKey])
          /\ gpc # "down" => Number(hash[CountKey]) <= gCount
    BY KeyFacts DEF PersistInv, Kinds, Value, Ungarbled, Number, Counts, Ordered, CopiesOrdered, TypeOK, GameTypeOK
  <2>2. hash'[CountKey] = hash[CountKey] \/ hash'[CountKey] = rows[CountKey]
    BY <1>2, <1>4, KeyFacts
  <2>3. Number(hash'[CountKey]) \in {Number(hash[CountKey]), Number(rows[CountKey])}
    BY <2>2 DEF Number
  <2>4. Ordered'
    BY <1>1, <2>1, <2>3 DEF Ordered, CopiesOrdered, Number, gameVars
  <2>5. Number(record'.value) = 0 /\ (~lost /\ ~garbled => Number(hash'[CountKey]) \in Nat)
    BY <1>1, <1>6, <2>1, <2>3 DEF Number
  <2> QED
    BY <2>4, <2>5 DEF Counts, gameVars
<1>11. OwnersListed'
  <2> SUFFICES ASSUME NEW id \in Id, NEW u \in Role, ~lost, Copy(id, u)' PROVE Listed(id, u)'
    BY DEF OwnersListed, gameVars
  <2>1. Copy(id, u)
    BY <1>1, <1>2, <1>4, KeyFacts DEF Copy, gameVars
  <2>2. Listed(id, u)
    BY <2>1 DEF PersistInv, OwnersListed
  <2> QED
    BY <1>5, <2>2, UserOfRole DEF Listed, SetsGrow, Field, gameVars
<1>12. RefilledSoFar'
  BY <1>1, <1>2, <1>4, <1>6 DEF PersistInv, RefilledSoFar, Due
<1> QED
  BY <1>7, <1>8, <1>9, <1>10, <1>11, <1>12 DEF PersistInv

LEMMA GatewayInv ==
  ASSUME PersistInv, Gateway
  PROVE  PersistInv'
<1>1. /\ GatewayStep /\ UNCHANGED <<gameVars, faults, lost, garbled, given>>
      /\ forgotten' \in BOOLEAN
  BY DEF Gateway, PersistInv, TypeOK
<1> QED
  BY <1>1, StartInv, SelectInv, NextTableInv, KeysInv, ReadInv, WriteInv, RestoreInv DEF GatewayStep

-----------------------------------------------------------------------------
(* The faults.                                                             *)

\* The server forgets all; a creation it was at is cut short.
LEMMA GameCrashInv ==
  ASSUME PersistInv, GameCrash
  PROVE  PersistInv'
<1>1. /\ gpc # "down" /\ torn' = IF gpc = "list" THEN torn \cup {gid} ELSE torn
      /\ gCount' = 0 /\ cache' = NoCache
      /\ gpc' = "down" /\ gid' = 0 /\ grole' = None
      /\ gconn' = FALSE /\ mixed' = FALSE
      /\ UNCHANGED <<redisVars, gatewayVars, lost, garbled, given>> /\ forgotten' \in BOOLEAN
      /\ faults' \in {faults, faults + 1} /\ faults' <= MaxFaults
  BY DEF GameCrash, GameEnds, PersistInv, TypeOK
<1>2. TypeOK'
  <2>1. faults' \in 0 .. MaxFaults
    BY <1>1, FaultAssumption DEF PersistInv, TypeOK
  <2>2. torn' \subseteq Id /\ cache' \in [Id -> Role \cup {None}]
    BY <1>1 DEF PersistInv, TypeOK, GameTypeOK, Creating, NoCache
  <2>3. GameTypeOK'
    BY <1>1, <2>2, KeyFacts DEF GameTypeOK
  <2> QED
    BY <1>1, <2>1, <2>3 DEF PersistInv, TypeOK, RedisTypeOK, GatewayTypeOK, redisVars, gatewayVars
<1>3. Kinds' /\ Creating' /\ Copying' /\ Ungarbled' /\ RefilledSoFar'
  BY <1>1 DEF PersistInv, Kinds, Creating, Copying, Ungarbled, RefilledSoFar, Due, Value,
     redisVars, gatewayVars
<1>4. Held'
  BY <1>1 DEF PersistInv, Held, NoCache, redisVars, gatewayVars
<1>5. Counts'
  BY <1>1 DEF PersistInv, Counts, Ordered, CopiesOrdered, Number, redisVars, gatewayVars
<1>6. OwnersListed'
  <2> SUFFICES ASSUME NEW id \in Id, NEW u \in Role, ~lost, Copy(id, u)' PROVE Listed(id, u)'
    BY <1>1 DEF OwnersListed
  <2>1. Copy(id, u)
    BY <1>1, KeyFacts DEF Copy, NoCache, redisVars, gatewayVars
  <2>2. Listed(id, u)
    BY <2>1 DEF PersistInv, OwnersListed
  <2> QED
    BY <1>1, <2>2 DEF Listed, redisVars
<1> QED
  BY <1>2, <1>3, <1>4, <1>5, <1>6 DEF PersistInv

LEMMA GatewayCrashInv ==
  ASSUME PersistInv, GatewayCrash
  PROVE  PersistInv'
<1>1. /\ dpc' = "down" /\ table' = 1
      /\ result' = EmptyHash /\ keys' = {} /\ record' = NoRecord
      /\ dconn' = FALSE
      /\ UNCHANGED <<redisVars, gameVars, rows, lost, garbled, given, forgotten>>
      /\ faults' \in {faults, faults + 1} /\ faults' <= MaxFaults
  BY DEF GatewayCrash, GatewayEnds
<1>2. /\ record'.value = None /\ record' \in [key : Key, value : Role \cup Count \cup {None, Garbage}]
      /\ None \in Value(record'.key) /\ record'.key = CountKey
  BY <1>1, KeyFacts DEF NoRecord, Value
<1>3. \A k \in Key : result'[k] = None /\ None \in Value(k)
  BY <1>1 DEF EmptyHash, Value
<1>4. TypeOK'
  <2>1. faults' \in 0 .. MaxFaults
    BY <1>1, FaultAssumption DEF PersistInv, TypeOK
  <2>2. GatewayTypeOK'
    <3>1. EmptyHash \in [Key -> Role \cup Count \cup {None, Garbage}]
      BY DEF EmptyHash
    <3>2. 1 \in 1 .. Len(Tables)
      BY TableFacts
    <3> QED
      BY <1>1, <1>2, <3>1, <3>2 DEF PersistInv, TypeOK, GatewayTypeOK
  <2> QED
    BY <1>1, <2>1, <2>2 DEF PersistInv, TypeOK, RedisTypeOK, GameTypeOK, redisVars, gameVars
<1>5. Kinds' /\ Copying' /\ RefilledSoFar'
  BY <1>1, <1>2, <1>3 DEF PersistInv, Kinds, Copying, RefilledSoFar, Due, Value, redisVars
<1>6. Creating' /\ Ungarbled' /\ Held' /\ OwnersListed'
  BY <1>1, <1>2, KeyFacts DEF PersistInv, Creating, Ungarbled, Held, OwnersListed, Copy, Listed,
     redisVars, gameVars
<1>7. Counts'
  <2>1. ~lost /\ ~garbled => Number(hash[CountKey]) \in Nat
    BY KeyFacts DEF PersistInv, Kinds, Value, Ungarbled, Number
  <2>2. Number(record'.value) = 0
    BY <1>2 DEF Number
  <2> QED
    BY <1>1, <2>1, <2>2 DEF PersistInv, Counts, Ordered, CopiesOrdered, Number, redisVars, gameVars
<1> QED
  BY <1>4, <1>5, <1>6, <1>7 DEF PersistInv

\* If redis comes back with other records than it had, it has lost its data for good.
LEMMA RedisFailsInv ==
  ASSUME PersistInv, RedisFails
  PROVE  PersistInv'
<1>1. /\ faults < MaxFaults /\ faults' = faults + 1
      /\ lost' = (lost \/ hash' # hash) /\ gconn' = FALSE /\ dconn' = FALSE
      /\ UNCHANGED <<gCount, cache, gpc, gid, grole, mixed, torn>>
      /\ UNCHANGED <<rows, dpc, table, result, keys, record, garbled, given, forgotten>>
      /\ \/ UNCHANGED <<hash, sets>>
         \/ hash' = EmptyHash /\ sets' = EmptySets
  BY DEF RedisFails, RedisRestart, redisVars
<1>2. \A k \in Key : hash'[k] = hash[k] \/ hash'[k] = None
  BY <1>1 DEF EmptyHash
<1>3. TypeOK'
  <2>1. faults' \in 0 .. MaxFaults /\ lost' \in BOOLEAN
    BY <1>1, FaultAssumption DEF PersistInv, TypeOK
  <2>2. EmptySets \in [Field -> [User -> SUBSET Id]]
    BY DEF EmptySets
  <2>3. RedisTypeOK'
    BY <1>1, <2>2 DEF PersistInv, TypeOK, RedisTypeOK, EmptyHash
  <2>4. GameTypeOK'
    BY <1>1 DEF PersistInv, TypeOK, GameTypeOK
  <2>5. GatewayTypeOK'
    BY <1>1 DEF PersistInv, TypeOK, GatewayTypeOK
  <2> QED
    BY <1>1, <2>1, <2>3, <2>4, <2>5 DEF PersistInv, TypeOK
<1>4. Kinds' /\ Creating' /\ Copying' /\ Ungarbled' /\ RefilledSoFar'
  BY <1>1, <1>2, KeyFacts DEF PersistInv, Kinds, Creating, Copying, Ungarbled, RefilledSoFar, Due, Value
<1>5. Held' /\ Counts'
  BY <1>1 DEF PersistInv, Held, Counts, Ordered, CopiesOrdered, Number
<1>6. OwnersListed'
  <2> SUFFICES ASSUME NEW id \in Id, NEW u \in Role, ~lost', Copy(id, u)' PROVE Listed(id, u)'
    BY DEF OwnersListed
  <2>1. ~lost /\ hash' = hash /\ Copy(id, u)
    BY <1>1 DEF Copy
  <2>2. Listed(id, u)
    BY <2>1 DEF PersistInv, OwnersListed
  <2>3. CASE UNCHANGED <<hash, sets>>
    BY <1>1, <2>2, <2>3 DEF Listed
  <2>4. CASE hash' = EmptyHash
    <3>1. \A k \in Key : hash[k] = None
      BY <2>1, <2>4 DEF EmptyHash
    <3>2. ~Copy(id, u)
      BY <2>1, <3>1, KeyFacts DEF Copy, PersistInv, Held
    <3> QED
      BY <2>1, <3>2
  <2> QED
    BY <1>1, <2>3, <2>4
<1> QED
  BY <1>3, <1>4, <1>5, <1>6 DEF PersistInv

-----------------------------------------------------------------------------

LEMMA PersistInit == Init => PersistInv
<1> SUFFICES ASSUME Init PROVE PersistInv
  OBVIOUS
<1>1. /\ hash = EmptyHash /\ sets = EmptySets /\ rows = EmptyHash /\ result = EmptyHash
      /\ gCount = 0 /\ cache = NoCache /\ gpc = "down" /\ gid = 0 /\ grole = None
      /\ gconn = FALSE /\ mixed = FALSE /\ torn = {}
      /\ dpc = "down" /\ table = 1 /\ keys = {} /\ record = NoRecord /\ dconn = FALSE
      /\ faults = 0 /\ lost = FALSE /\ garbled = FALSE /\ given = 0 /\ forgotten = FALSE
  BY DEF Init, RedisInit, GameInit, GatewayInit
<1>2. /\ \A k \in Key : hash[k] = None /\ rows[k] = None /\ result[k] = None /\ None \in Value(k)
      /\ \A id \in Id : cache[id] = None
      /\ record.key = CountKey /\ record.value = None /\ record \in [key : Key, value : Role \cup Count \cup {None, Garbage}]
  BY <1>1, KeyFacts DEF EmptyHash, NoCache, NoRecord, Value
<1>3. TypeOK
  <2>1. RedisTypeOK
    BY <1>1 DEF RedisTypeOK, EmptyHash, EmptySets
  <2>2. GameTypeOK
    BY <1>1, KeyFacts DEF GameTypeOK, NoCache
  <2>3. GatewayTypeOK
    <3>1. EmptyHash \in [Key -> Role \cup Count \cup {None, Garbage}]
      BY DEF EmptyHash
    <3>2. 1 \in 1 .. Len(Tables)
      BY TableFacts
    <3> QED
      BY <1>1, <1>2, <3>1, <3>2 DEF GatewayTypeOK
  <2> QED
    <3>1. faults \in 0 .. MaxFaults
      BY <1>1, FaultAssumption
    <3> QED
      BY <1>1, <2>1, <2>2, <2>3, <3>1, KeyFacts DEF TypeOK
<1>4. Kinds /\ Creating /\ Copying /\ Ungarbled /\ Held /\ RefilledSoFar
  BY <1>1, <1>2, KeyFacts DEF Kinds, Creating, Copying, Ungarbled, Held, RefilledSoFar
<1>5. Counts
  BY <1>1, <1>2, KeyFacts DEF Counts, Ordered, CopiesOrdered, Number
<1>6. OwnersListed
  BY <1>2, KeyFacts DEF OwnersListed, Copy
<1> QED
  BY <1>3, <1>4, <1>5, <1>6 DEF PersistInv

LEMMA PersistStutter ==
  ASSUME PersistInv, UNCHANGED vars
  PROVE  PersistInv'
<1>1. UNCHANGED <<hash, sets, gCount, cache, gpc, gid, grole, gconn, mixed, torn, rows, dpc, table,
                  result, keys, record, dconn, faults, lost, garbled, given, forgotten>>
  BY DEF vars, redisVars, gameVars, gatewayVars
<1>2. TypeOK' /\ Kinds' /\ Creating' /\ Copying' /\ Ungarbled'
  BY <1>1 DEF PersistInv, TypeOK, RedisTypeOK, GameTypeOK, GatewayTypeOK, Kinds, Creating, Copying,
     Ungarbled, Value
<1>3. Held' /\ Counts' /\ OwnersListed' /\ RefilledSoFar'
  BY <1>1 DEF PersistInv, Held, Counts, Ordered, CopiesOrdered, Number, OwnersListed, Copy, Listed,
     RefilledSoFar, Due
<1> QED
  BY <1>2, <1>3 DEF PersistInv

LEMMA PersistNext == PersistInv /\ [Next]_vars => PersistInv'
BY GameInv, GatewayInv, GameCrashInv, GatewayCrashInv, RedisFailsInv, PersistStutter DEF Next

LEMMA PersistInvariance == Spec => []PersistInv
BY PersistInit, PersistNext, PTL DEF Spec

-----------------------------------------------------------------------------
(* Ids are handed out once.                                                *)

Fresh == ~lost /\ ~garbled /\ ~forgotten => NextIsFresh

\* A started server takes the saved count over, and counts on from there.
LEMMA CountGoesOn ==
  ASSUME PersistInv, Game, ~lost', ~garbled'
  PROVE  /\ gpc' # "down"
         /\ IF gpc = "down" THEN gCount' = Number(hash[CountKey])
            ELSE gCount' \in {gCount, gCount + 1}
<1>1. GameStep /\ ~lost /\ ~garbled
  BY DEF Game, PersistInv, TypeOK
<1>2. CASE Boot
  <2>1. hash[CountKey] # Garbage
    BY <1>1 DEF PersistInv, Ungarbled
  <2> QED
    BY <1>2, <2>1 DEF Boot, LoadTempData, Number
<1>3. CASE ListNewPlayer \/ ListNewPlayerFails \/ SaveTempData
  BY <1>3 DEF ListNewPlayer, ListNewPlayerFails, SaveTempData
<1>4. CASE \E role \in Role : CreatePlayer(role)
  BY <1>4, CreateEffect DEF CreatePlayer
<1>5. CASE \E id \in Id : LoadPlayer(id) \/ DelPlayerData(id)
  BY <1>5 DEF LoadPlayer, DelPlayerData
<1> QED
  BY <1>1, <1>2, <1>3, <1>4, <1>5 DEF GameStep

LEMMA FreshNext ==
  ASSUME PersistInv, PersistInv', Fresh, [Next]_vars
  PROVE  Fresh'
<1> SUFFICES ASSUME ~lost', ~garbled', ~forgotten' PROVE NextIsFresh'
  BY DEF Fresh
<1>1. given \in Nat /\ given' \in Nat /\ gCount \in Nat /\ gCount' \in Nat
  BY KeyFacts DEF PersistInv, TypeOK, GameTypeOK
<1>2. CASE Game
  <2>1. ~lost /\ ~garbled /\ ~forgotten
        /\ given' = IF gpc # "down" /\ gCount' # gCount /\ given < gCount' THEN gCount' ELSE given
    BY <1>2 DEF Game, PersistInv, TypeOK
  <2>2. NextIsFresh
    BY <2>1 DEF Fresh
  <2> QED
    BY <1>1, <1>2, <2>1, <2>2, CountGoesOn DEF NextIsFresh
<1>3. CASE Gateway
  <2>1. /\ UNCHANGED <<gCount, gpc, lost, garbled, given>> /\ ~forgotten
        /\ Number(hash'[CountKey]) = Number(hash[CountKey])
    BY <1>3 DEF Gateway, gameVars, PersistInv, TypeOK
  <2> QED
    BY <2>1 DEF Fresh, NextIsFresh, Number
<1>4. CASE GameCrash
  <2>1. /\ gpc # "down" /\ gpc' = "down" /\ UNCHANGED <<hash, lost, garbled, given>> /\ ~forgotten
        /\ Number(hash[CountKey]) = gCount
    BY <1>4 DEF GameCrash, GameEnds, redisVars, PersistInv, TypeOK
  <2> QED
    BY <2>1 DEF Fresh, NextIsFresh, Number
<1>5. CASE GatewayCrash \/ UNCHANGED vars
  <2>1. UNCHANGED <<hash, gCount, gpc, lost, garbled, given, forgotten>>
    BY <1>5 DEF GatewayCrash, GatewayEnds, redisVars, gameVars, vars
  <2> QED
    BY <2>1 DEF Fresh, NextIsFresh, Number
<1>6. CASE RedisFails
  <2>1. UNCHANGED <<hash, gCount, gpc, garbled, given, forgotten>> /\ ~lost
    BY <1>6 DEF RedisFails
  <2> QED
    BY <2>1 DEF Fresh, NextIsFresh, Number
<1> QED
  BY <1>2, <1>3, <1>4, <1>5, <1>6 DEF Next

LEMMA FreshInvariance == Spec => []Fresh
<1>1. Init => Fresh
  BY DEF Init, Fresh, NextIsFresh, GameInit, RedisInit, EmptyHash, Number, Key
<1>2. PersistInv /\ PersistInv' /\ Fresh /\ [Next]_vars => Fresh'
  BY FreshNext
<1> QED
  BY <1>1, <1>2, PersistInvariance, PTL DEF Spec

-----------------------------------------------------------------------------
(* The theorems.                                                           *)

\* Redis, MySQL and both programs keep values of the right types, whatever ends when.
THEOREM PersistenceTypeCorrect == Spec => []TypeOK
<1>1. PersistInv => TypeOK
  BY DEF PersistInv
<1> QED
  BY <1>1, PersistInvariance, PTL

\* The count in MySQL is never ahead of the one in redis, nor that ahead of the server's,
\* as long as redis keeps its data and the count was saved as it is; and no id is handed
\* out twice but for a count that was not saved before the server ended, or that a restarted
\* gateway has replaced by an older one (get_next_obj_id, SaveTempData, MysqlToRedis).
THEOREM CountsInOrder == Spec => []CountOrder
<1>1. PersistInv /\ Fresh => CountOrder
  BY DEF PersistInv, Counts, Ordered, Fresh, CountOrder
<1> QED
  BY <1>1, PersistInvariance, FreshInvariance, PTL

\* A role in redis is in the list its user is shown (NewAndSavePlayerData), also after the
\* database gateway has put back another owner's row.
THEOREM RolesAreListed == Spec => []RolesListed
<1>1. PersistInv => RolesListed
  <2> SUFFICES ASSUME PersistInv, ~lost, NEW id \in Id, hash[id] # None
               PROVE  id \in torn \/ (gpc = "list" /\ id = gid) \/ id \in sets["m_user_id"][UserOf[hash[id]]]
    BY DEF RolesListed
  <2>1. hash[id] \in Role
    BY KeyFacts DEF PersistInv, Kinds, Value
  <2>2. Listed(id, hash[id])
    BY <2>1 DEF PersistInv, OwnersListed, Copy
  <2> QED
    BY <2>2 DEF Listed
<1> QED
  BY <1>1, PersistInvariance, PTL

\* Once MysqlToRedis is through, redis has a record of every row, and RedisToMysql takes
\* none away.
THEOREM StartCopyRefills == Spec => []Refilled
<1>1. PersistInv => Refilled
  BY DEF PersistInv, RefilledSoFar, Due, Refilled
<1> QED
  BY <1>1, PersistInvariance, PTL

-----------------------------------------------------------------------------
(* A role's way as text, whatever is in its members and whatever its name. *)

Places == 1 .. 7

LEMMA MemberNames ==
  /\ DOMAIN Members = Places /\ Len(Members) = 7
  /\ \A i \in Places : Members[i] \in Member
  /\ \A f \in Member : \E i \in Places : f = Members[i]
  /\ \A i, j \in Places : Members[i] = Members[j] => i = j
<1>1. DOMAIN Members = Places /\ Len(Members) = 7
  BY DEF Members, Places
<1>2. \A i, j \in Places : Members[i] = Members[j] => i = j
  BY DEF Members, Places
<1> QED
  BY <1>1, <1>2 DEF Member

LEMMA NamePlace ==
  /\ Members[1] # "m_player_name" /\ Members[2] = "m_user_id" /\ Members[3] = "m_player_name"
  /\ \A i \in Places : Members[i] = "m_player_name" <=> i = 3
BY DEF Members, Places

LEMMA ColumnNames ==
  /\ DOMAIN Columns = Places
  /\ \A i \in Places : Columns[i] # ""
  /\ \A i, j \in Places : Columns[i] = Columns[j] => i = j
BY DEF Columns, Places

LEMMA FieldNames ==
  ASSUME NEW i \in Places
  PROVE  GetTblFieldName(Members[i]) = Columns[i] /\ GetObjFieldName(Columns[i]) = Members[i]
<1>1. GetTblFieldName(Members[i]) = Columns[CHOOSE j \in DOMAIN Members : Members[j] = Members[i]]
  BY MemberNames DEF GetTblFieldName
<1>2. PICK k : k = CHOOSE j \in DOMAIN Members : Members[j] = Members[i]
  OBVIOUS
<1>3. k = i
  BY <1>2, MemberNames
<1>4. PICK h : h = CHOOSE j \in DOMAIN Columns : Columns[j] = Columns[i]
  OBVIOUS
<1>5. h = i
  BY <1>4, ColumnNames
<1>6. GetObjFieldName(Columns[i]) = Members[h]
  BY <1>4, ColumnNames DEF GetObjFieldName
<1> QED
  BY <1>1, <1>2, <1>3, <1>5, <1>6

IsRole(role) == role = [f \in Member |-> role[f]]

\* What is saved for the ith member.
Word(role, i) == IF i = 3 THEN NameWord(role) ELSE role[Members[i]]

\* The recursion of StructToMap.
IsText(role, text) ==
    text = [i \in 0 .. Len(Members) |->
               IF i = 0 THEN ""
               ELSE IF Words(role, Members[i]) = << >> THEN text[i - 1]
               ELSE Head(Words(role, Members[i]))]

LEMMA StructToMapText ==
  ASSUME NEW role
  PROVE  StructToMap(role)
            = [i \in DOMAIN Members |->
                  [field |-> Members[i], value |-> (CHOOSE text : IsText(role, text))[i]]]
BY DEF StructToMap, IsText

LEMMA WordsOf ==
  ASSUME NEW role, NEW i \in Places
  PROVE  /\ i # 3 => Words(role, Members[i]) = <<role[Members[i]]>>
         /\ i = 3 => Words(role, Members[i]) = role["m_player_name"]
BY NamePlace DEF Words

LEMMA TextIs ==
  ASSUME NEW role
  PROVE  LET text == CHOOSE t : IsText(role, t)
         IN  \A i \in Places : text[i] = Word(role, i)
<1>1. PICK e : e = [i \in 0 .. 7 |-> IF i = 0 THEN "" ELSE Word(role, i)]
  OBVIOUS
<1>a. \A i \in 0 .. 7 : i # 0 => e[i] = Word(role, i)
  BY <1>1
<1>2. ASSUME NEW i \in 0 .. 7, i # 0
      PROVE  e[i] = IF Words(role, Members[i]) = << >> THEN e[i - 1] ELSE Head(Words(role, Members[i]))
  <2>1. i \in Places /\ e[i] = Word(role, i)
    BY <1>a, <1>2 DEF Places
  <2>2. CASE i # 3
    <3>1. PICK x : x = role[Members[i]] /\ Words(role, Members[i]) = <<x>>
      BY <2>1, <2>2, WordsOf
    <3>2. <<x>> # << >> /\ Head(<<x>>) = x
      OBVIOUS
    <3> QED
      BY <2>1, <2>2, <3>1, <3>2 DEF Word
  <2>3. CASE i = 3
    <3>1. Words(role, Members[i]) = role["m_player_name"]
      BY <2>1, <2>3, WordsOf
    <3>2. e[i - 1] = role["m_user_id"]
      <4>1. e[2] = Word(role, 2) /\ Word(role, 2) = role[Members[2]]
        BY <1>a DEF Word
      <4> QED
        BY <2>3, <4>1, NamePlace
    <3> QED
      BY <2>1, <2>3, <3>1, <3>2 DEF Word, NameWord
  <2> QED
    BY <2>2, <2>3
<1>3. IsText(role, e)
  BY <1>1, <1>2, MemberNames DEF IsText
<1>4. PICK text : text = CHOOSE t : IsText(role, t)
  OBVIOUS
<1>5. IsText(role, text)
  BY <1>3, <1>4
<1>6. ASSUME NEW i \in Places PROVE text[i] = Word(role, i)
  <2>1. \A j \in 0 .. 7 : j # 0 =>
            text[j] = IF Words(role, Members[j]) = << >> THEN text[j - 1] ELSE Head(Words(role, Members[j]))
    BY <1>5, MemberNames DEF IsText
  <2>2. i \in 0 .. 7 /\ i # 0 /\ 2 \in 0 .. 7 /\ 2 \in Places
    BY DEF Places
  <2>3. ASSUME NEW j \in Places, j # 3 PROVE text[j] = role[Members[j]]
    <3>1. PICK x : x = role[Members[j]] /\ Words(role, Members[j]) = <<x>>
      BY <2>3, WordsOf
    <3>2. <<x>> # << >> /\ Head(<<x>>) = x
      OBVIOUS
    <3>3. j \in 0 .. 7 /\ j # 0
      BY DEF Places
    <3> QED
      BY <2>1, <3>1, <3>2, <3>3
  <2>4. CASE i # 3
    BY <2>3, <2>4 DEF Word
  <2>5. CASE i = 3
    <3>1. text[2] = role["m_user_id"]
      BY <2>2, <2>3, NamePlace
    <3>2. Words(role, Members[i]) = role["m_player_name"]
      BY <2>5, WordsOf
    <3> QED
      BY <2>1, <2>2, <2>5, <3>1, <3>2 DEF Word, NameWord
  <2> QED
    BY <2>4, <2>5
<1> QED
  BY <1>4, <1>6

LEMMA SavedIs ==
  ASSUME NEW role
  PROVE  StructToMap(role) = [i \in Places |-> [field |-> Members[i], value |-> Word(role, i)]]
<1>1. PICK text : text = CHOOSE t : IsText(role, t)
  OBVIOUS
<1>2. \A i \in Places : text[i] = Word(role, i)
  BY <1>1, TextIs
<1>3. StructToMap(role) = [i \in Places |-> [field |-> Members[i], value |-> text[i]]]
  BY <1>1, StructToMapText, MemberNames
<1> QED
  BY <1>2, <1>3

-----------------------------------------------------------------------------

\* What comes back of a word that was saved, copied to MySQL and copied back.
Kept(word) == RedisText(SqlText(RedisText(word)))

\* The words of a saved role, as they stand in redis.
LEMMA SavedInRedis ==
  ASSUME NEW role, NEW i \in Places
  PROVE  /\ DOMAIN HashOfValues(StructToMap(role)) = Places
         /\ HashOfValues(StructToMap(role))[i].field = Members[i]
         /\ HashOfValues(StructToMap(role))[i].value = RedisText(Word(role, i))
<1>1. PICK w : w = [j \in Places |-> Word(role, j)]
  OBVIOUS
<1>2. PICK vs : vs = StructToMap(role) /\ vs = [j \in Places |-> [field |-> Members[j], value |-> w[j]]]
  BY <1>1, SavedIs
<1>3. /\ DOMAIN vs = Places
      /\ vs[i] = [field |-> Members[i], value |-> w[i]]
  BY <1>2
<1>4. HashOfValues(vs) = [j \in Places |-> [vs[j] EXCEPT !.value = RedisText(vs[j].value)]]
  BY <1>3 DEF HashOfValues
<1>5. HashOfValues(vs)[i] = [vs[i] EXCEPT !.value = RedisText(vs[i].value)]
  BY <1>4
<1>6. HashOfValues(vs)[i].field = Members[i] /\ HashOfValues(vs)[i].value = RedisText(w[i])
  BY <1>3, <1>5
<1>7. w[i] = Word(role, i)
  BY <1>1
<1> QED
  BY <1>2, <1>4, <1>6, <1>7

\* MySQL takes the row of a role when it takes its name.
LEMMA RowIsTaken ==
  ASSUME NEW role, Numbered(role), RedisText(NameWord(role)) \notin Quoted
  PROVE  ~Refuses(HashOfValues(StructToMap(role)))
<1>1. ASSUME NEW i \in Places PROVE RedisText(Word(role, i)) \notin Quoted
  <2>1. CASE i = 3
    BY <2>1 DEF Word
  <2>2. CASE i # 3
    <3>1. Members[i] \in Member \ {"m_player_name"}
      BY <2>2, MemberNames, NamePlace
    <3> QED
      BY <2>2, <3>1 DEF Numbered, Plain, Word
  <2> QED
    BY <2>1, <2>2
<1>2. PICK vs : vs = HashOfValues(StructToMap(role))
  OBVIOUS
<1>3. \A i \in Places : DOMAIN vs = Places /\ vs[i].value = RedisText(Word(role, i))
  BY <1>2, SavedInRedis
<1>4. 1 \in Places
  BY DEF Places
<1> QED
  BY <1>1, <1>2, <1>3, <1>4 DEF Refuses

\* The row of a saved role has its words in the members' columns.
LEMMA RowIs ==
  ASSUME NEW role, NEW row, ~Refuses(HashOfValues(StructToMap(role)))
  PROVE  \A i \in Places :
            RowOfValues(row, HashOfValues(StructToMap(role)))[Columns[i]]
                = SqlText(RedisText(Word(role, i)))
<1>1. PICK vs : vs = HashOfValues(StructToMap(role))
  OBVIOUS
<1>2. DOMAIN vs = Places
  <2>1. 1 \in Places
    BY DEF Places
  <2> QED
    BY <1>1, <2>1, SavedInRedis
<1>2a. \A i \in Places : vs[i].field = Members[i] /\ vs[i].value = RedisText(Word(role, i))
  BY <1>1, SavedInRedis
<1>3. \A i \in Places : GetTblFieldName(vs[i].field) = Columns[i]
  BY <1>2a, FieldNames
<1>4. PICK cs : cs = {GetTblFieldName(vs[i].field) : i \in DOMAIN vs}
  OBVIOUS
<1>5. \A i \in Places : Columns[i] \in cs
  BY <1>2, <1>3, <1>4
<1>6. RowOfValues(row, vs)
        = [c \in cs |-> SqlText(vs[CHOOSE i \in DOMAIN vs : GetTblFieldName(vs[i].field) = c].value)]
  BY <1>1, <1>4 DEF RowOfValues
<1>7. ASSUME NEW i \in Places PROVE RowOfValues(row, vs)[Columns[i]] = SqlText(RedisText(Word(role, i)))
  <2>1. PICK k : k = CHOOSE j \in DOMAIN vs : GetTblFieldName(vs[j].field) = Columns[i]
    OBVIOUS
  <2>2. k \in Places /\ GetTblFieldName(vs[k].field) = Columns[i]
    BY <1>2, <1>3, <2>1
  <2>3. k = i
    BY <1>3, <2>2, ColumnNames
  <2>4. RowOfValues(row, vs)[Columns[i]] = SqlText(vs[k].value)
    BY <1>5, <1>6, <2>1
  <2> QED
    BY <1>2a, <2>3, <2>4
<1> QED
  BY <1>1, <1>7

\* A row's columns come in any order.
Order(order) ==
    /\ order = [i \in Places |-> order[i]]
    /\ \A i \in Places : \E k \in Places : order[i] = Columns[k]
    /\ \A k \in Places : \E i \in Places : order[i] = Columns[k]

Restored(role, row, order) ==
    MapToStruct(HashOfValues(ValuesOfRow(RowOfValues(row, HashOfValues(StructToMap(role))), order)))

KeptRole(role) ==
    [f \in Member |-> IF f = "m_player_name" THEN <<Kept(NameWord(role))>> ELSE Kept(role[f])]

\* A role comes back with what was kept of each member.
LEMMA RestoredIs ==
  ASSUME NEW role, NEW row, ~Refuses(HashOfValues(StructToMap(role))), NEW order, Order(order)
  PROVE  Restored(role, row, order) = KeptRole(role)
<1>1. PICK new : /\ new = RowOfValues(row, HashOfValues(StructToMap(role)))
                 /\ \A i \in Places : new[Columns[i]] = SqlText(RedisText(Word(role, i)))
  BY RowIs
<1>2. PICK rs : rs = ValuesOfRow(new, order)
  OBVIOUS
<1>3. DOMAIN order = Places
  BY DEF Order
<1>4. rs = [i \in Places |-> [field |-> GetObjFieldName(order[i]), value |-> new[order[i]]]]
  BY <1>2, <1>3 DEF ValuesOfRow
<1>5. DOMAIN rs = Places
  BY <1>4
<1>6. \A i \in Places : rs[i] = [field |-> GetObjFieldName(order[i]), value |-> new[order[i]]]
  BY <1>4
<1>7. PICK vs : vs = HashOfValues(rs)
  OBVIOUS
<1>8. vs = [i \in Places |-> [rs[i] EXCEPT !.value = RedisText(rs[i].value)]]
  BY <1>5, <1>7 DEF HashOfValues
<1>9. DOMAIN vs = Places
  BY <1>8
<1>10. \A i \in Places : vs[i] = [rs[i] EXCEPT !.value = RedisText(rs[i].value)]
  BY <1>8
<1>11. \A i \in Places : vs[i].field = GetObjFieldName(order[i]) /\ vs[i].value = RedisText(new[order[i]])
  <2> TAKE i \in Places
  <2>1. PICK f, v : f = GetObjFieldName(order[i]) /\ v = new[order[i]] /\ rs[i] = [field |-> f, value |-> v]
    BY <1>6
  <2>2. vs[i] = [rs[i] EXCEPT !.value = RedisText(rs[i].value)]
    BY <1>10
  <2>3. rs[i].value = v
    BY <2>1
  <2>4. vs[i] = [field |-> f, value |-> RedisText(v)]
    BY <2>1, <2>2, <2>3
  <2> QED
    BY <2>1, <2>4
<1>12. ASSUME NEW i \in Places, NEW k \in Places, order[i] = Columns[k]
       PROVE  vs[i].field = Members[k] /\ vs[i].value = Kept(Word(role, k))
  <2>1. new[order[i]] = SqlText(RedisText(Word(role, k)))
    BY <1>1, <1>12
  <2> QED
    BY <1>11, <1>12, <2>1, FieldNames DEF Kept
<1>13. \A i \in Places : vs[i].field \in Member
  <2> TAKE i \in Places
  <2>1. PICK k \in Places : order[i] = Columns[k]
    BY DEF Order
  <2> QED
    BY <1>12, <2>1, MemberNames
<1>14. \A f \in Member : \E i \in Places : vs[i].field = f
  <2> TAKE f \in Member
  <2>1. PICK k \in Places : f = Members[k]
    BY MemberNames
  <2>2. PICK i \in Places : order[i] = Columns[k]
    BY DEF Order
  <2> QED
    BY <1>12, <2>1, <2>2
<1>15. {vs[i].field : i \in DOMAIN vs} = Member
  BY <1>9, <1>13, <1>14
<1>16. ASSUME NEW f \in Member
       PROVE  vs[CHOOSE i \in DOMAIN vs : vs[i].field = f].value
                 = IF f = "m_player_name" THEN Kept(NameWord(role)) ELSE Kept(role[f])
  <2>1. PICK i : i = CHOOSE j \in DOMAIN vs : vs[j].field = f
    OBVIOUS
  <2>2. i \in Places /\ vs[i].field = f
    BY <1>9, <1>14, <2>1
  <2>3. PICK k \in Places : order[i] = Columns[k]
    BY <2>2 DEF Order
  <2>4. f = Members[k] /\ vs[i].value = Kept(Word(role, k))
    BY <1>12, <2>2, <2>3
  <2>5. f = "m_player_name" <=> k = 3
    BY <2>4, NamePlace
  <2> QED
    BY <2>1, <2>4, <2>5 DEF Word
<1>17. MapToStruct(vs)
         = [f \in Member |->
               IF f = "m_player_name" THEN <<vs[CHOOSE i \in DOMAIN vs : vs[i].field = f].value>>
               ELSE vs[CHOOSE i \in DOMAIN vs : vs[i].field = f].value]
  BY <1>15 DEF MapToStruct
<1>18. MapToStruct(vs)
         = [f \in Member |-> IF f = "m_player_name" THEN <<Kept(NameWord(role))>> ELSE Kept(role[f])]
  BY <1>16, <1>17
<1> QED
  BY <1>1, <1>2, <1>7, <1>18 DEF Restored, KeptRole

LEMMA Orders == Order(Columns) /\ Order([i \in DOMAIN Columns |-> Columns[8 - i]])
<1>1. Columns = [i \in Places |-> Columns[i]]
  BY DEF Columns, Places
<1>2. Order(Columns)
  BY <1>1 DEF Order
<1>3. PICK o : o = [i \in DOMAIN Columns |-> Columns[8 - i]]
  OBVIOUS
<1>4. o = [i \in Places |-> Columns[8 - i]]
  BY <1>3, ColumnNames
<1>5. \A i \in Places : 8 - i \in Places /\ 8 - (8 - i) = i
  BY DEF Places
<1>6. \A i \in Places : o[i] = Columns[8 - i] /\ o[8 - i] = Columns[i]
  BY <1>4, <1>5
<1>7. o = [i \in Places |-> o[i]]
  BY <1>4
<1>8. Order(o)
  BY <1>5, <1>6, <1>7 DEF Order
<1> QED
  BY <1>2, <1>3, <1>8

LEMMA KeptNumbers ==
  ASSUME NEW role, Numbered(role), NEW f \in Member, f # "m_player_name"
  PROVE  Kept(role[f]) = role[f]
BY DEF Numbered, Plain, Kept

\* Saving a role with one word for a name saves that word, and the rest as it is.
LEMMA SavedAgain ==
  ASSUME NEW role, NEW again, NEW w, w = NameWord(role),
         again = [f \in Member |-> IF f = "m_player_name" THEN <<w>> ELSE role[f]]
  PROVE  StructToMap(again) = StructToMap(role)
<1>1. ASSUME NEW i \in Places PROVE Word(again, i) = Word(role, i)
  <2>1. Members[i] \in Member /\ "m_player_name" \in Member
    BY MemberNames, NamePlace DEF Places
  <2>2. CASE i = 3
    <3>1. again["m_player_name"] = <<w>>
      BY <2>1
    <3>2. <<w>> # << >> /\ Head(<<w>>) = w
      OBVIOUS
    <3> QED
      BY <2>2, <3>1, <3>2 DEF Word, NameWord
  <2>3. CASE i # 3
    BY <2>1, <2>3, NamePlace DEF Word
  <2> QED
    BY <2>2, <2>3
<1>2. \A i \in Places : Word(again, i) = Word(role, i)
  BY <1>1
<1> QED
  BY <1>2, SavedIs

\* A role whose name both databases keep, whatever else is in its members and however many
\* words the name has, comes back from redis and MySQL as it was, with one word for its
\* name, and saving it once more changes nothing; one whose name MySQL takes keeps all its
\* other members (DESCRIBE_FIELD, RedisSetHash, InsertRowToMysql, UpdateRowMysql,
\* MysqlRowDataToNosql, DESCRIBE_FIELD2).
THEOREM RoleIsKept ==
  ASSUME NEW role, IsRole(role), Numbered(role), NEW row
  PROVE  RoleKept(role, row)
<1>1. PICK w : w = NameWord(role)
  OBVIOUS
<1>2. PICK saved : saved = HashOfValues(StructToMap(role))
  OBVIOUS
<1>3. ASSUME NEW order, Order(order), RedisText(w) \notin Quoted
      PROVE  MapToStruct(HashOfValues(ValuesOfRow(RowOfValues(row, saved), order)))
                = [f \in Member |-> IF f = "m_player_name" THEN <<Kept(w)>> ELSE role[f]]
  <2>1. ~Refuses(saved)
    BY <1>1, <1>2, <1>3, RowIsTaken
  <2>2. MapToStruct(HashOfValues(ValuesOfRow(RowOfValues(row, saved), order)))
           = [f \in Member |-> IF f = "m_player_name" THEN <<Kept(w)>> ELSE Kept(role[f])]
    <3>1. ~Refuses(HashOfValues(StructToMap(role)))
      BY <1>2, <2>1
    <3>2. Restored(role, row, order) = KeptRole(role)
      BY <1>3, <3>1, RestoredIs
    <3> QED
      BY <1>1, <1>2, <3>2 DEF Restored, KeptRole
  <2>3. \A f \in Member : f # "m_player_name" => Kept(role[f]) = role[f]
    BY KeptNumbers
  <2> QED
    BY <2>2, <2>3
<1>4. ASSUME NEW order \in {Columns, [i \in DOMAIN Columns |-> Columns[8 - i]]},
             NEW restored,
             restored = MapToStruct(HashOfValues(ValuesOfRow(RowOfValues(row, saved), order)))
      PROVE  /\ Plain(w) => /\ restored = [role EXCEPT !["m_player_name"] = <<w>>]
                            /\ HashOfValues(StructToMap(restored)) = saved
             /\ RedisText(w) \notin Quoted =>
                    DOMAIN restored = Member /\ \A f \in Member \ {"m_player_name"} : restored[f] = role[f]
  <2>1. Order(order)
    BY Orders
  <2>2. ASSUME RedisText(w) \notin Quoted
        PROVE  restored = [f \in Member |-> IF f = "m_player_name" THEN <<Kept(w)>> ELSE role[f]]
    BY <1>3, <1>4, <2>1, <2>2
  <2>3. ASSUME Plain(w)
        PROVE  /\ restored = [role EXCEPT !["m_player_name"] = <<w>>]
               /\ HashOfValues(StructToMap(restored)) = saved
    <3>1. RedisText(w) \notin Quoted /\ Kept(w) = w
      BY <2>3 DEF Plain, Kept
    <3>2. restored = [f \in Member |-> IF f = "m_player_name" THEN <<w>> ELSE role[f]]
      BY <2>2, <3>1
    <3>3. restored = [role EXCEPT !["m_player_name"] = <<w>>]
      BY <3>2 DEF IsRole
    <3>4. StructToMap(restored) = StructToMap(role)
      BY <1>1, <3>2, SavedAgain
    <3> QED
      BY <1>2, <3>3, <3>4
  <2> QED
    BY <2>2, <2>3
<1> QED
  BY <1>1, <1>2, <1>4 DEF RoleKept

\* So are the roles of the model.
THEOREM RecordIsFaithful == Spec => []RecordFaithful
<1>1. ASSUME NEW role \in SampleRoles PROVE IsRole(role) /\ Numbered(role)
  <2>1. PICK id \in {"1", "72057"}, user \in {"11", "12"}, level \in {"0", "9"} :
          \E name : role = NewRole(id, user, name, level)
    BY DEF SampleRoles
  <2>2. PICK name : role = NewRole(id, user, name, level)
    BY <2>1
  <2>3. IsRole(role)
    BY <2>2 DEF NewRole, IsRole
  <2>4. ASSUME NEW f \in Member, f # "m_player_name" PROVE role[f] \in Numeral
    BY <2>2, <2>4 DEF NewRole, Numeral
  <2> QED
    BY <2>3, <2>4, NumeralAssumption DEF Numbered
<1>2. RecordFaithful
  BY <1>1, RoleIsKept DEF RecordFaithful
<1> QED
  BY <1>2, PTL
=============================================================================
