----------------------------- MODULE Persistence ----------------------------
(***************************************************************************)
(* The logic server (GameData), the database gateway (DbGateway), redis    *)
(* between them and MySQL behind, with their crashes.  Any process may be  *)
(* stopped between two commands and started again; redis may come back     *)
(* with its data or empty, and breaks the connections of both.             *)
(* MaxFaults bounds the faults of a behaviour: crashes, restarts of redis, *)
(* and meetings of the game's two threads in g_stream.                     *)
(***************************************************************************)
EXTENDS GameData, DbGateway, RoleRecord

CONSTANTS MaxFaults     \* bound on crashes and restarts of redis

ASSUME FaultAssumption == MaxFaults \in Nat

VARIABLES faults,       \* how many there were
          lost,         \* redis once came back empty
          garbled,      \* g_count was once saved as something else
          given,        \* the highest id that was ever handed out
          forgotten     \* redis was once left with less than that

vars == <<redisVars, gameVars, gatewayVars, faults, lost, garbled, given, forgotten>>

Init ==
    /\ RedisInit /\ GameInit /\ GatewayInit
    /\ faults = 0 /\ lost = FALSE /\ garbled = FALSE
    /\ given = 0 /\ forgotten = FALSE

Number(v) == IF v = None THEN 0 ELSE v

ThreadsMeet ==
    \/ mixed' /\ ~mixed
    \/ hash'[CountKey] = Garbage /\ hash[CountKey] # Garbage

Game ==
    /\ GameStep
    /\ garbled' = (garbled \/ hash'[CountKey] = Garbage)
    /\ given' = IF gpc # "down" /\ gCount' # gCount /\ given < gCount' THEN gCount' ELSE given
    /\ faults' = IF ThreadsMeet THEN faults + 1 ELSE faults
    /\ faults' <= MaxFaults
    /\ UNCHANGED <<gatewayVars, lost, forgotten>>

\* The start copy may put a count back that is older than the one redis has.
Gateway ==
    /\ GatewayStep
    /\ forgotten' = (forgotten \/ Number(hash'[CountKey]) # Number(hash[CountKey]))
    /\ UNCHANGED <<gameVars, faults, lost, garbled, given>>

\* A crash without a cause counts as a fault, one for want of a connection does not.  With
\* the process goes the count that was not saved yet.
GameCrash ==
    /\ GameEnds
    /\ faults' = IF gconn THEN faults + 1 ELSE faults
    /\ faults' <= MaxFaults
    /\ forgotten' = (forgotten \/ Number(hash[CountKey]) # gCount)
    /\ UNCHANGED <<gatewayVars, lost, garbled, given>>

GatewayCrash ==
    /\ GatewayEnds
    /\ faults' = IF dconn THEN faults + 1 ELSE faults
    /\ faults' <= MaxFaults
    /\ UNCHANGED <<gameVars, lost, garbled, given, forgotten>>

RedisFails ==
    /\ faults < MaxFaults
    /\ faults' = faults + 1
    /\ RedisRestart
    /\ lost' = (lost \/ hash' # hash)
    /\ gconn' = FALSE /\ dconn' = FALSE
    /\ UNCHANGED <<gCount, cache, gpc, gid, grole, mixed, torn>>
    /\ UNCHANGED <<rows, dpc, table, result, keys, record, garbled, given, forgotten>>

Next == Game \/ Gateway \/ GameCrash \/ GatewayCrash \/ RedisFails

\* The gateway is started again and works on, until it reads a reply it did not get;
\* nothing makes the game do anything.
Spec == Init /\ [][Next]_vars /\ WF_vars(Gateway) /\ WF_vars(NullReply /\ GatewayCrash)

-----------------------------------------------------------------------------
(* Properties.                                                             *)

TypeOK ==
    /\ RedisTypeOK /\ GameTypeOK /\ GatewayTypeOK
    /\ faults \in 0 .. MaxFaults /\ lost \in BOOLEAN /\ garbled \in BOOLEAN
    /\ given \in Count /\ forgotten \in BOOLEAN

\* MySQL is not ahead of redis, nor redis of the running server.
CopiesOrdered ==
    /\ Number(rows[CountKey]) <= Number(hash[CountKey])
    /\ gpc # "down" => Number(hash[CountKey]) <= gCount

\* The next id is above all that were handed out, or would be if the server were started
\* now.
NextIsFresh == given <= IF gpc = "down" THEN Number(hash[CountKey]) ELSE gCount

\* As long as redis has kept its data and g_count was saved as it is, MySQL is never ahead
\* of redis nor redis of the running server; and no id is handed out twice (get_next_obj_id)
\* unless the server ended with a count it had not saved, or a start copy of the gateway
\* has taken the count in redis back.
CountOrder ==
    ~lost /\ ~garbled => CopiesOrdered /\ (~forgotten => NextIsFresh)

\* Every role in redis is in the list its user is shown, unless its creation was cut
\* short or redis has lost the lists: also after its id was handed out again and after
\* the gateway has put an older owner back.
RolesListed ==
    ~lost => \A id \in Id :
        \/ hash[id] = None
        \/ id \in torn
        \/ gpc = "list" /\ id = gid
        \/ id \in sets["m_user_id"][UserOf[hash[id]]]

\* A gateway past its start copy has a redis that holds all MySQL has.
Refilled ==
    dconn /\ dpc \in {"keys", "copy", "write"} =>
        \A k \in Key : rows[k] # None => hash[k] # None

\* What stands in redis comes to stand in MySQL, unless something else takes its place,
\* the gateway loses redis, or MySQL does not take the role's name.
RowPersisted ==
    /\ \A id \in Id, role \in Role \ Refused :
        (hash[id] = role /\ dconn) ~> (rows[id] = role \/ hash[id] # role \/ ~dconn)
    /\ \A n \in Count :
        (hash[CountKey] = n /\ dconn) ~> (rows[CountKey] = n \/ hash[CountKey] # n \/ ~dconn)

\* Every role goes through redis and MySQL as RoleKept says, whichever role had the row
\* before.  This is about no state, and looked at before the first step.
RecordFaithful ==
    gpc = "down" /\ dpc = "down" /\ faults = 0 =>
        \A role, old \in SampleRoles :
            RoleKept(role, RowOfValues(<< >>, HashOfValues(StructToMap(old))))
=============================================================================
