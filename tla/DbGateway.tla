------------------------------ MODULE DbGateway -----------------------------
(***************************************************************************)
(* The database gateway (db_gateway.cpp, db_gw_main.cpp): one thread that  *)
(* copies every table of MySQL into redis when it starts, and from then on *)
(* copies redis into MySQL every five minutes.  Of the configured tables   *)
(* two are ever written by the logic server; table2redis.xml names every   *)
(* column of both, so that no record is cut short.  A step is one command  *)
(* to redis, or to MySQL, which nobody else changes.  MySQL is there, and  *)
(* fails no statement but those whose quotes do not match.                 *)
(***************************************************************************)
EXTENDS RedisStore, Sequences

CONSTANTS Refused       \* the roles with a quote in the name: MySQL refuses the statement

ASSUME RefusedAssumption == Refused \subseteq Role

VARIABLES rows,         \* the row of each primary key in MySQL
          dpc,          \* where the gateway is; "down" before it is started
          table,        \* the table it is at: an index into Tables
          result,       \* resultset: what "select *" returned
          keys,         \* get_key: the keys still to be copied
          record,       \* the key and the values last read from redis
          dconn         \* the connection to redis works

gatewayVars == <<rows, dpc, table, result, keys, record, dconn>>

\* m_configs: player_data_table and temporary_record, in the order of the file.
Tables == <<Id, {CountKey}>>

NoRecord == [key |-> CountKey, value |-> None]

GatewayInit ==
    /\ rows = EmptyHash
    /\ dpc = "down" /\ table = 1
    /\ result = EmptyHash /\ keys = {} /\ record = NoRecord
    /\ dconn = FALSE

\* The constructor: configuration, MySQL, redis.
StartGateway ==
    /\ dpc = "down"
    /\ dpc' = "select" /\ table' = 1
    /\ dconn' = TRUE
    /\ UNCHANGED <<redisVars, rows, result, keys, record>>

-----------------------------------------------------------------------------
(* MysqlToRedis.                                                           *)

\* Variant with a fault: a table without rows ends the copy.
SelectRowsOrEnd ==
    /\ dpc = "select"
    /\ result' = [k \in Key |-> IF k \in Tables[table] THEN rows[k] ELSE None]
    /\ dpc' = IF result' = EmptyHash THEN "keys" ELSE "restore"
    /\ UNCHANGED <<redisVars, rows, table, keys, record, dconn>>

\* MysqlToNoSql reads the whole table; a table without rows is passed over.
SelectRows ==
    /\ dpc = "select"
    /\ result' = [k \in Key |-> IF k \in Tables[table] THEN rows[k] ELSE None]
    /\ dpc' = "restore"
    /\ UNCHANGED <<redisVars, rows, table, keys, record, dconn>>

\* MysqlRowDataToNosql: the bound columns of a role, then the record.  table2redis.xml binds
\* the user and the name; the set of the user is kept here.  These sets are named after
\* the column; nobody reads them.
RestoreRow(k) ==
    /\ dpc = "restore" /\ dconn
    /\ result[k] # None
    /\ IF k = CountKey THEN UNCHANGED sets ELSE RedisAddSet("user_id", UserOf[result[k]], k)
    /\ RedisSetHash(k, result[k])
    /\ result' = [result EXCEPT ![k] = None]
    /\ UNCHANGED <<rows, dpc, table, keys, record, dconn>>

NextTable ==
    /\ dpc = "restore" /\ result = EmptyHash
    /\ IF table = Len(Tables) THEN dpc' = "keys" /\ table' = 1
       ELSE dpc' = "select" /\ table' = table + 1
    /\ UNCHANGED <<redisVars, rows, result, keys, record, dconn>>

-----------------------------------------------------------------------------
(* RedisToMysql, every five minutes.                                       *)

\* A NULL reply to KEYS leaves the list empty, when freeReplyObject survives it.
GetAllKeys ==
    /\ dpc = "keys"
    /\ keys' = IF dconn THEN RedisGetAllKeys(Tables[table]) ELSE {}
    /\ dpc' = "copy"
    /\ UNCHANGED <<redisVars, rows, table, result, record, dconn>>

\* NosqlToMysqlByKeys: a record that has gone is passed over.
ReadRecord(k) ==
    /\ dpc = "copy" /\ dconn
    /\ k \in keys
    /\ keys' = keys \ {k}
    /\ record' = [key |-> k, value |-> RedisGetHashAll(k)]
    /\ dpc' = IF record'.value = None THEN "copy" ELSE "write"
    /\ UNCHANGED <<redisVars, rows, table, result, dconn>>

\* Variant with a fault: a row that exists is left as it is.
WriteRowOnce ==
    /\ dpc = "write"
    /\ rows' = [rows EXCEPT ![record.key] = IF @ = None /\ record.value \notin Refused THEN record.value ELSE @]
    /\ record' = NoRecord
    /\ dpc' = "copy"
    /\ UNCHANGED <<redisVars, table, result, keys, dconn>>

\* ValuesToMysql: "select count", then an update or an insert of all fields, if MySQL takes
\* it: that it does not is logged, and the next record is read.
WriteRow ==
    /\ dpc = "write"
    /\ rows' = [rows EXCEPT ![record.key] = IF record.value \in Refused THEN @ ELSE record.value]
    /\ record' = NoRecord
    /\ dpc' = "copy"
    /\ UNCHANGED <<redisVars, table, result, keys, dconn>>

TableCopied ==
    /\ dpc = "copy" /\ keys = {}
    /\ table' = IF table = Len(Tables) THEN 1 ELSE table + 1
    /\ dpc' = "keys"
    /\ UNCHANGED <<redisVars, rows, result, keys, record, dconn>>

\* HMSET and HGETALL read their reply, which is NULL without a connection.
NullReply ==
    /\ ~dconn
    /\ (dpc = "restore" /\ result # EmptyHash) \/ (dpc = "copy" /\ keys # {})

GatewayEnds ==
    /\ dpc # "down"
    /\ dpc' = "down" /\ table' = 1
    /\ result' = EmptyHash /\ keys' = {} /\ record' = NoRecord
    /\ dconn' = FALSE
    /\ UNCHANGED <<redisVars, rows>>

GatewayStep ==
    \/ StartGateway \/ SelectRows \/ NextTable \/ GetAllKeys \/ WriteRow \/ TableCopied
    \/ \E k \in Key : RestoreRow(k) \/ ReadRecord(k)

GatewayTypeOK ==
    /\ rows \in [Key -> Role \cup Count \cup {None, Garbage}]
    /\ result \in [Key -> Role \cup Count \cup {None, Garbage}]
    /\ dpc \in {"down", "select", "restore", "keys", "copy", "write"}
    /\ table \in 1 .. Len(Tables)
    /\ keys \subseteq Key
    /\ record \in [key : Key, value : Role \cup Count \cup {None, Garbage}]
    /\ dconn \in BOOLEAN
=============================================================================
