----------------------------- MODULE RoleRecord -----------------------------
(***************************************************************************)
(* A role's way as text: from the struct of the logic server into a hash   *)
(* of redis (define_logic_data.h), from there into a row of MySQL and back *)
(* (db_gateway.cpp), and into a struct again.  Numbers are words here; a   *)
(* name is a sequence of words, and blanks are what is between them.       *)
(*                                                                         *)
(* Both databases are given their values inside a text of their own: redis *)
(* in a command that redisCommand takes for a format, MySQL between two    *)
(* quotes.  Neither is ever escaped.  What comes of a word there is a      *)
(* constant: most words stay as they are; a percent sign does not survive  *)
(* redisCommand, nor a backslash a statement; and a statement with one     *)
(* quote too many is refused.                                              *)
(***************************************************************************)
EXTENDS Naturals, Sequences

CONSTANTS RedisText(_), \* what redisCommand makes of a word, if the process survives it
          SqlText(_),   \* what MySQL makes of a word between quotes
          Quoted        \* the words with a quote in them

Numeral == {"0", "1", "9", "11", "12", "72057"}

\* A word that both databases keep as it is; digits are such.
Plain(word) == RedisText(word) = word /\ SqlText(word) = word /\ word \notin Quoted

ASSUME NumeralAssumption == \A word \in Numeral : Plain(word)

\* The members of PlayerDataMsg and PlayerDataPreLogin, in the order they are described.
Members ==
    <<"m_object_id", "m_user_id", "m_player_name", "m_playerLevel", "m_playerJob",
      "m_playerCountry", "m_lastLoginTime">>

Member == {Members[i] : i \in DOMAIN Members}

Words(role, f) == IF f = "m_player_name" THEN role[f] ELSE <<role[f]>>

\* Variant with a fault: what >> leaves in the stream stays for the next member.
StructToMapKeeping(role) ==
    LET text[i \in 0 .. Len(Members)] ==
            IF i = 0 THEN << >>
            ELSE (IF text[i - 1] = << >> THEN << >> ELSE Tail(text[i - 1])) \o Words(role, Members[i])
    IN  [i \in DOMAIN Members |->
            [field |-> Members[i], value |-> IF text[i] = << >> THEN "" ELSE Head(text[i])]]

\* DESCRIBE_FIELD: >> takes the first word of what << put in; where there is none it
\* leaves struct_member with the value of the member before.
StructToMap(role) ==
    LET value[i \in 0 .. Len(Members)] ==
            IF i = 0 THEN ""
            ELSE IF Words(role, Members[i]) = << >> THEN value[i - 1]
            ELSE Head(Words(role, Members[i]))
    IN  [i \in DOMAIN Members |-> [field |-> Members[i], value |-> value[i]]]

\* DESCRIBE_FIELD2, for each member that is in the hash.
MapToStruct(values) ==
    [f \in {values[i].field : i \in DOMAIN values} |->
        LET v == values[CHOOSE i \in DOMAIN values : values[i].field = f].value
        IN  IF f = "m_player_name" THEN <<v>> ELSE v]

-----------------------------------------------------------------------------
(* The databases.                                                          *)

\* RedisSetHash: the fields of an HMSET, as they come to stand in redis.
HashOfValues(values) == [i \in DOMAIN values |-> [values[i] EXCEPT !.value = RedisText(@)]]

\* The columns table2redis.xml names for the members.
Columns ==
    <<"object_id", "user_id", "player_name", "playerLevel", "playerJob", "playerCountry",
      "lastLoginTime">>

GetTblFieldName(f) ==
    IF f \in Member THEN Columns[CHOOSE i \in DOMAIN Members : Members[i] = f] ELSE ""

GetObjFieldName(c) ==
    IF \E i \in DOMAIN Columns : Columns[i] = c
    THEN Members[CHOOSE i \in DOMAIN Columns : Columns[i] = c] ELSE ""

\* MySQL refuses the statement: NosqlToMysqlByKeys does not look at the result.
Refuses(values) == \E i \in DOMAIN values : values[i].value \in Quoted

\* InsertRowToMysql or UpdateRowMysql, executed where there was row before.  Every field
\* has a column.
RowOfValues(row, values) ==
    IF Refuses(values) THEN row
    ELSE [c \in {GetTblFieldName(values[i].field) : i \in DOMAIN values} |->
             SqlText(values[CHOOSE i \in DOMAIN values : GetTblFieldName(values[i].field) = c].value)]

\* MysqlRowDataToNosql of a row whose columns come in the given order.
ValuesOfRow(row, order) ==
    [i \in DOMAIN order |-> [field |-> GetObjFieldName(order[i]), value |-> row[order[i]]]]

-----------------------------------------------------------------------------

NewRole(id, user, name, level) ==
    [f \in Member |->
        CASE f = "m_object_id" -> id [] f = "m_user_id" -> user [] f = "m_player_name" -> name
          [] f = "m_playerLevel" -> level [] OTHER -> "0"]

\* Roles as clients make them; nothing keeps a name from being "o'neil" or "50%".
SampleRoles ==
    {NewRole(id, user, name, level) : id \in {"1", "72057"}, user \in {"11", "12"},
        name \in {<< >>, <<"ann", "lee">>, <<"11", "12", "9">>, <<"o'neil">>, <<"50%", "ann">>,
                   <<"a\\b">>},
        level \in {"0", "9"}}

\* Numbers are plain; a name is what the client sent.
Numbered(role) == \A f \in Member \ {"m_player_name"} : Plain(role[f])

\* The one word that is kept of a name.
NameWord(role) ==
    IF role["m_player_name"] = << >> THEN role["m_user_id"] ELSE Head(role["m_player_name"])

\* A role that was saved, written over another row and restored is the one that was, with
\* the first word of its name, or its user's number for a name that was empty; the order
\* of the columns does not matter, and saving it once more changes nothing.  That is so
\* for a name that is plain: of any other, as long as MySQL takes it, the rest of the role
\* is kept.
RoleKept(role, row) ==
    \A order \in {Columns, [i \in DOMAIN Columns |-> Columns[8 - i]]} :
        LET saved    == HashOfValues(StructToMap(role))
            restored == MapToStruct(HashOfValues(ValuesOfRow(RowOfValues(row, saved), order)))
        IN  /\ Plain(NameWord(role)) =>
                   /\ restored = [role EXCEPT !["m_player_name"] = <<NameWord(role)>>]
                   /\ HashOfValues(StructToMap(restored)) = saved
            /\ RedisText(NameWord(role)) \notin Quoted =>
                   /\ DOMAIN restored = Member
                   /\ \A f \in Member \ {"m_player_name"} : restored[f] = role[f]
=============================================================================
