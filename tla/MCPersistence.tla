---------------------------- MODULE MCPersistence ---------------------------
(* Model-checking instances of Persistence: two users, a role of each, and  *)
(* one of the second user with a quote in its name.                         *)
EXTENDS Persistence

CONSTANTS Ann, Bob, ONeil

MCUserOf == [role \in Role |-> IF role = Ann THEN 11 ELSE 12]

\* A percent sign makes redisCommand print what happens to be there; a backslash goes.
MCRedisText(word) == IF word = "50%" THEN "500" ELSE word
MCSqlText(word) == IF word = "a\\b" THEN "ab" ELSE word
=============================================================================
