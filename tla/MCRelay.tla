------------------------------- MODULE MCRelay ------------------------------
(* A model-checking instance of Relay: a request of every kind, messages of  *)
(* every class, and what Http says of the other port of the logic server.    *)
EXTENDS Relay, Http

Login(key) ==
    [cmd |-> "PRE_LOGIN_CMD",
     msg |-> [account |-> "ann", userId |-> 7, serverId |-> 1, checkKey |-> key]]

MCRequest ==
    {Login("md5"), Login("bad"),
     [cmd |-> "CREATE_ROLE_CMD", msg |-> [playerName |-> "", playerJob |-> 2]],
     [cmd |-> "ENTER_GAME_CMD", msg |-> [playerOnlyId |-> 3]],
     [cmd |-> "CLIENT_READY_CMD", msg |-> Clear],
     [cmd |-> "MOVE_CMD", msg |-> [curx |-> 1, cury |-> 0, pixelx |-> 5]],
     [cmd |-> "CHAT_CMD",
      msg |-> [chatType |-> 2, fromPlayerOnlyId |-> 3, chatMsg |-> "hi",
               info |-> <<[sendTime |-> 1], Clear>>]],
     [cmd |-> "USERLOGIN_CMD", msg |-> Clear], [cmd |-> "HEART_CMD", msg |-> Clear]}

\* A message of c with every field set, the numbers to v: lists hold two elements.
RECURSIVE Full(_, _)
Full(c, v) ==
    LET value(row) == CASE row.type = "int" -> v
                        [] row.type = "string" -> IF v = 0 THEN "" ELSE "text"
                        [] OTHER -> Full(row.type, v)
    IN  [f \in {Schema[c][n].name : n \in Number(c)} |->
            LET row == Schema[c][CHOOSE n \in Number(c) : Schema[c][n].name = f]
            IN  IF row.repeated THEN <<value(row), Clear>> ELSE value(row)]

\* Full messages, what is left of them when a field is missing, and single fields.
MCSample(c) ==
    LET full == {Full(c, v) : v \in {0, 1}}
    IN  {Clear} \cup full
        \cup {Restrict(m, {f}) : m \in full, f \in DOMAIN Full(c, 0)}
        \cup {Restrict(m, DOMAIN m \ {f}) : m \in full, f \in DOMAIN Full(c, 0)}

\* Two requests on one HTTP connection are answered in order and each for itself, wherever
\* the bytes are cut, and the second one not after the first closed the connection.  The
\* second has to wait for another piece when it came with the end of the first, and of its
\* body only what came with the end of its headers is sent back (onLibMessageCallback).
AnsweredInOrder ==
    asked = << >> /\ ~started => \A r1 \in Bodyless, r2 \in Bodyless \cup {Post} : Answered(r1, r2)

\* An HTTP request line that does not parse is refused once, by a response that is the last
\* on the connection, whatever else comes.  When its method was a known one the next piece
\* ends the process (setMethod's assertion, http_server.cpp's processRequestLine).
RefusedOnce ==
    asked = << >> /\ ~started => \A r1 \in Bad, r2 \in Bodyless : Refused(r1, r2)
=============================================================================
