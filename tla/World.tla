------------------------------- MODULE World --------------------------------
(***************************************************************************)
(* The logic server's players: the data cache (data_cache.cpp), the login  *)
(* and map modules that work on it (login_module.cpp, map_module.cpp) and  *)
(* the towers of the map.  One thread, the main logic thread, handles one  *)
(* message at a time, so each message handler is one action.               *)
(*                                                                         *)
(* Each player keeps a view list, the players his client shows.  It is     *)
(* maintained by differences: whoever comes near is added on both sides,   *)
(* whoever goes is deleted on both sides, and nothing ever compares the    *)
(* lists with the positions.                                               *)
(***************************************************************************)
EXTENDS TowerAoi, FiniteSets

CONSTANTS User,         \* user ids
          MaxView,      \* MAX_VIEW_COUNT
          Orderly       \* whether clients keep to the order of a game session

\* Ids are 64-bit numbers, so there are finitely many.
ASSUME WorldAssumption ==
    /\ Obj \subseteq Nat \ {0} /\ IsFiniteSet(Obj)
    /\ User \subseteq Nat \ {0}
    /\ MaxView \in Nat
    /\ Orderly \in BOOLEAN

\* The one map there is has 100 cells each way: players start on it.
ASSUME MapAssumption == Width > 1 /\ Height > 1

VARIABLES owner,        \* the roles in the database: the user of each, 0 if there is none
          loaded,       \* the keys of m_player_data_cache
          userObj,      \* m_user_object_id_hash, 0 where there is no entry
          loc,          \* m_location
          view,         \* m_view_object_set
          ready,        \* the users whose client has sent CLIENT_READY_CMD
          screen,       \* what each user's client shows: the players and where they are
          strayed       \* history: the roles that were ever moved out of the map

vars == <<towerVars, owner, loaded, userObj, loc, view, ready, screen, strayed>>

\* Variant with a fault: sizes taken for the last coordinates.
StartPastEnd == [x |-> Width, y |-> Height]

\* Where PlayerData puts every player it makes: positions are not saved.
Start == [x |-> 1, y |-> 1]

Roles == {o \in Obj : owner[o] # 0}

Init ==
    /\ TowersInit
    /\ owner = [o \in Obj |-> 0]
    /\ loaded = {}
    /\ userObj = [u \in User |-> 0]
    /\ loc = [o \in Obj |-> Start]
    /\ view = [o \in Obj |-> {}]
    /\ ready = {}
    /\ screen = [u \in User |-> [q \in {} |-> Start]]
    /\ strayed = {}

-----------------------------------------------------------------------------
(* The data cache.                                                         *)

\* AddPlayerData.  insert leaves an entry of the user's that is there already.
AddPlayerData(o, user) ==
    /\ loaded' = loaded \cup {o}
    /\ userObj' = [userObj EXCEPT ![user] = IF @ = 0 THEN o ELSE @]
    /\ UNCHANGED <<loc, view>>

\* Variant with a fault: the user's entry stays.
DelPlayerDataOnly(o, v) ==
    /\ loaded' = loaded \ {o}
    /\ loc' = [loc EXCEPT ![o] = Start]
    /\ view' = [v EXCEPT ![o] = {}]
    /\ UNCHANGED userObj

\* DelPlayerData of a player the view lists v know of.  What was kept about him is gone.
DelPlayerData(o, v) ==
    /\ loaded' = loaded \ {o}
    /\ userObj' = [userObj EXCEPT ![owner[o]] = 0]
    /\ loc' = [loc EXCEPT ![o] = Start]
    /\ view' = [v EXCEPT ![o] = {}]

-----------------------------------------------------------------------------
(* The view lists, v before a change.                                      *)

\* Variant with a fault: there need not be room on the other's list.
AddableAnyway(v, o, list) == {t \in list : t \notin v[o] /\ t \in loaded}

\* SendAddViewPlayers goes through list in ascending order.  A player is taken on both
\* lists while there is room on both, and until o is on its own list.
Addable(v, o, list) ==
    {t \in list : t \notin v[o] /\ t \in loaded /\ Cardinality(v[t]) < MaxView}

Added(v, o, list) ==
    LET able == Addable(v, o, list)
    IN  {t \in able : LET before == {s \in able : s < t}
                      IN  /\ o \notin v[o] \cup before
                          /\ Cardinality(v[o] \cup before) < MaxView}

Add(v, o, list) ==
    LET new == Added(v, o, list)
    IN  [t \in Obj |-> IF t = o THEN v[t] \cup new
                       ELSE IF t \in new THEN v[t] \cup {o} ELSE v[t]]

\* Variant with a fault: only o's own list.
DelOneSided(v, o, list) == [v EXCEPT ![o] = @ \ list]

\* SendDelViewPlayers takes who is on o's list off it, and o off theirs.
Del(v, o, list) ==
    LET gone == list \cap v[o]
    IN  [t \in Obj |-> IF t = o THEN v[t] \ gone
                       ELSE IF t \in gone THEN v[t] \ {o} ELSE v[t]]

-----------------------------------------------------------------------------
(* What the clients are sent with it, and show.  Each message goes to the  *)
(* user the player is saved for, and reaches his client.                   *)

\* DELOBJ_CMD.
ShowDel(s, v, o, list) ==
    LET gone == list \cap v[o]
        out(u) == {q \in gone : owner[o] = u}
                  \cup {q \in {o} : \E t \in gone : owner[t] = u /\ o \in v[t]}
    IN  [u \in User |-> [q \in DOMAIN s[u] \ out(u) |-> s[u][q]]]

\* SendMoveViewPlayers: MOVE_ACK to those on o's list.
ShowMove(s, v, o, to) ==
    [u \in User |-> [q \in DOMAIN s[u] |->
        IF q = o /\ \E t \in v[o] \cap loaded : owner[t] = u THEN to ELSE s[u][q]]]

\* Variant with a fault: a player is announced where he came from.
ShowAddBefore(s, v, o, list, at) ==
    LET new == Added(v, o, list)
        in(u) == {q \in new : owner[o] = u} \cup {q \in {o} : \E t \in new : owner[t] = u}
    IN  [u \in User |-> [q \in DOMAIN s[u] \cup in(u) |-> IF q \in in(u) THEN loc[q] ELSE s[u][q]]]

\* ADDOBJ_CMD, with o's position as it is now.
ShowAdd(s, v, o, list, at) ==
    LET new == Added(v, o, list)
        in(u) == {q \in new : owner[o] = u} \cup {q \in {o} : \E t \in new : owner[t] = u}
    IN  [u \in User |-> [q \in DOMAIN s[u] \cup in(u) |->
            IF q \in in(u) THEN (IF q = o THEN at ELSE loc[q]) ELSE s[u][q]]]

-----------------------------------------------------------------------------
(* The messages of a user's client, and of the gateway for him.            *)

\* CREATE_ROLE_CMD: the next object id, entered in the cache and saved.
CreateRole(u) ==
    /\ Orderly => u \notin ready
    /\ \E o \in Obj \ Roles :
          /\ \A q \in Obj \ Roles : o <= q
          /\ AddPlayerData(o, u)
          /\ owner' = [owner EXCEPT ![o] = u]
    /\ UNCHANGED <<towerVars, ready, screen, strayed>>

\* ENTER_GAME_CMD of a role that is not in the cache: it is read from the database, and
\* becomes that of the user it is saved for.  For one that is, it only answers.
EnterGame(u, o) ==
    /\ Orderly => u \notin ready /\ owner[o] = u
    /\ o \in Roles
    /\ IF o \in loaded
       THEN UNCHANGED <<loaded, userObj, loc, view>>
       ELSE AddPlayerData(o, owner[o])
    /\ UNCHANGED <<towerVars, owner, ready, screen, strayed>>

\* CLIENT_READY_CMD, AddUserToMap: the player appears on the map.
ClientReady(u) ==
    LET o == userObj[u] IN
    /\ Orderly => u \notin ready
    /\ ready' = ready \cup {u}
    /\ IF o \in loaded
       THEN /\ AddWatcher(o, loc[o])
            /\ view' = Add(view, o, WatchersAt(loc[o]))
            /\ screen' = ShowAdd(screen, view, o, WatchersAt(loc[o]), loc[o])
       ELSE UNCHANGED <<towerVars, view, screen>>
    /\ UNCHANGED <<owner, loaded, userObj, loc, strayed>>

\* MOVE_CMD, PlayerMove.  Every cell of the map can be walked on, and so can what is
\* outside: IsGridCanWalk does not look at what GetGridInfo returns.  Who is left behind
\* is deleted before who is met is added.
Move(u, to) ==
    LET o      == userObj[u]
        lost   == WatchersLost(o, loc[o], to)
        gained == WatchersGained(o, loc[o], to)
        left   == Del(view, o, lost)
    IN
    /\ Orderly => u \in ready /\ to \in Cell
    /\ o \in loaded
    /\ MoveWatcher(o, loc[o], to)
    /\ view' = Add(left, o, gained)
    /\ screen' = ShowAdd(ShowMove(ShowDel(screen, view, o, lost), left, o, to),
                         left, o, gained, to)
    /\ loc' = [loc EXCEPT ![o] = to]
    /\ strayed' = IF to \in Cell THEN strayed ELSE strayed \cup {o}
    /\ UNCHANGED <<owner, loaded, userObj, ready>>

\* USERLOGIN_CMD, LoginOut: the gateway reports that the user is gone.  The list
\* DelWatcher returns is that of the tower without the player himself.
LoginOut(u) ==
    LET o == userObj[u] IN
    /\ ready' = ready \ {u}
    /\ IF o \in loaded
       THEN /\ DelWatcher(o, loc[o])
            /\ DelPlayerData(o, Del(view, o, WatchersAt(loc[o]) \ {o}))
            /\ screen' = [ShowDel(screen, view, o, WatchersAt(loc[o]) \ {o})
                          EXCEPT ![u] = [q \in {} |-> Start]]
       ELSE UNCHANGED <<towerVars, loaded, userObj, loc, view, screen>>
    /\ UNCHANGED <<owner, strayed>>

Next ==
    \E u \in User :
        \/ CreateRole(u) \/ ClientReady(u) \/ LoginOut(u)
        \/ \E o \in Obj : EnterGame(u, o)
        \/ \E to \in Reach : Move(u, to)

Spec == Init /\ [][Next]_vars

-----------------------------------------------------------------------------
(* Properties.                                                             *)

OnMap == {o \in Obj : \E i \in Ids : o \in objs[i]}

TypeOK ==
    /\ objs \in [Ids -> SUBSET Obj] /\ watchers \in [Ids -> SUBSET Obj]
    /\ owner \in [Obj -> User \cup {0}]
    /\ loaded \subseteq Obj
    /\ userObj \in [User -> Obj \cup {0}]
    /\ loc \in [Obj -> Reach]
    /\ view \in [Obj -> SUBSET Obj]
    /\ ready \subseteq User
    /\ \A u \in User : DOMAIN screen[u] \subseteq Obj /\ \A q \in DOMAIN screen[u] : screen[u][q] \in Reach
    /\ strayed \subseteq Obj

\* A user's entry leads to a player in the cache who is his.
UserHasPlayer ==
    \A u \in User : userObj[u] # 0 => userObj[u] \in loaded /\ owner[userObj[u]] = u

\* The towers know each player of the map where he is and nowhere else, and have him
\* watch what he has in view and nothing else, whatever he did before, moves out of the
\* map and back included: no ghost stays in a tower when a player moves on or logs out,
\* and a logged-out one is in none.
TowersTrack ==
    \A o \in Obj :
        \/ \A i \in Ids : o \notin objs[i] /\ o \notin watchers[i]
        \/ /\ o \in loaded
           /\ \A i \in Ids : /\ o \in objs[i] <=> i = At(loc[o])
                             /\ o \in watchers[i] <=> i \in InView(loc[o])

\* Of two players who have kept to the map both are on each other's list or neither is,
\* and one who has logged out is on no such list: although the cap, the order of the
\* list, repeated or early messages and players outside the map decide who is added.
ViewSymmetric ==
    \A o \in Obj \ strayed : \A q \in view[o] \ strayed : q \in loaded /\ o \in view[q]

\* Of two players who have kept to the map none is on the list of one who does not have
\* him in view, so everyone who shows him is told of each of his moves away.
ViewIsNear ==
    \A o \in Obj \ strayed : \A q \in view[o] \ (strayed \cup {o}) :
        {o, q} \subseteq OnMap /\ o \in watchers[At(loc[q])]

\* A view list never exceeds its cap, neither one's own nor another's.
ViewCapped == \A o \in Obj : Cardinality(view[o]) <= MaxView

\* With room for everyone, and clients that keep to the order and to the map, a player is
\* shown exactly the others of the map who have him in view.
ViewIsNeighbourhood ==
    \A o \in OnMap : view[o] = (OnMap \cap watchers[At(loc[o])]) \ {o}

\* Adding up the additions, moves and deletions he was sent, each client on the map shows
\* exactly the players on the list the server keeps for him, and each who also lists him
\* where he is: for all the messages that came early, twice or in the wrong order, and
\* for all the moves out of the map.
ScreenTrue ==
    \A o \in OnMap :
        LET shown == screen[owner[o]]
        IN  /\ DOMAIN shown = view[o]
            /\ \A q \in view[o] : o \in view[q] => shown[q] = loc[q]

\* What tower_aoi.h says of the lists: whoever is watched tells those who watch.  No
\* client on the map shows a player who has logged out.
NoGhost == \A o \in OnMap : DOMAIN screen[owner[o]] \subseteq loaded

\* A user who is told that his role has entered the game plays that role.
EnteredPlays ==
    [][\A u \in User, o \in Obj :
          EnterGame(u, o) /\ owner[o] = u => userObj'[u] = o]_vars
=============================================================================
