------------------------------ MODULE TowerAoi ------------------------------
(***************************************************************************)
(* The area-of-interest grid of a map (tower_aoi.h, tower_aoi.cpp).  The   *)
(* map is cut into towers of TowerW x TowerH cells.  A tower lists the     *)
(* objects that stand in it and the watchers that have it in view: those   *)
(* whose own tower is at most ViewTW columns and ViewTH rows away.         *)
(***************************************************************************)
EXTENDS Integers

CONSTANTS Width, Height,    \* m_weight, m_hight: cells of the map
          TowerW, TowerH,   \* m_tower_weight, m_tower_hight
          ViewW, ViewH,     \* m_view_weight, m_view_hight, in cells
          Outside,          \* bound: the positions outside the map that are looked at
          Obj               \* object ids

\* InitTowers rounds every division up.
CeilDiv(a, b) == (a + b - 1) \div b

XN == CeilDiv(Width, TowerW)        \* m_towerXN
YN == CeilDiv(Height, TowerH)       \* m_towerYN
ViewTW == CeilDiv(ViewW, TowerW)    \* m_tower_view_weight
ViewTH == CeilDiv(ViewH, TowerH)    \* m_tower_view_hight

\* The one map there is has as many towers across as down.  TowerId relies on it: it
\* multiplies the row by the number of rows.
ASSUME GridAssumption ==
    /\ Width \in Nat \ {0} /\ Height \in Nat \ {0}
    /\ TowerW \in Nat \ {0} /\ TowerH \in Nat \ {0}
    /\ ViewW \in Nat /\ ViewH \in Nat
    /\ \A p \in Outside : DOMAIN p = {"x", "y"} /\ p.x \in Int /\ p.y \in Int
    /\ XN = YN

Cell == [x : 0 .. Width - 1, y : 0 .. Height - 1]

\* Coordinates are the clients', and nothing keeps them to the cells of the map.
Point == Cell \cup Outside

Tower == [x : 0 .. XN - 1, y : 0 .. YN - 1]

TowerId(t) == t.y * YN + t.x

Ids == 0 .. XN * YN - 1

\* The quotient of C++, for b > 0: it is cut off towards zero.
Quotient(a, b) == IF a < 0 THEN -((-a) \div b) ELSE a \div b

CellToTower(p) == [x |-> Quotient(p.x, TowerW), y |-> Quotient(p.y, TowerH)]

\* Variant with a fault: the last column and row are left out.
ViewTowersShort(t) ==
    {s \in Tower : /\ t.x - ViewTW <= s.x /\ s.x < t.x + ViewTW
                   /\ t.y - ViewTH <= s.y /\ s.y < t.y + ViewTH}

\* The area around a tower, clipped to the map.
ViewTowers(t) ==
    {s \in Tower : /\ t.x - ViewTW <= s.x /\ s.x < t.x + ViewTW + 1
                   /\ t.y - ViewTH <= s.y /\ s.y < t.y + ViewTH + 1}

\* The id of a position's tower.  That of a position outside the map may be another's.
At(p) == TowerId(CellToTower(p))

\* The loops over the area end: its left is clipped at zero only and its right at the
\* map's end only, and they run until they meet.
AreaInOrder(t) == /\ 0 <= t.x + ViewTW + 1 /\ t.x - ViewTW <= XN
                  /\ 0 <= t.y + ViewTH + 1 /\ t.y - ViewTH <= YN

\* The positions for which MoveWatcher and GetGridInfo, which looks at nothing to the
\* right of the map or below it, read and write only what there is.
Reach == {p \in Point : /\ p.x < Width /\ p.y < Height => p.y * Width + p.x >= 0
                        /\ At(p) \in Ids
                        /\ AreaInOrder(CellToTower(p))}

\* The ids of the towers one there has in view.
Sees == UNION {{<<p, TowerId(t)>> : t \in ViewTowers(CellToTower(p))} : p \in Reach}

InView(p) == {i \in Ids : <<p, i>> \in Sees}

-----------------------------------------------------------------------------

VARIABLES objs,             \* m_objs of each of m_towers
          watchers          \* m_watchers of each of m_towers

towerVars == <<objs, watchers>>

TowersInit ==
    /\ objs = [i \in Ids |-> {}]
    /\ watchers = [i \in Ids |-> {}]

\* The watcher list AddWatcher returns is that of the tower, before o is added to it.
AddWatcher(o, p) ==
    /\ objs' = [objs EXCEPT ![At(p)] = @ \cup {o}]
    /\ LET seen == InView(p)
       IN  watchers' = [i \in Ids |-> IF i \in seen THEN watchers[i] \cup {o} ELSE watchers[i]]

WatchersAt(p) == watchers[At(p)]

DelWatcher(o, p) ==
    /\ objs' = [objs EXCEPT ![At(p)] = @ \ {o}]
    /\ LET seen == InView(p)
       IN  watchers' = [i \in Ids |-> IF i \in seen THEN watchers[i] \ {o} ELSE watchers[i]]

\* Variant with a fault: what was seen from the old tower stays watched.
MoveWatcherKeeping(o, from, to) ==
    IF CellToTower(from) = CellToTower(to)
    THEN UNCHANGED towerVars
    ELSE /\ objs' = [objs EXCEPT ![At(from)] = @ \ {o}, ![At(to)] = @ \cup {o}]
         /\ LET sees == InView(to)
            IN  watchers' = [i \in Ids |-> IF i \in sees THEN watchers[i] \cup {o}
                                                         ELSE watchers[i]]

\* A move inside a tower changes nothing.
MoveWatcher(o, from, to) ==
    IF CellToTower(from) = CellToTower(to)
    THEN UNCHANGED towerVars
    ELSE /\ objs' = [objs EXCEPT ![At(from)] = @ \ {o}, ![At(to)] = @ \cup {o}]
         /\ LET seen == InView(from)
                sees == InView(to)
            IN  watchers' = [i \in Ids |-> IF i \in sees THEN watchers[i] \cup {o}
                                           ELSE IF i \in seen THEN watchers[i] \ {o}
                                           ELSE watchers[i]]

\* The watchers of a tower when o has left those it saw from where it was.
Others(o, from, i) == IF i \in InView(from) THEN watchers[i] \ {o} ELSE watchers[i]

\* The watchers a move brings near, winsert, and leaves behind, wremove: MoveOject
\* compares the lists of the two towers.
WatchersGained(o, from, to) ==
    IF CellToTower(from) = CellToTower(to) THEN {}
    ELSE Others(o, from, At(to)) \ Others(o, from, At(from))

\* Variant with a fault: the two lists are swapped.
WatchersLostSwapped(o, from, to) ==
    IF CellToTower(from) = CellToTower(to) THEN {}
    ELSE Others(o, from, At(to)) \ Others(o, from, At(from))

WatchersLost(o, from, to) ==
    IF CellToTower(from) = CellToTower(to) THEN {}
    ELSE Others(o, from, At(from)) \ Others(o, from, At(to))
=============================================================================
