---------------------------- MODULE WorldProofs -----------------------------
(***************************************************************************)
(* The players of the map, for a map, towers and a view of any size and    *)
(* any number of users and object ids.                                     *)
(***************************************************************************)
EXTENDS World, FiniteSetTheorems, WellFoundedInduction, TLAPS

-----------------------------------------------------------------------------
(* The grid.                                                               *)

\* What rounding up and down mean.
LEMMA DivFacts ==
  ASSUME NEW a \in Nat, NEW d \in Nat \ {0}
  PROVE  /\ a \div d \in Nat
         /\ d * (a \div d) <= a
         /\ a < d * (a \div d) + d
OBVIOUS

LEMMA CeilDivFacts ==
  ASSUME NEW a \in Nat, NEW d \in Nat \ {0}
  PROVE  CeilDiv(a, d) \in Nat /\ a <= d * CeilDiv(a, d)
<1>1. a + d - 1 \in Nat
  OBVIOUS
<1>2. /\ (a + d - 1) \div d \in Nat
      /\ a + d - 1 < d * ((a + d - 1) \div d) + d
  BY <1>1, DivFacts
<1> DEFINE q == (a + d - 1) \div d
<1>3. d * q \in Nat
  BY <1>2
<1> QED
  BY <1>2, <1>3 DEF CeilDiv

\* A coordinate of the map is in one of the towers.
LEMMA CoordinateInTower ==
  ASSUME NEW a \in Nat \ {0}, NEW d \in Nat \ {0}, NEW x \in 0 .. a - 1
  PROVE  x \div d \in 0 .. CeilDiv(a, d) - 1
<1> DEFINE q == x \div d
           n == CeilDiv(a, d)
<1>1. q \in Nat /\ d * q <= x
  BY DivFacts
<1>2. n \in Nat /\ a <= d * n
  BY CeilDivFacts
<1>3. d * q < d * n
  <2>1. d * q \in Nat /\ d * n \in Nat
    BY <1>1, <1>2
  <2> QED
    BY <1>1, <1>2, <2>1
<1>4. q < n
  <2> SUFFICES ASSUME n <= q PROVE FALSE
    BY <1>1, <1>2
  <2>1. q = n + (q - n) /\ q - n \in Nat
    BY <1>1, <1>2
  <2>2. d * q = d * n + d * (q - n) /\ d * (q - n) >= 0
    BY <1>2, <2>1
  <2> QED
    BY <1>1, <1>2, <1>3, <2>1, <2>2
<1> QED
  BY <1>1, <1>2, <1>4

LEMMA GridFacts ==
  /\ XN \in Nat /\ YN \in Nat /\ XN = YN
  /\ ViewTW \in Nat /\ ViewTH \in Nat
<1>1. \A a \in Nat, d \in Nat \ {0} : CeilDiv(a, d) \in Nat
  BY CeilDivFacts
<1> QED
  BY <1>1, GridAssumption DEF XN, YN, ViewTW, ViewTH

LEMMA TowerOfCell ==
  ASSUME NEW p \in Cell
  PROVE  CellToTower(p) \in Tower
<1>1. p.x \in 0 .. Width - 1 /\ p.y \in 0 .. Height - 1
  BY DEF Cell
<1>2. p.x \div TowerW \in 0 .. XN - 1
  BY <1>1, GridAssumption, CoordinateInTower DEF XN
<1>3. p.y \div TowerH \in 0 .. YN - 1
  BY <1>1, GridAssumption, CoordinateInTower DEF YN
<1>4. Quotient(p.x, TowerW) = p.x \div TowerW /\ Quotient(p.y, TowerH) = p.y \div TowerH
  BY <1>1, GridAssumption DEF Quotient
<1> QED
  BY <1>2, <1>3, <1>4 DEF Tower, CellToTower

\* A later row begins at least a whole row later.
LEMMA RowsApart ==
  ASSUME NEW n \in Nat, NEW a \in Nat, NEW b \in Nat, a < b
  PROVE  a * n + n <= b * n
<1>1. b = a + 1 + (b - a - 1) /\ b - a - 1 \in Nat
  OBVIOUS
<1>2. b * n = a * n + n + (b - a - 1) * n
  BY <1>1
<1>3. (b - a - 1) * n \in Nat /\ a * n \in Nat
  BY <1>1
<1> QED
  BY <1>2, <1>3

\* Each tower has an id of its own, because there are as many rows as columns.
LEMMA IdInjective ==
  ASSUME NEW s \in Tower, NEW t \in Tower, TowerId(s) = TowerId(t)
  PROVE  s = t
<1>1. /\ s.x \in 0 .. YN - 1 /\ s.y \in 0 .. YN - 1
      /\ t.x \in 0 .. YN - 1 /\ t.y \in 0 .. YN - 1
      /\ YN \in Nat
  BY GridFacts DEF Tower
<1>2. \A a, b \in Nat : a < b => a * YN + YN <= b * YN
  BY <1>1, RowsApart
<1>3. s.y * YN \in Nat /\ t.y * YN \in Nat /\ s.y * YN + s.x = t.y * YN + t.x
  BY <1>1 DEF TowerId
<1>4. ~ s.y < t.y /\ ~ t.y < s.y
  <2>1. s.y < t.y => s.y * YN + YN <= t.y * YN
    BY <1>1, <1>2
  <2>2. t.y < s.y => t.y * YN + YN <= s.y * YN
    BY <1>1, <1>2
  <2> QED
    BY <1>1, <1>3, <2>1, <2>2
<1>5. s.y = t.y /\ s.x = t.x
  BY <1>1, <1>3, <1>4
<1> QED
  BY <1>5 DEF Tower

LEMMA IdInRange ==
  ASSUME NEW t \in Tower
  PROVE  TowerId(t) \in Ids
<1>1. t.x \in 0 .. XN - 1 /\ t.y \in 0 .. YN - 1 /\ XN \in Nat /\ YN \in Nat /\ XN = YN
  BY GridFacts DEF Tower
<1>2. t.y * YN \in Nat /\ YN * YN \in Nat
  BY <1>1
<1>3. t.y * YN + YN <= YN * YN
  BY <1>1, RowsApart
<1> QED
  BY <1>1, <1>2, <1>3 DEF TowerId, Ids

\* The cells of the map are among the positions the code can deal with.
LEMMA CellInReach == Cell \subseteq Reach
<1> SUFFICES ASSUME NEW p \in Cell PROVE p \in Reach
  OBVIOUS
<1>1. p.x \in 0 .. Width - 1 /\ p.y \in 0 .. Height - 1
  BY DEF Cell
<1>2. p \in Point
  BY DEF Point
<1>3. p.y * Width + p.x >= 0
  <2>1. p.y \in Nat /\ Width \in Nat /\ p.x \in Nat
    BY <1>1, GridAssumption
  <2>2. p.y * Width \in Nat
    BY <2>1
  <2> QED
    BY <2>1, <2>2
<1>4. CellToTower(p) \in Tower
  BY TowerOfCell
<1>5. At(p) \in Ids
  BY <1>4, IdInRange DEF At
<1>6. AreaInOrder(CellToTower(p))
  <2>1. /\ CellToTower(p).x \in 0 .. XN - 1 /\ CellToTower(p).y \in 0 .. YN - 1
        /\ XN \in Nat /\ YN \in Nat /\ ViewTW \in Nat /\ ViewTH \in Nat
    BY <1>4, GridFacts DEF Tower
  <2> QED
    BY <2>1 DEF AreaInOrder
<1> QED
  BY <1>2, <1>3, <1>5, <1>6 DEF Reach

LEMMA AtInRange ==
  ASSUME NEW p \in Reach
  PROVE  At(p) \in Ids
BY DEF Reach

\* What is in view depends on the tower only.
LEMMA InViewTowers ==
  ASSUME NEW p \in Reach
  PROVE  InView(p) = {TowerId(t) : t \in ViewTowers(CellToTower(p))}
<1>1. \A i : <<p, i>> \in Sees <=> \E t \in ViewTowers(CellToTower(p)) : i = TowerId(t)
  BY DEF Sees
<1>2. \A t \in ViewTowers(CellToTower(p)) : TowerId(t) \in Ids
  BY IdInRange DEF ViewTowers
<1> QED
  BY <1>1, <1>2 DEF InView

LEMMA SameTower ==
  ASSUME NEW p \in Reach, NEW q \in Reach, CellToTower(p) = CellToTower(q)
  PROVE  At(p) = At(q) /\ InView(p) = InView(q)
BY InViewTowers DEF At

LEMMA InViewMeans ==
  ASSUME NEW p \in Cell, NEW q \in Cell
  PROVE  At(q) \in InView(p) <=> CellToTower(q) \in ViewTowers(CellToTower(p))
<1>1. \A t \in ViewTowers(CellToTower(p)) : t \in Tower
  BY DEF ViewTowers
<1> QED
  BY <1>1, InViewTowers, TowerOfCell, CellInReach, IdInjective DEF At

\* Two players on the map have each other in view or neither the other: the area around a
\* tower is as wide on either side, and the map's edge cuts off nobody.
LEMMA InViewSymmetric ==
  ASSUME NEW p \in Cell, NEW q \in Cell
  PROVE  At(q) \in InView(p) <=> At(p) \in InView(q)
<1>1. ASSUME NEW s \in Tower, NEW t \in Tower
      PROVE  s \in ViewTowers(t) <=> t \in ViewTowers(s)
  <2>1. /\ s.x \in Int /\ s.y \in Int /\ t.x \in Int /\ t.y \in Int
        /\ ViewTW \in Nat /\ ViewTH \in Nat
    BY GridFacts DEF Tower
  <2> QED
    BY <2>1 DEF ViewTowers
<1> QED
  BY <1>1, InViewMeans, TowerOfCell

-----------------------------------------------------------------------------
(* The view lists.                                                         *)

LEMMA AddedIn ==
  ASSUME NEW v, NEW o, NEW list
  PROVE  \A t \in Added(v, o, list) :
            /\ t \in list /\ t \in loaded /\ t \notin v[o] /\ o \notin v[o]
            /\ Cardinality(v[t]) < MaxView
BY DEF Added, Addable

LEMMA AddMembers ==
  ASSUME NEW v \in [Obj -> SUBSET Obj], NEW o \in Obj, NEW list \in SUBSET Obj
  PROVE  /\ Add(v, o, list) \in [Obj -> SUBSET Obj]
         /\ \A a, b \in Obj :
              b \in Add(v, o, list)[a] <=>
                 \/ b \in v[a]
                 \/ a = o /\ b \in Added(v, o, list)
                 \/ a \in Added(v, o, list) /\ b = o
<1>1. Added(v, o, list) \subseteq Obj
  BY AddedIn
<1> QED
  BY <1>1 DEF Add

LEMMA DelMembers ==
  ASSUME NEW v \in [Obj -> SUBSET Obj], NEW o \in Obj, NEW list \in SUBSET Obj
  PROVE  /\ Del(v, o, list) \in [Obj -> SUBSET Obj]
         /\ \A a, b \in Obj :
              b \in Del(v, o, list)[a] <=>
                 /\ b \in v[a]
                 /\ ~(a = o /\ b \in list)
                 /\ ~(a \in list \cap v[o] /\ b = o)
BY DEF Del

\* A finite set of numbers that is not empty has a greatest: of its upper ends, ordered
\* by inclusion, one is least.
LEMMA GreatestMember ==
  ASSUME NEW S, S \subseteq Nat, IsFiniteSet(S), S # {}
  PROVE  \E m \in S : \A s \in S : s <= m
<1> DEFINE End(t) == {s \in S : t <= s}
           Ends == {End(t) : t \in S}
<1>1. IsWellFoundedOn(StrictSubsetOrdering(S), FiniteSubsetsOf(S))
  BY FS_StrictSubsetOrderingWellFounded
<1>2. Ends \subseteq FiniteSubsetsOf(S) /\ Ends # {}
  <2>1. \A t \in S : End(t) \subseteq S /\ IsFiniteSet(End(t))
    BY FS_Subset
  <2> QED
    BY <2>1 DEF FiniteSubsetsOf
<1>3. PICK x \in Ends : \A y \in Ends : <<y, x>> \notin StrictSubsetOrdering(S)
  <2> HIDE DEF Ends
  <2> QED
    BY <1>1, <1>2, WFMin
<1>4. PICK m \in S : x = End(m)
  BY <1>3
<1>5. ASSUME NEW s \in S, ~ s <= m
      PROVE  FALSE
  <2>1. m \in Nat /\ s \in Nat /\ m < s
    BY <1>5
  <2>2. \A r \in S : s <= r => m <= r
    BY <2>1
  <2>3. End(s) \subseteq End(m)
    BY <2>2
  <2>4. m \in End(m) /\ m \notin End(s)
    BY <2>1
  <2>5. <<End(s), End(m)>> \in StrictSubsetOrdering(S)
    BY <2>3, <2>4 DEF StrictSubsetOrdering
  <2> QED
    BY <1>3, <1>4, <2>5
<1> QED
  BY <1>5

LEMMA OneMore ==
  ASSUME NEW S, IsFiniteSet(S), NEW x
  PROVE  /\ IsFiniteSet(S \cup {x})
         /\ Cardinality(S \cup {x}) \in Nat
         /\ Cardinality(S \cup {x}) <= Cardinality(S) + 1
<1>1. Cardinality(S) \in Nat
  BY FS_CardinalityType
<1>2. IsFiniteSet(S \cup {x})
  BY FS_AddElement
<1>3. Cardinality(S \cup {x}) = IF x \in S THEN Cardinality(S) ELSE Cardinality(S) + 1
  BY FS_AddElement
<1> QED
  BY <1>1, <1>2, <1>3

\* Players are added one by one, each while there is room.
LEMMA AddCapped ==
  ASSUME NEW v \in [Obj -> SUBSET Obj], NEW o \in Obj, NEW list \in SUBSET Obj,
         \A a \in Obj : Cardinality(v[a]) <= MaxView
  PROVE  \A a \in Obj : Cardinality(Add(v, o, list)[a]) <= MaxView
<1> DEFINE new == Added(v, o, list)
<1>1. new \subseteq Obj /\ new \subseteq Nat /\ IsFiniteSet(new)
  BY AddedIn, WorldAssumption, FS_Subset
<1>2. \A a \in Obj : IsFiniteSet(v[a]) /\ Cardinality(v[a]) \in Nat
  BY WorldAssumption, FS_Subset, FS_CardinalityType
<1>3. ASSUME NEW a \in new
      PROVE  Cardinality(v[a] \cup {o}) <= MaxView
  <2>1. Cardinality(v[a]) < MaxView /\ a \in Obj
    BY <1>1, AddedIn
  <2>2. /\ Cardinality(v[a] \cup {o}) \in Nat
        /\ Cardinality(v[a] \cup {o}) <= Cardinality(v[a]) + 1
    BY <1>2, <2>1, OneMore
  <2> QED
    BY <1>2, <2>1, <2>2, WorldAssumption
<1>4. Cardinality(v[o] \cup new) <= MaxView
  <2>1. CASE new = {}
    BY <2>1
  <2>2. CASE new # {}
    <3>1. PICK m \in new : \A s \in new : s <= m
      BY <1>1, <2>2, GreatestMember
    <3> DEFINE before == {s \in Addable(v, o, list) : s < m}
    <3>2. Cardinality(v[o] \cup before) < MaxView
      BY <3>1 DEF Added
    <3>3. new \subseteq before \cup {m}
      <4>1. \A s \in new : s \in Addable(v, o, list)
        BY DEF Added
      <4>2. \A s \in new : s < m \/ s = m
        BY <1>1, <3>1
      <4> QED
        BY <4>1, <4>2
    <3>4. before \subseteq Obj
      BY DEF Addable
    <3>5. IsFiniteSet(v[o] \cup before) /\ Cardinality(v[o] \cup before) \in Nat
      <4>1. v[o] \cup before \subseteq Obj
        BY <3>4
      <4> HIDE DEF before
      <4> QED
        BY <4>1, WorldAssumption, FS_Subset, FS_CardinalityType
    <3> HIDE DEF before, new
    <3>6. /\ IsFiniteSet((v[o] \cup before) \cup {m})
          /\ Cardinality((v[o] \cup before) \cup {m}) <= Cardinality(v[o] \cup before) + 1
          /\ Cardinality((v[o] \cup before) \cup {m}) \in Nat
      BY <3>5, OneMore
    <3>7. v[o] \cup new \subseteq (v[o] \cup before) \cup {m}
      BY <3>3
    <3>8. /\ Cardinality(v[o] \cup new) \in Nat
          /\ Cardinality(v[o] \cup new) <= Cardinality((v[o] \cup before) \cup {m})
      BY <3>6, <3>7, FS_Subset, FS_CardinalityType
    <3> QED
      BY <3>2, <3>5, <3>6, <3>8, WorldAssumption
  <2> QED
    BY <2>1, <2>2
<1> QED
  BY <1>3, <1>4 DEF Add

LEMMA DelCapped ==
  ASSUME NEW v \in [Obj -> SUBSET Obj], NEW o \in Obj, NEW list \in SUBSET Obj,
         \A a \in Obj : Cardinality(v[a]) <= MaxView
  PROVE  \A a \in Obj : Cardinality(Del(v, o, list)[a]) <= MaxView
<1> TAKE a \in Obj
<1>1. Del(v, o, list)[a] \subseteq v[a]
  BY DEF Del
<1>2. IsFiniteSet(v[a]) /\ Cardinality(v[a]) \in Nat
  BY WorldAssumption, FS_Subset, FS_CardinalityType
<1>3. /\ Cardinality(Del(v, o, list)[a]) \in Nat
      /\ Cardinality(Del(v, o, list)[a]) <= Cardinality(v[a])
  BY <1>1, <1>2, FS_Subset, FS_CardinalityType
<1> QED
  BY <1>2, <1>3, WorldAssumption

-----------------------------------------------------------------------------
(* The inductive invariant.                                                *)

\* Only roles are in the cache.
LoadedRoles == loaded \subseteq Roles

\* Who is on the map is played by his user, so no user has two players there.
OnMapPlays == \A o \in OnMap : userObj[owner[o]] = o

\* Who is outside the map was moved there.
KeptCells == \A o \in Obj \ strayed : loc[o] \in Cell

\* Who is not on the map has an empty list.
ShownOnMap == \A o \in Obj : view[o] # {} => o \in OnMap

\* The client of a user without a player on the map shows nobody.
Blank == [q \in {} |-> Start]

OthersBlank == \A u \in User : (\A o \in OnMap : owner[o] # u) => screen[u] = Blank

CacheInv == UserHasPlayer /\ LoadedRoles
MapInv == TowersTrack /\ OnMapPlays /\ KeptCells
ViewInv == ViewSymmetric /\ ViewIsNear /\ ViewCapped /\ ShownOnMap
ScreenInv == ScreenTrue /\ OthersBlank

IInv == TypeOK /\ CacheInv /\ MapInv /\ ViewInv /\ ScreenInv

LEMMA StartOnMap == Start \in Cell /\ Start \in Reach
BY MapAssumption, GridAssumption, CellInReach DEF Start, Cell

LEMMA ZeroNoId == 0 \notin Obj /\ 0 \notin User
BY WorldAssumption

LEMMA InitIInv == Init => IInv
<1> SUFFICES ASSUME Init PROVE IInv
  OBVIOUS
<1> USE DEF Init, TowersInit
<1>1. TypeOK
  BY StartOnMap DEF TypeOK
<1>2. OnMap = {}
  BY DEF OnMap
<1>3. CacheInv /\ MapInv
  BY <1>2, StartOnMap
  DEF CacheInv, UserHasPlayer, LoadedRoles, MapInv, TowersTrack, OnMapPlays, KeptCells
<1>4. ViewCapped
  BY FS_EmptySet, WorldAssumption DEF ViewCapped
<1>5. ViewInv /\ ScreenInv
  BY <1>2, <1>4
  DEF ViewInv, ViewSymmetric, ViewIsNear, ShownOnMap, ScreenInv, ScreenTrue, OthersBlank, Blank
<1> QED
  BY <1>1, <1>3, <1>5 DEF IInv

-----------------------------------------------------------------------------
(* The towers.                                                             *)

\* The towers know the players of the map, and no others.
LEMMA OnMapMeans ==
  ASSUME TypeOK, TowersTrack, NEW o \in Obj
  PROVE  /\ o \in OnMap =>
              /\ o \in loaded
              /\ \A i \in Ids : /\ o \in objs[i] <=> i = At(loc[o])
                                /\ o \in watchers[i] <=> i \in InView(loc[o])
         /\ o \notin OnMap => \A i \in Ids : o \notin objs[i] /\ o \notin watchers[i]
<1>1. At(loc[o]) \in Ids
  BY AtInRange DEF TypeOK
<1> QED
  BY <1>1 DEF OnMap, TowersTrack

LEMMA WatchersMeans ==
  ASSUME TypeOK, TowersTrack, NEW p \in Reach
  PROVE  /\ WatchersAt(p) \in SUBSET Obj
         /\ \A o \in Obj : o \in WatchersAt(p) <=> o \in OnMap /\ At(p) \in InView(loc[o])
<1>1. At(p) \in Ids
  BY AtInRange
<1>2. WatchersAt(p) \in SUBSET Obj
  BY <1>1 DEF WatchersAt, TypeOK
<1> QED
  BY <1>1, <1>2, OnMapMeans DEF WatchersAt

\* What the three operations do to the towers' lists.
LEMMA AddWatcherSteps ==
  ASSUME TypeOK, NEW o \in Obj, NEW p \in Reach, AddWatcher(o, p)
  PROVE  /\ objs' \in [Ids -> SUBSET Obj] /\ watchers' \in [Ids -> SUBSET Obj]
         /\ \A a \in Obj, i \in Ids :
              /\ a \in objs'[i] <=> a \in objs[i] \/ (a = o /\ i = At(p))
              /\ a \in watchers'[i] <=> a \in watchers[i] \/ (a = o /\ i \in InView(p))
BY DEF TypeOK, AddWatcher

LEMMA DelWatcherSteps ==
  ASSUME TypeOK, NEW o \in Obj, NEW p \in Reach, DelWatcher(o, p)
  PROVE  /\ objs' \in [Ids -> SUBSET Obj] /\ watchers' \in [Ids -> SUBSET Obj]
         /\ \A a \in Obj, i \in Ids :
              /\ a \in objs'[i] <=> a \in objs[i] /\ ~(a = o /\ i = At(p))
              /\ a \in watchers'[i] <=> a \in watchers[i] /\ ~(a = o /\ i \in InView(p))
BY DEF TypeOK, DelWatcher

LEMMA MoveWatcherSteps ==
  ASSUME TypeOK, NEW o \in Obj, NEW from \in Reach, NEW to \in Reach,
         CellToTower(from) # CellToTower(to), MoveWatcher(o, from, to)
  PROVE  /\ objs' \in [Ids -> SUBSET Obj] /\ watchers' \in [Ids -> SUBSET Obj]
         /\ \A a \in Obj, i \in Ids :
              /\ a \in objs'[i] <=> \/ a \in objs[i] /\ ~(a = o /\ i = At(from))
                                    \/ a = o /\ i = At(to)
              /\ a \in watchers'[i] <=> \/ a \in watchers[i] /\ ~(a = o /\ i \in InView(from))
                                        \/ a = o /\ i \in InView(to)
<1>1. At(from) \in Ids /\ At(to) \in Ids
  BY AtInRange
<1>2. objs' = [objs EXCEPT ![At(from)] = @ \ {o}, ![At(to)] = @ \cup {o}]
  BY DEF MoveWatcher
<1>3. objs' = [i \in Ids |-> IF i = At(to) THEN objs[i] \cup {o}
                             ELSE IF i = At(from) THEN objs[i] \ {o} ELSE objs[i]]
  <2> DEFINE gone == [objs EXCEPT ![At(from)] = @ \ {o}]
  <2>1. /\ gone \in [Ids -> SUBSET Obj]
        /\ \A i \in Ids : gone[i] = IF i = At(from) THEN objs[i] \ {o} ELSE objs[i]
    BY <1>1 DEF TypeOK
  <2>2. objs' = [gone EXCEPT ![At(to)] = @ \cup {o}]
    BY <1>2
  <2>3. gone[At(to)] \cup {o} = objs[At(to)] \cup {o}
    BY <1>1, <2>1
  <2> HIDE DEF gone
  <2> QED
    BY <1>1, <2>1, <2>2, <2>3
<1>4. watchers' = [i \in Ids |-> IF i \in InView(to) THEN watchers[i] \cup {o}
                                 ELSE IF i \in InView(from) THEN watchers[i] \ {o}
                                 ELSE watchers[i]]
  BY DEF MoveWatcher
<1>5. objs' \in [Ids -> SUBSET Obj] /\ watchers' \in [Ids -> SUBSET Obj]
  BY <1>3, <1>4 DEF TypeOK
<1>6. ASSUME NEW a \in Obj, NEW i \in Ids
      PROVE  a \in objs'[i] <=> \/ a \in objs[i] /\ ~(a = o /\ i = At(from))
                                \/ a = o /\ i = At(to)
  BY <1>1, <1>3
<1>7. ASSUME NEW a \in Obj, NEW i \in Ids
      PROVE  a \in watchers'[i] <=> \/ a \in watchers[i] /\ ~(a = o /\ i \in InView(from))
                                    \/ a = o /\ i \in InView(to)
  BY <1>4
<1> QED
  BY <1>5, <1>6, <1>7

-----------------------------------------------------------------------------
(* Creating and entering: the cache changes, the map does not.             *)

\* A player that is new to the cache is on no tower and in no list.
LEMMA AddPlayerIInv ==
  ASSUME IInv, NEW o \in Obj, NEW u \in User, o \notin loaded,
         AddPlayerData(o, u),
         \/ owner[o] = u /\ owner' = owner
         \/ owner[o] = 0 /\ owner' = [owner EXCEPT ![o] = u],
         UNCHANGED <<towerVars, ready, screen, strayed>>
  PROVE  IInv'
<1> USE DEF IInv
<1>1. /\ loaded' = loaded \cup {o}
      /\ userObj' = [userObj EXCEPT ![u] = IF @ = 0 THEN o ELSE @]
      /\ UNCHANGED <<objs, watchers, loc, view, ready, screen, strayed>>
  BY DEF AddPlayerData, towerVars
<1>2. /\ owner' \in [Obj -> User \cup {0}] /\ owner'[o] = u
      /\ \A a \in Obj : a # o => owner'[a] = owner[a]
      /\ \A a \in Obj : owner[a] # 0 => owner'[a] = owner[a]
  BY DEF TypeOK
<1>3. TypeOK'
  BY <1>1, <1>2 DEF TypeOK
<1>4. OnMap' = OnMap /\ o \notin OnMap
  BY <1>1, OnMapMeans DEF OnMap, MapInv
<1>5. \A a \in OnMap : owner[a] \in User /\ owner'[a] = owner[a]
  <2>1. \A a \in OnMap : a \in Obj /\ a \in loaded
    BY OnMapMeans DEF OnMap, MapInv
  <2> QED
    BY <1>2, <2>1 DEF CacheInv, LoadedRoles, Roles, TypeOK
<1>6. UserHasPlayer'
  <2> SUFFICES ASSUME NEW w \in User, userObj'[w] # 0
               PROVE  userObj'[w] \in loaded' /\ owner'[userObj'[w]] = w
    BY DEF UserHasPlayer
  <2>1. CASE userObj[w] # 0
    BY <1>1, <1>2, <2>1, ZeroNoId DEF CacheInv, UserHasPlayer, TypeOK
  <2>2. CASE userObj[w] = 0
    BY <1>1, <1>2, <2>2 DEF TypeOK
  <2> QED
    BY <2>1, <2>2
<1>7. LoadedRoles'
  <2>1. \A a \in Obj : owner[a] # 0 => owner'[a] # 0
    BY <1>2
  <2>2. owner'[o] # 0
    BY <1>2, ZeroNoId
  <2> QED
    BY <1>1, <2>1, <2>2 DEF CacheInv, LoadedRoles, Roles
<1>8. TowersTrack'
  BY <1>1 DEF MapInv, TowersTrack, At, CellToTower, TowerId, InView
<1>9. OnMapPlays'
  <2> SUFFICES ASSUME NEW a \in OnMap PROVE userObj'[owner'[a]] = a
    BY <1>4 DEF OnMapPlays
  <2>1. userObj[owner[a]] = a /\ a # 0
    BY ZeroNoId DEF MapInv, OnMapPlays, OnMap
  <2> QED
    BY <1>1, <1>5, <2>1 DEF TypeOK
<1>12. KeptCells'
  BY <1>1 DEF MapInv, KeptCells
<1>10. ViewInv'
  BY <1>1, <1>4 DEF ViewInv, ViewSymmetric, ViewIsNear, ViewCapped, ShownOnMap
<1>11. ScreenInv'
  <2>1. ScreenTrue'
    BY <1>1, <1>4, <1>5 DEF ScreenInv, ScreenTrue
  <2>2. OthersBlank'
    BY <1>1, <1>4, <1>5 DEF ScreenInv, OthersBlank
  <2> QED
    BY <2>1, <2>2 DEF ScreenInv
<1> QED
  BY <1>3, <1>6, <1>7, <1>8, <1>9, <1>10, <1>11, <1>12 DEF CacheInv, MapInv

LEMMA CreateRoleIInv ==
  ASSUME IInv, NEW u \in User, CreateRole(u)
  PROVE  IInv'
<1>1. PICK o \in Obj \ Roles :
         AddPlayerData(o, u) /\ owner' = [owner EXCEPT ![o] = u]
  BY DEF CreateRole
<1>2. owner[o] = 0 /\ o \notin loaded
  BY DEF Roles, IInv, CacheInv, LoadedRoles
<1> QED
  BY <1>1, <1>2, AddPlayerIInv DEF CreateRole

LEMMA UnchangedIInv == IInv /\ UNCHANGED <<towerVars, owner, loaded, userObj, loc, view, screen, strayed>>
                         /\ ready' \subseteq User => IInv'
<1> SUFFICES ASSUME IInv, UNCHANGED <<towerVars, owner, loaded, userObj, loc, view, screen, strayed>>,
                    ready' \subseteq User
             PROVE  IInv'
  OBVIOUS
<1> USE DEF IInv
<1>1. UNCHANGED <<objs, watchers, owner, loaded, userObj, loc, view, screen, strayed>>
  BY DEF towerVars
<1>2. OnMap' = OnMap
  BY <1>1 DEF OnMap
<1>3. TypeOK'
  BY <1>1 DEF TypeOK
<1>4. CacheInv' /\ MapInv'
  BY <1>1, <1>2
  DEF CacheInv, UserHasPlayer, LoadedRoles, Roles, MapInv, TowersTrack, OnMapPlays, KeptCells
<1>5. ViewInv'
  BY <1>1, <1>2 DEF ViewInv, ViewSymmetric, ViewIsNear, ViewCapped, ShownOnMap
<1>6. ScreenInv'
  BY <1>1, <1>2 DEF ScreenInv, ScreenTrue, OthersBlank
<1> QED
  BY <1>3, <1>4, <1>5, <1>6

LEMMA EnterGameIInv ==
  ASSUME IInv, NEW u \in User, NEW o \in Obj, EnterGame(u, o)
  PROVE  IInv'
<1>1. CASE o \in loaded
  BY <1>1, UnchangedIInv DEF EnterGame, IInv, TypeOK
<1>2. CASE o \notin loaded
  <2>1. owner[o] \in User
    BY DEF EnterGame, Roles, IInv, TypeOK
  <2> QED
    BY <1>2, <2>1, AddPlayerIInv DEF EnterGame
<1> QED
  BY <1>1, <1>2

-----------------------------------------------------------------------------
(* The clients.  The players of a set M have a user each, whose client     *)
(* shows who is on the player's list v, and where l says he is if he has   *)
(* the player on his own.                                                  *)

Users(M) ==
    /\ \A a \in M : owner[a] \in User
    /\ \A a, b \in M : owner[a] = owner[b] => a = b

ShownTo(r, v, l, a) == DOMAIN r = v[a] /\ \A q \in v[a] : a \in v[q] => r[q] = l[q]

Shown(s, v, l, M) == \A a \in M : ShownTo(s[owner[a]], v, l, a)

OthersEmpty(s, M) == \A u \in User : (\A a \in M : owner[a] # u) => s[u] = Blank

\* Only members of M have others on their lists.
ListsOf(v, M) == \A a \in Obj : v[a] # {} => a \in M

\* The lists of those who kept to the map.
Symmetric(v) == \A a, b \in Obj \ strayed : b \in v[a] => a \in v[b]

ScreenOK(s) ==
    \A u \in User : DOMAIN s[u] \subseteq Obj /\ \A q \in DOMAIN s[u] : s[u][q] \in Reach

\* Whom the client of user u is sent an addition or a deletion of.
ToldAdd(v, o, list, u) ==
    LET new == Added(v, o, list)
    IN  {q \in new : owner[o] = u} \cup {q \in {o} : \E t \in new : owner[t] = u}

ToldDel(v, o, list, u) ==
    LET gone == list \cap v[o]
    IN  {q \in gone : owner[o] = u} \cup {q \in {o} : \E t \in gone : owner[t] = u /\ o \in v[t]}

LEMMA AddShown ==
  ASSUME NEW M \in SUBSET Obj, Users(M), NEW v \in [Obj -> SUBSET Obj], NEW s,
         NEW o \in M, NEW list \in SUBSET Obj, Added(v, o, list) \subseteq M,
         NEW l \in [Obj -> Reach], \A q \in Obj : q # o => l[q] = loc[q],
         Shown(s, v, l, M), OthersEmpty(s, M)
  PROVE  /\ Shown(ShowAdd(s, v, o, list, l[o]), Add(v, o, list), l, M)
         /\ OthersEmpty(ShowAdd(s, v, o, list, l[o]), M)
<1> DEFINE new == Added(v, o, list)
           in(u) == ToldAdd(v, o, list, u)
<1>1. \A u \in User :
         ShowAdd(s, v, o, list, l[o])[u]
           = [q \in DOMAIN s[u] \cup in(u) |->
                IF q \in in(u) THEN (IF q = o THEN l[o] ELSE loc[q]) ELSE s[u][q]]
  BY DEF ShowAdd, ToldAdd
<1>2. ASSUME NEW a \in M, NEW r, r = ShowAdd(s, v, o, list, l[o])[owner[a]]
      PROVE  ShownTo(r, Add(v, o, list), l, a)
  <2> DEFINE D == DOMAIN s[owner[a]] \cup in(owner[a])
  <2>1. /\ owner[a] \in User
        /\ DOMAIN s[owner[a]] = v[a]
        /\ \A q \in v[a] : a \in v[q] => s[owner[a]][q] = l[q]
    BY DEF Users, Shown, ShownTo
  <2>2. in(owner[a]) = IF a = o THEN new ELSE IF a \in new THEN {o} ELSE {}
    <3>1. \A b \in M : owner[b] = owner[a] <=> b = a
      BY DEF Users
    <3>2. \A q : q \in in(owner[a]) <=> \/ q \in new /\ o = a
                                        \/ q = o /\ a \in new
      <4>1. \A q : q \in in(owner[a]) <=>
                      \/ q \in new /\ owner[o] = owner[a]
                      \/ q = o /\ \E t \in new : owner[t] = owner[a]
        BY DEF ToldAdd
      <4>2. \A t \in new : t \in M
        OBVIOUS
      <4> HIDE DEF new, in
      <4> QED
        BY <3>1, <4>1, <4>2
    <3> HIDE DEF new, in
    <3>3. CASE a = o
      BY <3>2, <3>3
    <3>4. CASE a # o /\ a \in new
      BY <3>2, <3>4
    <3>5. CASE a # o /\ a \notin new
      BY <3>2, <3>5
    <3> QED
      BY <3>3, <3>4, <3>5
  <2>3. D = Add(v, o, list)[a]
    BY <2>1, <2>2 DEF Add
  <2>4. r = [q \in D |-> IF q \in in(owner[a]) THEN (IF q = o THEN l[o] ELSE loc[q])
                         ELSE s[owner[a]][q]]
    BY <1>1, <1>2, <2>1
  <2>5. \A b \in Obj : a \in Add(v, o, list)[b] <=> \/ a \in v[b]
                                                    \/ b = o /\ a \in new
                                                    \/ b \in new /\ a = o
    BY AddMembers
  <2>6. ASSUME NEW q \in D, a \in Add(v, o, list)[q]
        PROVE  r[q] = l[q]
    <3>1. q \in Obj
      BY <2>1, <2>2
    <3>2. CASE q \in in(owner[a])
      <4> HIDE DEF D, in
      <4> QED
        BY <2>4, <3>1, <3>2
    <3>3. CASE q \notin in(owner[a])
      <4>1. q \in v[a]
        BY <2>1, <3>3
      <4>2. a \in v[q]
        <5> HIDE DEF new, in, D
        <5> QED
          BY <2>2, <2>5, <2>6, <3>1, <3>3
      <4> HIDE DEF D, in
      <4> QED
        BY <2>1, <2>4, <3>3, <4>1, <4>2
    <3> QED
      BY <3>2, <3>3
  <2> HIDE DEF in, D
  <2>7. DOMAIN r = Add(v, o, list)[a]
    BY <2>3, <2>4
  <2> QED
    BY <2>3, <2>6, <2>7 DEF ShownTo
<1>3. ASSUME NEW u \in User, \A a \in M : owner[a] # u
      PROVE  ShowAdd(s, v, o, list, l[o])[u] = Blank
  <2>1. in(u) = {}
    BY <1>3 DEF ToldAdd
  <2>2. s[u] = Blank
    BY <1>3 DEF OthersEmpty
  <2> HIDE DEF in
  <2> QED
    BY <1>1, <2>1, <2>2 DEF Blank
<1> QED
  BY <1>2, <1>3 DEF Shown, OthersEmpty

LEMMA DelShown ==
  ASSUME NEW M \in SUBSET Obj, Users(M), NEW v \in [Obj -> SUBSET Obj], ListsOf(v, M), NEW s,
         NEW o \in Obj, \A a \in M : owner[a] = owner[o] => a = o,
         NEW list \in SUBSET Obj, o \notin list,
         NEW l, Shown(s, v, l, M), OthersEmpty(s, M)
  PROVE  /\ Shown(ShowDel(s, v, o, list), Del(v, o, list), l, M)
         /\ OthersEmpty(ShowDel(s, v, o, list), M)
<1> DEFINE gone == list \cap v[o]
           out(u) == ToldDel(v, o, list, u)
<1>1. \A u \in User :
         ShowDel(s, v, o, list)[u] = [q \in DOMAIN s[u] \ out(u) |-> s[u][q]]
  BY DEF ShowDel, ToldDel
<1>2. ASSUME NEW a \in M, NEW r, r = ShowDel(s, v, o, list)[owner[a]]
      PROVE  ShownTo(r, Del(v, o, list), l, a)
  <2>1. /\ owner[a] \in User
        /\ DOMAIN s[owner[a]] = v[a]
        /\ \A q \in v[a] : a \in v[q] => s[owner[a]][q] = l[q]
    BY DEF Users, Shown, ShownTo
  <2>2. \A q : q \in out(owner[a]) <=> \/ q \in gone /\ o = a
                                       \/ q = o /\ a \in gone /\ o \in v[a]
    <3>1. \A b \in M : owner[b] = owner[a] <=> b = a
      BY DEF Users
    <3>2. owner[o] = owner[a] <=> o = a
      OBVIOUS
    <3>3. \A t \in gone : t \in Obj /\ (o \in v[t] => t \in M)
      BY DEF ListsOf
    <3>4. \A q : q \in out(owner[a]) <=>
                    \/ q \in gone /\ owner[o] = owner[a]
                    \/ q = o /\ \E t \in gone : owner[t] = owner[a] /\ o \in v[t]
      BY DEF ToldDel
    <3> HIDE DEF gone, out
    <3> QED
      BY <3>1, <3>2, <3>3, <3>4
  <2>3. \A b \in Obj : b \in v[a] \ out(owner[a]) <=> b \in Del(v, o, list)[a]
    <3>1. \A b \in Obj : b \in Del(v, o, list)[a] <=>
                            /\ b \in v[a]
                            /\ ~(a = o /\ b \in list)
                            /\ ~(a \in list \cap v[o] /\ b = o)
      BY DelMembers
    <3> HIDE DEF out
    <3> QED
      BY <2>2, <3>1
  <2>4. v[a] \subseteq Obj /\ Del(v, o, list)[a] \subseteq Obj
    BY DelMembers
  <2>5. v[a] \ out(owner[a]) = Del(v, o, list)[a]
    <3> HIDE DEF out
    <3> QED
      BY <2>3, <2>4
  <2>6. r = [q \in Del(v, o, list)[a] |-> s[owner[a]][q]]
    BY <1>1, <1>2, <2>1, <2>5
  <2>7. \A q \in Del(v, o, list)[a] : q \in v[a] /\ (a \in Del(v, o, list)[q] => a \in v[q])
    BY <2>4, DelMembers
  <2> HIDE DEF out
  <2> QED
    BY <2>1, <2>6, <2>7 DEF ShownTo
<1>3. ASSUME NEW u \in User, \A a \in M : owner[a] # u
      PROVE  ShowDel(s, v, o, list)[u] = Blank
  <2>1. s[u] = Blank
    BY <1>3 DEF OthersEmpty
  <2> HIDE DEF out
  <2> QED
    BY <1>1, <2>1 DEF Blank
<1> QED
  BY <1>2, <1>3 DEF Shown, OthersEmpty

LEMMA MoveShown ==
  ASSUME NEW M \in SUBSET Obj, M \subseteq loaded, Users(M), NEW v \in [Obj -> SUBSET Obj],
         NEW s, NEW o \in Obj, NEW to,
         NEW l \in [Obj -> Reach], Shown(s, v, l, M), OthersEmpty(s, M)
  PROVE  /\ Shown(ShowMove(s, v, o, to), v, [l EXCEPT ![o] = to], M)
         /\ OthersEmpty(ShowMove(s, v, o, to), M)
<1>1. \A u \in User :
         ShowMove(s, v, o, to)[u]
           = [q \in DOMAIN s[u] |->
                IF q = o /\ \E t \in v[o] \cap loaded : owner[t] = u THEN to ELSE s[u][q]]
  BY DEF ShowMove
<1>2. ASSUME NEW a \in M, NEW r, r = ShowMove(s, v, o, to)[owner[a]]
      PROVE  ShownTo(r, v, [l EXCEPT ![o] = to], a)
  <2>1. /\ owner[a] \in User
        /\ DOMAIN s[owner[a]] = v[a]
        /\ \A q \in v[a] : a \in v[q] => s[owner[a]][q] = l[q]
    BY DEF Users, Shown, ShownTo
  <2>2. a \in v[o] => \E t \in v[o] \cap loaded : owner[t] = owner[a]
    OBVIOUS
  <2>3. v[a] \subseteq Obj
    OBVIOUS
  <2>4. \A q \in v[a] : a \in v[q] =>
           [l EXCEPT ![o] = to][q]
             = IF q = o /\ \E t \in v[o] \cap loaded : owner[t] = owner[a]
               THEN to ELSE s[owner[a]][q]
    BY <2>1, <2>2, <2>3
  <2>5. r = [q \in v[a] |-> IF q = o /\ \E t \in v[o] \cap loaded : owner[t] = owner[a]
                            THEN to ELSE s[owner[a]][q]]
    BY <1>1, <1>2, <2>1
  <2>6. \A q \in v[a] : a \in v[q] => r[q] = [l EXCEPT ![o] = to][q]
    BY <2>4, <2>5
  <2>7. DOMAIN r = v[a]
    BY <2>5
  <2> QED
    BY <2>6, <2>7 DEF ShownTo
<1>3. ASSUME NEW u \in User, \A a \in M : owner[a] # u
      PROVE  ShowMove(s, v, o, to)[u] = Blank
  <2>1. s[u] = Blank
    BY <1>3 DEF OthersEmpty
  <2> QED
    BY <1>1, <2>1 DEF Blank
<1> QED
  BY <1>2, <1>3 DEF Shown, OthersEmpty

\* Whatever is shown is a player somewhere he can be.
LEMMA ShowTypes ==
  ASSUME TypeOK, NEW s, ScreenOK(s), NEW v \in [Obj -> SUBSET Obj], NEW o \in Obj,
         NEW list \in SUBSET Obj, NEW at \in Reach
  PROVE  /\ ScreenOK(ShowAdd(s, v, o, list, at))
         /\ ScreenOK(ShowDel(s, v, o, list))
         /\ ScreenOK(ShowMove(s, v, o, at))
<1>1. Added(v, o, list) \subseteq Obj
  BY AddedIn
<1>2. ASSUME NEW u \in User, NEW r, r = ShowAdd(s, v, o, list, at)[u]
      PROVE  DOMAIN r \subseteq Obj /\ \A q \in DOMAIN r : r[q] \in Reach
  <2> DEFINE in == ToldAdd(v, o, list, u)
  <2>1. r = [q \in DOMAIN s[u] \cup in |->
               IF q \in in THEN (IF q = o THEN at ELSE loc[q]) ELSE s[u][q]]
    BY <1>2 DEF ShowAdd, ToldAdd
  <2>2. in \subseteq Obj
    BY <1>1 DEF ToldAdd
  <2> HIDE DEF in
  <2> QED
    BY <2>1, <2>2 DEF ScreenOK, TypeOK
<1>3. ASSUME NEW u \in User, NEW r, r = ShowDel(s, v, o, list)[u]
      PROVE  DOMAIN r \subseteq Obj /\ \A q \in DOMAIN r : r[q] \in Reach
  <2>1. r = [q \in DOMAIN s[u] \ ToldDel(v, o, list, u) |-> s[u][q]]
    BY <1>3 DEF ShowDel, ToldDel
  <2> QED
    BY <2>1 DEF ScreenOK
<1>4. ScreenOK(ShowMove(s, v, o, at))
  BY DEF ScreenOK, ShowMove
<1> QED
  BY <1>2, <1>3, <1>4 DEF ScreenOK

\* What the invariant says of the players on the map and their clients.
LEMMA ShownFacts ==
  ASSUME IInv
  PROVE  /\ OnMap \in SUBSET Obj /\ OnMap \subseteq loaded
         /\ Users(OnMap)
         /\ Shown(screen, view, loc, OnMap) /\ OthersEmpty(screen, OnMap)
         /\ Symmetric(view) /\ ScreenOK(screen) /\ ListsOf(view, OnMap)
<1> USE DEF IInv
<1>1. OnMap \in SUBSET Obj /\ OnMap \subseteq loaded
  BY OnMapMeans DEF OnMap, MapInv
<1>2. \A a \in OnMap : owner[a] \in User
  BY <1>1 DEF CacheInv, LoadedRoles, Roles, TypeOK
<1>3. Users(OnMap)
  BY <1>2 DEF Users, MapInv, OnMapPlays
<1>4. Shown(screen, view, loc, OnMap) /\ OthersEmpty(screen, OnMap)
  BY DEF ScreenInv, ScreenTrue, OthersBlank, Shown, ShownTo, OthersEmpty
<1>5. Symmetric(view) /\ ScreenOK(screen)
  BY DEF ViewInv, ViewSymmetric, Symmetric, ScreenOK, TypeOK
<1>6. ListsOf(view, OnMap)
  BY DEF ListsOf, ViewInv, ShownOnMap
<1> QED
  BY <1>1, <1>3, <1>4, <1>5, <1>6

\* The player of a user, if he has one, is in the cache and his.
LEMMA UserFacts ==
  ASSUME IInv, NEW u \in User, userObj[u] \in loaded
  PROVE  /\ userObj[u] \in Obj /\ userObj[u] # 0
         /\ owner[userObj[u]] = u
         /\ loc[userObj[u]] \in Reach
         /\ \A a \in OnMap : owner[a] = u => a = userObj[u]
<1>1. userObj[u] \in Obj /\ userObj[u] # 0
  BY ZeroNoId DEF IInv, TypeOK
<1>2. owner[userObj[u]] = u
  BY <1>1 DEF IInv, CacheInv, UserHasPlayer
<1> QED
  BY <1>1, <1>2 DEF IInv, TypeOK, MapInv, OnMapPlays

-----------------------------------------------------------------------------
(* A player appears on the map.                                            *)

\* The step, player by player: o comes on the map, and who has him in view and room for
\* him gets him on his list.
LEMMA ReadySteps ==
  ASSUME IInv, NEW u \in User, ClientReady(u), NEW o, o = userObj[u], o \in loaded,
         NEW p, p = loc[o], NEW list, list = WatchersAt(p)
  PROVE  /\ ready' = ready \cup {u}
         /\ view' = Add(view, o, list)
         /\ screen' = ShowAdd(screen, view, o, list, p)
         /\ UNCHANGED <<owner, loaded, userObj, loc, strayed>>
         /\ o \in Obj /\ o # 0 /\ owner[o] = u /\ p \in Reach
         /\ \A a \in OnMap : owner[a] = u => a = o
         /\ TypeOK /\ TowersTrack /\ view \in [Obj -> SUBSET Obj] /\ loc \in [Obj -> Reach]
         /\ list \in SUBSET Obj
         /\ \A a \in Obj : a \in list <=> a \in OnMap /\ At(p) \in InView(loc[a])
         /\ At(p) \in Ids /\ \A a \in Obj : At(loc[a]) \in Ids
         /\ objs' \in [Ids -> SUBSET Obj] /\ watchers' \in [Ids -> SUBSET Obj]
         /\ \A a \in Obj, i \in Ids :
              /\ a \in objs'[i] <=> a \in objs[i] \/ (a = o /\ i = At(p))
              /\ a \in watchers'[i] <=> a \in watchers[i] \/ (a = o /\ i \in InView(p))
         /\ OnMap' = OnMap \cup {o}
         /\ view' \in [Obj -> SUBSET Obj]
         /\ \A a, b \in Obj : b \in view'[a] <=> \/ b \in view[a]
                                                 \/ a = o /\ b \in Added(view, o, list)
                                                 \/ a \in Added(view, o, list) /\ b = o
<1>1. /\ ready' = ready \cup {u}
      /\ AddWatcher(o, p)
      /\ view' = Add(view, o, list)
      /\ screen' = ShowAdd(screen, view, o, list, p)
      /\ UNCHANGED <<owner, loaded, userObj, loc, strayed>>
  BY DEF ClientReady
<1>2. /\ o \in Obj /\ o # 0 /\ owner[o] = u /\ p \in Reach
      /\ \A a \in OnMap : owner[a] = u => a = o
  BY UserFacts
<1>3. TypeOK /\ TowersTrack /\ view \in [Obj -> SUBSET Obj] /\ loc \in [Obj -> Reach]
  BY DEF IInv, MapInv, TypeOK
<1>4. /\ list \in SUBSET Obj
      /\ \A a \in Obj : a \in list <=> a \in OnMap /\ At(p) \in InView(loc[a])
  BY <1>2, <1>3, WatchersMeans
<1>5. At(p) \in Ids /\ \A a \in Obj : At(loc[a]) \in Ids
  BY <1>2, <1>3, AtInRange
<1>6. /\ objs' \in [Ids -> SUBSET Obj] /\ watchers' \in [Ids -> SUBSET Obj]
      /\ \A a \in Obj, i \in Ids :
           /\ a \in objs'[i] <=> a \in objs[i] \/ (a = o /\ i = At(p))
           /\ a \in watchers'[i] <=> a \in watchers[i] \/ (a = o /\ i \in InView(p))
  BY <1>1, <1>2, <1>3, AddWatcherSteps
<1>7. OnMap' = OnMap \cup {o}
  BY <1>2, <1>5, <1>6 DEF OnMap
<1>8. /\ view' \in [Obj -> SUBSET Obj]
      /\ \A a, b \in Obj : b \in view'[a] <=> \/ b \in view[a]
                                              \/ a = o /\ b \in Added(view, o, list)
                                              \/ a \in Added(view, o, list) /\ b = o
  BY <1>1, <1>2, <1>3, <1>4, AddMembers
<1> QED
  BY <1>1, <1>2, <1>3, <1>4, <1>5, <1>6, <1>7, <1>8

LEMMA ClientReadyIInv ==
  ASSUME IInv, NEW u \in User, ClientReady(u)
  PROVE  IInv'
<1> DEFINE o    == userObj[u]
           p    == loc[o]
           list == WatchersAt(p)
           new  == Added(view, o, list)
<1>1. CASE o \notin loaded
  <2>1. UNCHANGED <<towerVars, owner, loaded, userObj, loc, view, screen, strayed>>
    BY <1>1 DEF ClientReady
  <2>2. ready' \subseteq User
    BY DEF ClientReady, IInv, TypeOK
  <2> QED
    BY <2>1, <2>2, UnchangedIInv
<1>2. CASE o \in loaded
  <2> HIDE DEF o, p, list
  <2>0. o = userObj[u] /\ p = loc[o] /\ list = WatchersAt(p)
    BY DEF o, p, list
  <2>1. /\ ready' = ready \cup {u}
        /\ view' = Add(view, o, list)
        /\ screen' = ShowAdd(screen, view, o, list, p)
        /\ UNCHANGED <<owner, loaded, userObj, loc, strayed>>
    BY <1>2, <2>0, ReadySteps
  <2>2. /\ o \in Obj /\ o # 0 /\ owner[o] = u /\ p \in Reach
        /\ \A a \in OnMap : owner[a] = u => a = o
    BY <1>2, <2>0, ReadySteps
  <2>3. TypeOK /\ TowersTrack /\ view \in [Obj -> SUBSET Obj] /\ loc \in [Obj -> Reach]
    BY <1>2, <2>0, ReadySteps
  <2>4. /\ list \in SUBSET Obj
        /\ \A a \in Obj : a \in list <=> a \in OnMap /\ At(p) \in InView(loc[a])
    BY <1>2, <2>0, ReadySteps
  <2>5. At(p) \in Ids /\ \A a \in Obj : At(loc[a]) \in Ids
    BY <1>2, <2>0, ReadySteps
  <2>6. /\ objs' \in [Ids -> SUBSET Obj] /\ watchers' \in [Ids -> SUBSET Obj]
        /\ \A a \in Obj, i \in Ids :
             /\ a \in objs'[i] <=> a \in objs[i] \/ (a = o /\ i = At(p))
             /\ a \in watchers'[i] <=> a \in watchers[i] \/ (a = o /\ i \in InView(p))
    BY <1>2, <2>0, ReadySteps
  <2>7. OnMap' = OnMap \cup {o}
    BY <1>2, <2>0, ReadySteps
  <2>8. /\ view' \in [Obj -> SUBSET Obj]
        /\ \A a, b \in Obj : b \in view'[a] <=> \/ b \in view[a]
                                                \/ a = o /\ b \in new
                                                \/ a \in new /\ b = o
    BY <1>2, <2>0, ReadySteps
  <2>9. new \subseteq list /\ new \subseteq loaded /\ new \subseteq OnMap /\ new \subseteq Obj
    BY <2>4, AddedIn
  <2>10. TypeOK'
    <3>1. ScreenOK(screen')
      BY <2>1, <2>2, <2>3, <2>4, ShownFacts, ShowTypes
    <3> QED
      BY <2>1, <2>3, <2>6, <2>8, <3>1 DEF TypeOK, ScreenOK
  <2>11. CacheInv'
    BY <2>1 DEF IInv, CacheInv, UserHasPlayer, LoadedRoles, Roles
  <2>12. TowersTrack'
    <3> SUFFICES ASSUME NEW a \in Obj
                 PROVE  \/ \A i \in Ids : a \notin objs'[i] /\ a \notin watchers'[i]
                        \/ /\ a \in loaded
                           /\ \A i \in Ids : /\ a \in objs'[i] <=> i = At(loc[a])
                                             /\ a \in watchers'[i] <=> i \in InView(loc[a])
      BY <2>1 DEF TowersTrack
    <3>1. CASE a # o
      BY <2>3, <2>6, <3>1 DEF TowersTrack
    <3>2. CASE a = o
      BY <1>2, <2>3, <2>6, <3>2 DEF TowersTrack, p
    <3> QED
      BY <3>1, <3>2
  <2>13. OnMapPlays'
    BY <2>1, <2>2, <2>7 DEF OnMapPlays, IInv, MapInv, o
  <2>24. KeptCells'
    BY <2>1 DEF IInv, MapInv, KeptCells
  <2>14. ViewSymmetric'
    <3>1. \A a \in Obj \ strayed : \A b \in view[a] \ strayed : b \in loaded /\ a \in view[b]
      BY DEF IInv, ViewInv, ViewSymmetric
    <3> QED
      BY <1>2, <2>1, <2>8, <2>9, <3>1 DEF ViewSymmetric
  <2>15. ViewIsNear'
    <3> SUFFICES ASSUME NEW a \in Obj, NEW b \in view'[a], b # a, a \notin strayed, b \notin strayed
                 PROVE  {a, b} \subseteq OnMap' /\ a \in watchers'[At(loc[b])]
      BY <2>1 DEF ViewIsNear, At, CellToTower, TowerId
    <3>0. b \in Obj
      BY <2>8
    <3>1. CASE b \in view[a]
      BY <2>5, <2>6, <2>7, <3>0, <3>1 DEF IInv, ViewInv, ViewIsNear
    <3>2. CASE a = o /\ b \in new
      <4>1. At(p) \in InView(loc[b]) /\ b \in OnMap
        BY <2>4, <2>9, <3>0, <3>2
      <4>2. At(loc[b]) \in InView(p)
        <5>1. loc[b] \in Cell /\ p \in Cell
          BY <2>0, <2>2, <3>0, <3>2 DEF IInv, MapInv, KeptCells
        <5> QED
          BY <4>1, <5>1, InViewSymmetric
      <4> QED
        BY <2>2, <2>5, <2>6, <2>7, <3>0, <3>2, <4>1, <4>2
    <3>3. CASE a \in new /\ b = o
      <4>1. a \in watchers[At(p)] /\ a \in OnMap
        BY <2>9, <3>3 DEF list, WatchersAt
      <4> QED
        BY <2>5, <2>6, <2>7, <3>3, <4>1 DEF p
    <3> QED
      BY <2>8, <3>0, <3>1, <3>2, <3>3
  <2>16. ViewCapped'
    BY <2>1, <2>2, <2>3, <2>4, AddCapped DEF IInv, ViewInv, ViewCapped
  <2>17. ShownOnMap'
    <3>1. \A a \in Obj : view[a] # {} => a \in OnMap
      BY DEF IInv, ViewInv, ShownOnMap
    <3> SUFFICES ASSUME NEW a \in Obj, NEW b \in view'[a]
                 PROVE  a \in OnMap'
      BY DEF ShownOnMap
    <3> QED
      BY <2>7, <2>8, <2>9, <3>1
  <2>18. ScreenInv'
    <3> DEFINE M == OnMap \cup {o}
    <3>1. M \in SUBSET Obj /\ Users(M)
      BY <2>2, ShownFacts DEF Users
    <3>2. Shown(screen, view, loc, M) /\ OthersEmpty(screen, M)
      <4>1. ASSUME o \notin OnMap
            PROVE  ShownTo(screen[owner[o]], view, loc, o)
        <5>1. screen[u] = Blank
          BY <2>2, <4>1, ShownFacts DEF OthersEmpty
        <5>2. view[o] = {}
          BY <2>2, <4>1 DEF IInv, ViewInv, ShownOnMap
        <5> QED
          BY <2>2, <5>1, <5>2 DEF Blank, ShownTo
      <4> QED
        BY <4>1, ShownFacts DEF Shown, OthersEmpty
    <3>3. /\ Shown(ShowAdd(screen, view, o, list, loc[o]), Add(view, o, list), loc, M)
          /\ OthersEmpty(ShowAdd(screen, view, o, list, loc[o]), M)
      BY <2>2, <2>3, <2>4, <2>9, <3>1, <3>2, AddShown
    <3>4. Shown(screen', view', loc, OnMap') /\ OthersEmpty(screen', OnMap')
      BY <2>1, <2>7, <3>3 DEF p
    <3> QED
      BY <2>1, <3>4 DEF ScreenInv, ScreenTrue, OthersBlank, Shown, ShownTo, OthersEmpty
  <2> QED
    BY <2>10, <2>11, <2>12, <2>13, <2>14, <2>15, <2>16, <2>17, <2>18,
       <2>24
    DEF IInv, MapInv, ViewInv
<1> QED
  BY <1>1, <1>2

-----------------------------------------------------------------------------
(* A player moves.                                                         *)

\* What the towers know after a move: the mover's new surroundings.  A player who is
\* not on the map appears there with the first move to another tower.
LEMMA MoveTowers ==
  ASSUME TypeOK, TowersTrack, NEW o \in Obj, o \in loaded, NEW to \in Reach,
         MoveWatcher(o, loc[o], to), loc' = [loc EXCEPT ![o] = to], loaded' = loaded
  PROVE  /\ objs' \in [Ids -> SUBSET Obj] /\ watchers' \in [Ids -> SUBSET Obj]
         /\ TowersTrack'
         /\ OnMap \subseteq OnMap' /\ OnMap' \subseteq OnMap \cup {o}
         /\ \A a \in Obj, i \in Ids : a # o => (a \in watchers'[i] <=> a \in watchers[i])
         /\ o \in OnMap' => \A i \in Ids : o \in watchers'[i] <=> i \in InView(to)
         /\ o \notin OnMap' => CellToTower(loc[o]) = CellToTower(to)
<1> DEFINE from == loc[o]
<1>1. /\ loc \in [Obj -> Reach] /\ from \in Reach
      /\ At(from) \in Ids /\ At(to) \in Ids /\ \A a \in Obj : At(loc[a]) \in Ids
  BY AtInRange DEF TypeOK
<1>2. /\ loc'[o] = to /\ loc' \in [Obj -> Reach]
      /\ \A a \in Obj : a # o => loc'[a] = loc[a]
  BY <1>1
<1> DEFINE Tracked(a) ==
             \/ \A i \in Ids : a \notin objs'[i] /\ a \notin watchers'[i]
             \/ /\ a \in loaded
                /\ \A i \in Ids : /\ a \in objs'[i] <=> i = At(loc'[a])
                                  /\ a \in watchers'[i] <=> i \in InView(loc'[a])
<1>3. (\A a \in Obj : Tracked(a)) => TowersTrack'
  BY DEF TowersTrack, At, CellToTower, TowerId, InView
<1>4. CASE CellToTower(from) = CellToTower(to)
  <2>1. objs' = objs /\ watchers' = watchers /\ OnMap' = OnMap
    BY <1>4 DEF MoveWatcher, towerVars, OnMap
  <2>2. At(from) = At(to) /\ InView(from) = InView(to)
    BY <1>1, <1>4, SameTower
  <2>3. \A a \in Obj : Tracked(a)
    BY <1>2, <2>1, <2>2 DEF TowersTrack
  <2>4. o \in OnMap' => \A i \in Ids : o \in watchers'[i] <=> i \in InView(to)
    BY <2>1, <2>2, OnMapMeans
  <2>5. objs' \in [Ids -> SUBSET Obj] /\ watchers' \in [Ids -> SUBSET Obj]
    BY <2>1 DEF TypeOK
  <2> HIDE DEF Tracked
  <2> QED
    BY <1>3, <1>4, <2>1, <2>3, <2>4, <2>5
<1>5. CASE CellToTower(from) # CellToTower(to)
  <2> HIDE DEF from
  <2>1. /\ objs' \in [Ids -> SUBSET Obj] /\ watchers' \in [Ids -> SUBSET Obj]
        /\ \A a \in Obj, i \in Ids :
             /\ a \in objs'[i] <=> \/ a \in objs[i] /\ ~(a = o /\ i = At(from))
                                   \/ a = o /\ i = At(to)
             /\ a \in watchers'[i] <=> \/ a \in watchers[i] /\ ~(a = o /\ i \in InView(from))
                                       \/ a = o /\ i \in InView(to)
    BY <1>1, <1>5, MoveWatcherSteps DEF from
  <2>2. \A i \in Ids : /\ o \in objs[i] => i = At(from)
                       /\ o \in watchers[i] => i \in InView(from)
    BY DEF TowersTrack, from
  <2>3. \A i \in Ids : /\ o \in objs'[i] <=> i = At(to)
                       /\ o \in watchers'[i] <=> i \in InView(to)
    BY <2>1, <2>2
  <2>4. \A a \in Obj, i \in Ids : a # o => /\ a \in objs'[i] <=> a \in objs[i]
                                           /\ a \in watchers'[i] <=> a \in watchers[i]
    BY <2>1
  <2>5. OnMap' = OnMap \cup {o}
    BY <1>1, <2>3, <2>4 DEF OnMap
  <2>6. \A a \in Obj : Tracked(a)
    BY <1>2, <2>3, <2>4 DEF TowersTrack
  <2> HIDE DEF Tracked
  <2> QED
    BY <1>3, <2>1, <2>3, <2>4, <2>5, <2>6
<1> QED
  BY <1>4, <1>5

\* Whom a move leaves behind and whom it meets, which the code finds out with two lists
\* he may already be off.
LEMMA MoveLists ==
  ASSUME TypeOK, TowersTrack, NEW o \in Obj, NEW to \in Reach
  PROVE  LET before == WatchersAt(loc[o]) \ {o}
             after  == WatchersAt(to) \ {o}
         IN  /\ WatchersLost(o, loc[o], to) = before \ after
             /\ WatchersGained(o, loc[o], to) = after \ before
<1> DEFINE from == loc[o]
<1>1. from \in Reach
  BY DEF TypeOK
<1>2. CASE CellToTower(from) = CellToTower(to)
  BY <1>1, <1>2, SameTower DEF WatchersLost, WatchersGained, WatchersAt
<1>3. CASE CellToTower(from) # CellToTower(to)
  <2>1. /\ At(to) \notin InView(from) => o \notin WatchersAt(to)
        /\ At(from) \notin InView(from) => o \notin WatchersAt(from)
    BY <1>1, WatchersMeans
  <2>2. /\ Others(o, from, At(to)) = WatchersAt(to) \ {o}
        /\ Others(o, from, At(from)) = WatchersAt(from) \ {o}
    BY <2>1 DEF Others, WatchersAt
  <2> HIDE DEF from
  <2> QED
    BY <1>3, <2>2 DEF WatchersLost, WatchersGained, from
<1> QED
  BY <1>2, <1>3

\* Whoever stays on the mover's list, or comes on it, has his new position in view; on the
\* map the mover then has him in view as well.
LEMMA MoveIInv ==
  ASSUME IInv, NEW u \in User, NEW to \in Reach, Move(u, to)
  PROVE  IInv'
<1> DEFINE o      == userObj[u]
           from   == loc[o]
           before == WatchersAt(from) \ {o}
           after  == WatchersAt(to) \ {o}
           lost   == before \ after
           gained == after \ before
           left   == Del(view, o, lost)
           new    == Added(left, o, gained)
           scr    == ShowMove(ShowDel(screen, view, o, lost), left, o, to)
<1>1. /\ o \in Obj /\ o # 0 /\ owner[o] = u /\ from \in Reach /\ o \in loaded
      /\ \A a \in OnMap : owner[a] = u => a = o
  BY UserFacts DEF Move
<1>2. TypeOK /\ TowersTrack /\ view \in [Obj -> SUBSET Obj] /\ loc \in [Obj -> Reach]
  BY DEF IInv, MapInv, TypeOK
<1>3. /\ MoveWatcher(o, from, to)
      /\ view' = Add(left, o, gained)
      /\ screen' = ShowAdd(scr, left, o, gained, to)
      /\ loc' = [loc EXCEPT ![o] = to]
      /\ strayed' = (IF to \in Cell THEN strayed ELSE strayed \cup {o})
      /\ UNCHANGED <<owner, loaded, userObj, ready>>
  <2>1. WatchersLost(o, from, to) = lost /\ WatchersGained(o, from, to) = gained
    BY <1>1, <1>2, MoveLists
  <2> QED
    BY <2>1 DEF Move
<1> HIDE DEF o
<1>4. /\ objs' \in [Ids -> SUBSET Obj] /\ watchers' \in [Ids -> SUBSET Obj]
      /\ TowersTrack'
      /\ OnMap \subseteq OnMap' /\ OnMap' \subseteq OnMap \cup {o}
      /\ \A a \in Obj, i \in Ids : a # o => (a \in watchers'[i] <=> a \in watchers[i])
      /\ o \in OnMap' => \A i \in Ids : o \in watchers'[i] <=> i \in InView(to)
      /\ o \notin OnMap' => CellToTower(from) = CellToTower(to)
  BY <1>1, <1>2, <1>3, MoveTowers
<1>5. /\ WatchersAt(from) \in SUBSET Obj /\ WatchersAt(to) \in SUBSET Obj
      /\ \A a \in Obj : a \in WatchersAt(to) <=> a \in OnMap /\ At(to) \in InView(loc[a])
  BY <1>1, <1>2, WatchersMeans
<1>6. At(to) \in Ids /\ \A a \in Obj : At(loc[a]) \in Ids
  BY <1>2, AtInRange
<1>7. o \notin OnMap' => gained = {} /\ lost = {}
  BY <1>1, <1>4, SameTower DEF WatchersAt
<1>8. /\ before \in SUBSET Obj /\ after \in SUBSET Obj
      /\ lost \in SUBSET Obj /\ gained \in SUBSET Obj
      /\ o \notin lost /\ o \notin gained
  BY <1>5
<1>9. /\ left \in [Obj -> SUBSET Obj]
      /\ \A a, b \in Obj :
           b \in left[a] <=> /\ b \in view[a]
                             /\ ~(a = o /\ b \in lost)
                             /\ ~(a \in lost \cap view[o] /\ b = o)
  <2> HIDE DEF lost
  <2> QED
    BY <1>1, <1>2, <1>8, DelMembers
<1> HIDE DEF left
<1>10. /\ view' \in [Obj -> SUBSET Obj]
       /\ \A a, b \in Obj : b \in view'[a] <=> \/ b \in left[a]
                                               \/ a = o /\ b \in new
                                               \/ a \in new /\ b = o
  <2> HIDE DEF gained
  <2> QED
    BY <1>1, <1>3, <1>8, <1>9, AddMembers
<1>11. new \subseteq gained /\ new \subseteq loaded /\ new \subseteq Obj
  <2> HIDE DEF gained
  <2> QED
    BY <1>8, AddedIn
<1>12. new \subseteq OnMap /\ (o \notin OnMap' => new = {})
  BY <1>5, <1>7, <1>11
<1> HIDE DEF new
<1>13. Symmetric(left)
  BY <1>1, <1>9, ShownFacts DEF Symmetric
<1>14. ListsOf(left, OnMap)
  BY <1>9, ShownFacts DEF ListsOf
<1>25. /\ strayed \subseteq strayed' /\ strayed' \subseteq Obj
       /\ o \notin strayed' => to \in Cell /\ o \notin strayed
  BY <1>1, <1>2, <1>3 DEF TypeOK
<1>26. KeptCells'
  <2>1. loc'[o] = to /\ \A a \in Obj : a # o => loc'[a] = loc[a]
    BY <1>1, <1>2, <1>3
  <2>2. \A a \in Obj \ strayed : loc[a] \in Cell
    BY DEF IInv, MapInv, KeptCells
  <2> QED
    BY <1>25, <2>1, <2>2 DEF KeptCells
<1>15. \A b \in left[o] : b # o /\ b \notin strayed /\ o \notin strayed => b \in after
  <2> SUFFICES ASSUME NEW b \in left[o], b # o, b \notin strayed, o \notin strayed
               PROVE  b \in after
    OBVIOUS
  <2>1. b \in Obj /\ b \in view[o] /\ b \notin lost /\ o \in view[b]
    BY <1>1, <1>9, ShownFacts DEF Symmetric
  <2>2. b \in before
    BY <1>1, <2>1 DEF IInv, ViewInv, ViewIsNear, WatchersAt
  <2> QED
    BY <2>1, <2>2
<1>16. \A b \in after : /\ b \in OnMap
                        /\ to \in Cell /\ b \notin strayed => At(loc[b]) \in InView(to)
  <2> SUFFICES ASSUME NEW b \in after
               PROVE  /\ b \in OnMap
                      /\ to \in Cell /\ b \notin strayed => At(loc[b]) \in InView(to)
    OBVIOUS
  <2>1. b \in Obj /\ b \in OnMap /\ At(to) \in InView(loc[b])
    BY <1>5, <1>8
  <2>2. b \notin strayed => loc[b] \in Cell
    BY <2>1 DEF IInv, MapInv, KeptCells
  <2> QED
    BY <2>1, <2>2, InViewSymmetric
<1>17. TypeOK'
  <2>1. ScreenOK(screen')
    <3>1. ScreenOK(ShowDel(screen, view, o, lost))
      <4> HIDE DEF lost
      <4> QED
        BY <1>1, <1>2, <1>8, ShownFacts, ShowTypes
    <3>2. ScreenOK(scr)
      BY <1>1, <1>2, <1>8, <1>9, <3>1, ShowTypes
    <3> HIDE DEF scr, gained
    <3> QED
      BY <1>1, <1>2, <1>3, <1>8, <1>9, <3>2, ShowTypes
  <2> QED
    BY <1>2, <1>3, <1>4, <1>10, <1>25, <2>1 DEF TypeOK, ScreenOK
<1>18. CacheInv'
  BY <1>3 DEF IInv, CacheInv, UserHasPlayer, LoadedRoles, Roles
<1>19. OnMapPlays'
  BY <1>1, <1>3, <1>4 DEF OnMapPlays, IInv, MapInv, o
<1>20. ViewSymmetric'
  <2>1. \A a, b \in Obj : a \in left[b] => b \in loaded
    BY <1>14, ShownFacts DEF ListsOf
  <2> SUFFICES ASSUME NEW a \in Obj, NEW b \in view'[a], a \notin strayed', b \notin strayed'
               PROVE  b \in loaded /\ a \in view'[b]
    BY <1>3 DEF ViewSymmetric
  <2>2. b \in Obj /\ a \notin strayed /\ b \notin strayed
    BY <1>10, <1>25
  <2>3. CASE b \in left[a]
    BY <1>10, <1>13, <2>1, <2>2, <2>3 DEF Symmetric
  <2>4. CASE a = o /\ b \in new
    BY <1>10, <1>11, <2>2, <2>4
  <2>5. CASE a \in new /\ b = o
    BY <1>1, <1>10, <2>2, <2>5
  <2> QED
    BY <1>10, <2>2, <2>3, <2>4, <2>5
<1>21. ViewIsNear'
  <2>1. loc'[o] = to /\ \A a \in Obj : a # o => loc'[a] = loc[a]
    BY <1>1, <1>2, <1>3
  <2> SUFFICES ASSUME NEW a \in Obj, NEW b \in view'[a], b # a, a \notin strayed', b \notin strayed'
               PROVE  {a, b} \subseteq OnMap' /\ a \in watchers'[At(loc'[b])]
    BY DEF ViewIsNear, At, CellToTower, TowerId
  <2>2. b \in Obj /\ a \notin strayed /\ b \notin strayed
    BY <1>10, <1>25
  <2>3. CASE a # o /\ b # o
    <3>1. b \in view[a]
      BY <1>9, <1>10, <2>2, <2>3
    <3>2. {a, b} \subseteq OnMap /\ a \in watchers[At(loc[b])]
      BY <2>2, <2>3, <3>1 DEF IInv, ViewInv, ViewIsNear
    <3> QED
      BY <1>4, <1>6, <2>1, <2>2, <2>3, <3>2
  <2>4. CASE a = o
    <3>1. b \in after
      BY <1>8, <1>10, <1>11, <1>15, <2>2, <2>4
    <3>2. o \in OnMap'
      <4>1. CASE b \in new
        BY <1>12, <4>1
      <4>2. CASE b \in left[o]
        <5>1. b \in view[o]
          BY <1>1, <1>9, <2>2, <4>2
        <5> QED
          BY <1>1, <1>4, <5>1 DEF IInv, ViewInv, ShownOnMap
      <4> QED
        BY <1>10, <1>11, <2>2, <2>4, <4>1, <4>2
    <3>3. b \in OnMap /\ At(loc[b]) \in InView(to)
      BY <1>16, <1>25, <2>2, <2>4, <3>1
    <3> QED
      BY <1>4, <1>6, <2>1, <2>2, <2>4, <3>2, <3>3
  <2>5. CASE b = o
    <3>1. a \in left[o] \/ a \in new
      BY <1>1, <1>10, <1>13, <2>2, <2>5 DEF Symmetric
    <3>2. a \in after
      BY <1>8, <1>11, <1>15, <2>2, <2>5, <3>1
    <3>3. a \in OnMap /\ a \in watchers[At(to)]
      BY <1>16, <3>2 DEF WatchersAt
    <3>4. o \in OnMap'
      <4>1. CASE a \in new
        BY <1>12, <4>1
      <4>2. CASE a \in left[o]
        <5>1. a \in view[o]
          BY <1>1, <1>9, <4>2
        <5> QED
          BY <1>1, <1>4, <5>1 DEF IInv, ViewInv, ShownOnMap
      <4> QED
        BY <3>1, <4>1, <4>2
    <3> QED
      BY <1>4, <1>6, <2>1, <2>5, <3>3, <3>4
  <2> QED
    BY <2>3, <2>4, <2>5
<1>22. ViewCapped'
  <2>1. \A a \in Obj : Cardinality(view[a]) <= MaxView
    BY DEF IInv, ViewInv, ViewCapped
  <2>2. \A a \in Obj : Cardinality(left[a]) <= MaxView
    <3> HIDE DEF lost
    <3> QED
      BY <1>1, <1>2, <1>8, <2>1, DelCapped DEF left
  <2> HIDE DEF gained
  <2>3. \A a \in Obj : Cardinality(Add(left, o, gained)[a]) <= MaxView
    BY <1>1, <1>8, <1>9, <2>2, AddCapped
  <2> QED
    BY <1>3, <2>3 DEF ViewCapped
<1>23. ShownOnMap'
  <2> SUFFICES ASSUME NEW a \in Obj, NEW b \in view'[a]
               PROVE  a \in OnMap'
    BY DEF ShownOnMap
  <2>1. \A c \in Obj : left[c] # {} => c \in OnMap
    BY <1>9 DEF IInv, ViewInv, ShownOnMap
  <2> QED
    BY <1>4, <1>10, <1>12, <2>1
<1>24. ScreenInv'
  <2> DEFINE M == OnMap'
  <2>1. M \in SUBSET Obj /\ Users(M)
    BY <1>1, <1>4, ShownFacts DEF Users
  <2>2. Shown(screen, view, loc, M) /\ OthersEmpty(screen, M)
    <3>1. ASSUME o \notin OnMap
          PROVE  ShownTo(screen[owner[o]], view, loc, o)
      <4>1. screen[u] = Blank
        BY <1>1, <3>1, ShownFacts DEF OthersEmpty
      <4>2. view[o] = {}
        BY <1>1, <3>1 DEF IInv, ViewInv, ShownOnMap
      <4> QED
        BY <1>1, <4>1, <4>2 DEF Blank, ShownTo
    <3> QED
      BY <1>4, <3>1, ShownFacts DEF Shown, OthersEmpty
  <2>3. \A a \in M : owner[a] = owner[o] => a = o
    BY <1>1, <1>4
  <2>4. ListsOf(view, M) /\ M \subseteq loaded
    BY <1>1, <1>4, ShownFacts DEF ListsOf
  <2> HIDE DEF M
  <2>5. /\ Shown(ShowDel(screen, view, o, lost), left, loc, M)
        /\ OthersEmpty(ShowDel(screen, view, o, lost), M)
    <3> HIDE DEF lost
    <3> QED
      BY <1>1, <1>2, <1>8, <2>1, <2>2, <2>3, <2>4, DelShown DEF left
  <2>6. /\ Shown(scr, left, [loc EXCEPT ![o] = to], M)
        /\ OthersEmpty(scr, M)
    <3> HIDE DEF lost
    <3> QED
      BY <1>1, <1>2, <1>9, <2>1, <2>4, <2>5, MoveShown
  <2>7. Shown(screen', view', loc', M) /\ OthersEmpty(screen', M)
    <3>1. CASE o \in M
      <4>1. /\ loc' \in [Obj -> Reach] /\ loc'[o] = to
            /\ \A q \in Obj : q # o => loc'[q] = loc[q]
        BY <1>1, <1>2, <1>3
      <4>2. Added(left, o, gained) \subseteq M
        BY <1>4, <1>12 DEF M, new
      <4> HIDE DEF scr, gained
      <4>3. Shown(scr, left, loc', M)
        BY <1>3, <2>6
      <4>4. /\ Shown(ShowAdd(scr, left, o, gained, loc'[o]), Add(left, o, gained), loc', M)
            /\ OthersEmpty(ShowAdd(scr, left, o, gained, loc'[o]), M)
        BY <1>8, <1>9, <2>1, <2>6, <3>1, <4>1, <4>2, <4>3, AddShown
      <4> QED
        BY <1>3, <4>1, <4>4
    <3>2. CASE o \notin M
      <4>1. gained = {} /\ new = {}
        BY <1>7, <1>12, <3>2 DEF M
      <4>2. view' = left
        BY <1>3, <1>9, <4>1 DEF Add, new
      <4>3. \A w \in User : DOMAIN scr[w] \cup ToldAdd(left, o, gained, w) = DOMAIN scr[w]
        BY <4>1 DEF ToldAdd, new
      <4>4. \A w \in User : screen'[w] = [q \in DOMAIN scr[w] |-> scr[w][q]]
        <5> TAKE w \in User
        <5>1. screen'[w]
                = [q \in DOMAIN scr[w] \cup ToldAdd(left, o, gained, w) |->
                     IF q \in ToldAdd(left, o, gained, w)
                     THEN (IF q = o THEN to ELSE loc[q]) ELSE scr[w][q]]
          <6> HIDE DEF scr, gained
          <6> QED
            BY <1>3 DEF ShowAdd, ToldAdd
        <5>2. ToldAdd(left, o, gained, w) = {}
          BY <4>1 DEF ToldAdd, new
        <5> HIDE DEF scr, gained
        <5> QED
          BY <5>1, <5>2
      <4> HIDE DEF scr
      <4>5. \A a \in M : owner[a] \in User
        BY <2>1 DEF Users
      <4>6. ASSUME NEW a \in M
            PROVE  ShownTo(screen'[owner[a]], left, loc', a)
        <5>1. ShownTo(scr[owner[a]], left, loc', a)
          BY <1>3, <2>6 DEF Shown
        <5>2. screen'[owner[a]] = [q \in DOMAIN scr[owner[a]] |-> scr[owner[a]][q]]
          BY <4>4, <4>5
        <5> QED
          BY <5>1, <5>2 DEF ShownTo
      <4>7. ASSUME NEW w \in User, \A a \in M : owner[a] # w
            PROVE  screen'[w] = Blank
        <5>1. scr[w] = Blank
          BY <2>6, <4>7 DEF OthersEmpty
        <5>2. screen'[w] = [q \in DOMAIN scr[w] |-> scr[w][q]]
          BY <4>4
        <5> QED
          BY <5>1, <5>2 DEF Blank
      <4> QED
        BY <4>2, <4>6, <4>7 DEF Shown, OthersEmpty
    <3> QED
      BY <3>1, <3>2
  <2> QED
    BY <1>3, <2>7 DEF ScreenInv, ScreenTrue, OthersBlank, Shown, ShownTo, OthersEmpty, M
<1> QED
  BY <1>4, <1>17, <1>18, <1>19, <1>20, <1>21, <1>22, <1>23, <1>24, <1>26
  DEF IInv, MapInv, ViewInv

-----------------------------------------------------------------------------
(* A player leaves.                                                        *)

\* Of those who kept to the map, all who have him on their lists have his tower in view, if
\* he kept to it as well, so all are told.  The others may keep him.
LEMMA LoginOutIInv ==
  ASSUME IInv, NEW u \in User, LoginOut(u)
  PROVE  IInv'
<1> DEFINE o    == userObj[u]
           p    == loc[o]
           list == WatchersAt(p) \ {o}
           left == Del(view, o, list)
           scr  == ShowDel(screen, view, o, list)
<1>1. CASE o \notin loaded
  <2>1. UNCHANGED <<towerVars, owner, loaded, userObj, loc, view, screen, strayed>>
    BY <1>1 DEF LoginOut
  <2>2. ready' \subseteq User
    BY DEF LoginOut, IInv, TypeOK
  <2> QED
    BY <2>1, <2>2, UnchangedIInv
<1>2. CASE o \in loaded
  <2>1. /\ ready' = ready \ {u}
        /\ DelWatcher(o, p)
        /\ loaded' = loaded \ {o}
        /\ userObj' = [userObj EXCEPT ![owner[o]] = 0]
        /\ loc' = [loc EXCEPT ![o] = Start]
        /\ view' = [left EXCEPT ![o] = {}]
        /\ screen' = [scr EXCEPT ![u] = Blank]
        /\ owner' = owner /\ strayed' = strayed
    BY <1>2 DEF LoginOut, DelPlayerData, Blank
  <2>2. /\ o \in Obj /\ o # 0 /\ owner[o] = u /\ p \in Reach
        /\ \A a \in OnMap : owner[a] = u => a = o
    BY <1>2, UserFacts
  <2>3. \A w \in User : userObj[w] # 0 => owner[userObj[w]] = w
    BY DEF IInv, CacheInv, UserHasPlayer
  <2> HIDE DEF o
  <2>4. /\ TypeOK /\ TowersTrack /\ view \in [Obj -> SUBSET Obj] /\ loc \in [Obj -> Reach]
        /\ userObj \in [User -> Obj \cup {0}]
    BY DEF IInv, MapInv, TypeOK
  <2>5. /\ WatchersAt(p) \in SUBSET Obj /\ list \in SUBSET Obj /\ o \notin list
        /\ \A a \in Obj : a \in WatchersAt(p) => a \in OnMap
    BY <2>2, <2>4, WatchersMeans
  <2>6. At(p) \in Ids /\ \A a \in Obj : At(loc[a]) \in Ids
    BY <2>2, <2>4, AtInRange
  <2>7. /\ objs' \in [Ids -> SUBSET Obj] /\ watchers' \in [Ids -> SUBSET Obj]
        /\ \A a \in Obj, i \in Ids :
             /\ a \in objs'[i] <=> a \in objs[i] /\ ~(a = o /\ i = At(p))
             /\ a \in watchers'[i] <=> a \in watchers[i] /\ ~(a = o /\ i \in InView(p))
    <3> HIDE DEF p
    <3> QED
      BY <2>1, <2>2, <2>4, DelWatcherSteps
  <2>8. \A i \in Ids : o \notin objs'[i] /\ o \notin watchers'[i]
    BY <2>2, <2>4, <2>7 DEF TowersTrack
  <2>9. /\ OnMap' = OnMap \ {o}
        /\ \A a \in Obj, i \in Ids : a # o => /\ a \in objs'[i] <=> a \in objs[i]
                                              /\ a \in watchers'[i] <=> a \in watchers[i]
    <3> HIDE DEF p
    <3>1. \A a \in Obj, i \in Ids : a # o => /\ a \in objs'[i] <=> a \in objs[i]
                                             /\ a \in watchers'[i] <=> a \in watchers[i]
      BY <2>7
    <3> QED
      BY <2>8, <3>1 DEF OnMap
  <2>10. /\ left \in [Obj -> SUBSET Obj]
         /\ \A a, b \in Obj :
              b \in left[a] <=> /\ b \in view[a]
                                /\ ~(a = o /\ b \in list)
                                /\ ~(a \in list \cap view[o] /\ b = o)
    <3> HIDE DEF list
    <3> QED
      BY <2>2, <2>4, <2>5, DelMembers
  <2>11. \A a \in Obj \ strayed :
            o \notin strayed /\ o \in view[a] /\ a # o => a \in list \cap view[o]
    BY <2>2, ShownFacts DEF IInv, ViewInv, ViewIsNear, WatchersAt, Symmetric
  <2>12. /\ view' \in [Obj -> SUBSET Obj] /\ view'[o] = {}
         /\ \A a \in Obj : a # o => view'[a] = left[a] /\ view'[a] \subseteq view[a]
         /\ \A a \in Obj, b \in Obj : a # o /\ b # o => (b \in view'[a] <=> b \in view[a])
    <3> HIDE DEF left, list
    <3>1. view' \in [Obj -> SUBSET Obj] /\ view'[o] = {}
      BY <2>1, <2>2, <2>10
    <3>2. \A a \in Obj : a # o => view'[a] = left[a]
      BY <2>1, <2>10
    <3>3. \A a \in Obj : left[a] \subseteq view[a]
      BY <2>10
    <3>4. \A a, b \in Obj : b # o /\ a # o => (b \in left[a] <=> b \in view[a])
      BY <2>10
    <3> QED
      BY <3>1, <3>2, <3>3, <3>4
  <2>13. /\ loc' \in [Obj -> Reach] /\ \A a \in Obj : a # o => loc'[a] = loc[a]
    BY <2>1, <2>2, <2>4, StartOnMap
  <2>14. /\ userObj' \in [User -> Obj \cup {0}] /\ userObj'[u] = 0
         /\ \A w \in User : w # u => userObj'[w] = userObj[w]
    BY <2>1, <2>2, <2>4
  <2>15. TypeOK'
    <3>1. ScreenOK(screen')
      <4>1. ScreenOK(scr)
        <5> HIDE DEF list
        <5> QED
          BY <2>2, <2>4, <2>5, StartOnMap, ShownFacts, ShowTypes
      <4>2. scr = [w \in User |-> scr[w]]
        BY DEF ShowDel
      <4> HIDE DEF scr
      <4>3. \A w \in User : screen'[w] = IF w = u THEN Blank ELSE scr[w]
        BY <2>1, <4>2
      <4> QED
        BY <4>1, <4>3 DEF ScreenOK, Blank
    <3>2. owner' \in [Obj -> User \cup {0}] /\ loaded' \subseteq Obj /\ ready' \subseteq User
      BY <2>1, <2>4 DEF TypeOK
    <3> QED
      BY <2>1, <2>4, <2>7, <2>12, <2>13, <2>14, <3>1, <3>2 DEF TypeOK, ScreenOK
  <2>16. CacheInv'
    <3>1. UserHasPlayer'
      <4> SUFFICES ASSUME NEW w \in User, userObj'[w] # 0
                   PROVE  userObj'[w] \in loaded' /\ owner[userObj'[w]] = w
        BY <2>1 DEF UserHasPlayer
      <4>1. w # u /\ userObj'[w] = userObj[w]
        BY <2>14
      <4>2. userObj[w] \in loaded /\ owner[userObj[w]] = w
        BY <4>1 DEF IInv, CacheInv, UserHasPlayer
      <4> QED
        BY <2>1, <2>2, <4>1, <4>2
    <3>2. LoadedRoles'
      BY <2>1 DEF IInv, CacheInv, LoadedRoles, Roles
    <3> QED
      BY <3>1, <3>2 DEF CacheInv
  <2>17. TowersTrack'
    <3> SUFFICES ASSUME NEW a \in Obj
                 PROVE  \/ \A i \in Ids : a \notin objs'[i] /\ a \notin watchers'[i]
                        \/ /\ a \in loaded'
                           /\ \A i \in Ids : /\ a \in objs'[i] <=> i = At(loc'[a])
                                             /\ a \in watchers'[i] <=> i \in InView(loc'[a])
      BY DEF TowersTrack, At, CellToTower, TowerId, InView
    <3>1. CASE a = o
      BY <2>8, <3>1
    <3>2. CASE a # o
      BY <2>1, <2>4, <2>9, <2>13, <3>2 DEF TowersTrack
    <3> QED
      BY <3>1, <3>2
  <2>18. OnMapPlays'
    <3> SUFFICES ASSUME NEW a \in OnMap, a # o
                 PROVE  userObj'[owner[a]] = a
      BY <2>1, <2>9 DEF OnMapPlays
    <3>1. owner[a] \in User /\ owner[a] # u
      BY <2>2, ShownFacts DEF Users
    <3> QED
      BY <2>14, <3>1 DEF IInv, MapInv, OnMapPlays
  <2>24. KeptCells'
    BY <2>1, <2>4, <2>13, StartOnMap DEF IInv, MapInv, KeptCells
  <2>25. \A a \in Obj \ strayed : \A b \in view'[a] \ strayed :
            a # o /\ b # o /\ b \in Obj /\ b \in view[a]
    <3> SUFFICES ASSUME NEW a \in Obj, a \notin strayed, NEW b \in view'[a], b \notin strayed
                 PROVE  a # o /\ b # o /\ b \in Obj /\ b \in view[a]
      OBVIOUS
    <3>1. a # o /\ b \in Obj /\ b \in view[a] /\ b \in left[a]
      BY <2>4, <2>12
    <3> HIDE DEF left, list
    <3>2. b # o
      BY <2>10, <2>11, <3>1
    <3> QED
      BY <3>1, <3>2
  <2>19. ViewSymmetric'
    <3> SUFFICES ASSUME NEW a \in Obj, NEW b \in view'[a], a \notin strayed, b \notin strayed
                 PROVE  b \in loaded' /\ a \in view'[b]
      BY <2>1 DEF ViewSymmetric
    <3>1. a # o /\ b \in view[a] /\ b # o /\ b \in Obj
      BY <2>25
    <3>2. b \in loaded /\ a \in view[b]
      BY <3>1 DEF IInv, ViewInv, ViewSymmetric
    <3> QED
      BY <2>1, <2>12, <3>1, <3>2
  <2>20. ViewIsNear'
    <3> SUFFICES ASSUME NEW a \in Obj, NEW b \in view'[a], b # a, a \notin strayed, b \notin strayed
                 PROVE  {a, b} \subseteq OnMap' /\ a \in watchers'[At(loc'[b])]
      BY <2>1 DEF ViewIsNear, At, CellToTower, TowerId
    <3>1. a # o /\ b \in view[a] /\ b # o /\ b \in Obj
      BY <2>25
    <3>2. {a, b} \subseteq OnMap /\ a \in watchers[At(loc[b])]
      BY <3>1 DEF IInv, ViewInv, ViewIsNear
    <3> QED
      BY <2>6, <2>9, <2>13, <3>1, <3>2
  <2>21. ViewCapped'
    <3>1. \A a \in Obj : view'[a] \subseteq view[a]
      BY <2>2, <2>12
    <3>2. \A a \in Obj : Cardinality(view'[a]) <= Cardinality(view[a])
                         /\ Cardinality(view'[a]) \in Nat /\ Cardinality(view[a]) \in Nat
      <4> TAKE a \in Obj
      <4>1. IsFiniteSet(view[a])
        BY <2>4, WorldAssumption, FS_Subset
      <4>2. IsFiniteSet(view'[a]) /\ Cardinality(view'[a]) <= Cardinality(view[a])
        BY <3>1, <4>1, FS_Subset
      <4> QED
        BY <4>1, <4>2, FS_CardinalityType
    <3>3. \A a \in Obj : Cardinality(view[a]) <= MaxView
      BY DEF IInv, ViewInv, ViewCapped
    <3> QED
      BY <3>2, <3>3, WorldAssumption DEF ViewCapped
  <2>22. ShownOnMap'
    <3> SUFFICES ASSUME NEW a \in Obj, NEW b \in view'[a]
                 PROVE  a \in OnMap'
      BY DEF ShownOnMap
    <3>1. a # o /\ b \in view[a]
      BY <2>2, <2>12
    <3> QED
      BY <2>9, <3>1 DEF IInv, ViewInv, ShownOnMap
  <2>23. ScreenInv'
    <3> DEFINE M == OnMap \ {o}
    <3>1. M \in SUBSET Obj /\ Users(M) /\ \A a \in M : owner[a] # u
      BY <2>2, ShownFacts DEF Users
    <3>3. ASSUME NEW w \in User, w # u, \A a \in M : owner[a] # w
          PROVE  scr[w] = Blank
      <4>1. screen[w] = Blank
        BY <2>2, <3>3, ShownFacts DEF OthersEmpty
      <4>2. scr[w] = [q \in DOMAIN screen[w] \ ToldDel(view, o, list, w) |-> screen[w][q]]
        BY DEF ShowDel, ToldDel
      <4> QED
        BY <4>1, <4>2 DEF Blank
    <3>4. ASSUME NEW a \in M
          PROVE  ShownTo(scr[owner[a]], view', loc', a)
      <4>1. ShownTo(scr[owner[a]], left, loc, a)
        <5>1. Shown(screen, view, loc, OnMap) /\ OthersEmpty(screen, OnMap)
          BY ShownFacts
        <5>2. OnMap \in SUBSET Obj /\ Users(OnMap) /\ ListsOf(view, OnMap)
          BY ShownFacts
        <5>3. \A b \in OnMap : owner[b] = owner[o] => b = o
          BY <2>2
        <5> HIDE DEF list
        <5>4. Shown(scr, left, loc, OnMap)
          BY <2>2, <2>4, <2>5, <5>1, <5>2, <5>3, DelShown
        <5> QED
          BY <5>4 DEF Shown
      <4>2. a \in Obj /\ a # o
        BY <3>1
      <4> HIDE DEF scr, left, list
      <4>3. view'[a] = left[a] /\ view'[a] \subseteq Obj
        BY <2>12, <4>2
      <4>4. \A q \in view'[a] : a \in view'[q] => q # o /\ a \in left[q] /\ loc'[q] = loc[q]
        BY <2>12, <2>13, <4>2, <4>3
      <4> QED
        BY <4>1, <4>3, <4>4 DEF ShownTo
    <3>5. scr = [w \in User |-> scr[w]]
      BY DEF ShowDel
    <3> HIDE DEF scr
    <3>6. \A w \in User : screen'[w] = IF w = u THEN Blank ELSE scr[w]
      BY <2>1, <3>5
    <3>7. ScreenTrue'
      <4>0. ScreenTrue' <=> \A a \in OnMap' : ShownTo(screen'[owner'[a]], view', loc', a)
        BY DEF ScreenTrue, ShownTo
      <4> SUFFICES ASSUME NEW a \in M PROVE ShownTo(screen'[owner[a]], view', loc', a)
        BY <2>1, <2>9, <4>0
      <4>1. screen'[owner[a]] = scr[owner[a]]
        BY <3>1, <3>6 DEF Users
      <4> QED
        BY <3>4, <4>1
    <3>8. OthersBlank'
      <4> SUFFICES ASSUME NEW w \in User, \A a \in M : owner[a] # w PROVE screen'[w] = Blank
        BY <2>1, <2>9 DEF OthersBlank
      <4> QED
        BY <3>3, <3>6
    <3> QED
      BY <3>7, <3>8 DEF ScreenInv
  <2> QED
    BY <2>15, <2>16, <2>17, <2>18, <2>19, <2>20, <2>21, <2>22, <2>23, <2>24
    DEF IInv, MapInv, ViewInv
<1> QED
  BY <1>1, <1>2

-----------------------------------------------------------------------------

LEMMA NextIInv == IInv /\ [Next]_vars => IInv'
<1> SUFFICES ASSUME IInv, [Next]_vars PROVE IInv'
  OBVIOUS
<1>1. CASE UNCHANGED vars
  <2>1. UNCHANGED <<towerVars, owner, loaded, userObj, loc, view, screen, strayed>> /\ ready' = ready
    BY <1>1 DEF vars
  <2>2. ready' \subseteq User
    BY <2>1 DEF IInv, TypeOK
  <2> QED
    BY <2>1, <2>2, UnchangedIInv
<1>2. CASE Next
  BY <1>2, CreateRoleIInv, ClientReadyIInv, LoginOutIInv, EnterGameIInv, MoveIInv DEF Next
<1> QED
  BY <1>1, <1>2

\* The variables stay in their types for all the moves the code can deal with, those out
\* of the map included: the towers' ids stay ids.
THEOREM WorldTypeCorrect == Spec => []TypeOK
<1>1. IInv => TypeOK
  BY DEF IInv
<1> QED
  BY <1>1, InitIInv, NextIInv, PTL DEF Spec

\* A user's entry in the cache leads to a player of his who is there.
THEOREM UsersHavePlayers == Spec => []UserHasPlayer
<1>1. IInv => UserHasPlayer
  BY DEF IInv, CacheInv
<1> QED
  BY <1>1, InitIInv, NextIInv, PTL DEF Spec

\* The towers list each player of the map where he stands and where he looks, and hold
\* no ghost of one who moved on or logged out.
THEOREM TowersAreRight == Spec => []TowersTrack
<1>1. IInv => TowersTrack
  BY DEF IInv, MapInv
<1> QED
  BY <1>1, InitIInv, NextIInv, PTL DEF Spec

\* Of two players who have kept to the map one is on the other's list just if the other is
\* on his, whatever others do outside: each of the two lists is kept up by its own
\* differences, and a list that is full refuses both.
THEOREM ViewsAreMutual == Spec => []ViewSymmetric
<1>1. IInv => ViewSymmetric
  BY DEF IInv, ViewInv
<1> QED
  BY <1>1, InitIInv, NextIInv, PTL DEF Spec

\* Of two players who have kept to the map nobody stays on the list of one he has moved
\* away from, or who has moved away from him.
THEOREM ViewsAreNear == Spec => []ViewIsNear
<1>1. IInv => ViewIsNear
  BY DEF IInv, ViewInv
<1> QED
  BY <1>1, InitIInv, NextIInv, PTL DEF Spec

\* No list is longer than the cap, although each player adds himself to others' lists.
THEOREM ViewsAreCapped == Spec => []ViewCapped
<1>1. IInv => ViewCapped
  BY DEF IInv, ViewInv
<1> QED
  BY <1>1, InitIInv, NextIInv, PTL DEF Spec

\* What a client has been told adds up to the list the server keeps for its player, also
\* where players who left the map have made the lists differ.
THEOREM ScreensAreTrue == Spec => []ScreenTrue
<1>1. IInv => ScreenTrue
  BY DEF IInv, ScreenInv
<1> QED
  BY <1>1, InitIInv, NextIInv, PTL DEF Spec
-----------------------------------------------------------------------------
(* Clients that keep to the order, and room for every role there is.       *)

\* Nobody has left the map.
NoneStrayed == strayed = {}

\* Nobody is on his own list: only a second CLIENT_READY_CMD puts him there.
NotSelf == \A o \in Obj : o \notin view[o]

\* The users on the map are those who said they are ready and have a player.
OnMapReady == \A o \in OnMap : owner[o] \in ready

ReadyOnMap == \A u \in ready : userObj[u] # 0 => userObj[u] \in OnMap

OrderInv == NoneStrayed /\ NotSelf /\ OnMapReady /\ ReadyOnMap /\ ViewIsNeighbourhood

\* What the invariant says then.
LEMMA KeptFacts ==
  ASSUME IInv, NoneStrayed
  PROVE  /\ \A a, b \in Obj : b \in view[a] => a \in view[b]
         /\ \A a \in Obj : view[a] \subseteq OnMap
         /\ \A a \in Obj : loc[a] \in Cell
<1>1. \A a, b \in Obj : b \in view[a] => a \in view[b]
  BY ShownFacts DEF Symmetric, NoneStrayed
<1>2. \A a \in Obj : view[a] \subseteq Obj
  BY DEF IInv, TypeOK
<1>3. \A a \in Obj : view[a] \subseteq OnMap
  BY <1>1, <1>2, ShownFacts DEF ListsOf
<1>4. \A a \in Obj : loc[a] \in Cell
  BY DEF IInv, MapInv, KeptCells, NoneStrayed
<1> QED
  BY <1>1, <1>3, <1>4

\* The half of ViewIsNeighbourhood that ViewIsNear does not say.
NoneMissing ==
    \A a, b \in OnMap : a # b /\ b \in watchers[At(loc[a])] => b \in view[a]

LEMMA NeighbourhoodMeans ==
  ASSUME IInv, NoneStrayed
  PROVE  /\ ViewIsNeighbourhood => NoneMissing
         /\ NotSelf /\ NoneMissing => ViewIsNeighbourhood
<1>1. ViewIsNeighbourhood => NoneMissing
  BY DEF ViewIsNeighbourhood, NoneMissing
<1>2. ASSUME NotSelf, NoneMissing, NEW a \in OnMap
      PROVE  view[a] = (OnMap \cap watchers[At(loc[a])]) \ {a}
  <2>1. a \in Obj /\ a \notin view[a] /\ view[a] \subseteq OnMap
    BY <1>2, ShownFacts, KeptFacts DEF NotSelf
  <2>2. \A b \in view[a] : a \in view[b] /\ b \in Obj
    BY <2>1, ShownFacts, KeptFacts
  <2>3. \A b \in view[a] : b \in watchers[At(loc[a])]
    BY <2>1, <2>2 DEF IInv, ViewInv, ViewIsNear, NoneStrayed
  <2> QED
    BY <1>2, <2>1, <2>3 DEF NoneMissing
<1> QED
  BY <1>1, <1>2 DEF ViewIsNeighbourhood

\* While a list that lacks one of the ids has room, everyone is added.
LEMMA AllAdded ==
  ASSUME Cardinality(Obj) <= MaxView,
         NEW v \in [Obj -> SUBSET Obj], \A a \in Obj : a \notin v[a],
         NEW o \in Obj, NEW list \in SUBSET loaded, list \subseteq Obj, o \notin list
  PROVE  \A t \in list : t \notin v[o] => t \in Added(v, o, list)
<1>1. ASSUME NEW S, S \subseteq Obj, NEW a \in Obj, a \notin S
      PROVE  Cardinality(S) < MaxView
  <2>1. IsFiniteSet(S) /\ Cardinality(S) \in Nat /\ Cardinality(Obj) \in Nat
    BY <1>1, WorldAssumption, FS_Subset, FS_CardinalityType
  <2>2. /\ IsFiniteSet(S \cup {a})
        /\ Cardinality(S \cup {a}) = Cardinality(S) + 1
    BY <1>1, <2>1, FS_AddElement
  <2>3. S \cup {a} \subseteq Obj
    BY <1>1
  <2>4. Cardinality(S \cup {a}) <= Cardinality(Obj)
    BY <2>3, WorldAssumption, FS_Subset
  <2> QED
    BY <2>1, <2>2, <2>4, WorldAssumption
<1> DEFINE able == Addable(v, o, list)
<1>2. ASSUME NEW t \in list, t \notin v[o]
      PROVE  t \in Added(v, o, list)
  <2>1. Cardinality(v[t]) < MaxView
    BY <1>1
  <2>2. t \in able
    BY <1>2, <2>1 DEF Addable
  <2> DEFINE before == {s \in able : s < t}
  <2>3. before \subseteq list
    BY DEF Addable
  <2>4. o \notin v[o] \cup before /\ v[o] \cup before \subseteq Obj
    BY <2>3
  <2>5. Cardinality(v[o] \cup before) < MaxView
    <3> HIDE DEF before
    <3> QED
      BY <1>1, <2>4
  <2> QED
    BY <2>2, <2>4, <2>5 DEF Added
<1> QED
  BY <1>2

\* Creating and entering leave the map alone, and come before CLIENT_READY_CMD.
LEMMA OffMapOrder ==
  ASSUME IInv, OrderInv, NEW u \in User, u \notin ready,
         UNCHANGED <<towerVars, loc, view, ready, strayed>>,
         NEW o \in Obj, owner[o] \in {0, u}, owner' \in {owner, [owner EXCEPT ![o] = u]},
         o \in OnMap => owner' = owner,
         \A w \in User : w # u => userObj'[w] = userObj[w]
  PROVE  OrderInv'
<1>1. OnMap' = OnMap
  BY DEF OnMap, towerVars
<1>2. NoneStrayed' /\ NotSelf' /\ ViewIsNeighbourhood'
  BY <1>1
  DEF OrderInv, NoneStrayed, NotSelf, ViewIsNeighbourhood, towerVars, At, CellToTower, TowerId
<1>3. \A a \in OnMap : owner'[a] = owner[a]
  BY ShownFacts DEF IInv, TypeOK
<1>4. OnMapReady'
  BY <1>1, <1>3 DEF OrderInv, OnMapReady
<1>5. ReadyOnMap'
  BY <1>1 DEF OrderInv, ReadyOnMap, IInv, TypeOK
<1> QED
  BY <1>2, <1>4, <1>5 DEF OrderInv

LEMMA CreateEnterOrder ==
  ASSUME Orderly, IInv, OrderInv, NEW u \in User,
         CreateRole(u) \/ \E o \in Obj : EnterGame(u, o)
  PROVE  OrderInv'
<1>1. ASSUME CreateRole(u)
      PROVE  OrderInv'
  <2>1. PICK o \in Obj \ Roles : AddPlayerData(o, u) /\ owner' = [owner EXCEPT ![o] = u]
    BY <1>1 DEF CreateRole
  <2>2. owner[o] = 0 /\ o \notin OnMap
    BY ShownFacts DEF Roles, IInv, CacheInv, LoadedRoles
  <2>3. \A w \in User : w # u => userObj'[w] = userObj[w]
    BY <2>1 DEF AddPlayerData, IInv, TypeOK
  <2> QED
    BY <1>1, <2>1, <2>2, <2>3, OffMapOrder DEF CreateRole, AddPlayerData
<1>2. ASSUME NEW o \in Obj, EnterGame(u, o)
      PROVE  OrderInv'
  <2>1. owner[o] = u /\ u \notin ready
    BY <1>2 DEF EnterGame
  <2>2. \A w \in User : w # u => userObj'[w] = userObj[w]
    BY <1>2, <2>1 DEF EnterGame, AddPlayerData, IInv, TypeOK
  <2> QED
    BY <1>2, <2>1, <2>2, OffMapOrder DEF EnterGame, AddPlayerData
<1> QED
  BY <1>1, <1>2

\* Who appears is new to the map, so everyone in view is added, on both lists.
LEMMA ClientReadyOrder ==
  ASSUME Orderly, Cardinality(Obj) <= MaxView, IInv, OrderInv, NEW u \in User, ClientReady(u)
  PROVE  OrderInv'
<1> DEFINE o    == userObj[u]
           p    == loc[o]
           list == WatchersAt(p)
           new  == Added(view, o, list)
<1>0. u \notin ready /\ IInv'
  BY ClientReadyIInv DEF ClientReady
<1>1. CASE o \notin loaded
  <2>1. /\ UNCHANGED <<towerVars, owner, loaded, userObj, loc, view, strayed>>
        /\ ready' = ready \cup {u} /\ OnMap' = OnMap
    BY <1>1 DEF ClientReady, OnMap, towerVars
  <2>2. userObj[u] = 0
    BY <1>1 DEF IInv, CacheInv, UserHasPlayer
  <2> QED
    BY <2>1, <2>2 DEF OrderInv, NoneStrayed, NotSelf, OnMapReady, ReadyOnMap, ViewIsNeighbourhood,
                      towerVars, At, CellToTower, TowerId
<1>2. CASE o \in loaded
  <2> HIDE DEF o, p, list
  <2>0. o = userObj[u] /\ p = loc[o] /\ list = WatchersAt(p)
    BY DEF o, p, list
  <2>1. /\ ready' = ready \cup {u}
        /\ UNCHANGED <<owner, loaded, userObj, loc, strayed>>
        /\ o \in Obj /\ owner[o] = u /\ p \in Reach
        /\ view \in [Obj -> SUBSET Obj] /\ loc \in [Obj -> Reach]
        /\ OnMap' = OnMap \cup {o}
    BY <1>2, <2>0, ReadySteps
  <2>2. /\ list \in SUBSET Obj
        /\ \A a \in Obj : a \in list <=> a \in OnMap /\ At(p) \in InView(loc[a])
        /\ At(p) \in Ids /\ \A a \in Obj : At(loc[a]) \in Ids
    BY <1>2, <2>0, ReadySteps
  <2>3. \A a \in Obj, i \in Ids :
           a \in watchers'[i] <=> a \in watchers[i] \/ (a = o /\ i \in InView(p))
    BY <1>2, <2>0, ReadySteps
  <2>4. \A a, b \in Obj : b \in view'[a] <=> \/ b \in view[a]
                                             \/ a = o /\ b \in new
                                             \/ a \in new /\ b = o
    BY <1>2, <2>0, ReadySteps
  <2>5. o \notin OnMap
    BY <1>0, <2>1 DEF OrderInv, OnMapReady
  <2>6. view[o] = {} /\ o \notin list
    BY <2>1, <2>2, <2>5 DEF IInv, ViewInv, ShownOnMap
  <2>7. \A t \in list : t \in new
    <3>1. list \in SUBSET loaded /\ \A a \in Obj : a \notin view[a]
      BY <2>2, ShownFacts DEF OrderInv, NotSelf
    <3> QED
      BY <2>1, <2>2, <2>6, <3>1, AllAdded
  <2>13. NoneStrayed /\ NoneStrayed'
    BY <2>1 DEF OrderInv, NoneStrayed
  <2>14. \A a \in Obj : loc[a] \in Cell
    BY <2>13, KeptFacts
  <2>8. NotSelf'
    <3>1. o \notin new
      BY <2>6, AddedIn
    <3> QED
      BY <2>4, <3>1 DEF OrderInv, NotSelf
  <2>9. OnMapReady'
    BY <2>1 DEF OrderInv, OnMapReady
  <2>10. ReadyOnMap'
    BY <2>0, <2>1 DEF OrderInv, ReadyOnMap
  <2>11. NoneMissing'
    <3> SUFFICES ASSUME NEW a \in OnMap', NEW b \in OnMap', a # b, b \in watchers'[At(loc[a])]
                 PROVE  b \in view'[a]
      BY <2>1 DEF NoneMissing, At, CellToTower, TowerId
    <3>1. a \in Obj /\ b \in Obj
      BY <2>1, ShownFacts
    <3>2. CASE a = o
      <4>1. b \in list
        BY <2>0, <2>3, <3>1, <3>2, <2>2 DEF WatchersAt
      <4> QED
        BY <2>4, <2>7, <3>1, <3>2, <4>1
    <3>3. CASE b = o
      <4>1. At(loc[a]) \in InView(p)
        <5>1. o \notin watchers[At(loc[a])]
          BY <2>1, <2>2, <2>5, <3>1, OnMapMeans DEF IInv, MapInv
        <5> QED
          BY <2>2, <2>3, <3>1, <3>3, <5>1
      <4>2. a \in list
        BY <2>0, <2>1, <2>2, <2>14, <3>1, <3>3, <4>1, InViewSymmetric
      <4> QED
        BY <2>4, <2>7, <3>1, <3>3, <4>2
    <3>4. CASE a # o /\ b # o
      <4>1. b \in watchers[At(loc[a])] /\ a \in OnMap /\ b \in OnMap
        BY <2>1, <2>2, <2>3, <3>1, <3>4
      <4> QED
        BY <2>4, <2>13, <3>1, <4>1, NeighbourhoodMeans DEF OrderInv, NoneMissing
    <3> QED
      BY <3>2, <3>3, <3>4
  <2>12. IInv' /\ NoneStrayed' /\ NotSelf' /\ NoneMissing' => ViewIsNeighbourhood'
    BY NeighbourhoodMeans, PTL
  <2> QED
    BY <1>0, <2>8, <2>9, <2>10, <2>11, <2>12, <2>13 DEF OrderInv
<1> QED
  BY <1>1, <1>2

\* Who meets whom on a move is added, and who is left behind was near before.
LEMMA MoveOrder ==
  ASSUME Orderly, Cardinality(Obj) <= MaxView, IInv, OrderInv,
         NEW u \in User, NEW to \in Reach, Move(u, to)
  PROVE  OrderInv'
<1> DEFINE o      == userObj[u]
           from   == loc[o]
           before == WatchersAt(from) \ {o}
           after  == WatchersAt(to) \ {o}
           lost   == before \ after
           gained == after \ before
           left   == Del(view, o, lost)
           new    == Added(left, o, gained)
<1>0. u \in ready /\ to \in Cell /\ IInv'
  BY MoveIInv DEF Move
<1>17. NoneStrayed /\ NoneStrayed' /\ \A a \in Obj : loc[a] \in Cell
  BY <1>0, KeptFacts DEF OrderInv, NoneStrayed, Move
<1>1. /\ o \in Obj /\ owner[o] = u /\ from \in Reach /\ o \in loaded /\ o \in OnMap
  BY <1>0, UserFacts DEF Move, OrderInv, ReadyOnMap
<1>2. TypeOK /\ TowersTrack /\ view \in [Obj -> SUBSET Obj] /\ loc \in [Obj -> Reach]
  BY DEF IInv, MapInv, TypeOK
<1>3. /\ MoveWatcher(o, from, to)
      /\ view' = Add(left, o, gained)
      /\ loc' = [loc EXCEPT ![o] = to]
      /\ UNCHANGED <<owner, loaded, userObj, ready>>
  <2>1. WatchersLost(o, from, to) = lost /\ WatchersGained(o, from, to) = gained
    BY <1>1, <1>2, MoveLists
  <2> QED
    BY <2>1 DEF Move
<1> HIDE DEF o
<1>4. /\ OnMap' = OnMap
      /\ \A a \in Obj, i \in Ids : a # o => (a \in watchers'[i] <=> a \in watchers[i])
      /\ \A i \in Ids : o \in watchers'[i] => i \in InView(to)
  <2>1. /\ OnMap \subseteq OnMap' /\ OnMap' \subseteq OnMap \cup {o}
        /\ \A a \in Obj, i \in Ids : a # o => (a \in watchers'[i] <=> a \in watchers[i])
        /\ o \in OnMap' => \A i \in Ids : o \in watchers'[i] <=> i \in InView(to)
    BY <1>1, <1>2, <1>3, MoveTowers
  <2> QED
    BY <1>1, <2>1
<1>5. /\ WatchersAt(from) \in SUBSET OnMap /\ WatchersAt(to) \in SUBSET OnMap
      /\ \A a \in Obj : a \in WatchersAt(to) <=> a \in OnMap /\ At(to) \in InView(loc[a])
  <2>1. \A q \in Reach : /\ WatchersAt(q) \in SUBSET Obj
                         /\ \A a \in WatchersAt(q) : a \in OnMap
    BY <1>2, WatchersMeans
  <2> QED
    BY <1>1, <1>2, <2>1, WatchersMeans
<1>6. At(to) \in Ids /\ \A a \in Obj : At(loc[a]) \in Ids
  BY <1>2, AtInRange
<1>7. /\ lost \in SUBSET Obj /\ gained \in SUBSET Obj /\ gained \in SUBSET loaded
      /\ o \notin lost /\ o \notin gained
  BY <1>5, ShownFacts
<1>8. /\ left \in [Obj -> SUBSET Obj]
      /\ \A a, b \in Obj :
           b \in left[a] <=> /\ b \in view[a]
                             /\ ~(a = o /\ b \in lost)
                             /\ ~(a \in lost \cap view[o] /\ b = o)
  <2> HIDE DEF lost
  <2> QED
    BY <1>1, <1>2, <1>7, DelMembers
<1> HIDE DEF left
<1>9. \A a, b \in Obj : b \in view'[a] <=> \/ b \in left[a]
                                           \/ a = o /\ b \in new
                                           \/ a \in new /\ b = o
  <2> HIDE DEF gained
  <2> QED
    BY <1>1, <1>3, <1>7, <1>8, AddMembers
<1>10. \A a \in Obj : a \notin left[a]
  BY <1>8 DEF OrderInv, NotSelf
<1>11. \A t \in gained : t \in left[o] \/ t \in new
  <2> HIDE DEF gained
  <2> QED
    BY <1>1, <1>7, <1>8, <1>10, AllAdded
<1>12. NotSelf'
  <2>1. o \notin new
    <3> HIDE DEF gained
    <3> QED
      BY <1>7, AddedIn
  <2> HIDE DEF new
  <2> QED
    BY <1>9, <1>10, <2>1 DEF NotSelf
<1>13. OnMapReady' /\ ReadyOnMap'
  BY <1>3, <1>4 DEF OrderInv, OnMapReady, ReadyOnMap
<1>14. \A b \in after : b \in view'[o]
  <2> SUFFICES ASSUME NEW b \in after PROVE b \in view'[o]
    OBVIOUS
  <2>0. b \in OnMap /\ b \in Obj /\ b # o
    BY <1>5, ShownFacts
  <2>1. CASE b \in before
    <3>1. b \in view[o]
      BY <1>1, <1>17, <2>0, <2>1, NeighbourhoodMeans DEF OrderInv, NoneMissing, WatchersAt
    <3>2. b \in left[o]
      BY <1>1, <1>8, <2>0, <3>1
    <3> HIDE DEF new
    <3> QED
      BY <1>1, <1>9, <2>0, <3>2
  <2>2. CASE b \notin before
    <3> HIDE DEF new
    <3> QED
      BY <1>1, <1>9, <1>11, <2>0, <2>2
  <2> QED
    BY <2>1, <2>2
<1> HIDE DEF new
<1>15. NoneMissing'
  <2>0. loc'[o] = to /\ \A a \in Obj : a # o => loc'[a] = loc[a]
    BY <1>1, <1>2, <1>3
  <2> SUFFICES ASSUME NEW a \in OnMap', NEW b \in OnMap', a # b, b \in watchers'[At(loc'[a])]
               PROVE  b \in view'[a]
    BY DEF NoneMissing, At, CellToTower, TowerId
  <2>1. a \in Obj /\ b \in Obj /\ a \in OnMap /\ b \in OnMap
    BY <1>4, ShownFacts
  <2>2. CASE a = o
    <3>1. b \in after
      BY <1>4, <1>6, <2>0, <2>1, <2>2 DEF WatchersAt
    <3> QED
      BY <1>14, <2>2, <3>1
  <2>3. CASE b = o
    <3>1. At(loc[a]) \in InView(to)
      BY <1>4, <1>6, <2>0, <2>1, <2>3
    <3>2. a \in after
      BY <1>0, <1>5, <1>17, <2>1, <2>3, <3>1, InViewSymmetric
    <3>3. a \in view'[b]
      BY <1>14, <2>3, <3>2
    <3>4. \A x \in Obj : \A y \in view'[x] : x \in view'[y]
      BY <1>0, <1>17 DEF IInv, ViewInv, ViewSymmetric, NoneStrayed
    <3> QED
      BY <2>1, <3>3, <3>4
  <2>4. CASE a # o /\ b # o
    <3>1. b \in watchers[At(loc[a])]
      BY <1>4, <1>6, <2>0, <2>1, <2>4
    <3>2. b \in view[a]
      BY <1>17, <2>1, <3>1, NeighbourhoodMeans DEF OrderInv, NoneMissing
    <3>3. b \in left[a]
      BY <1>8, <2>1, <2>4, <3>2
    <3> QED
      BY <1>9, <2>1, <3>3
  <2> QED
    BY <2>2, <2>3, <2>4
<1>16. IInv' /\ NoneStrayed' /\ NotSelf' /\ NoneMissing' => ViewIsNeighbourhood'
  BY NeighbourhoodMeans, PTL
<1> QED
  BY <1>0, <1>12, <1>13, <1>15, <1>16, <1>17 DEF OrderInv

\* Who logs out is taken off the other lists, and nothing else changes between the others.
LEMMA LoginOutOrder ==
  ASSUME Orderly, IInv, OrderInv, NEW u \in User, LoginOut(u)
  PROVE  OrderInv'
<1> DEFINE o    == userObj[u]
           p    == loc[o]
           list == WatchersAt(p) \ {o}
           left == Del(view, o, list)
<1>0. IInv'
  BY LoginOutIInv
<1>1. CASE o \notin loaded
  <2>1. /\ UNCHANGED <<towerVars, owner, loaded, userObj, loc, view, strayed>>
        /\ ready' = ready \ {u} /\ OnMap' = OnMap
    BY <1>1 DEF LoginOut, OnMap, towerVars
  <2>2. \A a \in OnMap : owner[a] # u
    BY <1>1, ShownFacts DEF IInv, MapInv, OnMapPlays
  <2> QED
    BY <2>1, <2>2 DEF OrderInv, NoneStrayed, NotSelf, OnMapReady, ReadyOnMap, ViewIsNeighbourhood,
                      towerVars, At, CellToTower, TowerId
<1>2. CASE o \in loaded
  <2>1. /\ ready' = ready \ {u}
        /\ DelWatcher(o, p)
        /\ userObj' = [userObj EXCEPT ![owner[o]] = 0]
        /\ loc' = [loc EXCEPT ![o] = Start]
        /\ view' = [left EXCEPT ![o] = {}]
        /\ owner' = owner /\ strayed' = strayed
    BY <1>2 DEF LoginOut, DelPlayerData
  <2>2. /\ o \in Obj /\ o # 0 /\ owner[o] = u /\ p \in Reach
        /\ \A a \in OnMap : owner[a] = u => a = o
    BY <1>2, UserFacts
  <2>3. \A w \in User : w # u => userObj[w] # o
    BY <2>2 DEF IInv, CacheInv, UserHasPlayer
  <2> HIDE DEF o
  <2>4. /\ TypeOK /\ TowersTrack /\ view \in [Obj -> SUBSET Obj] /\ loc \in [Obj -> Reach]
        /\ userObj \in [User -> Obj \cup {0}]
    BY DEF IInv, MapInv, TypeOK
  <2>5. WatchersAt(p) \in SUBSET Obj /\ list \in SUBSET Obj
    BY <2>2, <2>4, WatchersMeans
  <2>6. \A a \in Obj : At(loc[a]) \in Ids
    BY <2>4, AtInRange
  <2>7. \A a \in Obj, i \in Ids :
           /\ a \in objs'[i] <=> a \in objs[i] /\ ~(a = o /\ i = At(p))
           /\ a \in watchers'[i] <=> a \in watchers[i] /\ ~(a = o /\ i \in InView(p))
    <3> HIDE DEF p
    <3> QED
      BY <2>1, <2>2, <2>4, DelWatcherSteps
  <2>8. OnMap' = OnMap \ {o}
    <3>1. \A i \in Ids : o \notin objs'[i]
      BY <2>2, <2>4, <2>7 DEF TowersTrack
    <3> HIDE DEF p
    <3> QED
      BY <2>7, <3>1 DEF OnMap
  <2>9. /\ left \in [Obj -> SUBSET Obj]
        /\ \A a, b \in Obj :
             b \in left[a] <=> /\ b \in view[a]
                               /\ ~(a = o /\ b \in list)
                               /\ ~(a \in list \cap view[o] /\ b = o)
    <3> HIDE DEF list
    <3> QED
      BY <2>2, <2>4, <2>5, DelMembers
  <2> HIDE DEF left, list
  <2>10. \A a \in Obj : view'[a] = IF a = o THEN {} ELSE left[a]
    BY <2>1, <2>9
  <2>16. NoneStrayed /\ NoneStrayed'
    BY <2>1 DEF OrderInv, NoneStrayed
  <2>11. NotSelf'
    BY <2>9, <2>10 DEF OrderInv, NotSelf
  <2>12. OnMapReady'
    BY <2>1, <2>2, <2>8 DEF OrderInv, OnMapReady
  <2>13. ReadyOnMap'
    <3>1. \A w \in User : userObj'[w] = IF w = u THEN 0 ELSE userObj[w]
      BY <2>1, <2>2, <2>4
    <3>2. ready \subseteq User
      BY <2>4 DEF TypeOK
    <3> QED
      BY <2>1, <2>3, <2>8, <3>1, <3>2 DEF OrderInv, ReadyOnMap
  <2>14. NoneMissing'
    <3>0. \A a \in Obj : a # o => loc'[a] = loc[a]
      BY <2>1, <2>4
    <3> SUFFICES ASSUME NEW a \in OnMap', NEW b \in OnMap', a # b, b \in watchers'[At(loc'[a])]
                 PROVE  b \in view'[a]
      BY DEF NoneMissing, At, CellToTower, TowerId
    <3>1. a \in Obj /\ b \in Obj /\ a \in OnMap /\ b \in OnMap /\ a # o /\ b # o
      BY <2>8, ShownFacts
    <3>2. b \in watchers[At(loc[a])]
      BY <2>6, <2>7, <3>0, <3>1
    <3>3. b \in view[a]
      BY <2>16, <3>1, <3>2, NeighbourhoodMeans DEF OrderInv, NoneMissing
    <3> QED
      BY <2>9, <2>10, <3>1, <3>3
  <2>15. IInv' /\ NoneStrayed' /\ NotSelf' /\ NoneMissing' => ViewIsNeighbourhood'
    BY NeighbourhoodMeans, PTL
  <2> QED
    BY <1>0, <2>11, <2>12, <2>13, <2>14, <2>15, <2>16 DEF OrderInv
<1> QED
  BY <1>1, <1>2

LEMMA NextOrder ==
  ASSUME Orderly, Cardinality(Obj) <= MaxView
  PROVE  IInv /\ OrderInv /\ [Next]_vars => OrderInv'
<1> SUFFICES ASSUME IInv, OrderInv, [Next]_vars PROVE OrderInv'
  OBVIOUS
<1>1. CASE UNCHANGED vars
  BY <1>1 DEF vars, towerVars, OrderInv, NoneStrayed, NotSelf, OnMapReady, ReadyOnMap, ViewIsNeighbourhood,
              OnMap, At, CellToTower, TowerId
<1>2. CASE Next
  BY <1>2, CreateEnterOrder, ClientReadyOrder, MoveOrder, LoginOutOrder DEF Next
<1> QED
  BY <1>1, <1>2

\* If the clients keep to the order of a session and to the map, and a list has room for
\* every role, then for all the differences it is kept up by it is the neighbourhood itself.
THEOREM ViewsAreNeighbourhoods ==
  ASSUME Orderly, Cardinality(Obj) <= MaxView
  PROVE  Spec => []ViewIsNeighbourhood
<1>1. Init => OrderInv
  <2> SUFFICES ASSUME Init PROVE OrderInv
    OBVIOUS
  <2>1. OnMap = {}
    BY DEF Init, TowersInit, OnMap
  <2> QED
    BY <2>1 DEF Init, OrderInv, NoneStrayed, NotSelf, OnMapReady, ReadyOnMap, ViewIsNeighbourhood
<1>2. IInv /\ OrderInv /\ [Next]_vars => OrderInv'
  BY NextOrder
<1>3. OrderInv => ViewIsNeighbourhood
  BY DEF OrderInv
<1> QED
  BY <1>1, <1>2, <1>3, InitIInv, NextIInv, PTL DEF Spec
=============================================================================
