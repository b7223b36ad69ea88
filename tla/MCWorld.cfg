SPECIFICATION Spec
CONSTANTS
    Width = 3
    Height = 3
    TowerW = 1
    TowerH = 1
    ViewW = 1
    ViewH = 1
    Outside <- MCRight
    Obj = {1, 2}
    User = {1, 2}
    MaxView = 1
    Orderly = FALSE
INVARIANTS
    TypeOK
    UserHasPlayer
    TowersTrack
    ViewSymmetric
    ViewIsNear
    ViewCapped
    ScreenTrue
