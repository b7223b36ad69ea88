SPECIFICATION Spec
CONSTANTS
    Width = 3
    Height = 3
    TowerW = 1
    TowerH = 1
    ViewW = 1
    ViewH = 1
    Outside = {}
    Obj = {1, 2, 3}
    User = {1, 2, 3}
    MaxView = 3
    Orderly = TRUE
INVARIANT
    ViewIsNeighbourhood
