CONSTANTS
    Thread = {p1, p2}
    Layer = {l1}
    Zoom <- MCZoom
    Side <- MCSide
    Tile <- MCTile
    Word <- MCWord
    Value = {v1, v2}
    Null = Null
SPECIFICATION Spec
INVARIANTS
    CacheIsFound
PROPERTIES
    ImplementsTileMap
