SPECIFICATION Spec
CONSTANTS
  Null = Null
  MaxZoom = 3
  IndexMaxZoom = 1
  IndexMaxPoints = 4
  SolidChildren = FALSE
  Tolerance = 1
  Extent = 4
  Buffer = 1
  roads = roads
  land = land
  islands = islands
  nothing = nothing
  garbled = garbled
  Files = {roads, land, islands, nothing, garbled}
  Data <- MCData
  Probe <- MCProbe
  MaxDrops = 2
  MaxMoves = 4
INVARIANTS
  DrawnTileIsRight
  IndexServesEveryTile
  FeaturesAreKeptOnce
  KeepsDouglasPeucker
  PictureIsWhereTheViewIs
PROPERTIES
  EachTurnGoesOn
CHECK_DEADLOCK FALSE
