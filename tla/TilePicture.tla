----------------------------- MODULE TilePicture -----------------------------
(***************************************************************************)
(* What the tiles of TileViewer should show.                               *)
(***************************************************************************)
EXTENDS TileViewer, GeoJsonConvert

CONSTANT Probe        \* tiles at MaxZoom that IndexServesEveryTile asks for

(* What a tile should show, said without clipping: the whole points of the
   plane that a feature covers, in the pixels of the tile.  The data is looked
   at three times, as the world repeats itself. *)

Box(lowest, highest) == (lowest..highest) \X (lowest..highest)

Between(a, b) ==
  LET n == Max({Distance(b[1] - a[1]), Distance(b[2] - a[2])}) IN
  {<<a[1] + Quotient(t * (b[1] - a[1]), n), a[2] + Quotient(t * (b[2] - a[2]), n)>> : t \in 1..n}

OnLine(points) == {<<points[1][1], points[1][2]>>}
                    \cup UNION {Between(points[i], points[i + 1]) : i \in 1..(Len(points) - 1)}

\* Whether the unit square whose least corner is c lies in the rings: an odd
\* number of their upright sides is to its left.
Inside(c, rings) ==
  LET toTheLeft(p, q) == /\ p[1] = q[1] /\ p[1] <= c[1]
                         /\ c[2] >= Min({p[2], q[2]}) /\ c[2] < Max({p[2], q[2]})
      sides(ring) == {j \in 1..(Len(ring) - 1) : toTheLeft(ring[j], ring[j + 1])}
  IN FoldLeft(LAMBDA n, ring : n + Cardinality(sides(ring)), 0, rings) % 2 = 1

Covered(type, geometry) ==
  CASE type = 1 -> {<<geometry[i][1], geometry[i][2]>> : i \in DOMAIN geometry}
    [] type = 2 -> UNION {OnLine(geometry[i]) : i \in DOMAIN geometry}
    [] type = 3 -> {c \in Box(-Buffer, Extent + Buffer - 1) : Inside(c, geometry)}

\* The feature's geometry in the pixels of the tile at v, moved by whole worlds.
Placed(feature, v, worlds) ==
  LET move(points) == [i \in DOMAIN points |->
                         <<points[i][1] + worlds * World - v[2] * Extent * Pixel[v[1]],
                           points[i][2] - v[3] * Extent * Pixel[v[1]]>>]
  IN IF feature.type = 1 THEN move(feature.geometry)
     ELSE [i \in DOMAIN feature.geometry |-> move(feature.geometry[i].points)]

\* The files that can be shown.
Readable == {f \in Files : Data[f] # Null}

\* What the tile at v of MaxZoom should show of each feature of a file.
AtMaxZoom == {MaxZoom} \X (0..(z2[MaxZoom] - 1)) \X (0..(z2[MaxZoom] - 1))
Expected ==
  [f \in Readable |-> [v \in AtMaxZoom |->
    UNION {{<<g.id, g.type>>} \X (Box(-Buffer, Extent + Buffer)
                                    \cap UNION {Covered(g.type, Placed(g, v, w)) : w \in -1..1})
           : g \in Range(Data[f])}]]

Shown(tile) == UNION {{<<f.id, f.type>>} \X Covered(f.type, f.geometry)
                      : f \in Range(tile.features)}

\* A tile at MaxZoom shows exactly what lies in it and its buffer, also when a
\* whole square above it is shown in its place.
DrawnTileIsRight ==
  call.event = "none" /\ canvas # Null /\ canvas.file = file /\ canvas.at[1] = MaxZoom =>
    Shown(tileIndex[canvas.tile]) = Expected[file[2]][canvas.at]

Answer(tiles, found) == IF found = Null THEN Null ELSE Returned(tiles, found)[found]

\* All the turns of a call of splitTile, and the tile that getTile would return.
RECURSIVE Finished(_, _)
Finished(tiles, work) ==
  IF work.stack = <<>> THEN Answer(tiles, Made(tiles, work))
  ELSE LET next == splitTile(tiles, work) IN Finished(next.tiles, next.split)

getTile(tiles, v) ==
  LET begin == Closest(tiles, v) IN
  IF Drills(tiles, v, begin) THEN Finished(tiles, splitting(tiles[begin].source, begin, v))
  ELSE Answer(tiles, IF Serves(tiles, v, begin) THEN begin ELSE Null)

\* Whatever tiles were asked for before, every tile can still be had: none whose
\* features were dropped when the index was split elsewhere.
IndexServesEveryTile ==
  call.event = "none" /\ tileIndex # Null =>
    \A v \in Probe : \A got \in {getTile(tileIndex, v)} :
      (IF got = Null THEN {} ELSE Shown(got)) = Expected[file[2]][v]

RECURSIVE DouglasPeucker(_, _, _, _)
DouglasPeucker(points, sqTolerance, first, last) ==
  LET kept(far) ==
        IF far = Null \/ ~Exceeds(far.dist, sqTolerance) THEN {first, last}
        ELSE DouglasPeucker(points, sqTolerance, first, far.index)
               \cup DouglasPeucker(points, sqTolerance, far.index, last)
  IN kept(Farthest(points, first, last))

\* A simplified tile shows every vertex that the algorithm of Douglas and Peucker
\* keeps at the tolerance of its zoom, though the importance of the vertices was
\* computed once, at that of MaxZoom.
KeepsDouglasPeucker ==
  call.event = "none" /\ canvas # Null /\ canvas.file = file =>
    LET z == canvas.tile[1]
        side == Extent * Pixel[z]
        in(p, axis) == p[axis] >= canvas.tile[axis + 1] * side
                       /\ p[axis] <= (canvas.tile[axis + 1] + 1) * side
    IN \A f \in {g \in Range(Data[file[2]]) : g.type = 2} : \A ring \in Range(f.geometry) :
         \A i \in DouglasPeucker(ring.points, <<Square(Tolerance * Pixel[z]), 1>>, 1, Len(ring.points)) :
           LET p == ring.points[i] IN
           in(p, 1) /\ in(p, 2) /\ ~Tiny(ring, 2, z) =>
             \E g \in Range(tileIndex[canvas.tile].features) : \E j \in DOMAIN g.geometry :
               g.id = f.id /\ g.type = 2 /\ transformPoint(p, canvas.tile) \in Range(g.geometry[j])
=============================================================================
