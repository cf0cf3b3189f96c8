----------------------------- MODULE GeoJsonVt -----------------------------
(***************************************************************************)
(* The tile index of the sandbox page (geojson-vt-dev.js): features are    *)
(* wrapped around the date line, clipped into a pyramid of tiles and       *)
(* drilled down into on demand.                                            *)
(*                                                                         *)
(* Coordinates are whole numbers: the unit is a pixel of a tile at         *)
(* MaxZoom, the world is a square of World units.  Where a line is cut     *)
(* must be a whole number too, so lines run level, upright or diagonally.  *)
(* Tags are left out; a feature is known by its id.                        *)
(***************************************************************************)
EXTENDS Integers, SequencesExt

CONSTANTS Null,
          MaxZoom, IndexMaxZoom, IndexMaxPoints, SolidChildren,  \* the options of
          Tolerance, Extent, Buffer                              \* GeoJSONVT

ASSUME GeoJsonVtAssumption == /\ MaxZoom \in Nat \ {0}
                              /\ IndexMaxZoom \in 0..MaxZoom
                              /\ IndexMaxPoints \in Nat
                              /\ SolidChildren \in BOOLEAN
                              /\ {Tolerance, Extent} \subseteq Nat \ {0}
                              /\ Buffer \in Nat

\* 1 << z, as a function for the proofs' sake.
z2[z \in Nat] == IF z = 0 THEN 1 ELSE 2 * z2[z - 1]

Pixel    == [z \in 0..MaxZoom |-> z2[MaxZoom - z]]
World    == Extent * Pixel[0]

\* The fraction nom / den of two whole numbers that divide.
Quotient(nom, den) == IF den > 0 THEN nom \div den ELSE (-nom) \div (-den)

\* A point is <<x, y, importance>>; an importance is a fraction <<nom, den>>.
Exceeds(q, r) == q[1] * r[2] > r[1] * q[2]
Square(n) == n * n
Distance(n) == IF n < 0 THEN -n ELSE n
Most == <<Square(World), 1>>

-----------------------------------------------------------------------------
(* feature.js *)

Vertices(type, geometry) ==
  IF type = 1 THEN geometry
  ELSE FlattenSeq([i \in DOMAIN geometry |-> geometry[i].points])

createFeature(id, type, geometry) ==
  LET along(axis) == {p[axis] : p \in Range(Vertices(type, geometry))} IN
  [id |-> id, type |-> type, geometry |-> geometry,
   min |-> <<Min(along(1)), Min(along(2))>>, max |-> <<Max(along(1)), Max(along(2))>>]

-----------------------------------------------------------------------------
(* clip.js *)

\* intersectX and intersectY: where the segment from a to b meets k on the axis.
intersect(a, b, k, axis) ==
  LET other == 3 - axis
      at == Quotient((k - a[axis]) * (b[other] - a[other]), b[axis] - a[axis]) + a[other]
  IN IF axis = 1 THEN <<k, at, Most>> ELSE <<at, k, Most>>

newSlice(slices, slice, ring) ==
  IF slice = <<>> THEN slices ELSE Append(slices, [ring EXCEPT !.points = slice])

\* The points that the segment from a to b adds to a slice.
Crossing(a, b, k1, k2, axis) ==
  LET cut(k) == intersect(a, b, k, axis)
      ak == a[axis]
      bk == b[axis]
  IN CASE ak < k1 -> (IF bk >= k1 THEN <<cut(k1)>> ELSE <<>>)
                       \o (IF bk > k2 THEN <<cut(k2)>> ELSE <<>>)
       [] ak > k2 -> (IF bk <= k2 THEN <<cut(k2)>> ELSE <<>>)
                       \o (IF bk < k1 THEN <<cut(k1)>> ELSE <<>>)
       [] OTHER   -> <<a>> \o (IF bk < k1 THEN <<cut(k1)>>
                               ELSE IF bk > k2 THEN <<cut(k2)>> ELSE <<>>)

\* Mutant: a line that leaves the stripe goes on in the same slice.
LeavesNever(a, b, k1, k2, axis) == FALSE

Leaves(a, b, k1, k2, axis) == \/ a[axis] >= k1 /\ b[axis] < k1
                              \/ a[axis] <= k2 /\ b[axis] > k2

\* The last slice: it takes the end of the line if that is between k1 and k2, and
\* that of a ring is closed.
Ended(slice, end, k1, k2, axis) ==
  IF end[axis] >= k1 /\ end[axis] <= k2 THEN Append(slice, end) ELSE slice

Closed(slice) ==
  IF slice # <<>> /\ SubSeq(Head(slice), 1, 2) # SubSeq(Last(slice), 1, 2)
  THEN Append(slice, Head(slice)) ELSE slice

\* What has been clipped of a ring, slices and the one begun, with one more segment.
Clipped(acc, slice, ring, left) ==
  IF left THEN [slices |-> newSlice(acc.slices, slice, ring), slice |-> <<>>]
  ELSE [acc EXCEPT !.slice = slice]

clipRing(ring, k1, k2, axis, closed) ==
  LET add(acc, j) ==
        LET a == ring.points[j]
            b == ring.points[j + 1]
        IN Clipped(acc, acc.slice \o Crossing(a, b, k1, k2, axis), ring,
                   ~closed /\ Leaves(a, b, k1, k2, axis))
      finish(acc, last) == newSlice(acc.slices, IF closed THEN Closed(last) ELSE last, ring)
      finished(acc) == finish(acc, Ended(acc.slice, Last(ring.points), k1, k2, axis))
  IN finished(FoldLeft(add, [slices |-> <<>>, slice |-> <<>>],
                       [j \in 1..(Len(ring.points) - 1) |-> j]))

clipFeature(feature, k1, k2, axis) ==
  LET geometry == feature.geometry
      made(slices) ==
        IF slices = <<>> THEN <<>> ELSE <<createFeature(feature.id, feature.type, slices)>>
  IN IF feature.min[axis] >= k1 /\ feature.max[axis] <= k2 THEN <<feature>>
     ELSE IF feature.min[axis] > k2 \/ feature.max[axis] < k1 THEN <<>>
     ELSE made(IF feature.type = 1
               THEN SelectSeq(geometry, LAMBDA p : p[axis] >= k1 /\ p[axis] <= k2)
               ELSE FlattenSeq([i \in DOMAIN geometry |->
                      clipRing(geometry[i], k1, k2, axis, feature.type = 3)]))

\* The features between k1 and k2 on the axis, or Null; minAll and maxAll bound
\* them all.
clip(features, k1, k2, axis, minAll, maxAll) ==
  LET some(clipped) == IF clipped = <<>> THEN Null ELSE clipped
  IN IF minAll >= k1 /\ maxAll <= k2 THEN features
     ELSE IF minAll > k2 \/ maxAll < k1 THEN Null
     ELSE some(FlattenSeq([i \in DOMAIN features |-> clipFeature(features[i], k1, k2, axis)]))

-----------------------------------------------------------------------------
(* wrap.js *)

shiftFeature(feature, offset) ==
  LET shiftCoords(points) == [i \in DOMAIN points |-> [points[i] EXCEPT ![1] = @ + offset]]
      \* the copy has no member outer
      shiftRing(ring) == [ring EXCEPT !.points = shiftCoords(@), !.outer = Null]
      geometry == feature.geometry
  IN createFeature(feature.id, feature.type,
       IF feature.type = 1 THEN shiftCoords(geometry)
       ELSE [i \in DOMAIN geometry |-> shiftRing(geometry[i])])

wrap(features) ==
  LET buffer == Buffer * Pixel[0]
      stripe(k1, k2) == clip(features, k1, k2, 1, -World, 2 * World)
      copy(part, offset) ==
        IF part = Null THEN <<>> ELSE [i \in DOMAIN part |-> shiftFeature(part[i], offset)]
      merged(left, center, right) ==
        IF left = Null /\ right = Null THEN features
        ELSE copy(left, World) \o (IF center = Null THEN <<>> ELSE center) \o copy(right, -World)
  IN merged(stripe(-World - buffer, buffer), stripe(-buffer, World + buffer),
            stripe(World - buffer, 2 * World + buffer))

-----------------------------------------------------------------------------
(* tile.js and transform.js *)

signedArea(ring) ==
  LET add(acc, i) ==
        LET p == ring[i]
            q == ring[IF i = 1 THEN Len(ring) ELSE i - 1]
        IN acc + (q[1] - p[1]) * (p[2] + q[2])
  IN FoldLeft(add, 0, [i \in DOMAIN ring |-> i])

rewind(ring, clockwise) ==
  IF clockwise # Null /\ (signedArea(ring) < 0) = clockwise THEN Reverse(ring) ELSE ring

\* Whether addFeature leaves a ring out as too small; its area is counted twice.
Tiny(ring, type, z) == \/ type = 2 /\ ring.dist < Tolerance * Pixel[z]
                       \/ type = 3 /\ ring.area < 2 * Square(Tolerance * Pixel[z])

\* Mutant: points are kept by the tolerance of the zoom above.
ImportantAbove(p, z) == Exceeds(p[3], <<Square(2 * Tolerance * Pixel[z]), 1>>)

Important(p, z) == Exceeds(p[3], <<Square(Tolerance * Pixel[z]), 1>>)

\* What a tile at zoom z shows of a feature: a sequence that is empty if nothing.
addFeature(feature, z) ==
  LET keep(ring) == IF z = MaxZoom THEN ring.points
                    ELSE SelectSeq(ring.points, LAMBDA p : Important(p, z))
      wound(ring) == IF feature.type = 3 THEN rewind(keep(ring), ring.outer) ELSE keep(ring)
      shown == SelectSeq(feature.geometry, LAMBDA r : z = MaxZoom \/ ~Tiny(r, feature.type, z))
      geometry == IF feature.type = 1 THEN feature.geometry
                  ELSE [i \in DOMAIN shown |-> wound(shown[i])]
  IN IF geometry = <<>> THEN <<>>
     ELSE <<[id |-> feature.id, type |-> feature.type, geometry |-> geometry]>>

createTile(features, z) ==
  LET least(axis, start) == Min({start} \cup {features[i].min[axis] : i \in DOMAIN features})
      most(axis, start)  == Max({start} \cup {features[i].max[axis] : i \in DOMAIN features})
  IN [features |-> FlattenSeq([i \in DOMAIN features |-> addFeature(features[i], z)]),
      numPoints |-> FoldLeft(LAMBDA n, f : n + Len(Vertices(f.type, f.geometry)), 0, features),
      source |-> Null,
      transformed |-> FALSE,
      min |-> <<least(1, 2 * World), least(2, World)>>,
      max |-> <<most(1, -World), most(2, 0)>>]

\* Math.round rounds half a pixel up.
transformPoint(p, at) ==
  LET round(n) == (2 * n + Pixel[at[1]]) \div (2 * Pixel[at[1]])
  IN <<round(p[1]) - at[2] * Extent, round(p[2]) - at[3] * Extent>>

TransformFeatures(tile, at) ==
  LET line(points) == [i \in DOMAIN points |-> transformPoint(points[i], at)]
      one(feature) ==
        [feature EXCEPT !.geometry =
           IF feature.type = 1 THEN line(@) ELSE [j \in DOMAIN @ |-> line(@[j])]]
  IN [tile EXCEPT !.features = [i \in DOMAIN @ |-> one(@[i])], !.transformed = TRUE]

\* Mutant: a tile that has been transformed is transformed again.
TransformedAgain(tile, at) == TransformFeatures(tile, at)

transformTile(tile, at) == IF tile.transformed THEN tile ELSE TransformFeatures(tile, at)

-----------------------------------------------------------------------------
(* index.js: tiles maps the address <<z, x, y>> of a tile to the tile *)

isClippedSquare(tile, at) ==
  /\ Len(tile.source) = 1
  /\ LET feature == tile.source[1] IN
     /\ feature.type = 3 /\ Len(feature.geometry) = 1
     /\ Len(feature.geometry[1].points) = 5
     /\ \A i \in 1..5 : LET p == transformPoint(feature.geometry[1].points[i], at) IN
                          {p[1], p[2]} \subseteq {-Buffer, Extent + Buffer}

Above(at, z) == <<z, at[2] \div z2[at[1] - z], at[3] \div z2[at[1] - z]>>

\* Mutant: the first pass stops only where a tile is simple.
StopsIfSimple(tile, at, target) ==
  IF target = Null THEN tile.numPoints <= IndexMaxPoints
  ELSE at[1] = MaxZoom \/ at[1] = target[1] \/ at # Above(target, at[1])

\* Whether splitTile stops at a tile: of the first pass, or on the way to target.
StopsAt(tile, at, target) ==
  IF target = Null THEN at[1] = IndexMaxZoom \/ tile.numPoints <= IndexMaxPoints
  ELSE at[1] = MaxZoom \/ at[1] = target[1] \/ at # Above(target, at[1])

\* The features of one quarter of a tile: the left or right half of them, and of
\* that the upper or lower half.
Part(features, at, tile, right, bottom) ==
  LET side == Extent * Pixel[at[1]]
      half == side \div 2
      edge == Buffer * (Pixel[at[1]] \div 2)
      cut(part, axis, far) ==
        IF part = Null THEN Null
        ELSE clip(part, at[axis + 1] * side + far * half - edge,
                  at[axis + 1] * side + (1 + far) * half + edge, axis, tile.min[axis], tile.max[axis])
      array(part) == IF part = Null THEN <<>> ELSE part
  IN array(cut(cut(features, 1, right), 2, bottom))

\* The four quarters of a tile, as they are put on the stack.
Quarters(features, at, tile) ==
  LET child(right, bottom) == [features |-> Part(features, at, tile, right, bottom),
                               at |-> <<at[1] + 1, 2 * at[2] + right, 2 * at[3] + bottom>>]
  IN <<child(0, 0), child(0, 1), child(1, 0), child(1, 1)>>

\* A call of splitTile: the tiles still to make, the tile drilled for, or Null in
\* the first pass, and the zoom of the whole square found above that, or Null.
splitting(features, at, target) ==
  [stack |-> <<[features |-> features, at |-> at]>>, target |-> target, solid |-> Null]

Put(tiles, at, tile) == [v \in DOMAIN tiles \cup {at} |-> IF v = at THEN tile ELSE tiles[v]]

\* Mutant: a tile that is split keeps its features.
KeepsSource(tile) == tile

\* A tile that is split does not keep its features.
Sliced(tile) == [tile EXCEPT !.source = Null]

\* One turn of the loop of splitTile.
splitTile(tiles, split) ==
  LET features == Last(split.stack).features
      at   == Last(split.stack).at
      rest == Front(split.stack)
      tile == [(IF at \in DOMAIN tiles THEN tiles[at] ELSE createTile(features, at[1]))
                 EXCEPT !.source = features]
      kept == Put(tiles, at, tile)
      next(index, stack, solid) ==
        [tiles |-> index, split |-> [split EXCEPT !.stack = stack, !.solid = solid]]
  IN IF StopsAt(tile, at, split.target) THEN next(kept, rest, split.solid)
     ELSE IF ~SolidChildren /\ isClippedSquare(tile, at)
     THEN next(kept, rest, IF split.target = Null THEN split.solid ELSE at[1])
     ELSE next(Put(tiles, at, Sliced(tile)),
               IF features = <<>> THEN rest ELSE rest \o Quarters(features, at, tile), split.solid)

\* The tile that getTile is asked for, its column wrapped around the world.
Wrapped(v) == <<v[1], v[2] % z2[v[1]], v[3]>>

\* Where getTile begins: at the tile, if it is there, or else at the closest one
\* above it that is, or Null.
Closest(tiles, at) ==
  LET stored == {z \in 0..at[1] : Above(at, z) \in DOMAIN tiles}
  IN IF stored = {} THEN Null ELSE Above(at, Max(stored))

\* Whether getTile splits the tile at begin, which is above at, and whether it
\* returns that tile.
Drills(tiles, at, begin) == /\ begin \notin {Null, at}
                            /\ tiles[begin].source # Null
                            /\ ~isClippedSquare(tiles[begin], begin)

Serves(tiles, at, begin) == \/ begin = at
                            \/ /\ begin # Null
                               /\ tiles[begin].source # Null
                               /\ isClippedSquare(tiles[begin], begin)

\* The tile that a call of splitTile, now over, has made for its target, or Null.
Made(tiles, split) ==
  LET id == IF split.solid = Null THEN split.target ELSE Above(split.target, split.solid)
  IN IF id \in DOMAIN tiles THEN id ELSE Null

\* getTile transforms the tile that it returns.
Returned(tiles, at) ==
  IF at = Null THEN tiles ELSE [tiles EXCEPT ![at] = transformTile(@, at)]
=============================================================================
