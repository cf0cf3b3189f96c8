--------------------------- MODULE GeoJsonConvert ---------------------------
(***************************************************************************)
(* How GeoJSON becomes the features of the tile index (geojson-vt-dev.js,  *)
(* simplify.js and convert.js): it is projected, and the vertices of each  *)
(* line are ranked by importance, once and for all zooms.                  *)
(***************************************************************************)
EXTENDS GeoJsonVt

(* simplify.js *)

getSqSegDist(p, a, b) ==
  LET d(u, v) == <<v[1] - u[1], v[2] - u[2]>>
      ab   == d(a, b)
      sq   == Square(ab[1]) + Square(ab[2])
      dot  == d(a, p)[1] * ab[1] + d(a, p)[2] * ab[2]
      near == IF sq # 0 /\ dot > sq THEN b ELSE a
  IN IF sq # 0 /\ dot > 0 /\ dot <= sq
     THEN <<Square(d(a, p)[1] * ab[2] - d(a, p)[2] * ab[1]), sq>>
     ELSE <<Square(d(near, p)[1]) + Square(d(near, p)[2]), 1>>

\* The first of the points between first and last that are farthest from the
\* segment, or Null when none is off it.
Farthest(points, first, last) ==
  LET farthest(dist) ==
        LET far == {i \in DOMAIN dist : /\ dist[i][1] > 0
                                       /\ \A j \in DOMAIN dist : ~Exceeds(dist[j], dist[i])}
        IN IF far = {} THEN Null ELSE [index |-> Min(far), dist |-> dist[Min(far)]]
  IN farthest([i \in (first + 1)..(last - 1) |->
                 getSqSegDist(points[i], points[first], points[last])])

\* The loop of simplify: first and last are the segment looked at, the stack
\* holds the pairs still to look at.
RECURSIVE Ranked(_, _, _, _, _)
Ranked(points, sqTolerance, first, last, stack) ==
  LET next(far) ==
        IF far # Null /\ Exceeds(far.dist, sqTolerance)
        THEN Ranked([points EXCEPT ![far.index][3] = far.dist], sqTolerance,
                    far.index, last, Append(stack, <<first, far.index>>))
        ELSE IF stack = <<>> THEN points
        ELSE Ranked(points, sqTolerance, Last(stack)[1], Last(stack)[2], Front(stack))
  IN next(Farthest(points, first, last))

simplify(points, sqTolerance) ==
  Ranked([points EXCEPT ![1][3] = Most, ![Len(points)][3] = Most],
         sqTolerance, 1, Len(points), <<>>)

-----------------------------------------------------------------------------
(* convert.js *)

\* Coordinates are given where the formula of Mercator puts them; what lies
\* beyond the poles of the map is moved to its edge.
projectPoint(p) == <<p[1], IF p[2] < 0 THEN 0 ELSE IF p[2] > World THEN World ELSE p[2],
                     <<0, 1>>>>

\* A ring is a line of points with the size it had before it was clipped: its
\* length, and twice its area.
calcSize(points) ==
  LET add(acc, i) ==
        LET a == points[i] b == points[i + 1] IN
        [area |-> acc.area + a[1] * b[2] - b[1] * a[2],
         dist |-> acc.dist + Distance(b[1] - a[1]) + Distance(b[2] - a[2])]
  IN FoldLeft(add, [area |-> 0, dist |-> 0], [i \in 1..(Len(points) - 1) |-> i])

\* The tolerance is that of MaxZoom, whose pixel is the unit.
project(lonlats, outer) ==
  LET sized(points, size) ==
        [points |-> points, area |-> Distance(size.area), dist |-> size.dist, outer |-> outer]
      ring(points) == sized(points, calcSize(points))
  IN ring(simplify([i \in DOMAIN lonlats |-> projectPoint(lonlats[i])],
                   <<Square(Tolerance), 1>>))

RECURSIVE convertFeature(_, _)
convertFeature(id, geom) ==
  LET coords == geom.coordinates
      rings(polygon) == [i \in DOMAIN polygon |-> project(polygon[i], i = 1)]
  IN CASE geom.type = "null" -> <<>>
       [] geom.type = "Point" -> <<createFeature(id, 1, <<projectPoint(coords)>>)>>
       [] geom.type = "MultiPoint" ->
            <<createFeature(id, 1, [i \in DOMAIN coords |-> projectPoint(coords[i])])>>
       [] geom.type = "LineString" -> <<createFeature(id, 2, <<project(coords, Null)>>)>>
       [] geom.type = "MultiLineString" ->
            <<createFeature(id, 2, [i \in DOMAIN coords |-> project(coords[i], Null)])>>
       [] geom.type = "Polygon" -> <<createFeature(id, 3, rings(coords))>>
       [] geom.type = "MultiPolygon" ->
            <<createFeature(id, 3, FlattenSeq([i \in DOMAIN coords |-> rings(coords[i])]))>>
       [] geom.type = "GeometryCollection" ->  \* the members have no id
            FlattenSeq([i \in DOMAIN coords |-> convertFeature(Null, coords[i])])

convert(data) ==
  FlattenSeq([i \in DOMAIN data |-> convertFeature(data[i].id, data[i].geometry)])
=============================================================================
