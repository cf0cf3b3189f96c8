---------------------------- MODULE MCTileViewer ----------------------------
(* Instances of TileViewer for TLC: a world of 32 units, tiles of 4 pixels. *)
EXTENDS TilePicture

CONSTANTS roads, land, islands, nothing, garbled

Geometry(type, coordinates) == [type |-> type, coordinates |-> coordinates]
Feature(id, geometry) == [id |-> id, geometry |-> geometry]

\* Points, one of them at the date line, and a collection of geometries.
Places ==
  <<Feature("town", Geometry("Point", <<13, 11>>)),
    Feature("ports", Geometry("MultiPoint", <<<<1, 30>>, <<16, 16>>, <<31, 2>>>>)),
    Feature("mixed", Geometry("GeometryCollection",
              <<Geometry("Point", <<7, 40>>), Geometry("LineString", <<<<4, 4>>, <<9, 9>>>>)>>)),
    Feature("lost", [type |-> "null", coordinates |-> <<>>])>>

\* A line that zigzags across many tiles, and lines that cross the date line.
Roads ==
  <<Feature("zigzag", Geometry("LineString",
       <<<<2, 2>>, <<3, 3>>, <<4, 2>>, <<6, 4>>, <<9, 1>>, <<10, 1>>, <<18, 9>>, <<10, 17>>,
         <<10, 20>>, <<12, 20>>>>)),
    Feature("ferries", Geometry("MultiLineString",
       <<<<<<26, 10>>, <<38, 22>>>>, <<<<-3, 5>>, <<0, 5>>, <<3, 8>>>>>>))>>

\* A polygon that covers whole tiles, with a bay, and one with a hole.
Land ==
  <<Feature("mainland", Geometry("Polygon",
       <<<<<<2, 2>>, <<30, 2>>, <<30, 30>>, <<19, 30>>, <<19, 20>>, <<17, 20>>, <<17, 30>>, <<2, 30>>,
           <<2, 2>>>>>>))>>

Islands ==
  <<Feature("atoll", Geometry("Polygon",
       <<<<<<10, 10>>, <<18, 10>>, <<18, 18>>, <<10, 18>>, <<10, 10>>>>,
         <<<<12, 12>>, <<12, 16>>, <<16, 16>>, <<16, 12>>, <<12, 12>>>>>>)),
    Feature("far", Geometry("MultiPolygon",
       <<<<<<<<28, 3>>, <<36, 3>>, <<36, 7>>, <<28, 7>>, <<28, 3>>>>>>,
         <<<<<<3, 26>>, <<5, 26>>, <<5, 28>>, <<3, 28>>, <<3, 26>>>>>>>>))>>

MCData == [f \in Files |->
             CASE f = roads -> convert(Roads) [] f = land -> convert(Land)
               [] f = islands -> convert(Places \o Islands)
               [] f = nothing -> convert(<<>>) [] f = garbled -> Null]

\* A tile at the date line, and one in the middle of the land.
MCProbe == {<<3, 0, 2>>, <<3, 2, 2>>}
=============================================================================
