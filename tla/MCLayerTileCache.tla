--------------------------- MODULE MCLayerTileCache ---------------------------
(***************************************************************************)
(* Instances of LayerTileCache.                                            *)
(***************************************************************************)
EXTENDS LayerTileCache

MCZoom == 0..14

MCSide == [z \in Zoom |-> 2^z]

\* 32 bits less the five of the zoom.
MCWord == 2^27

\* Addresses whose ids come closest below zoom 14: corners of one zoom, and
\* the same column and row at different zooms.
MCTile == {<<0, 0, 0>>, <<1, 1, 0>>, <<1, 0, 1>>, <<13, 8191, 8191>>}

\* In place of MCTile: two tiles at the layers' MaxZoom, in the same column, with
\* one id between them.  ImplementsTileMap is violated.
MCDeepTile == {<<14, 0, 0>>, <<14, 0, 8192>>}
=============================================================================
