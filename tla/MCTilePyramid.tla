--------------------------- MODULE MCTilePyramid ---------------------------
(***************************************************************************)
(* Instances of TilePyramid: up to three zoom levels under the root and    *)
(* three features, a point confined to a corner, a polygon across the      *)
(* right half and a line beside the corner, which cannot be transformed.   *)
(***************************************************************************)
EXTENDS TilePyramid

CONSTANTS r1, r2, r3, corner, half, line

\* The tiles a feature touches.
Touches(f, t) ==
    CASE f = corner -> IsAncestor(t, <<"TL", "TL", "TL">>)
      [] f = line   -> IsAncestor(t, <<"TL", "TR">>)
      [] f = half   -> t = Root \/ t[1] \in {"TR", "BR"}

MCContent == [t \in Tile |-> {f \in Feature : Touches(f, t)}]

\* One tile beside the features is clipped to an empty array.
MCEmptyArray == {<<"BL">>} \cup (IF MaxZoom > 1 THEN {<<"TL", "BR">>} ELSE {})

\* The filled tiles of the runs that have some: an inner one and one at the
\* base zoom.
MCSolid == {<<"BR", "BR">>, <<"TR", "TL", "TL">>}

\* An inner tile with the line and a base tile inside it without; one tile
\* without features; one in a filled tile and one beside it; two below the base
\* zoom, one of them in a filled tile.
MCTarget == {<<"TL">>, <<"TL", "TL", "TL">>, <<"BL", "TL">>,
             <<"BR", "BR", "TL">>, <<"BR", "TL">>,
             <<"TL", "TL", "TL", "TL">>, <<"TR", "TL", "TL", "TL">>}

\* With one zoom level under the root: a tile that can be transformed, one
\* that cannot, one without features and one below the base zoom.
MCShallowTarget == {<<"TR">>, <<"TL">>, <<"BL">>, <<"TL", "BR">>}

\* In place of MCTarget with InFlight = 2: a tile and one inside it.
\* SourceIsNotNeeded is violated.
MCNestedTarget == {<<"TL">>, <<"TL", "TL">>}

MCNone == {}
=============================================================================
