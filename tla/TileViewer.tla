----------------------------- MODULE TileViewer -----------------------------
(***************************************************************************)
(* The page that looks at a GeoJSON file tile by tile (viz.js): files are  *)
(* dropped on it and read in the background, a click goes down into one    *)
(* of the four quarters and a button goes up again.  A handler runs to its *)
(* end before the next one starts; when it has tiles to make, each turn of *)
(* the loop that makes them is a step.                                     *)
(***************************************************************************)
EXTENDS GeoJsonVt

CONSTANTS Files,      \* the files a user may drop
          Data,       \* the features of each file, or Null if it cannot be parsed
          MaxDrops,   \* bound: files dropped
          MaxMoves    \* bound: clicks on the canvas and on the button

ASSUME ViewerAssumption == /\ Files \subseteq DOMAIN Data
                           /\ MaxDrops \in Nat
                           /\ MaxMoves \in Nat

\* Null is neither an array of features nor an address nor a file.
ASSUME NullAssumption == /\ Null # <<>>
                         /\ Null \notin Nat
                         /\ Null \notin Nat \X Nat \X Nat
                         /\ Null \notin Nat \X Files
                         /\ \A f \in Files : Data[f] # Null => wrap(Data[f]) # Null

VARIABLES
  tileIndex,  \* the tiles, or Null before a file is shown
  file,       \* the file they are of: <<number of the drop, file>>
  at,         \* <<z, x, y>> of the page
  canvas,     \* the file and address of the tile drawn, or Null
  button,     \* whether the button that goes up can be seen
  reading,    \* files being read
  call,       \* the handler that splits tiles: its event, or "none", and its work
  drops,
  moves

vars == <<tileIndex, file, at, canvas, button, reading, call, drops, moves>>

\* No handler is running.
Idle == [event |-> "none"]

Init == /\ tileIndex = Null
        /\ file = Null
        /\ at = <<0, 0, 0>>
        /\ canvas = Null
        /\ button = FALSE
        /\ reading = {}
        /\ call = Idle
        /\ drops = 0
        /\ moves = 0

zoomOut(v) == <<v[1] - 1, v[2] \div 2, v[3] \div 2>>

\* Mutant: the button stays when the page is back at the top.
ButtonStays(event, to) == IF event = "load" THEN button ELSE button \/ to[1] > 0

\* Whether the button can be seen when the handler of an event has drawn.
ButtonAfter(event, to) == CASE event = "load"  -> button
                            [] event = "click" -> button \/ to[1] > 0
                            [] event = "back"  -> to[1] # 0

\* The rest of drawTile and of its handler, when getTile has found a tile or Null:
\* where there is none the page moves up, and draws nothing.
draw(tiles, of, v, found, event) ==
  /\ tileIndex' = Returned(tiles, found)
  /\ at' = IF found = Null THEN zoomOut(v) ELSE v
  /\ canvas' = IF found = Null THEN canvas ELSE [file |-> of, at |-> v, tile |-> found]
  /\ button' = ButtonAfter(event, at')
  /\ call' = Idle

\* Splitting begins: the handler's other steps follow in splitStep and splitEnd.
split(tiles, v, work, event) ==
  /\ tileIndex' = tiles
  /\ call' = [event |-> event, v |-> v, work |-> work]
  /\ UNCHANGED <<at, canvas, button>>

\* There is no tile above the top of the pyramid.
drawTile(tiles, of, v, event) ==
  \/ v[1] < 0 /\ draw(tiles, of, v, Null, event)
  \/ /\ v[1] >= 0
     /\ \E id \in {Wrapped(v)} : \E begin \in {Closest(tiles, id)} :
          \/ /\ Drills(tiles, id, begin)
             /\ split(tiles, v, splitting(tiles[begin].source, begin, id), event)
          \/ /\ ~Drills(tiles, id, begin)
             /\ draw(tiles, of, v, IF Serves(tiles, id, begin) THEN begin ELSE Null, event)

ondrop(f) == /\ call.event = "none"
             /\ drops < MaxDrops
             /\ drops' = drops + 1
             /\ reading' = reading \cup {<<drops + 1, f>>}
             /\ canvas' = Null
             /\ UNCHANGED <<tileIndex, file, at, button, call, moves>>

\* The index is that of the new file, the address that of the file before.
onload(r) ==
  /\ call.event = "none"
  /\ r \in reading
  /\ reading' = reading \ {r}
  /\ \/ Data[r[2]] = Null /\ UNCHANGED <<tileIndex, file, at, canvas, button, call>>
     \/ /\ Data[r[2]] # Null
        /\ file' = r
        /\ \E features \in {wrap(Data[r[2]])} :
             IF features = <<>> THEN drawTile(<<>>, r, at, "load")
             ELSE split(<<>>, at, splitting(features, <<0, 0, 0>>, Null), "load")
  /\ UNCHANGED <<drops, moves>>

onclick(right, bottom) ==
  /\ call.event = "none"
  /\ moves < MaxMoves
  /\ moves' = moves + 1
  /\ tileIndex # Null
  /\ at[1] # MaxZoom
  /\ drawTile(tileIndex, file, <<at[1] + 1, 2 * at[2] + right, 2 * at[3] + bottom>>, "click")
  /\ UNCHANGED <<file, reading, drops>>

back == /\ call.event = "none"
        /\ moves < MaxMoves
        /\ moves' = moves + 1
        /\ tileIndex # Null
        /\ button
        /\ drawTile(tileIndex, file, zoomOut(at), "back")
        /\ UNCHANGED <<file, reading, drops>>

splitStep == /\ call.event # "none"
             /\ call.work.stack # <<>>
             /\ \E next \in {splitTile(tileIndex, call.work)} :
                  /\ tileIndex' = next.tiles
                  /\ call' = [call EXCEPT !.work = next.split]
             /\ UNCHANGED <<file, at, canvas, button, reading, drops, moves>>

\* The first pass is followed by drawTile, a drill by the rest of it.
splitEnd == /\ call.event # "none"
            /\ call.work.stack = <<>>
            /\ IF call.work.target = Null
               THEN drawTile(tileIndex, file, call.v, call.event)
               ELSE draw(tileIndex, file, call.v, Made(tileIndex, call.work), call.event)
            /\ UNCHANGED <<file, reading, drops, moves>>

Next == \/ \E f \in Files : ondrop(f)
        \/ \E r \in reading : onload(r)
        \/ \E right, bottom \in 0..1 : onclick(right, bottom)
        \/ back
        \/ splitStep
        \/ splitEnd

Spec == Init /\ [][Next]_vars

-----------------------------------------------------------------------------
Quarter(v) == {<<v[1] + 1, 2 * v[2] + right, 2 * v[3] + bottom>> : right, bottom \in 0..1}

\* What the index holds of a place is never lost and never held twice: the features
\* of the tiles above a tile are dropped, and where a tile's features are dropped
\* its four quarters are there, or it had nothing to show.
FeaturesAreKeptOnce ==
  call.event = "none" /\ tileIndex # Null =>
    \A v \in DOMAIN tileIndex :
      /\ \A z \in 0..(v[1] - 1) : /\ Above(v, z) \in DOMAIN tileIndex
                                  /\ tileIndex[Above(v, z)].source = Null
      /\ tileIndex[v].source = Null =>
           Quarter(v) \subseteq DOMAIN tileIndex \/ tileIndex[v].features = <<>>

\* The picture is that of the place the page believes to be at, unless the page
\* has left the world above its top; and with one file, which is not empty, it never
\* leaves the world.
PictureIsWhereTheViewIs ==
  call.event = "none" =>
    /\ canvas # Null /\ canvas.file = file => canvas.at = at \/ at[1] < 0
    /\ drops = 1 /\ tileIndex \notin {Null, <<>>} =>
         at[1] >= 0 /\ {at[2], at[3]} \subseteq 0..(z2[at[1]] - 1)

\* The places of the world down to zoom n.
PlacesTo(n) == UNION {{z} \X (0..(z2[z] - 1)) \X (0..(z2[z] - 1)) : z \in 0..n}

\* The zoom at which a call of splitTile stops at the latest.
Limit(work) == IF work.target = Null THEN IndexMaxZoom ELSE work.target[1]

Waiting(stack) == {stack[i].at : i \in DOMAIN stack}

\* The places a call of splitTile can still come to: those below a tile on its stack.
Ahead(work) == {c \in PlacesTo(Limit(work)) :
                  \E u \in Waiting(work.stack) : u[1] <= c[1] /\ Above(c, u[1]) = u}

\* The loop of splitTile ends: it pushes four tiles for one, and makes some a second
\* time, but each turn takes a place off those ahead and adds none.
EachTurnGoesOn == [][splitStep => /\ Ahead(call'.work) \subseteq Ahead(call.work)
                                  /\ Ahead(call'.work) # Ahead(call.work)]_vars
=============================================================================
