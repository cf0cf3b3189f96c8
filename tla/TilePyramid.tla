---------------------------- MODULE TilePyramid ----------------------------
(***************************************************************************)
(* The tile pyramid of one layer in the tile server, and the HTTP requests *)
(* that share it.                                                          *)
(*                                                                         *)
(* LayerTileCacheAccessor is a singleton; the TileRetrieverService, the    *)
(* Generator and the ITileContext are made anew for every request          *)
(* (TilesController.cs:51-59).  The raw tiles it hands out are mutable     *)
(* objects: two requests that look up the same tile assign the same        *)
(* Source field with nothing between them but the cache's own atomicity.   *)
(* One action below is the code between two accesses to shared state.      *)
(*                                                                         *)
(* A tile is named by its path of quadrants from the root, <<>>; dropping  *)
(* the last quadrant is Math.Floor(x / 2), Math.Floor(y / 2) with z - 1,   *)
(* and the tiles above z/x/y are the prefixes of its path.  The integer    *)
(* keys the caches make of z/x/y are module LayerTileCache's matter.       *)
(***************************************************************************)
EXTENDS Naturals, Sequences, FiniteSets

CONSTANTS Request,     \* the requests of the run, each made once
          Feature,     \* the features of the layer
          Unsupported, \* those that are neither points nor polygons
          MaxZoom,     \* ITileContext.MaxZoom
          Target,      \* the tiles asked for; some may lie below MaxZoom
          Content,     \* Content[t]: the features clipping leaves in tile t
          EmptyArray,  \* tiles where clipping gives an empty array, not null
          Solid,       \* tiles on which IsClippedSquare runs off its array
          InFlight,    \* bound: how many requests run at the same time
          Loader,      \* the pipeline that initialised an uploaded layer
          Null,        \* null
          Pending,     \* no answer yet
          Failed       \* the answer of a request that threw an exception

Quadrant == {"TL", "BL", "TR", "BR"}

Root == << >>

Tile == UNION {[1..z -> Quadrant] : z \in 0..MaxZoom}

\* IGeometryItem[] or null
Slice == {Null} \cup SUBSET Feature

TileObject == [features : SUBSET Feature, source : Slice]

IsAncestor(t, u) == Len(t) <= Len(u) /\ SubSeq(u, 1, Len(t)) = t

\* A tile has the features of the tiles inside it, and IsClippedSquare
\* counts one feature in a tile, a polygon, before it looks at its points.
ASSUME PyramidAssumption ==
    /\ MaxZoom \in Nat
    /\ InFlight \in Nat \ {0}
    /\ Target \subseteq Seq(Quadrant)
    /\ Content \in [Tile -> SUBSET Feature]
    /\ \A t \in Tile, u \in Tile : IsAncestor(t, u) => Content[u] \subseteq Content[t]
    /\ EmptyArray \subseteq Tile
    /\ Solid \subseteq Tile
    /\ Unsupported \subseteq Feature
    /\ \A s \in Solid : Content[s] # {} /\ Content[s] \cap Unsupported = {}
    /\ Loader \notin Request
    /\ \A s \in SUBSET Feature : s \notin {Null, Pending, Failed}
    /\ \A o \in TileObject : o # Null
    /\ Null \notin Request \cup {Loader}
    /\ Null \notin {Pending, Failed} /\ Pending # Failed

VARIABLES
    raw,          \* raw[t]: whose object the raw cache holds for t, or Null
    object,       \* object[t][c]: the GeoTile that c created for t, or Null
    transformed,  \* transformed[t]: the transformed cache
    pc, target,   \* where each request stands, and the tile it asks for
    stack,        \* tileStack: the <<tile, features>> still to be tiled
    drilling,     \* currentZoom.HasValue
    at,           \* z0/x0/y0, or the tile SplitTile is working on
    tile,         \* currentTile, or parent: the object referred to
    answer        \* what the controller received

shared == <<raw, object, transformed>>
local  == <<pc, target, stack, drilling, at, tile, answer>>
vars   == <<raw, object, transformed, pc, target, stack, drilling, at, tile, answer>>

Creator == Request \cup {Loader}

Frame == [tile : Tile, features : Slice]

Location == {"idle", "lookup", "store", "assign", "slice", "find", "climb",
             "check", "copy", "result", "transform", "done"}

TypeOK ==
    /\ raw \in [Tile -> Creator \cup {Null}]
    /\ object \in [Tile -> [Creator -> {Null} \cup TileObject]]
    /\ transformed \in [Target -> Slice]
    /\ pc \in [Request -> Location]
    /\ target \in [Request -> Target]
    /\ stack \in [Request -> Seq(Frame)]
    /\ drilling \in [Request -> BOOLEAN]
    /\ at \in [Request -> Seq(Quadrant)]
    /\ tile \in [Request -> Creator \cup {Null}]
    /\ answer \in [Request -> {Pending, Failed} \cup Slice]

-----------------------------------------------------------------------------
(***************************************************************************)
(* Clipping, by what it keeps.                                             *)
(***************************************************************************)

\* The features of a null array are none: CreateTile tests for null.
Kept(slice) == IF slice = Null THEN {} ELSE slice

\* mutant: a feature that is cut is not added to what is clipped, as the
\* points at the edge are not
ClipDropsCut(slice, t) ==
    LET up     == SubSeq(t, 1, Len(t) - 1)
        beside == {Append(up, q) : q \in Quadrant} \ {t}
        kept   == {f \in Kept(slice) \cap Content[t] : \A u \in beside : f \notin Content[u]}
    IN  IF kept = {} /\ t \notin EmptyArray THEN Null ELSE kept

\* What Clip along X, then along Y, leaves of a tile's features for its
\* child t: an array, which may be empty, or null.
Clip(slice, t) ==
    LET kept == Kept(slice) \cap Content[t]
    IN  IF kept = {} /\ t \notin EmptyArray THEN Null ELSE kept

\* The order in which the four pushed sections are popped.
PopOrder == <<"BR", "TR", "BL", "TL">>

Section(t, slice, q) == [tile |-> Append(t, q), features |-> Clip(slice, Append(t, q))]

\* mutant: the bottom right section is not pushed
SectionsThree(t, slice) ==
    [i \in 1..3 |-> Section(t, slice, PopOrder[i + 1])]

\* The sections SplitTile pushes when it slices tile t further down.
Sections(t, slice) == [i \in 1..4 |-> Section(t, slice, PopOrder[i])]

\* MaxZoomIndex keeps its default in both contexts of the application.
MaxZoomIndex == 0

\* mutant: a tile beside the target's path is sliced too
StopsAtZoom(r, t) ==
    IF drilling[r]
    THEN Len(t) = MaxZoom \/ Len(t) = Len(target[r])
    ELSE Len(t) = MaxZoomIndex

\* Where SplitTile stops at a tile and keeps its Source: on the first pass
\* at MaxZoomIndex, when drilling at the base zoom, at the target's zoom and
\* beside the target's path.
StopsAt(r, t) ==
    IF drilling[r]
    THEN \/ Len(t) = MaxZoom
         \/ Len(t) = Len(target[r])
         \/ ~IsAncestor(t, target[r])
    ELSE Len(t) = MaxZoomIndex

-----------------------------------------------------------------------------
Lookup(t) == IF t \in Tile THEN raw[t] ELSE Null

\* CreateTile: the features of the array, and a Source that is an empty list.
NewTile(slice) == [features |-> Kept(slice), source |-> {}]

Loaded == [features |-> Content[Root], source |-> Content[Root]]

Running == {r \in Request : pc[r] \notin {"idle", "done"}}

\* A layer of the layers folder starts with nothing cached; for an uploaded
\* one InitializeTile has already stored the root.
Init ==
    /\ \E loaded \in BOOLEAN :
          /\ raw = [t \in Tile |-> IF loaded /\ t = Root THEN Loader ELSE Null]
          /\ object = [t \in Tile |-> [c \in Creator |->
                         IF loaded /\ t = Root /\ c = Loader THEN Loaded ELSE Null]]
    /\ transformed = [t \in Target |-> Null]
    /\ pc = [r \in Request |-> "idle"]
    /\ target \in [Request -> Target]
    /\ stack = [r \in Request |-> << >>]
    /\ drilling = [r \in Request |-> FALSE]
    /\ at = [r \in Request |-> Root]
    /\ tile = [r \in Request |-> Null]
    /\ answer = [r \in Request |-> Pending]

Goto(r, l) == pc' = [pc EXCEPT ![r] = l]

Finish(r, a) ==
    /\ answer' = [answer EXCEPT ![r] = a]
    /\ Goto(r, "done")

\* TilesController.Get -> GetTile: a transformed tile is the answer.
\* Otherwise GenerateTile finds its own context without features, has the
\* layer initialised and starts SplitTile's first pass at the root.
GetTile(r) ==
    /\ pc[r] = "idle"
    /\ Cardinality(Running) < InFlight
    /\ \/ /\ transformed[target[r]] # Null
          /\ Finish(r, transformed[target[r]])
          /\ UNCHANGED <<shared, target, stack, drilling, at, tile>>
       \/ /\ transformed[target[r]] = Null
          /\ stack' = [stack EXCEPT ![r] = <<[tile |-> Root, features |-> Content[Root]]>>]
          /\ Goto(r, "lookup")
          /\ UNCHANGED <<shared, target, drilling, at, tile, answer>>

-----------------------------------------------------------------------------
(***************************************************************************)
(* SplitTile: one iteration of its loop is LookupFrame, StoreRawTile if    *)
(* the tile was missing, AssignSource, and SliceTile unless it stops.      *)
(***************************************************************************)

\* The iteration ends with s left on the stack: the next one starts, or
\* SplitTile returns to GenerateTile.
Resume(r, s) ==
    /\ stack' = [stack EXCEPT ![r] = s]
    /\ Goto(r, IF s # << >> THEN "lookup" ELSE IF drilling[r] THEN "result" ELSE "find")

\* Pop a tile and look it up in the raw cache.
LookupFrame(r) ==
    /\ pc[r] = "lookup"
    /\ LET t == Head(stack[r]).tile
       IN  /\ at' = [at EXCEPT ![r] = t]
           /\ tile' = [tile EXCEPT ![r] = raw[t]]
           /\ Goto(r, IF raw[t] = Null THEN "store" ELSE "assign")
    /\ UNCHANGED <<shared, target, stack, drilling, answer>>

\* The tile was missing: create it, its Source an empty list, and store it,
\* whatever another request stored in between.
StoreRawTile(r) ==
    /\ pc[r] = "store"
    /\ object' = [object EXCEPT ![at[r]][r] = NewTile(Head(stack[r]).features)]
    /\ raw' = [raw EXCEPT ![at[r]] = r]
    /\ tile' = [tile EXCEPT ![r] = r]
    /\ Goto(r, "assign")
    /\ UNCHANGED <<transformed, target, stack, drilling, at, answer>>

\* Give the tile its Source and decide whether to slice it: SplitTile stops,
\* fails on a clipped square with its exception reaching the controller, or
\* goes on.
AssignSource(r) ==
    /\ pc[r] = "assign"
    /\ object' = [object EXCEPT ![at[r]][tile[r]].source = Head(stack[r]).features]
    /\ \/ /\ StopsAt(r, at[r])
          /\ Resume(r, Tail(stack[r]))
          /\ UNCHANGED answer
       \/ /\ ~StopsAt(r, at[r])
          /\ at[r] \in Solid
          /\ Finish(r, Failed)
          /\ UNCHANGED stack
       \/ /\ ~StopsAt(r, at[r])
          /\ at[r] \notin Solid
          /\ Goto(r, "slice")
          /\ UNCHANGED <<stack, answer>>
    /\ UNCHANGED <<raw, transformed, target, drilling, at, tile>>

\* The Source is dropped, and unless there was nothing in it the four
\* sections take its place.
SliceTile(r) ==
    /\ pc[r] = "slice"
    /\ object' = [object EXCEPT ![at[r]][tile[r]].source = Null]
    /\ LET slice == Head(stack[r]).features
       IN  Resume(r, IF Kept(slice) = {}
                     THEN Tail(stack[r])
                     ELSE Sections(at[r], slice) \o Tail(stack[r]))
    /\ UNCHANGED <<raw, transformed, target, drilling, at, tile, answer>>

-----------------------------------------------------------------------------
(***************************************************************************)
(* GenerateTile, after the first pass, and GetTile after GenerateTile.     *)
(***************************************************************************)

\* A raw tile already there is the result; otherwise look for an ancestor.
FindTarget(r) ==
    /\ pc[r] = "find"
    /\ at' = [at EXCEPT ![r] = target[r]]
    /\ tile' = [tile EXCEPT ![r] = Lookup(target[r])]
    /\ Goto(r, IF Lookup(target[r]) = Null THEN "climb" ELSE "transform")
    /\ UNCHANGED <<shared, target, stack, drilling, answer>>

\* mutant: the loop forgets to halve x and y and to step up
ClimbNowhere(r) ==
    /\ pc[r] = "climb"
    /\ tile' = [tile EXCEPT ![r] = Lookup(at[r])]
    /\ Goto(r, IF Lookup(at[r]) = Null THEN "climb" ELSE "check")
    /\ UNCHANGED <<shared, target, stack, drilling, at, answer>>

\* One turn of the loop up the pyramid; past the root there is no parent
\* and the result is null.
Climb(r) ==
    /\ pc[r] = "climb"
    /\ \/ /\ at[r] = Root
          /\ Finish(r, Null)
          /\ UNCHANGED <<at, tile>>
       \/ /\ at[r] # Root
          /\ LET up == SubSeq(at[r], 1, Len(at[r]) - 1)
             IN  /\ at' = [at EXCEPT ![r] = up]
                 /\ tile' = [tile EXCEPT ![r] = Lookup(up)]
                 /\ Goto(r, IF Lookup(up) = Null THEN "climb" ELSE "check")
          /\ UNCHANGED answer
    /\ UNCHANGED <<shared, target, stack, drilling>>

\* mutant: an ancestor whose Source is null is not refused
CheckNothing(r) ==
    /\ pc[r] = "check"
    /\ Goto(r, "copy")
    /\ UNCHANGED <<shared, target, stack, drilling, at, tile, answer>>

\* An ancestor without Source ends the request with null; on a clipped
\* square the request fails.
CheckParent(r) ==
    /\ pc[r] = "check"
    /\ \/ /\ object[at[r]][tile[r]].source = Null
          /\ Finish(r, Null)
       \/ /\ object[at[r]][tile[r]].source # Null
          /\ at[r] \in Solid
          /\ Finish(r, Failed)
       \/ /\ object[at[r]][tile[r]].source # Null
          /\ at[r] \notin Solid
          /\ Goto(r, "copy")
          /\ UNCHANGED answer
    /\ UNCHANGED <<shared, target, stack, drilling, at, tile>>

\* mutant: SplitTile is given z, x, y in place of z0, x0, y0
CopySourceAtTarget(r) ==
    /\ pc[r] = "copy"
    /\ stack' = [stack EXCEPT ![r] = <<[tile     |-> target[r],
                                        features |-> object[at[r]][tile[r]].source]>>]
    /\ drilling' = [drilling EXCEPT ![r] = TRUE]
    /\ Goto(r, "lookup")
    /\ UNCHANGED <<shared, target, at, tile, answer>>

\* parent.Source.ToArray(): the field is read a second time.
CopySource(r) ==
    /\ pc[r] = "copy"
    /\ LET source == object[at[r]][tile[r]].source
       IN  \/ /\ source = Null
              /\ Finish(r, Failed)
              /\ UNCHANGED <<stack, drilling>>
           \/ /\ source # Null
              /\ stack' = [stack EXCEPT ![r] = <<[tile |-> at[r], features |-> source]>>]
              /\ drilling' = [drilling EXCEPT ![r] = TRUE]
              /\ Goto(r, "lookup")
              /\ UNCHANGED answer
    /\ UNCHANGED <<shared, target, at, tile>>

\* Look the target up again: it is there now, or the result is null.
TakeResult(r) ==
    /\ pc[r] = "result"
    /\ LET found == Lookup(target[r])
       IN  \/ /\ found = Null
              /\ Finish(r, Null)
              /\ UNCHANGED <<at, tile>>
           \/ /\ found # Null
              /\ at' = [at EXCEPT ![r] = target[r]]
              /\ tile' = [tile EXCEPT ![r] = found]
              /\ Goto(r, "transform")
              /\ UNCHANGED answer
    /\ UNCHANGED <<shared, target, stack, drilling>>

\* ProcessTile goes through the features of a tile and throws at a line, or
\* at several geometries in one feature, which the pipeline lets in.
CanProcess(slice) == Kept(slice) \cap Unsupported = {}

\* mutant: the tile is transformed from its Source
StoreTransformedSource(r) ==
    /\ pc[r] = "transform"
    /\ LET source == object[at[r]][tile[r]].source
       IN  \/ /\ ~CanProcess(source)
              /\ Finish(r, Failed)
              /\ UNCHANGED transformed
           \/ /\ CanProcess(source)
              /\ transformed' = [transformed EXCEPT ![target[r]] = source]
              /\ Finish(r, source)
    /\ UNCHANGED <<raw, object, target, stack, drilling, at, tile>>

\* ProcessTile, the transformed cache and the answer.  When ProcessTile throws
\* the raw tile stays and the request fails.
StoreTransformedTile(r) ==
    /\ pc[r] = "transform"
    /\ LET features == object[at[r]][tile[r]].features
       IN  \/ /\ ~CanProcess(features)
              /\ Finish(r, Failed)
              /\ UNCHANGED transformed
           \/ /\ CanProcess(features)
              /\ transformed' = [transformed EXCEPT ![target[r]] = features]
              /\ Finish(r, features)
    /\ UNCHANGED <<raw, object, target, stack, drilling, at, tile>>

Step(r) ==
    \/ LookupFrame(r)
    \/ StoreRawTile(r)
    \/ AssignSource(r)
    \/ SliceTile(r)
    \/ FindTarget(r)
    \/ Climb(r)
    \/ CheckParent(r)
    \/ CopySource(r)
    \/ TakeResult(r)
    \/ StoreTransformedTile(r)

\* The run is over when every request has its answer.
Terminating ==
    /\ \A r \in Request : pc[r] = "done"
    /\ UNCHANGED vars

Next ==
    \/ \E r \in Request : GetTile(r) \/ Step(r)
    \/ Terminating

\* Every request runs on a thread of the pool of its own: one that has
\* begun keeps taking steps.  Nobody has to make a request.
Spec == Init /\ [][Next]_vars /\ \A r \in Request : WF_vars(Step(r))
-----------------------------------------------------------------------------
(***************************************************************************)
(* Properties.                                                             *)
(***************************************************************************)

\* However requests interleave, what is answered, and what the transformed
\* cache keeps for the next request (TileRetrieverService.cs:66-71), is
\* never another tile, a half-built one or one made from a Source some other
\* request had not yet assigned: it is the tile asked for, complete and with
\* none of its features left out, or nothing.
OwnContent(t, slice) ==
    t \in Tile /\ slice = Content[t] /\ CanProcess(slice)

ServedTilesAreRight ==
    /\ \A t \in Target : transformed[t] # Null => OwnContent(t, transformed[t])
    /\ \A r \in Request :
          answer[r] \notin {Null, Pending, Failed} => OwnContent(target[r], answer[r])

\* Tile u lies inside tile t, below it.
Above(t, u) == IsAncestor(t, u) /\ t # u

\* The filled squares that SplitTile tries to slice: it stops at MaxZoom.
Sliceable == {s \in Solid : Len(s) < MaxZoom}

\* SplitTile gave up on a filled square inside t, with the rest of its stack.
CutShort(t) ==
    \E r \in Request, s \in Sliceable :
        /\ answer[r] = Failed
        /\ raw[s] # Null
        /\ Above(t, s) /\ Above(s, target[r])

\* Generator.cs:186 drops the Source of a tile that is sliced further down,
\* as it is no longer needed: whenever no request is running, a stored tile
\* without Source has no features, or has its four children stored, unless a
\* request failed inside it.  Left without them, nothing under it can ever be
\* made again.  (The root is exempt: the next request's first pass gives it
\* its Source back.)
SourceIsNotNeeded ==
    Running = {} =>
        \A t \in Tile \ {Root} :
            (raw[t] # Null /\ object[t][raw[t]].source = Null)
                => \/ Content[t] = {}
                   \/ \A q \in Quadrant : Lookup(Append(t, q)) # Null
                   \/ CutShort(t)

\* A tile in the transformed cache is never replaced by another one: two
\* browsers that ask for the same tile see the same picture for as long as
\* the server runs (SimpleTileCacheStorage.cs:39-43 would let a later
\* request overwrite it).
TransformedTilesStay ==
    [][\A t \in Target : transformed[t] # Null => transformed'[t] = transformed[t]]_vars

\* Every request that is made gets its answer: the climb up the pyramid and
\* the stack of SplitTile come to an end whatever others do to the tiles.
EveryRequestIsAnswered ==
    \A r \in Request : (pc[r] # "idle") ~> (pc[r] = "done")

\* The locations inside SplitTile.
Tiling == {"lookup", "store", "assign", "slice"}

\* The frames of stack s on the way to tile u: one at most.
OnTheWay(s, u) == {i \in 1..Len(s) : IsAncestor(s[i].tile, u)}

\* How many tiles a drill to u can take from stack s: of the four it pushes at
\* a level, one at most is sliced again.
TilesLeft(s, u) ==
    LET way == CHOOSE i \in OnTheWay(s, u) : TRUE
    IN  Len(s) + (IF OnTheWay(s, u) = {} THEN 0 ELSE 4 * (MaxZoom - Len(s[way].tile)))

\* A bound on the steps a request has still to take.
StepsLeft(r) ==
    LET here  == CASE pc[r] = "lookup" -> 3
                   [] pc[r] = "store"  -> 2
                   [] pc[r] = "assign" -> 1
                   [] OTHER            -> 0
        drill == 4 * (1 + 4 * MaxZoom) + 3
        find  == drill + 4 + Len(target[r])
    IN  CASE pc[r] \in Tiling /\ ~drilling[r] -> find + here
          [] pc[r] = "find"                   -> find
          [] pc[r] = "climb"                  -> drill + 3 + Len(at[r])
          [] pc[r] = "check"                  -> drill + 2
          [] pc[r] = "copy"                   -> drill + 1
          [] pc[r] \in Tiling /\ drilling[r]  -> 4 * TilesLeft(stack[r], target[r]) + here
          [] pc[r] = "result"                 -> 2
          [] pc[r] = "transform"              -> 1
          [] OTHER                            -> 0

\* Every step of a request brings it closer to its answer and no other
\* request sets it back, whatever tiles they make and take the Source of in
\* between: the work of a request is bounded by the levels of the pyramid.
\* (Generator.cs:85 and 134 are while loops without a bound of their own.)
HeadwayIsMade ==
    [][\A r \in Request : pc[r] # "idle" =>
            /\ StepsLeft(r)' \in 0..StepsLeft(r)
            /\ Step(r) => StepsLeft(r)' # StepsLeft(r)]_vars

\* Tiles that can only be made by slicing a filled square.
UnderSolid(t) == \E s \in Solid : Above(s, t)

\* There is no such tile, or it has no features.
NothingThere(t) ==
    /\ t \in Tile => Content[t] = {}
    /\ \A s \in Sliceable : ~Above(s, t)

\* Tiles of the same quarter of the world as a filled square, and beside it:
\* lost once a request has failed on the square.
Beside(t) ==
    \E s \in Sliceable, u \in Target :
        /\ Above(s, u)
        /\ ~IsAncestor(s, t) /\ ~IsAncestor(t, s)
        /\ t[1] = s[1]

\* What a tile that is made is answered with: a line in it is an exception.
Transformed(slice) == IF CanProcess(slice) THEN slice ELSE Failed

\* The answers of a server that makes one tile at a time.  A tile without
\* features may be answered as an empty tile or as no tile at all; the tiles
\* under a filled square cannot be had, nor those with an unsupported feature.
Expected ==
    [t \in Target |->
        (IF NothingThere(t) \/ Beside(t) THEN {Null} ELSE {})
            \cup (IF UnderSolid(t) THEN {Failed} ELSE {})
            \cup (IF t \in Tile /\ ~UnderSolid(t) THEN {Transformed(Content[t])} ELSE {})]

Server == INSTANCE TileServer
             WITH asked <- {r \in Request : pc[r] # "idle"}

\* One request at a time, the pyramid is the server TileServer describes: the
\* tile asked for if all its features can be transformed and an exception if
\* not, never nothing in its place but beside a filled square, whichever tiles
\* earlier requests have made, sliced and stripped of their Source.  Nor does
\* a request that failed in the transform spoil the tiles it made on the way.
ImplementsTileServer == Server!Spec
=============================================================================
