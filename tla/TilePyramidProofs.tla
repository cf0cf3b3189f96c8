------------------------- MODULE TilePyramidProofs -------------------------
(***************************************************************************)
(* What is true of the pyramid for every number of requests, every zoom    *)
(* and every layer.                                                        *)
(*                                                                         *)
(* However requests interleave: ServedTilesAreRight, TransformedTilesStay. *)
(* The invariant IInv that carries them says where a tile's features may   *)
(* be found on their way to an answer: in an object of that tile, in a     *)
(* Source, and in a frame of a stack.  A Source may be the empty list that *)
(* CreateTile puts there; it is harmless because the tile it belongs to is *)
(* already stored, so no tile is ever created from it.                     *)
(*                                                                         *)
(* One request at a time: SourceIsNotNeeded, and that every answer is one  *)
(* TileServer expects.  The invariant SInv that carries them says that a   *)
(* tile without Source has its four children stored or on the stack of the *)
(* request that took the Source, so the climb ends at a tile the drill can *)
(* start from and the drill gets to the target.                            *)
(*                                                                         *)
(* However requests interleave, again: HeadwayIsMade, the bound on what a  *)
(* request has still to do, from WayOK: one frame of a stack at most is on *)
(* the way to the target.                                                  *)
(***************************************************************************)
EXTENDS TilePyramid, SequenceTheorems, FiniteSetTheorems, TLAPS

\* What a Source or a frame of tile t may hold.
Partial(t, slice) == Kept(slice) \in {Content[t], {}}

ObjectsOK ==
    \A t \in Tile, c \in Creator : object[t][c] # Null =>
        /\ object[t][c].features = Content[t]
        /\ Partial(t, object[t][c].source)

\* The raw cache refers to objects that exist, and a tile of which there is
\* an object is in it.
RawOK ==
    \A t \in Tile :
        /\ raw[t] # Null => object[t][raw[t]] # Null
        /\ \A c \in Creator : object[t][c] # Null => raw[t] # Null

FrameOK(f) ==
    /\ Partial(f.tile, f.features)
    /\ raw[f.tile] = Null => Kept(f.features) = Content[f.tile]

FramesOK == \A r \in Request : \A i \in 1..Len(stack[r]) : FrameOK(stack[r][i])

\* While SplitTile runs there is a frame to work on, and on the first pass
\* it is the root's.
SplitOK ==
    \A r \in Request : pc[r] \in {"lookup", "store", "assign", "slice"} =>
        /\ stack[r] # << >>
        /\ drilling[r] \/ (Len(stack[r]) = 1 /\ stack[r][1].tile = Root)
        /\ pc[r] # "lookup" => at[r] = stack[r][1].tile
        /\ pc[r] = "store" => Kept(stack[r][1].features) = Content[at[r]]
        /\ pc[r] = "slice" => drilling[r] /\ Len(at[r]) < MaxZoom

\* The object a request refers to exists.
TileOK ==
    \A r \in Request : pc[r] \in {"assign", "slice", "check", "copy", "transform"} =>
        /\ at[r] \in Tile
        /\ tile[r] \in Creator
        /\ object[at[r]][tile[r]] # Null
        /\ pc[r] = "transform" => at[r] = target[r]

IInv == /\ TypeOK
        /\ ObjectsOK
        /\ RawOK
        /\ FramesOK
        /\ SplitOK
        /\ TileOK
        /\ ServedTilesAreRight
-----------------------------------------------------------------------------
LEMMA RootIsATile == Root \in Tile /\ Len(Root) = 0
<1>1. Root \in [1..0 -> Quadrant]
  BY DEF Root
<1>2. 0 \in 0..MaxZoom
  BY PyramidAssumption
<1>3. QED
  BY <1>1, <1>2 DEF Tile, Root

LEMMA TileIsASequence == ASSUME NEW t \in Tile
                         PROVE  t \in Seq(Quadrant) /\ Len(t) \in 0..MaxZoom
<1>1. PICK z \in 0..MaxZoom : t \in [1..z -> Quadrant]
  BY DEF Tile
<1>2. z \in Nat
  BY PyramidAssumption
<1>3. QED
  BY <1>1, <1>2

LEMMA ChildIsATile == ASSUME NEW t \in Tile, NEW q \in Quadrant, Len(t) < MaxZoom
                      PROVE  Append(t, q) \in Tile /\ IsAncestor(t, Append(t, q))
<1>1. t \in Seq(Quadrant) /\ Len(t) \in Nat /\ Len(t) + 1 \in 0..MaxZoom
  BY TileIsASequence, PyramidAssumption
<1>2. Append(t, q) \in Seq(Quadrant) /\ Len(Append(t, q)) = Len(t) + 1
  BY <1>1
<1>3. Append(t, q) \in [1..(Len(t) + 1) -> Quadrant]
  BY <1>2, LenProperties
<1>4. IsAncestor(t, Append(t, q))
  <2>1. SubSeq(Append(t, q), 1, Len(t)) \in Seq(Quadrant)
    BY <1>1, <1>2, SubSeqProperties
  <2>2. /\ Len(SubSeq(Append(t, q), 1, Len(t))) = Len(t)
        /\ \A i \in 1..Len(t) : SubSeq(Append(t, q), 1, Len(t))[i] = t[i]
    BY <1>1, <1>2, SubSeqProperties
  <2>3. SubSeq(Append(t, q), 1, Len(t)) = t
    BY <1>1, <2>1, <2>2, SeqEqual
  <2>4. QED
    BY <1>1, <1>2, <2>3 DEF IsAncestor
<1>5. QED
  BY <1>1, <1>3, <1>4 DEF Tile

\* What clipping leaves of all of a tile's features is all of the child's.
LEMMA ClipOfAll == ASSUME NEW t \in Tile, NEW q \in Quadrant, Len(t) < MaxZoom,
                          NEW slice \in Slice, Kept(slice) = Content[t]
                   PROVE  /\ Clip(slice, Append(t, q)) \in Slice
                          /\ Kept(Clip(slice, Append(t, q))) = Content[Append(t, q)]
<1> DEFINE c == Append(t, q)
           kept == Kept(slice) \cap Content[c]
<1>1. c \in Tile /\ IsAncestor(t, c)
  BY ChildIsATile
<1>2. Content[c] \subseteq Content[t] /\ Content[c] \in SUBSET Feature
  BY <1>1, PyramidAssumption
<1>3. kept = Content[c] /\ kept # Null
  BY <1>2, PyramidAssumption
<1>4. CASE kept = {} /\ c \notin EmptyArray
  BY <1>3, <1>4 DEF Clip, Kept, Slice
<1>5. CASE ~(kept = {} /\ c \notin EmptyArray)
  <2>1. Clip(slice, c) = kept
    BY <1>5 DEF Clip
  <2>2. QED
    BY <2>1, <1>2, <1>3 DEF Kept, Slice
<1>6. QED
  BY <1>4, <1>5

LEMMA SectionsAreFrames ==
    ASSUME NEW t \in Tile, Len(t) < MaxZoom, NEW slice \in Slice, Kept(slice) = Content[t]
    PROVE  /\ Sections(t, slice) \in Seq(Frame)
           /\ \A i \in 1..4 :
                 Kept(Sections(t, slice)[i].features) = Content[Sections(t, slice)[i].tile]
           /\ Len(Sections(t, slice)) = 4
<1>1. ASSUME NEW i \in 1..4 PROVE PopOrder[i] \in Quadrant
  BY DEF PopOrder, Quadrant
<1>2. ASSUME NEW i \in 1..4
      PROVE  /\ Sections(t, slice)[i] = Section(t, slice, PopOrder[i])
             /\ Section(t, slice, PopOrder[i]) \in Frame
             /\ Kept(Section(t, slice, PopOrder[i]).features)
                   = Content[Section(t, slice, PopOrder[i]).tile]
  BY <1>1, ClipOfAll, ChildIsATile DEF Sections, Section, Frame
<1>3. Sections(t, slice) \in [1..4 -> Frame]
  BY <1>2 DEF Sections
<1>4. Sections(t, slice) \in Seq(Frame)
  BY <1>3, SeqDef
<1>5. Len(Sections(t, slice)) = 4
  BY <1>3, <1>4, LenProperties DEF Sections
<1>6. QED
  BY <1>2, <1>4, <1>5

-----------------------------------------------------------------------------
LEMMA InitOK == Init => IInv
<1> SUFFICES ASSUME Init PROVE IInv
  OBVIOUS
<1> USE DEF Init
<1>1. Content[Root] \in SUBSET Feature /\ Content[Root] # Null
  BY RootIsATile, PyramidAssumption
<1>2. Loaded \in TileObject
  BY <1>1 DEF Loaded, TileObject, Slice
<1>3. PICK loaded \in BOOLEAN :
          /\ raw = [t \in Tile |-> IF loaded /\ t = Root THEN Loader ELSE Null]
          /\ object = [t \in Tile |-> [c \in Creator |->
                         IF loaded /\ t = Root /\ c = Loader THEN Loaded ELSE Null]]
  OBVIOUS
<1>4. TypeOK
  <2>1. raw \in [Tile -> Creator \cup {Null}] /\ object \in [Tile -> [Creator -> {Null} \cup TileObject]]
    BY <1>2, <1>3 DEF Creator
  <2>2. Root \in Seq(Quadrant) /\ << >> \in Seq(Frame)
    BY DEF Root
  <2>3. QED
    BY <2>1, <2>2 DEF TypeOK, Slice, Location
<1>5. ObjectsOK
  BY <1>1, <1>3 DEF ObjectsOK, Loaded, Partial, Kept
<1>6. RawOK
  <2>1. Loaded # Null
    BY <1>2, PyramidAssumption
  <2>2. Loader \in Creator
    BY DEF Creator
  <2>3. \A t \in Tile, c \in Creator :
           /\ raw[t] = IF loaded /\ t = Root THEN Loader ELSE Null
           /\ object[t][c] = IF loaded /\ t = Root /\ c = Loader THEN Loaded ELSE Null
    BY <1>3
  <2>4. Loader # Null
    BY PyramidAssumption
  <2>5. QED
    BY <2>1, <2>2, <2>3, <2>4 DEF RawOK
<1>7. FramesOK /\ SplitOK /\ TileOK /\ ServedTilesAreRight
  BY PyramidAssumption DEF FramesOK, SplitOK, TileOK, ServedTilesAreRight
<1>8. QED
  BY <1>4, <1>5, <1>6, <1>7 DEF IInv

-----------------------------------------------------------------------------
(***************************************************************************)
(* One lemma per action of a request.                                      *)
(***************************************************************************)

\* What a request that is in SplitTile may take from its stack.
LEMMA StackFacts ==
    ASSUME IInv, NEW r \in Request, pc[r] \in {"lookup", "store", "assign", "slice"}
    PROVE  /\ stack[r] \in Seq(Frame)
           /\ stack[r] # << >>
           /\ Len(stack[r]) \in Nat \ {0}
           /\ Head(stack[r]) = stack[r][1]
           /\ Head(stack[r]) \in Frame
           /\ FrameOK(Head(stack[r]))
           /\ Tail(stack[r]) \in Seq(Frame)
           /\ Len(Tail(stack[r])) = Len(stack[r]) - 1
           /\ \A i \in 1..Len(Tail(stack[r])) : FrameOK(Tail(stack[r])[i])
<1>1. stack[r] \in Seq(Frame) /\ stack[r] # << >>
  BY DEF IInv, TypeOK, SplitOK
<1>2. Len(stack[r]) \in Nat \ {0}
  BY <1>1, EmptySeq
<1>3. /\ Head(stack[r]) \in Frame
      /\ Tail(stack[r]) \in Seq(Frame)
      /\ Len(Tail(stack[r])) = Len(stack[r]) - 1
      /\ \A i \in 1..Len(Tail(stack[r])) : Tail(stack[r])[i] = stack[r][i + 1]
  BY <1>1, HeadTailProperties
<1>4. Head(stack[r]) = stack[r][1]
  BY <1>1
<1>5. \A i \in 1..Len(stack[r]) : FrameOK(stack[r][i])
  BY DEF IInv, FramesOK
<1>6. \A i \in 1..Len(Tail(stack[r])) : FrameOK(Tail(stack[r])[i])
  BY <1>2, <1>3, <1>5
<1>7. QED
  BY <1>1, <1>2, <1>3, <1>4, <1>5, <1>6

LEMMA GetTileOK == ASSUME IInv, NEW r \in Request, GetTile(r) PROVE IInv'
<1> USE DEF GetTile, Finish, Goto, shared
<1>1. CASE transformed[target[r]] # Null
  <2>1. /\ answer' = [answer EXCEPT ![r] = transformed[target[r]]]
        /\ pc' = [pc EXCEPT ![r] = "done"]
        /\ UNCHANGED <<raw, object, transformed, target, stack, drilling, at, tile>>
    BY <1>1
  <2>2. target[r] \in Target /\ transformed[target[r]] \in Slice
    BY DEF IInv, TypeOK
  <2>3. TypeOK'
    BY <2>1, <2>2 DEF IInv, TypeOK, Location
  <2>4. ServedTilesAreRight'
    BY <2>1, <2>2, <1>1 DEF IInv, TypeOK, ServedTilesAreRight, OwnContent
  <2>5. (ObjectsOK /\ RawOK /\ FramesOK)'
    BY <2>1 DEF IInv, ObjectsOK, RawOK, FramesOK, FrameOK
  <2>6. (SplitOK /\ TileOK)'
    BY <2>1 DEF IInv, TypeOK, SplitOK, TileOK
  <2>7. QED
    BY <2>3, <2>4, <2>5, <2>6 DEF IInv
<1>2. CASE transformed[target[r]] = Null
  <2> DEFINE root == [tile |-> Root, features |-> Content[Root]]
  <2>1. /\ stack' = [stack EXCEPT ![r] = <<root>>]
        /\ pc' = [pc EXCEPT ![r] = "lookup"]
        /\ UNCHANGED <<raw, object, transformed, target, drilling, at, tile, answer>>
    BY <1>2
  <2>2. Content[Root] \in SUBSET Feature /\ Content[Root] # Null
    BY RootIsATile, PyramidAssumption
  <2>3. root \in Frame /\ <<root>> \in Seq(Frame) /\ Len(<<root>>) = 1
    BY <2>2, RootIsATile DEF Frame, Slice
  <2>4. FrameOK(root)
    BY <2>2 DEF FrameOK, Partial, Kept
  <2>5. TypeOK'
    BY <2>1, <2>3 DEF IInv, TypeOK, Location
  <2>6. ServedTilesAreRight'
    BY <2>1 DEF IInv, ServedTilesAreRight, OwnContent
  <2>7. (ObjectsOK /\ RawOK)'
    BY <2>1 DEF IInv, ObjectsOK, RawOK
  <2>8. FramesOK'
    <3> SUFFICES ASSUME NEW p \in Request, NEW i \in 1..Len(stack'[p])
                 PROVE  FrameOK(stack'[p][i])
      BY <2>1 DEF FramesOK, FrameOK
    <3>1. CASE p = r
      BY <3>1, <2>1, <2>3, <2>4 DEF IInv, TypeOK
    <3>2. CASE p # r
      BY <3>2, <2>1 DEF IInv, TypeOK, FramesOK
    <3>3. QED
      BY <3>1, <3>2
  <2>9. (SplitOK /\ TileOK)'
    BY <2>1, <2>3 DEF IInv, TypeOK, SplitOK, TileOK
  <2>10. QED
    BY <2>5, <2>6, <2>7, <2>8, <2>9 DEF IInv
<1>3. QED
  BY <1>1, <1>2

LEMMA LookupFrameOK == ASSUME IInv, NEW r \in Request, LookupFrame(r) PROVE IInv'
<1> DEFINE t == Head(stack[r]).tile
<1>1. /\ pc[r] = "lookup"
      /\ at' = [at EXCEPT ![r] = t]
      /\ tile' = [tile EXCEPT ![r] = raw[t]]
      /\ pc' = [pc EXCEPT ![r] = IF raw[t] = Null THEN "store" ELSE "assign"]
      /\ UNCHANGED <<raw, object, transformed, target, stack, drilling, answer>>
  BY DEF LookupFrame, Goto, shared
<1>2. /\ t \in Tile /\ t \in Seq(Quadrant)
      /\ t = stack[r][1].tile
      /\ raw[t] \in Creator \cup {Null}
      /\ FrameOK(stack[r][1])
  BY <1>1, StackFacts, TileIsASequence DEF IInv, TypeOK, Frame
<1>3. TypeOK'
  BY <1>1, <1>2 DEF IInv, TypeOK, Location
<1>4. (ServedTilesAreRight /\ ObjectsOK /\ RawOK /\ FramesOK)'
  BY <1>1 DEF IInv, ServedTilesAreRight, OwnContent, ObjectsOK, RawOK, FramesOK, FrameOK
<1>5. SplitOK'
  BY <1>1, <1>2 DEF IInv, TypeOK, SplitOK, FrameOK
<1>6. TileOK'
  BY <1>1, <1>2 DEF IInv, TypeOK, TileOK, RawOK
<1>7. QED
  BY <1>3, <1>4, <1>5, <1>6 DEF IInv

LEMMA StoreRawTileOK == ASSUME IInv, NEW r \in Request, StoreRawTile(r) PROVE IInv'
<1> DEFINE t == at[r]
           new == NewTile(stack[r][1].features)
<1>1. /\ pc[r] = "store"
      /\ object' = [object EXCEPT ![t][r] = new]
      /\ raw' = [raw EXCEPT ![t] = r]
      /\ tile' = [tile EXCEPT ![r] = r]
      /\ pc' = [pc EXCEPT ![r] = "assign"]
      /\ UNCHANGED <<transformed, target, stack, drilling, at, answer>>
  BY StackFacts DEF StoreRawTile, Goto
<1>2. /\ t = stack[r][1].tile
      /\ t \in Tile
      /\ stack[r][1].features \in Slice
      /\ Kept(stack[r][1].features) = Content[t]
  BY <1>1, StackFacts DEF IInv, SplitOK, Frame
<1>3. Content[t] \in SUBSET Feature
  BY <1>2, PyramidAssumption
<1>4. new \in TileObject /\ new.features = Content[t] /\ Partial(t, new.source) /\ new # Null
  <2>1. new = [features |-> Content[t], source |-> {}]
    BY <1>2 DEF NewTile
  <2>2. {} # Null
    BY PyramidAssumption
  <2>3. QED
    BY <2>1, <2>2, <1>3, PyramidAssumption DEF TileObject, Slice, Partial, Kept
<1>5. r \in Creator
  BY DEF Creator
<1>6. /\ object' \in [Tile -> [Creator -> {Null} \cup TileObject]]
      /\ \A u \in Tile, c \in Creator :
            object'[u][c] = IF u = t /\ c = r THEN new ELSE object[u][c]
  BY <1>1, <1>2, <1>4, <1>5 DEF IInv, TypeOK
<1>7. /\ raw' \in [Tile -> Creator \cup {Null}]
      /\ \A u \in Tile : raw'[u] = IF u = t THEN r ELSE raw[u]
  BY <1>1, <1>2, <1>5 DEF IInv, TypeOK
<1>8. TypeOK'
  BY <1>1, <1>5, <1>6, <1>7 DEF IInv, TypeOK, Location
<1>9. ObjectsOK'
  BY <1>4, <1>6 DEF IInv, ObjectsOK
<1>10. RawOK'
  <2>1. \A u \in Tile : raw[u] \in Creator \cup {Null}
    BY DEF IInv, TypeOK
  <2>2. r # Null /\ new # Null
    BY <1>4, PyramidAssumption
  <2>3. \A u \in Tile : /\ raw[u] # Null => object[u][raw[u]] # Null
                        /\ \A c \in Creator : object[u][c] # Null => raw[u] # Null
    BY DEF IInv, RawOK
  <2> HIDE DEF new
  <2> SUFFICES ASSUME NEW u \in Tile
               PROVE  /\ raw'[u] # Null => object'[u][raw'[u]] # Null
                      /\ \A c \in Creator : object'[u][c] # Null => raw'[u] # Null
    BY DEF RawOK
  <2>4. CASE u = t
    BY <2>2, <2>4, <1>5, <1>6, <1>7
  <2>5. CASE u # t
    BY <2>1, <2>3, <2>5, <1>6, <1>7
  <2>6. QED
    BY <2>4, <2>5
<1>11. FramesOK'
  <2> SUFFICES ASSUME NEW p \in Request, NEW i \in 1..Len(stack'[p])
               PROVE  FrameOK(stack[p][i])'
    BY DEF FramesOK
  <2>1. stack[p] \in Seq(Frame) /\ i \in 1..Len(stack[p]) /\ stack'[p] = stack[p]
    BY <1>1 DEF IInv, TypeOK
  <2>2. stack[p][i] \in Frame
    BY <2>1, ElementOfSeq
  <2>3. stack[p][i].tile \in Tile /\ FrameOK(stack[p][i])
    BY <2>1, <2>2 DEF IInv, FramesOK, Frame
  <2>4. r # Null
    BY PyramidAssumption
  <2>5. QED
    BY <2>1, <2>3, <2>4, <1>7 DEF FrameOK
<1>12. SplitOK'
  BY <1>1, <1>2 DEF IInv, TypeOK, SplitOK
<1>13. TileOK'
  BY <1>1, <1>2, <1>4, <1>5, <1>6 DEF IInv, TypeOK, TileOK
<1>14. ServedTilesAreRight'
  BY <1>1 DEF IInv, ServedTilesAreRight, OwnContent
<1>15. QED
  BY <1>8, <1>9, <1>10, <1>11, <1>12, <1>13, <1>14 DEF IInv

\* A Source is assigned: what a request and the caches know of objects
\* stays true.
LEMMA SourceAssigned ==
    ASSUME IInv, NEW r \in Request, pc[r] \in {"assign", "slice"}, NEW slice \in Slice,
           Partial(at[r], slice),
           object' = [object EXCEPT ![at[r]][tile[r]].source = slice],
           raw' = raw
    PROVE  /\ object' \in [Tile -> [Creator -> {Null} \cup TileObject]]
           /\ \A u \in Tile, c \in Creator : object'[u][c] = Null <=> object[u][c] = Null
           /\ ObjectsOK'
           /\ RawOK'
<1> DEFINE t == at[r]
           o == object[t][tile[r]]
           new == [o EXCEPT !.source = slice]
<1>1. t \in Tile /\ tile[r] \in Creator /\ o # Null /\ o \in TileObject
  BY DEF IInv, TypeOK, TileOK
<1>2. o.features = Content[t]
  BY <1>1 DEF IInv, ObjectsOK
<1>3. new \in TileObject /\ new.features = Content[t] /\ new.source = slice
  BY <1>1, <1>2 DEF TileObject
<1>4. new # Null
  BY <1>3, PyramidAssumption
<1>5. /\ object' \in [Tile -> [Creator -> {Null} \cup TileObject]]
      /\ \A u \in Tile, c \in Creator :
            object'[u][c] = IF u = t /\ c = tile[r] THEN new ELSE object[u][c]
  BY <1>1, <1>3 DEF IInv, TypeOK
<1>6. \A u \in Tile, c \in Creator : object'[u][c] = Null <=> object[u][c] = Null
  BY <1>1, <1>4, <1>5
<1>7. ObjectsOK'
  BY <1>3, <1>5 DEF IInv, ObjectsOK
<1>8. RawOK'
  BY <1>6 DEF IInv, TypeOK, RawOK
<1>9. QED
  BY <1>5, <1>6, <1>7, <1>8

\* The current iteration of SplitTile ends, leaving s on the stack.
LEMMA ResumeOK ==
    ASSUME IInv, NEW r \in Request, pc[r] \in {"assign", "slice"},
           NEW s \in Seq(Frame), \A i \in 1..Len(s) : FrameOK(s[i]),
           Resume(r, s),
           drilling[r] \/ s = << >>,
           UNCHANGED <<raw, transformed, target, drilling, at, tile, answer>>,
           object' \in [Tile -> [Creator -> {Null} \cup TileObject]],
           \A u \in Tile, c \in Creator : object'[u][c] = Null <=> object[u][c] = Null
    PROVE  (TypeOK /\ FramesOK /\ SplitOK /\ TileOK /\ ServedTilesAreRight)'
<1> DEFINE next == IF s # << >> THEN "lookup" ELSE IF drilling[r] THEN "result" ELSE "find"
<1>1. stack' = [stack EXCEPT ![r] = s] /\ pc' = [pc EXCEPT ![r] = next]
  BY DEF Resume, Goto
<1>2. next \in {"lookup", "result", "find"} /\ (next = "lookup" => s # << >>)
  OBVIOUS
<1>3. TypeOK'
  BY <1>1, <1>2 DEF IInv, TypeOK, Location
<1>4. FramesOK'
  <2> SUFFICES ASSUME NEW p \in Request, NEW i \in 1..Len(stack'[p])
               PROVE  FrameOK(stack[p][i])'
    BY DEF FramesOK
  <2>1. CASE p = r
    BY <2>1, <1>1 DEF IInv, TypeOK, FrameOK
  <2>2. CASE p # r
    BY <2>2, <1>1 DEF IInv, TypeOK, FramesOK, FrameOK
  <2>3. QED
    BY <2>1, <2>2
<1>5. SplitOK'
  BY <1>1, <1>2 DEF IInv, TypeOK, SplitOK
<1>6. TileOK'
  <2> HIDE DEF next
  <2> SUFFICES ASSUME NEW p \in Request,
                      pc'[p] \in {"assign", "slice", "check", "copy", "transform"}
               PROVE  /\ at[p] \in Tile
                      /\ tile[p] \in Creator
                      /\ object'[at[p]][tile[p]] # Null
                      /\ pc'[p] = "transform" => at[p] = target[p]
    BY DEF TileOK
  <2>1. p # r /\ pc'[p] = pc[p]
    BY <1>1, <1>2 DEF IInv, TypeOK
  <2>2. QED
    BY <2>1 DEF IInv, TileOK
<1>7. ServedTilesAreRight'
  BY DEF IInv, ServedTilesAreRight, OwnContent
<1>8. QED
  BY <1>3, <1>4, <1>5, <1>6, <1>7

LEMMA AssignSourceOK == ASSUME IInv, NEW r \in Request, AssignSource(r) PROVE IInv'
<1> DEFINE t == at[r]
           slice == stack[r][1].features
<1>1. /\ pc[r] = "assign"
      /\ object' = [object EXCEPT ![t][tile[r]].source = slice]
      /\ UNCHANGED <<raw, transformed, target, drilling, at, tile>>
  BY StackFacts DEF AssignSource
<1>2. /\ t = stack[r][1].tile
      /\ t \in Tile
      /\ slice \in Slice
      /\ Partial(t, slice)
  BY <1>1, StackFacts DEF IInv, SplitOK, Frame, FrameOK
<1>3. /\ object' \in [Tile -> [Creator -> {Null} \cup TileObject]]
      /\ \A u \in Tile, c \in Creator : object'[u][c] = Null <=> object[u][c] = Null
      /\ ObjectsOK'
      /\ RawOK'
  BY <1>1, <1>2, SourceAssigned
<1>4. CASE StopsAt(r, t)
  <2>1. Resume(r, Tail(stack[r])) /\ UNCHANGED answer
    BY <1>4 DEF AssignSource
  <2>2. drilling[r] \/ Tail(stack[r]) = << >>
    BY <1>1, StackFacts, EmptySeq DEF IInv, SplitOK
  <2>3. (TypeOK /\ FramesOK /\ SplitOK /\ TileOK /\ ServedTilesAreRight)'
    BY <1>1, <1>3, <2>1, <2>2, StackFacts, ResumeOK
  <2>4. QED
    BY <1>3, <2>3 DEF IInv
<1>5. CASE ~StopsAt(r, t) /\ t \in Solid
  <2>1. /\ pc' = [pc EXCEPT ![r] = "done"]
        /\ answer' = [answer EXCEPT ![r] = Failed]
        /\ UNCHANGED stack
    BY <1>5 DEF AssignSource, Finish, Goto
  <2>2. TypeOK'
    BY <1>1, <1>3, <2>1 DEF IInv, TypeOK, Location
  <2>3. (FramesOK /\ SplitOK /\ TileOK)'
    BY <1>1, <1>3, <2>1 DEF IInv, TypeOK, FramesOK, FrameOK, SplitOK, TileOK
  <2>4. ServedTilesAreRight'
    BY <1>1, <2>1 DEF IInv, TypeOK, ServedTilesAreRight, OwnContent
  <2>5. QED
    BY <1>3, <2>2, <2>3, <2>4 DEF IInv
<1>6. CASE ~StopsAt(r, t) /\ t \notin Solid
  <2>1. /\ pc' = [pc EXCEPT ![r] = "slice"]
        /\ UNCHANGED <<stack, answer>>
    BY <1>6 DEF AssignSource, Goto
  <2>2. drilling[r] /\ Len(t) < MaxZoom
    <3>1. Len(t) \in 0..MaxZoom
      BY <1>2, TileIsASequence
    <3>2. drilling[r] \in BOOLEAN /\ (drilling[r] \/ t = Root)
      BY <1>1, <1>2 DEF IInv, TypeOK, SplitOK
    <3>3. drilling[r]
      BY <3>2, <1>6, RootIsATile DEF StopsAt, MaxZoomIndex
    <3>4. QED
      BY <3>1, <3>3, <1>6, PyramidAssumption DEF StopsAt
  <2>3. TypeOK'
    BY <1>1, <1>3, <2>1 DEF IInv, TypeOK, Location
  <2>4. FramesOK'
    BY <1>1, <2>1 DEF IInv, FramesOK, FrameOK
  <2>5. SplitOK'
    BY <1>1, <2>1, <2>2 DEF IInv, TypeOK, SplitOK
  <2>6. TileOK'
    BY <1>1, <1>3, <2>1 DEF IInv, TypeOK, TileOK
  <2>7. ServedTilesAreRight'
    BY <1>1, <2>1 DEF IInv, ServedTilesAreRight, OwnContent
  <2>8. QED
    BY <1>3, <2>3, <2>4, <2>5, <2>6, <2>7 DEF IInv
<1>7. QED
  BY <1>4, <1>5, <1>6

LEMMA SliceTileOK == ASSUME IInv, NEW r \in Request, SliceTile(r) PROVE IInv'
<1> DEFINE t == at[r]
           slice == stack[r][1].features
           rest == Tail(stack[r])
<1>1. /\ pc[r] = "slice"
      /\ object' = [object EXCEPT ![t][tile[r]].source = Null]
      /\ Resume(r, IF Kept(slice) = {} THEN rest ELSE Sections(t, slice) \o rest)
      /\ UNCHANGED <<raw, transformed, target, drilling, at, tile, answer>>
  BY StackFacts DEF SliceTile
<1>2. /\ t = stack[r][1].tile
      /\ t \in Tile
      /\ Len(t) < MaxZoom
      /\ slice \in Slice
      /\ Partial(t, slice)
  BY <1>1, StackFacts DEF IInv, SplitOK, Frame, FrameOK
<1>3. Partial(t, Null) /\ Null \in Slice
  BY DEF Partial, Kept, Slice
<1>4. /\ object' \in [Tile -> [Creator -> {Null} \cup TileObject]]
      /\ \A u \in Tile, c \in Creator : object'[u][c] = Null <=> object[u][c] = Null
      /\ ObjectsOK'
      /\ RawOK'
  BY <1>1, <1>3, SourceAssigned
<1>5. drilling[r]
  BY <1>1 DEF IInv, SplitOK
<1>6. CASE Kept(slice) = {}
  <2>1. Resume(r, rest)
    BY <1>1, <1>6
  <2>2. (TypeOK /\ FramesOK /\ SplitOK /\ TileOK /\ ServedTilesAreRight)'
    BY <1>1, <1>4, <1>5, <2>1, StackFacts, ResumeOK
  <2>3. QED
    BY <1>4, <2>2 DEF IInv
<1>7. CASE Kept(slice) # {}
  <2> DEFINE four == Sections(t, slice)
  <2>1. Kept(slice) = Content[t]
    BY <1>2, <1>7 DEF Partial
  <2>2. /\ four \in Seq(Frame)
        /\ Len(four) = 4
        /\ \A i \in 1..4 : FrameOK(four[i])
    BY <1>2, <2>1, SectionsAreFrames DEF FrameOK, Partial
  <2>3. /\ four \o rest \in Seq(Frame)
        /\ \A i \in 1..Len(four \o rest) : FrameOK((four \o rest)[i])
    <3> HIDE DEF four
    <3>1. /\ rest \in Seq(Frame)
          /\ \A i \in 1..Len(rest) : FrameOK(rest[i])
      BY <1>1, StackFacts
    <3> HIDE DEF rest
    <3>2. /\ four \o rest \in Seq(Frame)
          /\ Len(four \o rest) = Len(four) + Len(rest)
          /\ \A i \in 1..(Len(four) + Len(rest)) :
                (four \o rest)[i] = IF i <= Len(four) THEN four[i] ELSE rest[i - Len(four)]
      BY <2>2, <3>1, ConcatProperties
    <3>3. Len(rest) \in Nat
      BY <3>1
    <3>4. QED
      BY <2>2, <3>1, <3>2, <3>3
  <2>4. Resume(r, four \o rest)
    BY <1>1, <1>7
  <2>5. (TypeOK /\ FramesOK /\ SplitOK /\ TileOK /\ ServedTilesAreRight)'
    BY <1>1, <1>4, <1>5, <2>3, <2>4, ResumeOK
  <2>6. QED
    BY <1>4, <2>5 DEF IInv
<1>8. QED
  BY <1>6, <1>7

\* A tile found in the raw cache is a reference to an object of that tile.
LEMMA FoundIsAnObject ==
    ASSUME IInv, NEW t \in Seq(Quadrant), Lookup(t) # Null
    PROVE  /\ t \in Tile
           /\ Lookup(t) \in Creator
           /\ object[t][Lookup(t)] # Null
BY DEF IInv, TypeOK, RawOK, Lookup

LEMMA LookupIsTyped == ASSUME IInv, NEW t PROVE Lookup(t) \in Creator \cup {Null}
BY DEF IInv, TypeOK, Lookup

\* A request that touches no cache and no stack, and neither answers nor
\* enters SplitTile, keeps the rest.
LEMMA SearchStep ==
    ASSUME IInv, NEW r \in Request, NEW l \in {"climb", "check", "transform"},
           NEW t \in Seq(Quadrant),
           at' = [at EXCEPT ![r] = t],
           tile' = [tile EXCEPT ![r] = Lookup(t)],
           pc' = [pc EXCEPT ![r] = l],
           UNCHANGED <<raw, object, transformed, target, stack, drilling, answer>>,
           Lookup(t) = Null => l = "climb",
           l = "transform" => t = target[r]
    PROVE  IInv'
<1>1. TypeOK'
  BY LookupIsTyped DEF IInv, TypeOK, Location
<1>2. (ObjectsOK /\ RawOK /\ FramesOK)'
  BY DEF IInv, ObjectsOK, RawOK, FramesOK, FrameOK
<1>3. SplitOK'
  BY DEF IInv, TypeOK, SplitOK
<1>4. TileOK'
  BY FoundIsAnObject DEF IInv, TypeOK, TileOK
<1>5. ServedTilesAreRight'
  BY DEF IInv, ServedTilesAreRight, OwnContent
<1>6. QED
  BY <1>1, <1>2, <1>3, <1>4, <1>5 DEF IInv

\* A request that ends with null or with an exception changes nothing else.
LEMMA EmptyHanded ==
    ASSUME IInv, NEW r \in Request, NEW a \in {Null, Failed}, Finish(r, a),
           UNCHANGED <<raw, object, transformed, target, stack, drilling, at, tile>>
    PROVE  IInv'
<1>1. /\ pc' = [pc EXCEPT ![r] = "done"]
      /\ answer' = [answer EXCEPT ![r] = a]
  BY DEF Finish, Goto
<1>2. TypeOK'
  BY <1>1 DEF IInv, TypeOK, Location, Slice
<1>3. (ObjectsOK /\ RawOK /\ FramesOK)'
  BY <1>1 DEF IInv, ObjectsOK, RawOK, FramesOK, FrameOK
<1>4. (SplitOK /\ TileOK)'
  BY <1>1 DEF IInv, TypeOK, SplitOK, TileOK
<1>5. ServedTilesAreRight'
  BY <1>1 DEF IInv, TypeOK, ServedTilesAreRight, OwnContent
<1>6. QED
  BY <1>2, <1>3, <1>4, <1>5 DEF IInv

LEMMA FindTargetOK == ASSUME IInv, NEW r \in Request, FindTarget(r) PROVE IInv'
<1>1. target[r] \in Seq(Quadrant)
  BY PyramidAssumption DEF IInv, TypeOK
<1>2. QED
  BY <1>1, SearchStep DEF FindTarget, Goto, shared

LEMMA ClimbOK == ASSUME IInv, NEW r \in Request, Climb(r) PROVE IInv'
<1>1. CASE at[r] = Root
  BY <1>1, EmptyHanded DEF Climb, shared
<1>2. CASE at[r] # Root
  <2> DEFINE up == SubSeq(at[r], 1, Len(at[r]) - 1)
  <2>1. at[r] \in Seq(Quadrant) /\ Len(at[r]) \in Nat
    BY DEF IInv, TypeOK
  <2>2. \A i \in 1..(Len(at[r]) - 1) : at[r][i] \in Quadrant
    BY <2>1
  <2>3. up \in Seq(Quadrant)
    BY <2>1, <2>2, SubSeqProperties
  <2>4. QED
    BY <1>2, <2>3, SearchStep DEF Climb, Goto, shared
<1>3. QED
  BY <1>1, <1>2

LEMMA CheckParentOK == ASSUME IInv, NEW r \in Request, CheckParent(r) PROVE IInv'
<1>1. CASE object[at[r]][tile[r]].source = Null \/ at[r] \in Solid
  BY <1>1, EmptyHanded DEF CheckParent, shared
<1>2. CASE object[at[r]][tile[r]].source # Null /\ at[r] \notin Solid
  <2>1. /\ pc[r] = "check"
        /\ pc' = [pc EXCEPT ![r] = "copy"]
        /\ UNCHANGED <<raw, object, transformed, target, stack, drilling, at, tile, answer>>
    BY <1>2 DEF CheckParent, Goto, shared
  <2>2. TypeOK'
    BY <2>1 DEF IInv, TypeOK, Location
  <2>3. (ObjectsOK /\ RawOK /\ FramesOK /\ ServedTilesAreRight)'
    BY <2>1 DEF IInv, ObjectsOK, RawOK, FramesOK, FrameOK, ServedTilesAreRight, OwnContent
  <2>4. (SplitOK /\ TileOK)'
    BY <2>1 DEF IInv, TypeOK, SplitOK, TileOK
  <2>5. QED
    BY <2>2, <2>3, <2>4 DEF IInv
<1>3. QED
  BY <1>1, <1>2

LEMMA CopySourceOK == ASSUME IInv, NEW r \in Request, CopySource(r) PROVE IInv'
<1> DEFINE o == object[at[r]][tile[r]]
<1>1. pc[r] = "copy"
  BY DEF CopySource
<1>2. CASE o.source = Null
  BY <1>2, EmptyHanded DEF CopySource, shared
<1>3. CASE o.source # Null
  <2> DEFINE f == [tile |-> at[r], features |-> o.source]
  <2>1. /\ stack' = [stack EXCEPT ![r] = <<f>>]
        /\ drilling' = [drilling EXCEPT ![r] = TRUE]
        /\ pc' = [pc EXCEPT ![r] = "lookup"]
        /\ UNCHANGED <<raw, object, transformed, target, at, tile, answer>>
    BY <1>3 DEF CopySource, Goto, shared
  <2>2. /\ at[r] \in Tile
        /\ o \in TileObject
        /\ Partial(at[r], o.source)
    BY <1>1 DEF IInv, TypeOK, TileOK, ObjectsOK
  <2>3. f \in Frame /\ <<f>> \in Seq(Frame) /\ Len(<<f>>) = 1
    BY <2>2 DEF Frame, TileObject
  <2>4. FrameOK(f)
    <3>1. raw[at[r]] # Null
      BY <1>1 DEF IInv, TileOK, RawOK
    <3>2. QED
      BY <2>2, <3>1 DEF FrameOK
  <2>5. TypeOK'
    BY <2>1, <2>3 DEF IInv, TypeOK, Location
  <2>6. FramesOK'
    <3> SUFFICES ASSUME NEW p \in Request, NEW i \in 1..Len(stack'[p])
                 PROVE  FrameOK(stack'[p][i])
      BY <2>1 DEF FramesOK, FrameOK
    <3>1. CASE p = r
      BY <3>1, <2>1, <2>3, <2>4 DEF IInv, TypeOK
    <3>2. CASE p # r
      BY <3>2, <2>1 DEF IInv, TypeOK, FramesOK
    <3>3. QED
      BY <3>1, <3>2
  <2>7. SplitOK'
    BY <2>1, <2>3 DEF IInv, TypeOK, SplitOK
  <2>8. TileOK'
    BY <2>1 DEF IInv, TypeOK, TileOK
  <2>9. (ObjectsOK /\ RawOK /\ ServedTilesAreRight)'
    BY <2>1 DEF IInv, ObjectsOK, RawOK, ServedTilesAreRight, OwnContent
  <2>10. QED
    BY <2>5, <2>6, <2>7, <2>8, <2>9 DEF IInv
<1>4. QED
  BY <1>2, <1>3

LEMMA TakeResultOK == ASSUME IInv, NEW r \in Request, TakeResult(r) PROVE IInv'
<1>1. CASE Lookup(target[r]) = Null
  BY <1>1, EmptyHanded DEF TakeResult, shared
<1>2. CASE Lookup(target[r]) # Null
  <2>1. target[r] \in Seq(Quadrant)
    BY PyramidAssumption DEF IInv, TypeOK
  <2>2. QED
    BY <1>2, <2>1, SearchStep DEF TakeResult, Goto, shared
<1>3. QED
  BY <1>1, <1>2

\* The transform answers with the tile and keeps it, or fails and keeps nothing.
LEMMA TransformEnds ==
    ASSUME IInv, NEW r \in Request, StoreTransformedTile(r)
    PROVE  /\ pc[r] = "transform" /\ at[r] = target[r]
           /\ target[r] \in Target /\ target[r] \in Tile
           /\ object[at[r]][tile[r]].features = Content[target[r]]
           /\ UNCHANGED <<raw, object, target, stack, drilling, at, tile>>
           /\ \/ /\ ~CanProcess(Content[target[r]])
                 /\ Finish(r, Failed)
                 /\ transformed' = transformed
              \/ /\ CanProcess(Content[target[r]])
                 /\ Finish(r, Content[target[r]])
                 /\ transformed' = [transformed EXCEPT ![target[r]] = Content[target[r]]]
<1>1. /\ pc[r] = "transform" /\ at[r] = target[r]
      /\ target[r] \in Target /\ target[r] \in Tile
      /\ object[at[r]][tile[r]].features = Content[target[r]]
  BY DEF StoreTransformedTile, IInv, TypeOK, TileOK, ObjectsOK
<1>2. QED
  BY <1>1 DEF StoreTransformedTile

LEMMA StoreTransformedTileOK ==
    ASSUME IInv, NEW r \in Request, StoreTransformedTile(r) PROVE IInv'
<1> DEFINE t == target[r]
<1>1. /\ pc[r] = "transform"
      /\ t \in Target /\ t \in Tile
      /\ pc' = [pc EXCEPT ![r] = "done"]
      /\ UNCHANGED <<raw, object, target, stack, drilling, at, tile>>
  BY TransformEnds DEF Finish, Goto
<1>2. \/ /\ CanProcess(Content[t])
         /\ transformed' = [transformed EXCEPT ![t] = Content[t]]
         /\ answer' = [answer EXCEPT ![r] = Content[t]]
      \/ /\ UNCHANGED transformed
         /\ answer' = [answer EXCEPT ![r] = Failed]
  BY TransformEnds DEF Finish
<1>3. Content[t] \in Slice
  BY <1>1, PyramidAssumption DEF Slice
<1>4. TypeOK'
  BY <1>1, <1>2, <1>3 DEF IInv, TypeOK, Location
<1>5. (ObjectsOK /\ RawOK /\ FramesOK)'
  BY <1>1 DEF IInv, ObjectsOK, RawOK, FramesOK, FrameOK
<1>6. (SplitOK /\ TileOK)'
  BY <1>1 DEF IInv, TypeOK, SplitOK, TileOK
<1>7. ServedTilesAreRight'
  <2>1. ASSUME NEW u \in Target, transformed'[u] # Null
        PROVE  OwnContent(u, transformed'[u])
    BY <1>1, <1>2, <2>1 DEF IInv, TypeOK, ServedTilesAreRight, OwnContent
  <2>2. ASSUME NEW p \in Request, answer'[p] \notin {Null, Pending, Failed}
        PROVE  OwnContent(target[p], answer'[p])
    <3>1. CASE p = r
      <4>1. answer'[r] \in {Content[t], Failed} /\ (answer'[r] # Failed => CanProcess(Content[t]))
        BY <1>2 DEF IInv, TypeOK
      <4>2. QED
        BY <1>1, <2>2, <3>1, <4>1 DEF OwnContent
    <3>2. CASE p # r
      <4>1. answer'[p] = answer[p]
        BY <1>2, <3>2 DEF IInv, TypeOK
      <4>2. QED
        BY <2>2, <4>1 DEF IInv, ServedTilesAreRight
    <3>3. QED
      BY <3>1, <3>2
  <2>3. QED
    BY <1>1, <2>1, <2>2 DEF ServedTilesAreRight, OwnContent
<1>8. QED
  BY <1>4, <1>5, <1>6, <1>7 DEF IInv

LEMMA StutterOK == IInv /\ UNCHANGED vars => IInv'
<1> SUFFICES ASSUME IInv, UNCHANGED vars PROVE IInv'
  OBVIOUS
<1>1. UNCHANGED <<raw, object, transformed, pc, target, stack, drilling, at, tile, answer>>
  BY DEF vars
<1>2. (TypeOK /\ ObjectsOK /\ RawOK)'
  BY <1>1 DEF IInv, TypeOK, ObjectsOK, RawOK
<1>3. (FramesOK /\ SplitOK /\ TileOK)'
  BY <1>1 DEF IInv, FramesOK, FrameOK, SplitOK, TileOK
<1>4. ServedTilesAreRight'
  BY <1>1 DEF IInv, ServedTilesAreRight, OwnContent
<1>5. QED
  BY <1>2, <1>3, <1>4 DEF IInv

\* The inductive invariant holds of the pyramid, whatever its constants.
THEOREM InductiveInvariant == Spec => []IInv
<1>1. Init => IInv
  BY InitOK
<1>2. IInv /\ [Next]_vars => IInv'
  <2> SUFFICES ASSUME IInv, [Next]_vars PROVE IInv'
    OBVIOUS
  <2>1. ASSUME NEW r \in Request, GetTile(r) \/ Step(r) PROVE IInv'
    BY <2>1, GetTileOK, LookupFrameOK, StoreRawTileOK, AssignSourceOK, SliceTileOK,
       FindTargetOK, ClimbOK, CheckParentOK, CopySourceOK, TakeResultOK,
       StoreTransformedTileOK DEF Step
  <2>2. CASE Terminating \/ UNCHANGED vars
    BY <2>2, StutterOK DEF Terminating
  <2>3. QED
    BY <2>1, <2>2 DEF Next
<1>3. QED
  BY <1>1, <1>2, PTL DEF Spec

\* The variables keep their types: a reference the code follows is never
\* left without its object.
THEOREM TypeCorrect == Spec => []TypeOK
<1>1. IInv => TypeOK
  BY DEF IInv
<1>2. QED
  BY <1>1, InductiveInvariant, PTL

\* Whatever the number of requests and however they race, a tile that is
\* answered or cached is the tile of its own address, complete
\* (TileRetrieverService.cs:51-74, Generator.cs:55-243).
THEOREM TilesServedAreRight == Spec => []ServedTilesAreRight
<1>1. IInv => ServedTilesAreRight
  BY DEF IInv
<1>2. QED
  BY <1>1, InductiveInvariant, PTL

\* A tile in the transformed cache is never replaced by another one: the
\* only tile a second request could overwrite it with is the same.
THEOREM TransformedTilesAreStable == Spec => TransformedTilesStay
<1>1. ASSUME IInv, IInv', [Next]_vars, NEW t \in Target, transformed[t] # Null
      PROVE  transformed'[t] = transformed[t]
  <2>1. transformed[t] = Content[t]
    BY <1>1 DEF IInv, ServedTilesAreRight, OwnContent
  <2>2. transformed'[t] # Null => transformed'[t] = Content[t]
    BY <1>1 DEF IInv, ServedTilesAreRight, OwnContent
  <2>3. transformed'[t] # Null
    <3>1. CASE \E r \in Request : StoreTransformedTile(r)
      <4>1. PICK r \in Request : StoreTransformedTile(r)
        BY <3>1
      <4>2. /\ target[r] \in Tile
            /\ \/ transformed' = transformed
               \/ transformed' = [transformed EXCEPT ![target[r]] = Content[target[r]]]
        BY <1>1, <4>1, TransformEnds
      <4>3. Content[target[r]] # Null
        BY <4>2, PyramidAssumption
      <4>4. QED
        BY <4>2, <4>3, <1>1 DEF IInv, TypeOK
    <3>2. CASE ~ \E r \in Request : StoreTransformedTile(r)
      <4>1. UNCHANGED transformed
        BY <3>2, <1>1 DEF Next, Step, GetTile, LookupFrame, StoreRawTile, AssignSource,
           SliceTile, FindTarget, Climb, CheckParent, CopySource, TakeResult,
           Terminating, vars, shared
      <4>2. QED
        BY <4>1, <1>1
    <3>3. QED
      BY <3>1, <3>2
  <2>4. QED
    BY <2>1, <2>2, <2>3
<1>2. IInv /\ IInv' /\ [Next]_vars =>
         [\A t \in Target : transformed[t] # Null => transformed'[t] = transformed[t]]_vars
  BY <1>1
<1>3. QED
  BY <1>2, InductiveInvariant, PTL DEF Spec, TransformedTilesStay

-----------------------------------------------------------------------------
(***************************************************************************)
(* The paths that name tiles: what is above what.                          *)
(***************************************************************************)
Path == Seq(Quadrant)

Parent(t) == SubSeq(t, 1, Len(t) - 1)

\* The first n steps of a path.
LEMMA SubPath == ASSUME NEW t \in Path, NEW n \in 0..Len(t)
                 PROVE  /\ SubSeq(t, 1, n) \in Path
                        /\ Len(SubSeq(t, 1, n)) = n
                        /\ \A i \in 1..n : SubSeq(t, 1, n)[i] = t[i]
<1>1. \A i \in 1..n : t[i] \in Quadrant
  BY DEF Path
<1>2. Len(t) \in Nat
  BY DEF Path
<1>3. QED
  BY <1>1, <1>2, SubSeqProperties DEF Path

\* Ancestors agree with the path as far as they go.
LEMMA AncestorByElements ==
    ASSUME NEW t \in Path, NEW u \in Path
    PROVE  IsAncestor(t, u) <=> Len(t) <= Len(u) /\ \A i \in 1..Len(t) : t[i] = u[i]
<1>1. Len(t) \in Nat /\ Len(u) \in Nat
  BY DEF Path
<1>2. CASE Len(t) <= Len(u)
  <2>1. /\ SubSeq(u, 1, Len(t)) \in Path
        /\ Len(SubSeq(u, 1, Len(t))) = Len(t)
        /\ \A i \in 1..Len(t) : SubSeq(u, 1, Len(t))[i] = u[i]
    BY <1>1, <1>2, SubPath
  <2>2. SubSeq(u, 1, Len(t)) = t <=> \A i \in 1..Len(t) : t[i] = u[i]
    BY <1>1, <2>1, SeqEqual DEF Path
  <2>3. QED
    BY <1>2, <2>2 DEF IsAncestor
<1>3. QED
  BY <1>1, <1>2 DEF IsAncestor

\* Ancestors are ordered, and those of one path by their length.
LEMMA AncestorOrder ==
    ASSUME NEW t \in Path, NEW u \in Path, NEW v \in Path
    PROVE  /\ IsAncestor(t, t)
           /\ IsAncestor(Root, t)
           /\ IsAncestor(t, u) /\ IsAncestor(u, v) => IsAncestor(t, v)
           /\ IsAncestor(t, u) /\ IsAncestor(u, t) => t = u
           /\ IsAncestor(t, v) /\ IsAncestor(u, v) => IsAncestor(t, u) \/ IsAncestor(u, t)
<1>1. Len(t) \in Nat /\ Len(u) \in Nat /\ Len(v) \in Nat
  BY DEF Path
<1>2. Root \in Path /\ Len(Root) = 0
  BY DEF Root, Path
<1>3. IsAncestor(t, t) /\ IsAncestor(Root, t)
  BY <1>1, <1>2, AncestorByElements
<1>4. ASSUME IsAncestor(t, u), IsAncestor(u, v) PROVE IsAncestor(t, v)
  <2>1. /\ Len(t) <= Len(u) /\ \A i \in 1..Len(t) : t[i] = u[i]
        /\ Len(u) <= Len(v) /\ \A i \in 1..Len(u) : u[i] = v[i]
    BY <1>4, AncestorByElements
  <2>2. \A i \in 1..Len(t) : i \in 1..Len(u)
    BY <1>1, <2>1
  <2>3. QED
    BY <1>1, <2>1, <2>2, AncestorByElements
<1>5. ASSUME IsAncestor(t, u), IsAncestor(u, t) PROVE t = u
  <2>1. Len(t) = Len(u) /\ \A i \in 1..Len(t) : t[i] = u[i]
    BY <1>1, <1>5, AncestorByElements
  <2>2. QED
    BY <2>1, SeqEqual DEF Path
<1>6. ASSUME IsAncestor(t, v), IsAncestor(u, v) PROVE IsAncestor(t, u) \/ IsAncestor(u, t)
  <2>1. /\ \A i \in 1..Len(t) : t[i] = v[i]
        /\ \A i \in 1..Len(u) : u[i] = v[i]
    BY <1>6, AncestorByElements
  <2>2. CASE Len(t) <= Len(u)
    <3>1. \A i \in 1..Len(t) : i \in 1..Len(u)
      BY <1>1, <2>2
    <3>2. QED
      BY <2>1, <2>2, <3>1, AncestorByElements
  <2>3. CASE Len(u) <= Len(t)
    <3>1. \A i \in 1..Len(u) : i \in 1..Len(t)
      BY <1>1, <2>3
    <3>2. QED
      BY <2>1, <2>3, <3>1, AncestorByElements
  <2>4. QED
    BY <1>1, <2>2, <2>3
<1>7. QED
  BY <1>3, <1>4, <1>5, <1>6

\* What is above is shorter, and above or at the parent.
LEMMA AboveIsShorter ==
    ASSUME NEW t \in Path, NEW u \in Path
    PROVE  /\ Above(t, u) <=> IsAncestor(t, u) /\ Len(t) < Len(u)
           /\ Above(t, u) => u # Root /\ IsAncestor(t, Parent(u))
           /\ u # Root /\ IsAncestor(t, Parent(u)) => Above(t, u)
<1>1. Len(t) \in Nat /\ Len(u) \in Nat
  BY DEF Path
<1>2. IsAncestor(t, u) <=> Len(t) <= Len(u) /\ \A i \in 1..Len(t) : t[i] = u[i]
  BY AncestorByElements
<1>3. Above(t, u) <=> IsAncestor(t, u) /\ Len(t) < Len(u)
  <2>1. ASSUME IsAncestor(t, u), Len(t) = Len(u) PROVE t = u
    BY <1>1, <1>2, <2>1, SeqEqual DEF Path
  <2>2. QED
    BY <1>1, <1>2, <2>1 DEF Above
<1>4. CASE u = Root
  BY <1>1, <1>3, <1>4 DEF Root
<1>5. CASE u # Root
  <2>1. Len(u) \in Nat \ {0}
    BY <1>1, <1>5, EmptySeq DEF Root, Path
  <2>2. /\ Parent(u) \in Path
        /\ Len(Parent(u)) = Len(u) - 1
        /\ \A i \in 1..(Len(u) - 1) : Parent(u)[i] = u[i]
    <3>1. Len(u) - 1 \in 0..Len(u)
      BY <2>1
    <3>2. QED
      BY <3>1, SubPath DEF Parent
  <2>3. IsAncestor(t, Parent(u))
           <=> Len(t) <= Len(u) - 1 /\ \A i \in 1..Len(t) : t[i] = Parent(u)[i]
    BY <2>2, AncestorByElements
  <2>4. ASSUME Len(t) <= Len(u) - 1 PROVE \A i \in 1..Len(t) : Parent(u)[i] = u[i]
    BY <1>1, <2>1, <2>2, <2>4
  <2>5. QED
    BY <1>1, <1>2, <1>3, <1>5, <2>1, <2>3, <2>4
<1>6. QED
  BY <1>4, <1>5

\* The root is its own parent.
LEMMA ParentIsAPath == ASSUME NEW t \in Path
                       PROVE  Parent(t) \in Path /\ IsAncestor(Parent(t), t)
<1>1. CASE t = Root
  <2>1. Parent(t) = Root
    BY <1>1, SubSeqEmpty DEF Parent, Root
  <2>2. QED
    BY <1>1, <2>1, AncestorOrder
<1>2. CASE t # Root
  <2>1. Len(t) \in Nat \ {0}
    BY <1>2, EmptySeq DEF Root, Path
  <2>2. Parent(t) \in Path
    BY <2>1, SubPath DEF Parent
  <2>3. QED
    BY <1>2, <2>2, AncestorOrder, AboveIsShorter DEF Above
<1>3. QED
  BY <1>1, <1>2

\* A child lies one step below its parent.
LEMMA ChildFacts ==
    ASSUME NEW t \in Path, NEW q \in Quadrant
    PROVE  /\ Append(t, q) \in Path
           /\ Len(Append(t, q)) = Len(t) + 1
           /\ Parent(Append(t, q)) = t
           /\ Append(t, q) # Root
           /\ Above(t, Append(t, q))
<1> DEFINE c == Append(t, q)
<1>1. Len(t) \in Nat /\ c \in Path /\ Len(c) = Len(t) + 1 /\ \A i \in 1..Len(t) : c[i] = t[i]
  BY DEF Path
<1>2. c # Root
  BY <1>1 DEF Root
<1>3. /\ Parent(c) \in Path
      /\ Len(Parent(c)) = Len(t)
      /\ \A i \in 1..Len(t) : Parent(c)[i] = c[i]
  <2>1. Len(t) \in 0..Len(c) /\ Len(c) - 1 = Len(t)
    BY <1>1
  <2>2. QED
    BY <1>1, <2>1, SubPath DEF Parent
<1>4. Parent(c) = t
  BY <1>1, <1>3, SeqEqual DEF Path
<1>5. QED
  BY <1>1, <1>2, <1>4, AncestorOrder, AboveIsShorter

\* The first tile below an ancestor on the way down to a tile.
Below(t, u) == SubSeq(u, 1, Len(t) + 1)

LEMMA BelowFacts ==
    ASSUME NEW t \in Path, NEW u \in Path, Above(t, u)
    PROVE  /\ Below(t, u) \in Path
           /\ IsAncestor(Below(t, u), u)
           /\ \E q \in Quadrant : Below(t, u) = Append(t, q)
<1>1. /\ Len(t) \in Nat /\ Len(u) \in Nat /\ Len(t) < Len(u)
      /\ \A i \in 1..Len(t) : t[i] = u[i]
  BY AboveIsShorter, AncestorByElements DEF Path
<1> DEFINE b == Below(t, u)
<1>2. b \in Path /\ Len(b) = Len(t) + 1 /\ \A i \in 1..(Len(t) + 1) : b[i] = u[i]
  BY <1>1, SubPath DEF Below
<1>3. IsAncestor(b, u)
  BY <1>1, <1>2, AncestorByElements
<1>4. u[Len(t) + 1] \in Quadrant
  BY <1>1 DEF Path
<1> DEFINE c == Append(t, u[Len(t) + 1])
<1>5. /\ c \in Path /\ Len(c) = Len(t) + 1
      /\ \A i \in 1..Len(t) : c[i] = t[i]
      /\ c[Len(t) + 1] = u[Len(t) + 1]
  BY <1>1, <1>4 DEF Path
<1>6. \A i \in 1..(Len(t) + 1) : c[i] = u[i]
  <2> TAKE i \in 1..(Len(t) + 1)
  <2>1. i \in 1..Len(t) \/ i = Len(t) + 1
    BY <1>1
  <2>2. QED
    BY <1>1, <1>5, <2>1
<1>7. b = c
  BY <1>2, <1>5, <1>6, SeqEqual DEF Path
<1>8. QED
  BY <1>2, <1>3, <1>4, <1>7

\* The tiles are the paths that do not go below MaxZoom.
LEMMA TileByLength == ASSUME NEW t \in Path
                      PROVE  t \in Tile <=> Len(t) <= MaxZoom
<1>1. Len(t) \in Nat /\ t \in [1..Len(t) -> Quadrant]
  BY DEF Path
<1>2. ASSUME Len(t) <= MaxZoom PROVE t \in Tile
  <2>1. Len(t) \in 0..MaxZoom
    BY <1>1, <1>2, PyramidAssumption
  <2>2. QED
    BY <1>1, <2>1 DEF Tile
<1>3. ASSUME t \in Tile PROVE Len(t) <= MaxZoom
  BY <1>3, TileIsASequence, PyramidAssumption
<1>4. QED
  BY <1>2, <1>3

\* What is above a tile is a tile, and has its features.
LEMMA AncestorIsATile == ASSUME NEW t \in Path, NEW u \in Tile, IsAncestor(t, u)
                         PROVE  t \in Tile /\ Content[u] \subseteq Content[t]
<1>1. u \in Path /\ Len(u) <= MaxZoom /\ Len(t) <= Len(u)
  BY TileIsASequence, TileByLength DEF IsAncestor, Path
<1>2. Len(t) \in Nat /\ Len(u) \in Nat /\ MaxZoom \in Nat
  BY <1>1, PyramidAssumption DEF Path
<1>3. t \in Tile
  BY <1>1, <1>2, TileByLength
<1>4. QED
  BY <1>3, PyramidAssumption

LEMMA Paths == Tile \subseteq Path /\ Solid \subseteq Path /\ Target \subseteq Path /\ Root \in Tile
BY TileIsASequence, RootIsATile, PyramidAssumption DEF Path

-----------------------------------------------------------------------------
(***************************************************************************)
(* One request at a time.  Whatever earlier requests have left behind, the *)
(* climb finds a tile it can go on from, and the drill gets to the target, *)
(* because a tile without Source has its children stored, or on the stack  *)
(* of the request that took it away.                                       *)
(***************************************************************************)

\* The Source of a stored tile.
SourceOf(t) == object[t][raw[t]].source

Alone == \A p, q \in Running : p = q

\* What a request works on is what the cache holds.
WorksOnRaw(r) ==
    /\ pc[r] \in {"assign", "slice", "check", "copy", "transform"} => tile[r] = raw[at[r]]
    /\ pc[r] = "store" => raw[at[r]] = Null

\* A Source is complete or gone, but for the empty list of a tile just made.
SourcesWhole ==
    \A t \in Tile : raw[t] # Null =>
        \/ SourceOf(t) \in {Null, Content[t]}
        \/ \E r \in Request : pc[r] = "assign" /\ at[r] = t

\* Tile t is not under a filled square, and what is above it is stored.
Placed(t) ==
    /\ ~UnderSolid(t)
    /\ \A u \in Tile : Above(u, t) => raw[u] # Null

StoredPlaced == \A t \in Tile : raw[t] # Null => Placed(t)

\* A frame is complete, and the first pass has the features of the layer.
FrameWhole(r, f) ==
    /\ Kept(f.features) = Content[f.tile]
    /\ Placed(f.tile)
    /\ drilling[r] \/ f.features # Null

\* Frames hang from the path to the one on top.
StackNested(r) ==
    pc[r] \in Tiling =>
        /\ \A i \in 1..Len(stack[r]) : FrameWhole(r, stack[r][i])
        /\ \A i, j \in 1..Len(stack[r]) :
              i <= j => IsAncestor(Parent(stack[r][j].tile), Parent(stack[r][i].tile))

\* Tile t is on a stack.
Coming(t) ==
    \E r \in Request : pc[r] \in Tiling /\ \E i \in 1..Len(stack[r]) : stack[r][i].tile = t

\* SourceIsNotNeeded, also while a request has children of t on its stack.
Provided(t) ==
    \/ Content[t] = {}
    \/ \A q \in Quadrant : Lookup(Append(t, q)) # Null \/ Coming(Append(t, q))
    \/ CutShort(t)

StrippedProvided ==
    \A t \in Tile \ {Root} : (raw[t] # Null /\ SourceOf(t) = Null) => Provided(t)

SlicesOnPath(r) == pc[r] = "slice" => at[r] \notin Solid /\ Above(at[r], target[r])

\* The climb: the tiles below it on the way to the target are not stored.
ClimbsFromTarget(r) ==
    /\ pc[r] \in {"find", "climb", "check", "copy"} => raw[Root] # Null /\ SourceOf(Root) # Null
    /\ pc[r] = "climb" => IsAncestor(at[r], target[r]) /\ Lookup(at[r]) = Null
    /\ pc[r] \in {"check", "copy"} =>
          Above(at[r], target[r]) /\ Lookup(Below(at[r], target[r])) = Null
    /\ pc[r] = "copy" => SourceOf(at[r]) # Null

OnStack(r) == \E i \in 1..Len(stack[r]) : IsAncestor(stack[r][i].tile, target[r])

\* The drill: the target is made, or still to come, or there is nothing there.
DrillsToTarget(r) ==
    (pc[r] = "result" \/ (drilling[r] /\ pc[r] \in Tiling)) =>
        \/ Lookup(target[r]) # Null
        \/ NothingThere(target[r])
        \/ pc[r] # "result" /\ OnStack(r)

RequestOK(r) ==
    /\ WorksOnRaw(r)
    /\ StackNested(r)
    /\ SlicesOnPath(r)
    /\ ClimbsFromTarget(r)
    /\ DrillsToTarget(r)

\* Answers come at the end, and what is answered from the cache is stored.
AnswersAwaited ==
    /\ \A r \in Request : pc[r] # "done" => answer[r] = Pending
    /\ \A t \in Target : transformed[t] # Null => Lookup(t) # Null

SInv ==
    /\ Alone
    /\ \A r \in Request : RequestOK(r)
    /\ SourcesWhole
    /\ StoredPlaced
    /\ StrippedProvided
    /\ AnswersAwaited

Resting == {"idle", "done"}

\* Nothing is asked of a request that does not run.
LEMMA RestingIsOK == ASSUME NEW p, pc'[p] \in Resting PROVE RequestOK(p)'
BY DEF Resting, RequestOK, WorksOnRaw, StackNested, SlicesOnPath, ClimbsFromTarget,
       DrillsToTarget, Tiling

\* While r runs no other request does.
LEMMA OnlyOne ==
    ASSUME TypeOK, Alone, NEW r \in Request, pc[r] \notin Resting
    PROVE  \A p \in Request \ {r} : pc[p] \in Resting
BY DEF TypeOK, Alone, Running, Resting

\* A step of r leaves the others at rest.
LEMMA StepAlone ==
    ASSUME TypeOK, Alone, NEW r \in Request, pc[r] \notin Resting,
           NEW l, pc' = [pc EXCEPT ![r] = l], RequestOK(r)'
    PROVE  Alone' /\ \A p \in Request : RequestOK(p)'
<1>1. \A p \in Request \ {r} : pc[p] \in Resting /\ pc'[p] = pc[p]
  BY OnlyOne DEF TypeOK
<1>2. Alone'
  BY <1>1 DEF Alone, Running, Resting
<1>3. \A p \in Request \ {r} : RequestOK(p)'
  BY <1>1, RestingIsOK
<1>4. QED
  BY <1>2, <1>3

\* A request that fails inside a tile is remembered.
LEMMA CutShortStays ==
    ASSUME IInv, SInv, NEW r \in Request, pc[r] # "done", NEW t,
           \A u \in Tile : raw[u] # Null => raw'[u] # Null,
           UNCHANGED target,
           \A p \in Request \ {r} : answer'[p] = answer[p],
           CutShort(t)
    PROVE  CutShort(t)'
<1>1. PICK p \in Request, s \in Sliceable :
          answer[p] = Failed /\ raw[s] # Null /\ Above(t, s) /\ Above(s, target[p])
  BY DEF CutShort
<1>2. p # r
  BY <1>1, PyramidAssumption DEF SInv, AnswersAwaited
<1>3. s \in Tile
  BY PyramidAssumption DEF Sliceable
<1>4. QED
  BY <1>1, <1>2, <1>3 DEF CutShort

\* A step that leaves the raw cache and its tiles alone, and no frame behind.
LEMMA CacheUntouched ==
    ASSUME IInv, SInv, NEW r \in Request, pc[r] # "done", pc[r] # "assign",
           \A p \in Request \ {r} : pc[p] \in Resting,
           NEW l, pc' = [pc EXCEPT ![r] = l],
           UNCHANGED <<raw, object, target>>,
           \A p \in Request \ {r} : answer'[p] = answer[p],
           pc[r] \notin Tiling \/ (l \in Tiling /\ UNCHANGED stack)
    PROVE  (SourcesWhole /\ StoredPlaced /\ StrippedProvided)'
<1>1. StoredPlaced'
  BY DEF SInv, StoredPlaced, Placed
<1>2. \A t \in Tile : raw[t] # Null => SourceOf(t) \in {Null, Content[t]}
  BY DEF SInv, SourcesWhole, Resting
<1>3. SourcesWhole'
  BY <1>2 DEF SourcesWhole, SourceOf
<1>4. ASSUME NEW t, Coming(t) PROVE Coming(t)'
  <2>1. pc[r] \in Tiling /\ \E i \in 1..Len(stack[r]) : stack[r][i].tile = t
    BY <1>4 DEF Coming, Tiling, Resting
  <2>2. pc'[r] \in Tiling
    BY <2>1 DEF IInv, TypeOK
  <2>3. QED
    BY <2>1, <2>2 DEF Coming
<1>5. ASSUME NEW t, Provided(t) PROVE Provided(t)'
  <2>1. CutShort(t) => CutShort(t)'
    BY CutShortStays
  <2>2. QED
    BY <1>4, <1>5, <2>1 DEF Provided, Lookup
<1>6. StrippedProvided'
  BY <1>5 DEF SInv, StrippedProvided, SourceOf
<1>7. QED
  BY <1>1, <1>3, <1>6

-----------------------------------------------------------------------------
(***************************************************************************)
(* SInv, action by action.                                                 *)
(***************************************************************************)

\* A request starts only after the others have ended.
LEMMA NobodyRuns ==
    ASSUME Alone, InFlight = 1, Cardinality(Running) < InFlight
    PROVE  Running = {}
<1>1. ASSUME NEW r \in Running PROVE FALSE
  <2>1. Running = {r}
    BY <1>1 DEF Alone
  <2>2. Cardinality(Running) = 1
    BY <2>1, FS_Singleton
  <2>3. QED
    BY <2>2
<1>2. QED
  BY <1>1

LEMMA GetTileSequential ==
    ASSUME InFlight = 1, IInv, SInv, NEW r \in Request, GetTile(r)
    PROVE  SInv'
<1>1. pc[r] = "idle" /\ Running = {}
  BY NobodyRuns DEF GetTile, SInv
<1>2. \A p \in Request : pc[p] \in Resting
  BY <1>1 DEF Running, Resting
<1>3. pc \in [Request -> Location]
  BY DEF IInv, TypeOK
<1>4. CASE transformed[target[r]] # Null
  <2>1. /\ pc' = [pc EXCEPT ![r] = "done"]
        /\ answer' = [answer EXCEPT ![r] = transformed[target[r]]]
        /\ UNCHANGED <<raw, object, transformed, target, stack, drilling, at, tile>>
    BY <1>4 DEF GetTile, Finish, Goto, shared
  <2>2. \A p \in Request : pc'[p] \in Resting
    BY <1>2, <1>3, <2>1 DEF Resting
  <2>3. Alone' /\ \A p \in Request : RequestOK(p)'
    BY <2>2, RestingIsOK DEF Alone, Running, Resting
  <2>4. \A p \in Request \ {r} : answer'[p] = answer[p]
    BY <2>1 DEF IInv, TypeOK
  <2>5. (SourcesWhole /\ StoredPlaced /\ StrippedProvided)'
    BY <1>1, <1>2, <2>1, <2>4, CacheUntouched DEF Tiling
  <2>6. AnswersAwaited'
    BY <1>3, <2>1, <2>4 DEF SInv, AnswersAwaited, Lookup
  <2>7. QED
    BY <2>3, <2>5, <2>6 DEF SInv
<1>5. CASE transformed[target[r]] = Null
  <2> DEFINE root == [tile |-> Root, features |-> Content[Root]]
  <2>1. /\ pc' = [pc EXCEPT ![r] = "lookup"]
        /\ stack' = [stack EXCEPT ![r] = <<root>>]
        /\ UNCHANGED <<raw, object, transformed, target, drilling, at, tile, answer>>
    BY <1>5 DEF GetTile, Goto, shared
  <2>2. stack'[r] = <<root>> /\ Len(<<root>>) = 1 /\ pc'[r] = "lookup"
    BY <1>3, <2>1 DEF IInv, TypeOK
  <2>3. Content[Root] \in SUBSET Feature /\ Content[Root] # Null
    BY RootIsATile, PyramidAssumption
  <2>4. ASSUME NEW t \in Path PROVE ~Above(t, Root)
    BY <2>4, Paths, AboveIsShorter DEF Path
  <2>5. FrameWhole(r, root)'
    BY <2>3, <2>4, Paths DEF FrameWhole, Placed, UnderSolid, Kept
  <2>6. IsAncestor(Parent(Root), Parent(Root)) /\ IsAncestor(Root, target[r])
    <3>1. Root \in Path /\ Parent(Root) \in Path /\ target[r] \in Path
      BY Paths, ParentIsAPath DEF IInv, TypeOK
    <3>2. QED
      BY <3>1, AncestorOrder
  <2>7. RequestOK(r)'
    <3>1. StackNested(r)'
      BY <2>2, <2>5, <2>6 DEF StackNested
    <3>2. DrillsToTarget(r)'
      BY <2>1, <2>2, <2>6 DEF DrillsToTarget, OnStack
    <3>3. QED
      BY <2>2, <3>1, <3>2 DEF RequestOK, WorksOnRaw, SlicesOnPath, ClimbsFromTarget
  <2>8. Alone' /\ \A p \in Request : RequestOK(p)'
    <3>1. \A p \in Request \ {r} : pc'[p] \in Resting
      BY <1>2, <1>3, <2>1
    <3>2. QED
      BY <2>7, <3>1, RestingIsOK DEF Alone, Running, Resting
  <2>9. (SourcesWhole /\ StoredPlaced /\ StrippedProvided)'
    BY <1>1, <1>2, <2>1, CacheUntouched DEF Tiling
  <2>10. AnswersAwaited'
    BY <1>1, <1>3, <2>1 DEF SInv, AnswersAwaited, Lookup
  <2>11. QED
    BY <2>8, <2>9, <2>10 DEF SInv
<1>6. QED
  BY <1>4, <1>5

LEMMA LookupFrameSequential ==
    ASSUME IInv, SInv, NEW r \in Request, LookupFrame(r)
    PROVE  SInv'
<1> DEFINE t == stack[r][1].tile
<1>1. /\ pc[r] = "lookup"
      /\ at' = [at EXCEPT ![r] = t]
      /\ tile' = [tile EXCEPT ![r] = raw[t]]
      /\ pc' = [pc EXCEPT ![r] = IF raw[t] = Null THEN "store" ELSE "assign"]
      /\ UNCHANGED <<raw, object, transformed, target, stack, drilling, answer>>
  BY StackFacts DEF LookupFrame, Goto, shared
<1>2. \A p \in Request \ {r} : pc[p] \in Resting
  BY <1>1, OnlyOne DEF IInv, SInv, Resting
<1>3. RequestOK(r)'
  <2>1. /\ pc'[r] = IF raw[t] = Null THEN "store" ELSE "assign"
        /\ at'[r] = t /\ tile'[r] = raw[t]
    BY <1>1 DEF IInv, TypeOK
  <2>2. (WorksOnRaw(r) /\ SlicesOnPath(r) /\ ClimbsFromTarget(r))'
    BY <1>1, <2>1 DEF WorksOnRaw, SlicesOnPath, ClimbsFromTarget
  <2>3. StackNested(r)'
    BY <1>1 DEF SInv, RequestOK, StackNested, FrameWhole, Placed, Tiling
  <2>4. DrillsToTarget(r)'
    BY <1>1, <2>1 DEF SInv, RequestOK, DrillsToTarget, OnStack, Lookup, Tiling
  <2>5. QED
    BY <2>2, <2>3, <2>4 DEF RequestOK
<1>4. Alone' /\ \A p \in Request : RequestOK(p)'
  BY <1>1, <1>3, StepAlone DEF IInv, SInv, Resting
<1>5. (SourcesWhole /\ StoredPlaced /\ StrippedProvided)'
  BY <1>1, <1>2, CacheUntouched DEF Tiling
<1>6. AnswersAwaited'
  BY <1>1 DEF IInv, TypeOK, SInv, AnswersAwaited, Lookup
<1>7. QED
  BY <1>4, <1>5, <1>6 DEF SInv

LEMMA StoreRawTileSequential ==
    ASSUME IInv, SInv, NEW r \in Request, StoreRawTile(r)
    PROVE  SInv'
<1> DEFINE t == at[r]
           new == NewTile(stack[r][1].features)
<1>1. /\ pc[r] = "store"
      /\ object' = [object EXCEPT ![t][r] = new]
      /\ raw' = [raw EXCEPT ![t] = r]
      /\ tile' = [tile EXCEPT ![r] = r]
      /\ pc' = [pc EXCEPT ![r] = "assign"]
      /\ UNCHANGED <<transformed, target, stack, drilling, at, answer>>
  BY StackFacts DEF StoreRawTile, Goto
<1>2. /\ t = stack[r][1].tile
      /\ t \in Tile
      /\ 1 \in 1..Len(stack[r])
  BY <1>1, StackFacts DEF IInv, SplitOK, Frame
<1>3. \A p \in Request \ {r} : pc[p] \in Resting
  BY <1>1, OnlyOne DEF IInv, SInv, Resting
<1>4. r \in Creator /\ r # Null
  BY PyramidAssumption DEF Creator
<1>5. /\ raw[t] = Null
      /\ \A u \in Tile : raw'[u] = IF u = t THEN r ELSE raw[u]
      /\ \A u \in Tile : raw[u] # Null => raw'[u] # Null
  BY <1>1, <1>2, <1>4 DEF IInv, TypeOK, SInv, RequestOK, WorksOnRaw
<1>6. /\ SourceOf(t)' = {} /\ {} # Null
      /\ \A u \in Tile \ {t} : SourceOf(u)' = SourceOf(u)
  <2>1. /\ object'[t][r] = new
        /\ \A u \in Tile \ {t} : object'[u] = object[u]
    BY <1>1, <1>2, <1>4 DEF IInv, TypeOK
  <2>2. new.source = {} /\ {} # Null
    <3>1. {} \in SUBSET Feature
      OBVIOUS
    <3>2. QED
      BY <3>1, PyramidAssumption DEF NewTile
  <2>3. SourceOf(t)' = new.source
    BY <1>1, <1>2, <1>5, <2>1 DEF SourceOf
  <2>4. ASSUME NEW u \in Tile \ {t} PROVE SourceOf(u)' = SourceOf(u)
    <3>1. object'[u] = object[u] /\ raw'[u] = raw[u]
      BY <1>5, <2>1
    <3>2. QED
      BY <3>1 DEF SourceOf
  <2>5. QED
    BY <2>2, <2>3, <2>4
<1>7. ASSUME NEW u, Placed(u) PROVE Placed(u)'
  BY <1>5, <1>7 DEF Placed
<1>8. ASSUME NEW u, Lookup(u) # Null PROVE Lookup(u)' # Null
  BY <1>5, <1>8 DEF Lookup
<1>9. RequestOK(r)'
  <2>1. WorksOnRaw(r)'
    BY <1>1, <1>2, <1>5 DEF IInv, TypeOK, WorksOnRaw
  <2>2. StackNested(r)'
    BY <1>1, <1>7 DEF IInv, TypeOK, SInv, RequestOK, StackNested, FrameWhole, Tiling
  <2>3. DrillsToTarget(r)'
    BY <1>1, <1>8 DEF IInv, TypeOK, SInv, RequestOK, DrillsToTarget, OnStack, Tiling
  <2>4. QED
    BY <1>1, <2>1, <2>2, <2>3 DEF IInv, TypeOK, RequestOK, SlicesOnPath, ClimbsFromTarget
<1>10. Alone' /\ \A p \in Request : RequestOK(p)'
  BY <1>1, <1>9, StepAlone DEF IInv, SInv, Resting
<1>11. SourcesWhole'
  <2> SUFFICES ASSUME NEW u \in Tile, raw'[u] # Null
               PROVE  SourceOf(u)' \in {Null, Content[u]} \/ (pc'[r] = "assign" /\ at'[r] = u)
    BY DEF SourcesWhole
  <2>1. CASE u = t
    BY <1>1, <2>1 DEF IInv, TypeOK
  <2>2. CASE u # t
    <3>1. raw[u] # Null
      BY <1>5, <2>2
    <3>2. SourceOf(u) \in {Null, Content[u]}
      BY <1>1, <1>3, <3>1 DEF SInv, SourcesWhole, Resting
    <3>3. QED
      BY <1>6, <2>2, <3>2
  <2>3. QED
    BY <2>1, <2>2
<1>12. StoredPlaced'
  <2> SUFFICES ASSUME NEW u \in Tile, raw'[u] # Null PROVE Placed(u)'
    BY DEF StoredPlaced
  <2>1. CASE u = t
    BY <1>1, <1>2, <1>7, <2>1 DEF SInv, RequestOK, StackNested, FrameWhole, Tiling
  <2>2. CASE u # t
    BY <1>5, <1>7, <2>2 DEF SInv, StoredPlaced
  <2>3. QED
    BY <2>1, <2>2
<1>13. StrippedProvided'
  <2>1. ASSUME NEW u, Coming(u) PROVE Coming(u)'
    BY <1>1, <1>3, <2>1 DEF IInv, TypeOK, Coming, Tiling, Resting
  <2>2. ASSUME NEW u, Provided(u) PROVE Provided(u)'
    <3>1. CutShort(u) => CutShort(u)'
      BY <1>1, <1>5, CutShortStays
    <3>2. QED
      BY <1>8, <2>1, <2>2, <3>1 DEF Provided
  <2>3. ASSUME NEW u \in Tile \ {Root}, raw'[u] # Null, SourceOf(u)' = Null PROVE Provided(u)'
    <3>1. u # t
      BY <1>1, <1>6, <2>3
    <3>2. raw[u] # Null /\ SourceOf(u) = Null
      BY <1>5, <1>6, <2>3, <3>1
    <3>3. QED
      BY <2>2, <3>2 DEF SInv, StrippedProvided
  <2>4. QED
    BY <2>3 DEF StrippedProvided
<1>14. AnswersAwaited'
  BY <1>1, <1>8 DEF IInv, TypeOK, SInv, AnswersAwaited
<1>15. QED
  BY <1>10, <1>11, <1>12, <1>13, <1>14 DEF SInv

\* The frames under the one on top.
LEMMA TailOfStack ==
    ASSUME IInv, NEW r \in Request, pc[r] \in Tiling
    PROVE  /\ Len(stack[r]) \in Nat \ {0}
           /\ Len(Tail(stack[r])) = Len(stack[r]) - 1
           /\ \A i \in 1..Len(Tail(stack[r])) :
                 i + 1 \in 1..Len(stack[r]) /\ Tail(stack[r])[i] = stack[r][i + 1]
           /\ \A i \in 1..Len(stack[r]) :
                 i = 1 \/ (i - 1 \in 1..Len(Tail(stack[r])) /\ Tail(stack[r])[i - 1] = stack[r][i])
<1>1. /\ stack[r] \in Seq(Frame) /\ stack[r] # << >>
      /\ Len(stack[r]) \in Nat \ {0}
      /\ Len(Tail(stack[r])) = Len(stack[r]) - 1
  BY StackFacts DEF Tiling
<1>2. \A i \in 1..Len(Tail(stack[r])) : Tail(stack[r])[i] = stack[r][i + 1]
  BY <1>1, HeadTailProperties
<1>3. \A i \in 1..Len(Tail(stack[r])) : i + 1 \in 1..Len(stack[r])
  BY <1>1
<1>4. ASSUME NEW i \in 1..Len(stack[r]), i # 1
      PROVE  i - 1 \in 1..Len(Tail(stack[r])) /\ Tail(stack[r])[i - 1] = stack[r][i]
  <2>1. i - 1 \in 1..Len(Tail(stack[r])) /\ (i - 1) + 1 = i
    BY <1>1, <1>4
  <2>2. QED
    BY <1>2, <2>1
<1>5. QED
  BY <1>1, <1>2, <1>3, <1>4

\* The tile SplitTile works on.
LEMMA TopOfStack ==
    ASSUME IInv, SInv, NEW r \in Request, pc[r] \in {"assign", "slice"},
           NEW t \in Tile, at[r] = t
    PROVE  /\ stack[r][1].tile = t /\ stack[r][1] \in Frame
           /\ FrameWhole(r, stack[r][1])
           /\ tile[r] = raw[t] /\ raw[t] \in Creator /\ raw[t] # Null
           /\ object[t][raw[t]] \in TileObject
<1>1. stack[r][1].tile = t /\ stack[r][1] \in Frame /\ 1 \in 1..Len(stack[r])
  BY StackFacts DEF IInv, SplitOK
<1>2. FrameWhole(r, stack[r][1])
  BY <1>1 DEF SInv, RequestOK, StackNested, Tiling
<1>3. tile[r] = raw[t] /\ raw[t] \in Creator /\ object[t][raw[t]] # Null
  BY DEF IInv, TileOK, SInv, RequestOK, WorksOnRaw
<1>4. raw[t] # Null
  BY <1>3 DEF IInv, RawOK
<1>5. object[t][raw[t]] \in TileObject
  BY <1>3 DEF IInv, TypeOK
<1>6. QED
  BY <1>1, <1>2, <1>3, <1>4, <1>5

\* An assignment to the Source of the tile SplitTile works on.
LEMMA SourceSet ==
    ASSUME IInv, SInv, NEW r \in Request, pc[r] \in {"assign", "slice"},
           NEW t \in Tile, at[r] = t, NEW slice,
           object' = [object EXCEPT ![at[r]][tile[r]].source = slice],
           UNCHANGED raw
    PROVE  /\ SourceOf(t)' = slice
           /\ \A u \in Tile \ {t} : SourceOf(u)' = SourceOf(u)
<1>1. /\ tile[r] = raw[t] /\ raw[t] \in Creator
      /\ object[t][raw[t]] \in TileObject
  BY TopOfStack
<1>2. object \in [Tile -> [Creator -> {Null} \cup TileObject]]
  BY DEF IInv, TypeOK
<1>3. object'[t][raw[t]] = [object[t][raw[t]] EXCEPT !.source = slice]
  BY <1>1, <1>2
<1>4. SourceOf(t)' = slice
  BY <1>1, <1>3 DEF SourceOf, TileObject
<1>5. ASSUME NEW u \in Tile \ {t} PROVE SourceOf(u)' = SourceOf(u)
  <2>1. object'[u] = object[u]
    BY <1>2, <1>5
  <2>2. QED
    BY <2>1 DEF SourceOf
<1>6. QED
  BY <1>4, <1>5

\* SplitTile is done with the tile on top.
LEMMA Popped ==
    ASSUME IInv, SInv, NEW r \in Request, pc[r] \in {"assign", "slice"},
           NEW t \in Tile, at[r] = t,
           Resume(r, Tail(stack[r])),
           UNCHANGED <<raw, transformed, target, drilling, at, tile, answer>>,
           drilling[r] \/ (raw[Root] # Null /\ SourceOf(Root)' # Null),
           drilling[r] /\ IsAncestor(t, target[r])
              => Lookup(target[r]) # Null \/ NothingThere(target[r])
    PROVE  /\ Alone'
           /\ \A p \in Request : RequestOK(p)'
           /\ AnswersAwaited'
           /\ \A u : Coming(u) => Lookup(u)' # Null \/ Coming(u)'
<1> DEFINE rest == Tail(stack[r])
           l == IF rest # << >> THEN "lookup" ELSE IF drilling[r] THEN "result" ELSE "find"
<1>1. stack' = [stack EXCEPT ![r] = rest] /\ pc' = [pc EXCEPT ![r] = l]
  BY DEF Resume, Goto
<1>2. stack'[r] = rest /\ pc'[r] = l
  BY <1>1 DEF IInv, TypeOK
<1>3. /\ rest # << >> => l = "lookup"
      /\ rest = << >> /\ drilling[r] => l = "result"
      /\ rest = << >> /\ ~drilling[r] => l = "find"
  OBVIOUS
<1>4. pc[r] \in Tiling /\ pc[r] \notin Resting
  BY DEF Tiling, Resting
<1>5. rest # << >> => Len(rest) > 0
  BY <1>4, StackFacts, EmptySeq DEF Tiling
<1>6. \A i \in 1..Len(rest) : i + 1 \in 1..Len(stack[r]) /\ rest[i] = stack[r][i + 1]
  BY <1>4, TailOfStack
<1>7. \A i \in 1..Len(stack[r]) : i = 1 \/ (i - 1 \in 1..Len(rest) /\ rest[i - 1] = stack[r][i])
  BY <1>4, TailOfStack
<1>8. rest = << >> => Len(rest) = 0
  BY EmptySeq
<1> HIDE DEF rest, l
<1>9. RequestOK(r)'
  <2>1. WorksOnRaw(r)' /\ SlicesOnPath(r)'
    BY <1>2, <1>3 DEF WorksOnRaw, SlicesOnPath
  <2>2. StackNested(r)'
    <3>1. /\ \A i \in 1..Len(stack[r]) : FrameWhole(r, stack[r][i])
          /\ \A i, j \in 1..Len(stack[r]) :
                i <= j => IsAncestor(Parent(stack[r][j].tile), Parent(stack[r][i].tile))
      BY <1>4 DEF SInv, RequestOK, StackNested
    <3>2. \A i \in 1..Len(rest) : FrameWhole(r, rest[i])
      BY <1>6, <3>1
    <3>3. ASSUME NEW i \in 1..Len(rest), NEW j \in 1..Len(rest), i <= j
          PROVE  IsAncestor(Parent(rest[j].tile), Parent(rest[i].tile))
      <4>1. i + 1 <= j + 1
        BY <3>3
      <4>2. QED
        BY <1>6, <3>1, <4>1
    <3>4. ASSUME NEW f, FrameWhole(r, f) PROVE FrameWhole(r, f)'
      BY <3>4 DEF FrameWhole, Placed
    <3>5. QED
      BY <1>2, <3>2, <3>3, <3>4 DEF StackNested
  <2>3. ClimbsFromTarget(r)'
    BY <1>2, <1>3 DEF ClimbsFromTarget
  <2>4. DrillsToTarget(r)'
    <3> SUFFICES ASSUME drilling[r], Lookup(target[r]) = Null, ~NothingThere(target[r])
                 PROVE  pc'[r] # "result" /\ OnStack(r)'
      BY <1>2, <1>3 DEF DrillsToTarget, Lookup
    <3>1. OnStack(r)
      BY <1>4 DEF SInv, RequestOK, DrillsToTarget
    <3>2. PICK i \in 1..Len(stack[r]) : IsAncestor(stack[r][i].tile, target[r])
      BY <3>1 DEF OnStack
    <3>3. i # 1
      BY <3>2, TopOfStack
    <3>4. i - 1 \in 1..Len(rest) /\ IsAncestor(rest[i - 1].tile, target[r])
      BY <1>7, <3>2, <3>3
    <3>5. rest # << >>
      BY <1>5, <1>8, <3>4
    <3>6. QED
      BY <1>2, <1>3, <3>4, <3>5 DEF OnStack
  <2>5. QED
    BY <2>1, <2>2, <2>3, <2>4 DEF RequestOK
<1>10. Alone' /\ \A p \in Request : RequestOK(p)'
  BY <1>1, <1>4, <1>9, StepAlone DEF IInv, SInv
<1>11. AnswersAwaited'
  <2>1. \A p \in Request : pc'[p] # "done" => pc[p] # "done"
    BY <1>1, <1>4 DEF IInv, TypeOK, Resting
  <2>2. QED
    BY <2>1 DEF SInv, AnswersAwaited, Lookup
<1>12. ASSUME NEW u, Coming(u) PROVE Lookup(u)' # Null \/ Coming(u)'
  <2>1. \A p \in Request \ {r} : pc[p] \in Resting
    BY <1>4, OnlyOne DEF IInv, SInv
  <2>2. PICK i \in 1..Len(stack[r]) : stack[r][i].tile = u
    BY <1>12, <2>1 DEF Coming, Resting, Tiling
  <2>3. CASE i = 1
    BY <2>2, <2>3, TopOfStack DEF Lookup
  <2>4. CASE i # 1
    <3>1. i - 1 \in 1..Len(rest) /\ rest[i - 1].tile = u
      BY <1>7, <2>2, <2>4
    <3>2. rest # << >>
      BY <1>5, <1>8, <3>1
    <3>3. QED
      BY <1>2, <1>3, <3>1, <3>2 DEF Coming, Tiling
  <2>5. QED
    BY <2>3, <2>4
<1>13. QED
  BY <1>10, <1>11, <1>12

\* What SplitTile goes on with, or fails on, is above the target.
LEMMA GoesOn ==
    ASSUME IInv, NEW r \in Request, pc[r] = "assign", NEW t \in Tile, at[r] = t,
           ~StopsAt(r, t)
    PROVE  drilling[r] /\ Len(t) < MaxZoom /\ Above(t, target[r])
<1>1. drilling[r]
  <2>1. ASSUME ~drilling[r] PROVE t = Root
    BY <2>1 DEF IInv, SplitOK
  <2>2. QED
    BY <2>1, RootIsATile DEF StopsAt, MaxZoomIndex
<1>2. Len(t) # MaxZoom /\ Len(t) # Len(target[r]) /\ IsAncestor(t, target[r])
  BY <1>1 DEF StopsAt
<1>3. Len(t) \in 0..MaxZoom
  BY TileIsASequence
<1>4. QED
  BY <1>1, <1>2, <1>3, PyramidAssumption DEF Above

LEMMA AssignSourceSequential ==
    ASSUME IInv, SInv, NEW r \in Request, AssignSource(r)
    PROVE  SInv'
<1>1. /\ pc[r] = "assign"
      /\ object' = [object EXCEPT ![at[r]][tile[r]].source = stack[r][1].features]
      /\ UNCHANGED <<raw, transformed, target, drilling, at, tile>>
  BY StackFacts DEF AssignSource
<1>2. PICK t \in Tile : at[r] = t
  BY <1>1 DEF IInv, TileOK
<1> DEFINE f == stack[r][1]
<1>3. /\ f.tile = t /\ f.features \in Slice
      /\ Kept(f.features) = Content[t] /\ Placed(t)
      /\ drilling[r] \/ f.features # Null
      /\ tile[r] = raw[t] /\ raw[t] \in Creator /\ raw[t] # Null
  BY <1>1, <1>2, TopOfStack DEF FrameWhole, Frame
<1>4. /\ SourceOf(t)' = f.features
      /\ \A u \in Tile \ {t} : SourceOf(u)' = SourceOf(u)
  <2> HIDE DEF f
  <2>1. object' = [object EXCEPT ![at[r]][tile[r]].source = f.features]
    BY <1>1 DEF f
  <2>2. pc[r] \in {"assign", "slice"} /\ UNCHANGED raw
    BY <1>1
  <2>3. QED
    BY <1>2, <2>1, <2>2, SourceSet
<1>5. pc[r] \notin Resting /\ \A p \in Request \ {r} : pc[p] \in Resting
  BY <1>1, OnlyOne DEF IInv, SInv, Resting
<1>6. f.features \in {Null, Content[t]} /\ (f.features = Null => Content[t] = {})
  BY <1>3 DEF Kept
<1>7. t \in Path /\ target[r] \in Path
  BY Paths DEF IInv, TypeOK
<1>8. SourcesWhole'
  <2>1. \A u \in Tile \ {t} : raw[u] # Null => SourceOf(u) \in {Null, Content[u]}
    BY <1>1, <1>2, <1>5 DEF SInv, SourcesWhole, Resting
  <2>2. \A u \in Tile : raw'[u] # Null => SourceOf(u)' \in {Null, Content[u]}
    BY <1>1, <1>4, <1>6, <2>1
  <2>3. QED
    BY <2>2 DEF SourcesWhole
<1>9. StoredPlaced'
  BY <1>1 DEF SInv, StoredPlaced, Placed
<1>10. ASSUME \A u : Coming(u) => Lookup(u)' # Null \/ Coming(u)',
              UNCHANGED answer
       PROVE  StrippedProvided'
  <2>1. ASSUME NEW u, Provided(u) PROVE Provided(u)'
    <3>1. CutShort(u) => CutShort(u)'
      BY <1>1, <1>10, CutShortStays
    <3>2. Lookup(u)' = Lookup(u)
      BY <1>1 DEF Lookup
    <3>3. \A q \in Quadrant : Lookup(Append(u, q))' = Lookup(Append(u, q))
      BY <1>1 DEF Lookup
    <3>4. QED
      BY <1>10, <2>1, <3>1, <3>3 DEF Provided
  <2>2. ASSUME NEW u \in Tile \ {Root}, raw'[u] # Null, SourceOf(u)' = Null PROVE Provided(u)'
    <3>1. CASE u = t
      BY <1>4, <1>6, <2>2, <3>1 DEF Provided
    <3>2. CASE u # t
      <4>1. raw[u] # Null /\ SourceOf(u) = Null
        BY <1>1, <1>4, <2>2, <3>2
      <4>2. QED
        BY <2>1, <4>1 DEF SInv, StrippedProvided
    <3>3. QED
      BY <3>1, <3>2
  <2>3. QED
    BY <2>2 DEF StrippedProvided
<1>11. CASE StopsAt(r, t)
  <2>1. Resume(r, Tail(stack[r])) /\ UNCHANGED answer
    BY <1>2, <1>11 DEF AssignSource
  <2>2. ASSUME ~drilling[r] PROVE raw[Root] # Null /\ SourceOf(Root)' # Null
    <3>1. t = Root
      BY <1>1, <1>2, <2>2 DEF IInv, SplitOK
    <3>2. QED
      BY <1>3, <1>4, <2>2, <3>1
  <2>3. ASSUME drilling[r], IsAncestor(t, target[r])
        PROVE  Lookup(target[r]) # Null \/ NothingThere(target[r])
    <3>1. CASE t = target[r]
      BY <1>3, <3>1 DEF Lookup
    <3>2. CASE t # target[r]
      <4>1. Above(t, target[r])
        BY <2>3, <3>2 DEF Above
      <4>2. Len(t) = MaxZoom /\ Len(t) < Len(target[r])
        BY <1>7, <1>11, <2>3, <4>1, AboveIsShorter DEF StopsAt, Path
      <4>3. target[r] \notin Tile
        BY <1>7, <4>2, TileByLength, PyramidAssumption DEF Path
      <4>4. ASSUME NEW s \in Sliceable, Above(s, target[r]) PROVE FALSE
        <5>1. s \in Path /\ Len(s) < Len(t)
          BY <4>2, Paths DEF Sliceable
        <5>2. IsAncestor(s, t)
          BY <1>7, <2>3, <4>4, <5>1, AncestorOrder, AboveIsShorter DEF Above, Path
        <5>3. Above(s, t)
          BY <1>7, <5>1, <5>2, AboveIsShorter
        <5>4. QED
          BY <1>3, <5>3 DEF Placed, UnderSolid, Sliceable
      <4>5. QED
        BY <4>3, <4>4 DEF NothingThere
    <3>3. QED
      BY <3>1, <3>2
  <2>4. /\ Alone' /\ \A p \in Request : RequestOK(p)'
        /\ AnswersAwaited'
        /\ \A u : Coming(u) => Lookup(u)' # Null \/ Coming(u)'
    BY <1>1, <1>2, <2>1, <2>2, <2>3, Popped
  <2>5. QED
    BY <1>8, <1>9, <1>10, <2>1, <2>4 DEF SInv
<1>12. ASSUME ~StopsAt(r, t) PROVE drilling[r] /\ Len(t) < MaxZoom /\ Above(t, target[r])
  BY <1>1, <1>2, <1>12, GoesOn
<1>13. CASE ~StopsAt(r, t) /\ t \in Solid
  <2>1. /\ pc' = [pc EXCEPT ![r] = "done"]
        /\ answer' = [answer EXCEPT ![r] = Failed]
        /\ UNCHANGED stack
    BY <1>2, <1>13 DEF AssignSource, Finish, Goto
  <2>2. answer'[r] = Failed /\ \A p \in Request \ {r} : answer'[p] = answer[p]
    BY <2>1 DEF IInv, TypeOK
  <2>3. pc'[r] \in Resting
    BY <2>1 DEF IInv, TypeOK, Resting
  <2>4. Alone' /\ \A p \in Request : RequestOK(p)'
    BY <1>5, <2>1, <2>3, RestingIsOK, StepAlone DEF IInv, SInv
  <2>5. AnswersAwaited'
    BY <1>1, <2>1, <2>2 DEF IInv, TypeOK, SInv, AnswersAwaited, Lookup
  <2>6. t \in Sliceable /\ Above(t, target[r])
    BY <1>12, <1>13 DEF Sliceable
  <2>7. ASSUME NEW u \in Tile \ {Root}, NEW q \in Quadrant, Coming(Append(u, q))
        PROVE  CutShort(u)'
    <3>1. PICK i \in 1..Len(stack[r]) : stack[r][i].tile = Append(u, q)
      BY <1>5, <2>7 DEF Coming, Resting, Tiling
    <3>2. u \in Path /\ Parent(Append(u, q)) = u
      BY Paths, ChildFacts
    <3>3. IsAncestor(u, Parent(t))
      <4>1. 1 \in 1..Len(stack[r]) /\ 1 <= i
        BY <1>1, <3>1, StackFacts
      <4>2. stack[r][1].tile = t
        BY <1>3
      <4>3. IsAncestor(Parent(stack[r][i].tile), Parent(stack[r][1].tile))
        BY <1>1, <4>1 DEF SInv, RequestOK, StackNested, Tiling
      <4>4. QED
        BY <3>1, <3>2, <4>2, <4>3
    <3>4. t # Root
      <4>1. ASSUME t = Root PROVE FALSE
        <5>1. Parent(t) = Root
          BY <4>1, SubSeqEmpty DEF Parent, Root
        <5>2. Root \in Path
          BY Paths
        <5>3. u = Root
          BY <3>2, <3>3, <5>1, <5>2, AncestorOrder
        <5>4. QED
          BY <2>7, <5>3
      <4>2. QED
        BY <4>1
    <3>5. Above(u, t)
      BY <1>7, <3>2, <3>3, <3>4, AboveIsShorter
    <3>6. QED
      BY <1>1, <1>3, <2>2, <2>6, <3>5 DEF CutShort
  <2>8. ASSUME NEW u \in Tile \ {Root}, Provided(u) PROVE Provided(u)'
    <3>1. CASE CutShort(u)
      <4>1. CutShort(u)'
        BY <1>1, <2>2, <3>1, CutShortStays
      <4>2. QED
        BY <4>1 DEF Provided
    <3>2. CASE \E q \in Quadrant : Coming(Append(u, q))
      BY <2>7, <3>2 DEF Provided
    <3>3. CASE Content[u] = {} \/ \A q \in Quadrant : Lookup(Append(u, q)) # Null
      BY <1>1, <3>3 DEF Provided, Lookup
    <3>4. QED
      BY <2>8, <3>1, <3>2, <3>3 DEF Provided
  <2>9. ASSUME NEW u \in Tile \ {Root}, raw'[u] # Null, SourceOf(u)' = Null PROVE Provided(u)'
    <3>1. CASE u = t
      BY <1>4, <1>6, <2>9, <3>1 DEF Provided
    <3>2. CASE u # t
      <4>1. raw[u] # Null /\ SourceOf(u) = Null
        BY <1>1, <1>4, <2>9, <3>2
      <4>2. QED
        BY <2>8, <4>1 DEF SInv, StrippedProvided
    <3>3. QED
      BY <3>1, <3>2
  <2>10. StrippedProvided'
    BY <2>9 DEF StrippedProvided
  <2>11. QED
    BY <1>8, <1>9, <2>4, <2>5, <2>10 DEF SInv
<1>14. CASE ~StopsAt(r, t) /\ t \notin Solid
  <2>1. pc' = [pc EXCEPT ![r] = "slice"] /\ UNCHANGED <<stack, answer>>
    BY <1>2, <1>14 DEF AssignSource, Goto
  <2>2. pc'[r] = "slice"
    BY <2>1 DEF IInv, TypeOK
  <2>3. RequestOK(r)'
    <3>1. WorksOnRaw(r)'
      BY <1>1, <1>2, <1>3, <2>2 DEF WorksOnRaw
    <3>2. StackNested(r)'
      BY <1>1, <2>1 DEF SInv, RequestOK, StackNested, FrameWhole, Placed, Tiling
    <3>3. SlicesOnPath(r)'
      BY <1>1, <1>2, <1>12, <1>14 DEF SlicesOnPath
    <3>4. ClimbsFromTarget(r)'
      BY <2>2 DEF ClimbsFromTarget
    <3>5. DrillsToTarget(r)'
      BY <1>1, <2>1, <2>2 DEF SInv, RequestOK, DrillsToTarget, OnStack, Lookup, Tiling
    <3>6. QED
      BY <3>1, <3>2, <3>3, <3>4, <3>5 DEF RequestOK
  <2>4. Alone' /\ \A p \in Request : RequestOK(p)'
    BY <1>5, <2>1, <2>3, StepAlone DEF IInv, SInv
  <2>5. AnswersAwaited'
    BY <1>1, <2>1 DEF IInv, TypeOK, SInv, AnswersAwaited, Lookup
  <2>6. ASSUME NEW u, Coming(u) PROVE Coming(u)'
    BY <1>1, <1>5, <2>1, <2>2, <2>6 DEF Coming, Resting, Tiling
  <2>7. QED
    BY <1>8, <1>9, <1>10, <2>1, <2>4, <2>5, <2>6 DEF SInv
<1>15. QED
  BY <1>11, <1>13, <1>14

\* Four put in front of the rest.
LEMMA FourAndTheRest ==
    ASSUME NEW S, NEW new \in Seq(S), NEW rest \in Seq(S), Len(new) = 4
    PROVE  /\ new \o rest \in Seq(S) /\ new \o rest # << >>
           /\ Len(new \o rest) = 4 + Len(rest) /\ Len(new \o rest) \in Nat
           /\ \A i \in 1..4 : i \in 1..Len(new \o rest) /\ (new \o rest)[i] = new[i]
           /\ \A i \in 1..Len(rest) :
                 i + 4 \in 1..Len(new \o rest) /\ (new \o rest)[i + 4] = rest[i]
           /\ \A i \in 1..Len(new \o rest) : i \in 1..4 \/ (i > 4 /\ i - 4 \in 1..Len(rest))
<1>1. /\ new \o rest \in Seq(S)
      /\ Len(new \o rest) = Len(new) + Len(rest)
      /\ \A i \in 1..(Len(new) + Len(rest)) :
            (new \o rest)[i] = IF i <= Len(new) THEN new[i] ELSE rest[i - Len(new)]
  BY ConcatProperties
<1>2. PICK n \in Nat : n = Len(rest)
  OBVIOUS
<1>3. PICK all \in Seq(S) : all = new \o rest
  BY <1>1
<1>4. /\ Len(all) = 4 + n
      /\ \A i \in 1..(4 + n) : all[i] = IF i <= 4 THEN new[i] ELSE rest[i - 4]
  BY <1>1, <1>2, <1>3
<1>5. all # << >>
  BY <1>4
<1>6. \A i \in 1..4 : i \in 1..(4 + n) /\ all[i] = new[i]
  BY <1>4
<1>7. \A i \in 1..n : i + 4 \in 1..(4 + n) /\ all[i + 4] = rest[i]
  BY <1>4
<1>8. \A i \in 1..(4 + n) : i \in 1..4 \/ (i > 4 /\ i - 4 \in 1..n)
  OBVIOUS
<1>9. QED
  BY <1>2, <1>3, <1>4, <1>5, <1>6, <1>7, <1>8

\* SplitTile puts the four children in place of the tile on top.
LEMMA Pushed ==
    ASSUME IInv, SInv, NEW r \in Request, pc[r] = "slice", NEW t \in Tile, at[r] = t
    PROVE  \E all :
           /\ all = Sections(t, stack[r][1].features) \o Tail(stack[r])
           /\ all # << >> /\ Len(all) \in Nat
           /\ \A i \in 1..Len(all) :
                 \/ i <= 4 /\ \E q \in Quadrant : all[i].tile = Append(t, q)
                                        /\ Kept(all[i].features) = Content[Append(t, q)]
                 \/ i - 3 \in 1..Len(stack[r]) /\ i > 4 /\ all[i] = stack[r][i - 3]
           /\ \A q \in Quadrant : \E i \in 1..Len(all) : all[i].tile = Append(t, q)
           /\ \A i \in 1..Len(stack[r]) :
                 i = 1 \/ (i + 3 \in 1..Len(all) /\ all[i + 3] = stack[r][i])
<1> DEFINE new == Sections(t, stack[r][1].features)
           rest == Tail(stack[r])
<1>1. /\ stack[r][1] \in Frame /\ Kept(stack[r][1].features) = Content[t]
      /\ stack[r][1].tile = t
  BY TopOfStack DEF FrameWhole
<1>2. Len(t) < MaxZoom
  BY DEF IInv, SplitOK
<1>3. stack[r][1].features \in Slice
  BY <1>1 DEF Frame
<1>4. /\ new \in Seq(Frame) /\ Len(new) = 4
      /\ \A i \in 1..4 : Kept(new[i].features) = Content[new[i].tile]
  BY <1>1, <1>2, <1>3, SectionsAreFrames
<1>5. \A i \in 1..4 : new[i].tile = Append(t, PopOrder[i]) /\ PopOrder[i] \in Quadrant
  BY DEF Sections, Section, PopOrder, Quadrant
<1>6. /\ rest \in Seq(Frame)
      /\ \A i \in 1..Len(rest) :
            i + 1 \in 1..Len(stack[r]) /\ rest[i] = stack[r][i + 1]
      /\ \A i \in 1..Len(stack[r]) :
            i = 1 \/ (i - 1 \in 1..Len(rest) /\ rest[i - 1] = stack[r][i])
      /\ Len(stack[r]) \in Nat
  BY StackFacts, TailOfStack DEF Tiling
<1> HIDE DEF new, rest
<1>7. PICK all : all = new \o rest
  OBVIOUS
<1>8. /\ all # << >> /\ Len(all) \in Nat
      /\ \A i \in 1..4 : i \in 1..Len(all) /\ all[i] = new[i]
      /\ \A i \in 1..Len(rest) : i + 4 \in 1..Len(all) /\ all[i + 4] = rest[i]
      /\ \A i \in 1..Len(all) : i \in 1..4 \/ (i > 4 /\ i - 4 \in 1..Len(rest))
  BY <1>4, <1>6, <1>7, FourAndTheRest
<1>9. ASSUME NEW i \in 1..Len(all)
      PROVE  \/ i <= 4 /\ \E q \in Quadrant : all[i].tile = Append(t, q)
                                    /\ Kept(all[i].features) = Content[Append(t, q)]
             \/ i - 3 \in 1..Len(stack[r]) /\ i > 4 /\ all[i] = stack[r][i - 3]
  <2>1. CASE i \in 1..4
    <3>1. all[i] = new[i] /\ i <= 4
      BY <1>8, <2>1
    <3>2. /\ new[i].tile = Append(t, PopOrder[i]) /\ PopOrder[i] \in Quadrant
          /\ Kept(new[i].features) = Content[new[i].tile]
      BY <1>4, <1>5, <2>1
    <3>3. QED
      BY <3>1, <3>2
  <2>2. CASE i > 4 /\ i - 4 \in 1..Len(rest)
    <3>1. (i - 4) + 1 = i - 3 /\ (i - 4) + 4 = i
      BY <1>8
    <3>2. i - 3 \in 1..Len(stack[r]) /\ rest[i - 4] = stack[r][i - 3] /\ all[i] = rest[i - 4]
      BY <1>6, <1>8, <2>2, <3>1
    <3>3. QED
      BY <2>2, <3>2
  <2>3. QED
    BY <1>8, <2>1, <2>2
<1>10. ASSUME NEW q \in Quadrant PROVE \E i \in 1..Len(all) : all[i].tile = Append(t, q)
  <2>1. PICK i \in 1..4 : q = PopOrder[i]
    BY DEF Quadrant, PopOrder
  <2>2. QED
    BY <1>5, <1>8, <2>1
<1>11. ASSUME NEW i \in 1..Len(stack[r]), i # 1
       PROVE  i + 3 \in 1..Len(all) /\ all[i + 3] = stack[r][i]
  <2>1. i - 1 \in 1..Len(rest) /\ rest[i - 1] = stack[r][i] /\ (i - 1) + 4 = i + 3
    BY <1>6, <1>11
  <2>2. QED
    BY <1>8, <2>1
<1>12. all = Sections(t, stack[r][1].features) \o Tail(stack[r])
  BY <1>7 DEF new, rest
<1>13. \A i \in 1..Len(stack[r]) :
          i = 1 \/ (i + 3 \in 1..Len(all) /\ all[i + 3] = stack[r][i])
  BY <1>11
<1>14. all # << >> /\ Len(all) \in Nat
  BY <1>8
<1>15. QED
  BY <1>9, <1>10, <1>12, <1>13, <1>14

\* Under a tile without features there is nothing.
LEMMA NothingBelow ==
    ASSUME NEW t \in Tile, Content[t] = {}, ~UnderSolid(t), NEW u \in Path, Above(t, u)
    PROVE  NothingThere(u)
<1>1. ASSUME u \in Tile PROVE Content[u] = {}
  BY <1>1, PyramidAssumption DEF Above
<1>2. ASSUME NEW s \in Sliceable, Above(s, u) PROVE FALSE
  <2>1. s \in Path /\ s \in Tile /\ s \in Solid /\ Content[s] # {} /\ t \in Path
    BY Paths, PyramidAssumption DEF Sliceable
  <2>2. IsAncestor(s, t) \/ IsAncestor(t, s)
    BY <1>2, <2>1, AncestorOrder DEF Above
  <2>3. ASSUME IsAncestor(t, s) PROVE FALSE
    BY <2>1, <2>3, PyramidAssumption
  <2>4. ASSUME IsAncestor(s, t) PROVE FALSE
    BY <2>1, <2>4 DEF UnderSolid, Above
  <2>5. QED
    BY <2>2, <2>3, <2>4
<1>3. QED
  BY <1>1, <1>2 DEF NothingThere

LEMMA SliceTileSequential ==
    ASSUME IInv, SInv, NEW r \in Request, SliceTile(r)
    PROVE  SInv'
<1>1. /\ pc[r] = "slice"
      /\ object' = [object EXCEPT ![at[r]][tile[r]].source = Null]
      /\ Resume(r, IF Kept(stack[r][1].features) = {}
                   THEN Tail(stack[r])
                   ELSE Sections(at[r], stack[r][1].features) \o Tail(stack[r]))
      /\ UNCHANGED <<raw, transformed, target, drilling, at, tile, answer>>
  BY StackFacts DEF SliceTile
<1>2. PICK t \in Tile : at[r] = t
  BY <1>1 DEF IInv, TileOK
<1>3. /\ stack[r][1].tile = t
      /\ Kept(stack[r][1].features) = Content[t] /\ Placed(t)
      /\ raw[t] # Null
  BY <1>1, <1>2, TopOfStack DEF FrameWhole
<1>4. SourceOf(t)' = Null /\ \A u \in Tile \ {t} : SourceOf(u)' = SourceOf(u)
  BY <1>1, <1>2, SourceSet
<1>5. pc[r] \notin Resting /\ \A p \in Request \ {r} : pc[p] \in Resting
  BY <1>1, OnlyOne DEF IInv, SInv, Resting
<1>6. /\ t \in Path /\ target[r] \in Path
      /\ t \notin Solid /\ Above(t, target[r])
  BY <1>1, <1>2, Paths DEF IInv, TypeOK, SInv, RequestOK, SlicesOnPath
<1>7. drilling[r]
  BY <1>1 DEF IInv, SplitOK
<1>8. SourcesWhole'
  <2>1. \A u \in Tile \ {t} : raw[u] # Null => SourceOf(u) \in {Null, Content[u]}
    BY <1>1, <1>5 DEF SInv, SourcesWhole, Resting
  <2>2. \A u \in Tile : raw'[u] # Null => SourceOf(u)' \in {Null, Content[u]}
    BY <1>1, <1>4, <2>1
  <2>3. QED
    BY <2>2 DEF SourcesWhole
<1>9. StoredPlaced'
  BY <1>1 DEF SInv, StoredPlaced, Placed
<1>10. ASSUME \A u : Coming(u) => Lookup(u)' # Null \/ Coming(u)', Provided(t)'
       PROVE  StrippedProvided'
  <2>1. ASSUME NEW u, Provided(u) PROVE Provided(u)'
    <3>1. CutShort(u) => CutShort(u)'
      BY <1>1, CutShortStays
    <3>2. \A q \in Quadrant : Lookup(Append(u, q))' = Lookup(Append(u, q))
      BY <1>1 DEF Lookup
    <3>3. QED
      BY <1>10, <2>1, <3>1, <3>2 DEF Provided
  <2>2. ASSUME NEW u \in Tile \ {Root}, raw'[u] # Null, SourceOf(u)' = Null PROVE Provided(u)'
    <3>1. CASE u = t
      BY <1>10, <3>1
    <3>2. CASE u # t
      <4>1. raw[u] # Null /\ SourceOf(u) = Null
        BY <1>1, <1>4, <2>2, <3>2
      <4>2. QED
        BY <2>1, <4>1 DEF SInv, StrippedProvided
    <3>3. QED
      BY <3>1, <3>2
  <2>3. QED
    BY <2>2 DEF StrippedProvided
<1>11. ASSUME NEW s \in Solid, IsAncestor(s, t) PROVE FALSE
  BY <1>3, <1>6, <1>11 DEF Placed, UnderSolid, Above
<1>12. CASE Kept(stack[r][1].features) = {}
  <2>1. Resume(r, Tail(stack[r])) /\ Content[t] = {}
    BY <1>1, <1>3, <1>12
  <2>2. NothingThere(target[r])
    BY <1>3, <1>6, <2>1, NothingBelow DEF Placed
  <2>3. /\ Alone' /\ \A p \in Request : RequestOK(p)'
        /\ AnswersAwaited'
        /\ \A u : Coming(u) => Lookup(u)' # Null \/ Coming(u)'
    BY <1>1, <1>2, <1>7, <2>1, <2>2, Popped
  <2>4. Provided(t)'
    BY <2>1 DEF Provided
  <2>5. QED
    BY <1>8, <1>9, <1>10, <2>3, <2>4 DEF SInv
<1>13. CASE Kept(stack[r][1].features) # {}
  <2>1. PICK all :
        /\ all = Sections(t, stack[r][1].features) \o Tail(stack[r])
        /\ all # << >> /\ Len(all) \in Nat
        /\ \A i \in 1..Len(all) :
              \/ i <= 4 /\ \E q \in Quadrant : all[i].tile = Append(t, q)
                                     /\ Kept(all[i].features) = Content[Append(t, q)]
              \/ i - 3 \in 1..Len(stack[r]) /\ i > 4 /\ all[i] = stack[r][i - 3]
        /\ \A q \in Quadrant : \E i \in 1..Len(all) : all[i].tile = Append(t, q)
        /\ \A i \in 1..Len(stack[r]) :
              i = 1 \/ (i + 3 \in 1..Len(all) /\ all[i + 3] = stack[r][i])
    BY <1>1, <1>2, Pushed
  <2>2. stack' = [stack EXCEPT ![r] = all] /\ pc' = [pc EXCEPT ![r] = "lookup"]
    <3>1. Resume(r, all)
      BY <1>1, <1>2, <1>13, <2>1
    <3>2. QED
      BY <2>1, <3>1 DEF Resume, Goto
  <2>3. stack'[r] = all /\ pc'[r] = "lookup"
    BY <2>2 DEF IInv, TypeOK
  <2>4. ASSUME NEW u, Placed(u) PROVE Placed(u)'
    BY <1>1, <2>4 DEF Placed
  <2>5. ASSUME NEW q \in Quadrant PROVE Placed(Append(t, q))
    <3> DEFINE c == Append(t, q)
    <3>1. c \in Path /\ c # Root /\ Parent(c) = t
      BY <1>6, ChildFacts
    <3> HIDE DEF c
    <3>2. \A u \in Path : Above(u, c) => IsAncestor(u, t)
      BY <1>6, <3>1, AboveIsShorter
    <3>3. ~UnderSolid(c)
      BY <1>11, <3>2, Paths DEF UnderSolid
    <3>4. ASSUME NEW u \in Tile, Above(u, c) PROVE raw[u] # Null
      <4>1. IsAncestor(u, t)
        BY <3>2, <3>4, Paths
      <4>2. QED
        BY <1>3, <4>1 DEF Placed, Above
    <3>5. QED
      BY <3>3, <3>4 DEF Placed, c
  <2>6. /\ \A i \in 1..Len(stack[r]) : FrameWhole(r, stack[r][i])
        /\ \A i, j \in 1..Len(stack[r]) :
              i <= j => IsAncestor(Parent(stack[r][j].tile), Parent(stack[r][i].tile))
    BY <1>1 DEF SInv, RequestOK, StackNested, Tiling
  <2>7. ASSUME NEW i \in 1..Len(all) PROVE FrameWhole(r, all[i])'
    <3>1. CASE \E q \in Quadrant : all[i].tile = Append(t, q)
                                   /\ Kept(all[i].features) = Content[Append(t, q)]
      BY <1>1, <1>7, <2>4, <2>5, <3>1 DEF FrameWhole
    <3>2. CASE i - 3 \in 1..Len(stack[r]) /\ i > 4 /\ all[i] = stack[r][i - 3]
      BY <1>1, <2>4, <2>6, <3>2 DEF FrameWhole
    <3>3. QED
      BY <2>1, <3>1, <3>2
  <2>8. ASSUME NEW i \in 1..Len(all), NEW j \in 1..Len(all), i <= j
        PROVE  IsAncestor(Parent(all[j].tile), Parent(all[i].tile))
    <3>1. ASSUME NEW k \in 1..Len(all)
          PROVE  (k <= 4 /\ Parent(all[k].tile) = t)
                 \/ (k > 4 /\ k - 3 \in 1..Len(stack[r]) /\ all[k] = stack[r][k - 3])
      BY <1>6, <2>1, ChildFacts
    <3>2. CASE Parent(all[j].tile) = t /\ Parent(all[i].tile) = t
      BY <1>6, <3>2, AncestorOrder
    <3>3. CASE /\ j > 4 /\ j - 3 \in 1..Len(stack[r]) /\ all[j] = stack[r][j - 3]
               /\ Parent(all[i].tile) = t
      <4>1. 1 \in 1..Len(stack[r]) /\ 1 <= j - 3
        BY <3>3
      <4>2. IsAncestor(Parent(stack[r][j - 3].tile), Parent(t))
        BY <1>3, <2>6, <3>3, <4>1
      <4>3. stack[r][j - 3].tile \in Path
        <5>1. stack[r] \in Seq(Frame)
          BY DEF IInv, TypeOK
        <5>2. stack[r][j - 3] \in Frame
          BY <3>3, <5>1
        <5>3. QED
          BY <5>2, Paths DEF Frame
      <4>4. Parent(t) \in Path /\ IsAncestor(Parent(t), t) /\ Parent(stack[r][j - 3].tile) \in Path
        BY <1>6, <4>3, ParentIsAPath
      <4>5. QED
        BY <1>6, <3>3, <4>2, <4>4, AncestorOrder
    <3>4. CASE /\ i > 4 /\ i - 3 \in 1..Len(stack[r]) /\ all[i] = stack[r][i - 3]
               /\ j > 4 /\ j - 3 \in 1..Len(stack[r]) /\ all[j] = stack[r][j - 3]
      BY <2>6, <2>8, <3>4
    <3>5. j <= 4 => i <= 4
      BY <2>1, <2>8
    <3>6. QED
      BY <3>1, <3>2, <3>3, <3>4, <3>5
  <2>9. StackNested(r)'
    BY <2>3, <2>7, <2>8 DEF StackNested
  <2>10. OnStack(r)'
    <3>1. PICK q \in Quadrant : Below(t, target[r]) = Append(t, q)
                                /\ IsAncestor(Append(t, q), target[r])
      BY <1>6, BelowFacts
    <3>2. PICK i \in 1..Len(all) : all[i].tile = Append(t, q)
      BY <2>1
    <3>3. QED
      BY <1>1, <2>3, <3>1, <3>2 DEF OnStack
  <2>11. RequestOK(r)'
    BY <2>3, <2>9, <2>10 DEF RequestOK, WorksOnRaw, SlicesOnPath, ClimbsFromTarget, DrillsToTarget
  <2>12. Alone' /\ \A p \in Request : RequestOK(p)'
    BY <1>5, <2>2, <2>11, StepAlone DEF IInv, SInv
  <2>13. AnswersAwaited'
    BY <1>1, <2>2 DEF IInv, TypeOK, SInv, AnswersAwaited, Lookup
  <2>14. ASSUME NEW u, Coming(u) PROVE Lookup(u)' # Null \/ Coming(u)'
    <3>1. PICK i \in 1..Len(stack[r]) : stack[r][i].tile = u
      BY <1>5, <2>14 DEF Coming, Resting, Tiling
    <3>2. CASE i = 1
      BY <1>1, <1>3, <3>1, <3>2 DEF Lookup
    <3>3. CASE i # 1
      <4>1. i + 3 \in 1..Len(all) /\ all[i + 3].tile = u
        BY <2>1, <3>1, <3>3
      <4>2. QED
        BY <2>3, <4>1 DEF Coming, Tiling
    <3>4. QED
      BY <3>2, <3>3
  <2>15. Provided(t)'
    <3>1. ASSUME NEW q \in Quadrant PROVE Coming(Append(t, q))'
      <4>1. PICK i \in 1..Len(all) : all[i].tile = Append(t, q)
        BY <2>1
      <4>2. QED
        BY <2>3, <4>1 DEF Coming, Tiling
    <3>2. QED
      BY <3>1 DEF Provided
  <2>16. QED
    BY <1>8, <1>9, <1>10, <2>12, <2>13, <2>14, <2>15 DEF SInv
<1>14. QED
  BY <1>12, <1>13

LEMMA FindTargetSequential ==
    ASSUME IInv, SInv, NEW r \in Request, FindTarget(r)
    PROVE  SInv'
<1> DEFINE l == IF Lookup(target[r]) = Null THEN "climb" ELSE "transform"
<1>1. /\ pc[r] = "find"
      /\ at' = [at EXCEPT ![r] = target[r]]
      /\ tile' = [tile EXCEPT ![r] = Lookup(target[r])]
      /\ pc' = [pc EXCEPT ![r] = l]
      /\ UNCHANGED <<raw, object, transformed, target, stack, drilling, answer>>
  BY DEF FindTarget, Goto, shared
<1>2. pc'[r] = l /\ at'[r] = target[r] /\ tile'[r] = Lookup(target[r])
  BY <1>1 DEF IInv, TypeOK
<1>3. \A p \in Request \ {r} : pc[p] \in Resting
  BY <1>1, OnlyOne DEF IInv, SInv, Resting
<1>4. RequestOK(r)'
  <2>1. WorksOnRaw(r)'
    BY <1>1, <1>2 DEF WorksOnRaw, Lookup
  <2>2. ClimbsFromTarget(r)'
    <3>1. target[r] \in Path
      BY Paths DEF IInv, TypeOK
    <3>2. IsAncestor(target[r], target[r])
      BY <3>1, AncestorOrder
    <3>3. raw[Root] # Null /\ SourceOf(Root) # Null
      BY <1>1 DEF SInv, RequestOK, ClimbsFromTarget
    <3>4. QED
      BY <1>1, <1>2, <3>2, <3>3 DEF ClimbsFromTarget, Lookup, SourceOf
  <2>3. QED
    BY <1>2, <2>1, <2>2 DEF RequestOK, StackNested, SlicesOnPath, DrillsToTarget, Tiling
<1>5. Alone' /\ \A p \in Request : RequestOK(p)'
  BY <1>1, <1>4, StepAlone DEF IInv, SInv, Resting
<1>6. (SourcesWhole /\ StoredPlaced /\ StrippedProvided)'
  BY <1>1, <1>3, CacheUntouched DEF Tiling
<1>7. AnswersAwaited'
  BY <1>1 DEF IInv, TypeOK, SInv, AnswersAwaited, Lookup
<1>8. QED
  BY <1>5, <1>6, <1>7 DEF SInv

\* A request that finishes without a tile, or from the caches' contents.
LEMMA FinishSequential ==
    ASSUME IInv, SInv, NEW r \in Request, pc[r] \notin Resting \cup Tiling,
           NEW a, Finish(r, a),
           UNCHANGED <<raw, object, target>>,
           \A t \in Target : transformed'[t] # Null => Lookup(t) # Null
    PROVE  SInv'
<1>1. pc' = [pc EXCEPT ![r] = "done"] /\ answer' = [answer EXCEPT ![r] = a]
  BY DEF Finish, Goto
<1>2. \A p \in Request \ {r} : pc[p] \in Resting
  BY OnlyOne DEF IInv, SInv
<1>3. pc'[r] \in Resting /\ \A p \in Request \ {r} : answer'[p] = answer[p]
  BY <1>1 DEF IInv, TypeOK, Resting
<1>4. Alone' /\ \A p \in Request : RequestOK(p)'
  BY <1>1, <1>3, RestingIsOK, StepAlone DEF IInv, SInv
<1>5. (SourcesWhole /\ StoredPlaced /\ StrippedProvided)'
  BY <1>1, <1>2, <1>3, CacheUntouched DEF Tiling, Resting
<1>6. AnswersAwaited'
  BY <1>1 DEF IInv, TypeOK, SInv, AnswersAwaited, Lookup
<1>7. QED
  BY <1>4, <1>5, <1>6 DEF SInv

LEMMA ClimbSequential ==
    ASSUME IInv, SInv, NEW r \in Request, Climb(r)
    PROVE  SInv'
<1>1. /\ pc[r] = "climb"
      /\ UNCHANGED <<raw, object, transformed, target, stack, drilling>>
  BY DEF Climb, shared
<1>2. CASE at[r] = Root
  <2>1. Finish(r, Null)
    BY <1>2 DEF Climb
  <2>2. QED
    BY <1>1, <2>1, FinishSequential DEF SInv, AnswersAwaited, Resting, Tiling
<1>3. CASE at[r] # Root
  <2>1. PICK u : u = Parent(at[r])
    OBVIOUS
  <2>2. PICK l : l = IF Lookup(u) = Null THEN "climb" ELSE "check"
    OBVIOUS
  <2>3. /\ at' = [at EXCEPT ![r] = u]
        /\ tile' = [tile EXCEPT ![r] = Lookup(u)]
        /\ pc' = [pc EXCEPT ![r] = l]
        /\ UNCHANGED answer
    BY <1>3, <2>1, <2>2 DEF Climb, Goto, Parent
  <2>4. pc'[r] = l /\ at'[r] = u /\ tile'[r] = Lookup(u)
    BY <2>3 DEF IInv, TypeOK
  <2>5. PICK v \in Path : v = at[r]
    BY DEF IInv, TypeOK, Path
  <2>6. /\ target[r] \in Path /\ IsAncestor(v, target[r]) /\ Lookup(v) = Null
        /\ raw[Root] # Null /\ SourceOf(Root) # Null
    BY <1>1, <2>5, Paths DEF IInv, TypeOK, SInv, RequestOK, ClimbsFromTarget
  <2>7. u \in Path /\ IsAncestor(u, v) /\ Above(u, v)
    <3>1. u \in Path /\ IsAncestor(u, v)
      BY <2>1, <2>5, ParentIsAPath
    <3>2. IsAncestor(u, Parent(v))
      BY <2>1, <2>5, <3>1, AncestorOrder
    <3>3. QED
      BY <1>3, <2>5, <3>1, <3>2, AboveIsShorter
  <2>8. Above(u, target[r]) /\ IsAncestor(u, target[r])
    <3>1. IsAncestor(u, target[r])
      BY <2>6, <2>7, AncestorOrder
    <3>2. u # target[r]
      BY <2>6, <2>7, AncestorOrder DEF Above
    <3>3. QED
      BY <3>1, <3>2 DEF Above
  <2>9. Below(u, target[r]) = v
    <3>1. Len(v) \in Nat \ {0}
      BY <1>3, <2>5, EmptySeq DEF Root, Path
    <3>2. Len(u) = Len(v) - 1
      <4>1. Len(v) - 1 \in 0..Len(v)
        BY <3>1
      <4>2. QED
        BY <2>1, <2>5, <4>1, SubPath DEF Parent
    <3>3. SubSeq(target[r], 1, Len(v)) = v
      BY <2>6 DEF IsAncestor
    <3>4. Len(u) + 1 = Len(v)
      BY <3>1, <3>2
    <3>5. QED
      BY <3>3, <3>4 DEF Below
  <2>10. RequestOK(r)'
    <3>1. WorksOnRaw(r)'
      BY <1>1, <2>2, <2>4 DEF WorksOnRaw, Lookup
    <3>2. ClimbsFromTarget(r)'
      BY <1>1, <2>2, <2>4, <2>6, <2>8, <2>9 DEF ClimbsFromTarget, Lookup, SourceOf
    <3>3. QED
      BY <2>2, <2>4, <3>1, <3>2 DEF RequestOK, StackNested, SlicesOnPath, DrillsToTarget, Tiling
  <2>11. \A p \in Request \ {r} : pc[p] \in Resting
    BY <1>1, OnlyOne DEF IInv, SInv, Resting
  <2>12. Alone' /\ \A p \in Request : RequestOK(p)'
    BY <1>1, <2>3, <2>10, StepAlone DEF IInv, SInv, Resting
  <2>13. (SourcesWhole /\ StoredPlaced /\ StrippedProvided)'
    BY <1>1, <2>3, <2>11, CacheUntouched DEF Tiling
  <2>14. AnswersAwaited'
    BY <1>1, <2>3 DEF IInv, TypeOK, SInv, AnswersAwaited, Lookup
  <2>15. QED
    BY <2>12, <2>13, <2>14 DEF SInv
<1>4. QED
  BY <1>2, <1>3

LEMMA CheckParentSequential ==
    ASSUME IInv, SInv, NEW r \in Request, CheckParent(r)
    PROVE  SInv'
<1>1. /\ pc[r] = "check"
      /\ UNCHANGED <<raw, object, transformed, target, stack, drilling, at, tile>>
  BY DEF CheckParent, shared
<1>2. ASSUME NEW a, Finish(r, a) PROVE SInv'
  BY <1>1, <1>2, FinishSequential DEF SInv, AnswersAwaited, Resting, Tiling
<1>3. CASE object[at[r]][tile[r]].source = Null \/ at[r] \in Solid
  BY <1>2, <1>3 DEF CheckParent
<1>4. CASE object[at[r]][tile[r]].source # Null /\ at[r] \notin Solid
  <2>1. pc' = [pc EXCEPT ![r] = "copy"] /\ UNCHANGED answer
    BY <1>4 DEF CheckParent, Goto
  <2>2. pc'[r] = "copy"
    BY <2>1 DEF IInv, TypeOK
  <2>3. RequestOK(r)'
    <3>1. WorksOnRaw(r)'
      BY <1>1, <2>2 DEF SInv, RequestOK, WorksOnRaw
    <3>2. SourceOf(at[r]) # Null
      BY <1>1, <1>4 DEF SInv, RequestOK, WorksOnRaw, SourceOf
    <3>3. ClimbsFromTarget(r)'
      BY <1>1, <2>2, <3>2 DEF SInv, RequestOK, ClimbsFromTarget, Lookup, SourceOf
    <3>4. QED
      BY <2>2, <3>1, <3>3 DEF RequestOK, StackNested, SlicesOnPath, DrillsToTarget, Tiling
  <2>4. \A p \in Request \ {r} : pc[p] \in Resting
    BY <1>1, OnlyOne DEF IInv, SInv, Resting
  <2>5. Alone' /\ \A p \in Request : RequestOK(p)'
    BY <1>1, <2>1, <2>3, StepAlone DEF IInv, SInv, Resting
  <2>6. (SourcesWhole /\ StoredPlaced /\ StrippedProvided)'
    BY <1>1, <2>1, <2>4, CacheUntouched DEF Tiling
  <2>7. AnswersAwaited'
    BY <1>1, <2>1 DEF IInv, TypeOK, SInv, AnswersAwaited, Lookup
  <2>8. QED
    BY <2>5, <2>6, <2>7 DEF SInv
<1>5. QED
  BY <1>3, <1>4

LEMMA CopySourceSequential ==
    ASSUME IInv, SInv, NEW r \in Request, CopySource(r)
    PROVE  SInv' /\ object[at[r]][tile[r]].source # Null
<1>1. /\ pc[r] = "copy"
      /\ UNCHANGED <<raw, object, transformed, target, at, tile>>
  BY DEF CopySource, shared
<1>2. PICK t \in Tile : at[r] = t
  BY <1>1 DEF IInv, TileOK
<1>3. /\ tile[r] = raw[t] /\ raw[t] # Null /\ SourceOf(t) # Null
      /\ object[at[r]][tile[r]].source = SourceOf(t)
      /\ Above(t, target[r])
  BY <1>1, <1>2, PyramidAssumption
     DEF IInv, TileOK, SInv, RequestOK, WorksOnRaw, ClimbsFromTarget, SourceOf, Creator
<1>4. \A p \in Request \ {r} : pc[p] \in Resting
  BY <1>1, OnlyOne DEF IInv, SInv, Resting
<1>5. PICK f : f = [tile |-> t, features |-> SourceOf(t)]
  OBVIOUS
<1>6. /\ stack' = [stack EXCEPT ![r] = <<f>>]
      /\ drilling' = [drilling EXCEPT ![r] = TRUE]
      /\ pc' = [pc EXCEPT ![r] = "lookup"]
      /\ UNCHANGED answer
  BY <1>2, <1>3, <1>5 DEF CopySource, Goto
<1>7. stack'[r] = <<f>> /\ Len(<<f>>) = 1 /\ drilling'[r] /\ pc'[r] = "lookup"
  BY <1>6 DEF IInv, TypeOK
<1>8. Content[t] \in SUBSET Feature /\ Content[t] # Null
  BY PyramidAssumption
<1>9. SourceOf(t) = Content[t]
  BY <1>1, <1>3, <1>4 DEF SInv, SourcesWhole, Resting
<1>10. FrameWhole(r, f)'
  <2>1. Placed(t)'
    BY <1>1, <1>3 DEF SInv, StoredPlaced, Placed
  <2>2. QED
    BY <1>5, <1>7, <1>8, <1>9, <2>1 DEF FrameWhole, Kept
<1>11. RequestOK(r)'
  <2>1. t \in Path /\ Parent(t) \in Path
    BY Paths, ParentIsAPath
  <2>2. IsAncestor(Parent(t), Parent(t))
    BY <2>1, AncestorOrder
  <2>3. StackNested(r)'
    BY <1>5, <1>7, <1>10, <2>2 DEF StackNested
  <2>4. OnStack(r)'
    BY <1>1, <1>3, <1>5, <1>7 DEF OnStack, Above
  <2>5. QED
    BY <1>7, <2>3, <2>4 DEF RequestOK, WorksOnRaw, SlicesOnPath, ClimbsFromTarget, DrillsToTarget
<1>12. Alone' /\ \A p \in Request : RequestOK(p)'
  BY <1>1, <1>6, <1>11, StepAlone DEF IInv, SInv, Resting
<1>13. (SourcesWhole /\ StoredPlaced /\ StrippedProvided)'
  BY <1>1, <1>4, <1>6, CacheUntouched DEF Tiling
<1>14. AnswersAwaited'
  BY <1>1, <1>6 DEF IInv, TypeOK, SInv, AnswersAwaited, Lookup
<1>15. QED
  BY <1>3, <1>12, <1>13, <1>14 DEF SInv

LEMMA TakeResultSequential ==
    ASSUME IInv, SInv, NEW r \in Request, TakeResult(r)
    PROVE  SInv'
<1>1. /\ pc[r] = "result"
      /\ UNCHANGED <<raw, object, transformed, target, stack, drilling>>
  BY DEF TakeResult, shared
<1>2. CASE Lookup(target[r]) = Null
  <2>1. Finish(r, Null)
    BY <1>2 DEF TakeResult
  <2>2. QED
    BY <1>1, <2>1, FinishSequential DEF SInv, AnswersAwaited, Resting, Tiling
<1>3. CASE Lookup(target[r]) # Null
  <2>1. /\ at' = [at EXCEPT ![r] = target[r]]
        /\ tile' = [tile EXCEPT ![r] = Lookup(target[r])]
        /\ pc' = [pc EXCEPT ![r] = "transform"]
        /\ UNCHANGED answer
    BY <1>3 DEF TakeResult, Goto
  <2>2. pc'[r] = "transform" /\ at'[r] = target[r] /\ tile'[r] = Lookup(target[r])
    BY <2>1 DEF IInv, TypeOK
  <2>3. RequestOK(r)'
    BY <1>1, <1>3, <2>2 DEF RequestOK, WorksOnRaw, StackNested, SlicesOnPath, ClimbsFromTarget,
       DrillsToTarget, Lookup, Tiling
  <2>4. \A p \in Request \ {r} : pc[p] \in Resting
    BY <1>1, OnlyOne DEF IInv, SInv, Resting
  <2>5. Alone' /\ \A p \in Request : RequestOK(p)'
    BY <1>1, <2>1, <2>3, StepAlone DEF IInv, SInv, Resting
  <2>6. (SourcesWhole /\ StoredPlaced /\ StrippedProvided)'
    BY <1>1, <2>1, <2>4, CacheUntouched DEF Tiling
  <2>7. AnswersAwaited'
    BY <1>1, <2>1 DEF IInv, TypeOK, SInv, AnswersAwaited, Lookup
  <2>8. QED
    BY <2>5, <2>6, <2>7 DEF SInv
<1>4. QED
  BY <1>2, <1>3

LEMMA StoreTransformedTileSequential ==
    ASSUME IInv, SInv, NEW r \in Request, StoreTransformedTile(r)
    PROVE  SInv'
<1>1. /\ pc[r] = "transform"
      /\ \E a : Finish(r, a)
      /\ \/ transformed' = transformed
         \/ transformed' = [transformed EXCEPT ![target[r]] = Content[target[r]]]
      /\ UNCHANGED <<raw, object, target>>
  BY TransformEnds
<1>2. Lookup(target[r]) # Null
  BY <1>1, PyramidAssumption DEF IInv, TileOK, SInv, RequestOK, WorksOnRaw, Lookup, Creator
<1>3. \A t \in Target : transformed'[t] # Null => Lookup(t) # Null
  BY <1>1, <1>2 DEF IInv, TypeOK, SInv, AnswersAwaited
<1>4. QED
  BY <1>1, <1>3, FinishSequential DEF Resting, Tiling

LEMMA InitSequential == Init => SInv
<1> SUFFICES ASSUME Init PROVE SInv
  OBVIOUS
<1>1. /\ \A r \in Request : pc[r] = "idle" /\ answer[r] = Pending
      /\ \A t \in Target : transformed[t] = Null
  BY DEF Init
<1>2. Content[Root] \in SUBSET Feature
  BY RootIsATile, PyramidAssumption
<1>3. \A t \in Tile : raw[t] # Null => t = Root /\ SourceOf(t) = Content[t] /\ Content[t] # Null
  <2>1. PICK loaded \in BOOLEAN :
          /\ raw = [t \in Tile |-> IF loaded /\ t = Root THEN Loader ELSE Null]
          /\ object = [t \in Tile |-> [c \in Creator |->
                         IF loaded /\ t = Root /\ c = Loader THEN Loaded ELSE Null]]
    BY DEF Init
  <2> SUFFICES ASSUME NEW t \in Tile, raw[t] # Null
               PROVE  t = Root /\ SourceOf(t) = Content[t] /\ Content[t] # Null
    OBVIOUS
  <2>2. loaded /\ t = Root /\ raw[t] = Loader
    BY <2>1
  <2>3. Loader \in Creator
    BY DEF Creator
  <2>4. object[t][raw[t]] = Loaded
    BY <2>1, <2>2, <2>3
  <2>5. QED
    BY <1>2, <2>2, <2>4, PyramidAssumption DEF SourceOf, Loaded
<1>4. Alone
  BY <1>1 DEF Alone, Running
<1>5. \A r \in Request : RequestOK(r)
  BY <1>1 DEF RequestOK, WorksOnRaw, StackNested, SlicesOnPath, ClimbsFromTarget,
     DrillsToTarget, Tiling
<1>6. SourcesWhole /\ StrippedProvided
  BY <1>3 DEF SourcesWhole, StrippedProvided
<1>7. StoredPlaced
  <2>1. ASSUME NEW u \in Tile PROVE ~Above(u, Root)
    BY Paths, AboveIsShorter
  <2>2. Placed(Root)
    BY <2>1, Paths, PyramidAssumption DEF Placed, UnderSolid
  <2>3. QED
    BY <1>3, <2>2 DEF StoredPlaced
<1>8. AnswersAwaited
  BY <1>1 DEF AnswersAwaited
<1>9. QED
  BY <1>4, <1>5, <1>6, <1>7, <1>8 DEF SInv

LEMMA StutterSequential == IInv /\ SInv /\ UNCHANGED vars => SInv'
<1> SUFFICES ASSUME SInv, UNCHANGED vars PROVE SInv'
  OBVIOUS
<1>1. UNCHANGED <<raw, object, transformed, pc, target, stack, drilling, at, tile, answer>>
  BY DEF vars
<1>2. Alone' /\ AnswersAwaited' /\ SourcesWhole'
  BY <1>1 DEF SInv, Alone, Running, AnswersAwaited, Lookup, SourcesWhole, SourceOf
<1>3. ASSUME NEW r \in Request PROVE RequestOK(r)'
  <2>1. RequestOK(r)
    BY DEF SInv
  <2>2. (WorksOnRaw(r) /\ SlicesOnPath(r) /\ ClimbsFromTarget(r))'
    BY <1>1, <2>1 DEF RequestOK, WorksOnRaw, SlicesOnPath, ClimbsFromTarget, Lookup, SourceOf
  <2>3. (StackNested(r) /\ DrillsToTarget(r))'
    BY <1>1, <2>1 DEF RequestOK, StackNested, FrameWhole, Placed, DrillsToTarget, OnStack, Lookup
  <2>4. QED
    BY <2>2, <2>3 DEF RequestOK
<1>4. StoredPlaced'
  BY <1>1 DEF SInv, StoredPlaced, Placed
<1>5. StrippedProvided'
  <2>1. ASSUME NEW t, Provided(t) PROVE Provided(t)'
    BY <1>1, <2>1 DEF Provided, Lookup, Coming, CutShort
  <2>2. QED
    BY <1>1, <2>1 DEF SInv, StrippedProvided, SourceOf
<1>6. QED
  BY <1>2, <1>3, <1>4, <1>5 DEF SInv

\* One request at a time the stronger invariant holds as well.
THEOREM SequentialInvariant == ASSUME InFlight = 1 PROVE Spec => []SInv
<1>1. Init => SInv
  BY InitSequential
<1>2. IInv /\ SInv /\ [Next]_vars => SInv'
  <2> SUFFICES ASSUME IInv, SInv, [Next]_vars PROVE SInv'
    OBVIOUS
  <2>1. ASSUME NEW r \in Request, GetTile(r) \/ Step(r) PROVE SInv'
    BY <2>1, GetTileSequential, LookupFrameSequential, StoreRawTileSequential,
       AssignSourceSequential, SliceTileSequential, FindTargetSequential, ClimbSequential,
       CheckParentSequential, CopySourceSequential, TakeResultSequential,
       StoreTransformedTileSequential DEF Step
  <2>2. CASE Terminating \/ UNCHANGED vars
    BY <2>2, StutterSequential DEF Terminating
  <2>3. QED
    BY <2>1, <2>2 DEF Next
<1>3. QED
  BY <1>1, <1>2, InductiveInvariant, PTL DEF Spec

\* One request at a time, on a pyramid of any height over any layer, the
\* Source that Generator.cs:186 drops is not needed again: the children are
\* stored, unless the tile is empty or a request failed inside it.
THEOREM DroppedSourceIsNotNeeded ==
    ASSUME InFlight = 1 PROVE Spec => []SourceIsNotNeeded
<1>1. SInv => SourceIsNotNeeded
  <2> SUFFICES ASSUME SInv, Running = {}, NEW t \in Tile \ {Root}, raw[t] # Null,
                      object[t][raw[t]].source = Null
               PROVE  \/ Content[t] = {}
                      \/ \A q \in Quadrant : Lookup(Append(t, q)) # Null
                      \/ CutShort(t)
    BY DEF SourceIsNotNeeded
  <2>1. \A r \in Request : pc[r] \notin Tiling
    BY DEF Running, Tiling
  <2>2. \A u : ~Coming(u)
    BY <2>1 DEF Coming
  <2>3. Provided(t)
    BY DEF SInv, StrippedProvided, SourceOf
  <2>4. QED
    BY <2>2, <2>3 DEF Provided
<1>2. QED
  BY <1>1, SequentialInvariant, PTL

-----------------------------------------------------------------------------
(***************************************************************************)
(* One request at a time the pyramid is the server of TileServer: what it  *)
(* answers is expected, step by step.                                      *)
(***************************************************************************)
LEMMA RightAnswers ==
    ASSUME NEW t \in Target
    PROVE  /\ NothingThere(t) \/ Beside(t) => Null \in Expected[t]
           /\ UnderSolid(t) => Failed \in Expected[t]
           /\ t \in Tile /\ ~UnderSolid(t) => Transformed(Content[t]) \in Expected[t]
BY DEF Expected

LEMMA StoredIsAnswered ==
    ASSUME IInv, SInv, NEW t \in Target, Lookup(t) # Null
    PROVE  Transformed(Content[t]) \in Expected[t]
<1>1. t \in Tile /\ raw[t] # Null
  BY DEF Lookup
<1>2. ~UnderSolid(t)
  BY <1>1 DEF SInv, StoredPlaced, Placed
<1>3. QED
  BY <1>1, <1>2, RightAnswers

\* A request that gets an expected answer is served.
LEMMA Served ==
    ASSUME IInv, SInv, NEW r \in Request, pc[r] # "done",
           NEW a \in Expected[target[r]], Finish(r, a), UNCHANGED target
    PROVE  Server!Next
<1>1. pc' = [pc EXCEPT ![r] = "done"] /\ answer' = [answer EXCEPT ![r] = a]
  BY DEF Finish, Goto
<1>2. answer[r] = Pending
  BY DEF SInv, AnswersAwaited
<1>3. {p \in Request : pc'[p] # "idle"} = {p \in Request : pc[p] # "idle"} \cup {r}
  BY <1>1 DEF IInv, TypeOK
<1>4. Server!Serve(r)
  BY <1>1, <1>2, <1>3 DEF Server!Serve
<1>5. QED
  BY <1>4 DEF Server!Next

\* The browser sees nothing of a step in between.
LEMMA Unseen ==
    ASSUME IInv, NEW r \in Request, pc[r] # "idle",
           NEW l, l # "idle", pc' = [pc EXCEPT ![r] = l], UNCHANGED <<target, answer>>
    PROVE  UNCHANGED Server!vars
<1>1. {p \in Request : pc'[p] # "idle"} = {p \in Request : pc[p] # "idle"}
  BY DEF IInv, TypeOK
<1>2. QED
  BY <1>1 DEF Server!vars

LEMMA GetTileServes ==
    ASSUME IInv, SInv, NEW r \in Request, GetTile(r)
    PROVE  Server!Next
<1>1. pc[r] = "idle" /\ target[r] \in Target
  BY DEF GetTile, IInv, TypeOK
<1>2. CASE transformed[target[r]] # Null
  <2>1. Finish(r, transformed[target[r]]) /\ UNCHANGED target
    BY <1>2 DEF GetTile
  <2>2. transformed[target[r]] = Transformed(Content[target[r]])
    BY <1>1, <1>2 DEF IInv, ServedTilesAreRight, OwnContent, Transformed
  <2>3. Lookup(target[r]) # Null
    BY <1>1, <1>2 DEF SInv, AnswersAwaited
  <2>4. transformed[target[r]] \in Expected[target[r]]
    BY <1>1, <2>2, <2>3, StoredIsAnswered
  <2>5. QED
    BY <1>1, <2>1, <2>4, Served
<1>3. CASE transformed[target[r]] = Null
  <2>1. pc' = [pc EXCEPT ![r] = "lookup"] /\ UNCHANGED <<target, answer>>
    BY <1>3 DEF GetTile, Goto
  <2>2. {p \in Request : pc'[p] # "idle"} = {p \in Request : pc[p] # "idle"} \cup {r}
    BY <2>1 DEF IInv, TypeOK
  <2>3. Server!Ask(r)
    BY <1>1, <2>1, <2>2 DEF Server!Ask
  <2>4. QED
    BY <2>3 DEF Server!Next
<1>4. QED
  BY <1>2, <1>3

LEMMA AssignSourceServes ==
    ASSUME IInv, SInv, NEW r \in Request, AssignSource(r)
    PROVE  Server!Next \/ UNCHANGED Server!vars
<1>1. pc[r] = "assign" /\ UNCHANGED target /\ target[r] \in Target
  BY DEF AssignSource, IInv, TypeOK
<1>2. PICK t \in Tile : at[r] = t
  BY <1>1 DEF IInv, TileOK
<1>3. CASE StopsAt(r, t) \/ t \notin Solid
  <2>1. UNCHANGED answer /\ \E l : pc' = [pc EXCEPT ![r] = l] /\ l # "idle"
    BY <1>2, <1>3 DEF AssignSource, Resume, Goto
  <2>2. QED
    BY <1>1, <2>1, Unseen
<1>4. CASE ~StopsAt(r, t) /\ t \in Solid
  <2>1. Finish(r, Failed)
    BY <1>2, <1>4 DEF AssignSource
  <2>2. UnderSolid(target[r])
    BY <1>1, <1>2, <1>4, GoesOn DEF UnderSolid
  <2>3. Failed \in Expected[target[r]]
    BY <1>1, <2>2, RightAnswers
  <2>4. QED
    BY <1>1, <2>1, <2>3, Served
<1>5. QED
  BY <1>3, <1>4

\* The climb meets a stored tile, the root at last.
LEMMA ClimbServes ==
    ASSUME IInv, SInv, NEW r \in Request, Climb(r)
    PROVE  UNCHANGED Server!vars
<1>1. pc[r] = "climb" /\ UNCHANGED target
  BY DEF Climb
<1>2. at[r] # Root
  BY <1>1, Paths DEF SInv, RequestOK, ClimbsFromTarget, Lookup
<1>3. UNCHANGED answer /\ \E l : pc' = [pc EXCEPT ![r] = l] /\ l # "idle"
  BY <1>2 DEF Climb, Goto
<1>4. QED
  BY <1>1, <1>3, Unseen

\* The first stored tile above the target is without Source only where there
\* is nothing to make, or beside a filled square some request failed on.
LEMMA NothingFromStripped ==
    ASSUME IInv, SInv, NEW r \in Request, pc[r] = "check",
           object[at[r]][tile[r]].source = Null
    PROVE  NothingThere(target[r]) \/ Beside(target[r])
<1>1. PICK t \in Tile : at[r] = t
  BY DEF IInv, TileOK
<1>2. /\ t \in Path /\ target[r] \in Path
      /\ raw[t] # Null /\ SourceOf(t) = Null /\ t # Root
      /\ Above(t, target[r]) /\ Lookup(Below(t, target[r])) = Null
  BY <1>1, Paths, PyramidAssumption
     DEF IInv, TypeOK, TileOK, SInv, RequestOK, WorksOnRaw, ClimbsFromTarget, SourceOf, Creator
<1>3. Provided(t) /\ Placed(t)
  BY <1>2 DEF SInv, StrippedProvided, StoredPlaced
<1>4. PICK b \in Path : b = Below(t, target[r])
  BY <1>2, BelowFacts
<1>5. IsAncestor(b, target[r]) /\ Lookup(b) = Null /\ Len(b) = Len(t) + 1
      /\ \E q \in Quadrant : b = Append(t, q)
  <2>1. PICK q \in Quadrant : b = Append(t, q)
    BY <1>2, <1>4, BelowFacts
  <2>2. Len(b) = Len(t) + 1
    BY <1>2, <2>1, ChildFacts
  <2>3. QED
    BY <1>2, <1>4, <2>1, <2>2, BelowFacts
<1>6. CASE Content[t] = {}
  BY <1>2, <1>3, <1>6, NothingBelow DEF Placed
<1>7. CASE \A q \in Quadrant : Lookup(Append(t, q)) # Null \/ Coming(Append(t, q))
  <2>1. \A p \in Request : pc[p] \notin Tiling
    BY OnlyOne DEF IInv, SInv, Tiling, Resting
  <2>2. \A u : ~Coming(u)
    BY <2>1 DEF Coming
  <2>3. QED
    BY <1>5, <1>7, <2>2
<1>8. CASE CutShort(t)
  <2>1. PICK p \in Request, s \in Sliceable :
            raw[s] # Null /\ Above(t, s) /\ Above(s, target[p])
    BY <1>8 DEF CutShort
  <2>2. s \in Tile /\ s \in Path
    BY Paths, PyramidAssumption DEF Sliceable
  <2>3. ASSUME IsAncestor(b, s) PROVE FALSE
    <3>1. b \in Tile
      BY <2>2, <2>3, AncestorIsATile
    <3>2. raw[b] # Null
      BY <2>1, <2>2, <2>3, <3>1 DEF SInv, StoredPlaced, Placed, Above
    <3>3. QED
      BY <1>5, <3>1, <3>2 DEF Lookup
  <2>4. ~IsAncestor(target[r], s)
    BY <1>2, <1>5, <2>2, <2>3, AncestorOrder
  <2>5. ASSUME IsAncestor(s, target[r]) PROVE FALSE
    <3>1. IsAncestor(s, b)
      BY <1>2, <1>5, <2>2, <2>3, <2>5, AncestorOrder
    <3>2. s # b
      BY <2>2, <2>3, AncestorOrder
    <3>3. Len(s) < Len(b) /\ Len(t) < Len(s)
      BY <1>2, <2>1, <2>2, <3>1, <3>2, AboveIsShorter DEF Above
    <3>4. QED
      BY <1>2, <1>5, <2>2, <3>3 DEF Path
  <2>6. target[r][1] = s[1]
    <3>1. Len(t) \in Nat \ {0}
      BY <1>2, EmptySeq DEF Root, Path
    <3>2. target[r][1] = t[1] /\ s[1] = t[1]
      BY <1>2, <2>1, <2>2, <3>1, AncestorByElements DEF Above
    <3>3. QED
      BY <3>2
  <2>7. target[p] \in Target
    BY DEF IInv, TypeOK
  <2>8. QED
    BY <2>1, <2>4, <2>5, <2>6, <2>7 DEF Beside
<1>9. QED
  BY <1>3, <1>6, <1>7, <1>8 DEF Provided

LEMMA CheckParentServes ==
    ASSUME IInv, SInv, NEW r \in Request, CheckParent(r)
    PROVE  Server!Next \/ UNCHANGED Server!vars
<1>1. pc[r] = "check" /\ UNCHANGED target /\ target[r] \in Target
  BY DEF CheckParent, IInv, TypeOK
<1>2. CASE object[at[r]][tile[r]].source = Null
  <2>1. Finish(r, Null)
    BY <1>2 DEF CheckParent
  <2>2. Null \in Expected[target[r]]
    BY <1>1, <1>2, NothingFromStripped, RightAnswers
  <2>3. QED
    BY <1>1, <2>1, <2>2, Served
<1>3. CASE object[at[r]][tile[r]].source # Null /\ at[r] \in Solid
  <2>1. Finish(r, Failed)
    BY <1>3 DEF CheckParent
  <2>2. UnderSolid(target[r])
    BY <1>1, <1>3 DEF SInv, RequestOK, ClimbsFromTarget, UnderSolid
  <2>3. Failed \in Expected[target[r]]
    BY <1>1, <2>2, RightAnswers
  <2>4. QED
    BY <1>1, <2>1, <2>3, Served
<1>4. CASE object[at[r]][tile[r]].source # Null /\ at[r] \notin Solid
  <2>1. pc' = [pc EXCEPT ![r] = "copy"] /\ UNCHANGED answer
    BY <1>4 DEF CheckParent, Goto
  <2>2. QED
    BY <1>1, <2>1, Unseen
<1>5. QED
  BY <1>2, <1>3, <1>4

LEMMA CopySourceServes ==
    ASSUME IInv, SInv, NEW r \in Request, CopySource(r)
    PROVE  UNCHANGED Server!vars
<1>1. object[at[r]][tile[r]].source # Null
  BY CopySourceSequential
<1>2. pc[r] = "copy" /\ pc' = [pc EXCEPT ![r] = "lookup"] /\ UNCHANGED <<target, answer>>
  BY <1>1 DEF CopySource, Goto
<1>3. QED
  BY <1>2, Unseen

\* After the drill the target is there, unless there is nothing.
LEMMA TakeResultServes ==
    ASSUME IInv, SInv, NEW r \in Request, TakeResult(r)
    PROVE  Server!Next \/ UNCHANGED Server!vars
<1>1. pc[r] = "result" /\ UNCHANGED target /\ target[r] \in Target
  BY DEF TakeResult, IInv, TypeOK
<1>2. CASE Lookup(target[r]) = Null
  <2>1. Finish(r, Null)
    BY <1>2 DEF TakeResult
  <2>2. NothingThere(target[r])
    BY <1>1, <1>2 DEF SInv, RequestOK, DrillsToTarget
  <2>3. Null \in Expected[target[r]]
    BY <1>1, <2>2, RightAnswers
  <2>4. QED
    BY <1>1, <2>1, <2>3, Served
<1>3. CASE Lookup(target[r]) # Null
  <2>1. pc' = [pc EXCEPT ![r] = "transform"] /\ UNCHANGED answer
    BY <1>3 DEF TakeResult, Goto
  <2>2. QED
    BY <1>1, <2>1, Unseen
<1>4. QED
  BY <1>2, <1>3

LEMMA StoreTransformedTileServes ==
    ASSUME IInv, SInv, NEW r \in Request, StoreTransformedTile(r)
    PROVE  Server!Next
<1>1. /\ pc[r] = "transform" /\ UNCHANGED target /\ target[r] \in Target
      /\ Finish(r, Transformed(Content[target[r]]))
  BY TransformEnds DEF Transformed
<1>2. Lookup(target[r]) # Null
  BY <1>1, TransformEnds, PyramidAssumption
     DEF IInv, TileOK, SInv, RequestOK, WorksOnRaw, Lookup, Creator
<1>3. Transformed(Content[target[r]]) \in Expected[target[r]]
  BY <1>1, <1>2, StoredIsAnswered
<1>4. QED
  BY <1>1, <1>3, Served

\* One request at a time, whatever earlier requests have made, sliced and
\* stripped, or failed to transform, every answer is the one TileServer
\* expects, the exceptions of IsClippedSquare and ProcessTile among them: the
\* safety part of ImplementsTileServer.
THEOREM ServesLikeTileServer ==
    ASSUME InFlight = 1 PROVE Spec => Server!Init /\ [][Server!Next]_(Server!vars)
<1>1. Init => Server!Init
  BY DEF Init, Server!Init, Expected
<1>2. IInv /\ SInv /\ [Next]_vars => [Server!Next]_(Server!vars)
  <2> SUFFICES ASSUME IInv, SInv, [Next]_vars
               PROVE  Server!Next \/ UNCHANGED Server!vars
    OBVIOUS
  <2>1. ASSUME NEW r \in Request, LookupFrame(r) \/ StoreRawTile(r) \/ SliceTile(r) \/ FindTarget(r)
        PROVE  UNCHANGED Server!vars
    <3>1. pc[r] # "idle" /\ UNCHANGED <<target, answer>>
      BY <2>1 DEF LookupFrame, StoreRawTile, SliceTile, FindTarget
    <3>2. \E l : pc' = [pc EXCEPT ![r] = l] /\ l # "idle"
      BY <2>1 DEF LookupFrame, StoreRawTile, SliceTile, FindTarget, Resume, Goto
    <3>3. QED
      BY <3>1, <3>2, Unseen
  <2>2. ASSUME NEW r \in Request, GetTile(r) \/ Step(r)
        PROVE  Server!Next \/ UNCHANGED Server!vars
    BY <2>1, <2>2, GetTileServes, AssignSourceServes, ClimbServes, CheckParentServes,
       CopySourceServes, TakeResultServes, StoreTransformedTileServes DEF Step
  <2>3. CASE Terminating \/ UNCHANGED vars
    BY <2>3 DEF Terminating, vars, Server!vars
  <2>4. QED
    BY <2>2, <2>3 DEF Next
<1>3. QED
  BY <1>1, <1>2, InductiveInvariant, SequentialInvariant, PTL DEF Spec

-----------------------------------------------------------------------------
(***************************************************************************)
(* Headway.  Of the frames of a stack one at most is on the way to the     *)
(* target, so the four frames a slice pushes replace what that one could   *)
(* still grow into.                                                        *)
(***************************************************************************)
OneWay(s, u) == \A i, j \in OnTheWay(s, u) : i = j

LEMMA FramesOnPaths ==
    ASSUME NEW s \in Seq(Frame), NEW i \in 1..Len(s)
    PROVE  /\ s[i].tile \in Path
           /\ Len(s[i].tile) \in 0..MaxZoom
           /\ Len(s) \in Nat
<1>1. s[i] \in Frame /\ Len(s) \in Nat
  OBVIOUS
<1>2. s[i].tile \in Tile
  BY <1>1 DEF Frame
<1>3. QED
  BY <1>1, <1>2, TileIsASequence, Paths

\* What is left, with a frame on the way and without one.
LEMMA LeftToTake ==
    ASSUME NEW s \in Seq(Frame), NEW u
    PROVE  /\ TilesLeft(s, u) \in Nat /\ TilesLeft(s, u) >= Len(s)
           /\ OnTheWay(s, u) = {} => TilesLeft(s, u) = Len(s)
           /\ \A i \in OnTheWay(s, u) :
                 OneWay(s, u) => TilesLeft(s, u) = Len(s) + 4 * (MaxZoom - Len(s[i].tile))
<1>1. Len(s) \in Nat /\ MaxZoom \in Nat
  BY PyramidAssumption
<1>2. CASE OnTheWay(s, u) = {}
  BY <1>1, <1>2 DEF TilesLeft
<1>3. CASE OnTheWay(s, u) # {}
  <2>1. PICK w : w = CHOOSE i \in OnTheWay(s, u) : TRUE
    OBVIOUS
  <2>2. w \in OnTheWay(s, u)
    BY <1>3, <2>1
  <2>3. TilesLeft(s, u) = Len(s) + 4 * (MaxZoom - Len(s[w].tile))
    BY <1>3, <2>1 DEF TilesLeft
  <2>4. w \in 1..Len(s)
    BY <2>2 DEF OnTheWay
  <2>5. Len(s[w].tile) \in 0..MaxZoom
    BY <2>4, FramesOnPaths
  <2>6. \A i \in OnTheWay(s, u) : OneWay(s, u) => i = w
    BY <2>2 DEF OneWay
  <2>7. QED
    BY <1>1, <1>3, <2>3, <2>5, <2>6
<1>4. QED
  BY <1>2, <1>3

\* A tile less.
LEMMA PoppedIsLess ==
    ASSUME NEW s \in Seq(Frame), s # << >>, NEW u, OneWay(s, u)
    PROVE  OneWay(Tail(s), u) /\ TilesLeft(Tail(s), u) < TilesLeft(s, u)
<1>1. /\ Len(s) \in Nat \ {0}
      /\ Tail(s) \in Seq(Frame) /\ Len(Tail(s)) = Len(s) - 1
      /\ \A i \in 1..Len(Tail(s)) : Tail(s)[i] = s[i + 1]
  BY EmptySeq, HeadTailProperties
<1>2. PICK rest \in Seq(Frame) : rest = Tail(s)
  BY <1>1
<1>3. ASSUME NEW i \in OnTheWay(rest, u)
      PROVE  i + 1 \in OnTheWay(s, u) /\ i \in 1..Len(rest) /\ rest[i] = s[i + 1]
  <2>1. i \in 1..Len(rest) /\ IsAncestor(rest[i].tile, u)
    BY DEF OnTheWay
  <2>2. rest[i] = s[i + 1] /\ i + 1 \in 1..Len(s)
    BY <1>1, <1>2, <2>1
  <2>3. QED
    BY <2>1, <2>2 DEF OnTheWay
<1>4. OneWay(rest, u)
  <2>1. ASSUME NEW i \in OnTheWay(rest, u), NEW j \in OnTheWay(rest, u) PROVE i = j
    <3>1. i + 1 = j + 1 /\ i \in 1..Len(rest) /\ j \in 1..Len(rest)
      BY <1>3 DEF OneWay
    <3>2. QED
      BY <3>1, <1>1, <1>2
  <2>2. QED
    BY <2>1 DEF OneWay
<1>5. Len(rest) = Len(s) - 1 /\ Len(s) \in Nat \ {0}
  BY <1>1, <1>2
<1>6. TilesLeft(rest, u) < TilesLeft(s, u)
  <2>1. CASE OnTheWay(rest, u) = {}
    BY <1>5, <2>1, LeftToTake
  <2>2. CASE OnTheWay(rest, u) # {}
    <3>1. PICK i \in OnTheWay(rest, u) : TRUE
      BY <2>2
    <3>2. i + 1 \in OnTheWay(s, u) /\ i \in 1..Len(rest) /\ rest[i] = s[i + 1]
      BY <1>3
    <3>3. TilesLeft(rest, u) = Len(rest) + 4 * (MaxZoom - Len(rest[i].tile))
      BY <1>4, LeftToTake
    <3>4. TilesLeft(s, u) = Len(s) + 4 * (MaxZoom - Len(rest[i].tile))
      BY <3>2, LeftToTake
    <3>5. Len(rest[i].tile) \in 0..MaxZoom /\ MaxZoom \in Nat
      BY <3>2, FramesOnPaths, PyramidAssumption
    <3>6. QED
      BY <1>5, <3>3, <3>4, <3>5
  <2>3. QED
    BY <2>1, <2>2
<1>7. QED
  BY <1>2, <1>4, <1>6

\* Two children of one tile are not both on the way.
LEMMA OneChildOnTheWay ==
    ASSUME NEW t \in Path, NEW u \in Path, NEW p \in Quadrant, NEW q \in Quadrant,
           IsAncestor(Append(t, p), u), IsAncestor(Append(t, q), u)
    PROVE  p = q
<1>1. /\ Append(t, p) \in Path /\ Len(Append(t, p)) = Len(t) + 1
      /\ Append(t, q) \in Path /\ Len(Append(t, q)) = Len(t) + 1
  BY ChildFacts
<1>2. Len(t) \in Nat /\ Len(t) + 1 \in 1..(Len(t) + 1)
  BY DEF Path
<1>3. Append(t, p)[Len(t) + 1] = u[Len(t) + 1] /\ Append(t, q)[Len(t) + 1] = u[Len(t) + 1]
  BY <1>1, <1>2, AncestorByElements
<1>4. Append(t, p)[Len(t) + 1] = p /\ Append(t, q)[Len(t) + 1] = q
  BY <1>2 DEF Path
<1>5. QED
  BY <1>3, <1>4

\* Four tiles of the next level in place of the one on the way.
LEMMA SlicedIsLess ==
    ASSUME NEW s \in Seq(Frame), s # << >>, NEW u \in Path, OneWay(s, u),
           NEW t \in Tile, s[1].tile = t, 1 \in OnTheWay(s, u), Len(t) < MaxZoom,
           Kept(s[1].features) = Content[t]
    PROVE  LET all == Sections(t, s[1].features) \o Tail(s)
           IN  all \in Seq(Frame) /\ all # << >> /\ OneWay(all, u)
                  /\ TilesLeft(all, u) < TilesLeft(s, u)
<1>1. /\ Len(s) \in Nat \ {0}
      /\ Tail(s) \in Seq(Frame) /\ Len(Tail(s)) = Len(s) - 1
      /\ \A i \in 1..Len(Tail(s)) : Tail(s)[i] = s[i + 1]
  BY EmptySeq, HeadTailProperties
<1>2. s[1].features \in Slice /\ t \in Path /\ Len(t) \in Nat /\ MaxZoom \in Nat
  <2>1. s[1] \in Frame
    BY <1>1
  <2>2. t \in Path /\ MaxZoom \in Nat
    BY Paths, PyramidAssumption
  <2>3. QED
    BY <2>1, <2>2 DEF Frame, Path
<1>3. /\ Sections(t, s[1].features) \in Seq(Frame)
      /\ Len(Sections(t, s[1].features)) = 4
  BY <1>2, SectionsAreFrames
<1>4. \A i \in 1..4 : /\ Sections(t, s[1].features)[i].tile = Append(t, PopOrder[i])
                      /\ PopOrder[i] \in Quadrant
  BY DEF Sections, Section, PopOrder, Quadrant
<1>5. \A i, j \in 1..4 : PopOrder[i] = PopOrder[j] => i = j
  BY DEF PopOrder
<1>6. PICK new \in Seq(Frame) : new = Sections(t, s[1].features)
  BY <1>3
<1>7. PICK rest \in Seq(Frame) : rest = Tail(s)
  BY <1>1
<1>8. PICK all : all = new \o rest
  OBVIOUS
<1>9. /\ all \in Seq(Frame) /\ all # << >>
      /\ Len(all) = 4 + Len(rest)
      /\ \A i \in 1..4 : i \in 1..Len(all) /\ all[i] = new[i]
      /\ \A i \in 1..Len(rest) : i + 4 \in 1..Len(all) /\ all[i + 4] = rest[i]
      /\ \A i \in 1..Len(all) : i \in 1..4 \/ (i > 4 /\ i - 4 \in 1..Len(rest))
  <2>1. Len(new) = 4
    BY <1>3, <1>6
  <2>2. QED
    BY <1>8, <2>1, FourAndTheRest
<1>10. ASSUME NEW i \in OnTheWay(all, u)
       PROVE  i \in 1..4 /\ IsAncestor(Append(t, PopOrder[i]), u) /\ all[i].tile = Append(t, PopOrder[i])
  <2>1. i \in 1..Len(all) /\ IsAncestor(all[i].tile, u)
    BY DEF OnTheWay
  <2>2. CASE i > 4 /\ i - 4 \in 1..Len(rest)
    <3>1. all[(i - 4) + 4] = rest[i - 4] /\ (i - 4) + 4 = i
      BY <1>9, <2>1, <2>2
    <3>2. rest[i - 4] = s[(i - 4) + 1] /\ (i - 4) + 1 = i - 3
      BY <1>1, <1>7, <2>1, <2>2
    <3>3. i - 3 \in 1..Len(s) /\ i - 3 # 1
      BY <1>1, <1>7, <2>1, <2>2
    <3>4. i - 3 \in OnTheWay(s, u)
      BY <2>1, <3>1, <3>2, <3>3 DEF OnTheWay
    <3>5. QED
      BY <3>3, <3>4 DEF OneWay
  <2>3. CASE i \in 1..4
    BY <1>4, <1>6, <1>9, <2>1, <2>3
  <2>4. QED
    BY <1>9, <2>1, <2>2, <2>3
<1>11. OneWay(all, u)
  <2>1. ASSUME NEW i \in OnTheWay(all, u), NEW j \in OnTheWay(all, u) PROVE i = j
    <3>1. PopOrder[i] = PopOrder[j]
      BY <1>2, <1>4, <1>10, OneChildOnTheWay
    <3>2. QED
      BY <1>5, <1>10, <3>1
  <2>2. QED
    BY <2>1 DEF OneWay
<1>12. TilesLeft(s, u) = Len(s) + 4 * (MaxZoom - Len(t))
  BY LeftToTake
<1>13. Len(all) = Len(s) + 3
  BY <1>1, <1>7, <1>9
<1>14. TilesLeft(all, u) < TilesLeft(s, u)
  <2>1. CASE OnTheWay(all, u) = {}
    <3>1. TilesLeft(all, u) = Len(all)
      BY <1>9, <2>1, LeftToTake
    <3>2. QED
      BY <1>1, <1>2, <1>12, <1>13, <3>1
  <2>2. CASE OnTheWay(all, u) # {}
    <3>1. PICK i \in OnTheWay(all, u) : TRUE
      BY <2>2
    <3>2. TilesLeft(all, u) = Len(all) + 4 * (MaxZoom - Len(all[i].tile))
      BY <1>9, <1>11, LeftToTake
    <3>3. Len(all[i].tile) = Len(t) + 1
      BY <1>2, <1>4, <1>10, ChildFacts
    <3>4. QED
      BY <1>1, <1>2, <1>12, <1>13, <3>2, <3>3
  <2>3. QED
    BY <2>1, <2>2
<1>15. QED
  BY <1>6, <1>7, <1>8, <1>9, <1>11, <1>14

\* While SplitTile runs, one frame at most is on the way, and what is sliced is.
Way(r) ==
    pc[r] \in Tiling =>
        /\ OneWay(stack[r], target[r])
        /\ pc[r] = "slice" => 1 \in OnTheWay(stack[r], target[r])

WayOK == \A r \in Request : Way(r)

Ahead(r) == Way(r)' /\ StepsLeft(r)' \in Nat /\ StepsLeft(r)' < StepsLeft(r)

\* The numbers the bound is made of.
LEMMA BoundParts ==
    ASSUME IInv, NEW r \in Request
    PROVE  /\ MaxZoom \in Nat
           /\ Len(target[r]) \in Nat
           /\ Len(at[r]) \in Nat
           /\ TilesLeft(stack[r], target[r]) \in Nat
           /\ pc[r] \in Tiling => TilesLeft(stack[r], target[r]) >= 1
<1>1. /\ stack[r] \in Seq(Frame) /\ at[r] \in Seq(Quadrant) /\ target[r] \in Path
      /\ MaxZoom \in Nat
  BY Paths, PyramidAssumption DEF IInv, TypeOK
<1>2. /\ TilesLeft(stack[r], target[r]) \in Nat
      /\ TilesLeft(stack[r], target[r]) >= Len(stack[r])
  BY <1>1, LeftToTake
<1>3. pc[r] \in Tiling => Len(stack[r]) \in Nat \ {0}
  BY StackFacts DEF Tiling
<1>4. QED
  BY <1>1, <1>2, <1>3 DEF Path

\* An iteration of SplitTile ends with fewer tiles to take.
LEMMA Resumes ==
    ASSUME IInv, NEW r \in Request, pc[r] \in {"assign", "slice"},
           NEW s \in Seq(Frame), OneWay(s, target[r]),
           TilesLeft(s, target[r]) < TilesLeft(stack[r], target[r]),
           drilling[r] \/ s = << >>,
           Resume(r, s), UNCHANGED <<target, drilling, at>>
    PROVE  Ahead(r)
<1>1. /\ stack'[r] = s
      /\ pc'[r] = IF s # << >> THEN "lookup" ELSE IF drilling[r] THEN "result" ELSE "find"
      /\ target'[r] = target[r] /\ drilling'[r] = drilling[r] /\ at'[r] = at[r]
      /\ drilling[r] \in BOOLEAN
  BY DEF Resume, Goto, IInv, TypeOK
<1>2. Way(r)'
  BY <1>1 DEF Way
<1>3. PICK n \in Nat : n = TilesLeft(stack[r], target[r])
  BY BoundParts
<1>4. PICK k \in Nat : k = TilesLeft(s, target[r])
  BY LeftToTake
<1>5. k < n /\ n >= 1
  BY <1>3, <1>4, BoundParts DEF Tiling
<1>6. CASE s # << >>
  <2>1. pc'[r] = "lookup" /\ drilling[r]
    BY <1>1, <1>6
  <2>2. StepsLeft(r)' = 4 * k + 3
    BY <1>1, <1>4, <2>1 DEF StepsLeft, Tiling
  <2>3. StepsLeft(r) = 4 * n + (IF pc[r] = "assign" THEN 1 ELSE 0)
    BY <1>3, <2>1 DEF StepsLeft, Tiling
  <2>4. QED
    BY <1>2, <1>5, <2>2, <2>3 DEF Ahead
<1>7. CASE s = << >> /\ drilling[r]
  <2>1. StepsLeft(r)' = 2
    BY <1>1, <1>7 DEF StepsLeft, Tiling
  <2>2. StepsLeft(r) = 4 * n + (IF pc[r] = "assign" THEN 1 ELSE 0)
    BY <1>3, <1>7 DEF StepsLeft, Tiling
  <2>3. QED
    BY <1>2, <1>5, <2>1, <2>2 DEF Ahead
<1>8. CASE s = << >> /\ ~drilling[r]
  <2>1. pc[r] = "assign"
    BY <1>8 DEF IInv, SplitOK
  <2>2. StepsLeft(r)' = 4 * (1 + 4 * MaxZoom) + 3 + 4 + Len(target[r])
    BY <1>1, <1>8, BoundParts DEF StepsLeft, Tiling
  <2>3. StepsLeft(r) = 4 * (1 + 4 * MaxZoom) + 3 + 4 + Len(target[r]) + 1
    BY <1>8, <2>1, BoundParts DEF StepsLeft, Tiling
  <2>4. QED
    BY <1>2, <2>2, <2>3, BoundParts DEF Ahead
<1>9. QED
  BY <1>1, <1>6, <1>7, <1>8

\* A request that is answered has nothing left to do.
LEMMA NothingLeft ==
    ASSUME IInv, NEW r \in Request, pc[r] \notin {"idle", "done"}, pc'[r] = "done"
    PROVE  Ahead(r)
<1>1. Way(r)'
  BY DEF Way, Tiling
<1>2. StepsLeft(r)' = 0
  BY DEF StepsLeft, Tiling
<1>3. StepsLeft(r) > 0
  <2>1. CASE pc[r] \in Tiling
    <3>1. drilling[r] \in BOOLEAN
      BY DEF IInv, TypeOK
    <3>2. CASE drilling[r]
      BY <2>1, <3>2, BoundParts DEF StepsLeft, Tiling
    <3>3. CASE ~drilling[r]
      BY <2>1, <3>3, BoundParts DEF StepsLeft, Tiling
    <3>4. QED
      BY <3>1, <3>2, <3>3
  <2>2. CASE pc[r] \in {"find", "climb", "check", "copy", "result", "transform"}
    BY <2>2, BoundParts DEF StepsLeft, Tiling
  <2>3. pc[r] \in Location
    BY DEF IInv, TypeOK
  <2>4. QED
    BY <2>1, <2>2, <2>3 DEF Location, Tiling
<1>4. QED
  BY <1>1, <1>2, <1>3 DEF Ahead

\* Popping, storing: a step further in the same iteration.
LEMMA LookupFrameAhead ==
    ASSUME IInv, NEW r \in Request, Way(r), LookupFrame(r) \/ StoreRawTile(r)
    PROVE  Ahead(r)
<1>1. /\ \/ pc[r] = "lookup" /\ pc'[r] \in {"store", "assign"}
         \/ pc[r] = "store" /\ pc'[r] = "assign"
      /\ stack'[r] = stack[r] /\ target'[r] = target[r] /\ drilling'[r] = drilling[r]
      /\ drilling[r] \in BOOLEAN
  BY DEF LookupFrame, StoreRawTile, Goto, IInv, TypeOK
<1>2. Way(r)'
  BY <1>1 DEF Way, Tiling
<1>3. CASE drilling[r]
  <2>1. PICK n \in Nat : n = TilesLeft(stack[r], target[r])
    BY BoundParts
  <2>2. StepsLeft(r) = 4 * n + (IF pc[r] = "lookup" THEN 3 ELSE 2)
    BY <1>1, <1>3, <2>1 DEF StepsLeft, Tiling
  <2>3. StepsLeft(r)' = 4 * n + (IF pc'[r] = "store" THEN 2 ELSE 1)
    BY <1>1, <1>3, <2>1 DEF StepsLeft, Tiling
  <2>4. QED
    BY <1>1, <1>2, <2>2, <2>3 DEF Ahead
<1>4. CASE ~drilling[r]
  <2>1. PICK n \in Nat : n = 4 * (1 + 4 * MaxZoom) + 3 + 4 + Len(target[r])
    BY BoundParts
  <2>2. StepsLeft(r) = n + (IF pc[r] = "lookup" THEN 3 ELSE 2)
    BY <1>1, <1>4, <2>1, BoundParts DEF StepsLeft, Tiling
  <2>3. StepsLeft(r)' = n + (IF pc'[r] = "store" THEN 2 ELSE 1)
    BY <1>1, <1>4, <2>1, BoundParts DEF StepsLeft, Tiling
  <2>4. QED
    BY <1>1, <1>2, <2>2, <2>3 DEF Ahead
<1>5. QED
  BY <1>1, <1>3, <1>4

LEMMA AssignSourceAhead ==
    ASSUME IInv, NEW r \in Request, Way(r), AssignSource(r)
    PROVE  Ahead(r)
<1>1. /\ pc[r] = "assign" /\ OneWay(stack[r], target[r])
      /\ UNCHANGED <<target, drilling, at>>
      /\ drilling[r] \in BOOLEAN
  BY DEF AssignSource, Way, Tiling, IInv, TypeOK
<1>2. PICK t \in Tile : at[r] = t
  BY <1>1 DEF IInv, TileOK
<1>3. CASE StopsAt(r, t)
  <2>1. Resume(r, Tail(stack[r]))
    BY <1>2, <1>3 DEF AssignSource
  <2>2. /\ stack[r] \in Seq(Frame) /\ stack[r] # << >>
        /\ Tail(stack[r]) \in Seq(Frame)
    BY <1>1, StackFacts
  <2>3. drilling[r] \/ Tail(stack[r]) = << >>
    <3>1. ~drilling[r] => Len(stack[r]) = 1
      BY <1>1 DEF IInv, SplitOK
    <3>2. Len(Tail(stack[r])) = Len(stack[r]) - 1
      BY <1>1, StackFacts
    <3>3. ~drilling[r] => Len(Tail(stack[r])) = 0
      BY <3>1, <3>2
    <3>4. PICK rest \in Seq(Frame) : rest = Tail(stack[r])
      BY <2>2
    <3>5. Len(rest) = 0 => rest = << >>
      BY EmptySeq
    <3>6. QED
      BY <3>3, <3>4, <3>5
  <2>4. /\ OneWay(Tail(stack[r]), target[r])
        /\ TilesLeft(Tail(stack[r]), target[r]) < TilesLeft(stack[r], target[r])
    BY <1>1, <2>2, PoppedIsLess
  <2>5. QED
    BY <1>1, <2>1, <2>2, <2>3, <2>4, Resumes
<1>4. CASE ~StopsAt(r, t) /\ t \in Solid
  <2>1. pc'[r] = "done"
    BY <1>2, <1>4 DEF AssignSource, Finish, Goto, IInv, TypeOK
  <2>2. QED
    BY <1>1, <2>1, NothingLeft
<1>5. CASE ~StopsAt(r, t) /\ t \notin Solid
  <2>1. /\ pc'[r] = "slice" /\ stack'[r] = stack[r]
        /\ target'[r] = target[r] /\ drilling'[r] = drilling[r]
    BY <1>1, <1>2, <1>5 DEF AssignSource, Goto, IInv, TypeOK
  <2>2. drilling[r] /\ Above(t, target[r])
    BY <1>1, <1>2, <1>5, GoesOn
  <2>3. stack[r][1].tile = t /\ 1 \in 1..Len(stack[r])
    BY <1>1, <1>2, StackFacts DEF IInv, SplitOK
  <2>4. 1 \in OnTheWay(stack[r], target[r])
    BY <2>2, <2>3 DEF OnTheWay, Above
  <2>5. Way(r)'
    BY <1>1, <2>1, <2>4 DEF Way
  <2>6. QED
    BY <1>1, <2>1, <2>2, <2>5, BoundParts DEF StepsLeft, Tiling, Ahead
<1>6. QED
  BY <1>3, <1>4, <1>5

LEMMA SliceTileAhead ==
    ASSUME IInv, NEW r \in Request, Way(r), SliceTile(r)
    PROVE  Ahead(r)
<1> DEFINE slice == stack[r][1].features
           rest == Tail(stack[r])
<1>1. /\ pc[r] = "slice"
      /\ Resume(r, IF Kept(slice) = {} THEN rest ELSE Sections(at[r], slice) \o rest)
      /\ UNCHANGED <<target, drilling, at>>
  BY StackFacts DEF SliceTile
<1>2. OneWay(stack[r], target[r]) /\ 1 \in OnTheWay(stack[r], target[r])
  BY <1>1 DEF Way, Tiling
<1>3. PICK t \in Tile : at[r] = t
  BY <1>1 DEF IInv, TileOK
<1>4. /\ stack[r] \in Seq(Frame) /\ stack[r] # << >> /\ rest \in Seq(Frame)
      /\ stack[r][1].tile = t /\ Partial(t, slice)
      /\ drilling[r] /\ Len(t) < MaxZoom
  BY <1>1, <1>3, StackFacts DEF IInv, SplitOK, FrameOK
<1>5. target[r] \in Path
  BY Paths DEF IInv, TypeOK
<1>6. CASE Kept(slice) = {}
  <2>1. Resume(r, rest)
    BY <1>1, <1>6
  <2>2. OneWay(rest, target[r]) /\ TilesLeft(rest, target[r]) < TilesLeft(stack[r], target[r])
    BY <1>2, <1>4, PoppedIsLess
  <2>3. QED
    BY <1>1, <1>4, <2>1, <2>2, Resumes
<1>7. CASE Kept(slice) # {}
  <2>1. PICK all : all = Sections(t, slice) \o rest
    OBVIOUS
  <2>2. Resume(r, all)
    BY <1>1, <1>3, <1>7, <2>1
  <2>3. Kept(slice) = Content[t]
    BY <1>4, <1>7 DEF Partial
  <2>4. /\ all \in Seq(Frame) /\ OneWay(all, target[r])
        /\ TilesLeft(all, target[r]) < TilesLeft(stack[r], target[r])
    BY <1>2, <1>4, <1>5, <2>1, <2>3, SlicedIsLess
  <2>5. QED
    BY <1>1, <1>4, <2>2, <2>4, Resumes
<1>8. QED
  BY <1>6, <1>7

\* The search: a step further, and a level up in the climb.
LEMMA SearchAhead ==
    ASSUME IInv, NEW r \in Request, Way(r), FindTarget(r) \/ Climb(r)
    PROVE  Ahead(r)
<1>1. CASE FindTarget(r)
  <2>1. /\ pc[r] = "find" /\ pc'[r] \in {"climb", "transform"}
        /\ at'[r] = target[r] /\ target'[r] = target[r]
    BY <1>1 DEF FindTarget, Goto, IInv, TypeOK
  <2>2. QED
    BY <2>1, BoundParts DEF StepsLeft, Tiling, Ahead, Way
<1>2. CASE Climb(r) /\ at[r] = Root
  <2>1. pc[r] = "climb" /\ pc'[r] = "done"
    BY <1>2 DEF Climb, Finish, Goto, IInv, TypeOK
  <2>2. QED
    BY <2>1, NothingLeft
<1>3. CASE Climb(r) /\ at[r] # Root
  <2>1. /\ pc[r] = "climb" /\ pc'[r] \in {"climb", "check"}
        /\ at'[r] = SubSeq(at[r], 1, Len(at[r]) - 1) /\ target'[r] = target[r]
    BY <1>3 DEF Climb, Goto, IInv, TypeOK
  <2>2. at[r] \in Path /\ Len(at[r]) \in Nat \ {0}
    BY <1>3, EmptySeq DEF IInv, TypeOK, Path, Root
  <2>3. Len(at'[r]) = Len(at[r]) - 1
    BY <2>1, <2>2, SubPath
  <2>4. StepsLeft(r) = 4 * (1 + 4 * MaxZoom) + 3 + 3 + Len(at[r])
    BY <2>1, <2>2, BoundParts DEF StepsLeft, Tiling
  <2>5. CASE pc'[r] = "climb"
    <3>1. StepsLeft(r)' = 4 * (1 + 4 * MaxZoom) + 3 + 3 + Len(at'[r])
      BY <2>2, <2>3, <2>5, BoundParts DEF StepsLeft, Tiling
    <3>2. QED
      BY <2>2, <2>3, <2>4, <2>5, <3>1, BoundParts DEF Ahead, Way, Tiling
  <2>6. CASE pc'[r] = "check"
    <3>1. StepsLeft(r)' = 4 * (1 + 4 * MaxZoom) + 3 + 2
      BY <2>6, BoundParts DEF StepsLeft, Tiling
    <3>2. QED
      BY <2>2, <2>4, <2>6, <3>1, BoundParts DEF Ahead, Way, Tiling
  <2>7. QED
    BY <2>1, <2>5, <2>6
<1>4. QED
  BY <1>1, <1>2, <1>3

LEMMA CheckParentAhead ==
    ASSUME IInv, NEW r \in Request, Way(r), CheckParent(r)
    PROVE  Ahead(r)
<1>1. pc[r] = "check" /\ pc'[r] \in {"done", "copy"}
  BY DEF CheckParent, Finish, Goto, IInv, TypeOK
<1>2. CASE pc'[r] = "copy"
  BY <1>1, <1>2, BoundParts DEF StepsLeft, Tiling, Ahead, Way
<1>3. QED
  BY <1>1, <1>2, NothingLeft

\* The drill starts with one frame.
LEMMA CopySourceAhead ==
    ASSUME IInv, NEW r \in Request, Way(r), CopySource(r)
    PROVE  Ahead(r)
<1> DEFINE source == object[at[r]][tile[r]].source
           only == [tile |-> at[r], features |-> source]
<1>1. pc[r] = "copy"
  BY DEF CopySource
<1>2. CASE source = Null
  <2>1. pc'[r] = "done"
    BY <1>2 DEF CopySource, Finish, Goto, IInv, TypeOK
  <2>2. QED
    BY <1>1, <2>1, NothingLeft
<1>3. CASE source # Null
  <2>1. /\ stack' = [stack EXCEPT ![r] = <<only>>]
        /\ drilling' = [drilling EXCEPT ![r] = TRUE]
        /\ pc' = [pc EXCEPT ![r] = "lookup"]
        /\ UNCHANGED target
    BY <1>3 DEF CopySource, Goto
  <2>2. PICK s : s = <<only>>
    OBVIOUS
  <2>3. stack'[r] = s /\ drilling'[r] /\ pc'[r] = "lookup" /\ target'[r] = target[r]
    BY <2>1, <2>2 DEF IInv, TypeOK
  <2>4. only \in Frame
    <3>1. at[r] \in Tile /\ tile[r] \in Creator /\ object[at[r]][tile[r]] # Null
      BY <1>1 DEF IInv, TileOK
    <3>2. object[at[r]][tile[r]] \in TileObject
      BY <3>1 DEF IInv, TypeOK
    <3>3. QED
      BY <3>1, <3>2 DEF Frame, TileObject
  <2>5. s \in Seq(Frame) /\ Len(s) = 1 /\ s[1] = only
    BY <2>2, <2>4
  <2>6. \A i \in OnTheWay(s, target[r]) : i = 1
    BY <2>5 DEF OnTheWay
  <2>7. OneWay(s, target[r])
    BY <2>6 DEF OneWay
  <2>8. PICK n \in Nat : n = TilesLeft(s, target[r])
    BY <2>5, LeftToTake
  <2>9. n <= 1 + 4 * MaxZoom
    <3>1. CASE OnTheWay(s, target[r]) = {}
      <4>1. n = 1
        BY <2>5, <2>8, <3>1, LeftToTake
      <4>2. QED
        BY <4>1, PyramidAssumption
    <3>2. CASE OnTheWay(s, target[r]) # {}
      <4>1. PICK i \in OnTheWay(s, target[r]) : TRUE
        BY <3>2
      <4>2. n = 1 + 4 * (MaxZoom - Len(s[i].tile))
        BY <2>5, <2>7, <2>8, LeftToTake
      <4>3. i \in 1..Len(s) /\ Len(s[i].tile) \in 0..MaxZoom
        BY <2>5, FramesOnPaths DEF OnTheWay
      <4>4. QED
        BY <4>2, <4>3, PyramidAssumption
    <3>3. QED
      BY <3>1, <3>2
  <2>10. Way(r)'
    BY <2>3, <2>7 DEF Way
  <2>11. StepsLeft(r)' = 4 * n + 3
    BY <2>3, <2>8 DEF StepsLeft, Tiling
  <2>12. StepsLeft(r) = 4 * (1 + 4 * MaxZoom) + 3 + 1
    BY <1>1, BoundParts DEF StepsLeft, Tiling
  <2>13. QED
    BY <2>9, <2>10, <2>11, <2>12, BoundParts DEF Ahead
<1>4. QED
  BY <1>2, <1>3

LEMMA AnswerAhead ==
    ASSUME IInv, NEW r \in Request, Way(r), TakeResult(r) \/ StoreTransformedTile(r)
    PROVE  Ahead(r)
<1>1. \/ pc[r] \in {"result", "transform"} /\ pc'[r] = "done"
      \/ pc[r] = "result" /\ pc'[r] = "transform"
  BY DEF TakeResult, StoreTransformedTile, Finish, Goto, IInv, TypeOK
<1>2. CASE pc[r] = "result" /\ pc'[r] = "transform"
  BY <1>2 DEF StepsLeft, Tiling, Ahead, Way
<1>3. QED
  BY <1>1, <1>2, NothingLeft

LEMMA StepAhead ==
    ASSUME IInv, NEW r \in Request, Way(r), Step(r)
    PROVE  Ahead(r)
BY LookupFrameAhead, AssignSourceAhead, SliceTileAhead, SearchAhead, CheckParentAhead,
   CopySourceAhead, AnswerAhead DEF Step

\* What a request's headway depends on is its own.
LEMMA OthersWait ==
    ASSUME IInv, NEW r \in Request, NEW p \in Request, p # r, GetTile(p) \/ Step(p)
    PROVE  /\ pc'[r] = pc[r] /\ stack'[r] = stack[r] /\ target'[r] = target[r]
           /\ drilling'[r] = drilling[r] /\ at'[r] = at[r]
<1>1. target' = target
  BY DEF Step, GetTile, LookupFrame, StoreRawTile, AssignSource, SliceTile, FindTarget, Climb,
         CheckParent, CopySource, TakeResult, StoreTransformedTile
<1>2. pc'[r] = pc[r]
  BY DEF Step, GetTile, LookupFrame, StoreRawTile, AssignSource, SliceTile, FindTarget, Climb,
         CheckParent, CopySource, TakeResult, StoreTransformedTile, Resume, Finish, Goto,
         IInv, TypeOK
<1>3. stack'[r] = stack[r]
  BY DEF Step, GetTile, LookupFrame, StoreRawTile, AssignSource, SliceTile, FindTarget, Climb,
         CheckParent, CopySource, TakeResult, StoreTransformedTile, Resume, IInv, TypeOK
<1>4. drilling'[r] = drilling[r]
  BY DEF Step, GetTile, LookupFrame, StoreRawTile, AssignSource, SliceTile, FindTarget, Climb,
         CheckParent, CopySource, TakeResult, StoreTransformedTile, IInv, TypeOK
<1>5. at'[r] = at[r]
  BY DEF Step, GetTile, LookupFrame, StoreRawTile, AssignSource, SliceTile, FindTarget, Climb,
         CheckParent, CopySource, TakeResult, StoreTransformedTile, IInv, TypeOK
<1>6. QED
  BY <1>1, <1>2, <1>3, <1>4, <1>5

LEMMA SameBound ==
    ASSUME NEW r, pc'[r] = pc[r], stack'[r] = stack[r], target'[r] = target[r],
           drilling'[r] = drilling[r], at'[r] = at[r]
    PROVE  StepsLeft(r)' = StepsLeft(r) /\ (Way(r) => Way(r)')
BY DEF StepsLeft, Way, Tiling

LEMMA BoundIsANumber == ASSUME IInv, NEW r \in Request PROVE StepsLeft(r) \in Nat
<1>1. PICK n \in Nat : n = TilesLeft(stack[r], target[r])
  BY BoundParts
<1>2. PICK m \in Nat, k \in Nat, l \in Nat :
        m = MaxZoom /\ k = Len(target[r]) /\ l = Len(at[r])
  BY BoundParts
<1>3. drilling[r] \in BOOLEAN
  BY DEF IInv, TypeOK
<1>4. CASE pc[r] \in Tiling /\ drilling[r]
  <2>1. /\ pc[r] = "lookup" => StepsLeft(r) = 4 * n + 3
        /\ pc[r] = "store" => StepsLeft(r) = 4 * n + 2
        /\ pc[r] = "assign" => StepsLeft(r) = 4 * n + 1
        /\ pc[r] = "slice" => StepsLeft(r) = 4 * n + 0
    BY <1>1, <1>4 DEF StepsLeft, Tiling
  <2>2. QED
    BY <1>4, <2>1 DEF Tiling
<1>5. CASE pc[r] \in Tiling /\ ~drilling[r]
  <2> DEFINE find == 4 * (1 + 4 * m) + 3 + 4 + k
  <2>1. /\ pc[r] = "lookup" => StepsLeft(r) = find + 3
        /\ pc[r] = "store" => StepsLeft(r) = find + 2
        /\ pc[r] = "assign" => StepsLeft(r) = find + 1
        /\ pc[r] = "slice" => StepsLeft(r) = find + 0
    BY <1>2, <1>5 DEF StepsLeft, Tiling
  <2>2. find \in Nat
    OBVIOUS
  <2> HIDE DEF find
  <2>3. QED
    BY <1>5, <2>1, <2>2 DEF Tiling
<1>6. CASE pc[r] \in {"find", "climb", "check", "copy"}
  <2> DEFINE drill == 4 * (1 + 4 * m) + 3
  <2>1. pc[r] = "find" => StepsLeft(r) = drill + 4 + k
    BY <1>2 DEF StepsLeft, Tiling
  <2>2. pc[r] = "climb" => StepsLeft(r) = drill + 3 + l
    BY <1>2 DEF StepsLeft, Tiling
  <2>3. pc[r] \in {"check", "copy"} => StepsLeft(r) \in {drill + 2, drill + 1}
    BY <1>2 DEF StepsLeft, Tiling
  <2>4. drill \in Nat
    OBVIOUS
  <2> HIDE DEF drill
  <2>5. QED
    BY <1>6, <2>1, <2>2, <2>3, <2>4
<1>7. CASE pc[r] \notin Tiling \cup {"find", "climb", "check", "copy"}
  <2>1. StepsLeft(r) \in 0..2
    BY <1>7 DEF StepsLeft, Tiling
  <2>2. QED
    BY <2>1
<1>8. QED
  BY <1>3, <1>4, <1>5, <1>6, <1>7

\* A request that begins has the root alone on its stack.
LEMMA GetTileWay ==
    ASSUME IInv, NEW r \in Request, GetTile(r)
    PROVE  Way(r)'
<1>1. CASE transformed[target[r]] # Null
  BY <1>1 DEF GetTile, Finish, Goto, IInv, TypeOK, Way, Tiling
<1>2. CASE transformed[target[r]] = Null
  <2>1. PICK s : s = <<[tile |-> Root, features |-> Content[Root]]>>
    OBVIOUS
  <2>2. stack'[r] = s /\ target'[r] = target[r] /\ pc'[r] = "lookup"
    BY <1>2, <2>1 DEF GetTile, Goto, IInv, TypeOK
  <2>3. Len(s) = 1
    BY <2>1
  <2>4. OneWay(s, target[r])
    BY <2>3 DEF OneWay, OnTheWay
  <2>5. QED
    BY <2>2, <2>4 DEF Way
<1>3. QED
  BY <1>1, <1>2

\* One frame at most is on the way.
LEMMA OneFrameOnTheWay == Spec => []WayOK
<1>1. Init => WayOK
  BY DEF Init, WayOK, Way, Tiling
<1>2. IInv /\ WayOK /\ [Next]_vars => WayOK'
  <2> SUFFICES ASSUME IInv, WayOK, [Next]_vars, NEW r \in Request PROVE Way(r)'
    BY DEF WayOK
  <2>1. Way(r)
    BY DEF WayOK
  <2>2. CASE GetTile(r) \/ Step(r)
    BY <2>1, <2>2, GetTileWay, StepAhead DEF Ahead
  <2>3. CASE \E p \in Request \ {r} : GetTile(p) \/ Step(p)
    BY <2>1, <2>3, OthersWait, SameBound
  <2>4. CASE UNCHANGED vars
    BY <2>1, <2>4, SameBound DEF vars
  <2>5. QED
    BY <2>2, <2>3, <2>4 DEF Next, Terminating
<1>3. QED
  BY <1>1, <1>2, InductiveInvariant, PTL DEF Spec

\* Every step of a request brings it closer to its answer and no other
\* request sets it back: the two loops of Generator.cs:85 and 134 end after a
\* number of turns that the levels of the pyramid bound, however requests
\* race for the tiles.
THEOREM RequestsMakeHeadway == Spec => HeadwayIsMade
<1>1. ASSUME IInv, WayOK, [Next]_vars, NEW r \in Request, pc[r] # "idle"
      PROVE  /\ StepsLeft(r)' \in 0..StepsLeft(r)
             /\ Step(r) => StepsLeft(r)' # StepsLeft(r)
  <2>1. StepsLeft(r) \in Nat
    BY <1>1, BoundIsANumber
  <2>2. CASE Step(r)
    <3>1. Ahead(r)
      BY <1>1, <2>2, StepAhead DEF WayOK
    <3>2. QED
      BY <2>1, <3>1 DEF Ahead
  <2>3. CASE ~Step(r)
    <3>1. StepsLeft(r)' = StepsLeft(r)
      <4>1. ~GetTile(r)
        BY <1>1 DEF GetTile
      <4>2. CASE \E p \in Request \ {r} : GetTile(p) \/ Step(p)
        BY <1>1, <4>2, OthersWait, SameBound
      <4>3. CASE UNCHANGED vars
        BY <4>3, SameBound DEF vars
      <4>4. QED
        BY <1>1, <2>3, <4>1, <4>2, <4>3 DEF Next, Terminating
    <3>2. QED
      BY <2>1, <2>3, <3>1
  <2>4. QED
    BY <2>2, <2>3
<1>2. IInv /\ WayOK /\ [Next]_vars =>
         [\A r \in Request : pc[r] # "idle" =>
             /\ StepsLeft(r)' \in 0..StepsLeft(r)
             /\ Step(r) => StepsLeft(r)' # StepsLeft(r)]_vars
  BY <1>1
<1>3. QED
  BY <1>2, InductiveInvariant, OneFrameOnTheWay, PTL DEF Spec, HeadwayIsMade
=============================================================================
