--------------------------- MODULE LayerTileCache ---------------------------
(***************************************************************************)
(* LayerTileCacheAccessor: the caches of a kind of tile, one per layer,    *)
(* made when they are first needed by whichever threads come first, and    *)
(* keyed by the integer Identifier.ToId makes of a tile's address.  Its    *)
(* four methods are the same code twice, for raw and transformed tiles.    *)
(*                                                                         *)
(* ToId computes ((1 << zoom) * y + x) * 32 + zoom in a 32-bit int.  While *)
(* zoom is below 32 its low five bits are zoom and the others are          *)
(* (1 << zoom) * y + x, cut to the Word = 2^27 values they can hold.       *)
(***************************************************************************)
EXTENDS Integers

CONSTANTS Thread,   \* the threads of the run
          Layer,    \* the layers
          Zoom,     \* the zoom levels in use
          Side,     \* Side[z]: 1 << z
          Tile,     \* the addresses <<z, x, y>> in use
          Word,     \* how many values the bits above the zoom can hold
          Value,    \* tile objects
          Null      \* null; no cache

ASSUME CacheAssumption ==
    /\ Zoom \subseteq 0..31
    /\ Side \in [Zoom -> Nat \ {0}]
    /\ Word \in Nat \ {0}
    /\ Tile \subseteq Zoom \X Nat \X Nat
    /\ \A t \in Tile : t[2] < Side[t[1]] /\ t[3] < Side[t[1]]
    /\ Null \notin Value

VARIABLES caches,   \* caches[l][id]: the layer's cache, or Null without one
          pc,       \* where each thread stands in its call
          layer, tile, value,  \* its arguments; a value of Null is a read
          reply     \* what its last read answered

vars == <<caches, pc, layer, tile, value, reply>>

-----------------------------------------------------------------------------
\* mutant: the shift is left out
ToIdUnshifted(t) == <<(t[1] * t[3] + t[2]) % Word, t[1]>>

\* Identifier.ToId, its two fields side by side.
ToId(t) == <<(Side[t[1]] * t[3] + t[2]) % Word, t[1]>>

Id == {ToId(t) : t \in Tile}

Empty == [i \in Id |-> Null]

ASSUME NullIsNoCache == Null \notin [Id -> {Null} \cup Value]

TypeOK ==
    /\ caches \in [Layer -> {Null} \cup [Id -> {Null} \cup Value]]
    /\ pc \in [Thread -> {"idle", "create", "use"}]
    /\ layer \in [Thread -> Layer]
    /\ tile \in [Thread -> Tile]
    /\ value \in [Thread -> {Null} \cup Value]
    /\ reply \in [Thread -> {Null} \cup Value]

Init ==
    /\ caches = [l \in Layer |-> Null]
    /\ pc = [p \in Thread |-> "idle"]
    /\ layer \in [Thread -> Layer]
    /\ tile \in [Thread -> Tile]
    /\ value = [p \in Thread |-> Null]
    /\ reply = [p \in Thread |-> Null]

\* mutant: the cache is not looked for first
BeginUnchecked(p, l, t, v) ==
    /\ pc[p] = "idle"
    /\ layer' = [layer EXCEPT ![p] = l]
    /\ tile' = [tile EXCEPT ![p] = t]
    /\ value' = [value EXCEPT ![p] = v]
    /\ pc' = [pc EXCEPT ![p] = "use"]
    /\ UNCHANGED <<caches, reply>>

\* A call begins with ContainsKey: a read of v = Null, or a store of v.
Begin(p, l, t, v) ==
    /\ pc[p] = "idle"
    /\ layer' = [layer EXCEPT ![p] = l]
    /\ tile' = [tile EXCEPT ![p] = t]
    /\ value' = [value EXCEPT ![p] = v]
    /\ pc' = [pc EXCEPT ![p] = IF caches[l] = Null THEN "create" ELSE "use"]
    /\ UNCHANGED <<caches, reply>>

\* mutant: the new cache replaces one that came in between
CreateReplaces(p) ==
    /\ pc[p] = "create"
    /\ caches' = [caches EXCEPT ![layer[p]] = Empty]
    /\ pc' = [pc EXCEPT ![p] = "use"]
    /\ UNCHANGED <<layer, tile, value, reply>>

\* Under the lock, TryAdd a new cache: one that is there stays.
Create(p) ==
    /\ pc[p] = "create"
    /\ caches' = [caches EXCEPT ![layer[p]] = IF @ = Null THEN Empty ELSE @]
    /\ pc' = [pc EXCEPT ![p] = "use"]
    /\ UNCHANGED <<layer, tile, value, reply>>

\* TryGetValue, then GetBy or StoreBy on the cache found.  (That it might
\* not be found, and the call throw, is what CacheIsFound denies.)
Use(p) ==
    /\ pc[p] = "use"
    /\ caches[layer[p]] # Null
    /\ \/ /\ value[p] = Null
          /\ reply' = [reply EXCEPT ![p] = caches[layer[p]][ToId(tile[p])]]
          /\ UNCHANGED caches
       \/ /\ value[p] # Null
          /\ caches' = [caches EXCEPT ![layer[p]][ToId(tile[p])] = value[p]]
          /\ UNCHANGED reply
    /\ pc' = [pc EXCEPT ![p] = "idle"]
    /\ UNCHANGED <<layer, tile, value>>

Next ==
    \E p \in Thread :
        \/ \E l \in Layer, t \in Tile, v \in {Null} \cup Value : Begin(p, l, t, v)
        \/ Create(p)
        \/ Use(p)

Spec == Init /\ [][Next]_vars
-----------------------------------------------------------------------------
(***************************************************************************)
(* Properties.                                                             *)
(***************************************************************************)

\* A call that has made sure of its cache finds it: the exception the four
\* methods end with (LayerTileCacheAccessor.cs:54, 73, 93, 113) is never
\* thrown, however the threads that create caches interleave.
CacheIsFound == \A p \in Thread : pc[p] = "use" => caches[layer[p]] # Null

\* The caches as a map from tiles.
Map == INSTANCE TileMap
          WITH stored <- [l \in Layer |-> [t \in Tile |->
                             IF caches[l] = Null THEN Null ELSE caches[l][ToId(t)]]]

\* Keyed by ToId and created on demand, the caches are one map from tiles to
\* what was stored for them: a store is never lost to a cache created at the
\* same time, and never seen at another tile's address.
ImplementsTileMap == Map!Spec
=============================================================================
