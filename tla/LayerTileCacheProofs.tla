------------------------ MODULE LayerTileCacheProofs ------------------------
(***************************************************************************)
(* The caches are a map from tiles wherever an id leaves room for the      *)
(* square of a zoom's side: then no two tiles have the same id.  With 27   *)
(* bits above the zoom that is every zoom up to 13; at 14 two tiles of a  *)
(* column share an id (MCDeepTile in MCLayerTileCache).                    *)
(***************************************************************************)
EXTENDS LayerTileCache, TLAPS

\* Every row and column of every zoom in use fits an id.
Fits == \A z \in Zoom : Side[z] * Side[z] <= Word

\* A row and a column can be read off n * y + x.
LEMMA RowAndColumn ==
    ASSUME NEW n \in Nat \ {0},
           NEW x \in 0..(n - 1), NEW u \in 0..(n - 1), NEW y \in Nat, NEW v \in Nat,
           n * y + x = n * v + u
    PROVE  x = u /\ y = v
<1>1. ASSUME NEW a \in Nat, NEW b \in Nat, NEW i \in 0..(n - 1), NEW j \in 0..(n - 1), a < b
      PROVE  n * a + i < n * b + j
  <2>1. n * (b - a) >= n
    <3>1. PICK k \in Nat : b - a = k + 1
      <4>1. b - a - 1 \in Nat /\ b - a = (b - a - 1) + 1
        BY <1>1
      <4>2. QED
        BY <4>1
    <3>2. n * (k + 1) = n * k + n /\ n * k \in Nat
      OBVIOUS
    <3>3. QED
      BY <3>1, <3>2
  <2>2. n * b = n * a + n * (b - a) /\ n * a \in Nat /\ n * b \in Nat
    BY <1>1
  <2>3. QED
    BY <2>1, <2>2
<1>2. ~(y < v) /\ ~(v < y)
  BY <1>1
<1>3. y = v
  BY <1>2
<1>4. QED
  BY <1>3

\* Where they fit, different tiles have different ids.
LEMMA IdsDiffer ==
    ASSUME Fits, NEW t \in Tile, NEW u \in Tile, ToId(t) = ToId(u)
    PROVE  t = u
<1> DEFINE n == Side[t[1]]
<1>1. /\ t \in Zoom \X Nat \X Nat /\ u \in Zoom \X Nat \X Nat
      /\ t[1] \in Zoom /\ u[1] \in Zoom
      /\ t[2] \in Nat /\ t[3] \in Nat /\ u[2] \in Nat /\ u[3] \in Nat
      /\ t[2] < Side[t[1]] /\ t[3] < Side[t[1]] /\ u[2] < Side[u[1]] /\ u[3] < Side[u[1]]
  BY CacheAssumption
<1>2. /\ t[1] = u[1]
      /\ (n * t[3] + t[2]) % Word = (n * u[3] + u[2]) % Word
  BY DEF ToId
<1>3. n \in Nat \ {0} /\ Word \in Nat \ {0} /\ n * n <= Word
  BY <1>1, CacheAssumption DEF Fits
<1>4. ASSUME NEW m \in Nat \ {0}, NEW x \in Nat, NEW y \in Nat, x < m, y < m
      PROVE  m * y + x \in 0..(m * m - 1)
  <2>1. PICK k \in Nat : m = y + 1 + k
    <3>1. m - y - 1 \in Nat /\ m = y + 1 + (m - y - 1)
      BY <1>4
    <3>2. QED
      BY <3>1
  <2>2. m * (y + 1 + k) = m * y + m + m * k /\ m * k \in Nat /\ m * y \in Nat
    OBVIOUS
  <2>3. QED
    BY <1>4, <2>1, <2>2
<1>5. /\ n * t[3] + t[2] \in 0..(Word - 1)
      /\ n * u[3] + u[2] \in 0..(Word - 1)
  <2>1. n * n \in Nat
    BY <1>3
  <2>2. /\ n * t[3] + t[2] \in 0..(n * n - 1)
        /\ n * u[3] + u[2] \in 0..(n * n - 1)
    BY <1>1, <1>2, <1>3, <1>4
  <2>3. QED
    BY <1>3, <2>1, <2>2
<1>6. ASSUME NEW i \in 0..(Word - 1) PROVE i % Word = i
  BY <1>3
<1>7. n * t[3] + t[2] = n * u[3] + u[2]
  BY <1>2, <1>5, <1>6
<1>8. t[2] = u[2] /\ t[3] = u[3]
  <2>1. t[2] \in 0..(n - 1) /\ u[2] \in 0..(n - 1)
    BY <1>1, <1>2, <1>3
  <2>2. t[3] \in Nat /\ u[3] \in Nat /\ n \in Nat \ {0} /\ n * t[3] + t[2] = n * u[3] + u[2]
    BY <1>1, <1>3, <1>7
  <2> HIDE DEF n
  <2>3. PICK x \in 0..(n - 1), w \in 0..(n - 1) : x = t[2] /\ w = u[2]
    BY <2>1
  <2>4. PICK y \in Nat, v \in Nat : y = t[3] /\ v = u[3]
    BY <2>2
  <2>5. n * y + x = n * v + w
    BY <2>2, <2>3, <2>4
  <2>6. x = w /\ y = v
    BY <2>2, <2>5, RowAndColumn
  <2>7. QED
    BY <2>3, <2>4, <2>6
<1>9. QED
  BY <1>1, <1>2, <1>8

-----------------------------------------------------------------------------
(***************************************************************************)
(* The caches keep their type, and a call that uses one finds it: a cache  *)
(* once created is never taken away.                                       *)
(***************************************************************************)

IInv == TypeOK /\ CacheIsFound

LEMMA InitInv == Init => IInv
BY DEF Init, IInv, TypeOK, CacheIsFound

LEMMA EmptyIsACache == Empty \in [Id -> {Null} \cup Value] /\ Empty # Null
BY NullIsNoCache DEF Empty

LEMMA StepInv == IInv /\ [Next]_vars => IInv'
<1> SUFFICES ASSUME IInv, [Next]_vars PROVE IInv'
  OBVIOUS
<1>1. ASSUME NEW p \in Thread, NEW l \in Layer, NEW t \in Tile,
             NEW v \in {Null} \cup Value, Begin(p, l, t, v)
      PROVE  IInv'
  BY <1>1 DEF IInv, TypeOK, CacheIsFound, Begin
<1>2. ASSUME NEW p \in Thread, Create(p) PROVE IInv'
  <2>1. \A l \in Layer : caches[l] # Null => caches'[l] # Null
    BY <1>2 DEF Create, IInv, TypeOK
  <2>2. TypeOK'
    BY <1>2, EmptyIsACache DEF Create, IInv, TypeOK
  <2>3. caches'[layer[p]] # Null
    BY <1>2, EmptyIsACache DEF Create, IInv, TypeOK
  <2>4. CacheIsFound'
    BY <1>2, <2>1, <2>3 DEF Create, IInv, TypeOK, CacheIsFound
  <2>5. QED
    BY <2>2, <2>4 DEF IInv
<1>3. ASSUME NEW p \in Thread, Use(p) PROVE IInv'
  <2>1. ToId(tile[p]) \in Id /\ layer[p] \in Layer /\ value[p] \in {Null} \cup Value
    BY DEF IInv, TypeOK, Id
  <2>2. caches[layer[p]] \in [Id -> {Null} \cup Value]
    BY <1>3, <2>1 DEF Use, IInv, TypeOK
  <2> DEFINE i == ToId(tile[p])
  <2> HIDE DEF i
  <2>3. i \in Id
    BY <2>1 DEF i
  <2>4. [caches[layer[p]] EXCEPT ![i] = value[p]] \in [Id -> {Null} \cup Value]
    BY <2>1, <2>2, <2>3
  <2>5. CASE value[p] = Null
    <3>1. reply' = [reply EXCEPT ![p] = caches[layer[p]][i]] /\ caches' = caches
      BY <1>3, <2>5 DEF Use, i
    <3>2. QED
      BY <1>3, <2>2, <2>3, <3>1 DEF Use, IInv, TypeOK, CacheIsFound
  <2>6. CASE value[p] # Null
    <3>1. caches' = [caches EXCEPT ![layer[p]] = [caches[layer[p]] EXCEPT ![i] = value[p]]]
      BY <1>3, <2>6, <2>1 DEF Use, i, IInv, TypeOK
    <3>2. reply' = reply
      BY <1>3, <2>6 DEF Use
    <3>3. TypeOK'
      BY <1>3, <2>1, <2>4, <3>1, <3>2 DEF Use, IInv, TypeOK
    <3>4. \A l \in Layer : caches[l] # Null => caches'[l] # Null
      BY <2>1, <2>4, <3>1, NullIsNoCache DEF IInv, TypeOK
    <3>5. CacheIsFound'
      BY <1>3, <3>4 DEF Use, IInv, TypeOK, CacheIsFound
    <3>6. QED
      BY <3>3, <3>5 DEF IInv
  <2>7. QED
    BY <2>5, <2>6
<1>4. CASE UNCHANGED vars
  BY <1>4 DEF IInv, TypeOK, CacheIsFound, vars
<1>5. QED
  BY <1>1, <1>2, <1>3, <1>4 DEF Next

\* Both parts of the invariant hold in every reachable state.
THEOREM CacheInvariant == Spec => []IInv
<1>1. QED
  BY InitInv, StepInv, PTL DEF Spec

\* The variables of LayerTileCacheAccessor and of its callers keep their types.
THEOREM TypeCorrect == Spec => []TypeOK
<1>1. IInv => TypeOK
  BY DEF IInv
<1>2. QED
  BY <1>1, CacheInvariant, PTL

\* None of the accessor's four methods reaches its final throw
\* (LayerTileCacheAccessor.cs:54, 73, 93, 113): a call that has seen or made
\* its layer's cache finds it, for any number of threads and layers.
THEOREM CachesAreFound == Spec => []CacheIsFound
<1>1. IInv => CacheIsFound
  BY DEF IInv
<1>2. QED
  BY <1>1, CacheInvariant, PTL

-----------------------------------------------------------------------------
(***************************************************************************)
(* The caches are a map from tiles.                                        *)
(***************************************************************************)

Stored == [l \in Layer |-> [t \in Tile |->
              IF caches[l] = Null THEN Null ELSE caches[l][ToId(t)]]]

LEMMA InitMap == Init => Map!Init
BY DEF Init, Map!Init

\* A read answers what the map holds; a store changes the map at its tile
\* alone, because no other tile of the layer has its id; and neither the
\* test for a cache nor its creation changes the map.
LEMMA StepMap == Fits /\ IInv /\ [Next]_vars => [Map!Next]_Map!vars
<1> SUFFICES ASSUME Fits, IInv, [Next]_vars PROVE [Map!Next]_Map!vars
  OBVIOUS
<1>1. ASSUME NEW p \in Thread, NEW l \in Layer, NEW t \in Tile,
             NEW v \in {Null} \cup Value, Begin(p, l, t, v)
      PROVE  UNCHANGED Map!vars
  BY <1>1 DEF Begin, Map!vars
<1>2. ASSUME NEW p \in Thread, Create(p) PROVE UNCHANGED Map!vars
  <2>1. ASSUME NEW l \in Layer, NEW t \in Tile
        PROVE  Stored'[l][t] = Stored[l][t]
    <3>1. ToId(t) \in Id
      BY DEF Id
    <3>2. Empty[ToId(t)] = Null
      BY <3>1 DEF Empty
    <3>3. caches'[l] = IF l = layer[p] /\ caches[l] = Null THEN Empty ELSE caches[l]
      BY <1>2 DEF Create, IInv, TypeOK
    <3>4. /\ Stored[l][t] = IF caches[l] = Null THEN Null ELSE caches[l][ToId(t)]
          /\ Stored'[l][t] = IF caches'[l] = Null THEN Null ELSE caches'[l][ToId(t)]
      BY DEF Stored, ToId
    <3>5. QED
      BY <3>2, <3>3, <3>4
  <2>2. Stored' = Stored
    BY <2>1 DEF Stored
  <2>3. reply' = reply
    BY <1>2 DEF Create
  <2>4. QED
    BY <2>2, <2>3 DEF Map!vars, Stored
<1>3. ASSUME NEW p \in Thread, Use(p) PROVE Map!Next
  <2>1. /\ tile[p] \in Tile /\ layer[p] \in Layer
        /\ caches[layer[p]] # Null /\ ToId(tile[p]) \in Id
    BY <1>3 DEF Use, IInv, TypeOK, Id
  <2>2. CASE value[p] = Null
    <3>1. caches' = caches /\ reply' = [reply EXCEPT ![p] = caches[layer[p]][ToId(tile[p])]]
      BY <1>3, <2>2 DEF Use
    <3>2. Stored[layer[p]][tile[p]] = caches[layer[p]][ToId(tile[p])]
      BY <2>1 DEF Stored
    <3>3. Stored' = Stored
      BY <3>1 DEF Stored
    <3>4. Map!Get(p, layer[p], tile[p])
      BY <3>1, <3>2, <3>3 DEF Map!Get, Stored
    <3>5. QED
      BY <2>1, <3>4 DEF Map!Next
  <2>3. CASE value[p] # Null
    <3>1. /\ caches' = [caches EXCEPT ![layer[p]][ToId(tile[p])] = value[p]]
          /\ reply' = reply /\ value[p] \in Value
      BY <1>3, <2>3 DEF Use, IInv, TypeOK
    <3> DEFINE new == [Stored EXCEPT ![layer[p]][tile[p]] = value[p]]
    <3>2. caches[layer[p]] \in [Id -> {Null} \cup Value]
      BY <2>1 DEF IInv, TypeOK
    <3>3. caches'[layer[p]] = [caches[layer[p]] EXCEPT ![ToId(tile[p])] = value[p]]
      BY <2>1, <3>1 DEF IInv, TypeOK
    <3>4. caches'[layer[p]] # Null
      <4>1. caches'[layer[p]] \in [Id -> {Null} \cup Value]
        BY <2>1, <3>1, <3>2, <3>3
      <4>2. QED
        BY <4>1, NullIsNoCache
    <3>5. ASSUME NEW l \in Layer, NEW t \in Tile
          PROVE  Stored'[l][t] = new[l][t]
      <4>1. /\ Stored[l][t] = IF caches[l] = Null THEN Null ELSE caches[l][ToId(t)]
            /\ Stored'[l][t] = IF caches'[l] = Null THEN Null ELSE caches'[l][ToId(t)]
        BY DEF Stored, ToId
      <4>2. new[l][t] = IF l = layer[p] /\ t = tile[p] THEN value[p] ELSE Stored[l][t]
        BY <2>1 DEF Stored
      <4>3. CASE l # layer[p]
        <5>1. caches'[l] = caches[l]
          BY <3>1, <4>3 DEF IInv, TypeOK
        <5>2. QED
          BY <4>1, <4>2, <4>3, <5>1
      <4>4. CASE l = layer[p] /\ t = tile[p]
        <5>1. caches'[l][ToId(t)] = value[p]
          BY <2>1, <3>2, <3>3, <4>4
        <5>2. QED
          BY <3>4, <4>1, <4>2, <4>4, <5>1
      <4>5. CASE l = layer[p] /\ t # tile[p]
        <5>1. ToId(t) # ToId(tile[p])
          BY <2>1, <4>5, IdsDiffer
        <5>2. ToId(t) \in Id
          BY DEF Id
        <5>3. caches'[l][ToId(t)] = caches[l][ToId(t)]
          BY <3>2, <3>3, <4>5, <5>1, <5>2
        <5>4. QED
          BY <2>1, <3>4, <4>1, <4>2, <4>5, <5>3
      <4>6. QED
        BY <4>3, <4>4, <4>5
    <3>6. Stored' = new
      <4>1. Stored' = [l \in Layer |-> [t \in Tile |-> Stored'[l][t]]]
        BY DEF Stored
      <4>2. new = [l \in Layer |-> [t \in Tile |-> new[l][t]]]
        BY DEF Stored
      <4> HIDE DEF new
      <4>3. QED
        BY <3>5, <4>1, <4>2
    <3>7. Map!Store(layer[p], tile[p], value[p])
      BY <3>1, <3>6 DEF Map!Store, Stored
    <3>8. \E l \in Layer, t \in Tile : \E v \in Value : Map!Store(l, t, v)
      <4>1. PICK l \in Layer : l = layer[p]
        BY <2>1
      <4>2. PICK t \in Tile : t = tile[p]
        BY <2>1
      <4>3. PICK v \in Value : v = value[p]
        BY <3>1
      <4>4. Map!Store(l, t, v)
        BY <3>7, <4>1, <4>2, <4>3 DEF Map!Store
      <4>5. QED
        BY <4>4
    <3>9. QED
      BY <3>8 DEF Map!Next
  <2>4. QED
    BY <2>2, <2>3
<1>4. CASE UNCHANGED vars
  BY <1>4 DEF vars, Map!vars
<1>5. QED
  BY <1>1, <1>2, <1>3, <1>4 DEF Next

\* While ids have room for every row and column (at 32 bits: up to zoom 13),
\* caches created on demand by racing threads and keyed by ToId are one map
\* from tiles to what was last stored for them.
THEOREM CachesAreATileMap == ASSUME Fits PROVE Spec => ImplementsTileMap
<1>1. Init => Map!Init
  BY InitMap
<1>2. IInv /\ [Next]_vars => [Map!Next]_Map!vars
  BY StepMap
<1>3. QED
  BY <1>1, <1>2, CacheInvariant, PTL DEF Spec, ImplementsTileMap, Map!Spec
=============================================================================
