--------------------------- MODULE TileViewerProofs ---------------------------
(***************************************************************************)
(* The tile index and the page that looks at it, for any file, any options *)
(* of the index, any number of zooms, drops and clicks.                    *)
(*                                                                         *)
(* What is proved holds between two events, but splitTile works in turns:  *)
(* the invariant says what its stack is for while it runs.  The index is a *)
(* tree that keeps features at its leaves only (Tree); where they were     *)
(* dropped the four quarters are there or wait on the stack (Held); and a  *)
(* whole square stays where it is, so that what can be shown once can be   *)
(* shown ever after (Shows).                                               *)
(***************************************************************************)
EXTENDS TileViewer, FiniteSetTheorems, WellFoundedInduction, SequenceTheorems, TLAPS

-----------------------------------------------------------------------------
(* Arithmetic.  The induction theorems of the library take a predicate,    *)
(* which the provers cannot instantiate: the one below is over a set of    *)
(* numbers, and follows from the least element of its complement.          *)

\* A set of numbers that is not empty has a least one.
LEMMA LeastNumber == ASSUME NEW T \in SUBSET Nat, T # {} PROVE \E x \in T : \A y \in T : x <= y
<1>1. IsWellFoundedOn({ss \in Nat \X Nat : ss[1] < ss[2]}, Nat)
  BY NatLessThanWellFounded DEF OpToRel
<1>2. PICK R : R = {ss \in Nat \X Nat : ss[1] < ss[2]}
  OBVIOUS
<1>3. PICK x \in T : \A y \in T : ~(<<y, x>> \in R)
  BY <1>1, <1>2, WFMin
<1>4. ASSUME NEW y \in T PROVE x <= y
  <2>1. x \in Nat /\ y \in Nat /\ ~(<<y, x>> \in R)
    BY <1>3
  <2>2. ~(y < x)
    BY <1>2, <2>1
  <2>3. QED
    BY <2>1, <2>2
<1>5. QED
  BY <1>4

\* Induction, for a set of numbers instead of a predicate.
LEMMA Induction ==
  ASSUME NEW S, 0 \in S, \A n \in Nat : n \in S => n + 1 \in S
  PROVE  \A n \in Nat : n \in S
<1> SUFFICES ASSUME Nat \ S # {} PROVE FALSE
  OBVIOUS
<1>1. PICK x \in Nat \ S : \A y \in Nat \ S : x <= y
  BY LeastNumber
<1>2. x # 0 /\ x \in Nat
  OBVIOUS
<1>3. x - 1 \in Nat /\ x - 1 < x /\ x = (x-1) + 1
  BY <1>2
<1>4. x - 1 \in S
  BY <1>1, <1>3
<1>5. QED
  BY <1>3, <1>4

\* A table of the powers up to n.
Table(g, n) == /\ g \in [0..n -> Nat \ {0}]
               /\ g[0] = 1
               /\ \A i \in 1..n : g[i] = 2 * g[i - 1]

\* There is a table of any length.
LEMMA TableExists == ASSUME NEW n \in Nat PROVE \E g : Table(g, n)
<1> DEFINE S == {k \in Nat : \E g : Table(g, k)}
<1>1. 0 \in S
  <2>1. Table([i \in 0..0 |-> 1], 0)
    BY DEF Table
  <2>2. QED
    BY <2>1
<1>2. ASSUME NEW k \in Nat, k \in S PROVE k + 1 \in S
  <2>1. PICK g : Table(g, k)
    BY <1>2
  <2>2. PICK h : h = [i \in 0..(k + 1) |-> IF i = k + 1 THEN 2 * g[k] ELSE g[i]]
    OBVIOUS
  <2>3. g[k] \in Nat \ {0}
    BY <2>1 DEF Table
  <2>4. h \in [0..(k + 1) -> Nat \ {0}]
    <3>1. ASSUME NEW i \in 0..(k + 1) PROVE h[i] \in Nat \ {0}
      BY <2>1, <2>2, <2>3 DEF Table
    <3>2. QED
      BY <2>2, <3>1
  <2>5. h[0] = 1
    BY <2>1, <2>2 DEF Table
  <2>6. ASSUME NEW i \in 1..(k + 1) PROVE h[i] = 2 * h[i - 1]
    <3>1. i - 1 \in 0..k /\ i - 1 \in 0..(k + 1) /\ i \in 0..(k + 1)
      OBVIOUS
    <3>2. h[i - 1] = g[i - 1]
      BY <2>2, <3>1
    <3>3. CASE i = k + 1
      BY <2>2, <3>1, <3>2, <3>3
    <3>4. CASE i # k + 1
      <4>1. i \in 1..k
        BY <3>4
      <4>2. QED
        BY <2>1, <2>2, <3>1, <3>2, <4>1 DEF Table
    <3>5. QED
      BY <3>3, <3>4
  <2>7. Table(h, k + 1)
    BY <2>4, <2>5, <2>6 DEF Table
  <2>8. QED
    BY <2>7
<1>3. n \in S
  <2> HIDE DEF S
  <2>1. QED
    BY <1>1, <1>2, Induction
<1>4. QED
  BY <1>3

\* A longer table begins as a shorter one does.
LEMMA TablesAgree ==
  ASSUME NEW m \in Nat, NEW n \in Nat, NEW g, NEW h, Table(g, m), Table(h, n), m <= n
  PROVE  \A k \in 0..m : g[k] = h[k]
<1> DEFINE S == {k \in Nat : k <= m => g[k] = h[k]}
<1>1. 0 \in S
  BY DEF Table
<1>2. ASSUME NEW k \in Nat, k \in S PROVE k + 1 \in S
  <2>1. CASE k + 1 <= m
    <3>1. k + 1 \in 1..m /\ k + 1 \in 1..n /\ (k + 1) - 1 = k /\ k <= m
      BY <2>1
    <3>2. g[k + 1] = 2 * g[k] /\ h[k + 1] = 2 * h[k]
      BY <3>1 DEF Table
    <3>3. QED
      BY <1>2, <3>1, <3>2
  <2>2. QED
    BY <2>1
<1>3. \A k \in Nat : k \in S
  <2> HIDE DEF S
  <2>1. QED
    BY <1>1, <1>2, Induction
<1>4. QED
  BY <1>3

\* z2 is what it says: it starts at 1 and doubles (geojson-vt-dev.js writes 1 << z).
LEMMA Powers ==
  /\ z2[0] = 1
  /\ \A n \in Nat : z2[n] \in Nat \ {0} /\ z2[n + 1] = 2 * z2[n]
<1> DEFINE Def(f) == f = [z \in Nat |-> IF z = 0 THEN 1 ELSE 2 * f[z - 1]]
<1>1. PICK f : f = [n \in Nat |-> (CHOOSE g : Table(g, n))[n]]
  OBVIOUS
<1>2. \A n \in Nat : Table(CHOOSE g : Table(g, n), n)
  BY TableExists
<1>3. ASSUME NEW n \in Nat, NEW g, Table(g, n), NEW k \in 0..n PROVE f[k] = g[k]
  <2>1. PICK h : h = CHOOSE hh : Table(hh, k)
    OBVIOUS
  <2>2. k \in Nat /\ k <= n /\ k \in 0..k
    OBVIOUS
  <2>3. Table(h, k) /\ f[k] = h[k]
    BY <1>1, <1>2, <2>1, <2>2
  <2>4. h[k] = g[k]
    BY <1>3, <2>2, <2>3, TablesAgree
  <2>5. QED
    BY <2>3, <2>4
<1>4. f[0] = 1 /\ \A n \in Nat : f[n] \in Nat \ {0} /\ f[n + 1] = 2 * f[n]
  <2>1. f[0] = 1
    <3>1. PICK g : Table(g, 0)
      BY TableExists
    <3>2. f[0] = g[0]
      BY <1>3, <3>1
    <3>3. QED
      BY <3>1, <3>2 DEF Table
  <2>2. ASSUME NEW n \in Nat PROVE f[n] \in Nat \ {0} /\ f[n + 1] = 2 * f[n]
    <3>1. PICK g : Table(g, n + 1)
      BY TableExists
    <3>2. n + 1 \in Nat /\ n \in 0..(n + 1) /\ n + 1 \in 0..(n + 1) /\ n + 1 \in 1..(n + 1) /\ (n + 1) - 1 = n
      OBVIOUS
    <3>3. f[n] = g[n] /\ f[n + 1] = g[n + 1]
      BY <1>3, <3>1, <3>2
    <3>4. g[n] \in Nat \ {0} /\ g[n + 1] = 2 * g[n]
      BY <3>1, <3>2 DEF Table
    <3>5. QED
      BY <3>3, <3>4
  <2>3. QED
    BY <2>1, <2>2
<1>5. Def(f)
  <2>1. ASSUME NEW z \in Nat PROVE f[z] = IF z = 0 THEN 1 ELSE 2 * f[z - 1]
    <3>1. CASE z = 0
      BY <1>4, <3>1
    <3>2. CASE z # 0
      <4>1. z - 1 \in Nat /\ (z - 1) + 1 = z
        BY <3>2
      <4>2. QED
        BY <1>4, <3>2, <4>1
    <3>3. QED
      BY <3>1, <3>2
  <2>2. f = [z \in Nat |-> f[z]]
    BY <1>1
  <2>3. QED
    BY <2>1, <2>2
<1>6. Def(z2)
  <2> HIDE DEF Def
  <2>1. z2 = CHOOSE g : Def(g)
    BY DEF z2, Def
  <2>2. QED
    BY <1>5, <2>1
<1>7. \A z \in Nat : z2[z] = IF z = 0 THEN 1 ELSE 2 * z2[z - 1]
  BY <1>6
<1>8. z2[0] = 1
  BY <1>7
<1>9. \A n \in Nat : z2[n + 1] = 2 * z2[n]
  <2>1. ASSUME NEW n \in Nat PROVE z2[n + 1] = 2 * z2[n]
    <3>1. n + 1 \in Nat /\ n + 1 # 0 /\ (n + 1) - 1 = n
      OBVIOUS
    <3>2. QED
      BY <1>7, <3>1
  <2>2. QED
    BY <2>1
<1>10. \A n \in Nat : z2[n] \in Nat \ {0}
  <2> DEFINE S == {n \in Nat : z2[n] \in Nat \ {0}}
  <2>1. 0 \in S
    BY <1>8
  <2>2. ASSUME NEW n \in Nat, n \in S PROVE n + 1 \in S
    BY <1>9, <2>2
  <2>3. \A n \in Nat : n \in S
    <3> HIDE DEF S
    <3>1. QED
      BY <2>1, <2>2, Induction
  <2>4. QED
    BY <2>3
<1>11. QED
  BY <1>8, <1>9, <1>10

\* To halve and to divide is to divide by the double.
LEMMA Halved ==
  ASSUME NEW x \in Nat, NEW m \in Nat \ {0}
  PROVE  /\ (x \div m) \div 2 = x \div (2 * m)
         /\ (x \div 2) \div m = x \div (2 * m)
OBVIOUS

\* A number smaller than the divisor is its own remainder.
LEMMA Small ==
  ASSUME NEW x \in Nat, NEW m \in Nat \ {0}, x < m
  PROVE  x % m = x /\ x \div m = 0
OBVIOUS

-----------------------------------------------------------------------------
(* The inductive invariant. *)

Cell == Nat \X Nat \X Nat

\* A tile of the world.
InWorld(v) == /\ v \in Cell
              /\ v[2] < z2[v[1]]
              /\ v[3] < z2[v[1]]

IsTile(t) == t = [features |-> t.features, numPoints |-> t.numPoints, source |-> t.source,
                  transformed |-> t.transformed, min |-> t.min, max |-> t.max]

\* The tiles above v are there, and their features were dropped.
Hangs(tiles, v) == \A z \in 0..(v[1] - 1) : /\ Above(v, z) \in DOMAIN tiles
                                            /\ tiles[Above(v, z)].source = Null

\* The index is a tree that keeps features at its leaves only.
Tree(tiles) == \A v \in DOMAIN tiles : v \in Cell /\ IsTile(tiles[v]) /\ Hangs(tiles, v)

Rooted(tiles) == tiles = <<>> \/ <<0, 0, 0>> \in DOMAIN tiles

\* Where features were dropped the quarters are there, or wait to be made.
Held(tiles, waiting) ==
  \A v \in DOMAIN tiles :
    /\ tiles[v].source = <<>> => tiles[v].features = <<>>
    /\ tiles[v].source = Null => \/ tiles[v].features = <<>>
                                 \/ Quarter(v) \subseteq DOMAIN tiles \cup waiting

\* A tile on the stack is a leaf to be: it is not there yet, or it is the tile at which
\* the drill begins.
ItemOK(tiles, item, target) ==
  /\ item.at \in Cell
  /\ item.features # Null
  /\ Hangs(tiles, item.at)
  /\ target # Null => item.at[1] <= target[1]
  /\ item.at \in DOMAIN tiles => /\ tiles[item.at].source = item.features
                                 /\ ~isClippedSquare(tiles[item.at], item.at)

StackOK(tiles, stack, target) ==
  /\ \A i \in DOMAIN stack : ItemOK(tiles, stack[i], target)
  /\ \A i, j \in DOMAIN stack : stack[i].at = stack[j].at => i = j

\* The tile at v is a whole square, and has its features.
IsSolid(tiles, v) == /\ v \in DOMAIN tiles
                     /\ tiles[v].source # Null
                     /\ isClippedSquare(tiles[v], v)

\* There is a picture for v: its own tile, or a whole square above it.
Shows(tiles, v) == \/ v \in DOMAIN tiles
                   \/ \E z \in 0..(v[1] - 1) : IsSolid(tiles, Above(v, z))

WorkOK(tiles, work) ==
  /\ work = [stack |-> work.stack, target |-> work.target, solid |-> work.solid]
  /\ \E S : work.stack \in Seq(S)
  /\ StackOK(tiles, work.stack, work.target)
  /\ Held(tiles, Waiting(work.stack))
  /\ work.target = Null => work.solid = Null
  /\ work.target # Null => /\ InWorld(work.target)
                           /\ <<0, 0, 0>> \in DOMAIN tiles
  /\ work.solid # Null => /\ work.solid \in 0..(work.target[1] - 1)
                          /\ IsSolid(tiles, Above(work.target, work.solid))

\* The picture drawn last is of the file shown now.
Matches == canvas # Null /\ canvas.file = file

\* The page is in the world, or above its top.
PlaceOK == \/ InWorld(at)
           \/ /\ at[1] \in Int /\ at[1] < 0 /\ at = <<at[1], 0, 0>>
              /\ call.event = "none" /\ at[1] = -1 => tileIndex = <<>>

CallOK ==
  call.event # "none" =>
    /\ call = [event |-> call.event, v |-> call.v, work |-> call.work]
    /\ call.event \in {"load", "click", "back"}
    /\ file # Null
    /\ WorkOK(tileIndex, call.work)
    /\ call.work.target # Null => call.work.target = call.v
    /\ call.work.target = Null =>
         /\ call.event = "load"
         /\ <<0, 0, 0>> \in DOMAIN tileIndex \cup Waiting(call.work.stack)
    /\ call.event = "load"  => call.v = at /\ ~Matches
    /\ call.event = "click" => InWorld(at) /\ call.v \in Quarter(at)
    /\ call.event = "back"  => /\ call.v = zoomOut(at)
                               /\ ~Matches
                               /\ drops # 1

\* Reads are of different drops, and the file shown is not being read any more.
ReadsOK == /\ reading \subseteq (1..drops) \X Files
           /\ file = Null \/ file \in (1..drops) \X Files
           /\ file \notin reading
           /\ canvas # Null => canvas.file \notin reading

\* With one file the page stays in the world.
OneFile ==
  /\ drops = 0 => /\ reading = {}
                  /\ file = Null
  /\ file = Null => /\ tileIndex = Null
                    /\ at = <<0, 0, 0>>
                    /\ ~button
                    /\ canvas = Null
                    /\ call.event = "none"
  /\ drops = 1 /\ file # Null => reading = {}
  /\ drops = 1 => \A q, r \in reading : q = r
  /\ drops = 1 /\ call.event = "load" => at = <<0, 0, 0>> /\ ~button
  /\ drops = 1 /\ call.event # "load" /\ file # Null /\ tileIndex # <<>> =>
       /\ InWorld(at)
       /\ Shows(tileIndex, at)
       /\ button => at[1] > 0

IInv == /\ drops \in Nat
        /\ button \in BOOLEAN
        /\ file # Null => Tree(tileIndex)
        /\ call.event = "none" /\ file # Null => Rooted(tileIndex) /\ Held(tileIndex, {})
        /\ PlaceOK
        /\ CallOK
        /\ ReadsOK
        /\ Matches => \/ at[1] < 0
                      \/ /\ InWorld(at)
                         /\ canvas.at = at
                         /\ Shows(tileIndex, at)
        /\ OneFile

-----------------------------------------------------------------------------
(* Addresses: the tiles above and below a tile. *)

\* Above gives the address of a tile at the zoom asked for.
LEMMA AboveIsCell ==
  ASSUME NEW v \in Cell, NEW k \in 0..v[1]
  PROVE  /\ Above(v, k) \in Cell
         /\ Above(v, k)[1] = k
<1>1. v[1] \in Nat /\ v[2] \in Nat /\ v[3] \in Nat /\ k \in Nat /\ v[1] - k \in Nat
  BY DEF Cell
<1>2. PICK m \in Nat \ {0} : m = z2[v[1] - k]
  BY <1>1, Powers
<1>3. v[2] \div m \in Nat /\ v[3] \div m \in Nat
  BY <1>1
<1>4. QED
  BY <1>1, <1>2, <1>3 DEF Above, Cell

\* At its own zoom a tile is above itself.
LEMMA AboveItself ==
  ASSUME NEW v \in Cell
  PROVE  Above(v, v[1]) = v
<1>1. v[1] - v[1] = 0 /\ v[2] \div 1 = v[2] /\ v[3] \div 1 = v[3] /\ v = <<v[1], v[2], v[3]>>
  BY DEF Cell
<1>2. z2[v[1] - v[1]] = 1
  BY <1>1, Powers
<1>3. QED
  BY <1>1, <1>2 DEF Above

\* Going up one zoom first changes nothing.
LEMMA AboveZoomOut ==
  ASSUME NEW v \in Cell, v[1] > 0
  PROVE  /\ zoomOut(v) \in Cell
         /\ zoomOut(v)[1] = v[1] - 1
         /\ \A k \in 0..(v[1] - 1) : Above(zoomOut(v), k) = Above(v, k)
         /\ Above(v, v[1] - 1) = zoomOut(v)
         /\ InWorld(v) => InWorld(zoomOut(v))
<1>1. v[1] \in Nat /\ v[2] \in Nat /\ v[3] \in Nat /\ v[1] - 1 \in Nat
  BY DEF Cell
<1>2. zoomOut(v) \in Cell /\ zoomOut(v) = <<v[1] - 1, v[2] \div 2, v[3] \div 2>>
  <2>1. v[2] \div 2 \in Nat /\ v[3] \div 2 \in Nat
    BY <1>1
  <2>2. QED
    BY <1>1, <2>1 DEF zoomOut, Cell
<1>3. ASSUME NEW k \in 0..(v[1] - 1) PROVE Above(zoomOut(v), k) = Above(v, k)
  <2>1. (v[1] - 1) - k \in Nat /\ v[1] - k = ((v[1] - 1) - k) + 1
    BY <1>1
  <2>2. PICK m \in Nat \ {0} : m = z2[(v[1] - 1) - k]
    BY <2>1, Powers
  <2>3. z2[v[1] - k] = 2 * m
    BY <2>1, <2>2, Powers
  <2>4. (v[2] \div 2) \div m = v[2] \div (2 * m) /\ (v[3] \div 2) \div m = v[3] \div (2 * m)
    BY <1>1, Halved
  <2>5. Above(zoomOut(v), k) = <<k, (v[2] \div 2) \div m, (v[3] \div 2) \div m>>
    BY <1>2, <2>2 DEF Above
  <2>6. QED
    BY <2>3, <2>4, <2>5 DEF Above
<1>4. Above(v, v[1] - 1) = zoomOut(v)
  <2>1. v[1] - 1 \in 0..(v[1] - 1) /\ zoomOut(v)[1] = v[1] - 1
    BY <1>1, <1>2
  <2>2. Above(zoomOut(v), v[1] - 1) = zoomOut(v)
    BY <1>2, <2>1, AboveItself
  <2>3. QED
    BY <1>3, <2>1, <2>2
<1>5. ASSUME InWorld(v) PROVE InWorld(zoomOut(v))
  <2>1. v[2] < z2[v[1]] /\ v[3] < z2[v[1]]
    BY <1>5 DEF InWorld
  <2>2. PICK m \in Nat \ {0} : m = z2[v[1] - 1]
    BY <1>1, Powers
  <2>3. z2[v[1]] = 2 * m
    <3>1. v[1] = (v[1] - 1) + 1
      BY <1>1
    <3>2. QED
      BY <1>1, <2>2, <3>1, Powers
  <2>4. v[2] \div 2 < m /\ v[3] \div 2 < m
    BY <1>1, <2>1, <2>3
  <2>5. QED
    BY <1>2, <2>2, <2>4 DEF InWorld
<1>6. QED
  BY <1>2, <1>3, <1>4, <1>5

\* A quarter lies one zoom below its tile, and what is above it is above the tile.
LEMMA QuarterFacts ==
  ASSUME NEW v \in Cell, NEW c \in Quarter(v)
  PROVE  /\ c \in Cell
         /\ c[1] = v[1] + 1
         /\ zoomOut(c) = v
         /\ InWorld(v) => InWorld(c)
         /\ \A k \in 0..v[1] : Above(c, k) = Above(v, k)
<1>1. v[1] \in Nat /\ v[2] \in Nat /\ v[3] \in Nat /\ v = <<v[1], v[2], v[3]>>
  BY DEF Cell
<1>2. PICK right \in 0..1, bottom \in 0..1 :
        c = <<v[1] + 1, 2 * v[2] + right, 2 * v[3] + bottom>>
  BY DEF Quarter
<1>3. c \in Cell /\ c[1] = v[1] + 1 /\ c[1] > 0 /\ c[1] - 1 = v[1]
  BY <1>1, <1>2 DEF Cell
<1>4. zoomOut(c) = v
  <2>1. (2 * v[2] + right) \div 2 = v[2] /\ (2 * v[3] + bottom) \div 2 = v[3]
    BY <1>1
  <2>2. QED
    BY <1>1, <1>2, <1>3, <2>1 DEF zoomOut
<1>5. \A k \in 0..v[1] : Above(c, k) = Above(v, k)
  BY <1>3, <1>4, AboveZoomOut
<1>6. ASSUME InWorld(v) PROVE InWorld(c)
  <2>1. PICK m \in Nat \ {0} : m = z2[v[1]]
    BY <1>1, Powers
  <2>2. z2[c[1]] = 2 * m
    BY <1>1, <1>3, <2>1, Powers
  <2>3. v[2] < m /\ v[3] < m
    BY <1>6, <2>1 DEF InWorld
  <2>4. 2 * v[2] + right < 2 * m /\ 2 * v[3] + bottom < 2 * m
    BY <1>1, <2>3
  <2>5. QED
    BY <1>2, <1>3, <2>2, <2>4 DEF InWorld
<1>7. QED
  BY <1>3, <1>4, <1>5, <1>6

\* Every tile but the top is a quarter of the tile above it.
LEMMA InOneQuarter ==
  ASSUME NEW v \in Cell, v[1] > 0
  PROVE  v \in Quarter(zoomOut(v))
<1>1. v[1] \in Nat /\ v[2] \in Nat /\ v[3] \in Nat /\ v = <<v[1], v[2], v[3]>>
  BY DEF Cell
<1>2. v[2] = 2 * (v[2] \div 2) + (v[2] % 2) /\ v[2] % 2 \in 0..1
  BY <1>1
<1>3. v[3] = 2 * (v[3] \div 2) + (v[3] % 2) /\ v[3] % 2 \in 0..1
  BY <1>1
<1>4. (v[1] - 1) + 1 = v[1]
  BY <1>1
<1>5. zoomOut(v)[1] = v[1] - 1 /\ zoomOut(v)[2] = v[2] \div 2 /\ zoomOut(v)[3] = v[3] \div 2
  BY DEF zoomOut
<1>6. v = <<zoomOut(v)[1] + 1, 2 * zoomOut(v)[2] + (v[2] % 2), 2 * zoomOut(v)[3] + (v[3] % 2)>>
  BY <1>1, <1>2, <1>3, <1>4, <1>5
<1>7. QED
  BY <1>2, <1>3, <1>6 DEF Quarter

\* The tiles above v are reached one zoom at a time.
LEMMA AboveStep ==
  ASSUME NEW v \in Cell, NEW k \in 0..(v[1] - 1)
  PROVE  Above(v, k) = zoomOut(Above(v, k + 1))
<1>1. v[1] \in Nat /\ v[2] \in Nat /\ v[3] \in Nat /\ k \in Nat /\ v[1] - (k + 1) \in Nat
  BY DEF Cell
<1>2. PICK m \in Nat \ {0} : m = z2[v[1] - (k + 1)]
  BY <1>1, Powers
<1>3. z2[v[1] - k] = 2 * m
  <2>1. v[1] - k = (v[1] - (k + 1)) + 1
    BY <1>1
  <2>2. QED
    BY <1>1, <1>2, <2>1, Powers
<1>4. (v[2] \div m) \div 2 = v[2] \div (2 * m) /\ (v[3] \div m) \div 2 = v[3] \div (2 * m)
  BY <1>1, Halved
<1>5. Above(v, k + 1) = <<k + 1, v[2] \div m, v[3] \div m>> /\ (k + 1) - 1 = k
  BY <1>1, <1>2 DEF Above
<1>6. zoomOut(Above(v, k + 1)) = <<k, (v[2] \div m) \div 2, (v[3] \div m) \div 2>>
  BY <1>5 DEF zoomOut
<1>7. QED
  BY <1>3, <1>4, <1>6 DEF Above

\* What is above a tile above v is above v.
LEMMA AboveAbove ==
  ASSUME NEW v \in Cell, NEW j \in 0..v[1], NEW k \in 0..j
  PROVE  Above(Above(v, j), k) = Above(v, k)
<1> DEFINE S == {d \in Nat : d <= v[1] - k => Above(Above(v, v[1] - d), k) = Above(v, k)}
<1>0. v[1] \in Nat /\ k \in Nat /\ k <= v[1]
  BY DEF Cell
<1>1. 0 \in S
  <2>1. v[1] - 0 = v[1]
    BY <1>0
  <2>2. QED
    BY <2>1, AboveItself
<1>2. ASSUME NEW d \in Nat, d \in S PROVE d + 1 \in S
  <2>1. SUFFICES ASSUME d + 1 <= v[1] - k
                 PROVE  Above(Above(v, v[1] - (d + 1)), k) = Above(v, k)
    OBVIOUS
  <2>2. PICK n : n = v[1] - (d + 1)
    OBVIOUS
  <2>3. n \in 0..(v[1] - 1) /\ n + 1 = v[1] - d /\ k <= n /\ d <= v[1] - k /\ n + 1 \in 0..v[1]
    BY <1>0, <2>1, <2>2
  <2>4. PICK u : u = Above(v, n + 1)
    OBVIOUS
  <2>5. u \in Cell /\ u[1] = n + 1
    BY <2>3, <2>4, AboveIsCell
  <2>6. Above(v, n) = zoomOut(u)
    BY <2>3, <2>4, AboveStep
  <2>7. Above(u, k) = Above(v, k)
    BY <1>2, <2>3, <2>4
  <2>8. k \in 0..(u[1] - 1) /\ u[1] > 0
    BY <1>0, <2>3, <2>5
  <2>9. Above(zoomOut(u), k) = Above(u, k)
    BY <2>5, <2>8, AboveZoomOut
  <2>10. QED
    BY <2>2, <2>6, <2>7, <2>9
<1>3. PICK d : d = v[1] - j
  OBVIOUS
<1>4. d \in Nat /\ d <= v[1] - k /\ v[1] - d = j
  BY <1>0, <1>3
<1>5. d \in S
  <2> HIDE DEF S
  <2>1. \A n \in Nat : n \in S
    BY <1>1, <1>2, Induction
  <2>2. QED
    BY <1>4, <2>1
<1>6. QED
  BY <1>4, <1>5

\* Wrapping a column around the world leaves a place in the world where it is.
LEMMA WrappedInWorld ==
  ASSUME NEW v, InWorld(v)
  PROVE  Wrapped(v) = v
<1>1. v[1] \in Nat /\ v[2] \in Nat /\ v = <<v[1], v[2], v[3]>>
  BY DEF InWorld, Cell
<1>2. z2[v[1]] \in Nat \ {0} /\ v[2] < z2[v[1]]
  BY <1>1, Powers DEF InWorld
<1>3. v[2] % z2[v[1]] = v[2]
  BY <1>1, <1>2, Small
<1>4. QED
  BY <1>1, <1>3 DEF Wrapped

\* There is one place at zoom 0.
LEMMA TopOfTheWorld ==
  ASSUME NEW v, InWorld(v), v[1] = 0
  PROVE  v = <<0, 0, 0>>
<1>1. v[2] \in Nat /\ v[3] \in Nat /\ v = <<v[1], v[2], v[3]>>
  BY DEF InWorld, Cell
<1>2. v[2] < 1 /\ v[3] < 1
  BY Powers DEF InWorld
<1>3. v[2] = 0 /\ v[3] = 0
  BY <1>1, <1>2
<1>4. QED
  BY <1>1, <1>3

-----------------------------------------------------------------------------
(* What can be shown without making tiles: the tile, or a whole square above it. *)

\* A set of numbers up to n that is not empty has a greatest one, which Max gives.
LEMMA GreatestNumber ==
  ASSUME NEW n \in Nat, NEW T \in SUBSET (0..n), T # {}
  PROVE  /\ Max(T) \in T
         /\ \A y \in T : y <= Max(T)
<1>1. PICK D : D = {n - x : x \in T}
  OBVIOUS
<1>2. D \in SUBSET Nat /\ D # {}
  <2>1. ASSUME NEW d \in D PROVE d \in Nat
    <3>1. PICK x \in T : d = n - x
      BY <1>1
    <3>2. x \in 0..n
      OBVIOUS
    <3>3. QED
      BY <3>1, <3>2
  <2>2. PICK x : x \in T
    OBVIOUS
  <2>3. n - x \in D
    BY <1>1, <2>2
  <2>4. QED
    BY <2>1, <2>3
<1>3. PICK d \in D : \A y \in D : d <= y
  BY <1>2, LeastNumber
<1>4. PICK x \in T : d = n - x
  BY <1>1, <1>3
<1>5. ASSUME NEW y \in T PROVE x >= y
  <2>1. n - y \in D
    BY <1>1
  <2>2. d <= n - y /\ x \in Nat /\ y \in Nat
    BY <1>3, <2>1
  <2>3. QED
    BY <1>4, <2>2
<1>6. Max(T) \in T /\ \A y \in T : Max(T) >= y
  BY <1>5 DEF Max
<1>7. QED
  BY <1>6

\* Closest is Null, or the last tile on the way down to v that is there.
LEMMA ClosestIsLast ==
  ASSUME NEW tiles, NEW v \in Cell
  PROVE  \/ /\ Closest(tiles, v) = Null
            /\ \A z \in 0..v[1] : Above(v, z) \notin DOMAIN tiles
         \/ /\ Closest(tiles, v) # Null
            /\ \E m \in 0..v[1] :
                 /\ Closest(tiles, v) = Above(v, m)
                 /\ Above(v, m) \in DOMAIN tiles
                 /\ \A z \in 0..v[1] : Above(v, z) \in DOMAIN tiles => z <= m
<1>1. PICK T : T = {z \in 0..v[1] : Above(v, z) \in DOMAIN tiles}
  OBVIOUS
<1>2. Closest(tiles, v) = IF T = {} THEN Null ELSE Above(v, Max(T))
  BY <1>1 DEF Closest
<1>3. CASE T = {}
  BY <1>1, <1>2, <1>3
<1>4. CASE T # {}
  <2>1. v[1] \in Nat /\ T \in SUBSET (0..v[1])
    BY <1>1 DEF Cell
  <2>2. Max(T) \in T /\ \A y \in T : y <= Max(T)
    BY <1>4, <2>1, GreatestNumber
  <2>3. PICK m : m = Max(T)
    OBVIOUS
  <2>4. m \in 0..v[1] /\ Above(v, m) \in DOMAIN tiles
    BY <1>1, <2>2, <2>3
  <2>5. \A z \in 0..v[1] : Above(v, z) \in DOMAIN tiles => z <= m
    BY <1>1, <2>2, <2>3
  <2>6. Closest(tiles, v) = Above(v, m)
    BY <1>2, <1>4, <2>3
  <2>7. Closest(tiles, v) # Null
    <3>1. Above(v, m) \in Cell
      BY <2>4, AboveIsCell
    <3>2. QED
      BY <2>6, <3>1, NullAssumption DEF Cell
  <2>8. QED
    BY <2>4, <2>5, <2>6, <2>7
<1>5. QED
  BY <1>3, <1>4

\* What there is a picture for, getTile returns without making tiles.
LEMMA ShownIsServed ==
  ASSUME NEW tiles, Tree(tiles), NEW v \in Cell, Shows(tiles, v)
  PROVE  /\ ~Drills(tiles, v, Closest(tiles, v))
         /\ Serves(tiles, v, Closest(tiles, v))
<1>0. v[1] \in Nat /\ Above(v, v[1]) = v /\ v[1] \in 0..v[1]
  BY AboveItself DEF Cell
<1>1. PICK z \in 0..v[1] : /\ Above(v, z) \in DOMAIN tiles
                           /\ z # v[1] => IsSolid(tiles, Above(v, z))
  <2>1. CASE v \in DOMAIN tiles
    BY <1>0, <2>1
  <2>2. CASE \E z \in 0..(v[1] - 1) : IsSolid(tiles, Above(v, z))
    <3>1. PICK z \in 0..(v[1] - 1) : IsSolid(tiles, Above(v, z))
      BY <2>2
    <3>2. z \in 0..v[1] /\ Above(v, z) \in DOMAIN tiles
      BY <1>0, <3>1 DEF IsSolid
    <3>3. QED
      BY <3>1, <3>2
  <2>3. QED
    BY <2>1, <2>2 DEF Shows
<1>2. PICK m \in 0..v[1] : /\ Closest(tiles, v) = Above(v, m)
                           /\ Above(v, m) \in DOMAIN tiles
                           /\ \A y \in 0..v[1] : Above(v, y) \in DOMAIN tiles => y <= m
  BY <1>1, ClosestIsLast
<1>3. Closest(tiles, v) # Null
  BY <1>1, ClosestIsLast
<1>4. CASE m = v[1]
  BY <1>0, <1>2, <1>4 DEF Drills, Serves
<1>5. CASE m # v[1]
  <2>1. z <= m /\ z # v[1]
    BY <1>0, <1>1, <1>2, <1>5
  <2>2. IsSolid(tiles, Above(v, z))
    BY <1>1, <2>1
  <2>3. z = m
    <3>1. SUFFICES ASSUME z # m PROVE FALSE
      OBVIOUS
    <3>2. z \in 0..m /\ z \in 0..(m - 1) /\ Above(v, m)[1] = m
      BY <1>0, <2>1, <3>1, AboveIsCell
    <3>3. tiles[Above(Above(v, m), z)].source = Null
      BY <1>2, <3>2 DEF Tree, Hangs
    <3>4. Above(Above(v, m), z) = Above(v, z)
      BY <3>2, AboveAbove
    <3>5. QED
      BY <2>2, <3>3, <3>4 DEF IsSolid
  <2>4. QED
    BY <1>2, <1>3, <2>2, <2>3 DEF Drills, Serves, IsSolid
<1>6. QED
  BY <1>4, <1>5

\* What getTile returns without making tiles is there, and is a picture of the place.
LEMMA ServedIsShown ==
  ASSUME NEW tiles, NEW v \in Cell, Serves(tiles, v, Closest(tiles, v))
  PROVE  /\ Closest(tiles, v) \in DOMAIN tiles
         /\ Closest(tiles, v) # Null
         /\ Shows(tiles, v)
<1>1. v # Null
  BY NullAssumption DEF Cell
<1>2. Closest(tiles, v) # Null
  BY <1>1 DEF Serves
<1>3. PICK m \in 0..v[1] : /\ Closest(tiles, v) = Above(v, m)
                           /\ Above(v, m) \in DOMAIN tiles
  BY <1>2, ClosestIsLast
<1>4. Shows(tiles, v)
  <2>0. v[1] \in Nat /\ Above(v, v[1]) = v
    BY AboveItself DEF Cell
  <2>1. CASE Closest(tiles, v) = v
    BY <1>3, <2>1 DEF Shows
  <2>2. CASE Closest(tiles, v) # v
    <3>1. m # v[1]
      BY <1>3, <2>0, <2>2
    <3>2. m \in 0..(v[1] - 1)
      BY <2>0, <3>1
    <3>3. IsSolid(tiles, Above(v, m))
      BY <1>3, <2>2 DEF Serves, IsSolid
    <3>4. QED
      BY <3>2, <3>3 DEF Shows
  <2>3. QED
    BY <2>1, <2>2
<1>5. QED
  BY <1>2, <1>3, <1>4

\* Where there is a picture for a place there is one for the place above it: so the
\* button always finds one.
LEMMA ShownAbove ==
  ASSUME NEW tiles, Tree(tiles), NEW v \in Cell, v[1] > 0, Shows(tiles, v)
  PROVE  Shows(tiles, zoomOut(v))
<1>0. v[1] \in Nat /\ v[1] - 1 \in 0..(v[1] - 1) /\ zoomOut(v)[1] = v[1] - 1
  BY AboveZoomOut DEF Cell
<1>1. CASE v \in DOMAIN tiles
  <2>1. Above(v, v[1] - 1) \in DOMAIN tiles
    BY <1>0, <1>1 DEF Tree, Hangs
  <2>2. QED
    BY <2>1, AboveZoomOut DEF Shows
<1>2. CASE \E z \in 0..(v[1] - 1) : IsSolid(tiles, Above(v, z))
  <2>1. PICK z \in 0..(v[1] - 1) : IsSolid(tiles, Above(v, z))
    BY <1>2
  <2>2. CASE z = v[1] - 1
    BY <2>1, <2>2, AboveZoomOut DEF Shows, IsSolid
  <2>3. CASE z # v[1] - 1
    <3>1. z \in 0..(zoomOut(v)[1] - 1)
      BY <1>0, <2>3
    <3>2. Above(zoomOut(v), z) = Above(v, z)
      BY AboveZoomOut
    <3>3. QED
      BY <2>1, <3>1, <3>2 DEF Shows
  <2>4. QED
    BY <2>2, <2>3
<1>3. QED
  BY <1>1, <1>2 DEF Shows

\* In an index with a root, getTile finds where to begin.
LEMMA RootedHasClosest ==
  ASSUME NEW tiles, <<0, 0, 0>> \in DOMAIN tiles, NEW v, InWorld(v)
  PROVE  Closest(tiles, v) # Null
<1>1. v \in Cell /\ v[1] \in Nat /\ 0 \in 0..v[1]
  BY DEF InWorld, Cell
<1>2. Above(v, 0) = <<0, 0, 0>>
  <2>1. v[2] \in Nat /\ v[3] \in Nat /\ v[1] - 0 = v[1]
    BY <1>1 DEF Cell
  <2>2. z2[v[1]] \in Nat \ {0} /\ v[2] < z2[v[1]] /\ v[3] < z2[v[1]]
    BY <1>1, Powers DEF InWorld
  <2>3. v[2] \div z2[v[1]] = 0 /\ v[3] \div z2[v[1]] = 0
    BY <2>1, <2>2, Small
  <2>4. QED
    BY <2>1, <2>3 DEF Above
<1>3. QED
  BY <1>1, <1>2, ClosestIsLast

-----------------------------------------------------------------------------
(* Changing one tile of the index. *)

\* To transform a tile changes neither its source nor that it is empty.
LEMMA TransformedTile ==
  ASSUME NEW t, IsTile(t), NEW v
  PROVE  /\ IsTile(transformTile(t, v))
         /\ transformTile(t, v).source = t.source
         /\ t.features = <<>> => transformTile(t, v).features = <<>>
<1>1. CASE t.transformed
  BY <1>1 DEF transformTile
<1>2. CASE ~t.transformed
  <2>1. PICK f : f = TransformFeatures(t, v).features
    OBVIOUS
  <2>2. TransformFeatures(t, v) = [t EXCEPT !.features = f, !.transformed = TRUE]
    BY <2>1 DEF TransformFeatures, IsTile
  <2>3. IsTile(TransformFeatures(t, v)) /\ TransformFeatures(t, v).source = t.source
    BY <2>2 DEF IsTile
  <2>4. ASSUME t.features = <<>> PROVE f = <<>>
    <3>1. DOMAIN f = DOMAIN t.features
      BY <2>1 DEF TransformFeatures, IsTile
    <3>2. f = [i \in DOMAIN t.features |-> f[i]]
      BY <2>1 DEF TransformFeatures, IsTile
    <3>3. DOMAIN t.features = {}
      BY <2>4
    <3>4. QED
      BY <3>2, <3>3
  <2>5. QED
    BY <1>2, <2>1, <2>3, <2>4 DEF transformTile
<1>3. QED
  BY <1>1, <1>2

\* getTile leaves the index as it is, but for the tile that it transforms.
LEMMA ReturnedIsAlike ==
  ASSUME NEW tiles, Tree(tiles), NEW found, found = Null \/ found \in DOMAIN tiles
  PROVE  /\ DOMAIN Returned(tiles, found) = DOMAIN tiles
         /\ \A v \in DOMAIN tiles :
              /\ IsTile(Returned(tiles, found)[v])
              /\ Returned(tiles, found)[v].source = tiles[v].source
              /\ tiles[v].features = <<>> => Returned(tiles, found)[v].features = <<>>
<1>1. CASE found = Null
  BY <1>1 DEF Returned, Tree
<1>2. CASE found # Null
  <2>1. found \in DOMAIN tiles
    BY <1>2
  <2>2. Returned(tiles, found) = [tiles EXCEPT ![found] = transformTile(tiles[found], found)]
    BY <1>2 DEF Returned
  <2>3. DOMAIN Returned(tiles, found) = DOMAIN tiles
    BY <2>2
  <2>4. ASSUME NEW v \in DOMAIN tiles, v # found PROVE Returned(tiles, found)[v] = tiles[v]
    BY <2>2, <2>4
  <2>5. Returned(tiles, found)[found] = transformTile(tiles[found], found)
    BY <2>1, <2>2
  <2>6. \A v \in DOMAIN tiles : IsTile(tiles[v])
    BY DEF Tree
  <2>7. QED
    BY <2>1, <2>3, <2>4, <2>5, <2>6, TransformedTile
<1>3. QED
  BY <1>1, <1>2

\* What getTile does to the tile it returns keeps the tree, and all that can be shown.
LEMMA ReturnedKeeps ==
  ASSUME NEW tiles, Tree(tiles), NEW found, found = Null \/ found \in DOMAIN tiles
  PROVE  /\ Tree(Returned(tiles, found))
         /\ Rooted(tiles) => Rooted(Returned(tiles, found))
         /\ Held(tiles, {}) => Held(Returned(tiles, found), {})
         /\ \A v \in Cell : Shows(tiles, v) => Shows(Returned(tiles, found), v)
<1>1. PICK new : new = Returned(tiles, found)
  OBVIOUS
<1>2. DOMAIN new = DOMAIN tiles
  BY <1>1, ReturnedIsAlike
<1>3. \A v \in DOMAIN tiles : /\ IsTile(new[v])
                              /\ new[v].source = tiles[v].source
                              /\ tiles[v].features = <<>> => new[v].features = <<>>
  BY <1>1, ReturnedIsAlike
<1>4. Tree(new)
  <2>1. SUFFICES ASSUME NEW v \in DOMAIN new PROVE v \in Cell /\ IsTile(new[v]) /\ Hangs(new, v)
    BY DEF Tree
  <2>2. v \in Cell /\ Hangs(tiles, v)
    BY <1>2 DEF Tree
  <2>3. QED
    BY <1>2, <1>3, <2>2 DEF Hangs
<1>5. ASSUME Rooted(tiles) PROVE Rooted(new)
  <2>1. CASE <<0, 0, 0>> \in DOMAIN tiles
    BY <1>2, <2>1 DEF Rooted
  <2>2. CASE tiles = <<>>
    <3>1. found = Null
      BY <2>2
    <3>2. QED
      BY <1>1, <2>2, <3>1 DEF Returned, Rooted
  <2>3. QED
    BY <1>5, <2>1, <2>2 DEF Rooted
<1>6. ASSUME Held(tiles, {}) PROVE Held(new, {})
  BY <1>2, <1>3, <1>6 DEF Held
<1>7. ASSUME NEW v \in Cell, Shows(tiles, v) PROVE Shows(new, v)
  <2>1. ASSUME NEW s, IsSolid(tiles, s) PROVE IsSolid(new, s)
    BY <1>2, <1>3, <2>1 DEF IsSolid, isClippedSquare
  <2>2. QED
    BY <1>2, <1>7, <2>1 DEF Shows
<1>8. QED
  BY <1>1, <1>4, <1>5, <1>6, <1>7

\* A tile is put where none is below it.
LEMMA PutLeaf ==
  ASSUME NEW tiles, Tree(tiles), NEW v \in Cell, NEW t, IsTile(t), Hangs(tiles, v),
         v \in DOMAIN tiles => tiles[v].source # Null
  PROVE  /\ DOMAIN Put(tiles, v, t) = DOMAIN tiles \cup {v}
         /\ Put(tiles, v, t)[v] = t
         /\ \A u \in DOMAIN tiles : u # v => Put(tiles, v, t)[u] = tiles[u]
         /\ \A w \in Cell : Hangs(tiles, w) => /\ Hangs(Put(tiles, v, t), w)
                                               /\ \A z \in 0..(w[1] - 1) : Above(w, z) # v
         /\ Tree(Put(tiles, v, t))
<1>1. PICK new : new = Put(tiles, v, t)
  OBVIOUS
<1>2. /\ DOMAIN new = DOMAIN tiles \cup {v}
      /\ new[v] = t
      /\ \A u \in DOMAIN tiles : u # v => new[u] = tiles[u]
  BY <1>1 DEF Put
<1>3. ASSUME NEW w \in Cell, Hangs(tiles, w), NEW z \in 0..(w[1] - 1) PROVE Above(w, z) # v
  BY <1>3 DEF Hangs
<1>4. ASSUME NEW w \in Cell, Hangs(tiles, w) PROVE Hangs(new, w)
  <2>1. ASSUME NEW z \in 0..(w[1] - 1)
        PROVE  Above(w, z) \in DOMAIN new /\ new[Above(w, z)].source = Null
    <3>1. Above(w, z) \in DOMAIN tiles /\ tiles[Above(w, z)].source = Null
      BY <1>4 DEF Hangs
    <3>2. Above(w, z) # v
      BY <1>3, <1>4
    <3>3. QED
      BY <1>2, <3>1, <3>2
  <2>2. QED
    BY <2>1 DEF Hangs
<1>5. Tree(new)
  <2>1. SUFFICES ASSUME NEW u \in DOMAIN new PROVE u \in Cell /\ IsTile(new[u]) /\ Hangs(new, u)
    BY DEF Tree
  <2>2. CASE u = v
    BY <1>2, <1>4, <2>2
  <2>3. CASE u # v
    <3>1. u \in DOMAIN tiles
      BY <1>2, <2>3
    <3>2. u \in Cell /\ IsTile(tiles[u]) /\ Hangs(tiles, u)
      BY <3>1 DEF Tree
    <3>3. QED
      BY <1>2, <1>4, <2>3, <3>1, <3>2
  <2>4. QED
    BY <2>2, <2>3
<1>6. QED
  BY <1>1, <1>2, <1>3, <1>4, <1>5

\* Whole squares stay when another tile is put, and so does what can be shown.
LEMMA PutKeepsShown ==
  ASSUME NEW tiles, Tree(tiles), NEW v \in Cell, NEW t, IsTile(t), Hangs(tiles, v),
         v \in DOMAIN tiles => tiles[v].source # Null /\ ~isClippedSquare(tiles[v], v)
  PROVE  /\ \A s : IsSolid(tiles, s) => IsSolid(Put(tiles, v, t), s) /\ s # v
         /\ \A w \in Cell : Shows(tiles, w) => Shows(Put(tiles, v, t), w)
<1>1. ASSUME NEW s, IsSolid(tiles, s) PROVE IsSolid(Put(tiles, v, t), s) /\ s # v
  <2>1. s \in DOMAIN tiles /\ s # v
    BY <1>1 DEF IsSolid
  <2>2. Put(tiles, v, t)[s] = tiles[s] /\ s \in DOMAIN Put(tiles, v, t)
    BY <2>1 DEF Put
  <2>3. QED
    BY <1>1, <2>1, <2>2 DEF IsSolid
<1>2. ASSUME NEW w \in Cell, Shows(tiles, w) PROVE Shows(Put(tiles, v, t), w)
  <2>1. w \in DOMAIN tiles => w \in DOMAIN Put(tiles, v, t)
    BY DEF Put
  <2>2. QED
    BY <1>1, <1>2, <2>1 DEF Shows
<1>3. QED
  BY <1>1, <1>2

\* What splitTile pushes for a tile are its four quarters, each once.
LEMMA QuartersAreOfTheTile ==
  ASSUME NEW features, NEW v \in Cell, NEW t
  PROVE  \E q : /\ Quarters(features, v, t) = q
                /\ Len(q) = 4
                /\ \E S : q \in Seq(S)
                /\ \A i \in 1..4 : q[i].at \in Quarter(v) /\ q[i].features # Null
                /\ \A c \in Quarter(v) : \E i \in 1..4 : q[i].at = c
                /\ \A i, j \in 1..4 : q[i].at = q[j].at => i = j
<1>1. v[1] \in Nat /\ v[2] \in Nat /\ v[3] \in Nat
  BY DEF Cell
<1>2. ASSUME NEW right, NEW bottom PROVE Part(features, v, t, right, bottom) # Null
  BY NullAssumption DEF Part
<1> DEFINE C(right, bottom) == <<v[1] + 1, 2 * v[2] + right, 2 * v[3] + bottom>>
<1>3. PICK f1, f2, f3, f4 : /\ f1 = Part(features, v, t, 0, 0) /\ f2 = Part(features, v, t, 0, 1)
                            /\ f3 = Part(features, v, t, 1, 0) /\ f4 = Part(features, v, t, 1, 1)
  OBVIOUS
<1>4. /\ Quarters(features, v, t) = <<[features |-> f1, at |-> C(0, 0)], [features |-> f2, at |-> C(0, 1)],
                                      [features |-> f3, at |-> C(1, 0)], [features |-> f4, at |-> C(1, 1)]>>
      /\ f1 # Null /\ f2 # Null /\ f3 # Null /\ f4 # Null
  BY <1>2, <1>3 DEF Quarters
<1>5. PICK q : q = Quarters(features, v, t)
  OBVIOUS
<1>6. Len(q) = 4 /\ q[1] = [features |-> f1, at |-> C(0, 0)] /\ q[2] = [features |-> f2, at |-> C(0, 1)]
        /\ q[3] = [features |-> f3, at |-> C(1, 0)] /\ q[4] = [features |-> f4, at |-> C(1, 1)]
  BY <1>4, <1>5
<1>7. q \in Seq({[features |-> f1, at |-> C(0, 0)], [features |-> f2, at |-> C(0, 1)],
                 [features |-> f3, at |-> C(1, 0)], [features |-> f4, at |-> C(1, 1)]})
  BY <1>4, <1>5
<1>8. \A i \in 1..4 : q[i].features # Null /\ q[i].at \in Quarter(v)
  <2>1. ASSUME NEW right \in 0..1, NEW bottom \in 0..1 PROVE C(right, bottom) \in Quarter(v)
    BY DEF Quarter
  <2>2. \A i \in 1..4 : i = 1 \/ i = 2 \/ i = 3 \/ i = 4
    OBVIOUS
  <2>3. C(0, 0) \in Quarter(v) /\ C(0, 1) \in Quarter(v) /\ C(1, 0) \in Quarter(v) /\ C(1, 1) \in Quarter(v)
    BY <2>1
  <2> HIDE DEF C
  <2>4. QED
    BY <1>4, <1>6, <2>2, <2>3
<1>9. \A c \in Quarter(v) : \E i \in 1..4 : q[i].at = c
  <2>1. ASSUME NEW c \in Quarter(v) PROVE c = C(0, 0) \/ c = C(0, 1) \/ c = C(1, 0) \/ c = C(1, 1)
    BY DEF Quarter
  <2> HIDE DEF C
  <2>2. QED
    BY <1>6, <2>1
<1>10. \A i, j \in 1..4 : q[i].at = q[j].at => i = j
  <2>1. /\ C(0, 0) # C(0, 1) /\ C(0, 0) # C(1, 0) /\ C(0, 0) # C(1, 1)
        /\ C(0, 1) # C(1, 0) /\ C(0, 1) # C(1, 1) /\ C(1, 0) # C(1, 1)
    BY <1>1
  <2>2. \A i \in 1..4 : i = 1 \/ i = 2 \/ i = 3 \/ i = 4
    OBVIOUS
  <2>3. q[1].at = C(0, 0) /\ q[2].at = C(0, 1) /\ q[3].at = C(1, 0) /\ q[4].at = C(1, 1)
    BY <1>6
  <2> HIDE DEF C
  <2>4. QED
    BY <2>1, <2>2, <2>3
<1>11. QED
  BY <1>5, <1>6, <1>7, <1>8, <1>9, <1>10

-----------------------------------------------------------------------------
(* One turn of the loop of splitTile. *)

\* What is left of a stack when its last element is taken off.
LEMMA FrontFacts ==
  ASSUME NEW S, NEW s \in Seq(S), s # <<>>
  PROVE  /\ Len(s) \in Nat \ {0}
         /\ Front(s) \in Seq(S)
         /\ Len(Front(s)) = Len(s) - 1
         /\ \A i \in 1..(Len(s) - 1) : Front(s)[i] = s[i]
<1>1. Len(s) \in Nat /\ Len(s) # 0
  BY EmptySeq
<1>2. Len(s) - 1 \in Nat /\ Len(s) - 1 <= Len(s)
  BY <1>1
<1>3. PICK n : n = Len(s) - 1
  OBVIOUS
<1>4. n \in Nat /\ n \in Int /\ 1 \in Int /\ n - 1 + 1 = n /\ \A i \in 1..n : s[i] \in S /\ 1 + i - 1 = i
  BY <1>1, <1>2, <1>3
<1>5. /\ SubSeq(s, 1, n) \in Seq(S)
      /\ Len(SubSeq(s, 1, n)) = IF 1 <= n THEN n - 1 + 1 ELSE 0
      /\ \A i \in 1..(n - 1 + 1) : SubSeq(s, 1, n)[i] = s[1 + i - 1]
  BY <1>4, SubSeqProperties
<1>6. Len(SubSeq(s, 1, n)) = n
  BY <1>4, <1>5
<1>7. \A i \in 1..n : SubSeq(s, 1, n)[i] = s[i]
  BY <1>4, <1>5
<1>8. QED
  BY <1>1, <1>3, <1>5, <1>6, <1>7 DEF Front

\* The tile that a turn of splitTile looks at, with its features.
Looked(tiles, item) ==
  [(IF item.at \in DOMAIN tiles THEN tiles[item.at] ELSE createTile(item.features, item.at[1]))
     EXCEPT !.source = item.features]

\* To flatten no sequences gives no elements.
LEMMA NothingToFlatten ==
  ASSUME NEW f, DOMAIN f = {}, f = [i \in DOMAIN f |-> f[i]]
  PROVE  FlattenSeq(f) = <<>>
<1>1. f = <<>>
  OBVIOUS
<1>2. Len(f) = 0
  BY <1>1
<1>3. QED
  BY <1>1, <1>2 DEF FlattenSeq

\* The tile of a turn has the features it was given, and shows nothing if these are none.
LEMMA LookedIsTile ==
  ASSUME NEW tiles, Tree(tiles), NEW W, Held(tiles, W), NEW item,
         item.at \in DOMAIN tiles => tiles[item.at].source = item.features
  PROVE  /\ IsTile(Looked(tiles, item))
         /\ Looked(tiles, item).source = item.features
         /\ item.features = <<>> => Looked(tiles, item).features = <<>>
<1>1. CASE item.at \in DOMAIN tiles
  <2>1. PICK t : t = tiles[item.at]
    OBVIOUS
  <2>2. IsTile(t)
    BY <1>1, <2>1 DEF Tree
  <2>3. item.features = <<>> => t.features = <<>>
    BY <1>1, <2>1 DEF Held
  <2>4. Looked(tiles, item) = [t EXCEPT !.source = item.features]
    BY <1>1, <2>1 DEF Looked
  <2>5. QED
    BY <2>2, <2>3, <2>4 DEF IsTile
<1>2. CASE item.at \notin DOMAIN tiles
  <2>1. PICK t : t = createTile(item.features, item.at[1])
    OBVIOUS
  <2>2. IsTile(t)
    BY <2>1 DEF createTile, IsTile
  <2>3. ASSUME item.features = <<>> PROVE t.features = <<>>
    <3>1. t.features = FlattenSeq([i \in DOMAIN item.features |-> addFeature(item.features[i], item.at[1])])
      BY <2>1 DEF createTile
    <3>2. PICK f : f = [i \in DOMAIN item.features |-> addFeature(item.features[i], item.at[1])]
      OBVIOUS
    <3>3. DOMAIN f = {} /\ f = [i \in DOMAIN f |-> f[i]]
      BY <2>3, <3>2
    <3>4. QED
      BY <3>1, <3>2, <3>3, NothingToFlatten
  <2>4. Looked(tiles, item) = [t EXCEPT !.source = item.features]
    BY <1>2, <2>1 DEF Looked
  <2>5. QED
    BY <2>2, <2>3, <2>4 DEF IsTile
<1>3. QED
  BY <1>1, <1>2

\* A tile that was split has no source, and shows what it showed.
LEMMA SlicedTile ==
  ASSUME NEW t, IsTile(t)
  PROVE  IsTile(Sliced(t)) /\ Sliced(t).source = Null /\ Sliced(t).features = t.features
BY DEF IsTile, Sliced

\* When a tile is put into the index and its quarters wait, nothing is lost.
LEMMA HeldAfterPut ==
  ASSUME NEW tiles, NEW W, Held(tiles, W), NEW v, NEW t, NEW V, W \subseteq V \cup {v},
         t.source = <<>> => t.features = <<>>,
         t.source = Null => t.features = <<>> \/ Quarter(v) \subseteq V
  PROVE  Held(Put(tiles, v, t), V)
<1>1. PICK new : new = Put(tiles, v, t)
  OBVIOUS
<1>2. /\ DOMAIN new = DOMAIN tiles \cup {v}
      /\ new[v] = t
      /\ \A u \in DOMAIN tiles : u # v => new[u] = tiles[u]
  BY <1>1 DEF Put
<1>3. ASSUME NEW u \in DOMAIN new
      PROVE  /\ new[u].source = <<>> => new[u].features = <<>>
             /\ new[u].source = Null => \/ new[u].features = <<>>
                                        \/ Quarter(u) \subseteq DOMAIN new \cup V
  <2>1. CASE u = v
    BY <1>2, <2>1
  <2>2. CASE u # v
    <3>1. u \in DOMAIN tiles /\ new[u] = tiles[u]
      BY <1>2, <2>2
    <3>2. DOMAIN tiles \cup W \subseteq DOMAIN new \cup V
      BY <1>2
    <3>3. QED
      BY <3>1, <3>2 DEF Held
  <2>3. QED
    BY <2>1, <2>2
<1>4. QED
  BY <1>1, <1>3 DEF Held

\* The tile at the top of the stack is taken off it and put into the index.
LEMMA PutOffTheStack ==
  ASSUME NEW tiles, Tree(tiles), NEW S, NEW stack \in Seq(S), stack # <<>>, NEW target,
         StackOK(tiles, stack, target), NEW v, v = Last(stack).at, NEW t, IsTile(t)
  PROVE  /\ v \in Cell
         /\ Hangs(tiles, v)
         /\ v \in DOMAIN tiles => /\ tiles[v].source = Last(stack).features
                                  /\ tiles[v].source # Null
                                  /\ ~isClippedSquare(tiles[v], v)
         /\ Last(stack).features # Null
         /\ target # Null => v[1] <= target[1]
         /\ Waiting(stack) \subseteq Waiting(Front(stack)) \cup {v}
         /\ v \notin Waiting(Front(stack))
         /\ StackOK(Put(tiles, v, t), Front(stack), target)
<1>1. PICK n : n = Len(stack)
  OBVIOUS
<1>2. n \in Nat \ {0} /\ DOMAIN stack = 1..n /\ n \in 1..n /\ Last(stack) = stack[n]
  BY <1>1, FrontFacts DEF Last
<1>3. PICK rest : rest = Front(stack)
  OBVIOUS
<1>4. rest \in Seq(S) /\ Len(rest) = n - 1 /\ DOMAIN rest = 1..(n - 1)
        /\ \A i \in 1..(n - 1) : rest[i] = stack[i] /\ i \in 1..n /\ i # n
  BY <1>1, <1>2, <1>3, FrontFacts
<1>5. ItemOK(tiles, stack[n], target)
  BY <1>2 DEF StackOK
<1>6. /\ v \in Cell /\ Hangs(tiles, v) /\ stack[n].features # Null
      /\ target # Null => v[1] <= target[1]
      /\ v \in DOMAIN tiles => /\ tiles[v].source = stack[n].features
                               /\ ~isClippedSquare(tiles[v], v)
  BY <1>2, <1>5 DEF ItemOK
<1>7. v \in DOMAIN tiles => tiles[v].source # Null
  BY <1>6
<1>8. ASSUME NEW i \in 1..(n - 1) PROVE rest[i].at # v
  BY <1>2, <1>4 DEF StackOK
<1>9. v \notin Waiting(rest)
  BY <1>4, <1>8 DEF Waiting
<1>10. Waiting(stack) \subseteq Waiting(rest) \cup {v}
  <2>1. ASSUME NEW i \in DOMAIN stack PROVE stack[i].at \in Waiting(rest) \cup {v}
    <3>1. CASE i = n
      BY <1>2, <3>1
    <3>2. CASE i # n
      <4>1. i \in 1..(n - 1)
        BY <1>2, <3>2
      <4>2. QED
        BY <1>4, <4>1 DEF Waiting
    <3>3. QED
      BY <3>1, <3>2
  <2>2. QED
    BY <2>1 DEF Waiting
<1>11. StackOK(Put(tiles, v, t), rest, target)
  <2>1. PICK new : new = Put(tiles, v, t)
    OBVIOUS
  <2>2. DOMAIN new = DOMAIN tiles \cup {v} /\ \A u \in DOMAIN tiles : u # v => new[u] = tiles[u]
    BY <2>1 DEF Put
  <2>3. \A w \in Cell : Hangs(tiles, w) => Hangs(new, w)
    BY <1>6, <1>7, <2>1, PutLeaf
  <2>4. ASSUME NEW i \in DOMAIN rest PROVE ItemOK(new, rest[i], target)
    <3>1. i \in DOMAIN stack /\ rest[i] = stack[i] /\ rest[i].at # v
      BY <1>2, <1>4, <1>8
    <3>2. ItemOK(tiles, rest[i], target)
      BY <3>1 DEF StackOK
    <3>3. QED
      BY <2>2, <2>3, <3>1, <3>2 DEF ItemOK
  <2>5. \A i, j \in DOMAIN rest : rest[i].at = rest[j].at => i = j
    BY <1>2, <1>4 DEF StackOK
  <2>6. QED
    BY <2>1, <2>4, <2>5 DEF StackOK
<1>12. QED
  BY <1>2, <1>3, <1>6, <1>7, <1>9, <1>10, <1>11

\* What EXCEPT makes of the record of a call of splitTile.
LEMMA ChangedWork ==
  ASSUME NEW work, NEW s, NEW t, NEW l, work = [stack |-> s, target |-> t, solid |-> l],
         NEW stack, NEW solid
  PROVE  [work EXCEPT !.stack = stack, !.solid = solid]
           = [stack |-> stack, target |-> work.target, solid |-> solid]
<1>1. PICK u : u = [work EXCEPT !.stack = stack, !.solid = solid]
  OBVIOUS
<1>2. DOMAIN u = {"stack", "target", "solid"} /\ u = [x \in DOMAIN u |-> u[x]]
  BY <1>1
<1>3. u["stack"] = stack
  BY <1>1
<1>4. u["target"] = t
  BY <1>1
<1>5. u["solid"] = solid
  BY <1>1
<1>6. QED
  BY <1>1, <1>2, <1>3, <1>4, <1>5

\* What a turn of splitTile is at the tile v, whose features are those of item: it stops
\* there, keeps the tile as a whole square, or splits it.
TurnIs(tiles, work, item, v, t, rest) ==
  \/ splitTile(tiles, work) =
       [tiles |-> Put(tiles, v, t),
        split |-> [stack |-> rest, target |-> work.target, solid |-> work.solid]]
  \/ /\ ~StopsAt(t, v, work.target)
     /\ isClippedSquare(t, v)
     /\ splitTile(tiles, work) =
          [tiles |-> Put(tiles, v, t),
           split |-> [stack |-> rest, target |-> work.target,
                      solid |-> IF work.target = Null THEN work.solid ELSE v[1]]]
  \/ /\ ~StopsAt(t, v, work.target)
     /\ splitTile(tiles, work) =
          [tiles |-> Put(tiles, v, Sliced(t)),
           split |-> [stack |-> IF item.features = <<>> THEN rest
                                ELSE rest \o Quarters(item.features, v, t),
                      target |-> work.target, solid |-> work.solid]]

\* A turn of splitTile is one of the three.
LEMMA TurnCases ==
  ASSUME NEW tiles, NEW work, NEW item, item = Last(work.stack), NEW t, t = Looked(tiles, item),
         work = [stack |-> work.stack, target |-> work.target, solid |-> work.solid]
  PROVE  TurnIs(tiles, work, item, item.at, t, Front(work.stack))
<1>1. \A stack, solid : [work EXCEPT !.stack = stack, !.solid = solid]
                          = [stack |-> stack, target |-> work.target, solid |-> solid]
  BY ChangedWork
<1>2. t = [(IF Last(work.stack).at \in DOMAIN tiles THEN tiles[Last(work.stack).at]
            ELSE createTile(Last(work.stack).features, Last(work.stack).at[1]))
             EXCEPT !.source = Last(work.stack).features]
  BY DEF Looked
<1>3. CASE StopsAt(t, item.at, work.target)
  <2>1. splitTile(tiles, work) =
          [tiles |-> Put(tiles, item.at, t),
           split |-> [work EXCEPT !.stack = Front(work.stack), !.solid = work.solid]]
    BY <1>2, <1>3, Zenon DEF splitTile
  <2>2. QED
    BY <1>1, <2>1, Zenon DEF TurnIs
<1>4. CASE ~StopsAt(t, item.at, work.target) /\ ~SolidChildren /\ isClippedSquare(t, item.at)
  <2>1. splitTile(tiles, work) =
          [tiles |-> Put(tiles, item.at, t),
           split |-> [work EXCEPT !.stack = Front(work.stack),
                                  !.solid = IF work.target = Null THEN work.solid ELSE item.at[1]]]
    BY <1>2, <1>4, Zenon DEF splitTile
  <2>2. QED
    BY <1>1, <1>4, <2>1, Zenon DEF TurnIs
<1>5. CASE ~StopsAt(t, item.at, work.target) /\ ~(~SolidChildren /\ isClippedSquare(t, item.at))
  <2>1. splitTile(tiles, work) =
          [tiles |-> Put(tiles, item.at, Sliced(t)),
           split |-> [work EXCEPT !.stack = IF item.features = <<>> THEN Front(work.stack)
                                       ELSE Front(work.stack) \o Quarters(item.features, item.at, t),
                                  !.solid = work.solid]]
    BY <1>2, <1>5, Zenon DEF splitTile
  <2>2. PICK stack : stack = IF item.features = <<>> THEN Front(work.stack)
                             ELSE Front(work.stack) \o Quarters(item.features, item.at, t)
    OBVIOUS
  <2>3. splitTile(tiles, work) =
          [tiles |-> Put(tiles, item.at, Sliced(t)),
           split |-> [work EXCEPT !.stack = stack, !.solid = work.solid]]
    BY <2>1, <2>2, Zenon
  <2>4. splitTile(tiles, work) =
          [tiles |-> Put(tiles, item.at, Sliced(t)),
           split |-> [stack |-> stack, target |-> work.target, solid |-> work.solid]]
    BY <1>1, <2>3, Zenon
  <2>5. QED
    BY <1>5, <2>2, <2>4, Zenon DEF TurnIs
<1>6. \/ StopsAt(t, item.at, work.target)
      \/ ~StopsAt(t, item.at, work.target) /\ ~SolidChildren /\ isClippedSquare(t, item.at)
      \/ ~StopsAt(t, item.at, work.target) /\ ~(~SolidChildren /\ isClippedSquare(t, item.at))
  BY Zenon
<1>7. QED
  BY <1>3, <1>4, <1>5, <1>6, Zenon

\* The quarters of a tile just split join what waits on the stack.
QuartersWait(tiles, target, v, rest, all) ==
  /\ \E S : all \in Seq(S)
  /\ StackOK(tiles, all, target)
  /\ Waiting(all) = Waiting(rest) \cup Quarter(v)

\* The quarters of a tile that was there as a leaf can be pushed on what waits.
LEMMA StackOfQuarters ==
  ASSUME NEW tiles, Tree(tiles), NEW v \in DOMAIN tiles, tiles[v].source = Null,
         \A c \in Quarter(v) : c \notin DOMAIN tiles,
         NEW target, target # Null => v[1] + 1 <= target[1],
         NEW S, NEW rest \in Seq(S), StackOK(tiles, rest, target),
         Waiting(rest) \cap Quarter(v) = {},
         NEW features, NEW t, NEW q, q = Quarters(features, v, t)
  PROVE  QuartersWait(tiles, target, v, rest, rest \o q)
<1>0. v \in Cell /\ Hangs(tiles, v) /\ v[1] \in Nat
  BY DEF Tree, Cell
<1>1. /\ Len(q) = 4
      /\ \E U : q \in Seq(U)
      /\ \A i \in 1..4 : q[i].at \in Quarter(v) /\ q[i].features # Null
      /\ \A c \in Quarter(v) : \E i \in 1..4 : q[i].at = c
      /\ \A i, j \in 1..4 : q[i].at = q[j].at => i = j
  BY <1>0, QuartersAreOfTheTile
<1>2. PICK U : q \in Seq(U)
  BY <1>1
<1>3. rest \in Seq(S \cup U) /\ q \in Seq(S \cup U)
  BY <1>2
<1>4. PICK n : n = Len(rest)
  OBVIOUS
<1>5. PICK all : all = rest \o q
  OBVIOUS
<1>6. n \in Nat /\ DOMAIN rest = 1..n
  BY <1>4
<1>7. /\ all \in Seq(S \cup U)
      /\ Len(all) = n + 4
      /\ \A i \in 1..n : all[i] = rest[i]
      /\ \A i \in 1..4 : all[n + i] = q[i]
  <2>1. rest \o q \in Seq(S \cup U)
    BY <1>3, ConcatProperties
  <2>2. Len(rest \o q) = n + 4
    <3>1. Len(rest \o q) = Len(rest) + Len(q)
      BY <1>3, ConcatProperties
    <3>2. QED
      BY <1>1, <1>4, <3>1
  <2>3. ASSUME NEW i \in 1..n PROVE (rest \o q)[i] = rest[i]
    <3>1. i \in 1..(Len(rest) + Len(q)) /\ i <= Len(rest)
      BY <1>1, <1>4, <1>6
    <3>2. QED
      BY <1>3, <3>1, ConcatProperties
  <2>4. ASSUME NEW i \in 1..4 PROVE (rest \o q)[n + i] = q[i]
    <3>1. n + i \in 1..(Len(rest) + Len(q)) /\ ~(n + i <= Len(rest)) /\ (n + i) - Len(rest) = i
      BY <1>1, <1>4, <1>6
    <3>2. (rest \o q)[n + i] = q[(n + i) - Len(rest)]
      BY <1>3, <3>1, ConcatProperties
    <3>3. QED
      BY <3>1, <3>2
  <2>5. QED
    BY <1>5, <2>1, <2>2, <2>3, <2>4
<1>8. DOMAIN all = 1..(n + 4)
  BY <1>6, <1>7
<1>9. ASSUME NEW i \in 1..(n + 4)
      PROVE  \/ i \in 1..n /\ all[i] = rest[i]
             \/ \E k \in 1..4 : i = n + k /\ all[i] = q[k]
  <2>1. CASE i <= n
    BY <1>6, <1>7, <2>1
  <2>2. CASE i > n
    <3>1. PICK k : k = i - n
      OBVIOUS
    <3>2. k \in 1..4 /\ i = n + k
      BY <1>6, <2>2, <3>1
    <3>3. QED
      BY <1>7, <3>2
  <2>3. QED
    BY <1>6, <2>1, <2>2
<1>10. Waiting(all) = Waiting(rest) \cup Quarter(v)
  <2>1. ASSUME NEW i \in DOMAIN all PROVE all[i].at \in Waiting(rest) \cup Quarter(v)
    BY <1>1, <1>6, <1>8, <1>9 DEF Waiting
  <2>2. ASSUME NEW i \in DOMAIN rest PROVE rest[i].at \in Waiting(all)
    <3>1. i \in DOMAIN all /\ all[i] = rest[i]
      BY <1>6, <1>7, <1>8
    <3>2. QED
      BY <3>1 DEF Waiting
  <2>3. ASSUME NEW c \in Quarter(v) PROVE c \in Waiting(all)
    <3>1. PICK k \in 1..4 : q[k].at = c
      BY <1>1
    <3>2. n + k \in DOMAIN all /\ all[n + k] = q[k]
      BY <1>6, <1>7, <1>8
    <3>3. QED
      BY <3>1, <3>2 DEF Waiting
  <2>4. Waiting(all) \subseteq Waiting(rest) \cup Quarter(v)
    BY <2>1 DEF Waiting
  <2>5. Waiting(rest) \subseteq Waiting(all)
    BY <2>2 DEF Waiting
  <2>6. QED
    BY <2>3, <2>4, <2>5
<1>11. ASSUME NEW c \in Quarter(v)
       PROVE  c \in Cell /\ Hangs(tiles, c) /\ c[1] = v[1] + 1 /\ c \notin DOMAIN tiles
  <2>1. c \in Cell /\ c[1] = v[1] + 1 /\ \A k \in 0..v[1] : Above(c, k) = Above(v, k)
    BY <1>0, QuarterFacts
  <2>2. Above(v, v[1]) = v
    BY <1>0, AboveItself
  <2>3. ASSUME NEW z \in 0..(c[1] - 1)
        PROVE  Above(c, z) \in DOMAIN tiles /\ tiles[Above(c, z)].source = Null
    <3>1. z \in 0..v[1] /\ (z = v[1] \/ z \in 0..(v[1] - 1))
      BY <1>0, <2>1
    <3>2. Above(c, z) = Above(v, z)
      BY <2>1, <3>1
    <3>3. QED
      BY <1>0, <2>2, <3>1, <3>2 DEF Hangs
  <2>4. QED
    BY <2>1, <2>3 DEF Hangs
<1>12. ASSUME NEW i \in DOMAIN all PROVE ItemOK(tiles, all[i], target)
  <2>1. CASE i \in 1..n /\ all[i] = rest[i]
    BY <1>6, <2>1 DEF StackOK
  <2>2. CASE \E k \in 1..4 : i = n + k /\ all[i] = q[k]
    <3>1. PICK k \in 1..4 : all[i] = q[k]
      BY <2>2
    <3>2. q[k].at \in Quarter(v) /\ q[k].features # Null
      BY <1>1
    <3>3. QED
      BY <1>11, <3>1, <3>2 DEF ItemOK
  <2>3. QED
    BY <1>8, <1>9, <2>1, <2>2
<1>13. ASSUME NEW i \in DOMAIN all, NEW j \in DOMAIN all, all[i].at = all[j].at PROVE i = j
  <2>1. \A k \in 1..n : rest[k].at \notin Quarter(v)
    BY <1>6 DEF Waiting
  <2>2. CASE i \in 1..n /\ all[i] = rest[i]
    <3>1. all[j].at \notin Quarter(v)
      BY <1>13, <2>1, <2>2
    <3>2. j \in 1..n /\ all[j] = rest[j]
      BY <1>1, <1>8, <1>9, <3>1
    <3>3. QED
      BY <1>6, <1>13, <2>2, <3>2 DEF StackOK
  <2>3. CASE \E k \in 1..4 : i = n + k /\ all[i] = q[k]
    <3>1. PICK k \in 1..4 : i = n + k /\ all[i] = q[k]
      BY <2>3
    <3>2. all[j].at \in Quarter(v)
      BY <1>1, <1>13, <3>1
    <3>3. PICK m \in 1..4 : j = n + m /\ all[j] = q[m]
      BY <1>8, <1>9, <2>1, <3>2
    <3>4. k = m
      BY <1>1, <1>13, <3>1, <3>3
    <3>5. QED
      BY <3>1, <3>3, <3>4
  <2>4. QED
    BY <1>8, <1>9, <2>2, <2>3
<1>14. StackOK(tiles, all, target)
  BY <1>12, <1>13 DEF StackOK
<1>15. QED
  BY <1>5, <1>7, <1>10, <1>14 DEF QuartersWait

\* A turn has taken the tile at v off the stack and put t there into the index, which is a
\* tree as before, and holds what it held if the quarters of t are waited for where its
\* features are dropped.
PutDone(tiles, work, v, t, next) ==
  /\ Tree(next)
  /\ DOMAIN next = DOMAIN tiles \cup {v}
  /\ next[v] = t
  /\ \A w \in Cell : Shows(tiles, w) => Shows(next, w)
  /\ \A s : IsSolid(tiles, s) => IsSolid(next, s)
  /\ \E S : Front(work.stack) \in Seq(S)
  /\ StackOK(next, Front(work.stack), work.target)
  /\ Waiting(work.stack) \subseteq Waiting(Front(work.stack)) \cup {v}
  /\ \A V : /\ Waiting(Front(work.stack)) \subseteq V
            /\ t.source = Null => t.features = <<>> \/ Quarter(v) \subseteq V
            => Held(next, V)

\* To put the tile on top of the stack into the index does all that a turn needs.
LEMMA PuttingIsDone ==
  ASSUME NEW tiles, Tree(tiles), NEW work, WorkOK(tiles, work), work.stack # <<>>,
         NEW v, v = Last(work.stack).at, NEW t, IsTile(t),
         t.source = <<>> => t.features = <<>>
  PROVE  PutDone(tiles, work, v, t, Put(tiles, v, t))
<1>1. PICK S : work.stack \in Seq(S)
  BY DEF WorkOK
<1>2. PICK stack, target : stack = work.stack /\ target = work.target
  OBVIOUS
<1>3. StackOK(tiles, stack, target) /\ stack \in Seq(S) /\ stack # <<>> /\ v = Last(stack).at
  BY <1>1, <1>2 DEF WorkOK
<1>4. PICK next : next = Put(tiles, v, t)
  OBVIOUS
<1>5. v \in Cell /\ Hangs(tiles, v)
  BY <1>3, PutOffTheStack
<1>6. v \in DOMAIN tiles => tiles[v].source # Null
  BY <1>3, PutOffTheStack
<1>7. v \in DOMAIN tiles => tiles[v].source # Null /\ ~isClippedSquare(tiles[v], v)
  BY <1>3, PutOffTheStack
<1>8. Waiting(stack) \subseteq Waiting(Front(stack)) \cup {v} /\ StackOK(next, Front(stack), target)
  BY <1>3, <1>4, PutOffTheStack
<1>9. Tree(next)
  BY <1>4, <1>5, <1>6, PutLeaf
<1>10. DOMAIN next = DOMAIN tiles \cup {v} /\ next[v] = t
  BY <1>4 DEF Put
<1>11. \A s : IsSolid(tiles, s) => IsSolid(next, s)
  BY <1>4, <1>5, <1>7, PutKeepsShown
<1>12. \A w \in Cell : Shows(tiles, w) => Shows(next, w)
  BY <1>4, <1>5, <1>7, PutKeepsShown
<1>13. Front(stack) \in Seq(S)
  BY <1>3, FrontFacts
<1>14. Held(tiles, Waiting(stack))
  BY <1>2 DEF WorkOK
<1>15. ASSUME NEW V, Waiting(Front(stack)) \subseteq V,
              t.source = Null => t.features = <<>> \/ Quarter(v) \subseteq V
       PROVE  Held(next, V)
  <2>1. PICK W : W = Waiting(stack)
    OBVIOUS
  <2>2. Held(tiles, W) /\ W \subseteq V \cup {v}
    BY <1>8, <1>14, <1>15, <2>1
  <2>3. QED
    BY <1>4, <1>15, <2>2, HeldAfterPut
<1>16. QED
  BY <1>2, <1>4, <1>8, <1>9, <1>10, <1>11, <1>12, <1>13, <1>15 DEF PutDone

\* The tile on top of the stack is one of those in order.
LEMMA LastIsOK ==
  ASSUME NEW tiles, NEW S, NEW stack \in Seq(S), stack # <<>>, NEW target,
         StackOK(tiles, stack, target)
  PROVE  ItemOK(tiles, Last(stack), target)
<1>1. Len(stack) \in DOMAIN stack /\ Last(stack) = stack[Len(stack)]
  BY FrontFacts DEF Last
<1>2. QED
  BY <1>1 DEF StackOK

\* The quarters of a tile that has its features are neither there nor waited for.
LEMMA NoQuartersYet ==
  ASSUME NEW tiles, Tree(tiles), NEW v \in Cell, v \in DOMAIN tiles => tiles[v].source # Null,
         NEW c \in Quarter(v)
  PROVE  ~Hangs(tiles, c) /\ c \notin DOMAIN tiles
<1>1. v[1] \in Nat /\ c[1] = v[1] + 1 /\ v[1] \in 0..(c[1] - 1) /\ v[1] \in 0..v[1]
  BY QuarterFacts DEF Cell
<1>2. Above(c, v[1]) = v
  BY <1>1, QuarterFacts, AboveItself
<1>3. ~Hangs(tiles, c)
  BY <1>1, <1>2 DEF Hangs
<1>4. QED
  BY <1>3 DEF Tree

\* A turn of splitTile is done, and its work is in order again.
TurnDone(tiles, work, next, later) ==
  /\ splitTile(tiles, work) = [tiles |-> next, split |-> later]
  /\ Tree(next)
  /\ WorkOK(next, later)
  /\ later.target = work.target
  /\ DOMAIN tiles \subseteq DOMAIN next
  /\ \A w \in Cell : Shows(tiles, w) => Shows(next, w)
  /\ Waiting(work.stack) \subseteq DOMAIN next \cup Waiting(later.stack)

\* When the stack after a turn is in order and waits for all that was waited for, so is
\* the work.
LEMMA WorkAfterTurn ==
  ASSUME NEW tiles, NEW work, WorkOK(tiles, work), NEW v, NEW t, NEW next,
         PutDone(tiles, work, v, t, next),
         NEW stack, \E S : stack \in Seq(S), StackOK(next, stack, work.target),
         Held(next, Waiting(stack)), Waiting(Front(work.stack)) \subseteq Waiting(stack),
         NEW solid, \/ solid = work.solid
                    \/ /\ work.target # Null
                       /\ solid \in 0..(work.target[1] - 1)
                       /\ IsSolid(next, Above(work.target, solid)),
         splitTile(tiles, work) =
           [tiles |-> next,
            split |-> [stack |-> stack, target |-> work.target, solid |-> solid]]
  PROVE  \E new, later : TurnDone(tiles, work, new, later)
<1>1. PICK later : later = [stack |-> stack, target |-> work.target, solid |-> solid]
  OBVIOUS
<1>2. later.stack = stack /\ later.target = work.target /\ later.solid = solid
  BY <1>1
<1>3. later = [stack |-> later.stack, target |-> later.target, solid |-> later.solid]
  BY <1>1
<1>4. /\ Tree(next)
      /\ DOMAIN next = DOMAIN tiles \cup {v}
      /\ \A w \in Cell : Shows(tiles, w) => Shows(next, w)
      /\ \A s : IsSolid(tiles, s) => IsSolid(next, s)
      /\ Waiting(work.stack) \subseteq Waiting(Front(work.stack)) \cup {v}
  BY Zenon DEF PutDone
<1>5. work.target = Null => solid = Null
  BY DEF WorkOK
<1>6. work.target # Null => InWorld(work.target) /\ <<0, 0, 0>> \in DOMAIN next
  BY <1>4 DEF WorkOK
<1>7. solid # Null => /\ solid \in 0..(work.target[1] - 1)
                      /\ IsSolid(next, Above(work.target, solid))
  BY <1>4 DEF WorkOK
<1>8. WorkOK(next, later)
  BY <1>2, <1>3, <1>5, <1>6, <1>7 DEF WorkOK
<1>9. Waiting(work.stack) \subseteq DOMAIN next \cup Waiting(later.stack)
  BY <1>2, <1>4
<1>10. splitTile(tiles, work) = [tiles |-> next, split |-> later]
  BY <1>1, Zenon
<1>11. DOMAIN tiles \subseteq DOMAIN next
  BY <1>4
<1>12. TurnDone(tiles, work, next, later)
  BY <1>2, <1>4, <1>8, <1>9, <1>10, <1>11 DEF TurnDone
<1>13. QED
  BY <1>12, Zenon

\* Whatever tile is on top of the stack, a turn keeps the index in order.
LEMMA TurnKeeps ==
  ASSUME NEW tiles, Tree(tiles), NEW work, WorkOK(tiles, work), work.stack # <<>>
  PROVE  \E next, later : TurnDone(tiles, work, next, later)
<1>1. PICK item : item = Last(work.stack)
  OBVIOUS
<1>2. PICK S : work.stack \in Seq(S)
  BY DEF WorkOK
<1>3. PICK v : v = item.at
  OBVIOUS
<1>4. PICK t : t = Looked(tiles, item)
  OBVIOUS
<1>5. StackOK(tiles, work.stack, work.target) /\ Held(tiles, Waiting(work.stack))
  BY DEF WorkOK
<1>6. ItemOK(tiles, item, work.target)
  BY <1>1, <1>2, <1>5, LastIsOK
<1>7. /\ v \in DOMAIN tiles => tiles[v].source = item.features
      /\ item.features # Null
      /\ v \in Cell
      /\ work.target # Null => v[1] <= work.target[1]
  BY <1>3, <1>6 DEF ItemOK
<1>8. IsTile(t) /\ t.source = item.features /\ (item.features = <<>> => t.features = <<>>)
  BY <1>3, <1>4, <1>5, <1>7, LookedIsTile
<1>9. v = Last(work.stack).at
  BY <1>1, <1>3
<1>10. PICK rest : rest = Front(work.stack)
  OBVIOUS
<1>11. ASSUME NEW solid, \/ solid = work.solid
                         \/ /\ work.target # Null
                            /\ solid \in 0..(work.target[1] - 1)
                            /\ IsSolid(Put(tiles, v, t), Above(work.target, solid)),
              splitTile(tiles, work) =
                [tiles |-> Put(tiles, v, t),
                 split |-> [stack |-> rest, target |-> work.target, solid |-> solid]]
       PROVE  \E next, later : TurnDone(tiles, work, next, later)
  <2>1. t.source = <<>> => t.features = <<>>
    BY <1>8
  <2>2. PICK next : next = Put(tiles, v, t)
    OBVIOUS
  <2>3. PutDone(tiles, work, v, t, next)
    BY <1>8, <1>9, <2>1, <2>2, PuttingIsDone
  <2>4. /\ \E U : rest \in Seq(U)
        /\ StackOK(next, rest, work.target)
        /\ \A V : /\ Waiting(rest) \subseteq V
                  /\ t.source = Null => t.features = <<>> \/ Quarter(v) \subseteq V
                  => Held(next, V)
    BY <1>10, <2>3, Zenon DEF PutDone
  <2>5. Held(next, Waiting(rest))
    BY <1>7, <1>8, <2>4
  <2>6. QED
    BY <1>10, <1>11, <2>2, <2>3, <2>4, <2>5, WorkAfterTurn
<1>12. CASE splitTile(tiles, work) =
              [tiles |-> Put(tiles, v, t),
               split |-> [stack |-> rest, target |-> work.target, solid |-> work.solid]]
  BY <1>11, <1>12, Zenon
<1>13. CASE /\ ~StopsAt(t, v, work.target)
            /\ isClippedSquare(t, v)
            /\ splitTile(tiles, work) =
                 [tiles |-> Put(tiles, v, t),
                  split |-> [stack |-> rest, target |-> work.target,
                             solid |-> IF work.target = Null THEN work.solid ELSE v[1]]]
  <2>1. CASE work.target = Null
    <3>1. splitTile(tiles, work) =
              [tiles |-> Put(tiles, v, t),
               split |-> [stack |-> rest, target |-> work.target, solid |-> work.solid]]
      BY <1>13, <2>1, Zenon
    <3>2. QED
      BY <1>12, <3>1
  <2>2. CASE work.target # Null
    <3>1. splitTile(tiles, work) =
              [tiles |-> Put(tiles, v, t),
               split |-> [stack |-> rest, target |-> work.target, solid |-> v[1]]]
      BY <1>13, <2>2, Zenon
    <3>2. v = Above(work.target, v[1]) /\ v[1] # work.target[1]
      BY <1>13, <2>2 DEF StopsAt
    <3>3. v[1] \in 0..(work.target[1] - 1)
      <4>1. v[1] \in Nat /\ work.target[1] \in Nat
        BY <1>7, <2>2 DEF Cell, WorkOK, InWorld
      <4>2. QED
        BY <1>7, <2>2, <3>2, <4>1
    <3>4. IsSolid(Put(tiles, v, t), Above(work.target, v[1]))
      <4>1. v \in DOMAIN Put(tiles, v, t) /\ Put(tiles, v, t)[v] = t
        BY DEF Put
      <4>2. QED
        BY <1>7, <1>8, <1>13, <3>2, <4>1 DEF IsSolid
    <3>5. QED
      BY <1>11, <2>2, <3>1, <3>3, <3>4, Zenon
  <2>3. QED
    BY <2>1, <2>2
<1>14. CASE /\ ~StopsAt(t, v, work.target)
            /\ splitTile(tiles, work) =
                 [tiles |-> Put(tiles, v, Sliced(t)),
                  split |-> [stack |-> IF item.features = <<>> THEN rest
                                       ELSE rest \o Quarters(item.features, v, t),
                             target |-> work.target, solid |-> work.solid]]
  <2>1. PICK next, s : next = Put(tiles, v, s) /\ s = Sliced(t)
    OBVIOUS
  <2>2. IsTile(s) /\ s.source = Null /\ s.features = t.features
    BY <1>8, <2>1, SlicedTile
  <2>3. s.source = <<>> => s.features = <<>>
    BY <2>2, NullAssumption
  <2>4. PutDone(tiles, work, v, s, next)
    BY <1>9, <2>1, <2>2, <2>3, PuttingIsDone
  <2>5. /\ Tree(next)
        /\ DOMAIN next = DOMAIN tiles \cup {v}
        /\ next[v] = s
        /\ \E U : rest \in Seq(U)
        /\ StackOK(next, rest, work.target)
        /\ \A V : /\ Waiting(rest) \subseteq V
                  /\ s.source = Null => s.features = <<>> \/ Quarter(v) \subseteq V
                  => Held(next, V)
    BY <1>10, <2>4, Zenon DEF PutDone
  <2>6. CASE item.features = <<>>
    <3>1. Held(next, Waiting(rest))
      BY <1>8, <2>2, <2>5, <2>6
    <3>2. splitTile(tiles, work) =
            [tiles |-> next,
             split |-> [stack |-> rest, target |-> work.target, solid |-> work.solid]]
      BY <1>14, <2>1, <2>6, Zenon
    <3>3. QED
      BY <1>10, <2>4, <2>5, <3>1, <3>2, WorkAfterTurn
  <2>7. CASE item.features # <<>>
    <3>1. PICK q, all : q = Quarters(item.features, v, t) /\ all = rest \o q
      OBVIOUS
    <3>2. splitTile(tiles, work) =
            [tiles |-> next,
             split |-> [stack |-> all, target |-> work.target, solid |-> work.solid]]
      BY <1>14, <2>1, <2>7, <3>1, Zenon
    <3>3. PICK U : rest \in Seq(U)
      BY <2>5
    <3>4. v \in DOMAIN tiles => tiles[v].source # Null
      BY <1>7
    <3>5. ASSUME NEW c \in Quarter(v) PROVE c \notin DOMAIN next /\ ~Hangs(tiles, c)
      <4>1. ~Hangs(tiles, c) /\ c \notin DOMAIN tiles
        BY <1>7, <3>4, <3>5, NoQuartersYet
      <4>2. c # v
        BY <1>7, <3>5, QuarterFacts DEF Cell
      <4>3. QED
        BY <2>5, <4>1, <4>2
    <3>6. Waiting(rest) \cap Quarter(v) = {}
      <4>1. ASSUME NEW i \in DOMAIN rest PROVE Hangs(tiles, rest[i].at)
        <5>1. i \in DOMAIN work.stack /\ rest[i] = work.stack[i]
          BY <1>2, <1>10, <4>1, FrontFacts
        <5>2. QED
          BY <1>5, <5>1 DEF StackOK, ItemOK
      <4>2. QED
        BY <3>5, <4>1 DEF Waiting
    <3>7. work.target # Null => v[1] + 1 <= work.target[1]
      <4>1. ASSUME work.target # Null PROVE v[1] # work.target[1]
        BY <1>14, <4>1 DEF StopsAt
      <4>2. ASSUME work.target # Null PROVE v[1] \in Nat /\ work.target[1] \in Nat
        BY <1>7, <4>2 DEF Cell, WorkOK, InWorld
      <4>3. QED
        BY <1>7, <4>1, <4>2
    <3>8. v \in DOMAIN next /\ next[v].source = Null
      BY <2>2, <2>5
    <3>9. PICK target : target = work.target
      OBVIOUS
    <3>10. /\ \E T : all \in Seq(T)
           /\ StackOK(next, all, target)
           /\ Waiting(all) = Waiting(rest) \cup Quarter(v)
      <4>1. \A c \in Quarter(v) : c \notin DOMAIN next
        BY <3>5
      <4>2. StackOK(next, rest, target) /\ (target # Null => v[1] + 1 <= target[1]) /\ Tree(next)
        BY <2>5, <3>7, <3>9
      <4>3. QED
        <5>1. QuartersWait(next, target, v, rest, rest \o q)
          BY <3>1, <3>3, <3>6, <3>8, <4>1, <4>2, StackOfQuarters
        <5>2. QuartersWait(next, target, v, rest, all)
          BY <3>1, <5>1
        <5>3. QED
          BY <5>2, Zenon DEF QuartersWait
    <3>11. Held(next, Waiting(all))
      BY <2>5, <3>10
    <3>12. Waiting(rest) \subseteq Waiting(all)
      BY <3>10
    <3>13. QED
      BY <1>10, <2>4, <3>2, <3>9, <3>10, <3>11, <3>12, WorkAfterTurn
  <2>8. QED
    BY <2>6, <2>7
<1>15. TurnIs(tiles, work, item, v, t, rest)
  <2>1. work = [stack |-> work.stack, target |-> work.target, solid |-> work.solid]
    BY DEF WorkOK
  <2>2. QED
    BY <1>1, <1>3, <1>4, <1>10, <2>1, TurnCases
<1>16. QED
  BY <1>12, <1>13, <1>14, <1>15, Zenon DEF TurnIs

-----------------------------------------------------------------------------
(* What getTile finds, and where. *)

\* An index whose splitting is over.
Ready(tiles) == Tree(tiles) /\ Rooted(tiles) /\ Held(tiles, {})

\* A place that the page may ask for above the top of the world, or beside the top when
\* there is nothing to show.
Outside(tiles, v) == /\ v[1] \in Int /\ v[1] <= 0
                     /\ v = <<v[1], v[2], v[3]>> /\ v[2] \in 0..1 /\ v[3] \in 0..1
                     /\ v[1] = 0 => tiles = <<>>

\* What getTile finds for v: a tile that shows it, or Null.
Finds(tiles, v, found) == /\ found = Null \/ found \in DOMAIN tiles
                          /\ found # Null => InWorld(v) /\ Shows(tiles, v)
                          /\ found = Null /\ v[1] = 0 => tiles = <<>>

\* Above the top of the world nothing is found.
LEMMA NothingOutside ==
  ASSUME NEW tiles, NEW v, v[1] < 0, InWorld(v) \/ Outside(tiles, v)
  PROVE  Finds(tiles, v, Null) /\ ~InWorld(v) /\ Outside(tiles, v)
<1>1. ~InWorld(v)
  BY DEF InWorld, Cell
<1>2. v[1] \in Int /\ v[1] # 0
  BY <1>1 DEF Outside
<1>3. QED
  BY <1>1, <1>2 DEF Finds

\* A place beside the top of the world.
LEMMA NothingThere ==
  ASSUME NEW v, Outside(<<>>, v), v[1] = 0
  PROVE  Wrapped(v) # Null /\ Closest(<<>>, Wrapped(v)) = Null
<1>1. v[2] \in Nat /\ v[3] \in Nat /\ z2[v[1]] = 1 /\ v[2] % 1 = 0
  BY Powers DEF Outside
<1>2. Wrapped(v) \in Cell
  BY <1>1 DEF Wrapped, Cell
<1>3. QED
  BY <1>2, NullAssumption DEF Closest, Cell

\* What the page finds when getTile does not split.
LEMMA FindsAtOnce ==
  ASSUME NEW tiles, Ready(tiles), NEW v, InWorld(v) \/ Outside(tiles, v), ~(v[1] < 0),
         NEW id, id = Wrapped(v), NEW begin, begin = Closest(tiles, id),
         ~Drills(tiles, id, begin),
         NEW found, found = IF Serves(tiles, id, begin) THEN begin ELSE Null
  PROVE  Finds(tiles, v, found) /\ (found = Null => ~(InWorld(v) /\ Shows(tiles, v)))
<1>1. CASE ~InWorld(v)
  <2>1. v[1] = 0 /\ tiles = <<>> /\ Outside(<<>>, v)
    <3>1. Outside(tiles, v) /\ v[1] \in Int /\ v[1] <= 0
      BY <1>1 DEF Outside
    <3>2. v[1] = 0
      BY <3>1
    <3>3. QED
      BY <3>1, <3>2 DEF Outside
  <2>2. id # Null /\ begin = Null
    BY <2>1, NothingThere
  <2>3. found = Null
    BY <2>2
  <2>4. QED
    BY <1>1, <2>1, <2>3 DEF Finds
<1>2. CASE InWorld(v)
  <2>1. id = v /\ v \in Cell
    BY <1>2, WrappedInWorld DEF InWorld
  <2>2. Tree(tiles) /\ Rooted(tiles)
    BY DEF Ready
  <2>3. CASE Serves(tiles, v, begin)
    <3>1. begin \in DOMAIN tiles /\ begin # Null /\ Shows(tiles, v)
      BY <2>1, <2>3, ServedIsShown
    <3>2. found = begin
      BY <2>1, <2>3
    <3>3. QED
      BY <1>2, <3>1, <3>2 DEF Finds
  <2>4. CASE ~Serves(tiles, v, begin)
    <3>1. found = Null
      BY <2>1, <2>4
    <3>2. ~Shows(tiles, v)
      BY <2>1, <2>2, <2>4, ShownIsServed
    <3>3. ASSUME v[1] = 0 PROVE tiles = <<>>
      <4>1. v = <<0, 0, 0>>
        BY <1>2, <3>3, TopOfTheWorld
      <4>2. v \notin DOMAIN tiles
        BY <3>2 DEF Shows
      <4>3. QED
        BY <2>2, <4>1, <4>2 DEF Rooted
    <3>4. QED
      BY <3>1, <3>2, <3>3 DEF Finds
  <2>5. QED
    BY <2>3, <2>4
<1>3. QED
  BY <1>1, <1>2

\* When getTile splits, the page is in the world, and the work is in order.
LEMMA DrillIsOK ==
  ASSUME NEW tiles, Ready(tiles), NEW v, InWorld(v) \/ Outside(tiles, v), ~(v[1] < 0),
         NEW id, id = Wrapped(v), NEW begin, begin = Closest(tiles, id),
         Drills(tiles, id, begin),
         NEW work, work = splitting(tiles[begin].source, begin, id)
  PROVE  InWorld(v) /\ ~Shows(tiles, v) /\ WorkOK(tiles, work) /\ work.target = v /\ v # Null
<1>1. InWorld(v)
  <2>1. ASSUME ~InWorld(v) PROVE FALSE
    <3>1. Outside(tiles, v) /\ v[1] \in Int /\ v[1] <= 0
      BY <2>1 DEF Outside
    <3>2. v[1] = 0 /\ tiles = <<>> /\ Outside(<<>>, v)
      <4>1. v[1] = 0
        BY <3>1
      <4>2. QED
        BY <3>1, <4>1 DEF Outside
    <3>3. begin = Null
      BY <3>2, NothingThere
    <3>4. QED
      BY <3>3 DEF Drills
  <2>2. QED
    BY <2>1
<1>2. id = v /\ v \in Cell /\ v # Null
  BY <1>1, WrappedInWorld, NullAssumption DEF InWorld, Cell
<1>3. Tree(tiles) /\ Rooted(tiles) /\ Held(tiles, {})
  BY DEF Ready
<1>4. ~Shows(tiles, v)
  BY <1>2, <1>3, ShownIsServed
<1>5. begin # Null /\ tiles[begin].source # Null /\ ~isClippedSquare(tiles[begin], begin)
  BY DEF Drills
<1>6. PICK m \in 0..v[1] : begin = Above(v, m) /\ begin \in DOMAIN tiles
  BY <1>2, <1>5, ClosestIsLast
<1>7. begin \in Cell /\ begin[1] = m /\ m \in Nat /\ m <= v[1]
  BY <1>2, <1>6, AboveIsCell DEF Cell
<1>8. PICK item : item = [features |-> tiles[begin].source, at |-> begin]
  OBVIOUS
<1>9. item.features = tiles[begin].source /\ item.at = begin
  BY <1>8
<1>10. Hangs(tiles, begin)
  BY <1>3, <1>6 DEF Tree
<1>11. ItemOK(tiles, item, v)
  BY <1>5, <1>6, <1>7, <1>9, <1>10 DEF ItemOK
<1>12. /\ work.stack = <<item>> /\ work.target = v /\ work.solid = Null
       /\ work = [stack |-> work.stack, target |-> work.target, solid |-> work.solid]
  BY <1>2, <1>8 DEF splitting
<1>13. <<item>> \in Seq({item}) /\ DOMAIN <<item>> = {1} /\ <<item>>[1] = item
  OBVIOUS
<1>14. StackOK(tiles, <<item>>, v)
  BY <1>11, <1>13 DEF StackOK
<1>15. Held(tiles, Waiting(<<item>>))
  BY <1>3 DEF Held
<1>16. <<0, 0, 0>> \in DOMAIN tiles
  BY <1>3, <1>6 DEF Rooted
<1>17. WorkOK(tiles, work)
  BY <1>1, <1>2, <1>12, <1>13, <1>14, <1>15, <1>16 DEF WorkOK
<1>18. QED
  BY <1>1, <1>2, <1>4, <1>12, <1>17

\* When a drill is over, the page finds what was made.
LEMMA DrillFinds ==
  ASSUME NEW tiles, Tree(tiles), NEW work, WorkOK(tiles, work), work.stack = <<>>,
         work.target # Null
  PROVE  Finds(tiles, work.target, Made(tiles, work)) /\ Ready(tiles)
<1>1. PICK v, solid, found : v = work.target /\ solid = work.solid /\ found = Made(tiles, work)
  OBVIOUS
<1>2. /\ InWorld(v) /\ <<0, 0, 0>> \in DOMAIN tiles
      /\ Held(tiles, Waiting(<<>>))
      /\ solid # Null => solid \in 0..(v[1] - 1) /\ IsSolid(tiles, Above(v, solid))
  BY <1>1 DEF WorkOK
<1>3. Waiting(<<>>) = {}
  BY DEF Waiting
<1>4. Ready(tiles)
  BY <1>2, <1>3 DEF Ready, Rooted
<1>5. v \in Cell /\ v[1] \in Nat
  BY <1>2 DEF InWorld, Cell
<1>6. CASE solid = Null
  <2>1. found = IF v \in DOMAIN tiles THEN v ELSE Null
    BY <1>1, <1>6 DEF Made
  <2>2. v[1] = 0 => v \in DOMAIN tiles
    BY <1>2, TopOfTheWorld
  <2>3. v # Null
    BY <1>5, NullAssumption DEF Cell
  <2>4. Finds(tiles, v, found)
    BY <1>2, <2>1, <2>2, <2>3 DEF Finds, Shows
  <2>5. QED
    BY <1>1, <1>4, <2>4
<1>7. CASE solid # Null
  <2>1. PICK a : a = Above(v, solid)
    OBVIOUS
  <2>2. solid \in 0..(v[1] - 1) /\ IsSolid(tiles, a) /\ solid \in 0..v[1]
    BY <1>2, <1>5, <1>7, <2>1
  <2>3. a \in DOMAIN tiles /\ a \in Cell
    BY <1>5, <2>1, <2>2, AboveIsCell DEF IsSolid
  <2>4. found = a /\ a # Null
    <3>1. a # Null
      BY <2>3, NullAssumption DEF Cell
    <3>2. found = IF a \in DOMAIN tiles THEN a ELSE Null
      BY <1>1, <1>7, <2>1 DEF Made
    <3>3. QED
      BY <2>3, <3>1, <3>2
  <2>5. Shows(tiles, v)
    BY <2>1, <2>2 DEF Shows
  <2>6. Finds(tiles, v, found)
    BY <1>2, <2>3, <2>4, <2>5 DEF Finds
  <2>7. QED
    BY <1>1, <1>4, <2>6
<1>8. QED
  BY <1>6, <1>7

\* When the first pass is over, the index is ready.
LEMMA FirstPassIsOver ==
  ASSUME NEW tiles, Tree(tiles), NEW work, WorkOK(tiles, work), work.stack = <<>>,
         <<0, 0, 0>> \in DOMAIN tiles \cup Waiting(work.stack)
  PROVE  Ready(tiles)
<1>1. Held(tiles, Waiting(<<>>))
  BY DEF WorkOK
<1>2. Waiting(<<>>) = {}
  BY DEF Waiting
<1>3. QED
  BY <1>1, <1>2 DEF Ready, Rooted

\* The place that the page is at after it has found a tile, or none.
NextPlace(v, found) == IF found = Null THEN zoomOut(v) ELSE v

\* The page is in the world, or above its top.
IsPlace(tiles, v) == \/ InWorld(v)
                     \/ /\ v[1] \in Int /\ v[1] < 0 /\ v = <<v[1], 0, 0>>
                        /\ v[1] = -1 => tiles = <<>>

\* Wherever drawTile leaves the page, it is in the world or above its top.
LEMMA NextPlaceIsOK ==
  ASSUME NEW tiles, NEW v, InWorld(v) \/ Outside(tiles, v), NEW found, Finds(tiles, v, found),
         NEW to, to = NextPlace(v, found)
  PROVE  IsPlace(tiles, to)
<1>1. CASE found # Null
  BY <1>1 DEF Finds, NextPlace, IsPlace
<1>2. CASE found = Null
  <2>1. to = <<v[1] - 1, v[2] \div 2, v[3] \div 2>> /\ to = zoomOut(v)
    BY <1>2 DEF NextPlace, zoomOut
  <2>2. v[1] = 0 => tiles = <<>>
    BY <1>2 DEF Finds
  <2>3. CASE InWorld(v) /\ v[1] # 0
    <3>1. v \in Cell /\ v[1] > 0
      BY <2>3 DEF InWorld, Cell
    <3>2. QED
      BY <2>1, <2>3, <3>1, AboveZoomOut DEF IsPlace
  <2>4. CASE InWorld(v) /\ v[1] = 0
    <3>1. v = <<0, 0, 0>>
      BY <2>4, TopOfTheWorld
    <3>2. to = <<-1, 0, 0>>
      BY <2>1, <3>1
    <3>3. QED
      BY <2>2, <2>4, <3>2 DEF IsPlace
  <2>5. CASE Outside(tiles, v)
    <3>1. /\ v[1] \in Int /\ v[1] <= 0 /\ v[2] \in 0..1 /\ v[3] \in 0..1
      BY <2>5 DEF Outside
    <3>2. v[2] \div 2 = 0 /\ v[3] \div 2 = 0
      BY <3>1
    <3>3. to = <<v[1] - 1, 0, 0>> /\ to[1] = v[1] - 1
      BY <2>1, <3>2
    <3>4. to[1] = -1 => tiles = <<>>
      BY <2>2, <3>1, <3>3
    <3>5. QED
      BY <3>1, <3>3, <3>4 DEF IsPlace
  <2>6. QED
    BY <2>3, <2>4, <2>5
<1>3. QED
  BY <1>1, <1>2

-----------------------------------------------------------------------------
(* The handlers of the page. *)

\* The picture drawn last is of the file.
OfPicture(of) == canvas # Null /\ canvas.file = of

\* A handler of event e that has the index tiles, of a file, asks for the tile at v.
Asks(tiles, of, v, e) ==
  /\ drops \in Nat
  /\ button \in BOOLEAN
  /\ e \in {"load", "click", "back"}
  /\ of \in (1..drops) \X Files
  /\ InWorld(at) \/ (at[1] \in Int /\ at[1] < 0 /\ at = <<at[1], 0, 0>>)
  /\ InWorld(v) \/ Outside(tiles, v)
  /\ e = "load" => /\ v = at
                   /\ ~OfPicture(of)
                   /\ drops = 1 => at = <<0, 0, 0>> /\ ~button
  /\ e = "click" => /\ zoomOut(v) = at
                    /\ v[1] = at[1] + 1
                    /\ InWorld(at) => v \in Quarter(at)
                    /\ OfPicture(of) => \/ at[1] < 0
                                        \/ (InWorld(at) /\ canvas.at = at /\ Shows(tiles, at))
                    /\ drops = 1 /\ tiles # <<>> => /\ InWorld(at)
                                                    /\ Shows(tiles, at)
                                                    /\ button => at[1] > 0
  /\ e = "back" => /\ v = zoomOut(at)
                   /\ OfPicture(of) => at[1] < 0 \/ (InWorld(at) /\ Shows(tiles, at))
                   /\ drops = 1 /\ tiles # <<>> => InWorld(at) /\ Shows(tiles, at) /\ at[1] > 0

\* What the handler does besides.
Besides(of) == /\ file' = of
               /\ drops' = drops
               /\ reading' \subseteq (1..drops) \X Files
               /\ of \notin reading'
               /\ canvas # Null => canvas.file \notin reading'
               /\ drops = 1 => reading' = {}

\* The tile above one that is shown is found.
LEMMA BackFinds ==
  ASSUME NEW tiles, Tree(tiles), NEW v, InWorld(v), Shows(tiles, v), v[1] > 0
  PROVE  InWorld(zoomOut(v)) /\ Shows(tiles, zoomOut(v))
<1>1. v \in Cell
  BY DEF InWorld
<1>2. QED
  BY <1>1, AboveZoomOut, ShownAbove

\* The end of a handler, where the picture is drawn or the page moves up, keeps the
\* invariant: a click that finds no tile goes back to where it was.
LEMMA DrawKeeps ==
  ASSUME NEW tiles, Ready(tiles), NEW of, NEW v, NEW e, Asks(tiles, of, v, e), Besides(of),
         NEW found, Finds(tiles, v, found), draw(tiles, of, v, found, e),
         e = "back" /\ found = Null => \/ ~(InWorld(v) /\ Shows(tiles, v))
                                       \/ (~OfPicture(of) /\ drops # 1)
  PROVE  IInv'
<1>1. PICK to, new : to = NextPlace(v, found) /\ new = Returned(tiles, found)
  OBVIOUS
<1>2. /\ tileIndex' = new
      /\ at' = to
      /\ canvas' = (IF found = Null THEN canvas ELSE [file |-> of, at |-> v, tile |-> found])
      /\ button' = ButtonAfter(e, to)
      /\ call' = Idle
  BY <1>1 DEF draw, NextPlace
<1>3. file' = of /\ drops' = drops
  BY DEF Besides
<1>4. Tree(tiles) /\ Rooted(tiles) /\ Held(tiles, {}) /\ (found = Null \/ found \in DOMAIN tiles)
  BY DEF Ready, Finds
<1>5. /\ Tree(new) /\ Rooted(new) /\ Held(new, {})
      /\ \A w \in Cell : Shows(tiles, w) => Shows(new, w)
  BY <1>1, <1>4, ReturnedKeeps
<1>6. tiles = <<>> => new = <<>>
  BY <1>1, <1>4 DEF Returned
<1>7. call'.event = "none"
  BY <1>2 DEF Idle
<1>8. /\ drops \in Nat
      /\ of \in (1..drops) \X Files
      /\ of # Null
      /\ drops # 0
  BY NullAssumption DEF Asks
<1>9. button' \in BOOLEAN
  BY <1>2 DEF Asks, ButtonAfter
<1>10. \/ InWorld(to)
       \/ /\ to[1] \in Int /\ to[1] < 0 /\ to = <<to[1], 0, 0>>
          /\ to[1] = -1 => new = <<>>
  <2>1. InWorld(v) \/ Outside(tiles, v)
    BY DEF Asks
  <2>2. IsPlace(tiles, to)
    BY <1>1, <2>1, NextPlaceIsOK
  <2>3. QED
    BY <1>6, <2>2, Zenon DEF IsPlace
<1>11. ASSUME e = "back", found = Null, ~(~OfPicture(of) /\ drops # 1), InWorld(at), Shows(tiles, at)
       PROVE  ~(at[1] > 0) /\ at[1] \in Nat /\ to[1] < 0
  <2>1. ~(InWorld(v) /\ Shows(tiles, v)) /\ v = zoomOut(at)
    BY <1>11 DEF Asks
  <2>2. ~(at[1] > 0) /\ at[1] \in Nat
    BY <1>4, <1>11, <2>1, BackFinds DEF InWorld, Cell
  <2>3. to[1] = at[1] - 1 - 1
    BY <1>1, <1>11, <2>1 DEF NextPlace, zoomOut
  <2>4. QED
    BY <2>2, <2>3
<1>12. ASSUME found = Null, OfPicture(of)
       PROVE  to[1] < 0 \/ (InWorld(to) /\ canvas.at = to /\ Shows(new, to))
  <2>1. CASE e = "load"
    BY <1>12, <2>1 DEF Asks
  <2>2. CASE e = "click"
    <3>1. to = at
      BY <1>1, <1>12, <2>2 DEF NextPlace, Asks
    <3>2. at[1] < 0 \/ (InWorld(at) /\ canvas.at = at /\ Shows(tiles, at))
      BY <1>12, <2>2, Zenon DEF Asks
    <3>3. InWorld(at) => at \in Cell
      BY DEF InWorld
    <3>4. QED
      BY <1>5, <3>1, <3>2, <3>3, Zenon
  <2>3. CASE e = "back"
    <3>1. at[1] < 0 \/ (InWorld(at) /\ Shows(tiles, at))
      BY <1>12, <2>3, Zenon DEF Asks
    <3>2. CASE at[1] < 0
      <4>1. to[1] = at[1] - 1 - 1
        BY <1>1, <1>12, <2>3 DEF NextPlace, zoomOut, Asks
      <4>2. at[1] \in Int
        <5>1. InWorld(at) \/ at[1] \in Int
          BY Zenon DEF Asks
        <5>2. QED
          BY <5>1 DEF InWorld, Cell
      <4>3. QED
        BY <3>2, <4>1, <4>2
    <3>3. CASE InWorld(at) /\ Shows(tiles, at)
      BY <1>11, <1>12, <2>3, <3>3, Zenon
    <3>4. QED
      BY <3>1, <3>2, <3>3
  <2>4. QED
    BY <2>1, <2>2, <2>3 DEF Asks
<1>13. ASSUME found # Null
       PROVE  to = v /\ InWorld(to) /\ Shows(new, to)
  BY <1>1, <1>5, <1>13 DEF NextPlace, Finds, InWorld
<1>14. ASSUME drops = 1, tiles # <<>>
       PROVE  InWorld(to) /\ Shows(new, to) /\ (button' => to[1] > 0)
  <2>1. CASE e = "load"
    <3>1. v = <<0, 0, 0>> /\ ~button
      BY <1>14, <2>1 DEF Asks
    <3>2. found # Null
      BY <1>14, <3>1 DEF Finds
    <3>3. ~button'
      BY <1>2, <2>1, <3>1 DEF ButtonAfter
    <3>4. QED
      BY <1>13, <3>2, <3>3
  <2>2. CASE e = "click"
    <3>1. InWorld(at) /\ Shows(tiles, at) /\ (button => at[1] > 0) /\ zoomOut(v) = at /\ v[1] = at[1] + 1
      BY <1>14, <2>2 DEF Asks
    <3>2. button' <=> (button \/ to[1] > 0)
      BY <1>2, <2>2 DEF ButtonAfter
    <3>3. CASE found = Null
      <4>1. to = at
        BY <1>1, <3>1, <3>3 DEF NextPlace
      <4>2. QED
        BY <1>5, <3>1, <3>2, <4>1 DEF InWorld
    <3>4. CASE found # Null
      <4>1. to = v /\ InWorld(to) /\ Shows(new, to)
        BY <1>13, <3>4
      <4>2. to[1] > 0
        BY <3>1, <4>1 DEF InWorld, Cell
      <4>3. QED
        BY <4>1, <4>2
    <3>5. QED
      BY <3>3, <3>4
  <2>3. CASE e = "back"
    <3>1. InWorld(at) /\ Shows(tiles, at) /\ at[1] > 0
      BY <1>14, <2>3 DEF Asks
    <3>2. found # Null
      BY <1>11, <1>14, <2>3, <3>1
    <3>3. button' <=> to[1] # 0
      BY <1>2, <2>3 DEF ButtonAfter
    <3>4. to = v /\ InWorld(to) /\ Shows(new, to)
      BY <1>13, <3>2
    <3>5. to[1] \in Nat
      BY <3>4 DEF InWorld, Cell
    <3>6. QED
      BY <3>3, <3>4, <3>5
  <2>4. QED
    BY <2>1, <2>2, <2>3 DEF Asks
<1>15. Matches' => \/ at'[1] < 0
                   \/ (InWorld(at') /\ (canvas.at)' = at' /\ Shows(tileIndex', at'))
  <2>1. CASE found = Null
    <3>1. canvas' = canvas
      BY <1>2, <2>1
    <3>2. Matches' => OfPicture(of)
      BY <1>3, <3>1 DEF Matches, OfPicture
    <3>3. QED
      BY <1>2, <1>12, <2>1, <3>1, <3>2
  <2>2. CASE found # Null
    <3>1. canvas' = [file |-> of, at |-> v, tile |-> found]
      BY <1>2, <2>2
    <3>2. (canvas.at)' = v
      BY <3>1
    <3>3. QED
      BY <1>2, <1>13, <2>2, <3>2
  <2>3. QED
    BY <2>1, <2>2
<1>16. ReadsOK'
  <2>1. canvas' = canvas \/ canvas' = [file |-> of, at |-> v, tile |-> found]
    BY <1>2
  <2>2. canvas' # Null => (canvas.file)' \notin reading'
    BY <1>3, <2>1 DEF Besides
  <2>3. QED
    BY <1>3, <1>8, <2>2 DEF ReadsOK, Besides
<1>17. PlaceOK'
  BY <1>2, <1>10 DEF PlaceOK
<1>18. CallOK'
  BY <1>7 DEF CallOK
<1>19. OneFile'
  <2>1. drops = 1 => reading' = {}
    BY DEF Besides
  <2>2. QED
    BY <1>2, <1>3, <1>6, <1>7, <1>8, <1>14, <2>1 DEF OneFile
<1>20. QED
  BY <1>2, <1>3, <1>5, <1>7, <1>8, <1>9, <1>15, <1>16, <1>17, <1>18, <1>19 DEF IInv

\* When the handler splits tiles, it has asked for a tile that is not shown: a click has
\* gone down from a place in the world, and with one file the button never gets here.
LEMMA SplitKeeps ==
  ASSUME NEW tiles, Tree(tiles), NEW of, NEW v, NEW e, Asks(tiles, of, v, e), Besides(of),
         NEW work, WorkOK(tiles, work), split(tiles, v, work, e),
         \/ work.target = v /\ v # Null /\ InWorld(v) /\ ~Shows(tiles, v)
         \/ work.target = Null /\ e = "load" /\ <<0, 0, 0>> \in DOMAIN tiles \cup Waiting(work.stack)
  PROVE  IInv'
<1>1. /\ tileIndex' = tiles
      /\ call' = [event |-> e, v |-> v, work |-> work]
      /\ at' = at /\ canvas' = canvas /\ button' = button
      /\ file' = of /\ drops' = drops
  BY DEF split, Besides
<1>2. (call.event)' = e /\ (call.v)' = v /\ (call.work)' = work
  BY <1>1
<1>3. /\ drops \in Nat /\ button \in BOOLEAN /\ e \in {"load", "click", "back"}
      /\ of \in (1..drops) \X Files /\ of # Null /\ drops # 0
  BY NullAssumption DEF Asks
<1>4. ASSUME e \in {"click", "back"}
      PROVE  work.target = v /\ InWorld(v) /\ ~Shows(tiles, v) /\ tiles # <<>> /\ v[1] \in Nat
  <2>1. work.target = v /\ v # Null /\ InWorld(v) /\ ~Shows(tiles, v)
    BY <1>4
  <2>2. <<0, 0, 0>> \in DOMAIN tiles
    BY <2>1 DEF WorkOK
  <2>3. QED
    BY <2>1, <2>2 DEF InWorld, Cell
<1>5. ASSUME e = "click" PROVE InWorld(at) /\ v \in Quarter(at)
  <2>1. CASE InWorld(at)
    BY <1>5, <2>1 DEF Asks
  <2>2. CASE ~InWorld(at)
    <3>1. at[1] \in Int /\ at[1] < 0 /\ v[1] = at[1] + 1
      BY <1>5, <2>2 DEF Asks
    <3>2. v[1] = 0
      BY <1>4, <1>5, <3>1
    <3>3. v = <<0, 0, 0>> /\ v # Null
      BY <1>4, <1>5, <3>2, TopOfTheWorld
    <3>4. v \in DOMAIN tiles
      BY <1>4, <1>5, <3>3 DEF WorkOK
    <3>5. QED
      BY <1>4, <1>5, <3>4 DEF Shows
  <2>3. QED
    BY <2>1, <2>2
<1>6. ASSUME e = "back", InWorld(at), Shows(tiles, at) PROVE FALSE
  <2>1. v = zoomOut(at) /\ v[1] = at[1] - 1
    BY <1>6 DEF Asks, zoomOut
  <2>2. at[1] \in Nat /\ at[1] > 0
    BY <1>4, <1>6, <2>1 DEF InWorld, Cell
  <2>3. QED
    BY <1>4, <1>6, <2>1, <2>2, BackFinds
<1>7. ASSUME e = "back" PROVE v = zoomOut(at) /\ ~OfPicture(of) /\ drops # 1
  <2>1. v = zoomOut(at) /\ v[1] = at[1] - 1
    BY <1>7 DEF Asks, zoomOut
  <2>2. ~(at[1] < 0)
    <3>1. ASSUME at[1] < 0 PROVE FALSE
      <4>1. at[1] \in Int
        <5>1. InWorld(at) \/ at[1] \in Int
          BY Zenon DEF Asks
        <5>2. QED
          BY <5>1 DEF InWorld, Cell
      <4>2. QED
        BY <1>4, <1>7, <2>1, <3>1, <4>1
    <3>2. QED
      BY <3>1
  <2>3. ~OfPicture(of)
    BY <1>6, <1>7, <2>2, Zenon DEF Asks
  <2>4. drops # 1
    BY <1>4, <1>6, <1>7, Zenon DEF Asks
  <2>5. QED
    BY <2>1, <2>3, <2>4
<1>8. ASSUME e = "load" PROVE v = at /\ ~OfPicture(of) /\ (drops = 1 => at = <<0, 0, 0>> /\ ~button)
  BY <1>8, Zenon DEF Asks
<1>9. Matches' <=> OfPicture(of)
  BY <1>1 DEF Matches, OfPicture
<1>10. CallOK'
  <2>1. /\ work.target # Null => work.target = v
        /\ work.target = Null => /\ e = "load"
                                 /\ <<0, 0, 0>> \in DOMAIN tiles \cup Waiting(work.stack)
    OBVIOUS
  <2>2. (call.v)' = at' <=> v = at
    BY <1>1, <1>2
  <2>3. call' = [event |-> (call.event)', v |-> (call.v)', work |-> (call.work)']
    BY <1>1, <1>2
  <2>4. QED
    BY <1>1, <1>2, <1>3, <1>5, <1>7, <1>8, <1>9, <2>1, <2>2, <2>3 DEF CallOK
<1>11. Matches' => at'[1] < 0 \/ (InWorld(at') /\ (canvas.at)' = at' /\ Shows(tileIndex', at'))
  <2>1. CASE e = "click"
    <3>1. OfPicture(of) => at[1] < 0 \/ (InWorld(at) /\ canvas.at = at /\ Shows(tiles, at))
      BY <2>1, Zenon DEF Asks
    <3>2. QED
      BY <1>1, <1>9, <3>1
  <2>2. CASE e # "click"
    BY <1>3, <1>7, <1>8, <1>9, <2>2
  <2>3. QED
    BY <2>1, <2>2
<1>12. PlaceOK'
  <2>1. InWorld(at) \/ (at[1] \in Int /\ at[1] < 0 /\ at = <<at[1], 0, 0>>)
    BY Zenon DEF Asks
  <2>2. (call.event)' # "none"
    BY <1>2, <1>3
  <2>3. QED
    BY <1>1, <2>1, <2>2 DEF PlaceOK
<1>13. ReadsOK'
  BY <1>1, <1>3 DEF ReadsOK, Besides
<1>14. OneFile'
  <2>1. ASSUME drops = 1, e # "load", tiles # <<>>
        PROVE  InWorld(at) /\ Shows(tiles, at) /\ (button => at[1] > 0)
    <3>1. e = "click"
      BY <1>3, <1>7, <2>1
    <3>2. QED
      BY <2>1, <3>1, Zenon DEF Asks
  <2>2. drops = 1 => reading' = {}
    BY DEF Besides
  <2>3. QED
    BY <1>1, <1>2, <1>3, <1>8, <2>1, <2>2 DEF OneFile
<1>15. QED
  BY <1>1, <1>2, <1>3, <1>10, <1>11, <1>12, <1>13, <1>14 DEF IInv

\* The whole of drawTile keeps the invariant, whatever event it handles.
LEMMA DrawTileKeeps ==
  ASSUME NEW tiles, Ready(tiles), NEW of, NEW v, NEW e, Asks(tiles, of, v, e), Besides(of),
         drawTile(tiles, of, v, e)
  PROVE  IInv'
<1>1. InWorld(v) \/ Outside(tiles, v)
  BY Zenon DEF Asks
<1>2. CASE v[1] < 0 /\ draw(tiles, of, v, Null, e)
  <2>1. Finds(tiles, v, Null) /\ ~InWorld(v)
    BY <1>1, <1>2, NothingOutside
  <2>2. QED
    BY <1>2, <2>1, DrawKeeps
<1>3. CASE v[1] >= 0
  <2>1. ~(v[1] < 0)
    <3>1. v[1] \in Int
      BY <1>1 DEF InWorld, Cell, Outside
    <3>2. QED
      BY <1>3, <3>1
  <2>2. PICK id, begin : id = Wrapped(v) /\ begin = Closest(tiles, id)
    OBVIOUS
  <2>3. \/ /\ Drills(tiles, id, begin)
           /\ split(tiles, v, splitting(tiles[begin].source, begin, id), e)
        \/ /\ ~Drills(tiles, id, begin)
           /\ draw(tiles, of, v, IF Serves(tiles, id, begin) THEN begin ELSE Null, e)
    BY <2>1, <2>2, Zenon DEF drawTile
  <2>4. CASE /\ Drills(tiles, id, begin)
             /\ split(tiles, v, splitting(tiles[begin].source, begin, id), e)
    <3>1. PICK work : work = splitting(tiles[begin].source, begin, id)
      OBVIOUS
    <3>2. InWorld(v) /\ ~Shows(tiles, v) /\ WorkOK(tiles, work) /\ work.target = v /\ v # Null
      BY <1>1, <2>1, <2>2, <2>4, <3>1, DrillIsOK
    <3>3. split(tiles, v, work, e) /\ Tree(tiles)
      BY <2>4, <3>1 DEF Ready
    <3>4. QED
      BY <3>2, <3>3, SplitKeeps
  <2>5. CASE /\ ~Drills(tiles, id, begin)
             /\ draw(tiles, of, v, IF Serves(tiles, id, begin) THEN begin ELSE Null, e)
    <3>1. PICK found : found = IF Serves(tiles, id, begin) THEN begin ELSE Null
      OBVIOUS
    <3>2. Finds(tiles, v, found) /\ (found = Null => ~(InWorld(v) /\ Shows(tiles, v)))
      BY <1>1, <2>1, <2>2, <2>5, <3>1, FindsAtOnce
    <3>3. draw(tiles, of, v, found, e)
      BY <2>5, <3>1
    <3>4. QED
      BY <3>2, <3>3, DrawKeeps
  <2>6. QED
    BY <2>3, <2>4, <2>5
<1>4. QED
  BY <1>2, <1>3, Zenon DEF drawTile

\* An index without features has no tiles, and needs none.
LEMMA EmptyIsReady == Ready(<<>>)
BY DEF Ready, Tree, Rooted, Held

\* The first pass of splitTile begins at the top of the world.
LEMMA FirstPassIsOK ==
  ASSUME NEW features, features # Null,
         NEW work, work = splitting(features, <<0, 0, 0>>, Null)
  PROVE  /\ WorkOK(<<>>, work)
         /\ work.target = Null
         /\ <<0, 0, 0>> \in Waiting(work.stack)
<1>1. PICK item : item = [features |-> features, at |-> <<0, 0, 0>>]
  OBVIOUS
<1>2. item.features = features /\ item.at = <<0, 0, 0>> /\ item.at \in Cell /\ item.at[1] = 0
  BY <1>1 DEF Cell
<1>3. /\ work.stack = <<item>> /\ work.target = Null /\ work.solid = Null
      /\ work = [stack |-> work.stack, target |-> work.target, solid |-> work.solid]
  BY <1>1 DEF splitting
<1>4. <<item>> \in Seq({item}) /\ DOMAIN <<item>> = {1} /\ <<item>>[1] = item
  OBVIOUS
<1>5. Hangs(<<>>, item.at)
  BY <1>2 DEF Hangs
<1>6. ItemOK(<<>>, item, Null)
  BY <1>2, <1>5 DEF ItemOK
<1>7. StackOK(<<>>, <<item>>, Null)
  BY <1>4, <1>6 DEF StackOK
<1>8. Held(<<>>, Waiting(<<item>>))
  BY DEF Held
<1>9. WorkOK(<<>>, work)
  BY <1>3, <1>4, <1>7, <1>8 DEF WorkOK
<1>10. <<0, 0, 0>> \in Waiting(<<item>>)
  BY <1>2, <1>4 DEF Waiting
<1>11. QED
  BY <1>3, <1>9, <1>10

\* Before a file is dropped the invariant holds.
LEMMA InitIsOK == Init => IInv
<1> SUFFICES ASSUME Init PROVE IInv
  OBVIOUS
<1>1. /\ tileIndex = Null /\ file = Null /\ at = <<0, 0, 0>> /\ canvas = Null /\ button = FALSE
      /\ reading = {} /\ call.event = "none" /\ drops = 0
  BY DEF Init, Idle
<1>2. PlaceOK
  <2>1. z2[0] = 1 /\ <<0, 0, 0>> \in Cell
    BY Powers DEF Cell
  <2>2. InWorld(at)
    BY <1>1, <2>1 DEF InWorld
  <2>3. QED
    BY <2>2 DEF PlaceOK
<1>3. CallOK /\ ReadsOK /\ OneFile /\ ~Matches
  BY <1>1 DEF CallOK, ReadsOK, OneFile, Matches
<1>4. QED
  BY <1>1, <1>2, <1>3 DEF IInv

\* ondrop hides the picture and starts a read: the read is of a drop of its own.
LEMMA OnDropKeeps ==
  ASSUME IInv, NEW f \in Files, ondrop(f)
  PROVE  IInv'
<1>1. /\ call.event = "none" /\ drops \in Nat /\ drops' = drops + 1
      /\ reading' = reading \cup {<<drops + 1, f>>}
      /\ canvas' = Null
      /\ tileIndex' = tileIndex /\ file' = file /\ at' = at /\ button' = button /\ call' = call
  BY DEF ondrop, IInv
<1>2. reading \subseteq (1..drops) \X Files /\ (file = Null \/ file \in (1..drops) \X Files) /\ file \notin reading
  BY DEF IInv, ReadsOK
<1>3. file # <<drops + 1, f>>
  BY <1>1, <1>2, NullAssumption
<1>4. ReadsOK'
  BY <1>1, <1>2, <1>3 DEF ReadsOK
<1>5. OneFile'
  <2>1. drops' = 1 => drops = 0
    BY <1>1
  <2>2. /\ drops = 0 => reading = {} /\ file = Null
        /\ file = Null => tileIndex = Null /\ at = <<0, 0, 0>> /\ ~button
    BY DEF IInv, OneFile
  <2>3. QED
    BY <1>1, <2>1, <2>2 DEF OneFile
<1>6. PlaceOK'
  BY <1>1 DEF IInv, PlaceOK
<1>7. CallOK'
  BY <1>1 DEF CallOK
<1>8. ~Matches'
  BY <1>1 DEF Matches
<1>9. QED
  BY <1>1, <1>4, <1>5, <1>6, <1>7, <1>8 DEF IInv

\* onload replaces the index but not the address: the picture drawn last is of another
\* file, and with one file the page is still at the top.
LEMMA OnLoadKeeps ==
  ASSUME IInv, NEW r \in reading, onload(r)
  PROVE  IInv'
<1>1. /\ call.event = "none" /\ drops \in Nat /\ button \in BOOLEAN
      /\ reading' = reading \ {r} /\ drops' = drops
      /\ reading \subseteq (1..drops) \X Files
      /\ r \in (1..drops) \X Files
      /\ canvas # Null => canvas.file \notin reading
  BY DEF onload, IInv, ReadsOK
<1>2. drops = 1 => /\ reading' = {}
                   /\ file = Null /\ at = <<0, 0, 0>> /\ ~button
  BY <1>1 DEF IInv, OneFile
<1>3. CASE Data[r[2]] = Null /\ UNCHANGED <<tileIndex, file, at, canvas, button, call>>
  <2>1. ReadsOK'
    BY <1>1, <1>3 DEF IInv, ReadsOK
  <2>2. OneFile'
    BY <1>1, <1>2, <1>3 DEF IInv, OneFile
  <2>3. PlaceOK'
    BY <1>3 DEF IInv, PlaceOK
  <2>4. CallOK'
    BY <1>1, <1>3 DEF CallOK
  <2>5. Matches' => Matches
    BY <1>3 DEF Matches
  <2>6. QED
    BY <1>1, <1>3, <2>1, <2>2, <2>3, <2>4, <2>5 DEF IInv
<1>4. CASE /\ Data[r[2]] # Null
           /\ file' = r
           /\ \E features \in {wrap(Data[r[2]])} :
                IF features = <<>> THEN drawTile(<<>>, r, at, "load")
                ELSE split(<<>>, at, splitting(features, <<0, 0, 0>>, Null), "load")
  <2>1. PICK features : features = wrap(Data[r[2]])
    OBVIOUS
  <2>2. features # Null
    <3>1. r[2] \in Files
      BY <1>1
    <3>2. QED
      BY <1>4, <2>1, <3>1, NullAssumption
  <2>3. PICK v : v = at
    OBVIOUS
  <2>4. Besides(r)
    BY <1>1, <1>2, <1>4 DEF Besides
  <2>5. ~OfPicture(r)
    BY <1>1 DEF OfPicture
  <2>6. InWorld(at) \/ (at[1] \in Int /\ at[1] < 0 /\ at = <<at[1], 0, 0>>)
    BY Zenon DEF IInv, PlaceOK
  <2>7. InWorld(v) \/ Outside(<<>>, v)
    BY <2>3, <2>6 DEF Outside
  <2>8. Asks(<<>>, r, v, "load")
    BY <1>1, <1>2, <2>3, <2>5, <2>6, <2>7 DEF Asks
  <2>9. CASE features = <<>> /\ drawTile(<<>>, r, at, "load")
    <3>1. drawTile(<<>>, r, v, "load")
      BY <2>3, <2>9 DEF drawTile, draw, split
    <3>2. QED
      BY <2>4, <2>8, <3>1, EmptyIsReady, DrawTileKeeps
  <2>10. CASE split(<<>>, at, splitting(features, <<0, 0, 0>>, Null), "load")
    <3>1. PICK work : work = splitting(features, <<0, 0, 0>>, Null)
      OBVIOUS
    <3>2. split(<<>>, v, work, "load")
      BY <2>3, <2>10, <3>1 DEF split
    <3>3. WorkOK(<<>>, work) /\ work.target = Null /\ <<0, 0, 0>> \in Waiting(work.stack)
      BY <2>2, <3>1, FirstPassIsOK
    <3>4. Tree(<<>>)
      BY EmptyIsReady DEF Ready
    <3>5. QED
      BY <2>4, <2>8, <3>2, <3>3, <3>4, SplitKeeps
  <2>11. QED
    BY <1>4, <2>1, <2>9, <2>10, Zenon
<1>5. QED
  BY <1>3, <1>4, Zenon DEF onload

\* Between two events, when a file is shown.
LEMMA AtRest ==
  ASSUME IInv, call.event = "none", tileIndex # Null
  PROVE  /\ drops \in Nat /\ button \in BOOLEAN
         /\ file \in (1..drops) \X Files
         /\ Ready(tileIndex)
         /\ InWorld(at) \/ (at[1] \in Int /\ at[1] < 0 /\ at = <<at[1], 0, 0>>)
         /\ at[1] = -1 => InWorld(at) \/ tileIndex = <<>>
         /\ OfPicture(file) =>
              at[1] < 0 \/ (InWorld(at) /\ canvas.at = at /\ Shows(tileIndex, at))
         /\ drops = 1 /\ tileIndex # <<>> =>
              /\ InWorld(at)
              /\ Shows(tileIndex, at)
              /\ button => at[1] > 0
         /\ reading' = reading /\ file' = file /\ drops' = drops => Besides(file)
<1>1. file # Null
  BY DEF IInv, OneFile
<1>2. drops \in Nat /\ button \in BOOLEAN /\ file \in (1..drops) \X Files
  BY <1>1 DEF IInv, ReadsOK
<1>3. Ready(tileIndex)
  BY <1>1 DEF IInv, Ready
<1>4. InWorld(at) \/ (at[1] \in Int /\ at[1] < 0 /\ at = <<at[1], 0, 0>>)
  BY Zenon DEF IInv, PlaceOK
<1>5. at[1] = -1 => InWorld(at) \/ tileIndex = <<>>
  BY Zenon DEF IInv, PlaceOK
<1>6. OfPicture(file) => at[1] < 0 \/ (InWorld(at) /\ canvas.at = at /\ Shows(tileIndex, at))
  BY Zenon DEF IInv, Matches, OfPicture
<1>7. drops = 1 /\ tileIndex # <<>> =>
        InWorld(at) /\ Shows(tileIndex, at) /\ (button => at[1] > 0)
  BY <1>1 DEF IInv, OneFile
<1>8. reading' = reading /\ file' = file /\ drops' = drops => Besides(file)
  BY <1>1, <1>2 DEF IInv, ReadsOK, OneFile, Besides
<1>9. QED
  BY <1>2, <1>3, <1>4, <1>5, <1>6, <1>7, <1>8, Zenon

\* A click goes down into a quarter of the place it is at.
LEMMA OnClickKeeps ==
  ASSUME IInv, NEW right \in 0..1, NEW bottom \in 0..1, onclick(right, bottom)
  PROVE  IInv'
<1>1. PICK tiles, of, v : /\ tiles = tileIndex /\ of = file
                          /\ v = <<at[1] + 1, 2 * at[2] + right, 2 * at[3] + bottom>>
  OBVIOUS
<1>2. /\ call.event = "none" /\ tileIndex # Null
      /\ reading' = reading /\ file' = file /\ drops' = drops
      /\ drawTile(tileIndex, file, <<at[1] + 1, 2 * at[2] + right, 2 * at[3] + bottom>>, "click")
  BY DEF onclick
<1>3. drawTile(tiles, of, v, "click")
  BY <1>1, <1>2 DEF drawTile, draw, split
<1>4. Ready(tiles) /\ Besides(of)
  BY <1>1, <1>2, AtRest
<1>5. CASE InWorld(at)
  <2>1. at \in Cell
    BY <1>5 DEF InWorld
  <2>2. v \in Quarter(at)
    BY <1>1 DEF Quarter
  <2>3. InWorld(v) /\ zoomOut(v) = at /\ v[1] = at[1] + 1
    BY <1>5, <2>1, <2>2, QuarterFacts
  <2>4. Asks(tiles, of, v, "click")
    BY <1>1, <1>2, <1>5, <2>2, <2>3, AtRest, Zenon DEF Asks
  <2>5. QED
    BY <1>3, <1>4, <2>4, DrawTileKeeps
<1>6. CASE ~InWorld(at)
  <2>1. at[1] \in Int /\ at[1] < 0 /\ at = <<at[1], 0, 0>> /\ at[2] = 0 /\ at[3] = 0
    <3>1. at[1] \in Int /\ at[1] < 0 /\ at = <<at[1], 0, 0>>
      BY <1>2, <1>6, AtRest
    <3>2. QED
      BY <3>1
  <2>2. v = <<at[1] + 1, right, bottom>>
    BY <1>1, <2>1
  <2>3. v[1] = 0 => tiles = <<>>
    <3>1. v[1] = 0 => at[1] = -1
      BY <2>1, <2>2
    <3>2. QED
      BY <1>1, <1>2, <1>6, <3>1, AtRest
  <2>4. Outside(tiles, v)
    BY <2>1, <2>2, <2>3 DEF Outside
  <2>5. zoomOut(v) = at /\ v[1] = at[1] + 1
    <3>1. right \div 2 = 0 /\ bottom \div 2 = 0 /\ (at[1] + 1) - 1 = at[1]
      BY <2>1
    <3>2. QED
      BY <2>1, <2>2, <3>1 DEF zoomOut
  <2>6. Asks(tiles, of, v, "click")
    BY <1>1, <1>2, <1>6, <2>4, <2>5, AtRest, Zenon DEF Asks
  <2>7. QED
    BY <1>3, <1>4, <2>6, DrawTileKeeps
<1>7. QED
  BY <1>5, <1>6

\* The button goes to the place above, for which there is a picture if there was one below.
LEMMA BackKeeps ==
  ASSUME IInv, back
  PROVE  IInv'
<1>1. PICK tiles, of, v : tiles = tileIndex /\ of = file /\ v = zoomOut(at)
  OBVIOUS
<1>2. /\ call.event = "none" /\ tileIndex # Null /\ button
      /\ reading' = reading /\ file' = file /\ drops' = drops
      /\ drawTile(tileIndex, file, zoomOut(at), "back")
  BY DEF back
<1>3. drawTile(tiles, of, v, "back")
  BY <1>1, <1>2 DEF drawTile, draw, split
<1>4. Ready(tiles) /\ Besides(of)
  BY <1>1, <1>2, AtRest
<1>5. InWorld(v) \/ Outside(tiles, v)
  <2>1. v = <<at[1] - 1, at[2] \div 2, at[3] \div 2>>
    BY <1>1 DEF zoomOut
  <2>2. CASE InWorld(at) /\ at[1] > 0
    BY <1>1, <2>2, AboveZoomOut DEF InWorld
  <2>3. CASE InWorld(at) /\ ~(at[1] > 0)
    <3>1. at[1] = 0
      BY <2>3 DEF InWorld, Cell
    <3>2. v = <<-1, 0, 0>>
      <4>1. at = <<0, 0, 0>>
        BY <2>3, <3>1, TopOfTheWorld
      <4>2. QED
        BY <2>1, <4>1
    <3>3. QED
      BY <3>2 DEF Outside
  <2>4. CASE ~InWorld(at)
    <3>1. at[1] \in Int /\ at[1] < 0 /\ at = <<at[1], 0, 0>>
      BY <1>2, <2>4, AtRest
    <3>2. v = <<at[1] - 1, 0, 0>> /\ at[1] - 1 \in Int /\ at[1] - 1 < 0
      <4>1. at[2] = 0 /\ at[3] = 0
        BY <3>1
      <4>2. QED
        BY <2>1, <3>1, <4>1
    <3>3. QED
      BY <3>2 DEF Outside
  <2>5. QED
    BY <2>2, <2>3, <2>4
<1>6. Asks(tiles, of, v, "back")
  BY <1>1, <1>2, <1>5, AtRest, Zenon DEF Asks
<1>7. QED
  BY <1>3, <1>4, <1>6, DrawTileKeeps

\* A turn of the loop of splitTile, within a handler.
LEMMA SplitStepKeeps ==
  ASSUME IInv, splitStep
  PROVE  IInv'
<1>1. /\ call.event # "none" /\ call.work.stack # <<>>
      /\ file' = file /\ at' = at /\ canvas' = canvas /\ button' = button
      /\ reading' = reading /\ drops' = drops
      /\ tileIndex' = splitTile(tileIndex, call.work).tiles
      /\ call' = [call EXCEPT !.work = splitTile(tileIndex, call.work).split]
  BY Zenon DEF splitStep
<1>2. PICK tiles, work, e, v : /\ tiles = tileIndex /\ work = call.work
                               /\ e = call.event /\ v = call.v
  OBVIOUS
<1>3. /\ call = [event |-> e, v |-> v, work |-> work]
      /\ e \in {"load", "click", "back"}
      /\ WorkOK(tiles, work) /\ Tree(tiles) /\ file # Null
  BY <1>1, <1>2 DEF IInv, CallOK
<1>4. PICK next, s : TurnDone(tiles, work, next, s)
  BY <1>1, <1>2, <1>3, TurnKeeps
<1>5. /\ splitTile(tiles, work) = [tiles |-> next, split |-> s]
      /\ Tree(next)
      /\ WorkOK(next, s)
      /\ s.target = work.target
      /\ DOMAIN tiles \subseteq DOMAIN next
      /\ \A w \in Cell : Shows(tiles, w) => Shows(next, w)
      /\ Waiting(work.stack) \subseteq DOMAIN next \cup Waiting(s.stack)
  BY <1>4, Zenon DEF TurnDone
<1>6. tileIndex' = next /\ call' = [event |-> e, v |-> v, work |-> s]
  <2>1. splitTile(tiles, work).tiles = next /\ splitTile(tiles, work).split = s
    BY <1>5
  <2>2. tileIndex' = next /\ call' = [call EXCEPT !.work = s]
    BY <1>1, <1>2, <2>1, Zenon
  <2>3. QED
    BY <1>3, <2>2
<1>7. (call.event)' = e /\ (call.v)' = v /\ (call.work)' = s
  BY <1>6
<1>8. Shows(tiles, at) /\ InWorld(at) => Shows(next, at)
  BY <1>5 DEF InWorld
<1>9. Matches' <=> Matches
  BY <1>1 DEF Matches
<1>10. CallOK'
  <2>1. /\ work.target # Null => work.target = v
        /\ work.target = Null => /\ e = "load"
                                 /\ <<0, 0, 0>> \in DOMAIN tiles \cup Waiting(work.stack)
        /\ e = "load"  => v = at /\ ~Matches
        /\ e = "click" => InWorld(at) /\ v \in Quarter(at)
        /\ e = "back"  => v = zoomOut(at) /\ ~Matches /\ drops # 1
    BY <1>1, <1>2 DEF IInv, CallOK
  <2>2. work.target = Null => <<0, 0, 0>> \in DOMAIN next \cup Waiting(s.stack)
    BY <1>5, <2>1
  <2>3. call' = [event |-> (call.event)', v |-> (call.v)', work |-> (call.work)']
    BY <1>6, <1>7
  <2>4. (zoomOut(at))' = zoomOut(at)
    BY <1>1 DEF zoomOut
  <2>5. QED
    BY <1>1, <1>3, <1>5, <1>6, <1>7, <1>9, <2>1, <2>2, <2>3, <2>4 DEF CallOK
<1>11. Matches' => at'[1] < 0 \/ (InWorld(at') /\ (canvas.at)' = at' /\ Shows(tileIndex', at'))
  <2>1. Matches => at[1] < 0 \/ (InWorld(at) /\ canvas.at = at /\ Shows(tiles, at))
    BY <1>2, Zenon DEF IInv
  <2>2. QED
    BY <1>1, <1>6, <1>8, <1>9, <2>1
<1>12. PlaceOK'
  <2>1. InWorld(at) \/ (at[1] \in Int /\ at[1] < 0 /\ at = <<at[1], 0, 0>>)
    BY Zenon DEF IInv, PlaceOK
  <2>2. QED
    BY <1>1, <1>3, <1>7, <2>1 DEF PlaceOK
<1>13. ReadsOK'
  BY <1>1 DEF IInv, ReadsOK
<1>14. OneFile'
  <2>1. ASSUME drops = 1, e # "load", next # <<>>
        PROVE  InWorld(at) /\ Shows(next, at) /\ (button => at[1] > 0)
    <3>1. e = "click"
      BY <1>1, <1>2, <1>3, <2>1 DEF IInv, CallOK
    <3>2. tiles # <<>>
      <4>1. work.target # Null
        BY <1>1, <1>2, <3>1 DEF IInv, CallOK
      <4>2. QED
        BY <1>3, <4>1 DEF WorkOK
    <3>3. InWorld(at) /\ Shows(tiles, at) /\ (button => at[1] > 0)
      BY <1>2, <1>3, <2>1, <3>2 DEF IInv, OneFile
    <3>4. QED
      BY <1>8, <3>3
  <2>2. /\ drops = 0 => reading = {} /\ file = Null
        /\ drops = 1 => reading = {}
        /\ drops = 1 /\ e = "load" => at = <<0, 0, 0>> /\ ~button
    BY <1>2, <1>3 DEF IInv, OneFile
  <2>3. QED
    BY <1>1, <1>3, <1>6, <1>7, <2>1, <2>2 DEF OneFile
<1>15. drops \in Nat /\ button \in BOOLEAN
  BY DEF IInv
<1>16. QED
  BY <1>1, <1>3, <1>5, <1>6, <1>7, <1>10, <1>11, <1>12, <1>13, <1>14, <1>15 DEF IInv

\* The end of the loop: the first pass goes on with drawTile, a drill returns from getTile.
LEMMA SplitEndKeeps ==
  ASSUME IInv, splitEnd
  PROVE  IInv'
<1>1. /\ call.event # "none" /\ call.work.stack = <<>>
      /\ file' = file /\ reading' = reading /\ drops' = drops
  BY DEF splitEnd
<1>2. PICK tiles, of, work, e, v : /\ tiles = tileIndex /\ of = file /\ work = call.work
                                   /\ e = call.event /\ v = call.v
  OBVIOUS
<1>3. /\ e \in {"load", "click", "back"}
      /\ WorkOK(tiles, work) /\ Tree(tiles) /\ of # Null
  BY <1>1, <1>2 DEF IInv, CallOK
<1>4. /\ work.target # Null => work.target = v
      /\ work.target = Null => e = "load" /\ <<0, 0, 0>> \in DOMAIN tiles \cup Waiting(work.stack)
      /\ e = "load"  => v = at /\ ~Matches
      /\ e = "click" => InWorld(at) /\ v \in Quarter(at)
      /\ e = "back"  => v = zoomOut(at) /\ ~Matches /\ drops # 1
  BY <1>1, <1>2 DEF IInv, CallOK
<1>5. Matches <=> OfPicture(of)
  BY <1>2 DEF Matches, OfPicture
<1>6. drops \in Nat /\ button \in BOOLEAN /\ of \in (1..drops) \X Files
  BY <1>2, <1>3 DEF IInv, ReadsOK
<1>7. InWorld(at) \/ (at[1] \in Int /\ at[1] < 0 /\ at = <<at[1], 0, 0>>)
  BY Zenon DEF IInv, PlaceOK
<1>8. Besides(of)
  BY <1>1, <1>2, <1>3, <1>6 DEF IInv, ReadsOK, OneFile, Besides
<1>9. Ready(tiles)
  BY <1>1, <1>2, <1>3, <1>4, FirstPassIsOver, DrillFinds
<1>10. InWorld(v) \/ Outside(tiles, v)
  <2>1. CASE work.target = Null
    BY <1>1, <1>4, <1>7, <2>1 DEF Outside
  <2>2. CASE work.target # Null
    BY <1>3, <1>4, <2>2 DEF WorkOK
  <2>3. QED
    BY <2>1, <2>2
<1>11. e = "load" /\ drops = 1 => at = <<0, 0, 0>> /\ ~button
  BY <1>2, <1>3 DEF IInv, OneFile
<1>12. e = "click" => /\ zoomOut(v) = at
                      /\ v[1] = at[1] + 1
  BY <1>4, QuarterFacts DEF InWorld
<1>13. OfPicture(of) => at[1] < 0 \/ (InWorld(at) /\ canvas.at = at /\ Shows(tiles, at))
  BY <1>2, <1>5, Zenon DEF IInv
<1>14. drops = 1 /\ e # "load" /\ tiles # <<>> =>
         InWorld(at) /\ Shows(tiles, at) /\ (button => at[1] > 0)
  BY <1>2, <1>3 DEF IInv, OneFile
<1>15. Asks(tiles, of, v, e)
  BY <1>3, <1>4, <1>5, <1>6, <1>7, <1>10, <1>11, <1>12, <1>13, <1>14 DEF Asks
<1>16. CASE work.target = Null /\ drawTile(tileIndex, file, call.v, call.event)
  <2>1. drawTile(tiles, of, v, e)
    BY <1>2, <1>16 DEF drawTile, draw, split
  <2>2. QED
    BY <1>8, <1>9, <1>15, <2>1, DrawTileKeeps
<1>17. CASE /\ work.target # Null
            /\ draw(tileIndex, file, call.v, Made(tileIndex, call.work), call.event)
  <2>1. PICK found : found = Made(tiles, work)
    OBVIOUS
  <2>2. Finds(tiles, v, found)
    BY <1>1, <1>2, <1>3, <1>4, <1>17, <2>1, DrillFinds
  <2>3. draw(tiles, of, v, found, e)
    BY <1>2, <1>17, <2>1 DEF draw
  <2>4. e = "back" => ~OfPicture(of) /\ drops # 1
    BY <1>4, <1>5
  <2>5. QED
    BY <1>8, <1>9, <1>15, <2>2, <2>3, <2>4, DrawKeeps
<1>18. QED
  BY <1>2, <1>16, <1>17, Zenon DEF splitEnd

-----------------------------------------------------------------------------
(* The theorems. *)

\* The invariant is inductive.
LEMMA StepKeeps == IInv /\ [Next]_vars => IInv'
<1> SUFFICES ASSUME IInv, [Next]_vars PROVE IInv'
  OBVIOUS
<1>1. ASSUME NEW f \in Files, ondrop(f) PROVE IInv'
  BY <1>1, OnDropKeeps
<1>2. ASSUME NEW r \in reading, onload(r) PROVE IInv'
  BY <1>2, OnLoadKeeps
<1>3. ASSUME NEW right \in 0..1, NEW bottom \in 0..1, onclick(right, bottom) PROVE IInv'
  BY <1>3, OnClickKeeps
<1>4. CASE back
  BY <1>4, BackKeeps
<1>5. CASE splitStep
  BY <1>5, SplitStepKeeps
<1>6. CASE splitEnd
  BY <1>6, SplitEndKeeps
<1>7. CASE UNCHANGED vars
  BY <1>7 DEF vars, IInv, PlaceOK, CallOK, ReadsOK, OneFile, Matches, WorkOK
<1>8. QED
  BY <1>1, <1>2, <1>3, <1>4, <1>5, <1>6, <1>7 DEF Next

\* The invariant holds of every behaviour.
LEMMA InvariantHolds == Spec => []IInv
<1>1. Init => IInv
  BY InitIsOK
<1>2. IInv /\ [Next]_vars => IInv'
  BY StepKeeps
<1>3. QED
  BY <1>1, <1>2, PTL DEF Spec

\* No feature of the file is lost or held twice, whatever is clicked and whatever file is
\* dropped: splitTile drops the features of a tile (geojson-vt-dev.js:442) exactly when its
\* quarters follow, also when a drill makes only some of the tiles below them.
THEOREM FeaturesKeptOnce == Spec => []FeaturesAreKeptOnce
<1>1. IInv => FeaturesAreKeptOnce
  <2> SUFFICES ASSUME IInv, call.event = "none", tileIndex # Null, NEW v \in DOMAIN tileIndex
               PROVE  /\ \A z \in 0..(v[1] - 1) : /\ Above(v, z) \in DOMAIN tileIndex
                                                  /\ tileIndex[Above(v, z)].source = Null
                      /\ tileIndex[v].source = Null =>
                           Quarter(v) \subseteq DOMAIN tileIndex \/ tileIndex[v].features = <<>>
    BY Zenon DEF FeaturesAreKeptOnce
  <2>1. Tree(tileIndex) /\ Held(tileIndex, {})
    BY AtRest DEF Ready
  <2>2. Hangs(tileIndex, v)
    BY <2>1 DEF Tree
  <2>3. QED
    BY <2>1, <2>2 DEF Hangs, Held
<1>2. QED
  BY <1>1, InvariantHolds, PTL

\* drawTile and zoomOut (viz.js:98-184) keep picture and address together, unless the page has
\* left the world above its top; with one file that is not empty it cannot.
THEOREM PictureIsRight == Spec => []PictureIsWhereTheViewIs
<1>1. IInv => PictureIsWhereTheViewIs
  <2> SUFFICES ASSUME IInv, call.event = "none" PROVE PictureIsWhereTheViewIs
    BY Zenon DEF PictureIsWhereTheViewIs
  <2>1. canvas # Null /\ canvas.file = file => canvas.at = at \/ at[1] < 0
    BY Zenon DEF IInv, Matches
  <2>2. ASSUME drops = 1, tileIndex \notin {Null, <<>>}
        PROVE  at[1] >= 0 /\ {at[2], at[3]} \subseteq 0..(z2[at[1]] - 1)
    <3>1. InWorld(at)
      BY <2>2, AtRest
    <3>2. at[1] \in Nat /\ at[2] \in Nat /\ at[3] \in Nat
      BY <3>1 DEF InWorld, Cell
    <3>3. PICK n \in Nat : n = z2[at[1]]
      BY <3>2, Powers
    <3>4. at[2] < n /\ at[3] < n
      BY <3>1, <3>3 DEF InWorld
    <3>5. at[2] \in 0..(n - 1) /\ at[3] \in 0..(n - 1)
      BY <3>2, <3>3, <3>4
    <3>6. QED
      BY <3>2, <3>3, <3>5
  <2>3. QED
    BY <2>1, <2>2 DEF PictureIsWhereTheViewIs
<1>2. QED
  BY <1>1, InvariantHolds, PTL

\* At rest, every place of the world has its features: its own tile was made, or the tile
\* above it still has the features to make it from, or there was nothing to show there.
EveryPlaceHasItsFeatures ==
  call.event = "none" /\ tileIndex \notin {Null, <<>>} =>
    \A v : InWorld(v) => \E z \in 0..v[1] :
      /\ Above(v, z) \in DOMAIN tileIndex
      /\ \/ z = v[1]
         \/ tileIndex[Above(v, z)].source # Null
         \/ tileIndex[Above(v, z)].features = <<>>

\* Any place of the world, not only those looked at, can still be drawn: on the way down to
\* it getTile (geojson-vt-dev.js:481) comes to its own tile, to a tile that has its features
\* still, or to one that had nothing to show.
THEOREM PlacesKeepTheirFeatures == Spec => []EveryPlaceHasItsFeatures
<1>1. IInv => EveryPlaceHasItsFeatures
  <2> SUFFICES ASSUME IInv, call.event = "none", tileIndex \notin {Null, <<>>}, NEW v, InWorld(v)
               PROVE  \E z \in 0..v[1] : /\ Above(v, z) \in DOMAIN tileIndex
                                         /\ \/ z = v[1]
                                            \/ tileIndex[Above(v, z)].source # Null
                                            \/ tileIndex[Above(v, z)].features = <<>>
    BY Zenon DEF EveryPlaceHasItsFeatures
  <2>1. PICK tiles : tiles = tileIndex
    OBVIOUS
  <2>2. Tree(tiles) /\ Rooted(tiles) /\ Held(tiles, {})
    BY <2>1, AtRest DEF Ready
  <2>3. <<0, 0, 0>> \in DOMAIN tiles
    BY <2>1, <2>2 DEF Rooted
  <2>4. v \in Cell /\ v[1] \in Nat
    BY DEF InWorld, Cell
  <2>5. Closest(tiles, v) # Null
    BY <2>3, RootedHasClosest
  <2>6. PICK m \in 0..v[1] : /\ Above(v, m) \in DOMAIN tiles
                             /\ \A z \in 0..v[1] : Above(v, z) \in DOMAIN tiles => z <= m
    BY <2>4, <2>5, ClosestIsLast
  <2>7. ASSUME m # v[1], tiles[Above(v, m)].source = Null, tiles[Above(v, m)].features # <<>>
        PROVE  FALSE
    <3>1. m \in Nat /\ m + 1 \in 0..v[1] /\ m \in 0..(v[1] - 1)
      BY <2>4, <2>6, <2>7
    <3>2. PICK u, w : u = Above(v, m) /\ w = Above(v, m + 1)
      OBVIOUS
    <3>3. w \in Cell /\ w[1] = m + 1 /\ u = zoomOut(w)
      BY <2>4, <3>1, <3>2, AboveIsCell, AboveStep
    <3>4. w \in Quarter(u)
      BY <3>1, <3>3, InOneQuarter
    <3>5. Quarter(u) \subseteq DOMAIN tiles
      BY <2>2, <2>6, <2>7, <3>2 DEF Held
    <3>6. m + 1 <= m
      BY <2>6, <3>1, <3>2, <3>4, <3>5
    <3>7. QED
      BY <3>1, <3>6
  <2>8. QED
    BY <2>1, <2>6, <2>7
<1>2. QED
  BY <1>1, InvariantHolds, PTL

-----------------------------------------------------------------------------
(* How deep the index goes, and why the loop of splitTile ends. *)

\* While tiles are made, none waits below the zoom where the call stops.
WorkInDepth(work) == Waiting(work.stack) \subseteq PlacesTo(Limit(work))

DepthInv == /\ at[1] <= MaxZoom
            /\ file # Null => DOMAIN tileIndex \subseteq PlacesTo(MaxZoom)
            /\ call.event # "none" => call.v[1] <= MaxZoom /\ WorkInDepth(call.work)

\* The places to a zoom are those of the world.
LEMMA InPlaces ==
  ASSUME NEW n \in Nat
  PROVE  \A v : v \in PlacesTo(n) <=> InWorld(v) /\ v[1] <= n
<1>1. ASSUME NEW v \in PlacesTo(n) PROVE InWorld(v) /\ v[1] <= n
  <2>1. PICK z \in 0..n : v \in {z} \X (0..(z2[z] - 1)) \X (0..(z2[z] - 1))
    BY DEF PlacesTo
  <2>2. z2[z] \in Nat
    BY Powers
  <2>3. QED
    BY <2>1, <2>2 DEF InWorld, Cell
<1>2. ASSUME NEW v, InWorld(v), v[1] <= n PROVE v \in PlacesTo(n)
  <2>1. v[1] \in 0..n /\ z2[v[1]] \in Nat
    BY <1>2, Powers DEF InWorld, Cell
  <2>2. v \in {v[1]} \X (0..(z2[v[1]] - 1)) \X (0..(z2[v[1]] - 1))
    BY <1>2, <2>1 DEF InWorld, Cell
  <2>3. QED
    BY <2>1, <2>2 DEF PlacesTo
<1>3. QED
  BY <1>1, <1>2

\* There are finitely many places down to a zoom.
LEMMA PlacesAreFinite == ASSUME NEW n \in Nat PROVE IsFiniteSet(PlacesTo(n))
<1> DEFINE S == {k \in Nat : IsFiniteSet(PlacesTo(k))}
<1>1. ASSUME NEW k \in Nat PROVE IsFiniteSet({v \in Cell : InWorld(v) /\ v[1] = k})
  <2>1. PICK A, T : A = 0..(z2[k] - 1) /\ T = {v \in Cell : InWorld(v) /\ v[1] = k}
    OBVIOUS
  <2>2. z2[k] \in Nat \ {0}
    BY Powers
  <2>3. IsFiniteSet(A \X A)
    <3>1. IsFiniteSet(A)
      BY <2>1, <2>2, FS_Interval
    <3>2. QED
      BY <3>1, FS_Product
  <2>4. PICK f : f = [v \in T |-> <<v[2], v[3]>>]
    OBVIOUS
  <2>5. \A v \in T : v[2] \in A /\ v[3] \in A /\ v = <<k, v[2], v[3]>>
    BY <2>1, <2>2 DEF InWorld, Cell
  <2>6. f \in [T -> A \X A]
    BY <2>4, <2>5
  <2>7. \A v, w \in T : f[v] = f[w] => v = w
    BY <2>4, <2>5
  <2>8. f \in Injection(T, A \X A)
    BY <2>6, <2>7 DEF Injection, IsInjective
  <2>9. IsFiniteSet(T)
    BY <2>3, <2>8, FS_Injection
  <2>10. QED
    BY <2>1, <2>9
<1>2. 0 \in S
  <2>1. PlacesTo(0) \subseteq {v \in Cell : InWorld(v) /\ v[1] = 0}
    BY InPlaces DEF InWorld, Cell
  <2>2. QED
    BY <1>1, <2>1, FS_Subset
<1>3. ASSUME NEW k \in Nat, k \in S PROVE k + 1 \in S
  <2>1. PICK T : T = {v \in Cell : InWorld(v) /\ v[1] = k + 1}
    OBVIOUS
  <2>2. IsFiniteSet(T) /\ IsFiniteSet(PlacesTo(k))
    BY <1>1, <1>3, <2>1
  <2>3. IsFiniteSet(PlacesTo(k) \cup T)
    BY <2>2, FS_Union
  <2>4. PlacesTo(k + 1) \subseteq PlacesTo(k) \cup T
    BY <2>1, InPlaces DEF InWorld, Cell
  <2>5. QED
    BY <2>3, <2>4, FS_Subset
<1>4. n \in S
  <2> HIDE DEF S
  <2>1. QED
    BY <1>2, <1>3, Induction
<1>5. QED
  BY <1>4

\* What a turn of splitTile does to the stack: the tile on top of it is made, and is
\* followed by its quarters only above the zoom where the call stops.
TurnOf(tiles, work, v, next, later) ==
  /\ splitTile(tiles, work) = [tiles |-> next, split |-> later]
  /\ later.target = work.target
  /\ DOMAIN next = DOMAIN tiles \cup {v}
  /\ v \in Waiting(work.stack)
  /\ v \notin Waiting(Front(work.stack))
  /\ Waiting(Front(work.stack)) \subseteq Waiting(work.stack)
  /\ \/ Waiting(later.stack) = Waiting(Front(work.stack))
     \/ /\ v[1] # Limit(work)
        /\ Waiting(later.stack) = Waiting(Front(work.stack)) \cup Quarter(v)

\* The addresses that wait on two stacks, one on the other.
LEMMA WaitingOfBoth ==
  ASSUME NEW S, NEW T, NEW r \in Seq(S), NEW q \in Seq(T)
  PROVE  Waiting(r \o q) = Waiting(r) \cup Waiting(q)
<1>1. PICK m, n, all : m = Len(r) /\ n = Len(q) /\ all = r \o q
  OBVIOUS
<1>2. /\ m \in Nat /\ n \in Nat /\ DOMAIN r = 1..m /\ DOMAIN q = 1..n /\ DOMAIN all = 1..(m + n)
      /\ \A i \in 1..m : all[i] = r[i]
      /\ \A i \in 1..n : all[m + i] = q[i]
  <2>1. r \in Seq(S \cup T) /\ q \in Seq(S \cup T)
    OBVIOUS
  <2>2. QED
    BY <1>1, <2>1
<1>3. ASSUME NEW i \in DOMAIN all PROVE all[i].at \in Waiting(r) \cup Waiting(q)
  <2>1. CASE i \in 1..m
    BY <1>2, <2>1 DEF Waiting
  <2>2. CASE i \notin 1..m
    <3>1. i - m \in 1..n /\ m + (i - m) = i
      BY <1>2, <1>3, <2>2
    <3>2. all[i] = q[i - m]
      BY <1>2, <3>1
    <3>3. QED
      BY <1>2, <3>1, <3>2 DEF Waiting
  <2>3. QED
    BY <2>1, <2>2
<1>4. ASSUME NEW i \in DOMAIN r PROVE r[i].at \in Waiting(all)
  <2>1. i \in DOMAIN all /\ all[i] = r[i]
    BY <1>2
  <2>2. QED
    BY <2>1 DEF Waiting
<1>5. ASSUME NEW i \in DOMAIN q PROVE q[i].at \in Waiting(all)
  <2>1. m + i \in DOMAIN all /\ all[m + i] = q[i]
    BY <1>2
  <2>2. QED
    BY <2>1 DEF Waiting
<1>6. Waiting(all) \subseteq Waiting(r) \cup Waiting(q)
  BY <1>3 DEF Waiting
<1>7. Waiting(r) \subseteq Waiting(all) /\ Waiting(q) \subseteq Waiting(all)
  BY <1>4, <1>5 DEF Waiting
<1>8. QED
  BY <1>1, <1>6, <1>7

\* Every turn is such a turn.
LEMMA TurnGoesOn ==
  ASSUME NEW tiles, Tree(tiles), NEW work, WorkOK(tiles, work), work.stack # <<>>
  PROVE  \E v, next, later : TurnOf(tiles, work, v, next, later)
<1>1. PICK item, rest : item = Last(work.stack) /\ rest = Front(work.stack)
  OBVIOUS
<1>2. PICK v, t : v = item.at /\ t = Looked(tiles, item)
  OBVIOUS
<1>3. PICK S : work.stack \in Seq(S)
  BY DEF WorkOK
<1>4. StackOK(tiles, work.stack, work.target) /\ Held(tiles, Waiting(work.stack))
      /\ work = [stack |-> work.stack, target |-> work.target, solid |-> work.solid]
  BY DEF WorkOK
<1>5. /\ rest \in Seq(S)
      /\ \A i \in 1..(Len(work.stack) - 1) : rest[i] = work.stack[i]
      /\ Len(rest) = Len(work.stack) - 1
      /\ Len(work.stack) \in Nat \ {0}
      /\ item = work.stack[Len(work.stack)]
  BY <1>1, <1>3, FrontFacts DEF Last
<1>6. v \in Waiting(work.stack)
  BY <1>2, <1>3, <1>5 DEF Waiting
<1>7. Waiting(rest) \subseteq Waiting(work.stack)
  <2>1. ASSUME NEW i \in DOMAIN rest PROVE rest[i].at \in Waiting(work.stack)
    <3>1. i \in DOMAIN work.stack /\ rest[i] = work.stack[i]
      BY <1>3, <1>5
    <3>2. QED
      BY <3>1 DEF Waiting
  <2>2. QED
    BY <2>1 DEF Waiting
<1>8. v \in Cell /\ v \notin Waiting(rest)
  <2>1. ItemOK(tiles, item, work.target)
    BY <1>1, <1>3, <1>4, LastIsOK
  <2>2. IsTile(t)
    BY <1>2, <1>4, <2>1, LookedIsTile DEF ItemOK
  <2>3. QED
    BY <1>1, <1>2, <1>3, <1>4, <2>2, PutOffTheStack
<1>9. \A s : DOMAIN Put(tiles, v, s) = DOMAIN tiles \cup {v}
  BY DEF Put
<1>10. ASSUME NEW next, NEW stack, NEW solid, DOMAIN next = DOMAIN tiles \cup {v},
              splitTile(tiles, work) =
                [tiles |-> next,
                 split |-> [stack |-> stack, target |-> work.target, solid |-> solid]],
              \/ Waiting(stack) = Waiting(rest)
              \/ v[1] # Limit(work) /\ Waiting(stack) = Waiting(rest) \cup Quarter(v)
       PROVE  \E u, n, l : TurnOf(tiles, work, u, n, l)
  <2>1. PICK later : later = [stack |-> stack, target |-> work.target, solid |-> solid]
    OBVIOUS
  <2>2. later.stack = stack /\ later.target = work.target
    BY <2>1
  <2>3. TurnOf(tiles, work, v, next, later)
    BY <1>1, <1>6, <1>7, <1>8, <1>10, <2>1, <2>2 DEF TurnOf
  <2>4. QED
    BY <2>3
<1>11. TurnIs(tiles, work, item, v, t, rest)
  BY <1>1, <1>2, <1>4, TurnCases
<1>12. CASE \E solid : splitTile(tiles, work) =
                         [tiles |-> Put(tiles, v, t),
                          split |-> [stack |-> rest, target |-> work.target, solid |-> solid]]
  BY <1>9, <1>10, <1>12, Zenon
<1>13. CASE /\ ~StopsAt(t, v, work.target)
            /\ splitTile(tiles, work) =
                 [tiles |-> Put(tiles, v, Sliced(t)),
                  split |-> [stack |-> IF item.features = <<>> THEN rest
                                       ELSE rest \o Quarters(item.features, v, t),
                             target |-> work.target, solid |-> work.solid]]
  <2>1. CASE item.features = <<>>
    <3>1. splitTile(tiles, work) =
            [tiles |-> Put(tiles, v, Sliced(t)),
             split |-> [stack |-> rest, target |-> work.target, solid |-> work.solid]]
      BY <1>13, <2>1, Zenon
    <3>2. QED
      BY <1>9, <1>10, <3>1, Zenon
  <2>2. CASE item.features # <<>>
    <3>1. PICK q : /\ Quarters(item.features, v, t) = q
                   /\ Len(q) = 4
                   /\ \E T : q \in Seq(T)
                   /\ \A i \in 1..4 : q[i].at \in Quarter(v) /\ q[i].features # Null
                   /\ \A c \in Quarter(v) : \E i \in 1..4 : q[i].at = c
      BY <1>8, QuartersAreOfTheTile
    <3>2. Waiting(q) = Quarter(v)
      <4>1. DOMAIN q = 1..4
        BY <3>1
      <4>2. QED
        BY <3>1, <4>1 DEF Waiting
    <3>3. Waiting(rest \o q) = Waiting(rest) \cup Quarter(v)
      BY <1>5, <3>1, <3>2, WaitingOfBoth
    <3>4. v[1] # Limit(work)
      BY <1>13 DEF StopsAt, Limit
    <3>5. splitTile(tiles, work) =
            [tiles |-> Put(tiles, v, Sliced(t)),
             split |-> [stack |-> rest \o q, target |-> work.target, solid |-> work.solid]]
      BY <1>13, <2>2, <3>1, Zenon
    <3>6. QED
      BY <1>9, <1>10, <3>3, <3>4, <3>5, Zenon
  <2>3. QED
    BY <2>1, <2>2
<1>14. QED
  BY <1>11, <1>12, <1>13, Zenon DEF TurnIs

\* What waits stays above the zoom where the call stops, and the tiles above that.
LEMMA TurnInDepth ==
  ASSUME NEW tiles, NEW work, NEW v, NEW next, NEW later, TurnOf(tiles, work, v, next, later),
         WorkInDepth(work), Limit(work) \in Nat
  PROVE  /\ Limit(later) = Limit(work)
         /\ WorkInDepth(later)
         /\ v \in PlacesTo(Limit(work))
<1>1. Limit(later) = Limit(work)
  BY DEF TurnOf, Limit
<1>2. v \in PlacesTo(Limit(work))
  BY DEF TurnOf, WorkInDepth
<1>3. Waiting(Front(work.stack)) \subseteq PlacesTo(Limit(work))
  BY DEF TurnOf, WorkInDepth
<1>4. ASSUME v[1] # Limit(work), NEW c \in Quarter(v) PROVE c \in PlacesTo(Limit(work))
  <2>1. v \in Cell /\ InWorld(v) /\ v[1] <= Limit(work) /\ v[1] \in Nat
    BY <1>2, InPlaces DEF InWorld, Cell
  <2>2. c \in Cell /\ c[1] = v[1] + 1 /\ InWorld(c)
    BY <1>4, <2>1, QuarterFacts
  <2>3. c[1] <= Limit(work)
    BY <1>4, <2>1, <2>2
  <2>4. QED
    BY <2>2, <2>3, InPlaces
<1>5. Waiting(later.stack) \subseteq PlacesTo(Limit(work))
  BY <1>3, <1>4 DEF TurnOf
<1>6. QED
  BY <1>1, <1>2, <1>5 DEF WorkInDepth

\* What is below a tile's quarter is below the tile.
LEMMA BelowQuarter ==
  ASSUME NEW v \in Cell, NEW u \in Quarter(v), NEW c \in Cell, u[1] <= c[1], Above(c, u[1]) = u
  PROVE  v[1] <= c[1] /\ Above(c, v[1]) = v
<1>1. v[1] \in Nat /\ c[1] \in Nat /\ u[1] = v[1] + 1 /\ zoomOut(u) = v
  BY QuarterFacts DEF Cell
<1>2. v[1] \in 0..(c[1] - 1)
  BY <1>1
<1>3. Above(c, v[1]) = zoomOut(Above(c, v[1] + 1))
  BY <1>2, AboveStep
<1>4. QED
  BY <1>1, <1>2, <1>3

\* After a turn there is less ahead: nothing new, and the tile just made no longer.
LEMMA LessAhead ==
  ASSUME NEW tiles, Tree(tiles), NEW work, WorkOK(tiles, work), WorkInDepth(work),
         Limit(work) \in Nat,
         NEW v, NEW next, NEW later, TurnOf(tiles, work, v, next, later)
  PROVE  /\ Ahead(later) \subseteq Ahead(work)
         /\ v \in Ahead(work)
         /\ v \notin Ahead(later)
<1>1. /\ Limit(later) = Limit(work)
      /\ v \in PlacesTo(Limit(work))
  BY TurnInDepth
<1>2. v \in Cell /\ v[1] \in Nat
  BY <1>1, InPlaces DEF InWorld, Cell
<1>3. /\ v \in Waiting(work.stack)
      /\ v \notin Waiting(Front(work.stack))
      /\ Waiting(Front(work.stack)) \subseteq Waiting(work.stack)
      /\ Waiting(later.stack) \subseteq Waiting(Front(work.stack)) \cup Quarter(v)
  BY DEF TurnOf
<1>4. ASSUME NEW c \in Ahead(later) PROVE c \in Ahead(work)
  <2>1. PICK u \in Waiting(later.stack) : u[1] <= c[1] /\ Above(c, u[1]) = u
    BY DEF Ahead
  <2>2. c \in PlacesTo(Limit(work)) /\ c \in Cell
    BY <1>1, InPlaces DEF Ahead, InWorld
  <2>3. CASE u \in Waiting(Front(work.stack))
    BY <1>3, <2>1, <2>2, <2>3 DEF Ahead
  <2>4. CASE u \in Quarter(v)
    <3>1. v[1] <= c[1] /\ Above(c, v[1]) = v
      BY <1>2, <2>1, <2>2, <2>4, BelowQuarter
    <3>2. QED
      BY <1>3, <2>2, <3>1 DEF Ahead
  <2>5. QED
    BY <1>3, <2>3, <2>4
<1>5. v \in Ahead(work)
  BY <1>1, <1>2, <1>3, AboveItself DEF Ahead
<1>6. ASSUME v \in Ahead(later) PROVE FALSE
  <2>1. PICK u \in Waiting(later.stack) : u[1] <= v[1] /\ Above(v, u[1]) = u
    BY <1>6 DEF Ahead
  <2>2. CASE u \in Quarter(v)
    <3>1. u[1] = v[1] + 1
      BY <1>2, <2>2, QuarterFacts
    <3>2. QED
      BY <1>2, <2>1, <3>1
  <2>3. CASE u \in Waiting(Front(work.stack))
    <3>1. PICK i \in DOMAIN work.stack : u = work.stack[i].at
      BY <1>3, <2>3 DEF Waiting
    <3>2. PICK j \in DOMAIN work.stack : v = work.stack[j].at
      BY <1>3 DEF Waiting
    <3>3. /\ ItemOK(tiles, work.stack[i], work.target)
          /\ ItemOK(tiles, work.stack[j], work.target)
      BY DEF WorkOK, StackOK
    <3>4. Hangs(tiles, v) /\ u \in Cell /\ work.stack[i].features # Null
      BY <3>1, <3>2, <3>3 DEF ItemOK
    <3>5. u[1] # v[1]
      BY <1>2, <1>3, <2>1, <2>3, AboveItself
    <3>6. u[1] \in 0..(v[1] - 1)
      BY <1>2, <2>1, <3>4, <3>5 DEF Cell
    <3>7. u \in DOMAIN tiles /\ tiles[u].source = Null
      BY <2>1, <3>4, <3>6 DEF Hangs
    <3>8. tiles[u].source = work.stack[i].features
      BY <3>1, <3>3, <3>7 DEF ItemOK
    <3>9. QED
      BY <3>4, <3>7, <3>8
  <2>4. QED
    BY <1>3, <2>1, <2>2, <2>3
<1>7. QED
  BY <1>4, <1>5, <1>6

\* When drawTile draws, or goes up, no tiles are added.
LEMMA DrawInDepth ==
  ASSUME NEW tiles, DOMAIN tiles \subseteq PlacesTo(MaxZoom), NEW of, NEW v, v[1] \in Int,
         v[1] <= MaxZoom, NEW found, NEW e, draw(tiles, of, v, found, e)
  PROVE  DepthInv'
<1>1. call'.event = "none"
  BY DEF draw, Idle
<1>2. DOMAIN tileIndex' = DOMAIN tiles
  BY DEF draw, Returned
<1>3. at' = (IF found = Null THEN zoomOut(v) ELSE v) /\ zoomOut(v)[1] = v[1] - 1 /\ MaxZoom \in Nat
  BY GeoJsonVtAssumption DEF draw, zoomOut
<1>4. at'[1] <= MaxZoom
  BY <1>3
<1>5. QED
  BY <1>1, <1>2, <1>4 DEF DepthInv

\* A handler makes tiles for places of the world only.
LEMMA MadeForPlace ==
  ASSUME IInv', NEW e \in {"load", "click", "back"}, NEW v, ~(v[1] < 0), NEW work,
         call' = [event |-> e, v |-> v, work |-> work], at' = at
  PROVE  InWorld(v)
<1>1. call'.event = e /\ call'.v = v /\ call'.event # "none"
  OBVIOUS
<1>2. /\ e = "load"  => v = at
      /\ e = "click" => InWorld(at) /\ v \in Quarter(at)
      /\ e = "back"  => v = zoomOut(at)
  BY <1>1 DEF IInv, CallOK, zoomOut
<1>3. InWorld(at) \/ (at[1] \in Int /\ at[1] < 0)
  <2>1. InWorld(at') \/ (at'[1] \in Int /\ at'[1] < 0)
    BY Zenon DEF IInv, PlaceOK
  <2>2. QED
    BY <2>1
<1>4. CASE e = "load"
  BY <1>2, <1>3, <1>4
<1>5. CASE e = "click"
  BY <1>2, <1>5, QuarterFacts DEF InWorld
<1>6. CASE e = "back"
  <2>1. zoomOut(at)[1] = at[1] - 1
    BY DEF zoomOut
  <2>2. InWorld(at) /\ at \in Cell /\ at[1] > 0
    BY <1>2, <1>3, <1>6, <2>1 DEF InWorld, Cell
  <2>3. QED
    BY <1>2, <1>6, <2>2, AboveZoomOut
<1>7. QED
  BY <1>4, <1>5, <1>6

\* drawTile drills from a tile that is there, down to the place it is asked for.
LEMMA DrawTileInDepth ==
  ASSUME IInv', at[1] <= MaxZoom, NEW tiles, DOMAIN tiles \subseteq PlacesTo(MaxZoom), NEW of,
         NEW v, v[1] \in Int, v[1] <= MaxZoom, NEW e \in {"load", "click", "back"}, drawTile(tiles, of, v, e)
  PROVE  DepthInv'
<1>1. CASE \E found : draw(tiles, of, v, found, e)
  BY <1>1, DrawInDepth
<1>2. ASSUME NEW begin, v[1] >= 0, begin = Closest(tiles, Wrapped(v)), Drills(tiles, Wrapped(v), begin),
             split(tiles, v, splitting(tiles[begin].source, begin, Wrapped(v)), e)
      PROVE  DepthInv'
  <2>1. PICK work, item : /\ work = splitting(tiles[begin].source, begin, Wrapped(v))
                          /\ item = [features |-> tiles[begin].source, at |-> begin]
    OBVIOUS
  <2>2. tileIndex' = tiles /\ at' = at /\ call' = [event |-> e, v |-> v, work |-> work]
    BY <1>2, <2>1 DEF split
  <2>3. InWorld(v)
    BY <1>2, <2>2, MadeForPlace
  <2>4. Wrapped(v) = v /\ v \in Cell /\ v # Null /\ v[1] \in Nat
    BY <2>3, WrappedInWorld, NullAssumption DEF InWorld, Cell
  <2>5. begin # Null
    BY <1>2 DEF Drills
  <2>6. begin \in DOMAIN tiles /\ begin[1] <= v[1]
    <3>1. PICK m \in 0..v[1] : begin = Above(v, m) /\ Above(v, m) \in DOMAIN tiles
      BY <1>2, <2>4, <2>5, ClosestIsLast
    <3>2. Above(v, m)[1] = m
      BY <2>4, AboveIsCell
    <3>3. QED
      BY <2>4, <3>1, <3>2
  <2>7. work.stack = <<item>> /\ work.target = v /\ item.at = begin
    BY <2>1, <2>4 DEF splitting
  <2>8. Limit(work) = v[1]
    BY <2>4, <2>7 DEF Limit
  <2>9. Waiting(work.stack) = {begin}
    BY <2>7 DEF Waiting
  <2>10. begin \in PlacesTo(v[1])
    BY <2>4, <2>6, GeoJsonVtAssumption, InPlaces
  <2>11. WorkInDepth(work)
    BY <2>8, <2>9, <2>10 DEF WorkInDepth
  <2>12. call'.v = v /\ call'.work = work
    BY <2>2
  <2>13. QED
    BY <2>2, <2>11, <2>12 DEF DepthInv, WorkInDepth, Waiting, Limit
<1>3. QED
  BY <1>1, <1>2, Zenon DEF drawTile

\* A step keeps the index, the page and what waits within depth.
LEMMA StepInDepth ==
  ASSUME IInv, IInv', DepthInv, [Next]_vars
  PROVE  DepthInv'
<1>1. at[1] \in Int /\ at[1] <= MaxZoom
  <2>1. InWorld(at) \/ at[1] \in Int
    BY Zenon DEF IInv, PlaceOK
  <2>2. QED
    BY <2>1 DEF DepthInv, InWorld, Cell
<1>2. ASSUME NEW f \in Files, ondrop(f) PROVE DepthInv'
  BY <1>2 DEF ondrop, DepthInv
<1>3. ASSUME NEW r \in reading, onload(r) PROVE DepthInv'
  <2>1. PICK v : v = at
    OBVIOUS
  <2>2. DOMAIN <<>> \subseteq PlacesTo(MaxZoom)
    OBVIOUS
  <2>3. CASE UNCHANGED <<tileIndex, file, at, canvas, button, call>>
    BY <2>3 DEF DepthInv
  <2>4. CASE drawTile(<<>>, r, at, "load")
    <3>1. drawTile(<<>>, r, v, "load")
      BY <2>1, <2>4 DEF drawTile, draw, split
    <3>2. QED
      BY <1>1, <2>1, <2>2, <3>1, DrawTileInDepth
  <2>5. ASSUME NEW features, split(<<>>, at, splitting(features, <<0, 0, 0>>, Null), "load")
        PROVE  DepthInv'
    <3>1. PICK work : work = splitting(features, <<0, 0, 0>>, Null)
      OBVIOUS
    <3>2. tileIndex' = <<>> /\ at' = at /\ call' = [event |-> "load", v |-> v, work |-> work]
      BY <2>1, <2>5, <3>1 DEF split
    <3>3. work.stack = <<[features |-> features, at |-> <<0, 0, 0>>]>> /\ work.target = Null
      BY <3>1 DEF splitting
    <3>4. Waiting(work.stack) = {<<0, 0, 0>>} /\ Limit(work) \in Nat
      BY <3>3, GeoJsonVtAssumption DEF Waiting, Limit
    <3>5. <<0, 0, 0>> \in PlacesTo(Limit(work))
      BY <3>4, Powers, InPlaces DEF InWorld, Cell
    <3>6. WorkInDepth(work)
      BY <3>4, <3>5 DEF WorkInDepth
    <3>7. call'.v = v /\ call'.work = work
      BY <3>2
    <3>8. QED
      BY <1>1, <2>1, <2>2, <3>2, <3>6, <3>7 DEF DepthInv, WorkInDepth, Waiting, Limit
  <2>6. QED
    BY <1>3, <2>3, <2>4, <2>5, Zenon DEF onload
<1>4. ASSUME call.event = "none", tileIndex # Null PROVE DOMAIN tileIndex \subseteq PlacesTo(MaxZoom)
  <2>1. file # Null
    BY <1>4 DEF IInv, OneFile
  <2>2. QED
    BY <2>1 DEF DepthInv
<1>5. ASSUME NEW right \in 0..1, NEW bottom \in 0..1, onclick(right, bottom) PROVE DepthInv'
  <2>1. PICK tiles, of, v : /\ tiles = tileIndex /\ of = file
                            /\ v = <<at[1] + 1, 2 * at[2] + right, 2 * at[3] + bottom>>
    OBVIOUS
  <2>2. /\ call.event = "none" /\ tileIndex # Null /\ at[1] # MaxZoom
        /\ drawTile(tileIndex, file, <<at[1] + 1, 2 * at[2] + right, 2 * at[3] + bottom>>, "click")
    BY <1>5 DEF onclick
  <2>3. drawTile(tiles, of, v, "click")
    BY <2>1, <2>2 DEF drawTile, draw, split
  <2>4. v[1] \in Int /\ v[1] <= MaxZoom
    BY <1>1, <2>1, <2>2, GeoJsonVtAssumption
  <2>5. DOMAIN tiles \subseteq PlacesTo(MaxZoom)
    BY <1>4, <2>1, <2>2
  <2>6. QED
    BY <1>1, <2>3, <2>4, <2>5, DrawTileInDepth
<1>6. CASE back
  <2>1. PICK tiles, of, v : tiles = tileIndex /\ of = file /\ v = zoomOut(at)
    OBVIOUS
  <2>2. call.event = "none" /\ tileIndex # Null /\ drawTile(tileIndex, file, zoomOut(at), "back")
    BY <1>6 DEF back
  <2>3. drawTile(tiles, of, v, "back")
    BY <2>1, <2>2 DEF drawTile, draw, split
  <2>4. v[1] = at[1] - 1
    BY <2>1 DEF zoomOut
  <2>5. v[1] \in Int /\ v[1] <= MaxZoom
    BY <1>1, <2>4, GeoJsonVtAssumption
  <2>6. DOMAIN tiles \subseteq PlacesTo(MaxZoom)
    BY <1>4, <2>1, <2>2
  <2>7. QED
    BY <1>1, <2>3, <2>5, <2>6, DrawTileInDepth
<1>7. ASSUME call.event # "none"
      PROVE  /\ file # Null /\ Tree(tileIndex) /\ WorkOK(tileIndex, call.work)
             /\ WorkInDepth(call.work)
             /\ DOMAIN tileIndex \subseteq PlacesTo(MaxZoom)
             /\ call.event \in {"load", "click", "back"}
             /\ call.v[1] \in Int /\ call.v[1] <= MaxZoom
             /\ Limit(call.work) \in 0..MaxZoom
  <2>1. /\ file # Null /\ Tree(tileIndex) /\ WorkOK(tileIndex, call.work)
        /\ call.event \in {"load", "click", "back"}
        /\ call.work.target # Null => call.work.target = call.v
        /\ call.work.target = Null => call.v = at
    BY <1>7 DEF IInv, CallOK
  <2>2. WorkInDepth(call.work) /\ call.v[1] <= MaxZoom
    BY <1>7 DEF DepthInv
  <2>3. DOMAIN tileIndex \subseteq PlacesTo(MaxZoom)
    BY <2>1 DEF DepthInv
  <2>4. CASE call.work.target = Null
    BY <1>1, <2>1, <2>2, <2>3, <2>4, GeoJsonVtAssumption DEF Limit
  <2>5. CASE call.work.target # Null
    <3>1. InWorld(call.work.target)
      BY <2>1, <2>5 DEF WorkOK
    <3>2. call.v[1] \in Nat
      BY <2>1, <2>5, <3>1 DEF InWorld, Cell
    <3>3. Limit(call.work) = call.v[1]
      BY <2>1, <2>5 DEF Limit
    <3>4. QED
      BY <2>1, <2>2, <2>3, <3>2, <3>3, GeoJsonVtAssumption
  <2>6. QED
    BY <2>4, <2>5
<1>8. CASE splitStep
  <2>1. /\ call.event # "none" /\ call.work.stack # <<>> /\ at' = at
        /\ tileIndex' = splitTile(tileIndex, call.work).tiles
        /\ call' = [call EXCEPT !.work = splitTile(tileIndex, call.work).split]
    BY <1>8, Zenon DEF splitStep
  <2>2. PICK tiles, work : tiles = tileIndex /\ work = call.work
    OBVIOUS
  <2>3. PICK v, next, later : TurnOf(tiles, work, v, next, later)
    BY <1>7, <2>1, <2>2, TurnGoesOn
  <2>4. splitTile(tiles, work) = [tiles |-> next, split |-> later] /\ DOMAIN next = DOMAIN tiles \cup {v}
    BY <2>3 DEF TurnOf
  <2>5. /\ Limit(work) \in 0..MaxZoom
        /\ WorkInDepth(later)
        /\ v \in PlacesTo(Limit(work))
    BY <1>7, <2>1, <2>2, <2>3, TurnInDepth
  <2>6. v \in PlacesTo(MaxZoom)
    BY <2>5, GeoJsonVtAssumption, InPlaces DEF InWorld, Cell
  <2>7. DOMAIN next \subseteq PlacesTo(MaxZoom)
    BY <1>7, <2>1, <2>2, <2>4, <2>6
  <2>8. tileIndex' = next /\ call' = [call EXCEPT !.work = later]
    BY <2>1, <2>2, <2>4
  <2>9. call = [event |-> call.event, v |-> call.v, work |-> call.work]
    BY <2>1 DEF IInv, CallOK
  <2>10. call'.v = call.v /\ call'.work = later
    BY <2>8, <2>9
  <2>11. QED
    BY <1>1, <1>7, <2>1, <2>5, <2>7, <2>8, <2>10
       DEF DepthInv, WorkInDepth, Waiting, Limit
<1>9. CASE splitEnd
  <2>1. PICK tiles, of, v, e, found : /\ tiles = tileIndex /\ of = file /\ v = call.v
                                      /\ e = call.event /\ found = Made(tileIndex, call.work)
    OBVIOUS
  <2>2. call.event # "none"
    BY <1>9 DEF splitEnd
  <2>3. CASE drawTile(tileIndex, file, call.v, call.event)
    <3>1. drawTile(tiles, of, v, e)
      BY <2>1, <2>3 DEF drawTile, draw, split
    <3>2. QED
      BY <1>1, <1>7, <2>1, <2>2, <3>1, DrawTileInDepth
  <2>4. CASE draw(tileIndex, file, call.v, Made(tileIndex, call.work), call.event)
    <3>1. draw(tiles, of, v, found, e)
      BY <2>1, <2>4 DEF draw
    <3>2. QED
      BY <1>7, <2>1, <2>2, <3>1, DrawInDepth
  <2>5. QED
    BY <1>9, <2>3, <2>4, Zenon DEF splitEnd
<1>10. CASE UNCHANGED vars
  BY <1>10 DEF vars, DepthInv, WorkInDepth, Waiting, Limit
<1>11. QED
  BY <1>2, <1>3, <1>5, <1>6, <1>8, <1>9, <1>10 DEF Next

LEMMA DepthHolds == Spec => []DepthInv
<1>1. Init => DepthInv
  BY GeoJsonVtAssumption DEF Init, Idle, DepthInv
<1>2. IInv /\ IInv' /\ DepthInv /\ [Next]_vars => DepthInv'
  BY StepInDepth
<1>3. QED
  BY <1>1, <1>2, InvariantHolds, PTL DEF Spec

\* The page and the tiles are at most at the last zoom, and the tiles in the world.
NeverTooDeep == /\ at[1] <= MaxZoom
                /\ tileIndex # Null => DOMAIN tileIndex \subseteq PlacesTo(MaxZoom)

\* The guards of the code test that a zoom IS the last one (viz.js:150,
\* geojson-vt-dev.js:423, 428): no click, drop or drill gets past it, so neither the page nor
\* the index goes deeper, and no tile is made outside the world.
THEOREM NothingTooDeep == Spec => []NeverTooDeep
<1>1. IInv /\ DepthInv => NeverTooDeep
  BY DEF IInv, OneFile, DepthInv, NeverTooDeep
<1>2. QED
  BY <1>1, InvariantHolds, DepthHolds, PTL

\* The places ahead of a call that runs are finitely many.
FewAhead == call.event # "none" => IsFiniteSet(Ahead(call.work))

\* The loop of splitTile (geojson-vt-dev.js:388-477), which pushes four tiles for one it
\* takes off, comes to an end, also from a tile it drills a second time: of finitely many
\* places ahead each turn takes one.
THEOREM SplittingEnds == Spec => EachTurnGoesOn /\ []FewAhead
<1> DEFINE Less == splitStep => /\ Ahead(call'.work) \subseteq Ahead(call.work)
                                /\ Ahead(call'.work) # Ahead(call.work)
<1>1. ASSUME IInv, DepthInv, splitStep PROVE Less
  <2>1. /\ call.event # "none" /\ call.work.stack # <<>>
        /\ call' = [call EXCEPT !.work = splitTile(tileIndex, call.work).split]
    BY <1>1, Zenon DEF splitStep
  <2>2. PICK tiles, work : tiles = tileIndex /\ work = call.work
    OBVIOUS
  <2>3. /\ Tree(tiles) /\ WorkOK(tiles, work)
        /\ call = [event |-> call.event, v |-> call.v, work |-> call.work]
    BY <1>1, <2>1, <2>2 DEF IInv, CallOK
  <2>4. PICK v, next, later : TurnOf(tiles, work, v, next, later)
    BY <2>1, <2>2, <2>3, TurnGoesOn
  <2>5. splitTile(tiles, work).split = later
    BY <2>4 DEF TurnOf
  <2>6. call'.work = later
    BY <2>1, <2>2, <2>3, <2>5
  <2>7. WorkInDepth(work)
    BY <1>1, <2>1, <2>2 DEF DepthInv
  <2>8. Limit(work) \in Nat
    BY <2>3, GeoJsonVtAssumption DEF Limit, WorkOK, InWorld, Cell
  <2>9. Ahead(later) \subseteq Ahead(work) /\ v \in Ahead(work) /\ v \notin Ahead(later)
    BY <2>3, <2>4, <2>7, <2>8, LessAhead
  <2>10. QED
    BY <2>2, <2>6, <2>9 DEF Ahead, Limit, Waiting
<1>2. ASSUME IInv PROVE FewAhead
  <2>1. SUFFICES ASSUME call.event # "none" PROVE IsFiniteSet(Ahead(call.work))
    BY DEF FewAhead
  <2>2. Limit(call.work) \in Nat
    BY <1>2, <2>1, GeoJsonVtAssumption DEF IInv, CallOK, WorkOK, Limit, InWorld, Cell
  <2>3. Ahead(call.work) \subseteq PlacesTo(Limit(call.work))
    BY DEF Ahead
  <2>4. QED
    BY <2>2, <2>3, PlacesAreFinite, FS_Subset
<1>3. IInv /\ DepthInv /\ [Next]_vars => [Less]_vars
  BY <1>1
<1>4. QED
  BY <1>2, <1>3, InvariantHolds, DepthHolds, PTL DEF Spec, EachTurnGoesOn

=============================================================================
