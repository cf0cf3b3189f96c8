------------------------------- MODULE TileMap -------------------------------
(***************************************************************************)
(* What a tile cache promises the threads that share it: for every layer   *)
(* and every tile of it, a read answers what was last stored there.        *)
(***************************************************************************)
CONSTANTS Thread, Layer, Tile, Value, Null

VARIABLES stored,   \* stored[l][t]: the tile object, or Null
          reply     \* reply[p]: what thread p's last read answered, or Null

vars == <<stored, reply>>

Init ==
    /\ stored = [l \in Layer |-> [t \in Tile |-> Null]]
    /\ reply = [p \in Thread |-> Null]

Get(p, l, t) ==
    /\ reply' = [reply EXCEPT ![p] = stored[l][t]]
    /\ UNCHANGED stored

Store(l, t, v) ==
    /\ stored' = [stored EXCEPT ![l][t] = v]
    /\ UNCHANGED reply

Next ==
    \E l \in Layer, t \in Tile :
        \/ \E p \in Thread : Get(p, l, t)
        \/ \E v \in Value : Store(l, t, v)

Spec == Init /\ [][Next]_vars
=============================================================================
