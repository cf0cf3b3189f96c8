----------------------------- MODULE TileServer -----------------------------
(***************************************************************************)
(* What the tile server promises a browser: every request is answered,     *)
(* and its answer is the tile at the address asked for.  How tiles are     *)
(* made, kept and shared is module TilePyramid's matter.                   *)
(***************************************************************************)
CONSTANTS Request,    \* the requests
          Expected,   \* Expected[t]: the answers that are right for tile t
          Pending     \* no answer yet

VARIABLES target,     \* the tile each request asks for
          asked,      \* the requests made so far
          answer

vars == <<target, asked, answer>>

Init ==
    /\ target \in [Request -> DOMAIN Expected]
    /\ asked = {}
    /\ answer = [r \in Request |-> Pending]

Ask(r) ==
    /\ r \notin asked
    /\ asked' = asked \cup {r}
    /\ UNCHANGED <<target, answer>>

\* A tile at hand is served as it is asked for; another one later.
Serve(r) ==
    /\ answer[r] = Pending
    /\ asked' = asked \cup {r}
    /\ \E a \in Expected[target[r]] : answer' = [answer EXCEPT ![r] = a]
    /\ UNCHANGED target

Next == \E r \in Request : Ask(r) \/ Serve(r)

Spec == Init /\ [][Next]_vars /\ \A r \in Request : WF_vars(r \in asked /\ Serve(r))
=============================================================================
