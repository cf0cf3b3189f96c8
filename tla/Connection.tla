----------------------------- MODULE Connection -----------------------------
(***************************************************************************)
(* What a connection promises to the page that uses it: a session is       *)
(* started, opens or fails, and ends; the page is told of the end of every *)
(* session that had opened, and never of one that had not.                 *)
(***************************************************************************)
VARIABLES session,  \* "idle", "starting" or "open"
          told      \* whether the end of the last session has been reported

vars == <<session, told>>

Init == session = "idle" /\ told = FALSE

Start == /\ session = "idle"
         /\ session' = "starting"
         /\ told' = FALSE

Open == /\ session = "starting"
        /\ session' = "open"
        /\ UNCHANGED told

Fail == /\ session = "starting"
        /\ session' = "idle"
        /\ UNCHANGED told

Close == /\ session = "open"
         /\ session' = "idle"
         /\ told' = TRUE

Next == Start \/ Open \/ Fail \/ Close

Spec == Init /\ [][Next]_vars
=============================================================================
