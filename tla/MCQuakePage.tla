----------------------------- MODULE MCQuakePage -----------------------------
(* An instance of QuakePage for TLC: three quakes, two of one magnitude. *)
EXTENDS QuakePage, TLC

CONSTANTS q1, q2, q3

MCValue == [Name |-> (q1 :> 1) @@ (q2 :> 2) @@ (q3 :> 3),
            Magnitude |-> (q1 :> 8) @@ (q2 :> 8) @@ (q3 :> 5)]

MCFeatures == ("1998" :> <<q1, q2, q3>>) @@ ("1999" :> <<q3>>)
=============================================================================
