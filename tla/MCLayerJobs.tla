----------------------------- MODULE MCLayerJobs -----------------------------
(***************************************************************************)
(* Instances of LayerJobs.                                                 *)
(***************************************************************************)
EXTENDS LayerJobs

CONSTANTS p1, p2, p3, s1, s2, s3, cities, roads

\* Every post in a session of its own, or all in one.
MCOwnSession == [p \in Post |-> CASE p = p1 -> s1 [] p = p2 -> s2 [] p = p3 -> s3]
MCOneSession == [p \in Post |-> s1]

MCPrefix == [s \in Guid |-> s]

\* The first two posts with a file each, or with the same, and the third
\* without; or all with the same.
MCOwnFile == [p \in Post |-> CASE p = p1 -> cities [] p = p2 -> roads [] p = p3 -> Null]
MCOneFile == [p \in Post |-> IF p = p3 THEN Null ELSE cities]
MCAllOneFile == [p \in Post |-> cities]

\* Every view asks for the first post's layer.
MCWanted == [v \in View |-> <<s1, cities>>]
=============================================================================
