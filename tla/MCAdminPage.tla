----------------------------- MODULE MCAdminPage -----------------------------
(* An instance of AdminPage for TLC. *)
EXTENDS AdminPage, TLC

CONSTANTS l1, l2, l3, session, other

\* The first two layers are of one session.
MCIdentifier == (l1 :> session) @@ (l2 :> session) @@ (l3 :> other)
MCAnswers    == {<<l1>>, <<l1, l2, l3>>}
=============================================================================
