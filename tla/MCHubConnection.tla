--------------------------- MODULE MCHubConnection ---------------------------
(* Instances of HubConnection for TLC. *)
EXTENDS HubConnection

CONSTANTS i1, s1

MCOffers == {<<"WebSockets", "LongPolling">>, <<"ServerSentEvents">>}

MCFrames ==
  {<<<<m>>>> : m \in {"ok", "partial", "quiet", "throws"}}
    \cup {<<<<"done", c>>>> : c \in {i1, s1}}
    \cup {<<<<"ok">>, <<"quiet">>>>, <<<<"refused">>, <<"bad">>>>,
          <<<<"throws">>, <<"done", i1>>>>, <<<<"done", s1>>, <<"throws">>>>,
          <<<<"ask">>, <<"close">>>>}
=============================================================================
