------------------------- MODULE HubConnectionProofs -------------------------
(***************************************************************************)
(* The connection of a hub, its callbacks, timer and reports, for any      *)
(* offers of transports, frames of the server, numbers of calls, streams,  *)
(* redirects, stops and sessions.                                          *)
(***************************************************************************)
EXTENDS HubConnection, FiniteSetTheorems, TLAPS

-----------------------------------------------------------------------------
(* The inductive invariant: what the states of start(), of the transport and *)
(* of stop() say of each other, and what a call's state says of its traces.  *)

LinkInv ==
  /\ starting \in {"renegotiate", "connect"} =>
       transport = kind /\ kind # Null /\ endpoints # <<>>
  /\ starting \in Waits => link \in {"none", "opening", "refused"}
  /\ link = "opening" <=> starting = "connect"
  /\ starting = "rejected" => link = "none"
  /\ starting # "idle" => deletes = 0 /\ reports = 0 /\ ~zombie
  /\ starting \in Waits \cup {"rejected"} => connectionState # "Connected"
  /\ link = "open" => transport # Null /\ deletes = 0
  /\ link \in {"open", "closing"} => reports = 0
  /\ starting \notin {"renegotiate", "connect"} /\ transport \in {"WebSockets", "ServerSentEvents"}
       => link = "open"
  /\ zombie => link = "none" /\ reports > 0
  /\ starting = "negotiate" => redirects < MaxRedirects

ConnInv == /\ HttpTypeOK /\ reports \in Nat /\ zombie \in BOOLEAN
           /\ LinkInv
           /\ ConnectedHasTransport

HubType == /\ starts \in 0..MaxStarts
           /\ hub \in {"idle", "connection", "handshake"}
           /\ received \in BOOLEAN
           /\ greeting \in {"none", "asked", "given"}
           /\ armed \in BOOLEAN
           /\ orphans = 0

Ended   == {<<>>, <<"completed">>, <<"closed">>}
AllEnds == Ended \cup {Append(e, "sendFailed") : e \in Ended}
States  == {"new", "pending", "thrown", "answered", "rejected", "disposed"}

CallInv ==
  /\ callbacks \subseteq Calls /\ posts \subseteq Calls /\ calls \in [Calls -> States]
  /\ ends \in [Streams -> AllEnds]
  /\ \A c \in Calls : /\ calls[c] = "new" => c \notin callbacks /\ c \notin posts
                      /\ calls[c] = "thrown" => c \notin posts
                      /\ calls[c] = "pending" => c \in callbacks
  /\ \A s \in Streams : /\ calls[s] \in {"new", "thrown"} => ends[s] = <<>>
                        /\ s \in callbacks => ends[s] = <<>>
                        /\ s \in posts => ends[s] \in Ended

HasLink == link \in {"open", "closing"}

IInv == ConnInv /\ HubType /\ CallInv /\ PendingCallsCanSettle

-----------------------------------------------------------------------------
(* The connection: each operation of HttpConnection keeps ConnInv. *)

LEMMA ConnStays ==
  ASSUME ConnInv, UNCHANGED <<httpVars, reports, zombie>>
  PROVE  ConnInv'
BY DEF ConnInv, HttpTypeOK, LinkInv, ConnectedHasTransport, httpVars

LEMMA ConnStart ==
  ASSUME ConnInv, MayStart, Start, reports' = 0, zombie' = zombie
  PROVE  ConnInv'
BY HttpAssumption DEF ConnInv, HttpTypeOK, LinkInv, ConnectedHasTransport, MayStart, Start, Waits

LEMMA ConnStartFails ==
  ASSUME ConnInv, starting \in Waits, StartFails, redirects' \in 0..MaxRedirects,
         UNCHANGED <<reports, zombie>>
  PROVE  ConnInv'
BY HttpAssumption DEF ConnInv, HttpTypeOK, LinkInv, ConnectedHasTransport, StartFails, Waits,
                      Settled, Kinds

LEMMA ConnTry ==
  ASSUME ConnInv, starting \in Waits, NEW list \in Seq(Kinds), NEW fresh \in BOOLEAN,
         TryEndpoint(list, fresh), redirects' \in 0..MaxRedirects, UNCHANGED <<reports, zombie>>
  PROVE  ConnInv'
<1>1. CASE list = <<>>
  BY <1>1, ConnStartFails DEF TryEndpoint
<1>2. CASE list # <<>>
  <2>1. Head(list) \in Kinds /\ Head(list) # Null
    BY <1>2, HttpAssumption
  <2>2. /\ connectionState' = "Connecting" /\ endpoints' = list
        /\ transport' = Head(list) /\ kind' = Head(list)
        /\ starting' = (IF fresh THEN "connect" ELSE "renegotiate")
        /\ link' = (IF fresh THEN "opening" ELSE "none")
        /\ UNCHANGED <<keepAlive, stops, deletes>>
    BY <1>2 DEF TryEndpoint
  <2>3. HttpTypeOK' /\ ConnectedHasTransport'
    BY <1>2, <2>1, <2>2 DEF ConnInv, HttpTypeOK, ConnectedHasTransport, Waits
  <2>4. starting # "idle" /\ starting' # "idle" /\ starting' \in {"renegotiate", "connect"}
    BY <2>2 DEF Waits
  <2>5. LinkInv'
    BY <1>2, <2>1, <2>2, <2>4 DEF ConnInv, LinkInv
  <2>6. QED
    BY <2>3, <2>5 DEF ConnInv
<1>3. QED
  BY <1>1, <1>2

LEMMA ConnNegotiated ==
  ASSUME ConnInv, Negotiated, UNCHANGED <<reports, zombie>>
  PROVE  ConnInv'
<1>1. starting = "negotiate" /\ starting \in Waits
  BY DEF Negotiated, Waits
<1>2. CASE connectionState = "Disconnected"
  BY <1>1, <1>2 DEF Negotiated, ConnInv, HttpTypeOK, LinkInv, ConnectedHasTransport, Waits, Settled
<1>3. CASE connectionState # "Disconnected"
  <2>1. redirects' = redirects + 1 /\ redirects' \in 0..MaxRedirects
    <3>1. redirects' = redirects + 1
      BY <1>3, Zenon DEF Negotiated
    <3>2. redirects \in 0..MaxRedirects /\ redirects < MaxRedirects
      BY <1>1 DEF ConnInv, HttpTypeOK, LinkInv
    <3>3. QED
      BY <3>1, <3>2, HttpAssumption
  <2>2. CASE redirects' < MaxRedirects /\ UNCHANGED <<connectionState,
                  starting, endpoints, transport, kind, link, keepAlive, stops, deletes>>
    BY <2>1, <2>2 DEF ConnInv, HttpTypeOK, LinkInv, ConnectedHasTransport
  <2>3. CASE StartFails
    BY <1>1, <2>1, <2>3, ConnStartFails
  <2>4. ASSUME NEW offer \in Offers, TryEndpoint(offer, TRUE) PROVE ConnInv'
    <3>1. offer \in Seq(Kinds)
      BY HttpAssumption
    <3>2. QED
      BY <1>1, <2>1, <2>4, <3>1, ConnTry
  <2>5. QED
    BY <1>3, <2>2, <2>3, <2>4 DEF Negotiated
<1>4. QED
  BY <1>2, <1>3

LEMMA ConnNegotiationFails ==
  ASSUME ConnInv, NegotiationFails, UNCHANGED <<reports, zombie>>
  PROVE  ConnInv'
<1>1. starting \in Waits /\ redirects' \in 0..MaxRedirects
  BY DEF NegotiationFails, Waits, ConnInv, HttpTypeOK
<1>2. QED
  BY <1>1, ConnStartFails DEF NegotiationFails

LEMMA ConnRenegotiated ==
  ASSUME ConnInv, Renegotiated, UNCHANGED <<reports, zombie>>
  PROVE  ConnInv'
BY DEF Renegotiated, ConnInv, HttpTypeOK, LinkInv, ConnectedHasTransport, Waits

LEMMA ConnOpens ==
  ASSUME ConnInv, TransportOpens, UNCHANGED <<reports, zombie>>
  PROVE  ConnInv'
<1>1. <<>> \in Seq(Kinds)
  OBVIOUS
<1>2. QED
  BY <1>1 DEF TransportOpens, ConnInv, HttpTypeOK, LinkInv, ConnectedHasTransport, Waits, Settled

LEMMA ConnOpenFails ==
  ASSUME ConnInv, TransportFails, UNCHANGED <<reports, zombie>>
  PROVE  ConnInv'
<1>1. starting \in Waits /\ redirects' \in 0..MaxRedirects
  BY DEF TransportFails, Waits, ConnInv, HttpTypeOK
<1>2. Tail(endpoints) \in Seq(Kinds)
  <2>1. endpoints \in Seq(Kinds) /\ endpoints # <<>>
    BY DEF TransportFails, ConnInv, HttpTypeOK, LinkInv
  <2>2. QED
    BY <2>1
<1>3. QED
  BY <1>1, <1>2, ConnTry DEF TransportFails

LEMMA ConnSettles ==
  ASSUME ConnInv, starting \in Settled, starting' = "idle",
         UNCHANGED <<connectionState, redirects, endpoints, transport, kind, link, keepAlive,
                     stops, deletes, reports, zombie>>
  PROVE  ConnInv'
BY DEF ConnInv, HttpTypeOK, LinkInv, ConnectedHasTransport, Waits, Settled

LEMMA ConnStopCalled ==
  ASSUME ConnInv, NEW n \in Nat, StopCalled(n),
         UNCHANGED <<starting, redirects, endpoints, transport, kind, link, keepAlive,
                     deletes, reports, zombie>>
  PROVE  ConnInv'
<1>1. stops' \in Nat /\ connectionState' \in {"Disconnected", connectionState}
  BY DEF StopCalled, ConnInv, HttpTypeOK
<1>2. QED
  BY <1>1 DEF ConnInv, HttpTypeOK, LinkInv, ConnectedHasTransport

LEMMA ConnStopsTransport ==
  ASSUME ConnInv, StopsTransport, UNCHANGED <<reports, zombie>>
  PROVE  ConnInv'
<1>1. stops' \in Nat
  BY DEF StopsTransport, ConnInv, HttpTypeOK
<1>2. QED
  <2>1. CASE transport = Null
    BY <1>1, <2>1 DEF StopsTransport, ConnInv, HttpTypeOK, LinkInv, ConnectedHasTransport, Waits
  <2>2. CASE transport = "WebSockets"
    <3>1. Null \notin {"WebSockets", "ServerSentEvents"} /\ transport # Null
      BY <2>2, HttpAssumption DEF Kinds
    <3>2. link' = "closing" /\ transport' = Null /\ deletes' = deletes /\ starting = "idle"
      BY <2>2, <3>1 DEF StopsTransport
    <3>3. QED
      BY <1>1, <2>2, <3>1, <3>2 DEF StopsTransport, ConnInv, HttpTypeOK, LinkInv,
                                    ConnectedHasTransport, Waits
  <2>3. CASE transport = "LongPolling"
    <3>1. transport # Null
      BY <2>3, HttpAssumption DEF Kinds
    <3>2. /\ link' = (IF link = "open" THEN "closing" ELSE link) /\ starting = "idle"
          /\ deletes' = deletes + 1 /\ transport' = transport
      BY <2>3, <3>1 DEF StopsTransport
    <3>3. QED
      BY <1>1, <2>3, <3>1, <3>2 DEF StopsTransport, ConnInv, HttpTypeOK, LinkInv,
                                    ConnectedHasTransport, Waits
  <2>4. QED
    BY <2>1, <2>2, <2>3 DEF StopsTransport

LEMMA ConnDeleted ==
  ASSUME ConnInv, Deleted, UNCHANGED <<reports, zombie>>
  PROVE  ConnInv'
<1>1. deletes' \in Nat /\ deletes > 0 /\ deletes # 0
  BY DEF Deleted, ConnInv, HttpTypeOK
<1>2. starting = "idle"
  BY <1>1 DEF ConnInv, LinkInv
<1>3. Null \notin {"WebSockets", "ServerSentEvents"}
  BY HttpAssumption DEF Kinds
<1>4. QED
  BY <1>1, <1>2, <1>3 DEF Deleted, ConnInv, HttpTypeOK, LinkInv, ConnectedHasTransport, Waits

\* The end of a link is reported once, or it is that of an EventSource left open.
LEMMA ConnCloses ==
  ASSUME ConnInv, Closed, starting = "idle", stops' \in Nat,
         UNCHANGED <<starting, redirects, endpoints, kind, keepAlive, deletes>>,
         \/ HasLink /\ reports' = reports + 1 /\ zombie' \in BOOLEAN
         \/ zombie /\ reports' \in {reports, reports + 1} /\ zombie' \in BOOLEAN
  PROVE  ConnInv'
<1>1. transport' \notin {"WebSockets", "ServerSentEvents"} /\ reports \in Nat
  BY HttpAssumption DEF Closed, Kinds, ConnInv
<1>2. QED
  BY <1>1 DEF Closed, ConnInv, HttpTypeOK, LinkInv, ConnectedHasTransport, HasLink, Waits

-----------------------------------------------------------------------------
(* The calls: what CallbacksCalled, and a link that stays, leave of them. *)

LEMMA SettlingKeepsCalls ==
  ASSUME CallInv, NEW done \in SUBSET callbacks, NEW closed \in BOOLEAN,
         CallbacksCalled(done, closed), posts' = posts
  PROVE  /\ CallInv'
         /\ closed => callbacks' = {} /\ \A c \in Calls : calls'[c] # "pending"
         /\ \A c \in Calls : calls'[c] = "pending" => calls[c] = "pending"
<1> DEFINE left == IF closed THEN callbacks \ done ELSE {}
<1>1. /\ callbacks' = (callbacks \ done) \ left
      /\ calls' = [c \in Calls |-> IF calls[c] # "pending" THEN calls[c]
                                   ELSE IF c \in done THEN "answered"
                                   ELSE IF c \in left THEN "rejected" ELSE "pending"]
      /\ ends' = [c \in Streams |-> IF calls[c] = "thrown" THEN ends[c]
                                    ELSE IF c \in done THEN Append(ends[c], "completed")
                                    ELSE IF c \in left THEN Append(ends[c], "closed")
                                    ELSE ends[c]]
  BY DEF CallbacksCalled
<1>2. left \subseteq callbacks /\ (closed => done \cup left = callbacks)
  OBVIOUS
<1> HIDE DEF left
<1>3. Streams \subseteq Calls
  BY DEF Calls
<1>4. ASSUME NEW c \in Calls
      PROVE  /\ calls'[c] \in States
             /\ calls'[c] = "new" => c \notin callbacks' /\ c \notin posts'
             /\ calls'[c] = "thrown" => c \notin posts'
             /\ calls'[c] = "pending" => calls[c] = "pending" /\ c \in callbacks'
             /\ closed => calls'[c] # "pending"
             /\ calls'[c] \in {"new", "thrown"} => calls'[c] = calls[c]
  BY <1>1, <1>2 DEF CallInv, States
<1>5. ASSUME NEW s \in Streams
      PROVE  /\ ends'[s] \in AllEnds
             /\ calls'[s] \in {"new", "thrown"} => ends'[s] = <<>>
             /\ s \in callbacks' => ends'[s] = <<>>
             /\ s \in posts' => ends'[s] \in Ended
  <2>1. /\ ends[s] \in AllEnds /\ (calls[s] \in {"new", "thrown"} => ends[s] = <<>>)
        /\ (s \in callbacks => ends[s] = <<>>) /\ (s \in posts => ends[s] \in Ended)
        /\ (calls[s] = "new" => s \notin callbacks)
    BY <1>3 DEF CallInv
  <2>2. CASE ends'[s] = ends[s]
    BY <1>1, <1>3, <1>4, <2>1, <2>2
  <2>3. CASE ends'[s] # ends[s]
    <3>1. /\ s \in callbacks /\ s \notin callbacks' /\ calls[s] # "thrown"
          /\ ends'[s] \in {Append(ends[s], "completed"), Append(ends[s], "closed")}
      BY <1>1, <1>2, <2>3
    <3>2. ends[s] = <<>> /\ calls[s] # "new"
      BY <2>1, <3>1
    <3>3. Append(<<>>, "completed") = <<"completed">> /\ Append(<<>>, "closed") = <<"closed">>
      OBVIOUS
    <3>4. ends'[s] \in Ended
      BY <3>1, <3>2, <3>3 DEF Ended
    <3>5. calls'[s] \notin {"new", "thrown"}
      BY <1>3, <1>4, <3>1, <3>2
    <3>6. QED
      BY <3>1, <3>4, <3>5 DEF AllEnds
  <2>4. QED
    BY <2>2, <2>3
<1>6. calls' \in [Calls -> States] /\ ends' \in [Streams -> AllEnds]
  BY <1>1, <1>4, <1>5
<1>7. CallInv'
  BY <1>1, <1>4, <1>5, <1>6 DEF CallInv
<1>8. QED
  BY <1>1, <1>2, <1>4, <1>7

LEMMA CallsStay ==
  ASSUME CallInv, PendingCallsCanSettle, UNCHANGED <<callVars, posts>>, HasLink => HasLink'
  PROVE  CallInv' /\ PendingCallsCanSettle'
<1>1. callbacks' = callbacks /\ calls' = calls /\ ends' = ends /\ posts' = posts
  BY DEF callVars
<1>2. QED
  BY <1>1 DEF CallInv, PendingCallsCanSettle, HasLink

\* A link that ends settles what is pending.
LEMMA CallsSettled ==
  ASSUME CallInv, NEW done \in SUBSET callbacks, CallbacksCalled(done, TRUE), posts' = posts
  PROVE  CallInv' /\ PendingCallsCanSettle'
BY SettlingKeepsCalls DEF PendingCallsCanSettle

LEMMA CallsAnswered ==
  ASSUME CallInv, PendingCallsCanSettle, NEW done \in SUBSET callbacks,
         CallbacksCalled(done, FALSE), posts' = posts, HasLink => HasLink'
  PROVE  CallInv' /\ PendingCallsCanSettle'
<1>1. CallInv' /\ \A c \in Calls : calls'[c] = "pending" => calls[c] = "pending"
  BY SettlingKeepsCalls
<1>2. QED
  BY <1>1 DEF CallInv, PendingCallsCanSettle, HasLink

-----------------------------------------------------------------------------
(* What a frame of the server does. *)

LEMMA FrameFacts ==
  ASSUME NEW frame \in Frames
  PROVE  /\ StopsIn(frame) \in Nat
         /\ Done(frame) \in SUBSET callbacks
<1>1. frame \in Seq(Messages) /\ frame # <<>>
  BY HubAssumption
<1>2. Body(frame) \in Seq(Messages)
  BY <1>1 DEF Body
<1>3. IsFiniteSet(1..Len(Body(frame)))
  <2>1. 1 \in Int /\ Len(Body(frame)) \in Int
    BY <1>2
  <2>2. QED
    BY <2>1, FS_Interval
<1> DEFINE S == {i \in Handled(frame) : Body(frame)[i][1] \in {"ask", "close"}}
<1>4. S \in SUBSET (1..Len(Body(frame)))
  BY DEF Handled
<1> HIDE DEF S
<1>5. IsFiniteSet(S)
  BY <1>3, <1>4, FS_Subset
<1>6. Cardinality(S) \in Nat
  BY <1>5, FS_CardinalityType
<1>7. StopsIn(frame) \in Nat
  BY <1>6 DEF StopsIn, S
<1>8. QED
  BY <1>7 DEF Done

LEMMA ConfigureType ==
  ASSUME HubType, configureTimeout(FALSE) \/ cleanupTimeout
  PROVE  armed' \in BOOLEAN /\ orphans' = 0
BY DEF HubType, configureTimeout, cleanupTimeout

-----------------------------------------------------------------------------
(* Every step keeps the invariant. *)

LEMMA InitInv == Init => IInv
<1> SUFFICES ASSUME Init PROVE IInv
  OBVIOUS
<1>1. /\ connectionState = "Disconnected" /\ starting = "idle" /\ redirects = 0
      /\ endpoints = <<>> /\ transport = Null /\ kind = Null /\ link = "none"
      /\ keepAlive = FALSE /\ stops = 0 /\ deletes = 0
  BY DEF Init, HttpInit
<1>2. <<>> \in Seq(Kinds) /\ Null \notin {"WebSockets", "ServerSentEvents"}
  BY HttpAssumption DEF Kinds
<1>3. ConnInv
  <2>1. keepAlive \in BOOLEAN /\ zombie \in BOOLEAN /\ ~zombie /\ reports = 0
    BY Zenon DEF Init, HttpInit
  <2>2. /\ starting \notin Waits \cup {"rejected"} /\ starting \in {"idle"}
    BY <1>1 DEF Waits
  <2>3. HttpTypeOK
    BY <1>1, <1>2, <2>1, HttpAssumption DEF HttpTypeOK
  <2>4. LinkInv
    BY <1>1, <1>2, <2>1, <2>2 DEF LinkInv
  <2>5. ConnectedHasTransport
    BY <1>1 DEF ConnectedHasTransport
  <2>6. QED
    BY <2>1, <2>3, <2>4, <2>5 DEF ConnInv
<1>4. HubType
  <2>1. MaxStarts \in Nat
    BY HubAssumption
  <2>2. /\ starts = 0 /\ hub = "idle" /\ received = FALSE /\ greeting = "none"
        /\ armed = FALSE /\ orphans = 0
    BY DEF Init
  <2>3. received \in BOOLEAN /\ armed \in BOOLEAN
    BY <2>2, Zenon
  <2>4. starts \in 0..MaxStarts
    BY <2>1, <2>2
  <2>5. QED
    BY <2>2, <2>3, <2>4, Zenon DEF HubType
<1>5. CallInv /\ PendingCallsCanSettle
  <2>1. /\ callbacks = {} /\ posts = {} /\ calls = [c \in Calls |-> "new"]
        /\ ends = [c \in Streams |-> <<>>]
    BY DEF Init
  <2>2. Streams \subseteq Calls
    BY DEF Calls
  <2>3. <<>> \in AllEnds /\ "new" \in States
    BY DEF AllEnds, Ended, States
  <2>4. CallInv
    BY <2>1, <2>2, <2>3 DEF CallInv
  <2>5. PendingCallsCanSettle
    BY <2>1 DEF PendingCallsCanSettle
  <2>6. QED
    BY <2>4, <2>5
<1>6. QED
  BY <1>3, <1>4, <1>5 DEF IInv

\* What is left of the hub when only the connection below it moves.
LEMMA HubKept ==
  ASSUME IInv, KeepsHub, ConnInv', HasLink => HasLink'
  PROVE  IInv'
<1>1. /\ HubType'
      /\ UNCHANGED <<callVars, posts>>
  BY DEF KeepsHub, hubVars, timerVars, IInv, HubType
<1>2. QED
  BY <1>1, CallsStay DEF IInv

LEMMA NoLinkWhileStarting ==
  ASSUME ConnInv
  PROVE  /\ HasLink => starting \notin Waits \cup {"rejected"}
         /\ HasLink /\ Quiet => starting = "idle"
         /\ zombie => starting = "idle" /\ ~HasLink
BY DEF ConnInv, HttpTypeOK, LinkInv, HasLink, Quiet, Waits, Settled

LEMMA StartsInv ==
  ASSUME IInv, HubStart \/ HubStartRejected \/ HubStartContinues
  PROVE  IInv'
<1>1. CASE HubStart
  <2>1. ConnInv'
    BY <1>1, ConnStart DEF HubStart, IInv
  <2>2. HubType'
    <3>1. MaxStarts \in Nat
      BY HubAssumption
    <3>2. /\ starts < MaxStarts /\ starts' = starts + 1 /\ hub' = "connection"
          /\ received' = FALSE /\ greeting' = "none" /\ UNCHANGED <<armed, orphans>>
      BY <1>1 DEF HubStart, MayStart, timerVars
    <3>3. received' \in BOOLEAN
      BY <3>2, Zenon
    <3>4. starts' \in 0..MaxStarts
      BY <3>1, <3>2 DEF IInv, HubType
    <3>5. armed' \in BOOLEAN /\ orphans' = 0
      BY <3>2 DEF IInv, HubType
    <3>6. QED
      BY <3>2, <3>3, <3>4, <3>5, Zenon DEF HubType
  <2>3. link' = link /\ UNCHANGED <<callVars, posts>>
    BY <1>1 DEF HubStart, Start
  <2>4. QED
    BY <2>1, <2>2, <2>3, CallsStay DEF IInv, HasLink
<1>2. CASE HubStartRejected
  <2>1. ConnInv'
    BY <1>2, ConnStays DEF HubStartRejected, IInv
  <2>2. HubType'
    BY <1>2 DEF HubStartRejected, timerVars, IInv, HubType
  <2>3. link' = link /\ UNCHANGED <<callVars, posts>>
    BY <1>2 DEF HubStartRejected, httpVars
  <2>4. QED
    BY <2>1, <2>2, <2>3, CallsStay DEF IInv, HasLink
<1>3. CASE HubStartContinues
  <2>1. ConnInv'
    BY <1>3, ConnSettles DEF HubStartContinues, IInv
  <2>2. armed' \in BOOLEAN /\ orphans' = 0
    BY <1>3, ConfigureType DEF HubStartContinues, timerVars, IInv, HubType
  <2>3. HubType'
    BY <1>3, <2>2 DEF HubStartContinues, IInv, HubType
  <2>4. link' = link /\ UNCHANGED <<callVars, posts>>
    BY <1>3 DEF HubStartContinues
  <2>5. QED
    BY <2>1, <2>3, <2>4, CallsStay DEF IInv, HasLink
<1>4. QED
  BY <1>1, <1>2, <1>3

LEMMA HandshakePostedInv ==
  ASSUME IInv, NEW ok \in BOOLEAN, HandshakePosted(ok)
  PROVE  IInv'
<1>1. ConnInv'
  BY ConnStays DEF HandshakePosted, IInv
<1>2. armed' \in BOOLEAN /\ orphans' = 0
  BY ConfigureType DEF HandshakePosted, timerVars, IInv, HubType
<1>3. HubType'
  BY <1>2 DEF HandshakePosted, IInv, HubType
<1>4. link' = link /\ UNCHANGED <<callVars, posts>>
  BY DEF HandshakePosted, httpVars
<1>5. QED
  BY <1>1, <1>3, <1>4, CallsStay DEF IInv, HasLink

LEMMA StopInv ==
  ASSUME IInv, HubStop \/ serverTimeout
  PROVE  IInv'
<1>1. /\ StopCalled(1)
      /\ UNCHANGED <<starting, redirects, endpoints, transport, kind, link, keepAlive, deletes,
                     starts, hub, received, greeting, callVars, posts, reports, zombie>>
  BY DEF HubStop, serverTimeout
<1>2. ConnInv'
  BY <1>1, ConnStopCalled DEF IInv
<1>3. armed' \in BOOLEAN /\ orphans' = 0
  <2>1. cleanupTimeout
    BY DEF HubStop, serverTimeout, IInv, HubType
  <2>2. QED
    BY <2>1, ConfigureType DEF IInv
<1>4. HubType'
  BY <1>1, <1>3 DEF IInv, HubType
<1>5. QED
  BY <1>1, <1>2, <1>4, CallsStay DEF IInv, HasLink

LEMMA ReceiveInv ==
  ASSUME IInv, NEW frame \in Frames, Receive(frame)
  PROVE  IInv'
<1>1. StopsIn(frame) \in Nat /\ Done(frame) \in SUBSET callbacks
  BY FrameFacts
<1>2. /\ StopCalled(StopsIn(frame)) /\ CallbacksCalled(Done(frame), FALSE)
      /\ greeting' = "given" /\ received' = (received \/ ~CannotGreet(frame))
      /\ configureTimeout(FALSE) \/ cleanupTimeout
      /\ UNCHANGED <<starting, redirects, endpoints, transport, kind, link, keepAlive, deletes,
                     starts, hub, posts, reports, zombie>>
  BY DEF Receive
<1>3. ConnInv'
  BY <1>1, <1>2, ConnStopCalled DEF IInv
<1>4. armed' \in BOOLEAN /\ orphans' = 0
  BY <1>2, ConfigureType DEF IInv
<1>5. HubType'
  BY <1>2, <1>4 DEF IInv, HubType
<1>6. HasLink => HasLink'
  BY <1>2 DEF HasLink
<1>7. CallInv' /\ PendingCallsCanSettle'
  BY <1>1, <1>2, <1>6, CallsAnswered DEF IInv
<1>8. QED
  BY <1>3, <1>5, <1>7 DEF IInv

LEMMA ReceiveLastInv ==
  ASSUME IInv, NEW frame \in Frames, ReceiveLast(frame)
  PROVE  IInv'
<1>1. StopsIn(frame) \in Nat /\ Done(frame) \in SUBSET callbacks
  BY FrameFacts
<1>2. HasLink /\ Quiet
  BY DEF ReceiveLast, HasLink
<1>3. /\ stops' = stops + StopsIn(frame) /\ Closed
      /\ zombie' = (kind = "ServerSentEvents")
      /\ greeting' = "given" /\ received' = (received \/ ~CannotGreet(frame))
      /\ CallbacksCalled(Done(frame), TRUE) /\ cleanupTimeout /\ reports' = reports + 1
      /\ UNCHANGED <<starting, redirects, endpoints, kind, keepAlive, deletes, starts, hub, posts>>
  BY DEF ReceiveLast, connectionClosed
<1>4. ConnInv'
  <2>1. stops' \in Nat
    BY <1>1, <1>3 DEF IInv, ConnInv, HttpTypeOK
  <2>2. starting = "idle"
    BY <1>2, NoLinkWhileStarting DEF IInv
  <2>3. zombie' \in BOOLEAN
    BY <1>3
  <2>4. QED
    BY <1>2, <1>3, <2>1, <2>2, <2>3, ConnCloses DEF IInv
<1>5. armed' \in BOOLEAN /\ orphans' = 0
  BY <1>3, ConfigureType DEF IInv
<1>6. HubType'
  BY <1>3, <1>5 DEF IInv, HubType
<1>7. CallInv' /\ PendingCallsCanSettle'
  BY <1>1, <1>3, CallsSettled DEF IInv
<1>8. QED
  BY <1>4, <1>6, <1>7 DEF IInv

LEMMA ReceiveLateInv ==
  ASSUME IInv, NEW frame \in Frames, ReceiveLate(frame)
  PROVE  IInv'
<1>1. StopsIn(frame) \in Nat /\ Done(frame) \in SUBSET callbacks
  BY FrameFacts
<1>2. zombie /\ starting = "idle" /\ ~HasLink
  BY NoLinkWhileStarting DEF ReceiveLate, IInv
<1>3. /\ stops' = stops + StopsIn(frame) /\ Closed
      /\ greeting' = "given" /\ received' = (received \/ ~CannotGreet(frame))
      /\ UNCHANGED <<starting, redirects, endpoints, kind, keepAlive, deletes, starts, hub, posts,
                     zombie>>
      /\ \/ CallbacksCalled(Done(frame), TRUE) /\ cleanupTimeout /\ reports' = reports + 1
         \/ CallbacksCalled(Done(frame), FALSE) /\ configureTimeout(FALSE) /\ UNCHANGED reports
  BY DEF ReceiveLate, connectionClosed
<1>4. ConnInv'
  <2>1. stops' \in Nat
    BY <1>1, <1>3 DEF IInv, ConnInv, HttpTypeOK
  <2>2. reports' \in {reports, reports + 1} /\ zombie' \in BOOLEAN
    BY <1>2, <1>3
  <2>3. QED
    BY <1>2, <1>3, <2>1, <2>2, ConnCloses DEF IInv
<1>5. armed' \in BOOLEAN /\ orphans' = 0
  BY <1>3, ConfigureType DEF IInv
<1>6. HubType'
  BY <1>3, <1>5 DEF IInv, HubType
<1>7. CallInv' /\ PendingCallsCanSettle'
  <2>1. CASE CallbacksCalled(Done(frame), TRUE)
    BY <1>1, <1>3, <2>1, CallsSettled DEF IInv
  <2>2. CASE CallbacksCalled(Done(frame), FALSE)
    BY <1>1, <1>2, <1>3, <2>2, CallsAnswered DEF IInv
  <2>3. QED
    BY <1>3, <2>1, <2>2
<1>8. QED
  BY <1>4, <1>6, <1>7 DEF IInv

LEMMA EventSourceFailsInv ==
  ASSUME IInv, EventSourceFails
  PROVE  IInv'
<1>1. zombie /\ zombie' = FALSE /\ starting = "idle" /\ Closed
  BY NoLinkWhileStarting DEF EventSourceFails, IInv
<1>2. /\ CallbacksCalled({}, TRUE) /\ cleanupTimeout /\ reports' = reports + 1
      /\ UNCHANGED <<starting, redirects, endpoints, kind, keepAlive, stops, deletes, starts, hub,
                     received, greeting, posts>>
  BY DEF EventSourceFails, connectionClosed
<1>3. stops' \in Nat /\ zombie' \in BOOLEAN
  BY <1>1, <1>2 DEF IInv, ConnInv, HttpTypeOK
<1>4. ConnInv'
  BY <1>1, <1>2, <1>3, ConnCloses DEF IInv
<1>5. HubType'
  BY <1>2, ConfigureType DEF IInv, HubType
<1>6. CallInv' /\ PendingCallsCanSettle'
  BY <1>2, CallsSettled DEF IInv
<1>7. QED
  BY <1>4, <1>5, <1>6 DEF IInv

LEMMA CallHubInv ==
  ASSUME IInv, NEW c \in Calls, CallHub(c)
  PROVE  IInv'
<1>1. UNCHANGED <<httpVars, starts, hub, received, greeting, timerVars, reports, zombie>>
  BY DEF CallHub
<1>2. ConnInv' /\ HubType' /\ link' = link
  BY <1>1, ConnStays DEF IInv, HubType, timerVars, httpVars
<1>3. calls[c] = "new" /\ c \notin callbacks /\ c \notin posts /\ Streams \subseteq Calls
  BY DEF CallHub, IInv, CallInv, Calls
<1>4. CASE /\ callbacks' = callbacks \cup {c} /\ calls' = [calls EXCEPT ![c] = "thrown"]
           /\ UNCHANGED <<ends, posts>>
  <2>1. CallInv'
    BY <1>3, <1>4 DEF IInv, CallInv, States
  <2>2. PendingCallsCanSettle'
    BY <1>2, <1>3, <1>4 DEF IInv, CallInv, PendingCallsCanSettle
  <2>3. QED
    BY <1>2, <2>1, <2>2 DEF IInv
<1>5. CASE /\ calls' = [calls EXCEPT ![c] = "rejected"]
           /\ ends' = [s \in Streams |-> IF s = c THEN Append(ends[s], "sendFailed") ELSE ends[s]]
           /\ UNCHANGED <<callbacks, posts>>
  <2>1. ASSUME NEW s \in Streams
        PROVE  ends'[s] \in AllEnds /\ (s # c => ends'[s] = ends[s])
    <3>1. ends[s] \in AllEnds /\ (s = c => ends[s] = <<>>)
      BY <1>3 DEF IInv, CallInv
    <3>2. Append(<<>>, "sendFailed") \in AllEnds
      BY DEF AllEnds, Ended
    <3>3. QED
      BY <1>5, <3>1, <3>2
  <2>2. ends' \in [Streams -> AllEnds]
    BY <1>5, <2>1
  <2>3. CallInv'
    BY <1>3, <1>5, <2>1, <2>2 DEF IInv, CallInv, States
  <2>4. PendingCallsCanSettle'
    BY <1>2, <1>3, <1>5 DEF IInv, CallInv, PendingCallsCanSettle
  <2>5. QED
    BY <1>2, <2>3, <2>4 DEF IInv
<1>6. CASE /\ link = "open" /\ callbacks' = callbacks \cup {c}
           /\ calls' = [calls EXCEPT ![c] = "pending"]
           /\ posts' = (IF kind = "WebSockets" THEN posts ELSE posts \cup {c})
           /\ UNCHANGED ends
  <2>1. c \in Streams => ends[c] = <<>>
    BY <1>3 DEF IInv, CallInv
  <2>2. posts' \in {posts, posts \cup {c}} /\ <<>> \in Ended
    BY <1>6 DEF Ended
  <2>3. CallInv'
    BY <1>3, <1>6, <2>1, <2>2 DEF IInv, CallInv, States
  <2>4. PendingCallsCanSettle'
    BY <1>2, <1>3, <1>6 DEF IInv, CallInv, PendingCallsCanSettle
  <2>5. QED
    BY <1>2, <2>3, <2>4 DEF IInv
<1>7. QED
  BY <1>4, <1>5, <1>6 DEF CallHub

LEMMA PostedInv ==
  ASSUME IInv, NEW c \in Calls, NEW ok \in BOOLEAN, Posted(c, ok)
  PROVE  IInv'
<1>1. UNCHANGED <<httpVars, starts, hub, received, greeting, timerVars, reports, zombie>>
  BY DEF Posted
<1>2. ConnInv' /\ HubType' /\ link' = link
  BY <1>1, ConnStays DEF IInv, HubType, timerVars, httpVars
<1>3. c \in posts /\ posts' = posts \ {c} /\ calls[c] \notin {"new", "thrown"}
      /\ Streams \subseteq Calls
  BY DEF Posted, IInv, CallInv, Calls
<1>4. CASE UNCHANGED callVars
  <2>1. UNCHANGED <<callbacks, calls, ends>>
    BY <1>4 DEF callVars
  <2>2. CallInv'
    BY <1>3, <2>1 DEF IInv, CallInv
  <2>3. PendingCallsCanSettle'
    BY <1>2, <2>1 DEF IInv, PendingCallsCanSettle
  <2>4. QED
    BY <1>2, <2>2, <2>3 DEF IInv
<1>5. CASE /\ callbacks' = callbacks \ {c}
           /\ calls' = [calls EXCEPT ![c] = IF @ = "pending" THEN "rejected" ELSE @]
           /\ ends' = [s \in Streams |-> IF s = c /\ calls[c] # "disposed"
                                         THEN Append(ends[s], "sendFailed") ELSE ends[s]]
  <2>1. ASSUME NEW s \in Streams
        PROVE  ends'[s] \in AllEnds /\ (s # c => ends'[s] = ends[s])
    <3>1. ends[s] \in AllEnds /\ (s = c => ends[s] \in Ended)
      BY <1>3 DEF IInv, CallInv
    <3>2. ends[s] \in Ended => Append(ends[s], "sendFailed") \in AllEnds
      BY DEF AllEnds
    <3>3. QED
      BY <1>5, <3>1, <3>2
  <2>2. ends' \in [Streams -> AllEnds]
    BY <1>5, <2>1
  <2>3. /\ calls' \in [Calls -> States]
        /\ \A d \in Calls : d # c => calls'[d] = calls[d]
        /\ calls'[c] \notin {"new", "thrown", "pending"}
    BY <1>3, <1>5 DEF IInv, CallInv, States
  <2>4. CallInv'
    BY <1>3, <1>5, <2>1, <2>2, <2>3 DEF IInv, CallInv
  <2>5. PendingCallsCanSettle'
    BY <1>2, <1>5, <2>3 DEF IInv, PendingCallsCanSettle
  <2>6. QED
    BY <1>2, <2>4, <2>5 DEF IInv
<1>6. QED
  BY <1>4, <1>5 DEF Posted

LEMMA DisposeInv ==
  ASSUME IInv, NEW s \in Streams, Dispose(s)
  PROVE  IInv'
<1>1. /\ UNCHANGED <<httpVars, starts, hub, received, greeting, timerVars, ends, posts, reports,
                     zombie>>
      /\ callbacks' = callbacks \ {s} /\ calls' = [calls EXCEPT ![s] = "disposed"]
  BY DEF Dispose
<1>2. ConnInv' /\ HubType' /\ link' = link
  BY <1>1, ConnStays DEF IInv, HubType, timerVars, httpVars
<1>3. /\ calls' \in [Calls -> States] /\ Streams \subseteq Calls
      /\ \A d \in Calls : d # s => calls'[d] = calls[d]
      /\ calls'[s] = "disposed"
  BY <1>1 DEF IInv, CallInv, States, Calls
<1>4. CallInv'
  BY <1>1, <1>3 DEF IInv, CallInv
<1>5. PendingCallsCanSettle'
  BY <1>1, <1>2, <1>3 DEF IInv, PendingCallsCanSettle
<1>6. QED
  BY <1>2, <1>4, <1>5 DEF IInv

\* The link ends outside the handling of a frame.
LEMMA HubClosedInv ==
  ASSUME IInv, Closed, HubClosed, HasLink, starting = "idle", stops' \in Nat,
         UNCHANGED <<starting, redirects, endpoints, kind, keepAlive, deletes>>
  PROVE  IInv'
<1>1. /\ CallbacksCalled({}, TRUE) /\ cleanupTimeout /\ reports' = reports + 1
      /\ UNCHANGED <<starts, hub, received, greeting, posts, zombie>>
  BY DEF HubClosed, connectionClosed
<1>2. zombie' \in BOOLEAN
  BY <1>1 DEF IInv, ConnInv
<1>3. ConnInv'
  BY <1>1, <1>2, ConnCloses DEF IInv
<1>4. HubType'
  BY <1>1, ConfigureType DEF IInv, HubType
<1>5. CallInv' /\ PendingCallsCanSettle'
  BY <1>1, CallsSettled DEF IInv
<1>6. QED
  BY <1>3, <1>4, <1>5 DEF IInv

LEMMA HttpStepInv ==
  ASSUME IInv,
         \/ NegotiationAnswered \/ NegotiationLost \/ NegotiatedAnew \/ Opens \/ OpenFails
         \/ StopContinues \/ DeleteAnswered \/ LinkCloses
  PROVE  IInv'
<1>1. KeepsHub => UNCHANGED <<reports, zombie>>
  BY DEF KeepsHub, hubVars
<1>2. starting \in Waits => ~HasLink
  BY NoLinkWhileStarting DEF IInv
<1>3. CASE NegotiationAnswered
  BY <1>1, <1>2, <1>3, ConnNegotiated, HubKept DEF NegotiationAnswered, Negotiated, Waits, IInv
<1>4. CASE NegotiationLost
  BY <1>1, <1>2, <1>4, ConnNegotiationFails, HubKept
     DEF NegotiationLost, NegotiationFails, Waits, IInv
<1>5. CASE NegotiatedAnew
  BY <1>1, <1>2, <1>5, ConnRenegotiated, HubKept DEF NegotiatedAnew, Renegotiated, Waits, IInv
<1>6. CASE Opens
  BY <1>1, <1>2, <1>6, ConnOpens, HubKept DEF Opens, TransportOpens, Waits, IInv
<1>7. CASE OpenFails
  BY <1>1, <1>2, <1>7, ConnOpenFails, HubKept DEF OpenFails, TransportFails, Waits, IInv
<1>8. CASE StopsTransport /\ KeepsHub
  <2>1. ConnInv'
    BY <1>1, <1>8, ConnStopsTransport DEF IInv
  <2>2. link' \in {link, "closing"}
    BY <1>8 DEF StopsTransport
  <2>3. QED
    BY <1>8, <2>1, <2>2, HubKept DEF HasLink
<1>9. CASE StopsEventSource /\ HubClosed
  <2>1. /\ starting = "idle" /\ transport = "ServerSentEvents" /\ stops > 0 /\ stops' = stops - 1
        /\ Closed /\ UNCHANGED <<starting, redirects, endpoints, kind, keepAlive, deletes>>
    BY <1>9 DEF StopsEventSource
  <2>2. HasLink /\ stops' \in Nat
    BY <2>1 DEF IInv, ConnInv, HttpTypeOK, LinkInv, HasLink
  <2>3. QED
    BY <1>9, <2>1, <2>2, HubClosedInv
<1>10. CASE DeleteAnswered
  <2>1. ConnInv' /\ KeepsHub /\ link' = link
    BY <1>1, <1>10, ConnDeleted DEF DeleteAnswered, Deleted, IInv
  <2>2. QED
    BY <2>1, HubKept DEF HasLink
<1>11. CASE LinkCloses
  <2>1. /\ HasLink /\ Quiet /\ Closed /\ HubClosed
        /\ UNCHANGED <<starting, redirects, endpoints, kind, keepAlive, stops, deletes>>
    BY <1>11 DEF LinkCloses, LinkEnds, HasLink
  <2>2. starting = "idle" /\ stops' \in Nat
    BY <2>1, NoLinkWhileStarting DEF IInv, ConnInv, HttpTypeOK
  <2>3. QED
    BY <2>1, <2>2, HubClosedInv
<1>12. QED
  BY <1>3, <1>4, <1>5, <1>6, <1>7, <1>8, <1>9, <1>10, <1>11 DEF StopContinues

LEMMA StepInv == IInv /\ [Next]_vars => IInv'
<1> SUFFICES ASSUME IInv, [Next]_vars PROVE IInv'
  OBVIOUS
<1>1. CASE UNCHANGED vars
  <2>1. UNCHANGED httpVars /\ KeepsHub /\ UNCHANGED <<reports, zombie>>
    BY <1>1 DEF vars, KeepsHub, hubVars
  <2>2. ConnInv' /\ link' = link
    BY <2>1, ConnStays DEF IInv, httpVars
  <2>3. QED
    BY <2>1, <2>2, HubKept DEF HasLink
<1>2. CASE Next
  BY <1>2, StartsInv, HandshakePostedInv, StopInv, ReceiveInv, ReceiveLastInv, ReceiveLateInv,
     EventSourceFailsInv, CallHubInv, PostedInv, DisposeInv, HttpStepInv DEF Next
<1>3. QED
  BY <1>1, <1>2

LEMMA Invariance == Spec => []IInv
BY InitInv, StepInv, PTL DEF Spec

-----------------------------------------------------------------------------

\* Every variable keeps its type; the ends an observer is told of are of its kinds.
THEOREM TypeCorrect == Spec => []TypeOK
<1>1. AllEnds \subseteq Seq({"completed", "closed", "sendFailed"})
  <2>1. Ended \subseteq Seq({"completed", "closed", "sendFailed"})
    BY DEF Ended
  <2>2. QED
    BY <2>1 DEF AllEnds
<1>2. IInv => TypeOK
  BY <1>1 DEF IInv, ConnInv, HubType, CallInv, TypeOK, States
<1>3. QED
  BY <1>2, Invariance, PTL

\* A call that waits always has its callback and a link that will answer or end,
\* whenever stops, failures and frames come.
THEOREM PendingCallsSettle == Spec => []PendingCallsCanSettle
<1>1. IInv => PendingCallsCanSettle
  BY DEF IInv
<1>2. QED
  BY <1>1, Invariance, PTL

\* The timer of timeoutHandle is the only one there ever is.
THEOREM TimerIsKnown == Spec => []NoForgottenTimer
<1>1. IInv => NoForgottenTimer
  BY DEF IInv, HubType, NoForgottenTimer
<1>2. QED
  BY <1>1, Invariance, PTL

\* A connection that says it is connected has a link, closing or refused if the
\* transport is forgotten, whatever stops, fallbacks and DELETEs race with it.
THEOREM ConnectedIsLinked == Spec => []ConnectedHasTransport
<1>1. IInv => ConnectedHasTransport
  BY DEF IInv, ConnInv
<1>2. QED
  BY <1>1, Invariance, PTL

\* Only three kinds of step report an end: a link of the session ends, a frame that
\* an EventSource left open cannot hand over, and the end of that EventSource.
LEMMA StepReports == IInv /\ [Next]_vars =>
                       \/ reports' \in {0, reports}
                       \/ HasLink /\ link' = "none"
                       \/ zombie
<1> SUFFICES ASSUME IInv, [Next]_vars
             PROVE  reports' \in {0, reports} \/ (HasLink /\ link' = "none") \/ zombie
  OBVIOUS
<1>1. KeepsHub => UNCHANGED reports
  BY DEF KeepsHub, hubVars
<1>2. CASE UNCHANGED vars
  BY <1>2 DEF vars, hubVars
<1>3. CASE HubStart \/ HubStartRejected \/ HubStartContinues \/ HubStop \/ serverTimeout
  BY <1>3 DEF HubStart, HubStartRejected, HubStartContinues, HubStop, serverTimeout
<1>4. ASSUME NEW ok \in BOOLEAN, HandshakePosted(ok) PROVE reports' = reports
  BY <1>4 DEF HandshakePosted
<1>5. ASSUME NEW frame \in Frames, Receive(frame) PROVE reports' = reports
  BY <1>5 DEF Receive
<1>6. ASSUME NEW frame \in Frames, ReceiveLast(frame) PROVE HasLink /\ link' = "none"
  BY <1>6 DEF ReceiveLast, HasLink, Closed
<1>7. ASSUME NEW frame \in Frames, ReceiveLate(frame) PROVE zombie
  BY <1>7 DEF ReceiveLate
<1>8. EventSourceFails => zombie
  BY DEF EventSourceFails
<1>9. ASSUME NEW c \in Calls,
             \/ CallHub(c) \/ Dispose(c)
             \/ \E ok \in BOOLEAN : Posted(c, ok)
      PROVE  reports' = reports
  BY <1>9 DEF CallHub, Posted, Dispose
<1>10. CASE \/ NegotiationAnswered \/ NegotiationLost \/ NegotiatedAnew \/ Opens \/ OpenFails
            \/ DeleteAnswered \/ (StopsTransport /\ KeepsHub)
  BY <1>1, <1>10 DEF NegotiationAnswered, NegotiationLost, NegotiatedAnew, Opens, OpenFails,
                     DeleteAnswered
<1>11. StopsEventSource => HasLink /\ link' = "none"
  BY DEF StopsEventSource, IInv, ConnInv, LinkInv, HasLink, Closed
<1>12. LinkCloses => HasLink /\ link' = "none"
  BY DEF LinkCloses, LinkEnds, HasLink, Closed
<1>13. Streams \subseteq Calls
  BY DEF Calls
<1>14. CASE Next
  BY <1>3, <1>4, <1>5, <1>6, <1>7, <1>8, <1>9, <1>10, <1>11, <1>12, <1>13, <1>14
     DEF Next, StopContinues
<1>15. QED
  BY <1>2, <1>14

\* The end of a session is told when its link ends, for the first time then, and
\* again only while an EventSource is left open.
THEOREM EndsAreReportedOnce == Spec => ReportedOnce
<1> DEFINE Reports == reports' > reports => \/ /\ link \in {"open", "closing"} /\ link' = "none"
                                               /\ reports = 0
                                            \/ zombie
<1>1. IInv /\ [Next]_vars => [Reports]_vars
  <2> SUFFICES ASSUME IInv, [Next]_vars, reports' > reports, ~zombie
               PROVE  link \in {"open", "closing"} /\ link' = "none" /\ reports = 0
    OBVIOUS
  <2>1. reports \in Nat /\ reports' \notin {0, reports}
    BY DEF IInv, ConnInv
  <2>2. HasLink /\ link' = "none"
    BY <2>1, StepReports
  <2>3. QED
    BY <2>2 DEF HasLink, IInv, ConnInv, LinkInv
<1>2. QED
  BY <1>1, Invariance, PTL DEF Spec, ReportedOnce

LEMMA AppendedToOne ==
  ASSUME NEW x, NEW y
  PROVE  Len(Append(<<x>>, y)) = 2 /\ Append(<<x>>, y)[1] = x /\ Append(<<x>>, y)[2] = y
<1>1. <<x>> \in Seq({x, y}) /\ y \in {x, y} /\ Len(<<x>>) = 1 /\ <<x>>[1] = x
  OBVIOUS
<1>2. QED
  BY <1>1

\* An observer of a stream hears of one end, or of a failed POST after it.
THEOREM StreamsEnd == Spec => []StreamsEndOnce
<1>1. ASSUME NEW e \in AllEnds
      PROVE  \/ Len(e) <= 1
             \/ Len(e) = 2 /\ e[2] = "sendFailed" /\ e[1] # "sendFailed"
  <2>1. CASE e \in Ended
    BY <2>1 DEF Ended
  <2>2. CASE e \notin Ended
    <3>1. PICK d \in Ended : e = Append(d, "sendFailed")
      BY <2>2 DEF AllEnds
    <3>2. CASE d = <<>>
      BY <3>1, <3>2
    <3>3. ASSUME NEW x, x # "sendFailed", d = <<x>>
          PROVE  Len(e) = 2 /\ e[2] = "sendFailed" /\ e[1] # "sendFailed"
      <4>1. e = Append(<<x>>, "sendFailed")
        BY <3>1, <3>3
      <4>2. Len(e) = 2 /\ e[1] = x /\ e[2] = "sendFailed"
        BY <4>1, AppendedToOne
      <4>3. QED
        BY <3>3, <4>2
    <3>4. d = <<>> \/ d = <<"completed">> \/ d = <<"closed">>
      BY DEF Ended
    <3>5. "completed" # "sendFailed" /\ "closed" # "sendFailed"
      OBVIOUS
    <3>6. QED
      BY <3>2, <3>3, <3>4, <3>5
  <2>3. QED
    BY <2>1, <2>2
<1>2. IInv => StreamsEndOnce
  BY <1>1 DEF IInv, CallInv, StreamsEndOnce
<1>3. QED
  BY <1>2, Invariance, PTL

-----------------------------------------------------------------------------
(* The refinement: sessions that start, open, fail and end. *)

Session == IF starting \in Waits THEN "starting" ELSE IF HasLink THEN "open" ELSE "idle"
Told    == reports > 0

LEMMA SessionIsThatOfContract ==
  /\ Contract!Init <=> Session = "idle" /\ Told = FALSE
  /\ Contract!Start <=> Session = "idle" /\ Session' = "starting" /\ Told' = FALSE
  /\ Contract!Open <=> Session = "starting" /\ Session' = "open" /\ UNCHANGED Told
  /\ Contract!Fail <=> Session = "starting" /\ Session' = "idle" /\ UNCHANGED Told
  /\ Contract!Close <=> Session = "open" /\ Session' = "idle" /\ Told' = TRUE
  /\ UNCHANGED Contract!vars <=> UNCHANGED Session /\ UNCHANGED Told
BY DEF Contract!Init, Contract!Start, Contract!Open, Contract!Fail, Contract!Close,
       Contract!vars, Session, Told, HasLink

LEMMA RefineInit == Init => Contract!Init
<1> SUFFICES ASSUME Init PROVE Contract!Init
  OBVIOUS
<1>1. starting = "idle" /\ link = "none" /\ reports = 0
  BY DEF Init, HttpInit
<1>2. Session = "idle" /\ Told = FALSE
  BY <1>1 DEF Session, Told, HasLink, Waits
<1>3. QED
  BY <1>2, SessionIsThatOfContract

LEMMA SameSession ==
  ASSUME UNCHANGED Session, UNCHANGED Told
  PROVE  [Contract!Next]_(Contract!vars)
BY SessionIsThatOfContract

LEMMA NothingOfASession ==
  ASSUME UNCHANGED <<starting, link, reports>>
  PROVE  [Contract!Next]_(Contract!vars)
<1>1. UNCHANGED Session /\ UNCHANGED Told
  BY DEF Session, Told, HasLink
<1>2. QED
  BY <1>1, SameSession

\* Whatever a start in progress does, it goes on, opens the session or fails.
LEMMA StartGoesOn ==
  ASSUME starting \in Waits, UNCHANGED reports
  PROVE  [Contract!Next]_(Contract!vars)
<1>1. Session = "starting" /\ UNCHANGED Told
  BY DEF Session, Told
<1>2. Session' \in {"starting", "open", "idle"}
  BY DEF Session
<1>3. CASE Session' = "starting"
  BY <1>1, <1>3, SameSession
<1>4. CASE Session' = "open"
  <2>1. Contract!Open
    BY <1>1, <1>4, SessionIsThatOfContract
  <2>2. QED
    BY <2>1 DEF Contract!Next
<1>5. CASE Session' = "idle"
  <2>1. Contract!Fail
    BY <1>1, <1>5, SessionIsThatOfContract
  <2>2. QED
    BY <2>1 DEF Contract!Next
<1>6. QED
  BY <1>2, <1>3, <1>4, <1>5

LEMMA SessionCloses ==
  ASSUME IInv, HasLink, starting = "idle", starting' = starting, Closed, reports' = reports + 1
  PROVE  [Contract!Next]_(Contract!vars)
<1>1. reports \in Nat /\ link' = "none"
  BY DEF IInv, ConnInv, Closed
<1>2. Session = "open" /\ Session' = "idle" /\ Told' = TRUE
  BY <1>1 DEF Session, Told, HasLink, Waits
<1>3. Contract!Close
  BY <1>2, SessionIsThatOfContract
<1>4. QED
  BY <1>3 DEF Contract!Next

LEMMA RefineStep == IInv /\ [Next]_vars => [Contract!Next]_(Contract!vars)
<1> SUFFICES ASSUME IInv, [Next]_vars PROVE [Contract!Next]_(Contract!vars)
  OBVIOUS
<1>1. KeepsHub => UNCHANGED reports
  BY DEF KeepsHub, hubVars
<1>2. UNCHANGED httpVars => UNCHANGED <<starting, link>>
  BY DEF httpVars
<1>3. CASE HubStart
  <2>1. Session = "idle" /\ Session' = "starting" /\ Told' = FALSE
    BY <1>3 DEF HubStart, MayStart, Start, Session, Told, HasLink, Waits
  <2>2. Contract!Start
    BY <2>1, SessionIsThatOfContract
  <2>3. QED
    BY <2>2 DEF Contract!Next
<1>4. CASE HubStartContinues
  <2>1. /\ starting \in Settled /\ starting' = "idle" /\ UNCHANGED <<link, reports>>
    BY <1>4 DEF HubStartContinues
  <2>2. UNCHANGED Session /\ UNCHANGED Told
    BY <2>1 DEF Session, Told, HasLink, Waits, Settled
  <2>3. QED
    BY <2>2, SameSession
<1>5. CASE HubStartRejected
  BY <1>2, <1>5, NothingOfASession DEF HubStartRejected
<1>6. CASE HubStop \/ serverTimeout
  BY <1>6, NothingOfASession DEF HubStop, serverTimeout
<1>7. ASSUME NEW ok \in BOOLEAN, HandshakePosted(ok) PROVE [Contract!Next]_(Contract!vars)
  BY <1>2, <1>7, NothingOfASession DEF HandshakePosted
<1>8. ASSUME NEW frame \in Frames, Receive(frame) PROVE [Contract!Next]_(Contract!vars)
  BY <1>8, NothingOfASession DEF Receive
<1>9. ASSUME NEW frame \in Frames, ReceiveLast(frame) PROVE [Contract!Next]_(Contract!vars)
  <2>1. HasLink /\ Quiet /\ Closed /\ starting' = starting /\ reports' = reports + 1
    BY <1>9 DEF ReceiveLast, HasLink, connectionClosed
  <2>2. starting = "idle"
    BY <2>1, NoLinkWhileStarting DEF IInv
  <2>3. QED
    BY <2>1, <2>2, SessionCloses
<1>10. ASSUME NEW frame \in Frames, ReceiveLate(frame) PROVE [Contract!Next]_(Contract!vars)
  <2>1. zombie /\ starting' = starting /\ link' = "none" /\ reports' \in {reports, reports + 1}
    BY <1>10 DEF ReceiveLate, Closed, connectionClosed
  <2>2. starting = "idle" /\ ~HasLink /\ reports > 0 /\ reports \in Nat
    BY <2>1, NoLinkWhileStarting DEF IInv, ConnInv, LinkInv
  <2>3. UNCHANGED Session
    BY <2>1, <2>2 DEF Session, HasLink, Waits
  <2>4. reports' > 0
    BY <2>1, <2>2
  <2>5. UNCHANGED Told
    BY <2>2, <2>4 DEF Told
  <2>6. QED
    BY <2>3, <2>5, SameSession
<1>22. CASE EventSourceFails
  <2>1. /\ zombie /\ starting' = starting /\ link' = "none" /\ reports' = reports + 1
    BY <1>22 DEF EventSourceFails, Closed, connectionClosed
  <2>2. starting = "idle" /\ ~HasLink /\ reports > 0 /\ reports \in Nat
    BY <2>1, NoLinkWhileStarting DEF IInv, ConnInv, LinkInv
  <2>3. UNCHANGED Session /\ UNCHANGED Told
    BY <2>1, <2>2 DEF Session, Told, HasLink, Waits
  <2>4. QED
    BY <2>3, SameSession
<1>11. ASSUME NEW c \in Calls, CallHub(c) PROVE [Contract!Next]_(Contract!vars)
  BY <1>2, <1>11, NothingOfASession DEF CallHub
<1>12. ASSUME NEW c \in Calls, NEW ok \in BOOLEAN, Posted(c, ok)
       PROVE  [Contract!Next]_(Contract!vars)
  BY <1>2, <1>12, NothingOfASession DEF Posted
<1>13. ASSUME NEW s \in Streams, Dispose(s) PROVE [Contract!Next]_(Contract!vars)
  BY <1>2, <1>13, NothingOfASession DEF Dispose
<1>14. CASE NegotiationAnswered \/ NegotiationLost \/ NegotiatedAnew \/ Opens \/ OpenFails
  <2>1. starting \in Waits /\ KeepsHub
    BY <1>14 DEF NegotiationAnswered, Negotiated, NegotiationLost, NegotiationFails,
                 NegotiatedAnew, Renegotiated, Opens, TransportOpens, OpenFails, TransportFails,
                 Waits
  <2>2. QED
    BY <1>1, <2>1, StartGoesOn
<1>15. CASE StopsTransport /\ KeepsHub
  <2>1. starting = "idle" /\ starting' = starting /\ reports' = reports
    BY <1>1, <1>15 DEF StopsTransport
  <2>2. HasLink' <=> HasLink
    <3>1. CASE transport = "WebSockets"
      <4>1. link = "open"
        BY <2>1, <3>1 DEF IInv, ConnInv, LinkInv
      <4>2. link' \in {link, "closing"}
        BY <1>15 DEF StopsTransport
      <4>3. QED
        BY <4>1, <4>2 DEF HasLink
    <3>2. CASE transport # "WebSockets"
      <4>1. link' = link \/ (link = "open" /\ link' = "closing")
        BY <1>15, <3>2 DEF StopsTransport
      <4>2. QED
        BY <4>1 DEF HasLink
    <3>3. QED
      BY <3>1, <3>2
  <2>3. UNCHANGED Session /\ UNCHANGED Told
    BY <2>1, <2>2 DEF Session, Told
  <2>4. QED
    BY <2>3, SameSession
<1>16. CASE StopsEventSource /\ HubClosed
  <2>1. /\ starting = "idle" /\ starting' = starting /\ transport = "ServerSentEvents" /\ Closed
        /\ reports' = reports + 1
    BY <1>16 DEF StopsEventSource, HubClosed, connectionClosed
  <2>2. HasLink
    BY <2>1 DEF IInv, ConnInv, LinkInv, HasLink
  <2>3. QED
    BY <2>1, <2>2, SessionCloses
<1>17. CASE DeleteAnswered
  BY <1>1, <1>17, NothingOfASession DEF DeleteAnswered, Deleted
<1>18. CASE LinkCloses
  <2>1. HasLink /\ Quiet /\ Closed /\ starting' = starting /\ reports' = reports + 1
    BY <1>18 DEF LinkCloses, LinkEnds, HasLink, HubClosed, connectionClosed
  <2>2. starting = "idle"
    BY <2>1, NoLinkWhileStarting DEF IInv
  <2>3. QED
    BY <2>1, <2>2, SessionCloses
<1>19. CASE UNCHANGED vars
  <2>1. UNCHANGED <<starting, link, reports>>
    BY <1>19 DEF vars, httpVars, hubVars
  <2>2. QED
    BY <2>1, NothingOfASession
<1>20. CASE Next
  BY <1>3, <1>4, <1>5, <1>6, <1>7, <1>8, <1>9, <1>10, <1>22, <1>11, <1>12, <1>13, <1>14, <1>15,
     <1>16, <1>17, <1>18, <1>20 DEF Next, StopContinues
<1>21. QED
  BY <1>19, <1>20

\* The connection keeps the contract of Connection: a session starts, opens or
\* fails, and ends, and its end is told if it had opened and only then.
THEOREM ConnectionIsImplemented == Spec => ImplementsConnection
<1>1. Init => Contract!Init
  BY RefineInit
<1>2. IInv /\ [Next]_vars => [Contract!Next]_(Contract!vars)
  BY RefineStep
<1>3. QED
  BY <1>1, <1>2, Invariance, PTL DEF Spec, ImplementsConnection, Contract!Spec
=============================================================================
