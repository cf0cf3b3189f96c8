---------------------------- MODULE HubConnection ----------------------------
(***************************************************************************)
(* The SignalR hub connection of a page (signalr.js, HubConnection) over   *)
(* the connection of HttpConnection: the handshake, calls of hub methods   *)
(* and streams and their callbacks, the messages of the server, the timer  *)
(* that gives the server up, and the report of the end to the page.        *)
(*                                                                         *)
(* The page starts the connection again only when the session before it is *)
(* over altogether (MayStart).  What a message carries is left out.        *)
(***************************************************************************)
EXTENDS HttpConnection, FiniteSets

CONSTANTS Invokes,    \* calls made with invoke()
          Streams,    \* calls made with stream()
          Frames,     \* the sequences of messages the server may send at once
          MaxStarts,  \* bound: times the page starts the connection
          MaxReports  \* bound: reports after which a stream left open delivers no more

Calls == Invokes \cup Streams

(* The messages of the server.  "ok" and "refused" answer the handshake and
   "partial" is an answer cut short; "bad" cannot be parsed; "throws" is for a
   method of the page that throws, "quiet" for one that does not, a stream's
   item or a ping; "ask" wants the page's answer; <<"done", c>> completes c. *)
Greetings == {"ok", "refused", "partial"}
Messages  == {<<m>> : m \in Greetings \cup {"bad", "throws", "quiet", "ask", "close"}}
               \cup ({"done"} \X Calls)

ASSUME HubAssumption == /\ Invokes \cap Streams = {}
                        /\ Frames \subseteq Seq(Messages) \ {<<>>}
                        /\ MaxStarts \in Nat
                        /\ MaxReports \in Nat

VARIABLES
  starts,     \* sessions started
  hub,        \* where HubConnection.start waits: "idle", "connection", "handshake"
  received,   \* receivedHandshakeResponse
  greeting,   \* the server: "none", "asked" once the request is sent, "given"
  armed,      \* whether the timer of timeoutHandle runs
  orphans,    \* timers that run and that timeoutHandle has forgotten
  callbacks,  \* the calls in this.callbacks
  calls,      \* what the page has heard of each call
  ends,       \* for each stream, the ends its observers were told of
  posts,      \* calls whose POST is not answered yet
  reports,    \* times onclose has been called since the last start
  zombie      \* an EventSource left open by a message that could not be handled

timerVars == <<armed, orphans>>
callVars  == <<callbacks, calls, ends>>
hubVars   == <<starts, hub, received, greeting, timerVars, callVars, posts, reports, zombie>>
vars      == <<httpVars, hubVars>>

TypeOK == /\ HttpTypeOK
          /\ starts \in 0..MaxStarts
          /\ hub \in {"idle", "connection", "handshake"}
          /\ received \in BOOLEAN
          /\ greeting \in {"none", "asked", "given"}
          /\ armed \in BOOLEAN
          /\ orphans \in Nat
          /\ callbacks \subseteq Calls
          /\ calls \in [Calls -> {"new", "pending", "thrown", "answered", "rejected",
                               "disposed"}]
          /\ ends \in [Streams -> Seq({"completed", "closed", "sendFailed"})]
          /\ posts \subseteq Calls
          /\ reports \in Nat
          /\ zombie \in BOOLEAN

Init == /\ HttpInit
        /\ starts = 0
        /\ hub = "idle"
        /\ received = FALSE
        /\ greeting = "none"
        /\ armed = FALSE
        /\ orphans = 0
        /\ callbacks = {}
        /\ calls = [c \in Calls |-> "new"]
        /\ ends = [c \in Streams |-> <<>>]
        /\ posts = {}
        /\ reports = 0
        /\ zombie = FALSE

-----------------------------------------------------------------------------
(* the timer, and the calls' callbacks *)

cleanupTimeout == armed' = FALSE /\ UNCHANGED orphans

\* running: whether the timer of timeoutHandle runs when this is called.
configureTimeout(running) ==
  IF keepAlive THEN armed' = running /\ UNCHANGED orphans
  ELSE armed' = TRUE /\ orphans' = IF running THEN orphans + 1 ELSE orphans

\* The callbacks of done are called with a completion; then those left, if the
\* connection has closed, with its error.  Nobody observes a stream whose
\* stream() threw; the promise of invoke() is settled once.
CallbacksCalled(done, closed) ==
  LET left == IF closed THEN callbacks \ done ELSE {} IN
  /\ callbacks' = (callbacks \ done) \ left
  /\ calls' = [c \in Calls |-> IF calls[c] # "pending" THEN calls[c]
                               ELSE IF c \in done THEN "answered"
                               ELSE IF c \in left THEN "rejected" ELSE "pending"]
  /\ ends' = [c \in Streams |-> IF calls[c] = "thrown" THEN ends[c]
                                ELSE IF c \in done THEN Append(ends[c], "completed")
                                ELSE IF c \in left THEN Append(ends[c], "closed")
                                ELSE ends[c]]

\* Mutants of connectionClosed: the callbacks are left, or nobody is told.
ClosedForgetsCallbacks(done) == /\ CallbacksCalled(done, FALSE)
                                /\ cleanupTimeout
                                /\ reports' = reports + 1
ClosedUntold(done) == /\ CallbacksCalled(done, TRUE)
                      /\ cleanupTimeout
                      /\ UNCHANGED reports

connectionClosed(done) == /\ CallbacksCalled(done, TRUE)
                          /\ cleanupTimeout
                          /\ reports' = reports + 1

-----------------------------------------------------------------------------
(* start and stop *)

\* The page starts the connection when nothing of the session before is left.
MayStart == /\ starting = "idle" /\ stops = 0 /\ deletes = 0
            /\ link \in {"none", "refused"}
            /\ hub = "idle"
            /\ ~zombie
            /\ starts < MaxStarts

HubStart == /\ MayStart
            /\ received' = FALSE
            /\ Start
            /\ starts' = starts + 1
            /\ hub' = "connection"
            /\ greeting' = "none"
            /\ reports' = 0
            /\ UNCHANGED <<timerVars, callVars, posts, zombie>>

\* start() on a connection that is not Disconnected is rejected, by then
\* receivedHandshakeResponse has been reset.
HubStartRejected == /\ Quiet
                    /\ connectionState # "Disconnected"
                    /\ received
                    /\ received' = FALSE
                    /\ UNCHANGED <<httpVars, starts, hub, greeting, timerVars, callVars,
                                   posts, reports, zombie>>

\* HubConnection.start goes on when the connection has started: it sends the
\* handshake, at once over a socket and with a POST otherwise.
HubStartContinues ==
  /\ starting \in Settled
  /\ starting' = "idle"
  /\ \/ /\ starting = "rejected" \/ connectionState # "Connected" \/ link = "refused"
        /\ hub' = "idle"
        /\ UNCHANGED <<greeting, timerVars>>
     \/ /\ starting = "resolved" /\ connectionState = "Connected" /\ link = "open"
        /\ greeting' = "asked"
        /\ \/ /\ kind = "WebSockets"
              /\ hub' = "idle"
              /\ configureTimeout(FALSE)
           \/ /\ kind # "WebSockets"
              /\ hub' = "handshake"
              /\ UNCHANGED timerVars
  /\ UNCHANGED <<connectionState, redirects, endpoints, transport, kind, link, keepAlive,
                 stops, deletes, starts, received, callVars, posts, reports, zombie>>

\* Mutant: without the defensive cleanup of the timer.
HandshakePostedUncleaned(ok) ==
  /\ Quiet
  /\ hub = "handshake"
  /\ hub' = "idle"
  /\ UNCHANGED httpVars
  /\ IF ok THEN configureTimeout(armed) ELSE UNCHANGED timerVars
  /\ UNCHANGED <<starts, received, greeting, callVars, posts, reports, zombie>>

\* The POST of the handshake: start() resolves, or is rejected.
HandshakePosted(ok) ==
  /\ Quiet
  /\ hub = "handshake"
  /\ hub' = "idle"
  /\ UNCHANGED httpVars
  /\ IF ok THEN configureTimeout(FALSE) ELSE UNCHANGED timerVars
  /\ UNCHANGED <<starts, received, greeting, callVars, posts, reports, zombie>>

HubStop == /\ Quiet
           /\ starts > 0
           /\ stops + deletes < MaxStops
           /\ cleanupTimeout
           /\ StopCalled(1)
           /\ UNCHANGED <<starting, redirects, endpoints, transport, kind, link, keepAlive,
                          deletes, starts, hub, received, greeting, callVars, posts,
                          reports, zombie>>

\* The timer fires: the server has not been heard of for too long.
serverTimeout == /\ Quiet
                 /\ \/ armed /\ cleanupTimeout
                    \/ orphans > 0 /\ orphans' = orphans - 1 /\ UNCHANGED armed
                 /\ StopCalled(1)
                 /\ UNCHANGED <<starting, redirects, endpoints, transport, kind, link,
                                keepAlive, deletes, starts, hub, received, greeting,
                                callVars, posts, reports, zombie>>

-----------------------------------------------------------------------------
(* the messages of the server *)

\* What the server may send: an answer to the handshake comes first, and once.
Sends(frame) ==
  /\ greeting # "none"
  /\ \A i \in 1..Len(frame) :
       /\ frame[i][1] \in Greetings <=> (greeting = "asked" /\ i = 1)
       /\ frame[i][1] = "done" => calls[frame[i][2]] # "new"

\* The first message answers the handshake, whatever it is, until one has.
CannotGreet(frame) == ~received /\ frame[1][1] \in {"partial", "bad"}
Body(frame) == IF received THEN frame ELSE Tail(frame)

\* The messages of a frame that are handled: none unless all can be parsed, and
\* those before the first that throws.
Throwing(frame) == {i \in 1..Len(Body(frame)) : Body(frame)[i][1] \in {"bad", "throws"}}
Handled(frame) ==
  {i \in 1..Len(Body(frame)) :
     /\ ~CannotGreet(frame)
     /\ \A j \in Throwing(frame) : Body(frame)[j][1] = "throws" /\ i < j}
Throws(frame) == CannotGreet(frame) \/ Throwing(frame) # {}

Done(frame) == {Body(frame)[i][2] : i \in {j \in Handled(frame) : Body(frame)[j][1] = "done"}}
                 \cap callbacks

\* The calls of connection.stop while a frame is handled.
StopsIn(frame) ==
  (IF ~received /\ frame[1][1] \in {"refused", "partial", "bad"} THEN 1 ELSE 0)
    + Cardinality({i \in Handled(frame) : Body(frame)[i][1] \in {"ask", "close"}})

\* processIncomingData on what has come over a link that the frame leaves open.
Receive(frame) ==
  /\ Quiet
  /\ link = "open"
  /\ Throws(frame) => kind = "WebSockets"
  /\ Sends(frame)
  /\ StopCalled(StopsIn(frame))
  /\ greeting' = "given"
  /\ received' = (received \/ ~CannotGreet(frame))
  /\ CallbacksCalled(Done(frame), FALSE)
  /\ UNCHANGED <<starting, redirects, endpoints, transport, kind, link, keepAlive, deletes,
                 starts, hub, posts, reports, zombie>>
  /\ IF Throws(frame) THEN cleanupTimeout ELSE configureTimeout(FALSE)

\* The same on the last data of a link: the answer to the last poll after stop(),
\* or what an EventSource or a poll cannot hand over.  The EventSource stays open.
ReceiveLast(frame) ==
  /\ Quiet
  /\ \/ link = "open" /\ kind # "WebSockets" /\ Throws(frame)
     \/ link = "closing" /\ kind = "LongPolling"
  /\ Sends(frame)
  /\ stops' = stops + StopsIn(frame)
  /\ greeting' = "given"
  /\ received' = (received \/ ~CannotGreet(frame))
  /\ Closed
  /\ connectionClosed(Done(frame))
  /\ zombie' = (kind = "ServerSentEvents")
  /\ UNCHANGED <<starting, redirects, endpoints, kind, keepAlive, deletes, starts, hub, posts>>

\* The same on what an EventSource that was left open goes on to deliver.
ReceiveLate(frame) ==
  /\ Quiet
  /\ zombie
  /\ reports < MaxReports
  /\ Sends(frame)
  /\ stops' = stops + StopsIn(frame)
  /\ greeting' = "given"
  /\ received' = (received \/ ~CannotGreet(frame))
  /\ Closed
  /\ UNCHANGED <<starting, redirects, endpoints, kind, keepAlive, deletes, starts, hub, posts,
                 zombie>>
  /\ \/ Throws(frame) /\ connectionClosed(Done(frame))
     \/ /\ ~Throws(frame)
        /\ CallbacksCalled(Done(frame), FALSE)
        /\ configureTimeout(FALSE)
        /\ UNCHANGED reports

\* The end of an EventSource that was left open: its onerror closes it at last, and
\* the page is told of the end once more.
EventSourceFails ==
  /\ Quiet
  /\ zombie
  /\ zombie' = FALSE
  /\ Closed
  /\ connectionClosed({})
  /\ UNCHANGED <<starting, redirects, endpoints, kind, keepAlive, stops, deletes, starts, hub,
                 received, greeting, posts>>

-----------------------------------------------------------------------------
(* calls *)

\* invoke() or stream(): send() throws, or rejects at once, or is under way.
CallHub(c) ==
  /\ Quiet
  /\ calls[c] = "new"
  /\ \/ /\ connectionState # "Connected" \/ transport = Null
        /\ callbacks' = callbacks \cup {c}
        /\ calls' = [calls EXCEPT ![c] = "thrown"]
        /\ UNCHANGED <<ends, posts>>
     \/ /\ connectionState = "Connected" /\ transport # Null
        /\ link # "open" \/ kind = "WebSockets"
        /\ calls' = [calls EXCEPT ![c] = "rejected"]
        /\ ends' = [s \in Streams |-> IF s = c THEN Append(ends[s], "sendFailed") ELSE ends[s]]
        /\ UNCHANGED <<callbacks, posts>>
     \/ /\ connectionState = "Connected" /\ transport # Null
        /\ link = "open"
        /\ callbacks' = callbacks \cup {c}
        /\ calls' = [calls EXCEPT ![c] = "pending"]
        /\ posts' = IF kind = "WebSockets" THEN posts ELSE posts \cup {c}
        /\ UNCHANGED ends
  /\ UNCHANGED <<httpVars, starts, hub, received, greeting, timerVars, reports, zombie>>

\* Mutant: the callback of a call whose POST failed is not deleted.
PostedKeepsCallback(c, ok) ==
  /\ Quiet
  /\ c \in posts
  /\ posts' = posts \ {c}
  /\ \/ ok /\ UNCHANGED callVars
     \/ /\ ~ok
        /\ UNCHANGED callbacks
        /\ calls' = [calls EXCEPT ![c] = IF @ = "pending" THEN "rejected" ELSE @]
        /\ ends' = [s \in Streams |-> IF s = c /\ calls[c] # "disposed"
                                      THEN Append(ends[s], "sendFailed") ELSE ends[s]]
  /\ UNCHANGED <<httpVars, starts, hub, received, greeting, timerVars, reports, zombie>>

\* The POST of a call is answered; if it failed the call is given up.
Posted(c, ok) ==
  /\ Quiet
  /\ c \in posts
  /\ posts' = posts \ {c}
  /\ \/ ok /\ UNCHANGED callVars
     \/ /\ ~ok
        /\ callbacks' = callbacks \ {c}
        /\ calls' = [calls EXCEPT ![c] = IF @ = "pending" THEN "rejected" ELSE @]
        /\ ends' = [s \in Streams |-> IF s = c /\ calls[c] # "disposed"
                                      THEN Append(ends[s], "sendFailed") ELSE ends[s]]
  /\ UNCHANGED <<httpVars, starts, hub, received, greeting, timerVars, reports, zombie>>

\* The last observer of a stream leaves: the server is asked to cancel it.
Dispose(s) ==
  /\ Quiet
  /\ calls[s] = "pending"
  /\ callbacks' = callbacks \ {s}
  /\ calls' = [calls EXCEPT ![s] = "disposed"]
  /\ UNCHANGED <<httpVars, starts, hub, received, greeting, timerVars, ends, posts, reports,
                 zombie>>

-----------------------------------------------------------------------------
(* the steps of HttpConnection, with what the hub does on them *)

KeepsHub == UNCHANGED hubVars

HubClosed == /\ connectionClosed({})
             /\ UNCHANGED <<starts, hub, received, greeting, posts, zombie>>

NegotiationAnswered == Negotiated /\ KeepsHub
NegotiationLost     == NegotiationFails /\ KeepsHub
NegotiatedAnew      == Renegotiated /\ KeepsHub
Opens               == TransportOpens /\ KeepsHub
OpenFails           == TransportFails /\ KeepsHub
StopContinues       == (StopsTransport /\ KeepsHub) \/ (StopsEventSource /\ HubClosed)
DeleteAnswered      == Quiet /\ Deleted /\ KeepsHub
LinkCloses          == Quiet /\ LinkEnds /\ HubClosed

Next == \/ HubStart \/ HubStartRejected \/ HubStartContinues \/ HubStop \/ serverTimeout
        \/ \E ok \in BOOLEAN : HandshakePosted(ok)
        \/ \E frame \in Frames : Receive(frame) \/ ReceiveLast(frame) \/ ReceiveLate(frame)
        \/ EventSourceFails
        \/ \E c \in Calls : CallHub(c)
        \/ \E c \in Calls, ok \in BOOLEAN : Posted(c, ok)
        \/ \E s \in Streams : Dispose(s)
        \/ NegotiationAnswered \/ NegotiationLost \/ NegotiatedAnew
        \/ Opens \/ OpenFails \/ StopContinues \/ DeleteAnswered \/ LinkCloses

Spec == Init /\ [][Next]_vars

(* Continuations run; requests are answered, with an answer or a failure, and a
   transport that is being opened opens or fails; a socket that is being closed
   closes, and the last poll of a stopped connection ends.  The tasks of these
   events are queued, so that calls of stop() in between only delay them (SF).
   Nothing is assumed of the page or of an open link. *)
Fairness == /\ WF_vars(HubStartContinues)
            /\ WF_vars(StopContinues)
            /\ WF_vars(NegotiationAnswered \/ NegotiationLost \/ NegotiatedAnew)
            /\ WF_vars(Opens \/ OpenFails)
            /\ SF_vars(link = "closing" /\ LinkCloses)

FairSpec == Spec /\ Fairness

-----------------------------------------------------------------------------
(* properties *)

\* A call the page still waits for can be settled: its callback is registered,
\* and the link it went over is there to answer it or to report its own end.
PendingCallsCanSettle ==
  \A c \in Calls : calls[c] = "pending" => c \in callbacks /\ link \in {"open", "closing"}

\* No timer runs that the connection cannot clear: a forgotten one would give up
\* a server that talks.
NoForgottenTimer == orphans = 0

\* While the state says that messages can be sent there is a link, and this.transport
\* knows it, unless that link is closing or was refused: stop() had come while a
\* transport before it was failing, and the fallback set the state back.
ConnectedHasTransport ==
  connectionState = "Connected" =>
    /\ link # "none"
    /\ transport = Null => link \in {"closing", "refused"}

\* The page is told of the end of a session when its link ends, and only then for
\* the first time.  It is told again only while an EventSource is left open: of each
\* message this cannot hand over, and of its own end, after which nothing is told.
ReportedOnce ==
  [][reports' > reports => \/ link \in {"open", "closing"} /\ link' = "none" /\ reports = 0
                           \/ zombie]_vars

\* An observer of a stream is told of one end; or of a second when the POST
\* that opened the stream is found to have failed after the first.
StreamsEndOnce ==
  \A s \in Streams : \/ Len(ends[s]) <= 1
                     \/ Len(ends[s]) = 2 /\ ends[s][2] = "sendFailed" /\ ends[s][1] # "sendFailed"

\* The sessions of the connection are those of the contract.
Contract == INSTANCE Connection WITH
  session <- IF starting \in Waits THEN "starting"
             ELSE IF link \in {"open", "closing"} THEN "open" ELSE "idle",
  told <- reports > 0
ImplementsConnection == Contract!Spec

\* stop(), at whatever moment it is called, ends the session, and no call is
\* left waiting for an answer.
StopEndsTheSession ==
  stops > 0 ~> /\ link \in {"none", "refused"}
               /\ \A c \in Calls : calls[c] # "pending"
=============================================================================
