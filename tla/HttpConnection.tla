--------------------------- MODULE HttpConnection ---------------------------
(***************************************************************************)
(* The connection under a SignalR hub as the page's script runs it         *)
(* (signalr.js, HttpConnection and its three transports): negotiation with *)
(* the server, the transports tried in the order the server lists them,    *)
(* stop() at any moment, and the end of a transport.                       *)
(*                                                                         *)
(* One action is one task of the browser's event loop, with the promise    *)
(* continuations it sets off; a continuation that waits for another        *)
(* promise is an action of its own.  Tasks (guard Quiet) wait until the    *)
(* continuations are done.  The transports are told apart only by what     *)
(* they do: a WebSocket closes with an event of its own, an EventSource    *)
(* closes at once, a long poll ends with the answer to its request.        *)
(***************************************************************************)
EXTENDS Naturals, Sequences

CONSTANTS Null,
          Offers,        \* the lists of transports a server may answer with
          MaxRedirects,  \* MAX_REDIRECTS
          MaxStops       \* bound: calls of stop() that are under way at once

Kinds == {"WebSockets", "ServerSentEvents", "LongPolling"}

ASSUME HttpAssumption == /\ Null \notin Kinds
                         /\ Offers \subseteq Seq(Kinds)
                         /\ MaxRedirects \in Nat \ {0}
                         /\ MaxStops \in Nat

VARIABLES
  connectionState,  \* "Disconnected", "Connecting" or "Connected"
  starting,   \* where startInternal waits, or how it ended; "idle" after that
  redirects,  \* answers to the negotiation so far that named another address
  endpoints,  \* transports left to try, the one being tried first
  transport,  \* this.transport: its kind, or Null
  kind,       \* the kind of the transport made last
  link,       \* what that transport holds: "none", "opening", "open",
              \* "closing", or "refused" (a long poll whose first was refused)
  keepAlive,  \* features.inherentKeepAlive
  stops,      \* stop() calls that wait for startPromise
  deletes     \* DELETE requests of long polling not answered yet

httpVars == <<connectionState, starting, redirects, endpoints, transport, kind,
              link, keepAlive, stops, deletes>>

Waits   == {"negotiate", "renegotiate", "connect"}
Settled == {"resolved", "rejected"}

HttpTypeOK ==
  /\ connectionState \in {"Disconnected", "Connecting", "Connected"}
  /\ starting \in {"idle"} \cup Waits \cup Settled
  /\ redirects \in 0..MaxRedirects
  /\ endpoints \in Seq(Kinds)
  /\ transport \in Kinds \cup {Null}
  /\ kind \in Kinds \cup {Null}
  /\ link \in {"none", "opening", "open", "closing", "refused"}
  /\ keepAlive \in BOOLEAN
  /\ stops \in Nat
  /\ deletes \in Nat

HttpInit == /\ connectionState = "Disconnected"
            /\ starting = "idle"
            /\ redirects = 0
            /\ endpoints = <<>>
            /\ transport = Null
            /\ kind = Null
            /\ link = "none"
            /\ keepAlive = FALSE
            /\ stops = 0
            /\ deletes = 0

\* No continuation waits: neither that of start() nor that of stop().
Quiet == starting \notin Settled /\ (stops > 0 => starting # "idle")

-----------------------------------------------------------------------------
(* start *)

Start == /\ connectionState = "Disconnected"
         /\ connectionState' = "Connecting"
         /\ starting' = "negotiate"
         /\ redirects' = 0
         /\ UNCHANGED <<endpoints, transport, kind, link, keepAlive, stops, deletes>>

\* The catch of startInternal.
StartFails == /\ connectionState' = "Disconnected"
              /\ starting' = "rejected"
              /\ transport' = Null
              /\ endpoints' = <<>>
              /\ link' = "none"
              /\ UNCHANGED <<kind, keepAlive, stops, deletes>>

\* The turn of the loop of createTransport for the first of list: a transport
\* is made for it, and negotiated for anew unless the connection id is fresh.
TryEndpoint(list, fresh) ==
  \/ /\ list = <<>>
     /\ StartFails
  \/ /\ list # <<>>
     /\ connectionState' = "Connecting"
     /\ endpoints' = list
     /\ transport' = Head(list)
     /\ kind' = Head(list)
     /\ starting' = IF fresh THEN "connect" ELSE "renegotiate"
     /\ link' = IF fresh THEN "opening" ELSE "none"
     /\ UNCHANGED <<keepAlive, stops, deletes>>

\* Mutant of Negotiated: the redirects are compared before this one is counted.
RedirectedOnceMore ==
  /\ starting = "negotiate"
  /\ \/ /\ connectionState = "Disconnected"
        /\ starting' = "resolved"
        /\ UNCHANGED <<connectionState, redirects, endpoints, transport, kind, link,
                       keepAlive, stops, deletes>>
     \/ /\ connectionState # "Disconnected"
        /\ redirects' = redirects + 1
        /\ \/ /\ redirects < MaxRedirects
              /\ UNCHANGED <<connectionState, starting, endpoints, transport, kind, link,
                             keepAlive, stops, deletes>>
           \/ redirects = MaxRedirects /\ StartFails
           \/ \E offer \in Offers : TryEndpoint(offer, TRUE)

\* The server answers the negotiation: the connection was stopped meanwhile,
\* the answer names another address, or it lists the transports.
Negotiated ==
  /\ starting = "negotiate"
  /\ \/ /\ connectionState = "Disconnected"
        /\ starting' = "resolved"
        /\ UNCHANGED <<connectionState, redirects, endpoints, transport, kind, link,
                       keepAlive, stops, deletes>>
     \/ /\ connectionState # "Disconnected"
        /\ redirects' = redirects + 1
        /\ \/ /\ redirects' < MaxRedirects
              /\ UNCHANGED <<connectionState, starting, endpoints, transport, kind, link,
                             keepAlive, stops, deletes>>
           \/ redirects' = MaxRedirects /\ StartFails
           \/ \E offer \in Offers : TryEndpoint(offer, TRUE)

NegotiationFails == /\ starting \in {"negotiate", "renegotiate"}
                    /\ StartFails
                    /\ UNCHANGED redirects

Renegotiated == /\ starting = "renegotiate"
                /\ starting' = "connect"
                /\ link' = "opening"
                /\ UNCHANGED <<connectionState, redirects, endpoints, transport, kind,
                               keepAlive, stops, deletes>>

\* transport.connect resolves.  That of long polling also does when the server
\* refuses the first poll: the loop of polls ends before onclose is set.
TransportOpens ==
  /\ starting = "connect"
  /\ starting' = "resolved"
  /\ \/ link' = "open"
     \/ kind = "LongPolling" /\ link' = "refused"
  /\ keepAlive' = (keepAlive \/ kind = "LongPolling")
  /\ connectionState' =
       IF connectionState = "Connecting" THEN "Connected" ELSE connectionState
  /\ endpoints' = <<>>
  /\ UNCHANGED <<redirects, transport, kind, stops, deletes>>

TransportFails == /\ starting = "connect"
                  /\ TryEndpoint(Tail(endpoints), FALSE)
                  /\ UNCHANGED redirects

-----------------------------------------------------------------------------
(* stop *)

\* The first part of n calls of stop(), up to the await of startPromise.
StopCalled(n) == /\ connectionState' = IF n > 0 THEN "Disconnected" ELSE connectionState
                 /\ stops' = stops + n

\* Mutants of Closed: the state is left as it was, or the link is.
ClosedKeepsState == link' = "none" /\ transport' = Null /\ UNCHANGED connectionState
ClosedKeepsLink  == /\ transport' = Null /\ UNCHANGED link
                    /\ connectionState' = "Disconnected"

\* stopConnection: the transport has ended.
Closed == /\ link' = "none"
          /\ transport' = Null
          /\ connectionState' = "Disconnected"

\* Mutant of StopsTransport: the loop of polls is not told to end.
StopKeepsPolling ==
  /\ stops > 0
  /\ starting = "idle"
  /\ stops' = stops - 1
  /\ \/ /\ transport = Null
        /\ UNCHANGED <<transport, link, deletes>>
     \/ /\ transport = "WebSockets"
        /\ link' = "closing"
        /\ transport' = Null
        /\ UNCHANGED deletes
     \/ /\ transport = "LongPolling"
        /\ deletes' = deletes + 1
        /\ UNCHANGED <<transport, link>>
  /\ UNCHANGED <<connectionState, starting, redirects, endpoints, kind, keepAlive>>

\* The rest of stop(), for a transport that does not end within the call.
StopsTransport ==
  /\ stops > 0
  /\ starting = "idle"
  /\ stops' = stops - 1
  /\ \/ /\ transport = Null
        /\ UNCHANGED <<transport, link, deletes>>
     \/ /\ transport = "WebSockets"
        /\ link' = "closing"
        /\ transport' = Null
        /\ UNCHANGED deletes
     \/ /\ transport = "LongPolling"
        /\ link' = IF link = "open" THEN "closing" ELSE link
        /\ deletes' = deletes + 1
        /\ UNCHANGED transport
  /\ UNCHANGED <<connectionState, starting, redirects, endpoints, kind, keepAlive>>

\* The rest of stop() for an EventSource: close() calls onclose itself.
StopsEventSource ==
  /\ stops > 0
  /\ starting = "idle"
  /\ transport = "ServerSentEvents"
  /\ stops' = stops - 1
  /\ Closed
  /\ UNCHANGED <<starting, redirects, endpoints, kind, keepAlive, deletes>>

\* The answer to a DELETE: stop() forgets the transport, unless it failed.
Deleted == /\ deletes > 0
           /\ deletes' = deletes - 1
           /\ transport' \in {Null, transport}
           /\ UNCHANGED <<connectionState, starting, redirects, endpoints, kind, link,
                          keepAlive, stops>>

\* The socket's close event, an error of the EventSource, the last poll's answer.
LinkEnds == /\ \/ link = "open"
               \/ link = "closing"
            /\ Closed
            /\ UNCHANGED <<starting, redirects, endpoints, kind, keepAlive, stops, deletes>>
=============================================================================
