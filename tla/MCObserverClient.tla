--------------------------- MODULE MCObserverClient ---------------------------
(***************************************************************************)
(* Instances of ObserverClient: the tile server, the admin application and *)
(* the console on one queue or subscription.                               *)
(***************************************************************************)
EXTENDS ObserverClient

CONSTANTS tiles, admin,              \* processes
          job, note, junk,           \* messages
          command, topic,            \* types
          receiver, second, hub      \* handlers

MCContentType ==
    [m \in Message |-> CASE m = job  -> command
                          [] m = note -> topic
                          [] m = junk -> command]

MCAccepts == [h \in Handler |-> IF h = hub THEN topic ELSE command]

\* The tile server registers CommandReceiver, and in some runs a second
\* handler for the same type; the other process handles topics only.
MCRegisters ==
    [c \in Client |-> IF c = tiles THEN Handler \ {hub} ELSE Handler \cap {hub}]
=============================================================================
