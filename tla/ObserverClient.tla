---------------------------- MODULE ObserverClient ----------------------------
(***************************************************************************)
(* ObserverClient: how the processes that observe one Service Bus queue,   *)
(* or one topic subscription, take messages off it and hand them to their  *)
(* handlers, and MessengerClient, which puts them there.                   *)
(*                                                                         *)
(* The broker and the message pump are not in the repository; they are     *)
(* modelled from how Process uses them (peek-lock, AutoComplete = false).  *)
(* A delivery locks the message; a lock may expire while its call runs;    *)
(* completing works only under the lock of the latest delivery; a message  *)
(* released for the MaxDelivery-th time is dead-lettered; a call that      *)
(* throws has its message abandoned by the pump.  A process may crash, or  *)
(* be closed, between any two steps.                                       *)
(***************************************************************************)
EXTENDS Naturals, Sequences

CONSTANTS Client,       \* the processes, each with one ObserverClient
          Slot,         \* MaxConcurrentCalls: the calls a pump makes at a time
          Message,      \* the messages of the run
          Type,         \* the message types
          ContentType,  \* ContentType[m]: its type, or Null for an unknown one
          Malformed,    \* the messages whose body is not JSON
          Handler,      \* the handlers
          Accepts,      \* Accepts[h]: the type h is registered for
          Registers,    \* Registers[c]: the handlers c's code registers
          ReceiveOnce,  \* shouldOnlyReceiveOnce: TRUE for a queue
          MaxDelivery,  \* the broker's MaxDeliveryCount
          MaxCrash,     \* bound: how many crashes and closings a run has
          Null          \* no type, no call

ASSUME ObserverAssumption ==
    /\ ContentType \in [Message -> {Null} \cup Type]
    /\ Null \notin Type
    /\ Malformed \subseteq Message
    /\ Accepts \in [Handler -> Type]
    /\ Registers \in [Client -> SUBSET Handler]
    /\ ReceiveOnce \in BOOLEAN
    /\ MaxDelivery \in Nat \ {0}
    /\ MaxCrash \in Nat

VARIABLES
    place,          \* place[m]: where the broker has message m
    lock,           \* lock[m]: its deliveries so far, the latest one's lock token
    observer,       \* observer[c]: down, open or closed
    lenient,        \* lenient[c]: jsonSettings.Error swallows every JSON error
    registrations,  \* registrations[c][t]: the handlers of type t, in order
    call,           \* call[c][s]: the call of Process in slot s, or Null
    ran,            \* ran[m][h]: how often handler h has been given m
    crashes         \* crashes and closings so far

vars == <<place, lock, observer, lenient, registrations, call, ran, crashes>>

Place == {"unsent", "ready", "locked", "completed", "dead"}

\* at: the line Process has reached; parsed: gMessage # null; next and
\* count: the enumerator over the type's handlers.
Call == [message : Message, lock : Nat, parsed : BOOLEAN, next : Nat, count : Nat,
         at : {"parse", "complete", "dispatch", "next", "running", "log"}]

ASSUME NullIsNoCall == Null \notin Call

TypeOK ==
    /\ place \in [Message -> Place]
    /\ lock \in [Message -> 0..MaxDelivery]
    /\ observer \in [Client -> {"down", "open", "closed"}]
    /\ lenient \in [Client -> BOOLEAN]
    /\ registrations \in [Client -> [Type -> Seq(Handler)]]
    /\ call \in [Client -> [Slot -> {Null} \cup Call]]
    /\ ran \in [Message -> [Handler -> Nat]]
    /\ crashes \in 0..MaxCrash

NoHandlers == [t \in Type |-> << >>]

NoCalls == [s \in Slot |-> Null]

Init ==
    /\ place = [m \in Message |-> "unsent"]
    /\ lock = [m \in Message |-> 0]
    /\ observer = [c \in Client |-> "down"]
    /\ lenient = [c \in Client |-> FALSE]
    /\ registrations = [c \in Client |-> NoHandlers]
    /\ call = [c \in Client |-> NoCalls]
    /\ ran = [m \in Message |-> [h \in Handler |-> 0]]
    /\ crashes = 0

-----------------------------------------------------------------------------
(***************************************************************************)
(* The broker.                                                             *)
(***************************************************************************)

\* mutant: deliveries are not counted
ReleasedAlways(m) == "ready"

\* Where a message goes when its lock is given up without completing it.
Released(m) == IF lock[m] < MaxDelivery THEN "ready" ELSE "dead"

LockExpires(m) ==
    /\ place[m] = "locked"
    /\ place' = [place EXCEPT ![m] = Released(m)]
    /\ UNCHANGED <<lock, observer, lenient, registrations, call, ran, crashes>>

\* Some other program sends m; its body is its own affair.
SendFromElsewhere(m) ==
    /\ place[m] = "unsent"
    /\ place' = [place EXCEPT ![m] = "ready"]
    /\ UNCHANGED <<lock, observer, lenient, registrations, call, ran, crashes>>

-----------------------------------------------------------------------------
(***************************************************************************)
(* The life of a process.                                                  *)
(***************************************************************************)

\* MessengerClient.Send: serialising sets the process-wide error handler,
\* whether or not SendAsync then succeeds.
Send(c, m) ==
    /\ observer[c] # "down"
    /\ place[m] = "unsent"
    /\ m \notin Malformed
    /\ ContentType[m] # Null
    /\ lenient' = [lenient EXCEPT ![c] = TRUE]
    /\ \/ place' = [place EXCEPT ![m] = "ready"]
       \/ UNCHANGED place
    /\ UNCHANGED <<lock, observer, registrations, call, ran, crashes>>

\* The constructor: the pump runs from here on.
Open(c) ==
    /\ observer[c] = "down"
    /\ observer' = [observer EXCEPT ![c] = "open"]
    /\ UNCHANGED <<place, lock, lenient, registrations, call, ran, crashes>>

\* mutant: RegisterForNotificationOf registers the handler for every type
RegisterForAll(c, h) ==
    /\ observer[c] # "down"
    /\ \A t \in Type : \A i \in DOMAIN registrations[c][t] : registrations[c][t][i] # h
    /\ h \in Registers[c]
    /\ registrations' =
          [registrations EXCEPT ![c] = [t \in Type |-> Append(registrations[c][t], h)]]
    /\ UNCHANGED <<place, lock, observer, lenient, call, ran, crashes>>

\* RegisterForNotificationOf, after the constructor; each process registers
\* a handler of its own once.
RegisterForNotificationOf(c, h) ==
    /\ observer[c] # "down"
    /\ h \in Registers[c]
    /\ \A i \in DOMAIN registrations[c][Accepts[h]] : registrations[c][Accepts[h]][i] # h
    /\ registrations' = [registrations EXCEPT ![c][Accepts[h]] = Append(@, h)]
    /\ UNCHANGED <<place, lock, observer, lenient, call, ran, crashes>>

\* Close: the pump stops; the calls under way go on.
Close(c) ==
    /\ observer[c] = "open"
    /\ crashes < MaxCrash
    /\ crashes' = crashes + 1
    /\ observer' = [observer EXCEPT ![c] = "closed"]
    /\ UNCHANGED <<place, lock, lenient, registrations, call, ran>>

\* The process goes, and with it all it held in memory.
Crash(c) ==
    /\ observer[c] # "down"
    /\ crashes < MaxCrash
    /\ crashes' = crashes + 1
    /\ observer' = [observer EXCEPT ![c] = "down"]
    /\ lenient' = [lenient EXCEPT ![c] = FALSE]
    /\ registrations' = [registrations EXCEPT ![c] = NoHandlers]
    /\ call' = [call EXCEPT ![c] = NoCalls]
    /\ UNCHANGED <<place, lock, ran>>

-----------------------------------------------------------------------------
(***************************************************************************)
(* Process: one call per delivery.                                         *)
(***************************************************************************)

\* The pump takes a message for a free slot and calls Process.
Receive(c, s, m) ==
    /\ observer[c] = "open"
    /\ call[c][s] = Null
    /\ place[m] = "ready"
    /\ place' = [place EXCEPT ![m] = "locked"]
    /\ lock' = [lock EXCEPT ![m] = @ + 1]
    /\ call' = [call EXCEPT ![c][s] =
          [message |-> m, lock |-> lock[m] + 1, parsed |-> FALSE,
           next |-> 1, count |-> 0, at |-> "parse"]]
    /\ UNCHANGED <<observer, lenient, registrations, ran, crashes>>

At(c, s, where) == call[c][s] # Null /\ call[c][s].at = where

\* The handlers of the type of the message in hand.
Handlers(c, s) == registrations[c][ContentType[call[c][s].message]]

\* Whether the call's delivery is the one that holds the message.
HoldsLock(c, s) ==
    LET m == call[c][s].message
    IN  place[m] = "locked" /\ lock[m] = call[c][s].lock

Goto(c, s, where) == call' = [call EXCEPT ![c][s].at = where]

Return(c, s) == call' = [call EXCEPT ![c][s] = Null]

\* Process throws: the pump reports it, finds nobody to report it to (no
\* registration is for List<ILogEntry>), and abandons the message.
Throw(c, s) ==
    /\ Return(c, s)
    /\ place' = IF HoldsLock(c, s) /\ observer[c] = "open"
                THEN [place EXCEPT ![call[c][s].message] = Released(call[c][s].message)]
                ELSE place

\* An error is logged when the type is unknown or the body is not JSON --
\* unless a message was serialised before in this process: then the body
\* deserialises to null without an error.
Unreadable(c, m) == ContentType[m] = Null \/ (m \in Malformed /\ ~lenient[c])

Parse(c, s) ==
    /\ At(c, s, "parse")
    /\ LET m == call[c][s].message
       IN  call' = [call EXCEPT
              ![c][s].parsed = ContentType[m] # Null /\ m \notin Malformed,
              ![c][s].at = IF ReceiveOnce /\ ~Unreadable(c, m) THEN "complete" ELSE "dispatch"]
    /\ UNCHANGED <<place, lock, observer, lenient, registrations, ran, crashes>>

\* mutant: a lock that has expired does not keep the message from being handled
CompleteAnyway(c, s) ==
    /\ At(c, s, "complete")
    /\ Goto(c, s, "dispatch")
    /\ place' = IF HoldsLock(c, s) THEN [place EXCEPT ![call[c][s].message] = "completed"]
                                   ELSE place
    /\ UNCHANGED <<lock, observer, lenient, registrations, ran, crashes>>

\* CompleteAsync takes effect and returns; takes effect and fails on the
\* way back; or fails, always so without the lock or after Close.
CompleteAsync(c, s) ==
    /\ At(c, s, "complete")
    /\ \/ /\ HoldsLock(c, s)
          /\ observer[c] = "open"
          /\ place' = [place EXCEPT ![call[c][s].message] = "completed"]
          /\ Goto(c, s, "dispatch") \/ Return(c, s)
       \/ Throw(c, s)
    /\ UNCHANGED <<lock, observer, lenient, registrations, ran, crashes>>

\* mutant: a type without handlers is not tested for
DispatchUntested(c, s) ==
    /\ At(c, s, "dispatch")
    /\ call[c][s].parsed
    /\ Handlers(c, s) # << >>
    /\ call' = [call EXCEPT ![c][s].count = Len(Handlers(c, s)), ![c][s].at = "next"]
    /\ UNCHANGED <<place, lock, observer, lenient, registrations, ran, crashes>>

\* The handlers of the type, if there is a message and there are any: an
\* enumerator over the list as it is now.
Dispatch(c, s) ==
    /\ At(c, s, "dispatch")
    /\ \/ /\ call[c][s].parsed
          /\ Handlers(c, s) # << >>
          /\ call' = [call EXCEPT ![c][s].count = Len(Handlers(c, s)), ![c][s].at = "next"]
       \/ /\ ~call[c][s].parsed \/ Handlers(c, s) = << >>
          /\ Goto(c, s, "log")
    /\ UNCHANGED <<place, lock, observer, lenient, registrations, ran, crashes>>

\* MoveNext: it throws when a handler was registered meanwhile; otherwise
\* the next handler is called, or the list is done.
NextHandler(c, s) ==
    /\ At(c, s, "next")
    /\ \/ /\ Len(Handlers(c, s)) # call[c][s].count
          /\ Throw(c, s)
          /\ UNCHANGED ran
       \/ /\ Len(Handlers(c, s)) = call[c][s].count
          /\ call[c][s].next <= call[c][s].count
          /\ ran' = [ran EXCEPT ![call[c][s].message][Handlers(c, s)[call[c][s].next]] = @ + 1]
          /\ call' = [call EXCEPT ![c][s].at = "running", ![c][s].next = @ + 1]
          /\ UNCHANGED place
       \/ /\ Len(Handlers(c, s)) = call[c][s].count
          /\ call[c][s].next > call[c][s].count
          /\ Goto(c, s, "log")
          /\ UNCHANGED <<place, ran>>
    /\ UNCHANGED <<lock, observer, lenient, registrations, crashes>>

\* The awaited handler returns or throws.
HandlerEnds(c, s) ==
    /\ At(c, s, "running")
    /\ \/ Goto(c, s, "next") /\ UNCHANGED place
       \/ Throw(c, s)
    /\ UNCHANGED <<lock, observer, lenient, registrations, ran, crashes>>

\* The log handlers, then the end of the call; nothing settles a message
\* that is still locked.
NotifyLog(c, s) ==
    /\ At(c, s, "log")
    /\ \/ Return(c, s) /\ UNCHANGED place
       \/ Throw(c, s)
    /\ UNCHANGED <<lock, observer, lenient, registrations, ran, crashes>>

Process(c, s) ==
    \/ Parse(c, s)
    \/ CompleteAsync(c, s)
    \/ Dispatch(c, s)
    \/ NextHandler(c, s)
    \/ HandlerEnds(c, s)
    \/ NotifyLog(c, s)

Next ==
    \/ \E m \in Message : LockExpires(m) \/ SendFromElsewhere(m)
    \/ \E c \in Client :
          \/ Open(c) \/ Close(c) \/ Crash(c)
          \/ \E m \in Message : Send(c, m)
          \/ \E h \in Handler : RegisterForNotificationOf(c, h)
          \/ \E s \in Slot : Process(c, s) \/ \E m \in Message : Receive(c, s, m)

\* The broker gives up a lock in time and delivers what is ready while a
\* pump has a free slot; a call under way goes on, its handlers returning.
\* No process has to start, to stay up, or to register.
Fairness ==
    /\ \A m \in Message :
          /\ WF_vars(LockExpires(m))
          /\ WF_vars(\E c \in Client, s \in Slot : Receive(c, s, m))
    /\ \A c \in Client, s \in Slot : WF_vars(Process(c, s))

Spec == Init /\ [][Next]_vars /\ Fairness
-----------------------------------------------------------------------------
(***************************************************************************)
(* Properties.                                                             *)
(***************************************************************************)

\* A queue's command is given to a handler at most once, whatever becomes of
\* its locks, its calls and its processes: it is completed before it is
\* handled (ObserverClient.cs:148-172), and only under a valid lock.
HandledAtMostOnce == \A m \in Message, h \in Handler : ran[m][h] <= 1

\* However often it is delivered, a message reaches a handler at most once
\* per delivery, and only one that was registered for its type and can read
\* it (QueueClientTests.cs:55).
HandledOncePerDelivery ==
    \A m \in Message, h \in Handler :
        /\ ran[m][h] <= lock[m]
        /\ ran[m][h] > 0 => Accepts[h] = ContentType[m] /\ m \notin Malformed

\* What is sent is settled in the end, completed or dead-lettered, as long
\* as there is a process to observe it: failing handlers, lost locks,
\* crashes and full slots do not leave a message going round for ever.
EverySentMessageIsSettled ==
    \A m \in Message :
        (place[m] = "ready") ~> \/ place[m] \in {"completed", "dead"}
                               \/ \A c \in Client : observer[c] # "open"

\* What became of a message, for those who see only that.
Fate(p) == CASE p = "unsent"              -> "unsent"
             [] p \in {"ready", "locked"} -> "waiting"
             [] p = "completed"           -> "taken"
             [] p = "dead"                -> "dead"

Fates == [m \in Message |-> Fate(place[m])]

Delivery == INSTANCE CommandDelivery WITH fate <- Fates, given <- ran

\* A queue observed through ObserverClient delivers as CommandDelivery says:
\* a command waits until it is taken or given up, once, and only a command
\* that was taken is given to handlers, to each once.
ImplementsDelivery == Delivery!Spec

\* ObserverClient.cs:147: a message is completed only if "there were no
\* processing errors": none whose body could not be read is.  The code breaks
\* this on a queue, in a process that has sent a message before.
MalformedIsNotCompleted == \A m \in Malformed : place[m] # "completed"
=============================================================================
