------------------------ MODULE ObserverClientProofs ------------------------
(***************************************************************************)
(* A queue's command is given to a handler at most once, for any number of *)
(* processes, call slots, messages, deliveries and crashes, and the queue  *)
(* implements CommandDelivery.  The invariant that carries it: a call past *)
(* CompleteAsync holds the latest lock of a completed message, calls of    *)
(* one message differ in their locks, so there is one such call; and the   *)
(* handlers that were given the message are those its enumerator has       *)
(* passed.  The second part says what is true of topics as well.           *)
(***************************************************************************)
EXTENDS ObserverClient, FiniteSetTheorems, TLAPS

MessageOK(m) ==
    /\ place[m] \in {"unsent", "ready"} => lock[m] < MaxDelivery
    /\ place[m] # "completed" => \A h \in Handler : ran[m][h] = 0

\* The call is past CompleteAsync with a message for its handlers.
Past(c, s) ==
    /\ call[c][s] # Null
    /\ call[c][s].parsed
    /\ call[c][s].at \in {"dispatch", "next", "running", "log"}

\* The enumerator has passed handler h.
Passed(c, s, h) ==
    \E i \in 1..Len(Handlers(c, s)) : i < call[c][s].next /\ Handlers(c, s)[i] = h

CallOK(c, s) ==
    call[c][s] # Null =>
        LET k == call[c][s]
        IN  /\ k.lock <= lock[k.message]
            /\ k.next >= 1
            /\ k.at = "parse" => ~k.parsed
            /\ k.at \in {"next", "running"} => k.parsed
            /\ k.parsed => ContentType[k.message] \in Type
            /\ Past(c, s) =>
                  /\ place[k.message] = "completed"
                  /\ k.lock = lock[k.message]
                  /\ \A h \in Handler : ran[k.message][h] > 0 =>
                        k.at # "dispatch" /\ Passed(c, s, h)

\* No two calls are of the same delivery.
Apart ==
    \A c, d \in Client, s, u \in Slot :
        /\ call[c][s] # Null
        /\ call[d][u] # Null
        /\ call[c][s].message = call[d][u].message
        /\ call[c][s].lock = call[d][u].lock
        => c = d /\ s = u

\* No handler is registered twice for a type.
Distinct ==
    \A c \in Client, t \in Type : \A i, j \in 1..Len(registrations[c][t]) :
        registrations[c][t][i] = registrations[c][t][j] => i = j

IInv == /\ TypeOK
        /\ \A m \in Message : MessageOK(m)
        /\ \A c \in Client, s \in Slot : CallOK(c, s)
        /\ Apart
        /\ Distinct
        /\ HandledAtMostOnce
-----------------------------------------------------------------------------
LEMMA CallTypes ==
    ASSUME TypeOK, NEW c \in Client, NEW s \in Slot, call[c][s] # Null
    PROVE  /\ call[c][s] \in Call
           /\ call[c][s].message \in Message
           /\ call[c][s].lock \in Nat
           /\ call[c][s].next \in Nat
           /\ call[c][s].count \in Nat
           /\ call[c][s].parsed \in BOOLEAN
           /\ lock[call[c][s].message] \in Nat
BY DEF TypeOK, Call

LEMMA HandlersType ==
    ASSUME TypeOK, NEW c \in Client, NEW s \in Slot, call[c][s] # Null,
           ContentType[call[c][s].message] \in Type
    PROVE  Handlers(c, s) \in Seq(Handler)
BY CallTypes DEF TypeOK, Handlers

\* What assigning one call changes.
LEMMA CallAssigned ==
    ASSUME TypeOK, NEW c \in Client, NEW s \in Slot, NEW k \in {Null} \cup Call,
           call' = [call EXCEPT ![c][s] = k]
    PROVE  /\ call' \in [Client -> [Slot -> {Null} \cup Call]]
           /\ call'[c][s] = k
           /\ \A d \in Client, u \in Slot : d # c \/ u # s => call'[d][u] = call[d][u]
BY DEF TypeOK

\* A call that takes no step stays right: its message is not completed, or
\* stays so, and is given to no handler it was not given to before.
LEMMA OthersStay ==
    ASSUME TypeOK, TypeOK', NEW d \in Client, NEW u \in Slot, CallOK(d, u),
           call'[d][u] = call[d][u],
           registrations'[d] = registrations[d],
           \A m \in Message : lock'[m] >= lock[m],
           \A m \in Message : place[m] = "completed" =>
               place'[m] = "completed" /\ lock'[m] = lock[m],
           Past(d, u) => ran'[call[d][u].message] = ran[call[d][u].message]
    PROVE  CallOK(d, u)'
<1> SUFFICES ASSUME call[d][u] # Null PROVE CallOK(d, u)'
  BY DEF CallOK
<1> DEFINE k == call[d][u]
<1>1. /\ k \in Call
      /\ k.message \in Message
      /\ k.lock \in Nat
      /\ lock[k.message] \in Nat
      /\ lock'[k.message] \in Nat
  BY CallTypes DEF TypeOK
<1>2. k.lock <= lock'[k.message]
  BY <1>1 DEF CallOK
<1>3. Handlers(d, u)' = Handlers(d, u) /\ (Past(d, u)' <=> Past(d, u))
  BY DEF Handlers, Past
<1>4. ASSUME NEW h \in Handler PROVE Passed(d, u, h)' <=> Passed(d, u, h)
  BY <1>3 DEF Passed
<1>5. QED
  BY <1>1, <1>2, <1>3, <1>4 DEF CallOK

\* A step of one call, which ends it or keeps its message and its lock,
\* leaves the calls apart.
LEMMA ApartStays ==
    ASSUME TypeOK, Apart, NEW c \in Client, NEW s \in Slot, NEW k \in {Null} \cup Call,
           call' = [call EXCEPT ![c][s] = k],
           k # Null => /\ call[c][s] # Null
                       /\ k.message = call[c][s].message
                       /\ k.lock = call[c][s].lock
    PROVE  Apart'
BY CallAssigned DEF Apart

\* A call that throws leaves its slot, and changes no message that is completed.
LEMMA ThrowChanges ==
    ASSUME TypeOK, NEW c \in Client, NEW s \in Slot, call[c][s] # Null, Throw(c, s)
    PROVE  /\ call' = [call EXCEPT ![c][s] = Null]
           /\ place' \in [Message -> Place]
           /\ \A m \in Message : place[m] = "completed" => place'[m] = "completed"
           /\ \A m \in Message : place'[m] # place[m] =>
                 place[m] = "locked" /\ place'[m] = Released(m)
<1>1. call[c][s].message \in Message
  BY CallTypes
<1>2. call' = [call EXCEPT ![c][s] = Null]
  BY DEF Throw, Return
<1>3. CASE HoldsLock(c, s) /\ observer[c] = "open"
  <2>1. place' = [place EXCEPT ![call[c][s].message] = Released(call[c][s].message)]
    BY <1>3 DEF Throw
  <2>2. place[call[c][s].message] = "locked"
    BY <1>3 DEF HoldsLock
  <2>3. QED
    BY <1>1, <1>2, <2>1, <2>2 DEF TypeOK, Place, Released
<1>4. CASE ~(HoldsLock(c, s) /\ observer[c] = "open")
  BY <1>2, <1>4 DEF Throw, TypeOK
<1>5. QED
  BY <1>3, <1>4

LEMMA SameCall ==
    ASSUME NEW c, NEW s, NEW d, NEW u, d = c, u = s, CallOK(c, s)'
    PROVE  CallOK(d, u)'
BY DEF CallOK, Past, Passed, Handlers

\* What a step of a call leaves alone.
LEMMA CallStep ==
    ASSUME IInv, NEW c \in Client, NEW s \in Slot, call[c][s] # Null,
           NEW k \in {Null} \cup Call,
           call' = [call EXCEPT ![c][s] = k],
           k # Null => k.message = call[c][s].message /\ k.lock = call[c][s].lock,
           place' \in [Message -> Place],
           \A m \in Message : place[m] = "completed" => place'[m] = "completed",
           \A m \in Message : place'[m] # place[m] =>
               place[m] = "locked" /\ place'[m] \in {"completed", Released(m)},
           k # Null => CallOK(c, s)',
           UNCHANGED <<lock, observer, lenient, registrations, ran, crashes>>
    PROVE  IInv'
<1> USE DEF IInv
<1>1. TypeOK'
  BY CallAssigned DEF TypeOK
<1>2. ASSUME NEW m \in Message PROVE MessageOK(m)'
  <2>1. MessageOK(m) /\ lock[m] \in Nat /\ MaxDelivery \in Nat
    BY ObserverAssumption DEF TypeOK
  <2>2. QED
    BY <2>1 DEF MessageOK, Released
<1>3. ASSUME NEW d \in Client, NEW u \in Slot PROVE CallOK(d, u)'
  <2>1. CASE d = c /\ u = s
    <3>1. CASE k = Null
      <4>1. call'[d][u] = Null
        BY <2>1, <3>1, CallAssigned
      <4>2. QED
        BY <4>1 DEF CallOK
    <3>2. CASE k # Null
      BY <2>1, <3>2, SameCall
    <3>3. QED
      BY <3>1, <3>2
  <2>2. CASE ~(d = c /\ u = s)
    <3>1. call'[d][u] = call[d][u] /\ CallOK(d, u)
      BY <2>2, CallAssigned
    <3>2. \A m \in Message : lock'[m] >= lock[m]
      BY DEF TypeOK
    <3>3. QED
      BY <1>1, <3>1, <3>2, OthersStay
  <2>3. QED
    BY <2>1, <2>2
<1>4. Apart'
  BY ApartStays
<1>5. Distinct' /\ HandledAtMostOnce'
  BY DEF Distinct, HandledAtMostOnce
<1>6. QED
  BY <1>1, <1>2, <1>3, <1>4, <1>5

LEMMA ThrowStep ==
    ASSUME IInv, NEW c \in Client, NEW s \in Slot, call[c][s] # Null, Throw(c, s),
           UNCHANGED <<lock, observer, lenient, registrations, ran, crashes>>
    PROVE  IInv'
<1>1. TypeOK
  BY DEF IInv
<1>2. /\ call' = [call EXCEPT ![c][s] = Null]
      /\ place' \in [Message -> Place]
      /\ \A m \in Message : place[m] = "completed" => place'[m] = "completed"
      /\ \A m \in Message : place'[m] # place[m] =>
            place[m] = "locked" /\ place'[m] = Released(m)
  BY <1>1, ThrowChanges
<1> DEFINE k == Null
<1>3. k \in {Null} \cup Call /\ k = Null /\ call' = [call EXCEPT ![c][s] = k]
  BY <1>2
<1> HIDE DEF k
<1>4. QED
  BY <1>2, <1>3, CallStep

\* A step that moves the call and changes no message.
LEMMA MoveStep ==
    ASSUME IInv, NEW c \in Client, NEW s \in Slot, call[c][s] # Null,
           NEW k \in Call,
           call' = [call EXCEPT ![c][s] = k],
           k.message = call[c][s].message, k.lock = call[c][s].lock,
           CallOK(c, s)',
           UNCHANGED <<place, lock, observer, lenient, registrations, ran, crashes>>
    PROVE  IInv'
<1>1. place' \in [Message -> Place]
  BY DEF IInv, TypeOK
<1>2. QED
  BY <1>1, CallStep
-----------------------------------------------------------------------------
LEMMA InitOK == Init => IInv
<1> SUFFICES ASSUME Init PROVE IInv
  OBVIOUS
<1> USE DEF Init
<1>1. TypeOK
  BY ObserverAssumption DEF TypeOK, Place, NoHandlers, NoCalls
<1>2. \A m \in Message : MessageOK(m)
  BY ObserverAssumption DEF MessageOK
<1>3. \A c \in Client, s \in Slot : call[c][s] = Null
  BY DEF NoCalls
<1>4. (\A c \in Client, s \in Slot : CallOK(c, s)) /\ Apart
  BY <1>3 DEF CallOK, Apart
<1>5. Distinct
  BY DEF Distinct, NoHandlers
<1>6. HandledAtMostOnce
  BY DEF HandledAtMostOnce
<1>7. QED
  BY <1>1, <1>2, <1>4, <1>5, <1>6 DEF IInv

LEMMA ParseOK ==
    ASSUME ReceiveOnce, IInv, NEW c \in Client, NEW s \in Slot, Parse(c, s)
    PROVE  IInv'
<1> DEFINE m == call[c][s].message
           p == ContentType[m] # Null /\ m \notin Malformed
           a == IF ReceiveOnce /\ ~Unreadable(c, m) THEN "complete" ELSE "dispatch"
           k == [call[c][s] EXCEPT !.parsed = p, !.at = a]
<1>1. /\ TypeOK
      /\ CallOK(c, s)
      /\ call[c][s] # Null
      /\ call[c][s] \in Call
      /\ m \in Message
      /\ k \in Call
      /\ k # Null
  BY CallTypes, NullIsNoCall DEF IInv, Parse, At, Call
<1>2. call' = [call EXCEPT ![c][s] = k]
  BY DEF Parse, TypeOK, IInv
<1>3. call'[c][s] = k
  BY <1>1, <1>2, CallAssigned
<1>4. ContentType[m] # Null => ContentType[m] \in Type
  BY <1>1, ObserverAssumption
<1>5. p => a = "complete"
  BY DEF Unreadable
<1>6. /\ k.at = a /\ (k.parsed <=> p) /\ k.message = m /\ k.lock = call[c][s].lock
      /\ k.next = call[c][s].next
  BY <1>1 DEF Call
<1>7. a \in {"complete", "dispatch"} /\ lock' = lock
  BY DEF Parse
<1> HIDE DEF k, p, a, m
<1>8. ~Past(c, s)'
  BY <1>3, <1>5, <1>6 DEF Past
<1>9. CallOK(c, s)'
  BY <1>1, <1>3, <1>4, <1>6, <1>7, <1>8 DEF CallOK, m, p
<1> USE DEF m
<1>10. QED
  BY <1>1, <1>2, <1>6, <1>9, MoveStep DEF Parse

LEMMA CompleteAsyncOK ==
    ASSUME IInv, NEW c \in Client, NEW s \in Slot, CompleteAsync(c, s)
    PROVE  IInv'
<1> DEFINE m == call[c][s].message
           k == [call[c][s] EXCEPT !.at = "dispatch"]
<1>1. /\ TypeOK
      /\ CallOK(c, s)
      /\ call[c][s] # Null
      /\ call[c][s].at = "complete"
      /\ call[c][s] \in Call
      /\ m \in Message
      /\ MessageOK(m)
      /\ k \in Call
      /\ k # Null
  BY CallTypes, NullIsNoCall DEF IInv, CompleteAsync, At, Call
<1>2. CASE Throw(c, s)
  BY <1>1, <1>2, ThrowStep DEF CompleteAsync
<1>3. CASE /\ HoldsLock(c, s)
           /\ place' = [place EXCEPT ![m] = "completed"]
           /\ Goto(c, s, "dispatch") \/ Return(c, s)
  <2>1. /\ place' \in [Message -> Place]
        /\ place[m] = "locked" /\ lock[m] = call[c][s].lock
        /\ place'[m] = "completed"
        /\ \A n \in Message : n # m => place'[n] = place[n]
    BY <1>1, <1>3 DEF TypeOK, Place, HoldsLock
  <2>2. CASE Return(c, s)
    <3> DEFINE e == Null
    <3>1. e \in {Null} \cup Call /\ e = Null /\ call' = [call EXCEPT ![c][s] = e]
      BY <2>2 DEF Return
    <3> HIDE DEF e
    <3>2. QED
      BY <1>1, <2>1, <3>1, CallStep DEF CompleteAsync
  <2>3. CASE Goto(c, s, "dispatch")
    <3>1. call' = [call EXCEPT ![c][s] = k]
      BY <1>1, <2>3 DEF Goto, TypeOK
    <3>2. call'[c][s] = k
      BY <1>1, <3>1, CallAssigned
    <3>3. /\ k.at = "dispatch" /\ k.parsed = call[c][s].parsed /\ k.message = m
          /\ k.lock = call[c][s].lock /\ k.next = call[c][s].next
      BY <1>1 DEF Call
    <3>4. ran' = ran /\ lock' = lock
      BY DEF CompleteAsync
    <3>5. \A h \in Handler : ran[m][h] = 0
      BY <1>1, <2>1 DEF MessageOK
    <3>6. CallOK(c, s)'
      BY <1>1, <2>1, <3>2, <3>3, <3>4, <3>5 DEF CallOK, Past
    <3>7. QED
      BY <1>1, <2>1, <3>1, <3>3, <3>6, CallStep DEF CompleteAsync
  <2>4. QED
    BY <1>3, <2>2, <2>3
<1>4. QED
  BY <1>2, <1>3 DEF CompleteAsync

\* Moving a call on, parsed and with the same enumerator, keeps it right.
LEMMA GotoOK ==
    ASSUME IInv, NEW c \in Client, NEW s \in Slot, call[c][s] # Null,
           NEW where \in {"next", "log"}, Goto(c, s, where),
           call[c][s].at \in {"dispatch", "next", "running"},
           where = "next" => call[c][s].at # "dispatch",
           UNCHANGED <<place, lock, observer, lenient, registrations, ran, crashes>>
    PROVE  IInv'
<1> DEFINE k == [call[c][s] EXCEPT !.at = where]
<1>1. /\ TypeOK
      /\ CallOK(c, s)
      /\ call[c][s] \in Call
      /\ k \in Call
      /\ k # Null
  BY CallTypes, NullIsNoCall DEF IInv, Call
<1>2. call' = [call EXCEPT ![c][s] = k]
  BY <1>1 DEF Goto, TypeOK
<1>3. call'[c][s] = k
  BY <1>1, <1>2, CallAssigned
<1>4. /\ k.at = where /\ k.parsed = call[c][s].parsed /\ k.message = call[c][s].message
      /\ k.lock = call[c][s].lock /\ k.next = call[c][s].next
  BY <1>1 DEF Call
<1>5. Handlers(c, s)' = Handlers(c, s)
  BY <1>3, <1>4 DEF Handlers
<1>6. \A h \in Handler : Passed(c, s, h) => Passed(c, s, h)'
  BY <1>3, <1>4, <1>5 DEF Passed
<1>7. CallOK(c, s)'
  BY <1>1, <1>3, <1>4, <1>6 DEF CallOK, Past
<1>8. QED
  BY <1>1, <1>2, <1>4, <1>7, MoveStep

LEMMA DispatchOK ==
    ASSUME IInv, NEW c \in Client, NEW s \in Slot, Dispatch(c, s)
    PROVE  IInv'
<1>1. TypeOK /\ CallOK(c, s) /\ call[c][s] # Null /\ call[c][s].at = "dispatch"
  BY DEF IInv, Dispatch, At
<1>2. CASE Goto(c, s, "log")
  BY <1>1, <1>2, GotoOK DEF Dispatch
<1>3. CASE /\ call[c][s].parsed
           /\ call' = [call EXCEPT ![c][s].count = Len(Handlers(c, s)), ![c][s].at = "next"]
  <2> DEFINE k == [call[c][s] EXCEPT !.count = Len(Handlers(c, s)), !.at = "next"]
  <2>1. /\ call[c][s] \in Call
        /\ Handlers(c, s) \in Seq(Handler)
    BY <1>1, <1>3, CallTypes, HandlersType DEF CallOK
  <2>2. k \in Call /\ k # Null
    <3>1. Len(Handlers(c, s)) \in Nat
      BY <2>1
    <3>2. QED
      BY <2>1, <3>1, NullIsNoCall DEF Call
  <2>3. call' = [call EXCEPT ![c][s] = k]
    BY <1>1, <1>3 DEF TypeOK
  <2>4. call'[c][s] = k
    BY <1>1, <2>2, <2>3, CallAssigned
  <2>5. /\ k.at = "next" /\ k.parsed = call[c][s].parsed /\ k.message = call[c][s].message
        /\ k.lock = call[c][s].lock /\ k.next = call[c][s].next
    BY <2>1 DEF Call
  <2>6. Past(c, s)
    BY <1>1, <1>3 DEF Past
  <2>7. CallOK(c, s)'
    BY <1>1, <1>3, <2>4, <2>5, <2>6 DEF CallOK, Dispatch
  <2>8. QED
    BY <1>1, <2>2, <2>3, <2>5, <2>7, MoveStep DEF Dispatch
<1>4. QED
  BY <1>2, <1>3 DEF Dispatch

LEMMA HandlerEndsOK ==
    ASSUME IInv, NEW c \in Client, NEW s \in Slot, HandlerEnds(c, s)
    PROVE  IInv'
<1>1. call[c][s] # Null /\ call[c][s].at = "running"
  BY DEF HandlerEnds, At
<1>2. QED
  BY <1>1, GotoOK, ThrowStep DEF HandlerEnds

LEMMA NotifyLogOK ==
    ASSUME IInv, NEW c \in Client, NEW s \in Slot, NotifyLog(c, s)
    PROVE  IInv'
<1>1. TypeOK /\ call[c][s] # Null
  BY DEF NotifyLog, At, IInv
<1>2. CASE Throw(c, s)
  BY <1>1, <1>2, ThrowStep DEF NotifyLog
<1>3. CASE Return(c, s) /\ UNCHANGED place
  <2> DEFINE k == Null
  <2>1. k \in {Null} \cup Call /\ k = Null /\ call' = [call EXCEPT ![c][s] = k]
    BY <1>3 DEF Return
  <2>2. place' \in [Message -> Place]
    BY <1>1, <1>3 DEF TypeOK
  <2> HIDE DEF k
  <2>3. QED
    BY <1>1, <1>3, <2>1, <2>2, CallStep DEF NotifyLog
<1>4. QED
  BY <1>2, <1>3 DEF NotifyLog

\* The handler called next has not been given the message before: the
\* enumerator passes each handler once, and no other call is past
\* CompleteAsync with this message.
LEMMA NextIsNew ==
    ASSUME IInv, NEW c \in Client, NEW s \in Slot,
           At(c, s, "next"),
           Len(Handlers(c, s)) = call[c][s].count,
           call[c][s].next <= call[c][s].count
    PROVE  /\ call[c][s].next \in 1..Len(Handlers(c, s))
           /\ Handlers(c, s)[call[c][s].next] \in Handler
           /\ place[call[c][s].message] = "completed"
           /\ ran[call[c][s].message][Handlers(c, s)[call[c][s].next]] = 0
           /\ \A d \in Client, u \in Slot :
                 Past(d, u) /\ call[d][u].message = call[c][s].message => d = c /\ u = s
<1> DEFINE m == call[c][s].message
           n == call[c][s].next
           h == Handlers(c, s)[n]
<1>1. /\ TypeOK /\ Apart /\ Distinct
      /\ \A d \in Client, u \in Slot : CallOK(d, u)
      /\ call[c][s] # Null /\ call[c][s].at = "next"
  BY DEF IInv, At
<1>2. /\ m \in Message /\ n \in Nat /\ n >= 1
      /\ call[c][s].parsed /\ ContentType[m] \in Type
      /\ Past(c, s)
  BY <1>1, CallTypes DEF CallOK, Past
<1>3. Handlers(c, s) \in Seq(Handler)
  BY <1>1, <1>2, HandlersType
<1>4. n \in 1..Len(Handlers(c, s)) /\ h \in Handler
  BY <1>2, <1>3
<1>5. ~Passed(c, s, h)
  <2>1. \A i, j \in 1..Len(Handlers(c, s)) : Handlers(c, s)[i] = Handlers(c, s)[j] => i = j
    BY <1>1, <1>2 DEF Distinct, Handlers
  <2>2. QED
    BY <1>2, <1>4, <2>1 DEF Passed
<1>6. place[m] = "completed" /\ call[c][s].lock = lock[m] /\ ~(ran[m][h] > 0)
  BY <1>1, <1>2, <1>4, <1>5 DEF CallOK
<1>7. ran[m][h] = 0
  BY <1>1, <1>2, <1>4, <1>6 DEF TypeOK
<1>8. ASSUME NEW d \in Client, NEW u \in Slot, Past(d, u), call[d][u].message = m
      PROVE  d = c /\ u = s
  <2>1. call[d][u] # Null /\ call[d][u].lock = lock[m]
    BY <1>1, <1>8 DEF CallOK, Past
  <2>2. QED
    BY <1>1, <1>6, <1>8, <2>1 DEF Apart
<1>9. QED
  BY <1>4, <1>6, <1>7, <1>8

LEMMA NextHandlerOK ==
    ASSUME IInv, NEW c \in Client, NEW s \in Slot, NextHandler(c, s)
    PROVE  IInv'
<1> DEFINE m == call[c][s].message
           n == call[c][s].next
           h == Handlers(c, s)[n]
           k == [call[c][s] EXCEPT !.at = "running", !.next = n + 1]
<1>1. /\ TypeOK /\ Apart /\ Distinct /\ HandledAtMostOnce
      /\ \A d \in Client, u \in Slot : CallOK(d, u)
      /\ \A i \in Message : MessageOK(i)
      /\ call[c][s] # Null /\ call[c][s].at = "next"
  BY DEF IInv, NextHandler, At
<1>2. CASE Throw(c, s) /\ UNCHANGED ran
  BY <1>1, <1>2, ThrowStep DEF NextHandler
<1>3. CASE Goto(c, s, "log") /\ UNCHANGED <<place, ran>>
  BY <1>1, <1>3, GotoOK DEF NextHandler
<1>4. CASE /\ Len(Handlers(c, s)) = call[c][s].count
           /\ n <= call[c][s].count
           /\ ran' = [ran EXCEPT ![m][h] = @ + 1]
           /\ call' = [call EXCEPT ![c][s].at = "running", ![c][s].next = @ + 1]
           /\ UNCHANGED place
  <2>1. /\ n \in 1..Len(Handlers(c, s))
        /\ h \in Handler
        /\ place[m] = "completed"
        /\ ran[m][h] = 0
        /\ \A d \in Client, u \in Slot : Past(d, u) /\ call[d][u].message = m => d = c /\ u = s
    BY <1>4, NextIsNew DEF NextHandler
  <2>2. /\ call[c][s] \in Call /\ m \in Message /\ n \in Nat /\ n + 1 \in Nat
        /\ k \in Call /\ k # Null
    <3>1. call[c][s] \in Call /\ m \in Message /\ n \in Nat /\ n + 1 \in Nat
      BY <1>1, CallTypes
    <3>2. QED
      BY <3>1, NullIsNoCall DEF Call
  <2>3. call' = [call EXCEPT ![c][s] = k]
    BY <1>1, <1>4 DEF TypeOK
  <2>4. /\ k.at = "running" /\ k.next = n + 1 /\ k.message = m
        /\ k.lock = call[c][s].lock /\ (k.parsed <=> call[c][s].parsed)
    BY <2>2 DEF Call
  <2>5. /\ call' \in [Client -> [Slot -> {Null} \cup Call]]
        /\ call'[c][s] = k
        /\ \A d \in Client, u \in Slot : d # c \/ u # s => call'[d][u] = call[d][u]
    BY <1>1, <2>2, <2>3, CallAssigned
  <2>6. /\ lock' = lock /\ place' = place /\ registrations' = registrations
        /\ UNCHANGED <<observer, lenient, crashes>>
    BY <1>4 DEF NextHandler
  <2>7. /\ ran' \in [Message -> [Handler -> Nat]]
        /\ ran'[m][h] = 1
        /\ \A g \in Handler : g # h => ran'[m][g] = ran[m][g]
        /\ \A i \in Message : i # m => ran'[i] = ran[i]
    BY <1>1, <1>4, <2>1, <2>2 DEF TypeOK
  <2> HIDE DEF k, h
  <2>8. TypeOK'
    BY <1>1, <2>5, <2>6, <2>7 DEF TypeOK
  <2>9. ASSUME NEW i \in Message PROVE MessageOK(i)'
    BY <1>1, <2>1, <2>6, <2>7 DEF MessageOK
  <2>10. ASSUME NEW d \in Client, NEW u \in Slot PROVE CallOK(d, u)'
    <3>1. CASE d = c /\ u = s
      <4>1. Handlers(c, s)' = Handlers(c, s)
        BY <2>4, <2>5, <2>6 DEF Handlers
      <4>2. \A g \in Handler : Passed(c, s, g) => Passed(c, s, g)'
        BY <2>2, <2>4, <2>5, <4>1 DEF Passed
      <4>3. ASSUME NEW g \in Handler, g = h PROVE Passed(c, s, g)'
        <5>1. n \in 1..Len(Handlers(c, s)) /\ n < n + 1 /\ Handlers(c, s)[n] = g
          BY <2>1, <2>2, <4>3 DEF h
        <5>2. call'[c][s].next = n + 1
          BY <2>4, <2>5
        <5>3. QED
          BY <4>1, <5>1, <5>2 DEF Passed
      <4>4. Past(c, s)
        BY <1>1 DEF Past, CallOK
      <4>5. \A g \in Handler : ran'[m][g] > 0 => Passed(c, s, g)'
        <5>1. ASSUME NEW g \in Handler, g # h, ran'[m][g] > 0 PROVE Passed(c, s, g)'
          BY <1>1, <2>7, <4>2, <4>4, <5>1 DEF CallOK
        <5>2. QED
          BY <4>3, <5>1
      <4>6. CallOK(c, s)'
        BY <1>1, <2>1, <2>2, <2>4, <2>5, <2>6, <4>4, <4>5 DEF CallOK
      <4>7. QED
        BY <3>1, <4>6, SameCall
    <3>2. CASE ~(d = c /\ u = s)
      <4>1. call'[d][u] = call[d][u] /\ CallOK(d, u)
        BY <1>1, <2>5, <3>2
      <4>2. \A i \in Message : lock'[i] >= lock[i]
        BY <1>1, <2>6 DEF TypeOK
      <4>3. Past(d, u) => ran'[call[d][u].message] = ran[call[d][u].message]
        <5>1. Past(d, u) => call[d][u].message \in Message
          BY <1>1, CallTypes DEF Past
        <5>2. QED
          BY <2>1, <2>7, <3>2, <5>1
      <4>4. QED
        BY <1>1, <2>6, <2>8, <4>1, <4>2, <4>3, OthersStay
    <3>3. QED
      BY <3>1, <3>2
  <2>11. Apart'
    BY <1>1, <2>2, <2>3, <2>4, ApartStays
  <2>12. Distinct'
    BY <1>1, <2>6 DEF Distinct
  <2>13. HandledAtMostOnce'
    BY <1>1, <2>7 DEF HandledAtMostOnce
  <2>14. QED
    BY <2>8, <2>9, <2>10, <2>11, <2>12, <2>13 DEF IInv
<1>5. QED
  BY <1>2, <1>3, <1>4 DEF NextHandler

LEMMA ProcessOK ==
    ASSUME ReceiveOnce, IInv, NEW c \in Client, NEW s \in Slot, Process(c, s)
    PROVE  IInv'
BY ParseOK, CompleteAsyncOK, DispatchOK, NextHandlerOK, HandlerEndsOK, NotifyLogOK DEF Process

-----------------------------------------------------------------------------
\* A step that takes no call further and hands nothing to a handler.
LEMMA MessageStep ==
    ASSUME IInv,
           TypeOK',
           \A m \in Message : place'[m] # place[m] =>
               \/ place[m] = "locked" /\ place'[m] = Released(m)
               \/ place[m] = "unsent" /\ place'[m] = "ready",
           UNCHANGED <<lock, registrations, call, ran>>
    PROVE  IInv'
<1>1. /\ TypeOK /\ Apart /\ Distinct /\ HandledAtMostOnce
      /\ \A d \in Client, u \in Slot : CallOK(d, u)
      /\ \A i \in Message : MessageOK(i)
  BY DEF IInv
<1>2. ASSUME NEW m \in Message PROVE MessageOK(m)'
  <2>1. lock[m] \in Nat /\ MaxDelivery \in Nat
    BY <1>1, ObserverAssumption DEF TypeOK
  <2>2. QED
    BY <1>1, <2>1 DEF MessageOK, Released
<1>3. ASSUME NEW d \in Client, NEW u \in Slot PROVE CallOK(d, u)'
  <2>1. \A m \in Message : lock'[m] >= lock[m]
    BY <1>1 DEF TypeOK
  <2>2. \A m \in Message : place[m] = "completed" => place'[m] = "completed" /\ lock'[m] = lock[m]
    OBVIOUS
  <2>3. QED
    BY <1>1, <2>1, <2>2, OthersStay
<1>4. Apart' /\ Distinct' /\ HandledAtMostOnce'
  BY <1>1 DEF Apart, Distinct, HandledAtMostOnce
<1>5. QED
  BY <1>2, <1>3, <1>4 DEF IInv

LEMMA LockExpiresOK == ASSUME IInv, NEW m \in Message, LockExpires(m) PROVE IInv'
<1>1. TypeOK'
  BY DEF IInv, TypeOK, LockExpires, Released, Place
<1>2. \A i \in Message : place'[i] # place[i] => place[i] = "locked" /\ place'[i] = Released(i)
  BY DEF IInv, TypeOK, LockExpires
<1>3. QED
  BY <1>1, <1>2, MessageStep DEF LockExpires

LEMMA SendFromElsewhereOK == ASSUME IInv, NEW m \in Message, SendFromElsewhere(m) PROVE IInv'
<1>1. TypeOK'
  BY DEF IInv, TypeOK, SendFromElsewhere, Place
<1>2. \A i \in Message : place'[i] # place[i] => place[i] = "unsent" /\ place'[i] = "ready"
  BY DEF IInv, TypeOK, SendFromElsewhere
<1>3. QED
  BY <1>1, <1>2, MessageStep DEF SendFromElsewhere

LEMMA SendOK == ASSUME IInv, NEW c \in Client, NEW m \in Message, Send(c, m) PROVE IInv'
<1>1. TypeOK'
  BY DEF IInv, TypeOK, Send, Place
<1>2. \A i \in Message : place'[i] # place[i] => place[i] = "unsent" /\ place'[i] = "ready"
  BY DEF IInv, TypeOK, Send
<1>3. QED
  BY <1>1, <1>2, MessageStep DEF Send

LEMMA OpenOrCloseOK == ASSUME IInv, NEW c \in Client, Open(c) \/ Close(c) PROVE IInv'
<1>1. TypeOK
  BY DEF IInv
<1>2. CASE Open(c)
  <2>1. TypeOK'
    BY <1>1, <1>2 DEF TypeOK, Open
  <2>2. QED
    BY <1>2, <2>1, MessageStep DEF Open
<1>3. CASE Close(c)
  <2>1. crashes' \in 0..MaxCrash
    BY <1>1, <1>3, ObserverAssumption DEF TypeOK, Close
  <2>2. TypeOK'
    BY <1>1, <1>3, <2>1 DEF TypeOK, Close
  <2>3. QED
    BY <1>3, <2>2, MessageStep DEF Close
<1>4. QED
  BY <1>2, <1>3

LEMMA RegisterOK ==
    ASSUME IInv, NEW c \in Client, NEW h \in Handler, RegisterForNotificationOf(c, h)
    PROVE  IInv'
<1> DEFINE t == Accepts[h]
           list == registrations[c][t]
<1>1. /\ TypeOK /\ Apart /\ Distinct /\ HandledAtMostOnce
      /\ \A d \in Client, u \in Slot : CallOK(d, u)
      /\ \A i \in Message : MessageOK(i)
  BY DEF IInv
<1>2. t \in Type /\ list \in Seq(Handler)
  BY <1>1, ObserverAssumption DEF TypeOK
<1>3. /\ registrations' \in [Client -> [Type -> Seq(Handler)]]
      /\ registrations'[c][t] = Append(list, h)
      /\ \A d \in Client, v \in Type :
            d # c \/ v # t => registrations'[d][v] = registrations[d][v]
  BY <1>1, <1>2 DEF TypeOK, RegisterForNotificationOf
<1>4. /\ Len(Append(list, h)) = Len(list) + 1
      /\ \A i \in 1..Len(list) : Append(list, h)[i] = list[i]
      /\ Append(list, h)[Len(list) + 1] = h
  BY <1>2
<1>5. \A i \in 1..Len(list) : list[i] # h
  BY <1>2 DEF RegisterForNotificationOf
<1>6. UNCHANGED <<place, lock, observer, lenient, call, ran, crashes>>
  BY DEF RegisterForNotificationOf
<1>7. TypeOK'
  BY <1>1, <1>3, <1>6 DEF TypeOK
<1>8. Distinct'
  <2> SUFFICES ASSUME NEW d \in Client, NEW v \in Type,
                      NEW i \in 1..Len(registrations'[d][v]),
                      NEW j \in 1..Len(registrations'[d][v]),
                      registrations'[d][v][i] = registrations'[d][v][j]
               PROVE  i = j
    BY DEF Distinct
  <2>1. CASE d = c /\ v = t
    <3>1. \A a, b \in 1..Len(list) : list[a] = list[b] => a = b
      BY <1>1, <1>2 DEF Distinct
    <3>2. registrations'[d][v] = Append(list, h)
      BY <1>3, <2>1
    <3>3. Len(list) \in Nat
      BY <1>2
    <3>4. QED
      BY <1>4, <1>5, <3>1, <3>2, <3>3
  <2>2. CASE ~(d = c /\ v = t)
    BY <1>1, <1>3, <2>2 DEF Distinct
  <2>3. QED
    BY <2>1, <2>2
<1>9. ASSUME NEW d \in Client, NEW u \in Slot PROVE CallOK(d, u)'
  <2> SUFFICES ASSUME call[d][u] # Null PROVE CallOK(d, u)'
    BY <1>6 DEF CallOK
  <2>1. ASSUME Past(d, u), NEW g \in Handler, Passed(d, u, g) PROVE Passed(d, u, g)'
    <3>1. ContentType[call[d][u].message] \in Type
      BY <1>1, <2>1 DEF CallOK, Past
    <3>2. PICK i \in 1..Len(Handlers(d, u)) :
             i < call[d][u].next /\ Handlers(d, u)[i] = g
      BY <2>1 DEF Passed
    <3>3. i \in 1..Len(Handlers(d, u))' /\ Handlers(d, u)'[i] = Handlers(d, u)[i]
      <4>1. CASE d = c /\ ContentType[call[d][u].message] = t
        <5>1. Handlers(d, u) = list /\ Handlers(d, u)' = Append(list, h)
          BY <1>3, <1>6, <4>1 DEF Handlers
        <5>2. Len(list) \in Nat
          BY <1>2
        <5>3. QED
          BY <1>4, <5>1, <5>2, <3>2
      <4>2. CASE ~(d = c /\ ContentType[call[d][u].message] = t)
        <5>1. Handlers(d, u)' = Handlers(d, u)
          BY <1>3, <1>6, <3>1, <4>2 DEF Handlers
        <5>2. QED
          BY <3>2, <5>1
      <4>3. QED
        BY <4>1, <4>2
    <3>4. QED
      BY <1>6, <3>2, <3>3 DEF Passed
  <2>2. Past(d, u)' <=> Past(d, u)
    BY <1>6 DEF Past
  <2>3. QED
    BY <1>1, <1>6, <2>1, <2>2 DEF CallOK
<1>10. (\A m \in Message : MessageOK(m)') /\ Apart' /\ HandledAtMostOnce'
  BY <1>1, <1>6 DEF MessageOK, Apart, HandledAtMostOnce
<1>11. QED
  BY <1>7, <1>8, <1>9, <1>10 DEF IInv

LEMMA CrashOK == ASSUME IInv, NEW c \in Client, Crash(c) PROVE IInv'
<1>1. /\ TypeOK /\ Apart /\ Distinct /\ HandledAtMostOnce
      /\ \A d \in Client, u \in Slot : CallOK(d, u)
      /\ \A i \in Message : MessageOK(i)
  BY DEF IInv
<1>2. TypeOK'
  BY <1>1, ObserverAssumption DEF TypeOK, Crash, NoHandlers, NoCalls
<1>3. /\ \A u \in Slot : call'[c][u] = Null
      /\ \A d \in Client \ {c} : /\ call'[d] = call[d]
                                 /\ registrations'[d] = registrations[d]
      /\ registrations'[c] = NoHandlers
      /\ UNCHANGED <<place, lock, ran>>
  BY <1>1 DEF TypeOK, Crash, NoCalls
<1>4. ASSUME NEW d \in Client, NEW u \in Slot PROVE CallOK(d, u)'
  <2>1. CASE d = c
    BY <1>3, <2>1 DEF CallOK
  <2>2. CASE d # c
    <3>1. \A m \in Message : lock'[m] >= lock[m]
      BY <1>1, <1>3 DEF TypeOK
    <3>2. call'[d][u] = call[d][u] /\ registrations'[d] = registrations[d] /\ CallOK(d, u)
      BY <1>1, <1>3, <2>2
    <3>3. QED
      BY <1>1, <1>2, <1>3, <3>1, <3>2, OthersStay
  <2>3. QED
    BY <2>1, <2>2
<1>5. Apart'
  BY <1>1, <1>3 DEF Apart
<1>6. Distinct'
  BY <1>1, <1>3 DEF Distinct, NoHandlers
<1>7. (\A m \in Message : MessageOK(m)') /\ HandledAtMostOnce'
  BY <1>1, <1>3 DEF MessageOK, HandledAtMostOnce
<1>8. QED
  BY <1>2, <1>4, <1>5, <1>6, <1>7 DEF IInv

LEMMA ReceiveOK ==
    ASSUME IInv, NEW c \in Client, NEW s \in Slot, NEW m \in Message, Receive(c, s, m)
    PROVE  IInv'
<1> DEFINE k == [message |-> m, lock |-> lock[m] + 1, parsed |-> FALSE,
                 next |-> 1, count |-> 0, at |-> "parse"]
<1>1. /\ TypeOK /\ Apart /\ Distinct /\ HandledAtMostOnce
      /\ \A d \in Client, u \in Slot : CallOK(d, u)
      /\ \A i \in Message : MessageOK(i)
  BY DEF IInv
<1>2. lock[m] \in Nat /\ MaxDelivery \in Nat /\ lock[m] < MaxDelivery
  BY <1>1, ObserverAssumption DEF TypeOK, MessageOK, Receive
<1>3. k \in Call /\ call' = [call EXCEPT ![c][s] = k]
  BY <1>2 DEF Call, Receive
<1>4. /\ place[m] = "ready" /\ place'[m] = "locked" /\ lock'[m] = lock[m] + 1
      /\ \A i \in Message : i # m => place'[i] = place[i] /\ lock'[i] = lock[i]
      /\ UNCHANGED <<observer, lenient, registrations, ran, crashes>>
  BY <1>1 DEF TypeOK, Receive
<1>5. /\ call' \in [Client -> [Slot -> {Null} \cup Call]]
      /\ call'[c][s] = k
      /\ \A d \in Client, u \in Slot : d # c \/ u # s => call'[d][u] = call[d][u]
  BY <1>1, <1>3, CallAssigned
<1>6. k.message = m /\ k.lock = lock[m] + 1 /\ ~k.parsed /\ k.next = 1 /\ k.at = "parse"
  OBVIOUS
<1> HIDE DEF k
<1>7. TypeOK'
  <2>1. place' \in [Message -> Place] /\ lock' \in [Message -> 0..MaxDelivery]
    BY <1>1, <1>2 DEF TypeOK, Receive, Place
  <2>2. QED
    BY <1>1, <1>4, <1>5, <2>1 DEF TypeOK
<1>8. ASSUME NEW i \in Message PROVE MessageOK(i)'
  BY <1>1, <1>4 DEF MessageOK
<1>9. ASSUME NEW d \in Client, NEW u \in Slot PROVE CallOK(d, u)'
  <2>1. CASE d = c /\ u = s
    <3>1. CallOK(c, s)'
      BY <1>2, <1>4, <1>5, <1>6 DEF CallOK, Past
    <3>2. QED
      BY <2>1, <3>1, SameCall
  <2>2. CASE ~(d = c /\ u = s)
    <3>1. call'[d][u] = call[d][u] /\ CallOK(d, u)
      BY <1>1, <1>5, <2>2
    <3>2. ASSUME NEW i \in Message PROVE lock'[i] >= lock[i]
      <4>1. lock[i] \in Nat
        BY <1>1 DEF TypeOK
      <4>2. CASE i = m
        BY <1>2, <1>4, <4>2
      <4>3. CASE i # m
        BY <1>4, <4>1, <4>3
      <4>4. QED
        BY <4>2, <4>3
    <3>3. \A i \in Message : place[i] = "completed" =>
             place'[i] = "completed" /\ lock'[i] = lock[i]
      BY <1>4
    <3>4. QED
      BY <1>1, <1>4, <1>7, <3>1, <3>2, <3>3, OthersStay
  <2>3. QED
    BY <2>1, <2>2
<1>10. Apart'
  <2>1. ASSUME NEW d \in Client, NEW u \in Slot, d # c \/ u # s, call'[d][u] # Null,
               call'[d][u].message = m
        PROVE  call'[d][u].lock # k.lock
    <3>1. call[d][u] # Null /\ call[d][u].message = m /\ call'[d][u].lock = call[d][u].lock
      BY <1>5, <2>1
    <3>2. call[d][u].lock <= lock[m] /\ call[d][u].lock \in Nat
      BY <1>1, <3>1, CallTypes DEF CallOK
    <3>3. QED
      BY <1>2, <1>6, <3>1, <3>2
  <2>2. QED
    BY <1>1, <1>5, <1>6, <2>1 DEF Apart
<1>11. Distinct' /\ HandledAtMostOnce'
  BY <1>1, <1>4 DEF Distinct, HandledAtMostOnce
<1>12. QED
  BY <1>7, <1>8, <1>9, <1>10, <1>11 DEF IInv

LEMMA StutterOK == ASSUME IInv, UNCHANGED vars PROVE IInv'
<1>1. TypeOK'
  BY DEF IInv, TypeOK, vars
<1>2. QED
  BY <1>1, MessageStep DEF vars

LEMMA NextOK == ASSUME ReceiveOnce, IInv, [Next]_vars PROVE IInv'
BY LockExpiresOK, SendFromElsewhereOK, SendOK, OpenOrCloseOK, RegisterOK, CrashOK,
   ReceiveOK, ProcessOK, StutterOK DEF Next

\* In a queue, the invariant holds of every state.
THEOREM QueueInvariant == ASSUME ReceiveOnce PROVE Spec => []IInv
<1>1. Init => IInv
  BY InitOK
<1>2. IInv /\ [Next]_vars => IInv'
  BY NextOK
<1>3. QED
  BY <1>1, <1>2, PTL DEF Spec

\* In a queue every variable keeps its type; in particular no message is
\* delivered more than MaxDelivery times.
THEOREM TypeCorrect == ASSUME ReceiveOnce PROVE Spec => []TypeOK
<1>1. IInv => TypeOK
  BY DEF IInv
<1>2. QED
  BY <1>1, QueueInvariant, PTL

\* A queue's command is given to a handler at most once, whatever becomes of
\* its locks, its calls and the processes.
THEOREM QueueHandlesAtMostOnce == ASSUME ReceiveOnce PROVE Spec => []HandledAtMostOnce
<1>1. IInv => HandledAtMostOnce
  BY DEF IInv
<1>2. QED
  BY <1>1, QueueInvariant, PTL

-----------------------------------------------------------------------------
(***************************************************************************)
(* The queue implements CommandDelivery.                                   *)
(***************************************************************************)

\* A step that leaves the handlers alone and moves at most one message, to
\* the next stage of its fate.
LEMMA FateStep ==
    ASSUME TypeOK, TypeOK', UNCHANGED ran, NEW m \in Message,
           \A i \in Message : i # m => place'[i] = place[i],
           \/ place'[m] = place[m]
           \/ place[m] = "unsent" /\ place'[m] = "ready"
           \/ place[m] = "ready" /\ place'[m] = "locked"
           \/ place[m] = "locked" /\ place'[m] \in {"ready", "dead", "completed"}
    PROVE  [Delivery!Next]_(Delivery!vars)
<1>1. \A i \in Message : i # m => Fates'[i] = Fates[i]
  BY DEF Fates
<1>2. Fates = [Fates EXCEPT ![m] = Fates[m]] /\ Fates' = [Fates EXCEPT ![m] = Fates'[m]]
  BY <1>1 DEF Fates
<1>3. /\ Fates[m] = Fate(place[m])
      /\ Fates'[m] = Fate(place'[m])
  BY DEF Fates
<1>4. \/ Fates'[m] = Fates[m]
      \/ Fates[m] = "unsent" /\ Fates'[m] = "waiting"
      \/ Fates[m] = "waiting" /\ Fates'[m] = "dead"
      \/ Fates[m] = "waiting" /\ Fates'[m] = "taken"
  BY <1>3 DEF Fate
<1>5. CASE Fates'[m] = Fates[m]
  BY <1>2, <1>5 DEF Delivery!vars
<1>6. CASE Fates'[m] # Fates[m]
  <2>1. Delivery!Send(m) \/ Delivery!GiveUp(m) \/ Delivery!Take(m)
    BY <1>2, <1>4, <1>6 DEF Delivery!Send, Delivery!GiveUp, Delivery!Take, Delivery!Move
  <2>2. QED
    BY <2>1 DEF Delivery!Next
<1>7. QED
  BY <1>5, <1>6

LEMMA ThrowFate ==
    ASSUME TypeOK, TypeOK', NEW c \in Client, NEW s \in Slot, call[c][s] # Null,
           Throw(c, s), UNCHANGED ran
    PROVE  [Delivery!Next]_(Delivery!vars)
<1>1. call[c][s].message \in Message
  BY CallTypes
<1>2. /\ \A i \in Message : i # call[c][s].message => place'[i] = place[i]
      /\ \/ place' = place
         \/ /\ place[call[c][s].message] = "locked"
            /\ place'[call[c][s].message] \in {"ready", "dead"}
  BY <1>1 DEF TypeOK, Throw, HoldsLock, Released
<1>3. QED
  BY <1>1, <1>2, FateStep

LEMMA GiveFate ==
    ASSUME IInv, NEW c \in Client, NEW s \in Slot, NextHandler(c, s),
           ~(Throw(c, s) /\ UNCHANGED ran)
    PROVE  [Delivery!Next]_(Delivery!vars)
<1> DEFINE m == call[c][s].message
           h == Handlers(c, s)[call[c][s].next]
<1>1. TypeOK /\ call[c][s] # Null
  BY DEF IInv, NextHandler, At
<1>2. UNCHANGED place
  BY DEF NextHandler
<1>3. Fates' = Fates
  BY <1>2 DEF Fates
<1>4. CASE UNCHANGED ran
  BY <1>3, <1>4 DEF Delivery!vars
<1>5. CASE /\ Len(Handlers(c, s)) = call[c][s].count
           /\ call[c][s].next <= call[c][s].count
           /\ ran' = [ran EXCEPT ![m][h] = @ + 1]
  <2>1. m \in Message
    BY <1>1, CallTypes
  <2>2. h \in Handler /\ place[m] = "completed" /\ ran[m][h] = 0
    BY <1>5, NextIsNew DEF NextHandler
  <2>3. Fates[m] = "taken"
    BY <2>1, <2>2 DEF Fates, Fate
  <2>4. ran' = [ran EXCEPT ![m][h] = 1]
    BY <1>1, <1>5, <2>1, <2>2 DEF TypeOK
  <2>5. PICK g \in Handler : g = h
    BY <2>2
  <2>6. Delivery!Give(m, g)
    BY <1>3, <2>2, <2>3, <2>4, <2>5 DEF Delivery!Give
  <2>7. QED
    BY <2>1, <2>6 DEF Delivery!Next
<1>6. QED
  BY <1>4, <1>5 DEF NextHandler

LEMMA StepFate == ASSUME ReceiveOnce, IInv, IInv', [Next]_vars PROVE [Delivery!Next]_(Delivery!vars)
<1>1. TypeOK /\ TypeOK'
  BY DEF IInv
<1>2. CASE UNCHANGED <<place, ran>>
  BY <1>2 DEF Delivery!vars, Fates
<1>3. ASSUME NEW m \in Message, LockExpires(m) \/ SendFromElsewhere(m)
      PROVE  [Delivery!Next]_(Delivery!vars)
  <2>1. /\ UNCHANGED ran
        /\ \A i \in Message : i # m => place'[i] = place[i]
        /\ \/ place[m] = "unsent" /\ place'[m] = "ready"
           \/ place[m] = "locked" /\ place'[m] \in {"ready", "dead"}
    BY <1>1, <1>3 DEF TypeOK, LockExpires, SendFromElsewhere, Released
  <2>2. QED
    BY <1>1, <2>1, FateStep
<1>4. ASSUME NEW c \in Client, NEW m \in Message, Send(c, m)
      PROVE  [Delivery!Next]_(Delivery!vars)
  <2>1. /\ UNCHANGED ran
        /\ \A i \in Message : i # m => place'[i] = place[i]
        /\ \/ place'[m] = place[m]
           \/ place[m] = "unsent" /\ place'[m] = "ready"
    BY <1>1, <1>4 DEF TypeOK, Send
  <2>2. QED
    BY <1>1, <2>1, FateStep
<1>5. ASSUME NEW c \in Client, NEW s \in Slot, NEW m \in Message, Receive(c, s, m)
      PROVE  [Delivery!Next]_(Delivery!vars)
  <2>1. /\ UNCHANGED ran
        /\ \A i \in Message : i # m => place'[i] = place[i]
        /\ place[m] = "ready" /\ place'[m] = "locked"
    BY <1>1, <1>5 DEF TypeOK, Receive
  <2>2. QED
    BY <1>1, <2>1, FateStep
<1>6. ASSUME NEW c \in Client, NEW s \in Slot, CompleteAsync(c, s)
      PROVE  [Delivery!Next]_(Delivery!vars)
  <2>1. call[c][s] # Null /\ call[c][s].message \in Message
    BY <1>1, <1>6, CallTypes DEF CompleteAsync, At
  <2>2. CASE Throw(c, s)
    BY <1>1, <1>6, <2>1, <2>2, ThrowFate DEF CompleteAsync
  <2>3. CASE HoldsLock(c, s) /\ place' = [place EXCEPT ![call[c][s].message] = "completed"]
    <3>1. /\ UNCHANGED ran
          /\ \A i \in Message : i # call[c][s].message => place'[i] = place[i]
          /\ place[call[c][s].message] = "locked"
          /\ place'[call[c][s].message] = "completed"
      BY <1>1, <1>6, <2>1, <2>3 DEF TypeOK, CompleteAsync, HoldsLock
    <3>2. QED
      BY <1>1, <2>1, <3>1, FateStep
  <2>4. QED
    BY <1>6, <2>2, <2>3 DEF CompleteAsync
<1>7. ASSUME NEW c \in Client, NEW s \in Slot, NextHandler(c, s)
      PROVE  [Delivery!Next]_(Delivery!vars)
  <2>1. call[c][s] # Null
    BY <1>7 DEF NextHandler, At
  <2>2. CASE Throw(c, s) /\ UNCHANGED ran
    BY <1>1, <2>1, <2>2, ThrowFate
  <2>3. CASE ~(Throw(c, s) /\ UNCHANGED ran)
    BY <1>7, <2>3, GiveFate DEF NextHandler
  <2>4. QED
    BY <2>2, <2>3
<1>8. ASSUME NEW c \in Client, NEW s \in Slot, HandlerEnds(c, s) \/ NotifyLog(c, s)
      PROVE  [Delivery!Next]_(Delivery!vars)
  <2>1. call[c][s] # Null /\ UNCHANGED ran
    BY <1>8 DEF HandlerEnds, NotifyLog, At
  <2>2. CASE Throw(c, s)
    BY <1>1, <2>1, <2>2, ThrowFate
  <2>3. CASE UNCHANGED place
    BY <1>2, <2>1, <2>3
  <2>4. QED
    BY <1>8, <2>2, <2>3 DEF HandlerEnds, NotifyLog
<1>9. ASSUME NEW c \in Client, NEW s \in Slot, Parse(c, s) \/ Dispatch(c, s)
      PROVE  [Delivery!Next]_(Delivery!vars)
  BY <1>2, <1>9 DEF Parse, Dispatch
<1>10. ASSUME NEW c \in Client, Open(c) \/ Close(c) \/ Crash(c)
       PROVE  [Delivery!Next]_(Delivery!vars)
  BY <1>2, <1>10 DEF Open, Close, Crash
<1>11. ASSUME NEW c \in Client, NEW h \in Handler, RegisterForNotificationOf(c, h)
       PROVE  [Delivery!Next]_(Delivery!vars)
  BY <1>2, <1>11 DEF RegisterForNotificationOf
<1>12. QED
  BY <1>2, <1>3, <1>4, <1>5, <1>6, <1>7, <1>8, <1>9, <1>10, <1>11
     DEF Next, Process, vars

\* Observed through ObserverClient, a queue delivers as CommandDelivery
\* promises: what is waiting is taken or given up once, and only what was
\* taken is given to a handler, once.
THEOREM QueueImplementsDelivery == ASSUME ReceiveOnce PROVE Spec => ImplementsDelivery
<1>1. Init => Delivery!Init
  BY DEF Init, Delivery!Init, Fates, Fate
<1>2. IInv /\ IInv' /\ [Next]_vars => [Delivery!Next]_(Delivery!vars)
  BY StepFate
<1>3. QED
  BY <1>1, <1>2, QueueInvariant, PTL DEF Spec, Delivery!Spec, ImplementsDelivery

-----------------------------------------------------------------------------
(***************************************************************************)
(* On queues and topics alike, a message is given to a handler at most     *)
(* once per delivery, and only to a handler that was registered for its    *)
(* type.  A topic's message is never completed, so that any number of      *)
(* calls may have it at once, and nothing says which of them a handler was *)
(* called by.  What can be said is which deliveries are spent: those whose *)
(* call is over or has passed the handler.  A handler was given a message  *)
(* at most as often as there are deliveries of it spent.                   *)
(***************************************************************************)

\* The call may yet give its message to handler h.
Pending(c, s, h) ==
    \/ call[c][s].at \in {"parse", "complete", "dispatch"}
    \/ /\ call[c][s].at \in {"next", "running"}
       /\ call[c][s].count = Len(Handlers(c, s))
       /\ \E i \in 1..Len(Handlers(c, s)) : i >= call[c][s].next /\ Handlers(c, s)[i] = h

\* The call is that of delivery l of m, and may yet give it to h.
Waits(c, s, m, h, l) ==
    /\ call[c][s] # Null
    /\ call[c][s].message = m
    /\ call[c][s].lock = l
    /\ Pending(c, s, h)

\* The deliveries of m that will not reach h any more.
Spent(m, h) ==
    {l \in 1..lock[m] : \A c \in Client, s \in Slot : ~Waits(c, s, m, h, l)}

\* A message that may be delivered again has deliveries left.
DeliveryLeft(m) == place[m] \in {"unsent", "ready"} => lock[m] < MaxDelivery

\* A call is of a delivery there was, and only what was parsed is dispatched.
Shape(c, s) ==
    call[c][s] # Null =>
        LET k == call[c][s]
        IN  /\ 1 <= k.lock /\ k.lock <= lock[k.message]
            /\ k.next >= 1
            /\ k.parsed => ContentType[k.message] \in Type /\ k.message \notin Malformed
            /\ k.at \in {"next", "running"} => k.parsed /\ k.count <= Len(Handlers(c, s))

\* A handler is registered for the type it accepts.
ForItsType ==
    \A c \in Client, t \in Type : \A i \in 1..Len(registrations[c][t]) :
        Accepts[registrations[c][t][i]] = t

Counted(m, h) == ran[m][h] <= Cardinality(Spent(m, h))

Suits(m, h) == ran[m][h] > 0 => Accepts[h] = ContentType[m] /\ m \notin Malformed

DInv == /\ TypeOK
        /\ \A m \in Message : DeliveryLeft(m)
        /\ \A c \in Client, s \in Slot : Shape(c, s)
        /\ Apart
        /\ Distinct
        /\ ForItsType
        /\ \A m \in Message, h \in Handler : Counted(m, h) /\ Suits(m, h)
-----------------------------------------------------------------------------
LEMMA SpentIsFinite ==
    ASSUME TypeOK, NEW m \in Message, NEW h
    PROVE  IsFiniteSet(Spent(m, h)) /\ Cardinality(Spent(m, h)) \in Nat
<1>1. lock[m] \in Nat
  BY ObserverAssumption DEF TypeOK
<1>2. IsFiniteSet(1..lock[m])
  BY <1>1, FS_Interval
<1>3. Spent(m, h) \in SUBSET (1..lock[m])
  BY DEF Spent
<1>4. IsFiniteSet(Spent(m, h))
  BY <1>2, <1>3, FS_Subset
<1>5. QED
  BY <1>4, FS_CardinalityType

\* What is spent stays spent if no call comes to wait for an old delivery.
LEMMA SpentStays ==
    ASSUME TypeOK, TypeOK', NEW m \in Message, NEW h,
           lock'[m] >= lock[m],
           \A c \in Client, s \in Slot, l \in 1..lock[m] :
               Waits(c, s, m, h, l)' => Waits(c, s, m, h, l)
    PROVE  /\ Spent(m, h) \subseteq Spent(m, h)'
           /\ IsFiniteSet(Spent(m, h)')
           /\ Cardinality(Spent(m, h)) \in Nat
           /\ Cardinality(Spent(m, h)') \in Nat
           /\ Cardinality(Spent(m, h)) <= Cardinality(Spent(m, h)')
<1>1. lock[m] \in Nat /\ lock'[m] \in Nat
  BY ObserverAssumption DEF TypeOK
<1>2. Spent(m, h) \subseteq Spent(m, h)'
  BY <1>1 DEF Spent
<1>3. lock'[m] \in Nat /\ IsFiniteSet(1..lock'[m])
  BY <1>1, FS_Interval
<1>4. Spent(m, h)' \in SUBSET (1..lock'[m])
  BY DEF Spent
<1>5. IsFiniteSet(Spent(m, h)')
  BY <1>3, <1>4, FS_Subset
<1>6. /\ IsFiniteSet(Spent(m, h))
      /\ Cardinality(Spent(m, h)) <= Cardinality(Spent(m, h)')
  BY <1>2, <1>5, FS_Subset
<1>7. QED
  BY <1>2, <1>5, <1>6, FS_CardinalityType

\* A step that hands nothing to a handler, and leaves the calls and their
\* handlers as they are or ends some of them.
LEMMA QuietStep ==
    ASSUME DInv, TypeOK',
           UNCHANGED <<ran, lock>>,
           \A m \in Message : place'[m] # place[m] =>
               \/ place[m] = "locked" /\ place'[m] \in {"completed", Released(m)}
               \/ place[m] = "unsent" /\ place'[m] = "ready",
           \A c \in Client : \/ registrations'[c] = registrations[c]
                             \/ registrations'[c] = NoHandlers
                                /\ \A s \in Slot : call'[c][s] = Null,
           \A c \in Client, s \in Slot : call'[c][s] = call[c][s] \/ call'[c][s] = Null
    PROVE  DInv'
<1>1. ASSUME NEW m \in Message PROVE DeliveryLeft(m)'
  <2>1. DeliveryLeft(m) /\ lock[m] \in Nat /\ MaxDelivery \in Nat
    BY ObserverAssumption DEF DInv, TypeOK
  <2>2. QED
    BY <2>1 DEF DeliveryLeft, Released
<1>2. ASSUME NEW c \in Client, NEW s \in Slot, call'[c][s] # Null
      PROVE  call'[c][s] = call[c][s] /\ Handlers(c, s)' = Handlers(c, s)
  BY <1>2 DEF Handlers
<1>3. ASSUME NEW c \in Client, NEW s \in Slot PROVE Shape(c, s)'
  <2>1. Shape(c, s)
    BY DEF DInv
  <2>2. QED
    BY <1>2, <2>1 DEF Shape
<1>4. Apart'
  BY DEF DInv, Apart
<1>5. Distinct' /\ ForItsType'
  <2> SUFFICES ASSUME NEW c \in Client, NEW t \in Type
               PROVE  /\ \A i, j \in 1..Len(registrations'[c][t]) :
                            registrations'[c][t][i] = registrations'[c][t][j] => i = j
                      /\ \A i \in 1..Len(registrations'[c][t]) :
                            Accepts[registrations'[c][t][i]] = t
    BY DEF Distinct, ForItsType
  <2>1. CASE registrations'[c] = registrations[c]
    BY <2>1 DEF DInv, Distinct, ForItsType
  <2>2. CASE registrations'[c] = NoHandlers
    BY <2>2 DEF NoHandlers
  <2>3. QED
    BY <2>1, <2>2
<1>6. ASSUME NEW m \in Message, NEW h \in Handler PROVE Counted(m, h)' /\ Suits(m, h)'
  <2>1. ASSUME NEW c \in Client, NEW s \in Slot, NEW l \in 1..lock[m], Waits(c, s, m, h, l)'
        PROVE  Waits(c, s, m, h, l)
    BY <1>2, <2>1 DEF Waits, Pending
  <2>2. lock'[m] >= lock[m] /\ ran[m][h] \in Nat /\ TypeOK
    BY DEF DInv, TypeOK
  <2>3. /\ Cardinality(Spent(m, h)) \in Nat
        /\ Cardinality(Spent(m, h)') \in Nat
        /\ Cardinality(Spent(m, h)) <= Cardinality(Spent(m, h)')
    BY <2>1, <2>2, SpentStays
  <2>4. Counted(m, h) /\ Suits(m, h)
    BY DEF DInv
  <2>5. QED
    BY <2>2, <2>3, <2>4 DEF Counted, Suits
<1>7. QED
  BY <1>1, <1>3, <1>4, <1>5, <1>6 DEF DInv

\* A step of one call that hands nothing to a handler, and does not take the
\* call back before a handler it has passed.
LEMMA MovingStep ==
    ASSUME DInv, NEW c \in Client, NEW s \in Slot, call[c][s] # Null,
           NEW k \in Call,
           call' = [call EXCEPT ![c][s] = k],
           k.message = call[c][s].message,
           k.lock = call[c][s].lock,
           Shape(c, s)',
           \A h \in Handler : Pending(c, s, h)' => Pending(c, s, h),
           place' \in [Message -> Place],
           \A m \in Message : place'[m] # place[m] =>
               place[m] = "locked" /\ place'[m] = "completed",
           UNCHANGED <<lock, observer, lenient, registrations, ran, crashes>>
    PROVE  DInv'
<1>1. /\ TypeOK /\ Apart /\ Distinct /\ ForItsType
      /\ \A d \in Client, u \in Slot : Shape(d, u)
      /\ \A m \in Message : DeliveryLeft(m)
  BY DEF DInv
<1>2. /\ call' \in [Client -> [Slot -> {Null} \cup Call]]
      /\ call'[c][s] = k
      /\ \A d \in Client, u \in Slot : d # c \/ u # s => call'[d][u] = call[d][u]
  BY <1>1, CallAssigned
<1>3. TypeOK'
  BY <1>1, <1>2 DEF TypeOK
<1>4. ASSUME NEW m \in Message PROVE DeliveryLeft(m)'
  BY <1>1 DEF DeliveryLeft
<1>5. ASSUME NEW d \in Client, NEW u \in Slot, d # c \/ u # s
      PROVE  call'[d][u] = call[d][u] /\ Handlers(d, u)' = Handlers(d, u)
  BY <1>2, <1>5 DEF Handlers
<1>6. ASSUME NEW d \in Client, NEW u \in Slot PROVE Shape(d, u)'
  <2>1. CASE d = c /\ u = s
    BY <2>1
  <2>2. CASE d # c \/ u # s
    BY <1>1, <1>5, <2>2 DEF Shape
  <2>3. QED
    BY <2>1, <2>2
<1>7. Apart'
  BY <1>1, ApartStays
<1>8. Distinct' /\ ForItsType'
  BY <1>1 DEF Distinct, ForItsType
<1>9. ASSUME NEW m \in Message, NEW h \in Handler PROVE Counted(m, h)' /\ Suits(m, h)'
  <2>1. ASSUME NEW d \in Client, NEW u \in Slot, NEW l \in 1..lock[m], Waits(d, u, m, h, l)'
        PROVE  Waits(d, u, m, h, l)
    <3>1. CASE d = c /\ u = s
      BY <1>2, <2>1, <3>1 DEF Waits
    <3>2. CASE d # c \/ u # s
      BY <1>5, <2>1, <3>2 DEF Waits, Pending
    <3>3. QED
      BY <3>1, <3>2
  <2>2. lock'[m] >= lock[m] /\ ran[m][h] \in Nat
    BY <1>1 DEF TypeOK
  <2>3. /\ Cardinality(Spent(m, h)) \in Nat
        /\ Cardinality(Spent(m, h)') \in Nat
        /\ Cardinality(Spent(m, h)) <= Cardinality(Spent(m, h)')
    BY <1>1, <1>3, <2>1, <2>2, SpentStays
  <2>4. Counted(m, h) /\ Suits(m, h)
    BY DEF DInv
  <2>5. QED
    BY <2>2, <2>3, <2>4 DEF Counted, Suits
<1>10. QED
  BY <1>3, <1>4, <1>6, <1>7, <1>8, <1>9 DEF DInv
-----------------------------------------------------------------------------
LEMMA DeliveryInit == Init => DInv
<1> SUFFICES ASSUME Init PROVE DInv
  OBVIOUS
<1>1. TypeOK
  BY InitOK DEF IInv
<1>2. \A m \in Message : DeliveryLeft(m)
  BY ObserverAssumption DEF Init, DeliveryLeft
<1>3. \A c \in Client, s \in Slot : call[c][s] = Null
  BY DEF Init, NoCalls
<1>4. (\A c \in Client, s \in Slot : Shape(c, s)) /\ Apart
  BY <1>3 DEF Shape, Apart
<1>5. Distinct /\ ForItsType
  BY DEF Init, Distinct, ForItsType, NoHandlers
<1>6. ASSUME NEW m \in Message, NEW h \in Handler PROVE Counted(m, h) /\ Suits(m, h)
  <2>1. ran[m][h] = 0
    BY DEF Init
  <2>2. Cardinality(Spent(m, h)) \in Nat
    BY <1>1, SpentIsFinite
  <2>3. QED
    BY <2>1, <2>2 DEF Counted, Suits
<1>7. QED
  BY <1>1, <1>2, <1>4, <1>5, <1>6 DEF DInv

\* A call that ends, and settles its message or not.
LEMMA ReturnStep ==
    ASSUME DInv, NEW c \in Client, NEW s \in Slot, call[c][s] # Null,
           Return(c, s),
           place' \in [Message -> Place],
           \A m \in Message : place'[m] # place[m] =>
               place[m] = "locked" /\ place'[m] \in {"completed", Released(m)},
           UNCHANGED <<lock, observer, lenient, registrations, ran, crashes>>
    PROVE  DInv'
<1>1. TypeOK
  BY DEF DInv
<1>2. /\ call' \in [Client -> [Slot -> {Null} \cup Call]]
      /\ \A d \in Client, u \in Slot : call'[d][u] = call[d][u] \/ call'[d][u] = Null
  BY <1>1 DEF TypeOK, Return
<1>3. TypeOK'
  BY <1>1, <1>2 DEF TypeOK
<1>4. QED
  BY <1>2, <1>3, QuietStep

LEMMA ThrowDelivers ==
    ASSUME DInv, NEW c \in Client, NEW s \in Slot, call[c][s] # Null, Throw(c, s),
           UNCHANGED <<lock, observer, lenient, registrations, ran, crashes>>
    PROVE  DInv'
<1>1. TypeOK
  BY DEF DInv
<1>2. /\ Return(c, s)
      /\ place' \in [Message -> Place]
      /\ \A m \in Message : place'[m] # place[m] =>
            place[m] = "locked" /\ place'[m] = Released(m)
  BY <1>1, ThrowChanges DEF Throw
<1>3. QED
  BY <1>2, ReturnStep

\* A call that moves to another line; from the handlers only on to their end.
LEMMA GotoDelivers ==
    ASSUME DInv, NEW c \in Client, NEW s \in Slot, call[c][s] # Null,
           NEW where \in {"dispatch", "next", "log"}, Goto(c, s, where),
           where = "dispatch" => call[c][s].at = "complete",
           where = "next" => call[c][s].at = "running",
           place' \in [Message -> Place],
           \A m \in Message : place'[m] # place[m] =>
               place[m] = "locked" /\ place'[m] = "completed",
           UNCHANGED <<lock, observer, lenient, registrations, ran, crashes>>
    PROVE  DInv'
<1> DEFINE k == [call[c][s] EXCEPT !.at = where]
<1>1. TypeOK /\ Shape(c, s)
  BY DEF DInv
<1>2. call[c][s] \in Call
  BY <1>1, CallTypes
<1>3. /\ k \in Call /\ k.at = where
      /\ k.message = call[c][s].message /\ k.lock = call[c][s].lock
      /\ k.next = call[c][s].next /\ k.count = call[c][s].count
      /\ k.parsed = call[c][s].parsed
  BY <1>2 DEF Call
<1>4. call' = [call EXCEPT ![c][s] = k]
  BY <1>1 DEF Goto, TypeOK
<1> HIDE DEF k
<1>5. call'[c][s] = k
  BY <1>1, <1>3, <1>4, CallAssigned
<1>6. Handlers(c, s)' = Handlers(c, s)
  BY <1>3, <1>5 DEF Handlers
<1>7. Shape(c, s)'
  BY <1>1, <1>3, <1>5, <1>6 DEF Shape
<1>8. ASSUME NEW h \in Handler PROVE Pending(c, s, h)' => Pending(c, s, h)
  BY <1>3, <1>5, <1>6 DEF Pending
<1>9. QED
  BY <1>3, <1>4, <1>7, <1>8, MovingStep

LEMMA ParseDelivers ==
    ASSUME DInv, NEW c \in Client, NEW s \in Slot, Parse(c, s)
    PROVE  DInv'
<1> DEFINE m == call[c][s].message
           p == ContentType[m] # Null /\ m \notin Malformed
           w == IF ReceiveOnce /\ ~Unreadable(c, m) THEN "complete" ELSE "dispatch"
           k == [call[c][s] EXCEPT !.parsed = p, !.at = w]
<1>1. TypeOK /\ Shape(c, s) /\ call[c][s] # Null /\ call[c][s].at = "parse"
  BY DEF DInv, Parse, At
<1>2. call[c][s] \in Call /\ m \in Message
  BY <1>1, CallTypes
<1>3. p \in BOOLEAN /\ w \in {"complete", "dispatch"}
  OBVIOUS
<1>4. call' = [call EXCEPT ![c][s] = k]
  BY <1>1 DEF Parse, TypeOK
<1>5. p => ContentType[m] \in Type /\ m \notin Malformed
  BY <1>2, ObserverAssumption
<1> HIDE DEF p, w
<1>6. /\ k \in Call /\ k.at = w /\ k.parsed = p
      /\ k.message = m /\ k.lock = call[c][s].lock /\ k.next = call[c][s].next
  BY <1>2, <1>3 DEF Call
<1> HIDE DEF k
<1>7. call'[c][s] = k
  BY <1>1, <1>4, <1>6, CallAssigned
<1>8. Shape(c, s)'
  BY <1>1, <1>3, <1>5, <1>6, <1>7 DEF Shape, Parse
<1>9. ASSUME NEW h \in Handler PROVE Pending(c, s, h)
  BY <1>1 DEF Pending
<1>10. QED
  BY <1>1, <1>4, <1>6, <1>8, <1>9, MovingStep DEF Parse, TypeOK

LEMMA CompleteAsyncDelivers ==
    ASSUME DInv, NEW c \in Client, NEW s \in Slot, CompleteAsync(c, s)
    PROVE  DInv'
<1>1. TypeOK /\ call[c][s] # Null /\ call[c][s].at = "complete"
  BY DEF DInv, CompleteAsync, At
<1>2. CASE Throw(c, s)
  BY <1>1, <1>2, ThrowDelivers DEF CompleteAsync
<1>3. CASE /\ HoldsLock(c, s)
           /\ place' = [place EXCEPT ![call[c][s].message] = "completed"]
           /\ Goto(c, s, "dispatch") \/ Return(c, s)
  <2>1. /\ place' \in [Message -> Place]
        /\ \A m \in Message : place'[m] # place[m] =>
              place[m] = "locked" /\ place'[m] = "completed"
    <3>1. place[call[c][s].message] = "locked"
      BY <1>3 DEF HoldsLock
    <3>2. QED
      BY <1>1, <1>3, <3>1, CallTypes DEF TypeOK, Place
  <2>2. UNCHANGED <<lock, observer, lenient, registrations, ran, crashes>>
    BY DEF CompleteAsync
  <2>3. CASE Goto(c, s, "dispatch")
    BY <1>1, <2>1, <2>2, <2>3, GotoDelivers
  <2>4. CASE Return(c, s)
    BY <1>1, <2>1, <2>2, <2>4, ReturnStep
  <2>5. QED
    BY <1>3, <2>3, <2>4
<1>4. QED
  BY <1>2, <1>3 DEF CompleteAsync

LEMMA DispatchDelivers ==
    ASSUME DInv, NEW c \in Client, NEW s \in Slot, Dispatch(c, s)
    PROVE  DInv'
<1> DEFINE n == Len(Handlers(c, s))
           k == [call[c][s] EXCEPT !.count = n, !.at = "next"]
<1>1. TypeOK /\ Shape(c, s) /\ call[c][s] # Null /\ call[c][s].at = "dispatch"
  BY DEF DInv, Dispatch, At
<1>2. /\ place' \in [Message -> Place] /\ place' = place
      /\ UNCHANGED <<lock, observer, lenient, registrations, ran, crashes>>
  BY <1>1 DEF Dispatch, TypeOK
<1>3. CASE Goto(c, s, "log")
  BY <1>1, <1>2, <1>3, GotoDelivers
<1>4. CASE /\ call[c][s].parsed
           /\ call' = [call EXCEPT ![c][s].count = n, ![c][s].at = "next"]
  <2>1. call[c][s] \in Call /\ ContentType[call[c][s].message] \in Type
    BY <1>1, <1>4, CallTypes DEF Shape
  <2>2. n \in Nat
    BY <1>1, <2>1, HandlersType
  <2>3. call' = [call EXCEPT ![c][s] = k]
    BY <1>1, <1>4 DEF TypeOK
  <2> HIDE DEF n
  <2>4. /\ k \in Call /\ k.at = "next" /\ k.count = n /\ k.parsed = call[c][s].parsed
        /\ k.message = call[c][s].message /\ k.lock = call[c][s].lock
        /\ k.next = call[c][s].next
    BY <2>1, <2>2 DEF Call
  <2> HIDE DEF k
  <2>5. call'[c][s] = k
    BY <1>1, <2>3, <2>4, CallAssigned
  <2>6. Handlers(c, s)' = Handlers(c, s)
    BY <1>2, <2>4, <2>5 DEF Handlers
  <2>7. n <= Len(Handlers(c, s))'
    BY <2>2, <2>6 DEF n
  <2>8. Shape(c, s)'
    BY <1>1, <1>2, <1>4, <2>4, <2>5, <2>7 DEF Shape
  <2>9. ASSUME NEW h \in Handler PROVE Pending(c, s, h)
    BY <1>1 DEF Pending
  <2>10. QED
    BY <1>1, <1>2, <2>3, <2>4, <2>8, <2>9, MovingStep
<1>5. QED
  BY <1>3, <1>4 DEF Dispatch

LEMMA HandlerEndsDelivers ==
    ASSUME DInv, NEW c \in Client, NEW s \in Slot, HandlerEnds(c, s)
    PROVE  DInv'
<1>1. TypeOK /\ call[c][s] # Null /\ call[c][s].at = "running"
  BY DEF DInv, HandlerEnds, At
<1>2. CASE Goto(c, s, "next") /\ UNCHANGED place
  BY <1>1, <1>2, GotoDelivers DEF HandlerEnds, TypeOK
<1>3. CASE Throw(c, s)
  BY <1>1, <1>3, ThrowDelivers DEF HandlerEnds
<1>4. QED
  BY <1>2, <1>3 DEF HandlerEnds

LEMMA NotifyLogDelivers ==
    ASSUME DInv, NEW c \in Client, NEW s \in Slot, NotifyLog(c, s)
    PROVE  DInv'
<1>1. TypeOK /\ call[c][s] # Null
  BY DEF DInv, NotifyLog, At
<1>2. CASE Return(c, s) /\ UNCHANGED place
  BY <1>1, <1>2, ReturnStep DEF NotifyLog, TypeOK
<1>3. CASE Throw(c, s)
  BY <1>1, <1>3, ThrowDelivers DEF NotifyLog
<1>4. QED
  BY <1>2, <1>3 DEF NotifyLog

\* The call gives m to h, its n-th handler, in delivery l.
Gives(c, s, m, n, h, l) ==
    /\ At(c, s, "next")
    /\ m = call[c][s].message
    /\ n = call[c][s].next
    /\ h = Handlers(c, s)[n]
    /\ l = call[c][s].lock
    /\ Len(Handlers(c, s)) = call[c][s].count
    /\ n <= call[c][s].count
    /\ ran' = [ran EXCEPT ![m][h] = @ + 1]
    /\ call' = [call EXCEPT ![c][s].at = "running", ![c][s].next = @ + 1]

\* The handler that is called was given nothing by this delivery, and is not
\* given anything by it again.
LEMMA GivenStep ==
    ASSUME DInv, NEW c \in Client, NEW s \in Slot,
           NEW m, NEW n, NEW h, NEW l, Gives(c, s, m, n, h, l),
           UNCHANGED <<place, lock, observer, lenient, registrations, crashes>>
    PROVE  DInv'
<1> DEFINE k == [call[c][s] EXCEPT !.at = "running", !.next = n + 1]
<1>1. /\ TypeOK /\ Apart /\ Distinct /\ ForItsType /\ Shape(c, s)
      /\ \A d \in Client, u \in Slot : Shape(d, u)
      /\ \A i \in Message : DeliveryLeft(i)
      /\ call[c][s] # Null /\ call[c][s].at = "next"
      /\ call[c][s].message = m /\ call[c][s].next = n /\ call[c][s].lock = l
  BY DEF DInv, At, Gives
<1>2. /\ call[c][s] \in Call /\ m \in Message /\ n \in Nat /\ n >= 1
      /\ call[c][s].parsed /\ ContentType[m] \in Type /\ m \notin Malformed
      /\ l \in 1..lock[m]
  BY <1>1, CallTypes DEF Shape
<1>3. Handlers(c, s) \in Seq(Handler)
  BY <1>1, <1>2, HandlersType
<1>4. /\ n \in 1..Len(Handlers(c, s)) /\ h \in Handler /\ h = Handlers(c, s)[n]
      /\ call[c][s].count = Len(Handlers(c, s))
  BY <1>2, <1>3 DEF Gives
<1>5. Accepts[h] = ContentType[m]
  <2>1. Handlers(c, s) = registrations[c][ContentType[m]]
    BY <1>1 DEF Handlers
  <2>2. /\ n \in 1..Len(registrations[c][ContentType[m]])
        /\ h = registrations[c][ContentType[m]][n]
    BY <1>4, <2>1
  <2>3. \A i \in 1..Len(registrations[c][ContentType[m]]) :
           Accepts[registrations[c][ContentType[m]][i]] = ContentType[m]
    BY <1>1, <1>2 DEF ForItsType
  <2>4. QED
    BY <2>2, <2>3
<1>6. call' = [call EXCEPT ![c][s] = k]
  BY <1>1 DEF TypeOK, Gives
<1>7. /\ k \in Call /\ k # Null
      /\ k.at = "running" /\ k.next = n + 1 /\ k.message = m
      /\ k.lock = l /\ k.parsed = call[c][s].parsed
      /\ k.count = call[c][s].count
  <2>1. n + 1 \in Nat
    BY <1>2
  <2>2. k \in Call
    BY <1>2, <2>1 DEF Call
  <2>3. QED
    BY <1>1, <1>2, <2>2, NullIsNoCall DEF Call
<1> HIDE DEF k
<1>8. /\ ran' \in [Message -> [Handler -> Nat]]
      /\ ran'[m][h] = ran[m][h] + 1 /\ ran[m][h] \in Nat
      /\ \A i \in Message, g \in Handler : i # m \/ g # h => ran'[i][g] = ran[i][g]
  BY <1>1, <1>2, <1>4 DEF TypeOK, Gives
<1>9. /\ call' \in [Client -> [Slot -> {Null} \cup Call]]
      /\ call'[c][s] = k
      /\ \A d \in Client, u \in Slot : d # c \/ u # s => call'[d][u] = call[d][u]
  BY <1>1, <1>6, <1>7, CallAssigned
<1>10. TypeOK'
  BY <1>1, <1>8, <1>9 DEF TypeOK
<1>11. Handlers(c, s)' = Handlers(c, s)
  BY <1>1, <1>7, <1>9 DEF Handlers
<1>12. ASSUME NEW d \in Client, NEW u \in Slot, d # c \/ u # s
       PROVE  call'[d][u] = call[d][u] /\ Handlers(d, u)' = Handlers(d, u)
  BY <1>9, <1>12 DEF Handlers
<1>13. ASSUME NEW d \in Client, NEW u \in Slot PROVE Shape(d, u)'
  <2>1. CASE d = c /\ u = s
    <3>1. /\ 1 <= l /\ l <= lock[m] /\ n + 1 >= 1
      BY <1>1, <1>2 DEF TypeOK
    <3>2. call[c][s].count <= Len(Handlers(c, s))'
      BY <1>1, <1>11 DEF Shape
    <3>3. /\ call'[c][s].message = m /\ call'[c][s].lock = l /\ call'[c][s].next = n + 1
          /\ call'[c][s].count = call[c][s].count /\ call'[c][s].parsed
      BY <1>2, <1>7, <1>9
    <3>4. QED
      BY <1>2, <2>1, <3>1, <3>2, <3>3 DEF Shape
  <2>2. CASE d # c \/ u # s
    BY <1>1, <1>12, <2>2 DEF Shape
  <2>3. QED
    BY <2>1, <2>2
<1>14. Apart'
  <2>1. /\ k \in {Null} \cup Call
        /\ k.message = call[c][s].message /\ k.lock = call[c][s].lock
    BY <1>1, <1>7
  <2>2. QED
    BY <1>1, <1>6, <2>1, ApartStays
<1>15. Distinct' /\ ForItsType' /\ \A i \in Message : DeliveryLeft(i)'
  BY <1>1 DEF Distinct, ForItsType, DeliveryLeft
<1>16. ASSUME NEW i \in Message, NEW g \in Handler,
              NEW d \in Client, NEW u \in Slot, NEW e \in 1..lock[i], Waits(d, u, i, g, e)'
       PROVE  Waits(d, u, i, g, e)
  <2>1. CASE d = c /\ u = s
    <3>1. i = m /\ e = l /\ Pending(c, s, g)'
      BY <1>7, <1>9, <1>16, <2>1 DEF Waits
    <3>2. Pending(c, s, g)
      BY <1>1, <1>2, <1>7, <1>9, <1>11, <3>1 DEF Pending
    <3>3. QED
      BY <1>1, <2>1, <3>1, <3>2 DEF Waits
  <2>2. CASE d # c \/ u # s
    BY <1>12, <1>16, <2>2 DEF Waits, Pending
  <2>3. QED
    BY <2>1, <2>2
<1>17. ASSUME NEW i \in Message, NEW g \in Handler
       PROVE  /\ Spent(i, g) \subseteq Spent(i, g)'
              /\ IsFiniteSet(Spent(i, g)')
              /\ Cardinality(Spent(i, g)) \in Nat
              /\ Cardinality(Spent(i, g)') \in Nat
              /\ Cardinality(Spent(i, g)) <= Cardinality(Spent(i, g)')
  <2>1. lock'[i] >= lock[i]
    BY <1>1 DEF TypeOK
  <2>2. QED
    BY <1>1, <1>10, <1>16, <2>1, SpentStays
<1>18. l \notin Spent(m, h)
  <2>1. Pending(c, s, h)
    BY <1>1, <1>4 DEF Pending
  <2>2. Waits(c, s, m, h, l)
    BY <1>1, <2>1 DEF Waits
  <2>3. QED
    BY <2>2 DEF Spent
<1>19. l \in Spent(m, h)'
  <2>1. ASSUME NEW d \in Client, NEW u \in Slot, Waits(d, u, m, h, l)'
        PROVE  FALSE
    <3>1. d = c /\ u = s
      <4>1. ASSUME d # c \/ u # s PROVE FALSE
        <5>1. /\ call[d][u] # Null
              /\ call[d][u].message = call[c][s].message
              /\ call[d][u].lock = call[c][s].lock
          BY <1>1, <1>12, <2>1, <4>1 DEF Waits
        <5>2. QED
          BY <1>1, <4>1, <5>1 DEF Apart
      <4>2. QED
        BY <4>1
    <3>2. Pending(c, s, h)'
      BY <2>1, <3>1 DEF Waits
    <3>3. PICK i \in 1..Len(Handlers(c, s)) : i >= n + 1 /\ Handlers(c, s)[i] = h
      BY <1>7, <1>9, <1>11, <3>2 DEF Pending
    <3>4. i = n
      BY <1>1, <1>2, <1>4, <3>3 DEF Distinct, Handlers
    <3>5. QED
      BY <1>2, <3>3, <3>4
  <2>2. lock'[m] = lock[m]
    OBVIOUS
  <2>3. QED
    BY <1>2, <2>1, <2>2 DEF Spent
<1>20. Cardinality(Spent(m, h)) + 1 <= Cardinality(Spent(m, h)')
  <2>1. IsFiniteSet(Spent(m, h))
    BY <1>1, <1>2, SpentIsFinite
  <2>2. Cardinality(Spent(m, h) \cup {l}) = Cardinality(Spent(m, h)) + 1
    BY <1>18, <2>1, FS_AddElement
  <2>3. Spent(m, h) \cup {l} \in SUBSET Spent(m, h)'
    BY <1>2, <1>4, <1>17, <1>19
  <2>4. Cardinality(Spent(m, h) \cup {l}) <= Cardinality(Spent(m, h)')
    BY <1>2, <1>4, <1>17, <2>3, FS_Subset
  <2>5. QED
    BY <2>2, <2>4
<1>21. ASSUME NEW i \in Message, NEW g \in Handler PROVE Counted(i, g)' /\ Suits(i, g)'
  <2>1. Counted(i, g) /\ Suits(i, g) /\ Counted(m, h)
    BY <1>2, <1>4 DEF DInv
  <2>2. CASE i = m /\ g = h
    <3>1. Counted(m, h)'
      <4>1. ran[m][h] <= Cardinality(Spent(m, h))
        BY <2>1 DEF Counted
      <4>2. Cardinality(Spent(m, h)) \in Nat /\ Cardinality(Spent(m, h)') \in Nat
        BY <1>2, <1>4, <1>17
      <4>3. ran'[m][h] <= Cardinality(Spent(m, h)')
        <5>1. ran'[m][h] = ran[m][h] + 1 /\ ran[m][h] \in Nat
          BY <1>8
        <5>2. \A a, b, d \in Nat : a <= b /\ b + 1 <= d => a + 1 <= d
          OBVIOUS
        <5>3. ran[m][h] + 1 <= Cardinality(Spent(m, h)')
          BY <1>20, <4>1, <4>2, <5>1, <5>2
        <5>4. QED
          BY <5>1, <5>3
      <4>4. QED
        BY <4>3 DEF Counted
    <3>2. Suits(m, h)'
      BY <1>2, <1>5 DEF Suits
    <3>3. QED
      BY <2>2, <3>1, <3>2
  <2>3. CASE i # m \/ g # h
    <3>1. ran'[i][g] = ran[i][g] /\ ran[i][g] \in Nat
      BY <1>1, <1>8, <2>3 DEF TypeOK
    <3>2. QED
      BY <1>17, <2>1, <3>1 DEF Counted, Suits
  <2>4. QED
    BY <2>2, <2>3
<1>22. QED
  BY <1>10, <1>13, <1>14, <1>15, <1>21 DEF DInv

LEMMA NextHandlerDelivers ==
    ASSUME DInv, NEW c \in Client, NEW s \in Slot, NextHandler(c, s)
    PROVE  DInv'
<1>1. TypeOK /\ call[c][s] # Null /\ At(c, s, "next")
  BY DEF DInv, NextHandler, At
<1>2. CASE Throw(c, s) /\ UNCHANGED ran
  BY <1>1, <1>2, ThrowDelivers DEF NextHandler
<1>3. CASE Goto(c, s, "log") /\ UNCHANGED <<place, ran>>
  BY <1>1, <1>3, GotoDelivers DEF NextHandler, TypeOK
<1>4. CASE /\ Len(Handlers(c, s)) = call[c][s].count
           /\ call[c][s].next <= call[c][s].count
           /\ ran' = [ran EXCEPT ![call[c][s].message][Handlers(c, s)[call[c][s].next]] = @ + 1]
           /\ call' = [call EXCEPT ![c][s].at = "running", ![c][s].next = @ + 1]
           /\ UNCHANGED place
  <2> DEFINE n == call[c][s].next
             h == Handlers(c, s)[n]
  <2>1. Gives(c, s, call[c][s].message, n, h, call[c][s].lock)
    BY <1>1, <1>4 DEF Gives
  <2>2. UNCHANGED <<place, lock, observer, lenient, registrations, crashes>>
    BY <1>4 DEF NextHandler
  <2> HIDE DEF n, h
  <2>3. QED
    BY <2>1, <2>2, GivenStep
<1>5. QED
  BY <1>2, <1>3, <1>4 DEF NextHandler

LEMMA ProcessDelivers ==
    ASSUME DInv, NEW c \in Client, NEW s \in Slot, Process(c, s)
    PROVE  DInv'
BY ParseDelivers, CompleteAsyncDelivers, DispatchDelivers, NextHandlerDelivers,
   HandlerEndsDelivers, NotifyLogDelivers DEF Process
-----------------------------------------------------------------------------
LEMMA BrokerDelivers ==
    ASSUME DInv, NEW m \in Message, LockExpires(m) \/ SendFromElsewhere(m)
    PROVE  DInv'
<1>1. TypeOK
  BY DEF DInv
<1>2. CASE LockExpires(m)
  <2>1. /\ TypeOK'
        /\ \A i \in Message : place'[i] # place[i] =>
              place[i] = "locked" /\ place'[i] = Released(i)
    BY <1>1, <1>2 DEF TypeOK, LockExpires, Released, Place
  <2>2. QED
    BY <1>2, <2>1, QuietStep DEF LockExpires
<1>3. CASE SendFromElsewhere(m)
  <2>1. /\ TypeOK'
        /\ \A i \in Message : place'[i] # place[i] =>
              place[i] = "unsent" /\ place'[i] = "ready"
    BY <1>1, <1>3 DEF TypeOK, SendFromElsewhere, Place
  <2>2. QED
    BY <1>3, <2>1, QuietStep DEF SendFromElsewhere
<1>4. QED
  BY <1>2, <1>3

LEMMA SendDelivers ==
    ASSUME DInv, NEW c \in Client, NEW m \in Message, Send(c, m)
    PROVE  DInv'
<1>1. TypeOK
  BY DEF DInv
<1>2. /\ TypeOK'
      /\ \A i \in Message : place'[i] # place[i] =>
            place[i] = "unsent" /\ place'[i] = "ready"
  BY <1>1 DEF TypeOK, Send, Place
<1>3. QED
  BY <1>2, QuietStep DEF Send

LEMMA OpenOrCloseDelivers ==
    ASSUME DInv, NEW c \in Client, Open(c) \/ Close(c)
    PROVE  DInv'
<1>1. TypeOK
  BY DEF DInv
<1>2. CASE Open(c)
  <2>1. TypeOK'
    BY <1>1, <1>2 DEF TypeOK, Open
  <2>2. QED
    BY <1>2, <2>1, QuietStep DEF Open
<1>3. CASE Close(c)
  <2>1. crashes' \in 0..MaxCrash
    BY <1>1, <1>3, ObserverAssumption DEF TypeOK, Close
  <2>2. TypeOK'
    BY <1>1, <1>3, <2>1 DEF TypeOK, Close
  <2>3. QED
    BY <1>3, <2>2, QuietStep DEF Close
<1>4. QED
  BY <1>2, <1>3

LEMMA CrashDelivers ==
    ASSUME DInv, NEW c \in Client, Crash(c)
    PROVE  DInv'
<1>1. TypeOK
  BY DEF DInv
<1>2. TypeOK'
  BY <1>1, ObserverAssumption DEF TypeOK, Crash, NoHandlers, NoCalls
<1>3. /\ \A s \in Slot : call'[c][s] = Null
      /\ \A d \in Client \ {c} : /\ call'[d] = call[d]
                                 /\ registrations'[d] = registrations[d]
      /\ registrations'[c] = NoHandlers
      /\ UNCHANGED <<place, lock, ran>>
  BY <1>1 DEF TypeOK, Crash, NoCalls
<1>4. ASSUME NEW d \in Client
      PROVE  /\ \/ registrations'[d] = registrations[d]
                \/ registrations'[d] = NoHandlers /\ \A s \in Slot : call'[d][s] = Null
             /\ \A s \in Slot : call'[d][s] = call[d][s] \/ call'[d][s] = Null
  <2>1. CASE d = c
    BY <1>3, <2>1
  <2>2. CASE d # c
    BY <1>3, <2>2
  <2>3. QED
    BY <2>1, <2>2
<1>5. QED
  BY <1>2, <1>3, <1>4, QuietStep

\* A list that grows behind a call's back makes it throw at its next step: the
\* call does not wait for the new handler.
LEMMA RegisterDelivers ==
    ASSUME DInv, NEW c \in Client, NEW h \in Handler, RegisterForNotificationOf(c, h)
    PROVE  DInv'
<1> DEFINE t == Accepts[h]
           list == registrations[c][t]
<1>1. /\ TypeOK /\ Apart /\ Distinct /\ ForItsType
      /\ \A d \in Client, u \in Slot : Shape(d, u)
      /\ \A m \in Message : DeliveryLeft(m)
  BY DEF DInv
<1>2. t \in Type /\ list \in Seq(Handler)
  BY <1>1, ObserverAssumption DEF TypeOK
<1>3. /\ registrations' \in [Client -> [Type -> Seq(Handler)]]
      /\ registrations'[c][t] = Append(list, h)
      /\ \A d \in Client, v \in Type :
            d # c \/ v # t => registrations'[d][v] = registrations[d][v]
  BY <1>1, <1>2 DEF TypeOK, RegisterForNotificationOf
<1>4. /\ Len(list) \in Nat
      /\ Len(Append(list, h)) = Len(list) + 1
      /\ \A i \in 1..Len(list) : Append(list, h)[i] = list[i]
      /\ Append(list, h)[Len(list) + 1] = h
  BY <1>2
<1>5. \A i \in 1..Len(list) : list[i] # h
  BY <1>2 DEF RegisterForNotificationOf
<1>6. UNCHANGED <<place, lock, observer, lenient, call, ran, crashes>>
  BY DEF RegisterForNotificationOf
<1>7. TypeOK'
  BY <1>1, <1>3, <1>6 DEF TypeOK
<1>8. Distinct' /\ ForItsType'
  <2> SUFFICES ASSUME NEW d \in Client, NEW v \in Type
               PROVE  /\ \A i, j \in 1..Len(registrations'[d][v]) :
                            registrations'[d][v][i] = registrations'[d][v][j] => i = j
                      /\ \A i \in 1..Len(registrations'[d][v]) :
                            Accepts[registrations'[d][v][i]] = v
    BY DEF Distinct, ForItsType
  <2>1. CASE d = c /\ v = t
    <3>1. /\ \A a, b \in 1..Len(list) : list[a] = list[b] => a = b
          /\ \A a \in 1..Len(list) : Accepts[list[a]] = t
      BY <1>1, <1>2 DEF Distinct, ForItsType
    <3>2. registrations'[d][v] = Append(list, h)
      BY <1>3, <2>1
    <3> HIDE DEF list
    <3>3. \A i, j \in 1..Len(Append(list, h)) : Append(list, h)[i] = Append(list, h)[j] => i = j
      BY <1>4, <1>5, <3>1
    <3>4. \A i \in 1..Len(Append(list, h)) : Accepts[Append(list, h)[i]] = t
      BY <1>4, <3>1
    <3>5. QED
      BY <2>1, <3>2, <3>3, <3>4
  <2>2. CASE ~(d = c /\ v = t)
    BY <1>1, <1>3, <2>2 DEF Distinct, ForItsType
  <2>3. QED
    BY <2>1, <2>2
<1>9. ASSUME NEW d \in Client, NEW u \in Slot,
             call[d][u] # Null, ContentType[call[d][u].message] \in Type
      PROVE  \/ Handlers(d, u)' = Handlers(d, u)
             \/ /\ Len(Handlers(d, u)) \in Nat
                /\ Len(Handlers(d, u))' = Len(Handlers(d, u)) + 1
  <2>1. CASE d = c /\ ContentType[call[d][u].message] = t
    <3>1. Handlers(d, u) = list /\ Handlers(d, u)' = Append(list, h)
      BY <1>3, <1>6, <2>1 DEF Handlers
    <3>2. QED
      BY <1>4, <3>1
  <2>2. CASE ~(d = c /\ ContentType[call[d][u].message] = t)
    BY <1>3, <1>6, <1>9, <2>2 DEF Handlers
  <2>3. QED
    BY <2>1, <2>2
<1>10. ASSUME NEW d \in Client, NEW u \in Slot PROVE Shape(d, u)'
  <2> SUFFICES ASSUME call[d][u] # Null PROVE Shape(d, u)'
    BY <1>6 DEF Shape
  <2>1. call[d][u].count \in Nat /\ Shape(d, u)
    BY <1>1, CallTypes
  <2>2. call[d][u].at \in {"next", "running"} => call[d][u].count <= Len(Handlers(d, u))'
    <3> SUFFICES ASSUME call[d][u].at \in {"next", "running"}
                 PROVE  call[d][u].count <= Len(Handlers(d, u))'
      OBVIOUS
    <3>1. ContentType[call[d][u].message] \in Type /\ call[d][u].count <= Len(Handlers(d, u))
      BY <2>1 DEF Shape
    <3>2. CASE Handlers(d, u)' = Handlers(d, u)
      BY <3>1, <3>2
    <3>3. CASE /\ Len(Handlers(d, u)) \in Nat
               /\ Len(Handlers(d, u))' = Len(Handlers(d, u)) + 1
      BY <2>1, <3>1, <3>3
    <3>4. QED
      BY <1>9, <3>1, <3>2, <3>3
  <2>3. QED
    BY <1>6, <2>1, <2>2 DEF Shape
<1>11. Apart' /\ \A m \in Message : DeliveryLeft(m)'
  BY <1>1, <1>6 DEF Apart, DeliveryLeft
<1>12. ASSUME NEW m \in Message, NEW g \in Handler PROVE Counted(m, g)' /\ Suits(m, g)'
  <2>1. ASSUME NEW d \in Client, NEW u \in Slot, NEW l \in 1..lock[m], Waits(d, u, m, g, l)'
        PROVE  Waits(d, u, m, g, l)
    <3>1. /\ call[d][u] # Null /\ call[d][u].message = m /\ call[d][u].lock = l
          /\ Pending(d, u, g)'
      BY <1>6, <2>1 DEF Waits
    <3>2. Pending(d, u, g)
      <4>1. CASE call[d][u].at \in {"parse", "complete", "dispatch"}
        BY <4>1 DEF Pending
      <4>2. CASE call[d][u].at \notin {"parse", "complete", "dispatch"}
        <5>1. /\ call[d][u].at \in {"next", "running"}
              /\ call[d][u].count = Len(Handlers(d, u))'
              /\ \E i \in 1..Len(Handlers(d, u))' :
                    i >= call[d][u].next /\ Handlers(d, u)'[i] = g
          BY <1>6, <3>1, <4>2 DEF Pending
        <5>2. /\ ContentType[call[d][u].message] \in Type
              /\ call[d][u].count <= Len(Handlers(d, u))
          BY <1>1, <3>1, <5>1 DEF Shape
        <5>3. Handlers(d, u)' = Handlers(d, u)
          BY <1>9, <3>1, <5>1, <5>2
        <5>4. QED
          BY <5>1, <5>3 DEF Pending
      <4>3. QED
        BY <4>1, <4>2
    <3>3. QED
      BY <3>1, <3>2 DEF Waits
  <2>2. lock'[m] >= lock[m] /\ ran[m][g] \in Nat
    BY <1>1, <1>6 DEF TypeOK
  <2>3. /\ Cardinality(Spent(m, g)) \in Nat
        /\ Cardinality(Spent(m, g)') \in Nat
        /\ Cardinality(Spent(m, g)) <= Cardinality(Spent(m, g)')
    BY <1>1, <1>7, <2>1, <2>2, SpentStays
  <2>4. Counted(m, g) /\ Suits(m, g)
    BY DEF DInv
  <2>5. QED
    BY <1>6, <2>2, <2>3, <2>4 DEF Counted, Suits
<1>13. QED
  BY <1>7, <1>8, <1>10, <1>11, <1>12 DEF DInv

\* A new delivery is not spent, and takes nothing from the old ones.
LEMMA ReceiveDelivers ==
    ASSUME DInv, NEW c \in Client, NEW s \in Slot, NEW m \in Message, Receive(c, s, m)
    PROVE  DInv'
<1> DEFINE k == [message |-> m, lock |-> lock[m] + 1, parsed |-> FALSE,
                 next |-> 1, count |-> 0, at |-> "parse"]
<1>1. /\ TypeOK /\ Apart /\ Distinct /\ ForItsType
      /\ \A d \in Client, u \in Slot : Shape(d, u)
      /\ \A i \in Message : DeliveryLeft(i)
  BY DEF DInv
<1>2. lock[m] \in Nat /\ MaxDelivery \in Nat /\ lock[m] < MaxDelivery
  BY <1>1, ObserverAssumption DEF TypeOK, DeliveryLeft, Receive
<1>3. k \in Call /\ call' = [call EXCEPT ![c][s] = k]
  BY <1>2 DEF Call, Receive
<1>4. /\ place[m] = "ready" /\ place'[m] = "locked" /\ lock'[m] = lock[m] + 1
      /\ \A i \in Message : i # m => place'[i] = place[i] /\ lock'[i] = lock[i]
      /\ UNCHANGED <<observer, lenient, registrations, ran, crashes>>
  BY <1>1 DEF TypeOK, Receive
<1>5. /\ call' \in [Client -> [Slot -> {Null} \cup Call]]
      /\ call'[c][s] = k
      /\ \A d \in Client, u \in Slot : d # c \/ u # s => call'[d][u] = call[d][u]
  BY <1>1, <1>3, CallAssigned
<1>6. k.message = m /\ k.lock = lock[m] + 1 /\ k.parsed = FALSE /\ k.next = 1 /\ k.at = "parse"
  OBVIOUS
<1> HIDE DEF k
<1>7. TypeOK'
  <2>1. place' \in [Message -> Place] /\ lock' \in [Message -> 0..MaxDelivery]
    BY <1>1, <1>2 DEF TypeOK, Receive, Place
  <2>2. QED
    BY <1>1, <1>4, <1>5, <2>1 DEF TypeOK
<1>8. ASSUME NEW i \in Message PROVE DeliveryLeft(i)'
  BY <1>1, <1>4 DEF DeliveryLeft
<1>9. ASSUME NEW i \in Message PROVE lock'[i] >= lock[i] /\ lock[i] \in Nat
  <2>1. lock[i] \in Nat
    BY <1>1 DEF TypeOK
  <2>2. CASE i = m
    BY <1>2, <1>4, <2>2
  <2>3. CASE i # m
    BY <1>4, <2>1, <2>3
  <2>4. QED
    BY <2>1, <2>2, <2>3
<1>10. ASSUME NEW d \in Client, NEW u \in Slot, d # c \/ u # s
       PROVE  call'[d][u] = call[d][u] /\ Handlers(d, u)' = Handlers(d, u)
  BY <1>4, <1>5, <1>10 DEF Handlers
<1>11. ASSUME NEW d \in Client, NEW u \in Slot PROVE Shape(d, u)'
  <2>1. CASE d = c /\ u = s
    BY <1>2, <1>4, <1>5, <1>6, <2>1 DEF Shape
  <2>2. CASE d # c \/ u # s
    <3> SUFFICES ASSUME call[d][u] # Null PROVE Shape(d, u)'
      BY <1>10, <2>2 DEF Shape
    <3>1. /\ Shape(d, u) /\ call[d][u].message \in Message /\ call[d][u].lock \in Nat
      BY <1>1, CallTypes
    <3>2. call[d][u].lock <= lock[call[d][u].message]
      BY <3>1 DEF Shape
    <3>3. /\ lock'[call[d][u].message] >= lock[call[d][u].message]
          /\ lock[call[d][u].message] \in Nat /\ lock'[call[d][u].message] \in Nat
      BY <1>7, <1>9, <3>1 DEF TypeOK
    <3>4. call[d][u].lock <= lock'[call[d][u].message]
      BY <3>1, <3>2, <3>3
    <3>5. QED
      BY <1>10, <2>2, <3>1, <3>4 DEF Shape
  <2>3. QED
    BY <2>1, <2>2
<1>12. Apart'
  <2>1. ASSUME NEW d \in Client, NEW u \in Slot, d # c \/ u # s, call'[d][u] # Null,
               call'[d][u].message = m
        PROVE  call'[d][u].lock # k.lock
    <3>1. call[d][u] # Null /\ call[d][u].message = m /\ call'[d][u].lock = call[d][u].lock
      BY <1>5, <2>1
    <3>2. call[d][u].lock <= lock[m] /\ call[d][u].lock \in Nat
      BY <1>1, <3>1, CallTypes DEF Shape
    <3>3. QED
      BY <1>2, <1>6, <3>1, <3>2
  <2>2. QED
    BY <1>1, <1>5, <1>6, <2>1 DEF Apart
<1>13. Distinct' /\ ForItsType'
  BY <1>1, <1>4 DEF Distinct, ForItsType
<1>14. ASSUME NEW i \in Message, NEW g \in Handler PROVE Counted(i, g)' /\ Suits(i, g)'
  <2>1. ASSUME NEW d \in Client, NEW u \in Slot, NEW l \in 1..lock[i], Waits(d, u, i, g, l)'
        PROVE  Waits(d, u, i, g, l)
    <3>1. CASE d = c /\ u = s
      <4>1. i = m /\ l = lock[m] + 1
        BY <1>5, <1>6, <2>1, <3>1 DEF Waits
      <4>2. QED
        BY <1>2, <4>1
    <3>2. CASE d # c \/ u # s
      BY <1>10, <2>1, <3>2 DEF Waits, Pending
    <3>3. QED
      BY <3>1, <3>2
  <2>2. lock'[i] >= lock[i] /\ ran[i][g] \in Nat
    BY <1>1, <1>9 DEF TypeOK
  <2>3. /\ Cardinality(Spent(i, g)) \in Nat
        /\ Cardinality(Spent(i, g)') \in Nat
        /\ Cardinality(Spent(i, g)) <= Cardinality(Spent(i, g)')
    BY <1>1, <1>7, <2>1, <2>2, SpentStays
  <2>4. Counted(i, g) /\ Suits(i, g)
    BY DEF DInv
  <2>5. QED
    BY <1>4, <2>2, <2>3, <2>4 DEF Counted, Suits
<1>15. QED
  BY <1>7, <1>8, <1>11, <1>12, <1>13, <1>14 DEF DInv

LEMMA NextDelivers == ASSUME DInv, [Next]_vars PROVE DInv'
<1>1. CASE UNCHANGED vars
  <2>1. TypeOK'
    BY <1>1 DEF DInv, TypeOK, vars
  <2>2. QED
    BY <1>1, <2>1, QuietStep DEF vars
<1>2. CASE Next
  BY <1>2, BrokerDelivers, SendDelivers, OpenOrCloseDelivers, CrashDelivers,
     RegisterDelivers, ReceiveDelivers, ProcessDelivers DEF Next
<1>3. QED
  BY <1>1, <1>2

\* On queues and topics, every variable keeps its type: no message is delivered
\* more than MaxDelivery times.
THEOREM DeliveryTypeCorrect == Spec => []TypeOK
<1>1. DInv => TypeOK
  BY DEF DInv
<1>2. QED
  BY <1>1, DeliveryInit, NextDelivers, PTL DEF Spec

\* On queues and topics, a message is given to a handler at most once for each
\* time it is delivered, and only to handlers of its type that can read it:
\* however many processes and slots have it at once, and whenever their
\* handlers are registered.
THEOREM HandledOnce == Spec => []HandledOncePerDelivery
<1>1. DInv => HandledOncePerDelivery
  <2> SUFFICES ASSUME DInv, NEW m \in Message, NEW h \in Handler
               PROVE  /\ ran[m][h] <= lock[m]
                      /\ ran[m][h] > 0 => Accepts[h] = ContentType[m] /\ m \notin Malformed
    BY DEF HandledOncePerDelivery
  <2>1. TypeOK /\ Counted(m, h) /\ Suits(m, h)
    BY DEF DInv
  <2>2. lock[m] \in Nat /\ ran[m][h] \in Nat
    BY <2>1, ObserverAssumption DEF TypeOK
  <2>3. IsFiniteSet(1..lock[m]) /\ Cardinality(1..lock[m]) = lock[m]
    <3>1. 1 \in Int /\ lock[m] \in Int
      BY <2>2
    <3>2. /\ IsFiniteSet(1..lock[m])
          /\ Cardinality(1..lock[m]) = IF 1 > lock[m] THEN 0 ELSE lock[m] - 1 + 1
      BY <3>1, FS_Interval, Zenon
    <3>3. QED
      BY <2>2, <3>2
  <2>4. Spent(m, h) \in SUBSET (1..lock[m])
    BY DEF Spent
  <2>5. Cardinality(Spent(m, h)) <= lock[m]
    BY <2>3, <2>4, FS_Subset
  <2>6. Cardinality(Spent(m, h)) \in Nat
    BY <2>1, SpentIsFinite
  <2>7. QED
    BY <2>1, <2>2, <2>5, <2>6 DEF Counted, Suits
<1>2. QED
  BY <1>1, DeliveryInit, NextDelivers, PTL DEF Spec
=============================================================================
