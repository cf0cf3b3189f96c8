--------------------------- MODULE CommandDelivery ---------------------------
(***************************************************************************)
(* What an observed queue promises its senders and its handlers: a command *)
(* waits until it is taken or given up, and once it is taken each handler  *)
(* is given it at most once.  A command that is taken may never be given   *)
(* to anyone: the queue promises at most once, not at least once.          *)
(***************************************************************************)
EXTENDS Naturals

CONSTANTS Message, Handler

VARIABLES fate,    \* fate[m]: unsent, waiting, taken or dead
          given    \* given[m][h]: how often h has been given m

vars == <<fate, given>>

Init ==
    /\ fate = [m \in Message |-> "unsent"]
    /\ given = [m \in Message |-> [h \in Handler |-> 0]]

Move(m, from, to) ==
    /\ fate[m] = from
    /\ fate' = [fate EXCEPT ![m] = to]
    /\ UNCHANGED given

Send(m) == Move(m, "unsent", "waiting")

Take(m) == Move(m, "waiting", "taken")

GiveUp(m) == Move(m, "waiting", "dead")

Give(m, h) ==
    /\ fate[m] = "taken"
    /\ given[m][h] = 0
    /\ given' = [given EXCEPT ![m][h] = 1]
    /\ UNCHANGED fate

Next ==
    \E m \in Message :
        \/ Send(m) \/ Take(m) \/ GiveUp(m)
        \/ \E h \in Handler : Give(m, h)

Spec == Init /\ [][Next]_vars
=============================================================================
