------------------------- MODULE InjectionService -------------------------
(***************************************************************************)
(* What the engine relies on when it hands a batch of keys to an injector  *)
(* (src/injection_request.h and the comments of the two injector headers): *)
(* an accepted request is typed in its turn, by one batch at a time, ends  *)
(* exactly once, is Complete only if all of it was typed, and has typed    *)
(* nothing if it ended before its turn.  UinputInjector and XTestInjector  *)
(* implement it.                                                           *)
(***************************************************************************)
EXTENDS Integers

CONSTANT MaxTickets

Tickets == 1..MaxTickets
None == 0

VARIABLES
    status,   \* what the engine reads from the ticket
    turn,     \* the ticket being typed, or None
    typed     \* how much of each batch was typed: "none", "some", "all"

svars == <<status, turn, typed>>

Ended == {"Complete", "Failed", "Cancelled"}

ServiceInit ==
    /\ status = [t \in Tickets |-> "Free"]
    /\ turn = None
    /\ typed = [t \in Tickets |-> "none"]

Accept(t) ==
    /\ status[t] = "Free"
    /\ \A u \in 1..(t - 1) : status[u] # "Free"
    /\ status' = [status EXCEPT ![t] = "Queued"]
    /\ UNCHANGED <<turn, typed>>

Take(t) ==
    /\ turn = None /\ status[t] = "Queued"
    /\ \A u \in 1..(t - 1) : status[u] \in Ended
    /\ turn' = t
    /\ UNCHANGED <<status, typed>>

\* A batch that was cancelled in its turn may still finish a key.
Type(t) ==
    /\ turn = t /\ typed[t] # "all" /\ status[t] \in {"Queued", "Cancelled"}
    /\ \E much \in {"some", "all"} : typed' = [typed EXCEPT ![t] = much]
    /\ UNCHANGED <<status, turn>>

\* The turn ends, or not, and some requests end with it.
MayBecome(t, s) ==
    \/ s = status[t]
    \/ s \in {"Failed", "Cancelled"} /\ status[t] \in {"Queued", "Failed", "Cancelled"}
    \/ s = "Complete" /\ status[t] = "Queued" /\ turn = t /\ turn' = None /\ typed[t] = "all"

Settle ==
    /\ turn' \in {turn, None}
    /\ status' \in [Tickets -> {"Free", "Queued"} \cup Ended]
    /\ \A t \in Tickets : MayBecome(t, status'[t])
    /\ turn # turn' => status'[turn] \in Ended
    /\ UNCHANGED typed

ServiceNext ==
    \/ \E t \in Tickets : Accept(t) \/ Take(t) \/ Type(t)
    \/ Settle

ServiceSpec == ServiceInit /\ [][ServiceNext]_svars

\* The engine may fall back to another way of deleting when a request ended
\* with nothing typed; it may expect the deletion when the request is Complete.
ServiceSafe ==
    \A t \in Tickets :
        /\ status[t] = "Complete" => typed[t] = "all"
        /\ typed[t] # "none" => \A u \in 1..(t - 1) : status[u] \in Ended
===========================================================================
