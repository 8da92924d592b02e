--------------------------- MODULE OrderSettlement ---------------------------
(***************************************************************************)
(* What automatic trading promises about an external order, whatever       *)
(* crashes and whatever reply is lost (ADR 0021): an order is announced    *)
(* durably before anything else; it can execute only while it is           *)
(* announced; at most one order is announced at a time; an order that      *)
(* executed is booked as a trade, once, and is never closed unbooked.      *)
(***************************************************************************)
CONSTANT Order      \* the client order ids

VARIABLES
    phase,      \* where each order is in its life
    executed    \* the orders of which the exchange filled something

vars == <<phase, executed>>

Phases == {"new", "announced", "booked", "closed"}

TypeOK ==
    /\ phase \in [Order -> Phases]
    /\ executed \subseteq Order

Init ==
    /\ phase = [o \in Order |-> "new"]
    /\ executed = {}

Announce(o) ==
    /\ phase[o] = "new"
    /\ \A other \in Order : phase[other] # "announced"
    /\ phase' = [phase EXCEPT ![o] = "announced"]
    /\ UNCHANGED executed

Execute(o) ==
    /\ phase[o] = "announced"
    /\ executed' = executed \cup {o}
    /\ UNCHANGED phase

Book(o) ==
    /\ phase[o] = "announced"
    /\ o \in executed
    /\ phase' = [phase EXCEPT ![o] = "booked"]
    /\ UNCHANGED executed

Close(o) ==
    /\ phase[o] = "announced"
    /\ o \notin executed
    /\ phase' = [phase EXCEPT ![o] = "closed"]
    /\ UNCHANGED executed

Next == \E o \in Order : Announce(o) \/ Execute(o) \/ Book(o) \/ Close(o)

Spec == Init /\ [][Next]_vars
==============================================================================
