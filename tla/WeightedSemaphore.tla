-------------------------- MODULE WeightedSemaphore --------------------------
(***************************************************************************)
(* What a weighted semaphore promises, without queue, counters or timers.  *)
(* A client holds some units or none.  A grant fits the limit in force at  *)
(* that moment, together with everything that is held; a change of the     *)
(* limit takes nothing from a holder; nothing is granted once it is        *)
(* closed.  UpstreamSlots implements it.                                   *)
(***************************************************************************)
EXTENDS Naturals, FiniteSets

CONSTANTS
    Client,
    MaxUnits,     \* the most units one grant takes
    Limits        \* the values of the limit

VARIABLES
    held,     \* units held by each client, 0 for none
    limit,
    closed

vars == <<held, limit, closed>>

\* The units held, one pair per unit, given how many each client holds
Units(h) == {u \in Client \X (1..MaxUnits) : u[2] <= h[u[1]]}

Init ==
    /\ held = [c \in Client |-> 0]
    /\ limit \in Limits
    /\ closed = FALSE

Grant(c, n) ==
    /\ ~closed
    /\ held[c] = 0
    /\ held' = [held EXCEPT ![c] = n]
    /\ Cardinality(Units(held')) <= limit
    /\ UNCHANGED <<limit, closed>>

Release(c) ==
    /\ held[c] # 0
    /\ held' = [held EXCEPT ![c] = 0]
    /\ UNCHANGED <<limit, closed>>

SetLimit ==
    /\ limit' \in Limits
    /\ UNCHANGED <<held, closed>>

Close ==
    /\ closed' = TRUE
    /\ UNCHANGED <<held, limit>>

Next ==
    \/ \E c \in Client : Release(c) \/ \E n \in 1..MaxUnits : Grant(c, n)
    \/ SetLimit
    \/ Close

Spec == Init /\ [][Next]_vars
============================================================================
