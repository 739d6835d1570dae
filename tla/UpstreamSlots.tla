--------------------------- MODULE UpstreamSlots ---------------------------
(***************************************************************************)
(* The weighted upstream leases of DownloadResourceCoordinator             *)
(* (backend/src/file/download-resource-coordinator.service.ts).            *)
(*                                                                         *)
(* A cold download must hold a lease before it fetches from the storage    *)
(* back end.  A lease costs a weight that grows with the file's size, and  *)
(* a new lease must fit the budget maxConcurrentUpstreams.  A request that *)
(* does not fit waits in a bounded queue until a pump grants it, its timer *)
(* fires, its signal aborts or the service shuts down.                     *)
(*                                                                         *)
(* The service is one single-threaded process: a handler and the pump it   *)
(* ends with run without interruption.  The pump is a loop; one iteration  *)
(* of it is one step here, and `pumping` is TRUE until the loop returns.   *)
(* While it is TRUE no other action is enabled, so a handler and its pump  *)
(* are one uninterrupted run of steps, never interleaved with another.     *)
(***************************************************************************)
EXTENDS Integers, Sequences, FiniteSets, SequencesExt

CONSTANTS
    Request,        \* callers of acquireUpstreamSlot; an id is reused when done
    Budgets,        \* the values maxConcurrentUpstreams can be configured to
    Capacities,     \* the values queueCapacity can be configured to
    ScanWindow,     \* UPSTREAM_FIT_POLICY_DEFAULTS.SCAN_WINDOW
    MaxHeadBypass   \* UPSTREAM_FIT_POLICY_DEFAULTS.MAX_HEAD_BYPASS

ASSUME RequestAssumption == IsFiniteSet(Request)
ASSUME BudgetAssumption == Budgets \subseteq Nat \ {0}
ASSUME CapacityAssumption == Capacities \subseteq Nat
ASSUME PolicyAssumption == ScanWindow \in Nat /\ MaxHeadBypass \in Nat

VARIABLES
    budget,          \* currentUpstreamBudget(): maxConcurrentUpstreams, at least 1
    policy,          \* config.upstreamQueuePolicy
    queueCapacity,   \* config.queueCapacity
    st,              \* what has become of each request
    weight,          \* weight of the waiter, then of the lease
    bypassCount,     \* how often a waiter was bypassed while it was the head
    aged,            \* the waiter is older than HEAD_FAIR_WAIT_MS
    waitingUpstream, \* the queue
    activeUpstreams, activeUpstreamWeight,   \* the counters of granted leases
    shuttingDown,
    pumping

config == <<budget, policy, queueCapacity>>
counters == <<activeUpstreams, activeUpstreamWeight>>
vars == <<budget, policy, queueCapacity, st, weight, bypassCount, aged,
          waitingUpstream, activeUpstreams, activeUpstreamWeight,
          shuttingDown, pumping>>

Policies == {"strict_fifo", "bounded_fit"}
Sizes == {"small", "medium", "large"}
\* A caller is idle before its request and after a rejection; a released lease
\* is a handle its holder may still call.
Settled == {"idle", "released"}
States == Settled \cup {"waiting", "leased"}
MaxWeight == 8

Least(a, b) == IF a <= b THEN a ELSE b
AtLeastZero(n) == IF n < 0 THEN 0 ELSE n

\* The units of budget the granted leases really hold, one pair per unit: their
\* number is the sum of the weights of the leases.
HeldUnits == {u \in Request \X (1..MaxWeight) :
                 st[u[1]] = "leased" /\ u[2] <= weight[u[1]]}

Leased == {r \in Request : st[r] = "leased"}

----------------------------------------------------------------------------
\* Weights

\* 1 GiB and 256 MiB are the thresholds between the three size classes.
upstreamWeightForSize(size, b) ==
    CASE size = "large"  -> Least(8, b)
      [] size = "medium" -> Least(2, b)
      [] size = "small"  -> Least(1, b)

effectiveWaiterWeightAtEnqueue(w) == w   \* mutant: weights are clipped only once

\* Clipping to the budget in force now, when the request arrives and again at
\* every iteration of the pump.
effectiveWaiterWeight(w) == Least(w, budget)

canGrantUpstream(w) == activeUpstreamWeight + w <= budget

----------------------------------------------------------------------------
\* Building blocks of the handlers

\* A request that does not wait has no waiter object: its fields are cleared.
ClearWaiter(r) ==
    /\ bypassCount' = [bypassCount EXCEPT ![r] = 0]
    /\ aged' = [aged EXCEPT ![r] = FALSE]

Reject(r) ==
    /\ st' = [st EXCEPT ![r] = "idle"]
    /\ weight' = [weight EXCEPT ![r] = 0]

grantUpstreamLease(r, w) ==
    /\ st' = [st EXCEPT ![r] = "leased"]
    /\ weight' = [weight EXCEPT ![r] = w]
    /\ activeUpstreams' = activeUpstreams + 1
    /\ activeUpstreamWeight' = activeUpstreamWeight + w

giveBackUnit(r) ==   \* mutant: every lease gives back one unit
    /\ activeUpstreams' = AtLeastZero(activeUpstreams - 1)
    /\ activeUpstreamWeight' = AtLeastZero(activeUpstreamWeight - Least(1, weight[r]))

\* The counters' part of lease.release()
giveBack(r) ==
    /\ activeUpstreams' = AtLeastZero(activeUpstreams - 1)
    /\ activeUpstreamWeight' = AtLeastZero(activeUpstreamWeight - weight[r])

\* mutant: takes the head, whoever leaves
removeUpstreamWaiterShift(i) == waitingUpstream' = RemoveAt(waitingUpstream, Least(i, 1))

\* removeUpstreamWaiter for the waiter at position i
removeUpstreamWaiter(i) == waitingUpstream' = RemoveAt(waitingUpstream, i)

\* mutant: off by one
isHeadReservedLate(r) == bypassCount[r] > MaxHeadBypass \/ aged[r]

isHeadReserved(r) == bypassCount[r] >= MaxHeadBypass \/ aged[r]

FitCandidates ==
    {i \in 2..Len(waitingUpstream) :
        /\ i <= ScanWindow + 1
        /\ canGrantUpstream(effectiveWaiterWeight(weight[waitingUpstream[i]]))}

\* findFitCandidateIndex: the earliest waiter behind the head, within the scan
\* window, that fits the room left.
isFitCandidate(i) == i \in FitCandidates /\ \A j \in FitCandidates : i <= j

----------------------------------------------------------------------------
Init ==
    /\ budget \in Budgets
    /\ policy \in Policies
    /\ queueCapacity \in Capacities
    /\ st = [r \in Request |-> "idle"]
    /\ weight = [r \in Request |-> 0]
    /\ bypassCount = [r \in Request |-> 0]
    /\ aged = [r \in Request |-> FALSE]
    /\ waitingUpstream = <<>>
    /\ activeUpstreams = 0
    /\ activeUpstreamWeight = 0
    /\ shuttingDown = FALSE
    /\ pumping = FALSE

\* acquireUpstreamSlot, early exits: the service is shutting down, or the
\* caller's signal is already aborted (which it may be at any time).
AcquireRefused(r) ==
    /\ ~pumping
    /\ st[r] \in Settled
    /\ Reject(r)
    /\ UNCHANGED <<config, bypassCount, aged, waitingUpstream, counters,
                   shuttingDown, pumping>>

\* acquireUpstreamSlot, the weight fits: granted at once, whoever is waiting.
AcquireGranted(r, size) ==
    /\ ~pumping
    /\ st[r] \in Settled
    /\ ~shuttingDown
    /\ canGrantUpstream(upstreamWeightForSize(size, budget))
    /\ grantUpstreamLease(r, upstreamWeightForSize(size, budget))
    /\ UNCHANGED <<config, bypassCount, aged, waitingUpstream, shuttingDown, pumping>>

\* acquireUpstreamSlot, the weight does not fit: 429 when the queue is full,
\* otherwise the caller waits at its end.
AcquireQueued(r, size) ==
    /\ ~pumping
    /\ st[r] \in Settled
    /\ ~shuttingDown
    /\ ~canGrantUpstream(upstreamWeightForSize(size, budget))
    /\ \/ /\ Len(waitingUpstream) >= queueCapacity
          /\ Reject(r)
          /\ UNCHANGED waitingUpstream
       \/ /\ Len(waitingUpstream) < queueCapacity
          /\ st' = [st EXCEPT ![r] = "waiting"]
          /\ weight' = [weight EXCEPT ![r] = upstreamWeightForSize(size, budget)]
          /\ waitingUpstream' = Append(waitingUpstream, r)
    /\ UNCHANGED <<config, bypassCount, aged, counters, shuttingDown, pumping>>

\* lease.release(), which callers may call again on a released lease.
Release(r) ==
    /\ ~pumping
    /\ \/ /\ st[r] = "leased"
          /\ st' = [st EXCEPT ![r] = "released"]
          /\ weight' = [weight EXCEPT ![r] = 0]
          /\ giveBack(r)
          /\ pumping' = TRUE
       \/ /\ st[r] = "released"
          /\ UNCHANGED <<st, weight, counters, pumping>>
    /\ UNCHANGED <<config, bypassCount, aged, waitingUpstream, shuttingDown>>

\* mutant: the waiter leaves and nobody is woken
WaiterGoneSilently(i) ==
    /\ ~pumping
    /\ removeUpstreamWaiter(i)
    /\ Reject(waitingUpstream[i])
    /\ ClearWaiter(waitingUpstream[i])
    /\ UNCHANGED <<config, counters, shuttingDown, pumping>>

\* The timer or the abort handler of the waiter at position i: rejected, then
\* the pump runs.
WaiterGone(i) ==
    /\ ~pumping
    /\ removeUpstreamWaiter(i)
    /\ Reject(waitingUpstream[i])
    /\ ClearWaiter(waitingUpstream[i])
    /\ pumping' = TRUE
    /\ UNCHANGED <<config, counters, shuttingDown>>

\* HEAD_FAIR_WAIT_MS have passed since the oldest waiter below that age arrived.
\* Arrival order is queue order, so waiters reach that age in queue order.
Age(i) ==
    /\ ~pumping
    /\ ~aged[waitingUpstream[i]]
    /\ \A j \in 1..i - 1 : aged[waitingUpstream[j]]
    /\ aged' = [aged EXCEPT ![waitingUpstream[i]] = TRUE]
    /\ UNCHANGED <<config, st, weight, bypassCount, waitingUpstream, counters,
                   shuttingDown, pumping>>

\* mutant: leases are cut down to the new budget
ConfigureClipsLeases ==
    /\ ~pumping
    /\ budget' \in Budgets
    /\ policy' \in Policies
    /\ queueCapacity' \in Capacities
    /\ config' # config
    /\ weight' = [r \in Request |-> Least(weight[r], budget')]
    /\ pumping' = TRUE
    /\ UNCHANGED <<st, bypassCount, aged, waitingUpstream, activeUpstreams,
                   shuttingDown>>
    /\ activeUpstreamWeight' = Cardinality(HeldUnits')

\* configure(): a new configuration, then the pump.  Leases are not revoked.
Configure ==
    /\ ~pumping
    /\ budget' \in Budgets
    /\ policy' \in Policies
    /\ queueCapacity' \in Capacities
    /\ config' # config
    /\ pumping' = TRUE
    /\ UNCHANGED <<st, weight, bypassCount, aged, waitingUpstream, counters,
                   shuttingDown>>

\* shutdown(): every waiter is rejected, leases stay with their holders.
Shutdown ==
    /\ ~pumping
    /\ ~shuttingDown
    /\ shuttingDown' = TRUE
    /\ st' = [r \in Request |-> IF st[r] = "waiting" THEN "idle" ELSE st[r]]
    /\ weight' = [r \in Request |-> IF st[r] = "waiting" THEN 0 ELSE weight[r]]
    /\ bypassCount' = [r \in Request |-> 0]
    /\ aged' = [r \in Request |-> FALSE]
    /\ waitingUpstream' = <<>>
    /\ UNCHANGED <<config, counters, pumping>>

----------------------------------------------------------------------------
\* One iteration of pumpUpstream

headWeight == effectiveWaiterWeight(weight[Head(waitingUpstream)])

PumpGrantHead ==
    /\ pumping
    /\ waitingUpstream # <<>>
    /\ canGrantUpstream(headWeight)
    /\ grantUpstreamLease(Head(waitingUpstream), headWeight)
    /\ removeUpstreamWaiter(1)
    /\ ClearWaiter(Head(waitingUpstream))
    /\ UNCHANGED <<config, shuttingDown, pumping>>

mayBypass ==
    /\ waitingUpstream # <<>>
    /\ ~canGrantUpstream(headWeight)
    /\ policy = "bounded_fit"
    /\ ~isHeadReserved(Head(waitingUpstream))

PumpBypass(i) ==
    /\ pumping
    /\ mayBypass
    /\ isFitCandidate(i)
    /\ grantUpstreamLease(waitingUpstream[i],
                          effectiveWaiterWeight(weight[waitingUpstream[i]]))
    /\ removeUpstreamWaiter(i)
    /\ bypassCount' = [bypassCount EXCEPT ![Head(waitingUpstream)] = @ + 1]
    /\ aged' = [aged EXCEPT ![waitingUpstream[i]] = FALSE]
    /\ UNCHANGED <<config, shuttingDown, pumping>>

PumpReturn ==
    /\ pumping
    /\ waitingUpstream # <<>> => ~canGrantUpstream(headWeight)
    /\ mayBypass => FitCandidates = {}
    /\ pumping' = FALSE
    /\ UNCHANGED <<config, st, weight, bypassCount, aged, waitingUpstream, counters,
                   shuttingDown>>

pumpUpstream ==
    \/ PumpGrantHead
    \/ \E i \in 2..Len(waitingUpstream) : PumpBypass(i)
    \/ PumpReturn

----------------------------------------------------------------------------
Acquire(r) ==
    \/ AcquireRefused(r)
    \/ \E size \in Sizes : AcquireGranted(r, size) \/ AcquireQueued(r, size)

Next ==
    \/ \E r \in Request : Acquire(r) \/ Release(r)
    \/ \E i \in 1..Len(waitingUpstream) : WaiterGone(i) \/ Age(i)
    \/ Configure
    \/ Shutdown
    \/ pumpUpstream

Spec == Init /\ [][Next]_vars

\* A handler that has begun runs to its end, and every lease is released: each
\* session releases in a finally block behind first-byte and idle timeouts.
\* The fairness of Release is strong because the steps of a running pump, which
\* take no time in the code, disable it in between.
Fairness ==
    /\ WF_vars(pumpUpstream)
    /\ \A r \in Request : SF_vars(st[r] = "leased" /\ Release(r))

FairSpec == Spec /\ Fairness

----------------------------------------------------------------------------
\* Properties

\* Every variable has its type; in particular the counters of leases, which are
\* clamped on the way down, never leave the naturals.
TypeOK ==
    /\ budget \in Budgets
    /\ policy \in Policies
    /\ queueCapacity \in Capacities
    /\ st \in [Request -> States]
    /\ weight \in [Request -> 0..MaxWeight]
    /\ bypassCount \in [Request -> Nat]
    /\ aged \in [Request -> BOOLEAN]
    /\ waitingUpstream \in Seq(Request)
    /\ activeUpstreams \in Nat
    /\ activeUpstreamWeight \in Nat
    /\ shuttingDown \in BOOLEAN
    /\ pumping \in BOOLEAN

\* The queue holds each waiting request exactly once and nothing else.
QueueIsWaiters ==
    /\ \A i \in 1..Len(waitingUpstream) : st[waitingUpstream[i]] = "waiting"
    /\ \A i, j \in 1..Len(waitingUpstream) :
          waitingUpstream[i] = waitingUpstream[j] => i = j
    /\ \A r \in Request : st[r] = "waiting" =>
          \E i \in 1..Len(waitingUpstream) : waitingUpstream[i] = r

\* The state is well formed: every variable has its type, in particular the
\* counters clamped on the way down, and each waiter is in the queue exactly once,
\* so that it is settled once, by the pump, its timer, its signal or shutdown().
WellFormed == TypeOK /\ QueueIsWaiters

\* The counters agree with the leases that exist: after any sequence of grants,
\* repeated releases and budget changes no unit of budget is leaked or freed
\* twice.
CountersMatchLeases ==
    /\ activeUpstreams = Cardinality(Leased)
    /\ activeUpstreamWeight = Cardinality(HeldUnits)

\* The upstream queue has no fallback poll, so a missed wake-up would strand its
\* waiters: whenever no pump is running, the head does not fit the room left
\* and, where a bypass is allowed, nobody in the scan window does.
NoLostWakeup ==
    (~pumping /\ waitingUpstream # <<>>) =>
        /\ ~canGrantUpstream(headWeight)
        /\ (policy = "bounded_fit" /\ ~isHeadReserved(Head(waitingUpstream)))
              => FitCandidates = {}

\* A waiter is granted ahead of an earlier one only under bounded_fit and past a
\* head that has not waited too long; the head counts it, up to MaxHeadBypass times.
BypassBounded ==
    [][\A j \in 1..Len(waitingUpstream) :
         (/\ st[waitingUpstream[j]] = "waiting" /\ st'[waitingUpstream[j]] = "leased"
          /\ \E i \in 1..j - 1 : st'[waitingUpstream[i]] = "waiting")
            => LET h == waitingUpstream[1] IN
               /\ policy = "bounded_fit" /\ ~aged[h]
               /\ bypassCount'[h] = bypassCount[h] + 1
               /\ bypassCount'[h] <= MaxHeadBypass]_vars

\* A grant never takes the leases that really exist over the budget in force,
\* even when the budget was lowered under leases granted before.
GrantFitsBudget ==
    [][~(Leased' \subseteq Leased) => Cardinality(HeldUnits') <= budget']_vars

\* Once shutdown() has run nobody gets a lease, not even when old leases are
\* released and the pump runs on.
NoLeaseAfterShutdown == [][shuttingDown => Leased' \subseteq Leased]_vars

Barging == \E r \in Request, size \in Sizes : AcquireGranted(r, size)

\* With leases that are eventually released and without any timer, a waiter can
\* only be stranded by newcomers who are granted past the queue for ever:
\* budget changes, bypasses and departures never strand it.
StrandedOnlyByBarging ==
    \/ []<><<Barging>>_vars
    \/ \A r \in Request : st[r] = "waiting" ~> st[r] # "waiting"

\* The abstract semaphore this module implements: a lease is its weight in units,
\* the budget in force is the limit, shutdown() closes it.
UnitsHeld == [r \in Request |-> IF st[r] = "leased" THEN weight[r] ELSE 0]

Semaphore == INSTANCE WeightedSemaphore WITH
                 Client <- Request, MaxUnits <- MaxWeight, Limits <- Budgets,
                 held <- UnitsHeld, limit <- budget, closed <- shuttingDown

\* Queue, pump, timers, clamped counters and changes of the configuration
\* together behave as a weighted semaphore: a step grants or releases one
\* lease, a grant fits the budget in force, and a lease keeps its weight
\* until it is released, even when the budget drops below it.
ImplementsSemaphore == Semaphore!Spec

============================================================================
