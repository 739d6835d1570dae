------------------------ MODULE UpstreamSlotsProofs ------------------------
(* Theorems about UpstreamSlots, for every set of requests, every set of    *)
(* budgets and capacities and every setting of the fit policy.              *)
EXTENDS UpstreamSlots, QueueLemmas

----------------------------------------------------------------------------
\* Lemmas on the helpers

LEMMA WeightFacts ==
    ASSUME NEW size \in Sizes, NEW b \in Nat \ {0}
    PROVE  upstreamWeightForSize(size, b) \in 1..MaxWeight
BY DEF upstreamWeightForSize, Sizes, MaxWeight, Least

----------------------------------------------------------------------------
\* Type correctness

\* UpstreamSlots keeps its types: in particular the weight counter, which
\* release() clamps, and the weight of every waiter and lease stay in range.
LEMMA TypeStep == TypeOK /\ [Next]_vars => TypeOK'
<1> SUFFICES ASSUME TypeOK, [Next]_vars PROVE TypeOK'
  OBVIOUS
<1> USE BudgetAssumption, CapacityAssumption, PolicyAssumption
<1>1. ASSUME NEW r \in Request, AcquireRefused(r) PROVE TypeOK'
  BY <1>1 DEF TypeOK, AcquireRefused, Reject, config, counters, Settled, States, MaxWeight
<1>2. ASSUME NEW r \in Request, NEW size \in Sizes, AcquireGranted(r, size) PROVE TypeOK'
  <2>1. upstreamWeightForSize(size, budget) \in 1..MaxWeight
    BY WeightFacts DEF TypeOK
  <2> QED
    BY <1>2, <2>1 DEF TypeOK, AcquireGranted, grantUpstreamLease, config, Settled, States, MaxWeight
<1>3. ASSUME NEW r \in Request, NEW size \in Sizes, AcquireQueued(r, size) PROVE TypeOK'
  <2>1. upstreamWeightForSize(size, budget) \in 1..MaxWeight
    BY WeightFacts DEF TypeOK
  <2>2. UNCHANGED <<config, bypassCount, aged, counters, shuttingDown, pumping>>
    BY <1>3 DEF AcquireQueued
  <2>3. \/ Reject(r) /\ UNCHANGED waitingUpstream
        \/ /\ st' = [st EXCEPT ![r] = "waiting"]
           /\ weight' = [weight EXCEPT ![r] = upstreamWeightForSize(size, budget)]
           /\ waitingUpstream' = Append(waitingUpstream, r)
    BY <1>3 DEF AcquireQueued
  <2>4. Append(waitingUpstream, r) \in Seq(Request)
    BY DEF TypeOK
  <2>5. /\ st' \in [Request -> States]
        /\ weight' \in [Request -> 0..MaxWeight]
        /\ waitingUpstream' \in Seq(Request)
    <3>1. CASE Reject(r) /\ UNCHANGED waitingUpstream
      BY <3>1 DEF TypeOK, Reject, Settled, States, MaxWeight
    <3>2. CASE /\ st' = [st EXCEPT ![r] = "waiting"]
               /\ weight' = [weight EXCEPT ![r] = upstreamWeightForSize(size, budget)]
               /\ waitingUpstream' = Append(waitingUpstream, r)
      BY <2>1, <2>4, <3>2 DEF TypeOK, Settled, States, MaxWeight
    <3> QED
      BY <2>3, <3>1, <3>2
  <2> QED
    BY <2>2, <2>5 DEF TypeOK, config, counters
<1>4. ASSUME NEW r \in Request, Release(r) PROVE TypeOK'
  <2>1. UNCHANGED <<config, bypassCount, aged, waitingUpstream, shuttingDown>>
    BY <1>4 DEF Release
  <2>2. \/ /\ st' = [st EXCEPT ![r] = "released"]
           /\ weight' = [weight EXCEPT ![r] = 0]
           /\ giveBack(r)
           /\ pumping' = TRUE
        \/ UNCHANGED <<st, weight, counters, pumping>>
    BY <1>4 DEF Release
  <2>3. /\ st' \in [Request -> States]
        /\ weight' \in [Request -> 0..MaxWeight]
        /\ activeUpstreams' \in Nat
        /\ activeUpstreamWeight' \in Nat
    <3>1. CASE UNCHANGED <<st, weight, counters, pumping>>
      BY <3>1 DEF TypeOK, counters
    <3>2. CASE /\ st' = [st EXCEPT ![r] = "released"]
               /\ weight' = [weight EXCEPT ![r] = 0]
               /\ giveBack(r)
      BY <3>2 DEF TypeOK, giveBack, AtLeastZero, Settled, States, MaxWeight
    <3> QED
      BY <2>2, <3>1, <3>2
  <2>4. pumping' \in BOOLEAN
    BY <2>2 DEF TypeOK
  <2> QED
    BY <2>1, <2>3, <2>4 DEF TypeOK, config
<1>5. ASSUME NEW i \in 1..Len(waitingUpstream), WaiterGone(i) PROVE TypeOK'
  <2>1. waitingUpstream[i] \in Request /\ RemoveAt(waitingUpstream, i) \in Seq(Request)
    BY <1>5, RemoveAtFacts DEF TypeOK
  <2> QED
    BY <1>5, <2>1 DEF TypeOK, WaiterGone, removeUpstreamWaiter, Reject, ClearWaiter, config,
                      counters, Settled, States, MaxWeight
<1>6. ASSUME NEW i \in 1..Len(waitingUpstream), Age(i) PROVE TypeOK'
  BY <1>6 DEF TypeOK, Age, config, counters
<1>7. CASE Configure
  BY <1>7 DEF TypeOK, Configure, counters
<1>8. CASE Shutdown
  BY <1>8 DEF TypeOK, Shutdown, config, counters, Settled, States, MaxWeight
<1>9. CASE PumpGrantHead
  <2>1. /\ Head(waitingUpstream) \in Request
        /\ RemoveAt(waitingUpstream, 1) \in Seq(Request)
    BY <1>9, RemoveAtFacts DEF TypeOK, PumpGrantHead
  <2>2. headWeight \in 0..MaxWeight
    BY <2>1 DEF TypeOK, headWeight, effectiveWaiterWeight, Least, MaxWeight
  <2> QED
    BY <1>9, <2>1, <2>2 DEF TypeOK, PumpGrantHead, removeUpstreamWaiter, grantUpstreamLease,
                      ClearWaiter, config, Settled, States, MaxWeight
<1>10. ASSUME NEW i \in 2..Len(waitingUpstream), PumpBypass(i) PROVE TypeOK'
  <2>1. /\ waitingUpstream[i] \in Request
        /\ Head(waitingUpstream) \in Request
        /\ RemoveAt(waitingUpstream, i) \in Seq(Request)
    <3>1. i \in 1..Len(waitingUpstream) /\ waitingUpstream # <<>>
      BY DEF TypeOK
    <3> QED
      BY <3>1, RemoveAtFacts, HeadTailProperties DEF TypeOK
  <2>2. effectiveWaiterWeight(weight[waitingUpstream[i]]) \in 0..MaxWeight
    <3>1. budget \in Nat /\ weight[waitingUpstream[i]] \in 0..MaxWeight
      BY <2>1 DEF TypeOK
    <3> QED
      BY <3>1 DEF effectiveWaiterWeight, Least, MaxWeight
  <2>3. PICK c \in Request, h \in Request, w \in 0..MaxWeight :
           /\ grantUpstreamLease(c, w)
           /\ waitingUpstream' = RemoveAt(waitingUpstream, i)
           /\ bypassCount' = [bypassCount EXCEPT ![h] = @ + 1]
           /\ aged' = [aged EXCEPT ![c] = FALSE]
           /\ UNCHANGED <<config, shuttingDown, pumping>>
    BY <1>10, <2>1, <2>2 DEF PumpBypass, removeUpstreamWaiter
  <2>4. /\ st' \in [Request -> States]
        /\ weight' \in [Request -> 0..MaxWeight]
        /\ activeUpstreams' \in Nat
        /\ activeUpstreamWeight' \in Nat
    BY <2>3 DEF TypeOK, grantUpstreamLease, Settled, States, MaxWeight
  <2>5. waitingUpstream' \in Seq(Request)
    BY <2>1, <2>3
  <2>7. bypassCount' \in [Request -> Nat]
    BY <2>3 DEF TypeOK
  <2>6. aged' \in [Request -> BOOLEAN]
    BY <2>3 DEF TypeOK
  <2> QED
    BY <2>3, <2>4, <2>5, <2>6, <2>7 DEF TypeOK, config
<1>11. CASE PumpReturn
  BY <1>11 DEF TypeOK, PumpReturn, config, counters
<1>12. CASE UNCHANGED vars
  BY <1>12 DEF TypeOK, vars
<1>13. ASSUME NEW r \in Request, Acquire(r) PROVE TypeOK'
  BY <1>1, <1>2, <1>3, <1>13 DEF Acquire
<1>14. CASE pumpUpstream
  BY <1>9, <1>10, <1>11, <1>14 DEF pumpUpstream
<1> QED
  BY <1>4, <1>5, <1>6, <1>7, <1>8, <1>12, <1>13, <1>14 DEF Next

LEMMA TypeInit == Init => TypeOK
<1> SUFFICES ASSUME Init PROVE TypeOK
  OBVIOUS
<1>1. waitingUpstream \in Seq(Request) /\ activeUpstreams \in Nat /\ activeUpstreamWeight \in Nat
  BY DEF Init
<1>2. /\ weight \in [Request -> 0..MaxWeight]
      /\ bypassCount \in [Request -> Nat]
      /\ st \in [Request -> States]
  BY DEF Init, MaxWeight, Settled, States
<1>3. aged \in [Request -> BOOLEAN] /\ shuttingDown \in BOOLEAN /\ pumping \in BOOLEAN
  BY DEF Init
<1>4. budget \in Budgets /\ policy \in Policies /\ queueCapacity \in Capacities
  BY DEF Init
<1> QED
  BY <1>1, <1>2, <1>3, <1>4 DEF TypeOK

\* The model is well typed in every reachable state.
THEOREM TypeCorrect == Spec => []TypeOK
BY TypeInit, TypeStep, PTL DEF Spec

----------------------------------------------------------------------------
\* The queue and the waiters

\* A request that is not waiting may change state without touching the queue.
LEMMA QueueKept ==
    ASSUME TypeOK, QueueIsWaiters, NEW r \in Request, NEW x,
           st[r] # "waiting", x # "waiting",
           st' = [st EXCEPT ![r] = x], waitingUpstream' = waitingUpstream
    PROVE  QueueIsWaiters'
BY DEF TypeOK, QueueIsWaiters

\* A waiter that is taken out of the queue stops waiting.
LEMMA QueueRemoved ==
    ASSUME TypeOK, QueueIsWaiters, NEW i \in 1..Len(waitingUpstream), NEW x,
           x # "waiting", st' = [st EXCEPT ![waitingUpstream[i]] = x],
           waitingUpstream' = RemoveAt(waitingUpstream, i)
    PROVE  QueueIsWaiters'
<1> DEFINE q == waitingUpstream
           p == waitingUpstream'
<1>1. /\ p \in Seq(Request)
      /\ Len(p) = Len(q) - 1
      /\ \A k \in 1..Len(q) - 1 : p[k] = IF k < i THEN q[k] ELSE q[k + 1]
  BY RemoveAtFacts DEF TypeOK
<1>2. \A k \in 1..Len(q) : q[k] \in Request /\ st[q[k]] = "waiting"
  BY DEF TypeOK, QueueIsWaiters
<1>3. \A k, l \in 1..Len(q) : q[k] = q[l] => k = l
  BY DEF QueueIsWaiters
<1>4. st \in [Request -> States] /\ Len(q) \in Nat /\ i \in 1..Len(q)
  BY DEF TypeOK
<1> HIDE DEF q, p
<1>5. \A k \in 1..Len(p) : st'[p[k]] = "waiting"
  <2> TAKE k \in 1..Len(p)
  <2>1. PICK l \in 1..Len(q) : p[k] = q[l] /\ l # i
    BY <1>1, <1>4
  <2>2. q[l] # q[i]
    BY <2>1, <1>3, <1>4
  <2> QED
    BY <2>1, <2>2, <1>2, <1>4 DEF q
<1>6. \A k, l \in 1..Len(p) : p[k] = p[l] => k = l
  BY <1>1, <1>3, <1>4
<1>7. \A r \in Request : st'[r] = "waiting" => \E k \in 1..Len(p) : p[k] = r
  <2> SUFFICES ASSUME NEW r \in Request, st'[r] = "waiting"
               PROVE  \E k \in 1..Len(p) : p[k] = r
    OBVIOUS
  <2>1. r # q[i] /\ st[r] = "waiting"
    BY <1>2, <1>4 DEF q
  <2>2. PICK l \in 1..Len(q) : q[l] = r
    BY <2>1 DEF QueueIsWaiters, q
  <2>3. l # i
    BY <2>1, <2>2
  <2>4. CASE l < i
    BY <2>2, <2>4, <1>1, <1>4
  <2>5. CASE l > i
    <3>1. l - 1 \in 1..Len(p) /\ p[l - 1] = q[(l - 1) + 1]
      BY <2>5, <1>1, <1>4
    <3> QED
      BY <3>1, <2>2
  <2> QED
    BY <2>3, <2>4, <2>5, <1>4
<1> QED
  BY <1>5, <1>6, <1>7 DEF QueueIsWaiters, p

LEMMA QueueStep == TypeOK /\ QueueIsWaiters /\ [Next]_vars => QueueIsWaiters'
<1> SUFFICES ASSUME TypeOK, QueueIsWaiters, [Next]_vars PROVE QueueIsWaiters'
  OBVIOUS
<1>1. ASSUME NEW r \in Request, AcquireRefused(r) PROVE QueueIsWaiters'
  BY <1>1, QueueKept DEF AcquireRefused, Reject, Settled
<1>2. ASSUME NEW r \in Request, NEW size \in Sizes, AcquireGranted(r, size)
      PROVE  QueueIsWaiters'
  BY <1>2, QueueKept DEF AcquireGranted, grantUpstreamLease, Settled
<1>3. ASSUME NEW r \in Request, NEW size \in Sizes, AcquireQueued(r, size)
      PROVE  QueueIsWaiters'
  <2>1. st[r] # "waiting"
    BY <1>3 DEF AcquireQueued, Settled
  <2>2. CASE Reject(r) /\ UNCHANGED waitingUpstream
    BY <2>1, <2>2, QueueKept DEF Reject
  <2>3. CASE st' = [st EXCEPT ![r] = "waiting"] /\ waitingUpstream' = Append(waitingUpstream, r)
    BY <2>1, <2>3 DEF TypeOK, QueueIsWaiters
  <2> QED
    BY <1>3, <2>2, <2>3 DEF AcquireQueued
<1>4. ASSUME NEW r \in Request, Release(r) PROVE QueueIsWaiters'
  <2>1. waitingUpstream' = waitingUpstream
    BY <1>4 DEF Release
  <2>2. CASE st[r] = "leased" /\ st' = [st EXCEPT ![r] = "released"]
    BY <2>1, <2>2, QueueKept
  <2>3. CASE st' = st
    BY <2>1, <2>3 DEF QueueIsWaiters
  <2> QED
    BY <1>4, <2>2, <2>3 DEF Release
<1>5. ASSUME NEW i \in 1..Len(waitingUpstream), WaiterGone(i) PROVE QueueIsWaiters'
  BY <1>5, QueueRemoved DEF WaiterGone, Reject, removeUpstreamWaiter
<1>6. ASSUME NEW i \in 1..Len(waitingUpstream), Age(i) PROVE QueueIsWaiters'
  BY <1>6 DEF Age, QueueIsWaiters
<1>7. CASE Configure
  BY <1>7 DEF Configure, QueueIsWaiters
<1>8. CASE Shutdown
  <2>1. waitingUpstream' = <<>> /\ \A r \in Request : st'[r] # "waiting"
    BY <1>8 DEF Shutdown, TypeOK
  <2> QED
    BY <2>1 DEF QueueIsWaiters
<1>9. CASE PumpGrantHead
  <2>1. 1 \in 1..Len(waitingUpstream) /\ Head(waitingUpstream) = waitingUpstream[1]
    BY <1>9 DEF PumpGrantHead, TypeOK
  <2> QED
    BY <1>9, <2>1, QueueRemoved DEF PumpGrantHead, grantUpstreamLease, removeUpstreamWaiter
<1>10. ASSUME NEW i \in 2..Len(waitingUpstream), PumpBypass(i) PROVE QueueIsWaiters'
  <2>1. i \in 1..Len(waitingUpstream)
    BY DEF TypeOK
  <2>2. /\ st' = [st EXCEPT ![waitingUpstream[i]] = "leased"]
        /\ waitingUpstream' = RemoveAt(waitingUpstream, i)
    BY <1>10 DEF PumpBypass, grantUpstreamLease, removeUpstreamWaiter
  <2> QED
    BY <2>1, <2>2, QueueRemoved
<1>11. CASE PumpReturn
  BY <1>11 DEF PumpReturn, QueueIsWaiters
<1>12. CASE UNCHANGED vars
  BY <1>12 DEF vars, QueueIsWaiters
<1>13. ASSUME NEW r \in Request, Acquire(r) PROVE QueueIsWaiters'
  BY <1>1, <1>2, <1>3, <1>13 DEF Acquire
<1>14. CASE pumpUpstream
  BY <1>9, <1>10, <1>11, <1>14 DEF pumpUpstream
<1> QED
  BY <1>4, <1>5, <1>6, <1>7, <1>8, <1>12, <1>13, <1>14 DEF Next

\* Every waiter is in the queue exactly once and nothing else is, so it is
\* settled exactly once whoever comes first: pump, timer, signal or shutdown.
THEOREM QueueCorrect == Spec => []QueueIsWaiters
<1>1. Init => QueueIsWaiters
  BY DEF Init, QueueIsWaiters
<1> QED
  BY <1>1, TypeCorrect, QueueStep, PTL DEF Spec

\* The state stays well formed: typed, with a queue that lists each waiter once.
THEOREM StateWellFormed == Spec => []WellFormed
BY TypeCorrect, QueueCorrect, PTL DEF WellFormed

----------------------------------------------------------------------------
\* No lost wake-up

LEMMA QueueTypes ==
    ASSUME TypeOK
    PROVE  /\ Len(waitingUpstream) \in Nat
           /\ budget \in Nat \ {0}
           /\ activeUpstreamWeight \in Nat
           /\ \A i \in 1..Len(waitingUpstream) :
                 waitingUpstream[i] \in Request /\ weight[waitingUpstream[i]] \in Nat
<1>1. \A i \in 1..Len(waitingUpstream) : waitingUpstream[i] \in Request
  BY DEF TypeOK
<1>2. \A r \in Request : weight[r] \in Nat
  <2>1. weight \in [Request -> 0..MaxWeight]
    BY DEF TypeOK
  <2> QED
    BY <2>1 DEF MaxWeight
<1> QED
  BY <1>1, <1>2, BudgetAssumption DEF TypeOK

\* Steps that leave the queue and its weights alone and free no budget wake
\* nobody, and need not.
LEMMA WakeupKept ==
    ASSUME TypeOK, NoLostWakeup, ~pumping,
           activeUpstreamWeight' \in Nat, activeUpstreamWeight' >= activeUpstreamWeight,
           waitingUpstream' = waitingUpstream, budget' = budget, policy' = policy,
           \A i \in 1..Len(waitingUpstream) :
              weight'[waitingUpstream[i]] = weight[waitingUpstream[i]],
           isHeadReserved(Head(waitingUpstream)) => isHeadReserved(Head(waitingUpstream))'
    PROVE  NoLostWakeup'
<1> SUFFICES ASSUME waitingUpstream # <<>>
             PROVE  /\ ~canGrantUpstream(headWeight)'
                    /\ (policy = "bounded_fit" /\ ~isHeadReserved(Head(waitingUpstream))')
                          => FitCandidates' = {}
  BY DEF NoLostWakeup
<1>1. 1 \in 1..Len(waitingUpstream) /\ Head(waitingUpstream) = waitingUpstream[1]
  BY DEF TypeOK
<1>2. ~canGrantUpstream(headWeight)
  BY DEF NoLostWakeup
<1>5. \A i \in 1..Len(waitingUpstream) :
         canGrantUpstream(effectiveWaiterWeight(weight[waitingUpstream[i]]))'
            => canGrantUpstream(effectiveWaiterWeight(weight[waitingUpstream[i]]))
  <2> SUFFICES ASSUME NEW i \in 1..Len(waitingUpstream)
               PROVE  canGrantUpstream(effectiveWaiterWeight(weight[waitingUpstream[i]]))'
                         => canGrantUpstream(effectiveWaiterWeight(weight[waitingUpstream[i]]))
    OBVIOUS
  <2>1. PICK w \in Nat : weight[waitingUpstream[i]] = w /\ weight'[waitingUpstream'[i]] = w
    BY QueueTypes
  <2> QED
    BY <2>1, QueueTypes DEF canGrantUpstream, effectiveWaiterWeight, Least
<1>3. ~canGrantUpstream(headWeight)'
  BY <1>1, <1>2, <1>5 DEF headWeight
<1>4. FitCandidates' \subseteq FitCandidates
  BY <1>5, QueueTypes DEF FitCandidates
<1> QED
  BY <1>3, <1>4 DEF NoLostWakeup

\* A newcomer that does not fit goes to the end and makes nobody admissible.
LEMMA WakeupAppended ==
    ASSUME TypeOK, QueueIsWaiters, NoLostWakeup, ~pumping,
           NEW r \in Request, NEW size \in Sizes, AcquireQueued(r, size),
           waitingUpstream' = Append(waitingUpstream, r),
           weight' = [weight EXCEPT ![r] = upstreamWeightForSize(size, budget)]
    PROVE  NoLostWakeup'
<1> DEFINE w == upstreamWeightForSize(size, budget)
           q == waitingUpstream
<1>1. /\ w \in Nat
      /\ w <= budget
      /\ budget \in Nat
      /\ activeUpstreamWeight \in Nat
      /\ Len(q) \in Nat
      /\ \A i \in 1..Len(q) : q[i] \in Request /\ weight[q[i]] \in Nat
  <2>1. w \in Nat /\ w <= budget
    BY QueueTypes DEF upstreamWeightForSize, Sizes, Least
  <2> QED
    BY <2>1, QueueTypes
<1>2. /\ budget' = budget /\ policy' = policy
      /\ activeUpstreamWeight' = activeUpstreamWeight
      /\ bypassCount' = bypassCount /\ aged' = aged
      /\ ~canGrantUpstream(w)
      /\ st[r] \in Settled
  BY DEF AcquireQueued, config, counters
<1>3. \A i \in 1..Len(q) : q[i] # r
  BY <1>2 DEF QueueIsWaiters, Settled
<1>4. /\ Len(q') = Len(q) + 1
      /\ \A i \in 1..Len(q) : q'[i] = q[i] /\ weight'[q[i]] = weight[q[i]]
      /\ q'[Len(q) + 1] = r /\ weight'[r] = w
      /\ q' # <<>> /\ Head(q') = q'[1]
  BY <1>3 DEF TypeOK
<1>5. ASSUME NEW i \in 1..Len(q) + 1,
             i <= Len(q) => ~canGrantUpstream(effectiveWaiterWeight(weight[q[i]]))
      PROVE  ~canGrantUpstream(effectiveWaiterWeight(weight[q[i]]))'
  <2>1. CASE i <= Len(q)
    BY <2>1, <1>1, <1>2, <1>4, <1>5 DEF canGrantUpstream, effectiveWaiterWeight, Least
  <2>2. CASE i = Len(q) + 1
    BY <2>2, <1>1, <1>2, <1>4 DEF canGrantUpstream, effectiveWaiterWeight, Least
  <2> QED
    BY <2>1, <2>2, <1>1
<1>6. CASE q = <<>>
  <2>1. ~canGrantUpstream(headWeight)'
    BY <1>1, <1>4, <1>5, <1>6 DEF headWeight
  <2>2. FitCandidates' = {}
    BY <1>1, <1>4, <1>6 DEF FitCandidates
  <2> QED
    BY <2>1, <2>2 DEF NoLostWakeup
<1>7. CASE q # <<>>
  <2>1. Head(q') = Head(q) /\ Head(q) = q[1] /\ 1 \in 1..Len(q)
    BY <1>1, <1>4, <1>7 DEF TypeOK
  <2>2. ~canGrantUpstream(headWeight)'
    BY <1>1, <1>4, <1>5, <1>7, <2>1 DEF headWeight, NoLostWakeup
  <2>3. ASSUME policy' = "bounded_fit", ~isHeadReserved(Head(q))' PROVE FitCandidates' = {}
    <3>1. FitCandidates = {}
      BY <1>2, <1>7, <2>1, <2>3 DEF NoLostWakeup, isHeadReserved
    <3>2. \A i \in 2..Len(q) + 1 : i <= ScanWindow + 1 =>
             ~canGrantUpstream(effectiveWaiterWeight(weight[q[i]]))'
      BY <1>1, <1>5, <3>1 DEF FitCandidates
    <3> QED
      BY <1>4, <3>2 DEF FitCandidates
  <2> QED
    BY <2>2, <2>3 DEF NoLostWakeup
<1> QED
  BY <1>6, <1>7

LEMMA WakeupStep ==
    TypeOK /\ TypeOK' /\ QueueIsWaiters /\ NoLostWakeup /\ [Next]_vars => NoLostWakeup'
<1> SUFFICES ASSUME TypeOK, TypeOK', QueueIsWaiters, NoLostWakeup, [Next]_vars
             PROVE  NoLostWakeup'
  OBVIOUS
<1> USE QueueTypes
<1>0. CASE pumping'
  BY <1>0 DEF NoLostWakeup
<1>1. ASSUME NEW r \in Request, AcquireRefused(r) PROVE NoLostWakeup'
  <2>1. \A i \in 1..Len(waitingUpstream) : waitingUpstream[i] # r
    BY <1>1 DEF AcquireRefused, QueueIsWaiters, Settled
  <2>2. \A i \in 1..Len(waitingUpstream) :
           weight'[waitingUpstream[i]] = weight[waitingUpstream[i]]
    BY <1>1, <2>1 DEF AcquireRefused, Reject, TypeOK
  <2> QED
    BY <1>1, <2>2, WakeupKept DEF AcquireRefused, config, counters, isHeadReserved
<1>2. ASSUME NEW r \in Request, NEW size \in Sizes, AcquireGranted(r, size)
      PROVE  NoLostWakeup'
  <2>1. \A i \in 1..Len(waitingUpstream) : waitingUpstream[i] # r
    BY <1>2 DEF AcquireGranted, QueueIsWaiters, Settled
  <2>2. \A i \in 1..Len(waitingUpstream) :
           weight'[waitingUpstream[i]] = weight[waitingUpstream[i]]
    BY <1>2, <2>1 DEF AcquireGranted, grantUpstreamLease, TypeOK
  <2>3. upstreamWeightForSize(size, budget) \in 1..MaxWeight
    BY WeightFacts
  <2>4. activeUpstreamWeight' \in Nat /\ activeUpstreamWeight' >= activeUpstreamWeight
    BY <1>2, <2>3 DEF AcquireGranted, grantUpstreamLease, MaxWeight
  <2> QED
    BY <1>2, <2>2, <2>4, WakeupKept DEF AcquireGranted, config, isHeadReserved
<1>3. ASSUME NEW r \in Request, NEW size \in Sizes, AcquireQueued(r, size)
      PROVE  NoLostWakeup'
  <2>1. CASE Reject(r) /\ UNCHANGED waitingUpstream
    <3>1. \A i \in 1..Len(waitingUpstream) : waitingUpstream[i] # r
      BY <1>3 DEF AcquireQueued, QueueIsWaiters, Settled
    <3>2. \A i \in 1..Len(waitingUpstream) :
             weight'[waitingUpstream[i]] = weight[waitingUpstream[i]]
      BY <2>1, <3>1 DEF Reject, TypeOK
    <3> QED
      BY <1>3, <2>1, <3>2, WakeupKept DEF AcquireQueued, config, counters, isHeadReserved
  <2>2. CASE /\ waitingUpstream' = Append(waitingUpstream, r)
             /\ weight' = [weight EXCEPT ![r] = upstreamWeightForSize(size, budget)]
    BY <1>3, <2>2, WakeupAppended DEF AcquireQueued
  <2> QED
    BY <1>3, <2>1, <2>2 DEF AcquireQueued
<1>4. ASSUME NEW r \in Request, Release(r) PROVE NoLostWakeup'
  <2>1. CASE pumping' = TRUE
    BY <1>0, <2>1
  <2>2. CASE UNCHANGED <<st, weight, counters, pumping>>
    BY <1>4, <2>2, WakeupKept DEF Release, config, counters, isHeadReserved
  <2> QED
    BY <1>4, <2>1, <2>2 DEF Release
<1>5. ASSUME NEW i \in 1..Len(waitingUpstream), WaiterGone(i) PROVE NoLostWakeup'
  BY <1>0, <1>5 DEF WaiterGone
<1>6. ASSUME NEW i \in 1..Len(waitingUpstream), Age(i) PROVE NoLostWakeup'
  <2>1. aged[Head(waitingUpstream)] => aged'[Head(waitingUpstream)]
    BY <1>6 DEF Age, TypeOK
  <2>2. isHeadReserved(Head(waitingUpstream)) => isHeadReserved(Head(waitingUpstream))'
    BY <1>6, <2>1 DEF Age, isHeadReserved
  <2> QED
    BY <1>6, <2>2, WakeupKept DEF Age, config, counters
<1>7. CASE Configure
  BY <1>0, <1>7 DEF Configure
<1>8. CASE Shutdown
  BY <1>8 DEF Shutdown, NoLostWakeup
<1>9. CASE PumpGrantHead
  BY <1>0, <1>9 DEF PumpGrantHead
<1>10. ASSUME NEW i \in 2..Len(waitingUpstream), PumpBypass(i) PROVE NoLostWakeup'
  BY <1>0, <1>10 DEF PumpBypass
<1>11. CASE PumpReturn
  <2>1. UNCHANGED <<budget, policy, weight, bypassCount, aged, waitingUpstream,
                    activeUpstreamWeight>>
    BY <1>11 DEF PumpReturn, config, counters
  <2>2. waitingUpstream # <<>> => ~canGrantUpstream(headWeight)
    BY <1>11 DEF PumpReturn
  <2>3. mayBypass => FitCandidates = {}
    BY <1>11 DEF PumpReturn
  <2>4. /\ canGrantUpstream(headWeight)' = canGrantUpstream(headWeight)
        /\ FitCandidates' = FitCandidates
        /\ isHeadReserved(Head(waitingUpstream))' = isHeadReserved(Head(waitingUpstream))
    BY <2>1 DEF canGrantUpstream, headWeight, effectiveWaiterWeight, FitCandidates,
                isHeadReserved
  <2> QED
    BY <2>1, <2>2, <2>3, <2>4 DEF NoLostWakeup, mayBypass
<1>12. CASE UNCHANGED vars
  BY <1>12 DEF vars, NoLostWakeup, canGrantUpstream, headWeight, effectiveWaiterWeight,
               FitCandidates, isHeadReserved
<1>13. ASSUME NEW r \in Request, Acquire(r) PROVE NoLostWakeup'
  BY <1>1, <1>2, <1>3, <1>13 DEF Acquire
<1>14. CASE pumpUpstream
  BY <1>9, <1>10, <1>11, <1>14 DEF pumpUpstream
<1> QED
  BY <1>4, <1>5, <1>6, <1>7, <1>8, <1>12, <1>13, <1>14 DEF Next

\* No waiter that could be granted is left waiting when the handlers are at
\* rest: every event that frees budget or shortens the queue ends in a pump,
\* and the pump stops only when nobody it may grant fits.
THEOREM NoWakeupIsLost == Spec => []NoLostWakeup
<1>1. Init => NoLostWakeup
  BY DEF Init, NoLostWakeup
<1> QED
  BY <1>1, TypeCorrect, QueueCorrect, WakeupStep, PTL DEF Spec

----------------------------------------------------------------------------
\* Accounting

LEMMA UnitsOfOneLease ==
    ASSUME NEW r, NEW w \in 0..MaxWeight
    PROVE  IsFiniteSet({r} \X (1..w)) /\ Cardinality({r} \X (1..w)) = w
<1>1. w \in Nat
  BY DEF MaxWeight
<1>2. IsFiniteSet(1..w) /\ Cardinality(1..w) = w
  <2>1. Cardinality(1..w) = IF 1 > w THEN 0 ELSE w - 1 + 1
    BY <1>1, FS_Interval
  <2>2. IsFiniteSet(1..w)
    BY <1>1, FS_Interval
  <2> QED
    BY <1>1, <2>1, <2>2
<1>3. IsFiniteSet({r}) /\ Cardinality({r}) = 1
  BY FS_Singleton
<1>4. Cardinality({r} \X (1..w)) = Cardinality({r}) * Cardinality(1..w)
  BY <1>2, <1>3, FS_Product
<1>5. IsFiniteSet({r} \X (1..w))
  BY <1>2, <1>3, FS_Product
<1> QED
  BY <1>1, <1>2, <1>3, <1>4, <1>5

LEMMA HeldFinite == IsFiniteSet(HeldUnits) /\ IsFiniteSet(Leased)
<1>1. IsFiniteSet(Request \X (1..MaxWeight))
  <2>1. IsFiniteSet(1..MaxWeight)
    <3>1. 1 \in Int /\ MaxWeight \in Int
      BY DEF MaxWeight
    <3> QED
      BY <3>1, FS_Interval
  <2> QED
    BY <2>1, RequestAssumption, FS_Product
<1>2. HeldUnits \subseteq Request \X (1..MaxWeight) /\ Leased \subseteq Request
  BY DEF HeldUnits, Leased
<1> QED
  BY <1>1, <1>2, RequestAssumption, FS_Subset

\* A new lease of weight w adds w units and one lease.
LEMMA HeldGrow ==
    ASSUME TypeOK, NEW r \in Request, NEW w \in 0..MaxWeight, st[r] # "leased",
           st' = [st EXCEPT ![r] = "leased"], weight' = [weight EXCEPT ![r] = w]
    PROVE  /\ Cardinality(HeldUnits') = Cardinality(HeldUnits) + w
           /\ Cardinality(Leased') = Cardinality(Leased) + 1
<1> DEFINE U == {r} \X (1..w)
<1>1. IsFiniteSet(U) /\ Cardinality(U) = w
  BY UnitsOfOneLease
<1>2. HeldUnits' = HeldUnits \cup U
  BY DEF HeldUnits, TypeOK, MaxWeight
<1>3. HeldUnits \cap U = {}
  BY DEF HeldUnits
<1>4. Leased' = Leased \cup {r} /\ r \notin Leased
  BY DEF Leased, TypeOK
<1>5. Cardinality(HeldUnits \cup U) = Cardinality(HeldUnits) + Cardinality(U)
                                       - Cardinality(HeldUnits \cap U)
  BY <1>1, HeldFinite, FS_Union
<1>6. Cardinality(HeldUnits) \in Nat
  BY HeldFinite, FS_CardinalityType
<1>7. Cardinality(HeldUnits') = Cardinality(HeldUnits) + w
  <2>1. Cardinality(HeldUnits \cap U) = 0
    BY <1>3, FS_EmptySet
  <2> HIDE DEF U
  <2> QED
    BY <1>1, <1>2, <1>5, <1>6, <2>1 DEF MaxWeight
<1>8. Cardinality(Leased') = Cardinality(Leased) + 1
  BY <1>4, HeldFinite, FS_AddElement
<1> QED
  BY <1>7, <1>8

\* A released lease gives back exactly the units it held.
LEMMA HeldShrink ==
    ASSUME TypeOK, NEW r \in Request, st[r] = "leased",
           st' = [st EXCEPT ![r] = "released"], weight' = [weight EXCEPT ![r] = 0]
    PROVE  /\ Cardinality(HeldUnits') = Cardinality(HeldUnits) - weight[r]
           /\ Cardinality(HeldUnits) >= weight[r]
           /\ Cardinality(Leased') = Cardinality(Leased) - 1
           /\ Cardinality(Leased) >= 1
<1> DEFINE U == {r} \X (1..weight[r])
<1>0. weight[r] \in 0..MaxWeight
  BY DEF TypeOK
<1>1. IsFiniteSet(U) /\ Cardinality(U) = weight[r]
  BY <1>0, UnitsOfOneLease
<1>2. HeldUnits = HeldUnits' \cup U
  BY <1>0 DEF HeldUnits, TypeOK, MaxWeight
<1>3. HeldUnits' \cap U = {}
  BY DEF HeldUnits, TypeOK
<1>4. Leased' = Leased \ {r} /\ r \in Leased
  BY DEF Leased, TypeOK
<1>5. IsFiniteSet(HeldUnits')
  BY <1>2, HeldFinite, FS_Subset
<1>6. Cardinality(HeldUnits' \cup U) = Cardinality(HeldUnits') + Cardinality(U)
                                        - Cardinality(HeldUnits' \cap U)
  BY <1>1, <1>5, FS_Union
<1>7. Cardinality(HeldUnits') \in Nat
  BY <1>5, FS_CardinalityType
<1>8. Cardinality(HeldUnits) = Cardinality(HeldUnits') + weight[r]
  <2>1. Cardinality(HeldUnits' \cap U) = 0
    BY <1>3, FS_EmptySet
  <2> HIDE DEF U
  <2> QED
    BY <1>0, <1>1, <1>2, <1>6, <1>7, <2>1 DEF MaxWeight
<1>9. /\ Cardinality(Leased') = Cardinality(Leased) - 1
      /\ Cardinality(Leased) >= 1
  <2>1. IsFiniteSet(Leased \ {r}) /\ Cardinality(Leased \ {r}) = Cardinality(Leased) - 1
    BY <1>4, HeldFinite, FS_RemoveElement
  <2>2. Cardinality(Leased \ {r}) \in Nat /\ Cardinality(Leased) \in Nat
    BY <2>1, HeldFinite, FS_CardinalityType
  <2> QED
    BY <1>4, <2>1, <2>2
<1> QED
  BY <1>0, <1>7, <1>8, <1>9 DEF MaxWeight

\* A request that holds no lease before and after a step holds no units.
LEMMA HeldSame ==
    ASSUME TypeOK, NEW r \in Request, NEW x, NEW w, st[r] # "leased", x # "leased",
           st' = [st EXCEPT ![r] = x], weight' = [weight EXCEPT ![r] = w]
    PROVE  HeldUnits' = HeldUnits /\ Leased' = Leased
BY DEF HeldUnits, Leased, TypeOK

LEMMA CountersStep ==
    TypeOK /\ QueueIsWaiters /\ CountersMatchLeases /\ [Next]_vars => CountersMatchLeases'
<1> SUFFICES ASSUME TypeOK, QueueIsWaiters, CountersMatchLeases, [Next]_vars
             PROVE  CountersMatchLeases'
  OBVIOUS
<1>1. ASSUME HeldUnits' = HeldUnits, Leased' = Leased, UNCHANGED counters
      PROVE  CountersMatchLeases'
  BY <1>1 DEF CountersMatchLeases, counters
<1>2. ASSUME NEW r \in Request, NEW w \in 0..MaxWeight, st[r] # "leased",
             grantUpstreamLease(r, w)
      PROVE  CountersMatchLeases'
  BY <1>2, HeldGrow DEF CountersMatchLeases, grantUpstreamLease
<1>3. ASSUME NEW r \in Request, st[r] # "leased", Reject(r), UNCHANGED counters
      PROVE  CountersMatchLeases'
  BY <1>1, <1>3, HeldSame DEF Reject
<1>4. ASSUME NEW r \in Request, Acquire(r) PROVE CountersMatchLeases'
  <2>1. CASE AcquireRefused(r)
    BY <1>3, <2>1 DEF AcquireRefused, Settled
  <2>2. ASSUME NEW size \in Sizes, AcquireGranted(r, size) PROVE CountersMatchLeases'
    <3>1. upstreamWeightForSize(size, budget) \in 0..MaxWeight
      BY WeightFacts, QueueTypes DEF MaxWeight
    <3> QED
      BY <1>2, <2>2, <3>1 DEF AcquireGranted, Settled
  <2>3. ASSUME NEW size \in Sizes, AcquireQueued(r, size) PROVE CountersMatchLeases'
    <3>1. st[r] # "leased" /\ UNCHANGED counters
      BY <2>3 DEF AcquireQueued, Settled
    <3>2. CASE Reject(r)
      BY <1>3, <3>1, <3>2
    <3>3. CASE /\ st' = [st EXCEPT ![r] = "waiting"]
               /\ weight' = [weight EXCEPT ![r] = upstreamWeightForSize(size, budget)]
      BY <1>1, <3>1, <3>3, HeldSame
    <3> QED
      BY <2>3, <3>2, <3>3 DEF AcquireQueued
  <2> QED
    BY <1>4, <2>1, <2>2, <2>3 DEF Acquire
<1>5. ASSUME NEW r \in Request, Release(r) PROVE CountersMatchLeases'
  <2>1. CASE /\ st[r] = "leased"
             /\ st' = [st EXCEPT ![r] = "released"]
             /\ weight' = [weight EXCEPT ![r] = 0]
             /\ giveBack(r)
    <3>1. weight[r] \in Nat /\ Cardinality(Leased) \in Nat /\ Cardinality(HeldUnits) \in Nat
      <4>1. weight \in [Request -> 0..MaxWeight]
        BY DEF TypeOK
      <4> QED
        BY <4>1, HeldFinite, FS_CardinalityType DEF MaxWeight
    <3>2. /\ Cardinality(HeldUnits') = Cardinality(HeldUnits) - weight[r]
          /\ Cardinality(HeldUnits) >= weight[r]
          /\ Cardinality(Leased') = Cardinality(Leased) - 1
          /\ Cardinality(Leased) >= 1
      BY <2>1, HeldShrink
    <3>3. /\ activeUpstreams' = AtLeastZero(Cardinality(Leased) - 1)
          /\ activeUpstreamWeight' = AtLeastZero(Cardinality(HeldUnits) - weight[r])
      BY <2>1 DEF giveBack, CountersMatchLeases
    <3>4. activeUpstreams' = Cardinality(Leased')
      BY <3>1, <3>2, <3>3 DEF AtLeastZero
    <3>5. activeUpstreamWeight' = Cardinality(HeldUnits')
      BY <3>1, <3>2, <3>3 DEF AtLeastZero
    <3> QED
      BY <3>4, <3>5 DEF CountersMatchLeases
  <2>2. CASE UNCHANGED <<st, weight, counters, pumping>>
    BY <1>1, <2>2 DEF HeldUnits, Leased
  <2> QED
    BY <1>5, <2>1, <2>2 DEF Release
<1>6. ASSUME NEW i \in 1..Len(waitingUpstream), WaiterGone(i) PROVE CountersMatchLeases'
  <2>1. waitingUpstream[i] \in Request /\ st[waitingUpstream[i]] # "leased"
    BY DEF QueueIsWaiters, TypeOK
  <2> QED
    BY <1>3, <1>6, <2>1 DEF WaiterGone
<1>7. ASSUME NEW i \in 1..Len(waitingUpstream), Age(i) PROVE CountersMatchLeases'
  BY <1>1, <1>7 DEF Age, HeldUnits, Leased
<1>8. CASE Configure
  BY <1>1, <1>8 DEF Configure, HeldUnits, Leased
<1>9. CASE Shutdown
  <2>1. /\ UNCHANGED counters
        /\ \A r \in Request : /\ st'[r] = "leased" <=> st[r] = "leased"
                              /\ st[r] = "leased" => weight'[r] = weight[r]
    BY <1>9 DEF Shutdown, TypeOK
  <2> QED
    BY <1>1, <2>1 DEF HeldUnits, Leased
<1>10. CASE PumpGrantHead
  <2>1. Head(waitingUpstream) = waitingUpstream[1] /\ 1 \in 1..Len(waitingUpstream)
    BY <1>10 DEF PumpGrantHead, TypeOK
  <2>2. Head(waitingUpstream) \in Request /\ st[Head(waitingUpstream)] # "leased"
    BY <2>1 DEF QueueIsWaiters, TypeOK
  <2>3. headWeight \in 0..MaxWeight
    <3>1. weight[Head(waitingUpstream)] \in 0..MaxWeight /\ budget \in Nat
      BY <2>2, QueueTypes DEF TypeOK
    <3> QED
      BY <3>1 DEF headWeight, effectiveWaiterWeight, Least, MaxWeight
  <2> QED
    BY <1>2, <1>10, <2>2, <2>3 DEF PumpGrantHead
<1>11. ASSUME NEW i \in 2..Len(waitingUpstream), PumpBypass(i) PROVE CountersMatchLeases'
  <2>1. i \in 1..Len(waitingUpstream)
    BY QueueTypes
  <2>2. waitingUpstream[i] \in Request /\ st[waitingUpstream[i]] # "leased"
    BY <2>1 DEF QueueIsWaiters, TypeOK
  <2>3. effectiveWaiterWeight(weight[waitingUpstream[i]]) \in 0..MaxWeight
    <3>1. weight[waitingUpstream[i]] \in 0..MaxWeight /\ budget \in Nat
      BY <2>2, QueueTypes DEF TypeOK
    <3> QED
      BY <3>1 DEF effectiveWaiterWeight, Least, MaxWeight
  <2> QED
    BY <1>2, <1>11, <2>2, <2>3 DEF PumpBypass
<1>12. CASE PumpReturn
  BY <1>1, <1>12 DEF PumpReturn, HeldUnits, Leased
<1>13. CASE UNCHANGED vars
  BY <1>1, <1>13 DEF vars, counters, HeldUnits, Leased
<1>14. CASE pumpUpstream
  BY <1>10, <1>11, <1>12, <1>14 DEF pumpUpstream
<1> QED
  BY <1>4, <1>5, <1>6, <1>7, <1>8, <1>9, <1>13, <1>14 DEF Next

\* The counters of the coordinator equal the number and the total weight of the
\* leases that exist, whatever releases are repeated and budgets changed.
THEOREM CountersCorrect == Spec => []CountersMatchLeases
<1>1. Init => CountersMatchLeases
  <2> SUFFICES ASSUME Init PROVE CountersMatchLeases
    OBVIOUS
  <2>1. HeldUnits = {} /\ Leased = {}
    BY DEF Init, HeldUnits, Leased
  <2> QED
    BY <2>1, FS_EmptySet DEF Init, CountersMatchLeases
<1> QED
  BY <1>1, TypeCorrect, QueueCorrect, CountersStep, PTL DEF Spec

----------------------------------------------------------------------------
\* What a step may never do

\* Only a grant adds a lease, and every grant is checked against the budget.
LEMMA GrantStep ==
    ASSUME TypeOK, [Next]_vars, ~(Leased' \subseteq Leased)
    PROVE  activeUpstreamWeight' <= budget' /\ (shuttingDown => waitingUpstream # <<>>)
<1>1. ASSUME NEW r \in Request, NEW w, grantUpstreamLease(r, w), canGrantUpstream(w),
             budget' = budget
      PROVE  activeUpstreamWeight' <= budget'
  BY <1>1 DEF grantUpstreamLease, canGrantUpstream
<1>2. ASSUME NEW r \in Request, NEW x, x # "leased", st' = [st EXCEPT ![r] = x]
      PROVE  FALSE
  BY <1>2 DEF Leased, TypeOK
<1>3. ASSUME NEW r \in Request, Acquire(r)
      PROVE  activeUpstreamWeight' <= budget' /\ ~shuttingDown
  <2>1. CASE AcquireRefused(r)
    BY <1>2, <2>1 DEF AcquireRefused, Reject
  <2>2. ASSUME NEW size \in Sizes, AcquireGranted(r, size)
        PROVE  activeUpstreamWeight' <= budget' /\ ~shuttingDown
    BY <1>1, <2>2 DEF AcquireGranted, config
  <2>3. ASSUME NEW size \in Sizes, AcquireQueued(r, size) PROVE FALSE
    BY <1>2, <2>3 DEF AcquireQueued, Reject
  <2> QED
    BY <1>3, <2>1, <2>2, <2>3 DEF Acquire
<1>4. ASSUME NEW r \in Request, Release(r) PROVE FALSE
  <2>1. CASE st' = st
    BY <2>1 DEF Leased
  <2> QED
    BY <1>2, <1>4, <2>1 DEF Release
<1>5. ASSUME NEW i \in 1..Len(waitingUpstream), WaiterGone(i) PROVE FALSE
  <2>1. waitingUpstream[i] \in Request
    BY DEF TypeOK
  <2> QED
    BY <1>2, <1>5, <2>1 DEF WaiterGone, Reject
<1>6. ASSUME NEW i \in 1..Len(waitingUpstream), Age(i) PROVE FALSE
  BY <1>6 DEF Age, Leased
<1>7. CASE Configure
  BY <1>7 DEF Configure, Leased
<1>8. CASE Shutdown
  BY <1>8 DEF Shutdown, Leased, TypeOK
<1>9. CASE PumpGrantHead
  <2>1. Head(waitingUpstream) \in Request
    BY <1>9, HeadTailProperties DEF PumpGrantHead, TypeOK
  <2> QED
    BY <1>1, <1>9, <2>1 DEF PumpGrantHead, config
<1>10. ASSUME NEW i \in 2..Len(waitingUpstream), PumpBypass(i)
       PROVE  activeUpstreamWeight' <= budget' /\ waitingUpstream # <<>>
  <2>1. waitingUpstream[i] \in Request
    <3>1. i \in 1..Len(waitingUpstream)
      BY QueueTypes
    <3> QED
      BY <3>1, QueueTypes
  <2>2. canGrantUpstream(effectiveWaiterWeight(weight[waitingUpstream[i]]))
    BY <1>10 DEF PumpBypass, isFitCandidate, FitCandidates
  <2> QED
    BY <1>1, <1>10, <2>1, <2>2 DEF PumpBypass, mayBypass, config
<1>11. CASE PumpReturn
  BY <1>11 DEF PumpReturn, Leased
<1>12. CASE UNCHANGED vars
  BY <1>12 DEF vars, Leased
<1>13. CASE pumpUpstream
  BY <1>9, <1>10, <1>11, <1>13 DEF pumpUpstream, PumpGrantHead
<1> QED
  BY <1>3, <1>4, <1>5, <1>6, <1>7, <1>8, <1>12, <1>13 DEF Next

\* Whenever a lease is granted, the leases that exist then fit the budget then
\* in force, for any number of requests and any history of budget changes.
THEOREM GrantsFit == Spec => GrantFitsBudget
<1>1. TypeOK /\ CountersMatchLeases' /\ [Next]_vars
         => [~(Leased' \subseteq Leased) => Cardinality(HeldUnits') <= budget']_vars
  BY GrantStep DEF CountersMatchLeases
<1> QED
  BY <1>1, TypeCorrect, CountersCorrect, PTL DEF Spec, GrantFitsBudget

\* A waiter that gets its lease while an earlier one goes on waiting got it by a
\* bypass, which asked for the policy, the age and the count of the head.
LEMMA BypassStep ==
    ASSUME TypeOK, QueueIsWaiters, [Next]_vars,
           NEW j \in 1..Len(waitingUpstream),
           st[waitingUpstream[j]] = "waiting", st'[waitingUpstream[j]] = "leased",
           NEW i \in 1..j - 1
    PROVE  /\ policy = "bounded_fit" /\ ~aged[waitingUpstream[1]]
           /\ bypassCount'[waitingUpstream[1]] = bypassCount[waitingUpstream[1]] + 1
           /\ bypassCount'[waitingUpstream[1]] <= MaxHeadBypass
<1> DEFINE Goal == /\ policy = "bounded_fit" /\ ~aged[waitingUpstream[1]]
                   /\ bypassCount'[waitingUpstream[1]] = bypassCount[waitingUpstream[1]] + 1
                   /\ bypassCount'[waitingUpstream[1]] <= MaxHeadBypass
<1>1. waitingUpstream[j] \in Request /\ st \in [Request -> States] /\ Len(waitingUpstream) \in Nat
  BY QueueTypes DEF TypeOK
<1>2. 1 \in 1..Len(waitingUpstream) /\ j # 1
  BY <1>1
<1>3. ASSUME NEW r \in Request, NEW x, st' = [st EXCEPT ![r] = x],
             st[r] # "waiting" \/ x # "leased"
      PROVE  FALSE
  BY <1>1, <1>3
<1>4. ASSUME NEW r \in Request, Acquire(r) PROVE FALSE
  BY <1>3, <1>4 DEF Acquire, AcquireRefused, AcquireGranted, AcquireQueued, Reject,
                    grantUpstreamLease, Settled
<1>5. ASSUME NEW r \in Request, Release(r) PROVE FALSE
  BY <1>3, <1>5 DEF Release
<1>6. ASSUME NEW k \in 1..Len(waitingUpstream), WaiterGone(k) PROVE FALSE
  <2>1. waitingUpstream[k] \in Request
    BY QueueTypes
  <2> QED
    BY <1>3, <1>6, <2>1 DEF WaiterGone, Reject
<1>7. ASSUME NEW k \in 1..Len(waitingUpstream), Age(k) PROVE FALSE
  BY <1>7 DEF Age
<1>8. CASE Configure
  BY <1>8 DEF Configure
<1>9. CASE Shutdown
  BY <1>1, <1>9 DEF Shutdown
<1>10. CASE PumpGrantHead
  <2>1. Head(waitingUpstream) = waitingUpstream[1] /\ waitingUpstream[1] \in Request
    BY <1>2, QueueTypes DEF TypeOK
  <2>2. st' = [st EXCEPT ![waitingUpstream[1]] = "leased"]
    BY <1>10, <2>1 DEF PumpGrantHead, grantUpstreamLease
  <2>3. waitingUpstream[j] = waitingUpstream[1]
    BY <1>1, <2>1, <2>2
  <2> QED
    BY <1>2, <2>3 DEF QueueIsWaiters
<1>11. ASSUME NEW k \in 2..Len(waitingUpstream), PumpBypass(k) PROVE Goal
  <2>1. k \in 1..Len(waitingUpstream) /\ k # 1
    BY <1>1
  <2>2. waitingUpstream[k] # waitingUpstream[1]
    BY <1>2, <2>1 DEF QueueIsWaiters
  <2>3. Head(waitingUpstream) = waitingUpstream[1] /\ waitingUpstream[1] \in Request
    BY <1>2, QueueTypes DEF TypeOK
  <2>4. /\ policy = "bounded_fit"
        /\ ~(bypassCount[waitingUpstream[1]] >= MaxHeadBypass) /\ ~aged[waitingUpstream[1]]
    BY <1>11, <2>3 DEF PumpBypass, mayBypass, isHeadReserved
  <2>5. bypassCount' = [bypassCount EXCEPT ![waitingUpstream[1]] = @ + 1]
    BY <1>11, <2>3 DEF PumpBypass
  <2>6. bypassCount \in [Request -> Nat]
    BY DEF TypeOK
  <2> QED
    BY <2>3, <2>4, <2>5, <2>6, PolicyAssumption
<1>12. CASE PumpReturn
  BY <1>12 DEF PumpReturn
<1>13. CASE UNCHANGED vars
  BY <1>13 DEF vars
<1>14. CASE pumpUpstream
  BY <1>10, <1>11, <1>12, <1>14 DEF pumpUpstream
<1> QED
  BY <1>4, <1>5, <1>6, <1>7, <1>8, <1>9, <1>13, <1>14 DEF Next

\* However long the queue, the scan window and the limit: strict_fifo is never passed
\* by, and under bounded_fit a head is passed at most MaxHeadBypass times.
THEOREM BypassIsBounded == Spec => BypassBounded
<1> DEFINE Counted ==
        \A j \in 1..Len(waitingUpstream) :
          (/\ st[waitingUpstream[j]] = "waiting" /\ st'[waitingUpstream[j]] = "leased"
           /\ \E i \in 1..j - 1 : st'[waitingUpstream[i]] = "waiting")
             => LET h == waitingUpstream[1] IN
                /\ policy = "bounded_fit" /\ ~aged[h]
                /\ bypassCount'[h] = bypassCount[h] + 1
                /\ bypassCount'[h] <= MaxHeadBypass
<1>1. TypeOK /\ QueueIsWaiters /\ [Next]_vars => [Counted]_vars
  BY BypassStep
<1>2. Spec => [][Counted]_vars
  <2> HIDE DEF Counted
  <2> QED
    BY <1>1, TypeCorrect, QueueCorrect, PTL DEF Spec
<1> QED
  BY <1>2 DEF BypassBounded

ShutdownEmpties == shuttingDown => waitingUpstream = <<>>

LEMMA ShutdownStep == TypeOK /\ ShutdownEmpties /\ [Next]_vars => ShutdownEmpties'
<1> SUFFICES ASSUME TypeOK, ShutdownEmpties, [Next]_vars, shuttingDown'
             PROVE  waitingUpstream' = <<>>
  BY DEF ShutdownEmpties
<1>1. CASE Shutdown
  BY <1>1 DEF Shutdown
<1>2. ASSUME NEW r \in Request, Acquire(r) PROVE waitingUpstream' = <<>>
  BY <1>2 DEF Acquire, AcquireRefused, AcquireGranted, AcquireQueued, ShutdownEmpties
<1>3. ASSUME NEW r \in Request, Release(r) PROVE waitingUpstream' = <<>>
  BY <1>3 DEF Release, ShutdownEmpties
<1>4. ASSUME NEW i \in 1..Len(waitingUpstream), WaiterGone(i) PROVE FALSE
  BY <1>4 DEF WaiterGone, ShutdownEmpties
<1>5. ASSUME NEW i \in 1..Len(waitingUpstream), Age(i) PROVE FALSE
  BY <1>5 DEF Age, ShutdownEmpties
<1>6. CASE Configure
  BY <1>6 DEF Configure, ShutdownEmpties
<1>7. CASE pumpUpstream
  <2>1. CASE PumpGrantHead
    BY <2>1 DEF PumpGrantHead, ShutdownEmpties
  <2>2. ASSUME NEW i \in 2..Len(waitingUpstream), PumpBypass(i) PROVE FALSE
    BY <2>2 DEF PumpBypass, mayBypass, ShutdownEmpties
  <2>3. CASE PumpReturn
    BY <2>3 DEF PumpReturn, ShutdownEmpties
  <2> QED
    BY <1>7, <2>1, <2>2, <2>3 DEF pumpUpstream
<1>8. CASE UNCHANGED vars
  BY <1>8 DEF vars, ShutdownEmpties
<1> QED
  BY <1>1, <1>2, <1>3, <1>4, <1>5, <1>6, <1>7, <1>8 DEF Next

\* After shutdown() no lease is granted any more: the queue was emptied in the
\* same step, so releases that follow pump nobody.
THEOREM NoLeaseOnceShutDown == Spec => NoLeaseAfterShutdown
<1>1. Init => ShutdownEmpties
  BY DEF Init, ShutdownEmpties
<1>2. TypeOK /\ ShutdownEmpties /\ [Next]_vars => [shuttingDown => Leased' \subseteq Leased]_vars
  BY GrantStep DEF ShutdownEmpties
<1> QED
  BY <1>1, <1>2, ShutdownStep, TypeCorrect, PTL DEF Spec, NoLeaseAfterShutdown

----------------------------------------------------------------------------
(***************************************************************************)
(* UpstreamSlots implements WeightedSemaphore, for any finite set of       *)
(* requests, any budgets and capacities, any scan window and bypass limit. *)
(*                                                                         *)
(* The mapping takes a lease for as many held units as its weight.  The    *)
(* pump's iterations, waiting, timers, ageing and rejections are           *)
(* stuttering steps; a grant fits because the clamped counter is exactly   *)
(* the number of units held; and no step grants a lease of no weight,      *)
(* which the abstract semaphore could not tell from no lease at all.       *)
(***************************************************************************)

\* Waiters and leases have a weight of one at least, however often the budget that
\* clips the weights is changed.
WeightsPositive == \A r \in Request : st[r] \in {"waiting", "leased"} => weight[r] >= 1

\* Clipping to the budget in force keeps a weight positive.
LEMMA ClippedPositive ==
    ASSUME TypeOK, NEW w \in 1..MaxWeight
    PROVE  effectiveWaiterWeight(w) \in 1..MaxWeight
<1>1. budget \in Nat \ {0}
  BY QueueTypes
<1> QED
  BY <1>1 DEF effectiveWaiterWeight, Least, MaxWeight

\* A waiter's weight, clipped, is a possible grant.
LEMMA WaiterWeight ==
    ASSUME TypeOK, QueueIsWaiters, WeightsPositive, NEW i \in 1..Len(waitingUpstream)
    PROVE  /\ waitingUpstream[i] \in Request
           /\ st[waitingUpstream[i]] = "waiting"
           /\ effectiveWaiterWeight(weight[waitingUpstream[i]]) \in 1..MaxWeight
<1>1. waitingUpstream[i] \in Request /\ st[waitingUpstream[i]] = "waiting"
  BY QueueTypes DEF QueueIsWaiters
<1>2. weight[waitingUpstream[i]] \in 1..MaxWeight
  <2>1. weight[waitingUpstream[i]] \in 0..MaxWeight
    BY <1>1 DEF TypeOK
  <2>2. weight[waitingUpstream[i]] >= 1
    BY <1>1 DEF WeightsPositive
  <2> QED
    BY <2>1, <2>2 DEF MaxWeight
<1> QED
  BY <1>1, <1>2, ClippedPositive

\* What a step does to the requests: it grants one lease with a positive weight,
\* releases one, or changes no lease.
Grants(r, w) ==
    /\ st[r] # "leased"
    /\ st' = [st EXCEPT ![r] = "leased"]
    /\ weight' = [weight EXCEPT ![r] = w]
    /\ UNCHANGED <<budget, shuttingDown>>

Releases(r) ==
    /\ st[r] = "leased"
    /\ st' = [st EXCEPT ![r] = "released"]
    /\ weight' = [weight EXCEPT ![r] = 0]
    /\ UNCHANGED <<budget, shuttingDown>>

KeepsLeases ==
    \A r \in Request :
        /\ st'[r] = "leased" <=> st[r] = "leased"
        /\ st[r] = "leased" => weight'[r] = weight[r]

KeepsWaiters == \A r \in Request : st'[r] = "waiting" => weight'[r] >= 1

\* Every step is of one of five kinds.
StepKinds ==
    \/ \E r \in Request, w \in 1..MaxWeight : Grants(r, w)
    \/ \E r \in Request : Releases(r)
    \/ KeepsLeases /\ KeepsWaiters /\ UNCHANGED <<budget, shuttingDown>>
    \/ KeepsLeases /\ KeepsWaiters /\ budget' \in Budgets /\ UNCHANGED shuttingDown
    \/ KeepsLeases /\ KeepsWaiters /\ shuttingDown' = TRUE /\ UNCHANGED budget

\* The actions of UpstreamSlots and the iterations of its pump, each by its kind.
LEMMA StepIsOfAKind ==
    ASSUME TypeOK, QueueIsWaiters, WeightsPositive, [Next]_vars
    PROVE  StepKinds
<1> DEFINE Same == KeepsLeases /\ KeepsWaiters /\ UNCHANGED <<budget, shuttingDown>>
<1>0. st \in [Request -> States] /\ weight \in [Request -> 0..MaxWeight]
  BY DEF TypeOK
<1>1. ASSUME UNCHANGED <<st, weight>> PROVE KeepsLeases /\ KeepsWaiters
  BY <1>1 DEF KeepsLeases, KeepsWaiters, WeightsPositive
<1>2. ASSUME NEW r \in Request, st[r] # "leased", Reject(r) PROVE KeepsLeases /\ KeepsWaiters
  BY <1>0, <1>2 DEF Reject, KeepsLeases, KeepsWaiters, WeightsPositive
<1>3. ASSUME NEW r \in Request, Acquire(r) PROVE StepKinds
  <2>1. CASE AcquireRefused(r)
    <3>1. Same
      BY <1>2, <2>1 DEF AcquireRefused, Settled, config
    <3> QED
      BY <3>1 DEF StepKinds
  <2>2. ASSUME NEW size \in Sizes, AcquireGranted(r, size) PROVE StepKinds
    <3>1. upstreamWeightForSize(size, budget) \in 1..MaxWeight
      BY WeightFacts, QueueTypes
    <3>2. Grants(r, upstreamWeightForSize(size, budget))
      BY <2>2 DEF AcquireGranted, grantUpstreamLease, Grants, Settled, config
    <3> QED
      BY <3>1, <3>2 DEF StepKinds
  <2>3. ASSUME NEW size \in Sizes, AcquireQueued(r, size) PROVE StepKinds
    <3>1. st[r] # "leased" /\ UNCHANGED <<budget, shuttingDown>>
      BY <2>3 DEF AcquireQueued, Settled, config
    <3>2. CASE Reject(r)
      BY <1>2, <3>1, <3>2 DEF StepKinds
    <3>3. CASE /\ st' = [st EXCEPT ![r] = "waiting"]
               /\ weight' = [weight EXCEPT ![r] = upstreamWeightForSize(size, budget)]
      <4>1. upstreamWeightForSize(size, budget) >= 1
        BY WeightFacts, QueueTypes DEF MaxWeight
      <4>2. KeepsLeases /\ KeepsWaiters
        BY <1>0, <3>1, <3>3, <4>1 DEF KeepsLeases, KeepsWaiters, WeightsPositive
      <4> QED
        BY <3>1, <4>2 DEF StepKinds
    <3> QED
      BY <2>3, <3>2, <3>3 DEF AcquireQueued
  <2> QED
    BY <1>3, <2>1, <2>2, <2>3 DEF Acquire
<1>4. ASSUME NEW r \in Request, Release(r) PROVE StepKinds
  <2>1. CASE st[r] = "leased"
    <3>1. Releases(r)
      BY <1>4, <2>1 DEF Release, Releases, config
    <3> QED
      BY <3>1 DEF StepKinds
  <2>2. CASE st[r] # "leased"
    <3>1. Same
      BY <1>1, <1>4, <2>2 DEF Release, config
    <3> QED
      BY <3>1 DEF StepKinds
  <2> QED
    BY <2>1, <2>2
<1>5. ASSUME NEW i \in 1..Len(waitingUpstream), WaiterGone(i) PROVE StepKinds
  <2>1. waitingUpstream[i] \in Request /\ st[waitingUpstream[i]] # "leased"
    BY WaiterWeight
  <2>2. Same
    BY <1>2, <1>5, <2>1 DEF WaiterGone, config
  <2> QED
    BY <2>2 DEF StepKinds
<1>6. ASSUME NEW i \in 1..Len(waitingUpstream), Age(i) PROVE StepKinds
  BY <1>1, <1>6 DEF Age, config, StepKinds
<1>7. CASE Configure
  BY <1>1, <1>7 DEF Configure, StepKinds
<1>8. CASE Shutdown
  <2>1. KeepsLeases /\ KeepsWaiters
    BY <1>0, <1>8 DEF Shutdown, KeepsLeases, KeepsWaiters
  <2> QED
    BY <1>8, <2>1 DEF Shutdown, StepKinds, config
<1>9. CASE PumpGrantHead
  <2>1. Head(waitingUpstream) = waitingUpstream[1] /\ 1 \in 1..Len(waitingUpstream)
    BY <1>9 DEF PumpGrantHead, TypeOK
  <2>2. /\ Head(waitingUpstream) \in Request
        /\ st[Head(waitingUpstream)] # "leased"
        /\ headWeight \in 1..MaxWeight
    BY <2>1, WaiterWeight DEF headWeight
  <2>3. Grants(Head(waitingUpstream), headWeight)
    BY <1>9, <2>2 DEF PumpGrantHead, grantUpstreamLease, Grants, config
  <2> QED
    BY <2>2, <2>3 DEF StepKinds
<1>10. ASSUME NEW i \in 2..Len(waitingUpstream), PumpBypass(i) PROVE StepKinds
  <2> DEFINE w == effectiveWaiterWeight(weight[waitingUpstream[i]])
  <2>1. i \in 1..Len(waitingUpstream)
    BY QueueTypes
  <2>2. /\ waitingUpstream[i] \in Request
        /\ st[waitingUpstream[i]] # "leased"
        /\ w \in 1..MaxWeight
    BY <2>1, WaiterWeight
  <2>3. Grants(waitingUpstream[i], w)
    BY <1>10, <2>2 DEF PumpBypass, grantUpstreamLease, Grants, config
  <2> QED
    BY <2>2, <2>3 DEF StepKinds
<1>11. CASE PumpReturn
  BY <1>1, <1>11 DEF PumpReturn, config, StepKinds
<1>12. CASE UNCHANGED vars
  BY <1>1, <1>12 DEF vars, StepKinds
<1>13. CASE pumpUpstream
  BY <1>9, <1>10, <1>11, <1>13 DEF pumpUpstream
<1> QED
  BY <1>3, <1>4, <1>5, <1>6, <1>7, <1>8, <1>12, <1>13 DEF Next

\* No lease and no waiter is without weight.
LEMMA PositiveStep ==
    TypeOK /\ QueueIsWaiters /\ WeightsPositive /\ [Next]_vars => WeightsPositive'
<1> SUFFICES ASSUME TypeOK, QueueIsWaiters, WeightsPositive, [Next]_vars
             PROVE  WeightsPositive'
  OBVIOUS
<1>0. st \in [Request -> States] /\ weight \in [Request -> 0..MaxWeight]
  BY DEF TypeOK
<1>1. ASSUME NEW r \in Request, NEW w \in 1..MaxWeight, Grants(r, w) PROVE WeightsPositive'
  BY <1>0, <1>1 DEF Grants, WeightsPositive, MaxWeight
<1>2. ASSUME NEW r \in Request, Releases(r) PROVE WeightsPositive'
  BY <1>0, <1>2 DEF Releases, WeightsPositive
<1>3. CASE KeepsLeases /\ KeepsWaiters
  BY <1>3 DEF KeepsLeases, KeepsWaiters, WeightsPositive
<1> QED
  BY <1>1, <1>2, <1>3, StepIsOfAKind DEF StepKinds

----------------------------------------------------------------------------
\* The instance brings a Cardinality of its own, with the same definition.
LEMMA SameCardinality == \A S : Semaphore!Cardinality(S) = Cardinality(S)
BY DEF Semaphore!Cardinality, Cardinality

\* At the start nobody holds a unit.
LEMMA InitImplements == Init => Semaphore!Init
BY DEF Init, Semaphore!Init, UnitsHeld

\* Every step of the coordinator is a step of the semaphore or leaves it alone.
LEMMA StepImplements ==
    ASSUME TypeOK, TypeOK', QueueIsWaiters, WeightsPositive, ShutdownEmpties,
           CountersMatchLeases', [Next]_vars
    PROVE  [Semaphore!Next]_(Semaphore!vars)
<1>0. st \in [Request -> States] /\ weight \in [Request -> 0..MaxWeight]
  BY DEF TypeOK
<1>1. ASSUME NEW r \in Request, NEW w \in 1..MaxWeight, Grants(r, w)
      PROVE  Semaphore!Grant(r, w)
  <2>1. ~(Leased' \subseteq Leased)
    BY <1>0, <1>1 DEF Grants, Leased
  <2>2. activeUpstreamWeight' <= budget /\ ~shuttingDown
    BY <1>1, <2>1, GrantStep DEF Grants, ShutdownEmpties
  <2>3. UnitsHeld[r] = 0 /\ UnitsHeld' = [UnitsHeld EXCEPT ![r] = w]
    BY <1>0, <1>1 DEF Grants, UnitsHeld
  <2>4. Semaphore!Cardinality(Semaphore!Units(UnitsHeld')) <= budget
    <3>1. ASSUME NEW u \in Request \X (1..MaxWeight)
          PROVE  u[2] <= UnitsHeld'[u[1]] <=> st'[u[1]] = "leased" /\ u[2] <= weight'[u[1]]
      <4>1. u[1] \in Request /\ u[2] \in 1..MaxWeight
        BY <3>1
      <4> QED
        BY <4>1 DEF UnitsHeld, MaxWeight
    <3>2. Semaphore!Units(UnitsHeld') = HeldUnits'
      BY <3>1 DEF Semaphore!Units, HeldUnits
    <3>3. Cardinality(HeldUnits') <= budget
      BY <2>2 DEF CountersMatchLeases
    <3> QED
      BY <3>2, <3>3, SameCardinality
  <2> QED
    BY <1>1, <2>2, <2>3, <2>4 DEF Grants, Semaphore!Grant
<1>2. ASSUME NEW r \in Request, Releases(r) PROVE Semaphore!Release(r)
  <2>1. UnitsHeld[r] # 0
    BY <1>2 DEF Releases, UnitsHeld, WeightsPositive
  <2>2. UnitsHeld' = [UnitsHeld EXCEPT ![r] = 0]
    BY <1>0, <1>2 DEF Releases, UnitsHeld
  <2> QED
    BY <1>2, <2>1, <2>2 DEF Releases, Semaphore!Release
<1>3. ASSUME KeepsLeases PROVE UnitsHeld' = UnitsHeld
  BY <1>3 DEF KeepsLeases, UnitsHeld
<1>4. CASE KeepsLeases /\ UNCHANGED <<budget, shuttingDown>>
  BY <1>3, <1>4 DEF Semaphore!vars
<1>5. CASE KeepsLeases /\ budget' \in Budgets /\ UNCHANGED shuttingDown
  BY <1>3, <1>5 DEF Semaphore!Next, Semaphore!SetLimit
<1>6. CASE KeepsLeases /\ shuttingDown' = TRUE /\ UNCHANGED budget
  BY <1>3, <1>6 DEF Semaphore!Next, Semaphore!Close
<1>7. ASSUME NEW r \in Request, NEW w \in 1..MaxWeight, Grants(r, w) PROVE Semaphore!Next
  BY <1>1, <1>7 DEF Semaphore!Next
<1>8. ASSUME NEW r \in Request, Releases(r) PROVE Semaphore!Next
  BY <1>2, <1>8 DEF Semaphore!Next
<1> QED
  BY <1>4, <1>5, <1>6, <1>7, <1>8, StepIsOfAKind DEF StepKinds

\* acquireUpstreamSlot(), lease.release(), the pump, the waiters' timers, configure()
\* and shutdown() together implement a weighted semaphore.
THEOREM Implements == Spec => ImplementsSemaphore
<1>1. Init => WeightsPositive /\ ShutdownEmpties
  BY DEF Init, WeightsPositive, ShutdownEmpties
<1>2. TypeOK /\ TypeOK' /\ QueueIsWaiters /\ WeightsPositive /\ ShutdownEmpties
        /\ CountersMatchLeases' /\ [Next]_vars => [Semaphore!Next]_(Semaphore!vars)
  BY StepImplements
<1> QED
  BY <1>1, <1>2, InitImplements, PositiveStep, ShutdownStep, TypeCorrect, QueueCorrect,
     CountersCorrect, PTL DEF Spec, ImplementsSemaphore, Semaphore!Spec
============================================================================
