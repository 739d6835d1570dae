----------------------- MODULE DiskReservationsProofs -----------------------
(***************************************************************************)
(* Theorems about DiskReservations, for any number of callers and keys,    *)
(* every size of the volume and every set of configurations.               *)
(*                                                                         *)
(* The two counters are kept incrementally and clamped at zero.  That they *)
(* are exact, and that the clamp is never needed, follows from one fact on *)
(* sums: changing one caller's share changes the sum by the difference.    *)
(***************************************************************************)
EXTENDS DiskReservations, QueueLemmas

Unreserved == {"idle", "waiting", "direct", "unprobed"}
States == {"idle", "waiting", "held", "ending", "pooled", "direct", "unprobed"}
Wants == [bytes : Nat, counts : BOOLEAN]
Asks == call.op \in {"reserve", "try"}

\* The queue holds those who wait, each once.
QueueInv ==
    IsInjective(waitingDisk) /\ ToSet(waitingDisk) = {r \in Request : st[r] = "waiting"}

\* A call that goes on after a release still has a caller that holds nothing.
CallInv ==
    Asks => call.id \in Request /\ st[call.id] \in Unreserved \ {"waiting"} /\ written[call.id] = 0

PollInv == waitingDisk # <<>> => pollTimer \/ call.op = "shutdown"

\* What a caller holds fits where it is: nothing without a reservation; in a session
\* exactly the bytes it has still to write and those not yet consumed; in the pool all
\* that was granted.
CallerInv(r) ==
    /\ st[r] \in Unreserved =>
          grantedBytes[r] = 0 /\ remainingBytes[r] = 0 /\ ~countsTowardCache[r] /\ dirty[r] = 0
    /\ st[r] = "waiting" => written[r] = 0
    /\ st[r] = "held" =>
          /\ dirty[r] <= written[r] /\ written[r] <= want[r].bytes
          /\ want[r].bytes <= grantedBytes[r]
          /\ remainingBytes[r] = grantedBytes[r] - written[r] + dirty[r]
    /\ st[r] = "pooled" => written[r] = 0 /\ dirty[r] = 0 /\ remainingBytes[r] = grantedBytes[r]
    /\ st[r] = "ending" => dirty[r] = 0

PoolInv ==
    /\ \A k \in Key : pool[k] # None =>
          st[pool[k]] = "pooled" /\ KeyOf[pool[k]] = k /\ pool[k] \notin todo
    /\ \A r \in Request : st[r] = "pooled" => pool[KeyOf[r]] = r \/ r \in todo
    /\ \A r \in todo : st[r] = "pooled"

Inv ==
    /\ TypeOK /\ QueueInv /\ CallInv /\ PollInv
    /\ \A r \in Request : CallerInv(r)
    /\ PoolInv
    /\ AccountingExact

----------------------------------------------------------------------------
\* Sums

Sum(f) == Cardinality(Units(f))

LEMMA UnitsOfOne ==
    ASSUME NEW r, NEW n \in Nat
    PROVE  IsFiniteSet({r} \X (1..n)) /\ Cardinality({r} \X (1..n)) = n
<1>1. IsFiniteSet(1..n) /\ Cardinality(1..n) = n
  <2>1. Cardinality(1..n) = IF 1 > n THEN 0 ELSE n - 1 + 1
    BY FS_Interval
  <2>2. IsFiniteSet(1..n)
    BY FS_Interval
  <2> QED
    BY <2>1, <2>2
<1>2. IsFiniteSet({r}) /\ Cardinality({r}) = 1
  BY FS_Singleton
<1>3. Cardinality({r} \X (1..n)) = Cardinality({r}) * Cardinality(1..n)
  BY <1>1, <1>2, FS_Product
<1>4. IsFiniteSet({r} \X (1..n))
  BY <1>1, <1>2, FS_Product
<1> QED
  BY <1>1, <1>2, <1>3, <1>4

LEMMA UnitsFinite ==
    ASSUME NEW f \in [Request -> Nat]
    PROVE  IsFiniteSet(Units(f)) /\ Sum(f) \in Nat
<1> DEFINE part == [r \in Request |-> {r} \X (1..f[r])]
           parts == {{r} \X (1..f[r]) : r \in Request}
<1>1. part \in Surjection(Request, parts)
  BY DEF Surjection
<1>2. IsFiniteSet(parts)
  BY <1>1, RequestAssumption, FS_Surjection
<1>3. \A T \in parts : IsFiniteSet(T)
  <2>1. \A r \in Request : f[r] \in Nat /\ IsFiniteSet({r} \X (1..f[r]))
    BY UnitsOfOne
  <2> QED
    BY <2>1
<1>4. IsFiniteSet(UNION parts)
  BY <1>2, <1>3, FS_UNION
<1>5. IsFiniteSet(Units(f))
  BY <1>4 DEF Units
<1> QED
  BY <1>5, FS_CardinalityType DEF Sum

\* One caller's share is part of the sum, and the rest does not depend on it.
LEMMA SumAfter ==
    ASSUME NEW f \in [Request -> Nat], NEW g \in [Request -> Nat], NEW r \in Request,
           \A q \in Request : q # r => g[q] = f[q]
    PROVE  /\ Sum(f) \in Nat /\ Sum(g) \in Nat /\ f[r] <= Sum(f) /\ g[r] <= Sum(g)
           /\ Sum(g) = Sum(f) - f[r] + g[r]
<1> DEFINE A == {r} \X (1..f[r])
           B == {r} \X (1..g[r])
           R == {u \in Units(f) : u[1] # r}
<1>1. /\ IsFiniteSet(Units(f)) /\ IsFiniteSet(Units(g)) /\ Sum(f) \in Nat /\ Sum(g) \in Nat
      /\ IsFiniteSet(A) /\ Cardinality(A) = f[r] /\ IsFiniteSet(B) /\ Cardinality(B) = g[r]
  BY UnitsFinite, UnitsOfOne
<1>2. Units(f) = R \cup A /\ Units(g) = R \cup B
  BY DEF Units
<1>3. R \cap A = {} /\ R \cap B = {} /\ R \subseteq Units(f)
  OBVIOUS
<1> HIDE DEF A, B, R
<1>4. IsFiniteSet(R) /\ Cardinality(R) \in Nat /\ Cardinality({}) = 0
  BY <1>1, <1>3, FS_Subset, FS_CardinalityType, FS_EmptySet
<1>5. /\ Cardinality(R \cup A) = Cardinality(R) + Cardinality(A) - Cardinality(R \cap A)
      /\ Cardinality(R \cup B) = Cardinality(R) + Cardinality(B) - Cardinality(R \cap B)
  BY <1>1, <1>4, FS_Union
<1>6. Sum(f) = Cardinality(R) + f[r] /\ Sum(g) = Cardinality(R) + g[r]
  <2>1. f[r] \in Nat /\ g[r] \in Nat
    OBVIOUS
  <2>2. Sum(f) = Cardinality(R \cup A) /\ Sum(g) = Cardinality(R \cup B)
    BY <1>2 DEF Sum
  <2>3. Cardinality(R \cap A) = 0 /\ Cardinality(R \cap B) = 0
    BY <1>3, <1>4
  <2> QED
    BY <1>1, <1>4, <1>5, <2>1, <2>2, <2>3
<1> QED
  BY <1>1, <1>4, <1>6

\* A larger share each is a larger sum.
LEMMA SumMonotone ==
    ASSUME NEW f \in [Request -> Nat], NEW g \in [Request -> Nat],
           \A r \in Request : f[r] <= g[r]
    PROVE  Sum(f) <= Sum(g)
<1>1. Units(f) \subseteq Units(g)
  <2>1. \A r \in Request : 1..f[r] \subseteq 1..g[r]
    OBVIOUS
  <2> QED
    BY <2>1 DEF Units
<1> QED
  BY <1>1, UnitsFinite, FS_Subset DEF Sum

\* A caller takes over what another had: one gives what the other gets.
LEMMA SumMoves ==
    ASSUME NEW f \in [Request -> Nat], NEW g \in [Request -> Nat], NEW r \in Request, NEW h \in Request,
           r # h, f[r] = 0, g[r] = f[h], g[h] = 0,
           \A q \in Request : q # r /\ q # h => g[q] = f[q]
    PROVE  Sum(g) = Sum(f) /\ Sum(f) \in Nat
<1> DEFINE m == [q \in Request |-> IF q = h THEN 0 ELSE f[q]]
<1>1. m \in [Request -> Nat] /\ m[h] = 0 /\ m[r] = 0
  OBVIOUS
<1>2. \A q \in Request : (q # h => m[q] = f[q]) /\ (q # r => g[q] = m[q])
  OBVIOUS
<1> HIDE DEF m
<1>3. Sum(m) = Sum(f) - f[h] + m[h] /\ Sum(m) \in Nat /\ Sum(f) \in Nat
  BY <1>1, <1>2, SumAfter
<1>4. Sum(g) = Sum(m) - m[r] + g[r]
  BY <1>1, <1>2, SumAfter
<1>5. f[h] \in Nat
  OBVIOUS
<1> QED
  BY <1>1, <1>3, <1>4, <1>5

----------------------------------------------------------------------------
\* Who does not act keeps its part of the invariant.

CallerTypes ==
    /\ st \in [Request -> States]
    /\ want \in [Request -> Wants]
    /\ grantedBytes \in [Request -> Nat] /\ remainingBytes \in [Request -> Nat]
    /\ countsTowardCache \in [Request -> BOOLEAN]
    /\ dirty \in [Request -> Nat] /\ written \in [Request -> Nat]

SystemTypes ==
    /\ config \in Configs /\ free \in Nat /\ published \in [Bytes -> Nat] /\ committedBytes \in Nat
    /\ waitingDisk \in Seq(Request)
    /\ pool \in [Key -> Request \cup {None}] /\ poolExpired \in [Key -> BOOLEAN]
    /\ pollTimer \in BOOLEAN /\ evictionInFlight \in BOOLEAN /\ evictionRecent \in BOOLEAN
    /\ evictionFreed \in Nat /\ shuttingDown \in BOOLEAN
    /\ todo \in SUBSET Request /\ pump \in {"idle", "start", "loop"}
    /\ call \in [op : {"none", "reserve", "try", "shutdown"}, id : Request \cup {None}]

LEMMA TypeParts ==
    /\ TypeOK <=> CallerTypes /\ SystemTypes /\ reservedPendingBytes \in Nat /\ cacheReservedBytes \in Nat
    /\ TypeOK' <=> /\ CallerTypes' /\ SystemTypes'
                   /\ reservedPendingBytes' \in Nat /\ cacheReservedBytes' \in Nat
BY DEF TypeOK, CallerTypes, SystemTypes, States, Wants

SameAt(q) ==
    /\ st'[q] = st[q] /\ want'[q] = want[q] /\ grantedBytes'[q] = grantedBytes[q]
    /\ remainingBytes'[q] = remainingBytes[q] /\ countsTowardCache'[q] = countsTowardCache[q]
    /\ dirty'[q] = dirty[q] /\ written'[q] = written[q]

\* counted is a function to Nat, before and after a step.
LEMMA CountedTypes ==
    /\ CallerTypes => /\ counted \in [Request -> Nat]
                      /\ \A q \in Request : counted[q] = IF countsTowardCache[q] THEN grantedBytes[q] ELSE 0
    /\ CallerTypes' => /\ counted' \in [Request -> Nat]
                       /\ \A q \in Request : counted'[q] = IF countsTowardCache'[q] THEN grantedBytes'[q] ELSE 0
BY DEF CallerTypes, counted

\* No release clamps: what it takes off a counter is part of it.
LEMMA NoClamp ==
    ASSUME Inv, NEW r \in Request
    PROVE  /\ remainingBytes[r] \in Nat /\ counted[r] \in Nat
           /\ remainingBytes[r] <= reservedPendingBytes /\ counted[r] <= cacheReservedBytes
<1>1. CallerTypes /\ counted \in [Request -> Nat] /\ remainingBytes \in [Request -> Nat]
  BY TypeParts, CountedTypes DEF Inv, CallerTypes
<1>2. remainingBytes[r] <= Sum(remainingBytes) /\ counted[r] <= Sum(counted)
  BY <1>1, SumAfter
<1> QED
  BY <1>1, <1>2 DEF Inv, AccountingExact, Sum

\* A step of caller r that keeps the counters in step with its share
LEMMA CallerActs ==
    ASSUME Inv, NEW r \in Request, CallerTypes', \A q \in Request : q # r => SameAt(q),
           CallerInv(r)',
           reservedPendingBytes' = reservedPendingBytes - remainingBytes[r] + remainingBytes'[r],
           cacheReservedBytes' = cacheReservedBytes - counted[r] + counted'[r]
    PROVE  /\ \A q \in Request : CallerInv(q)'
           /\ AccountingExact' /\ reservedPendingBytes' \in Nat /\ cacheReservedBytes' \in Nat
<1>1. \A q \in Request : CallerInv(q)'
  BY DEF Inv, CallerInv, SameAt
<1>2. /\ remainingBytes \in [Request -> Nat] /\ remainingBytes' \in [Request -> Nat]
      /\ counted \in [Request -> Nat] /\ counted' \in [Request -> Nat]
      /\ \A q \in Request : q # r => counted'[q] = counted[q] /\ remainingBytes'[q] = remainingBytes[q]
  BY TypeParts, CountedTypes DEF Inv, CallerTypes, SameAt
<1>3. /\ Sum(remainingBytes') = Sum(remainingBytes) - remainingBytes[r] + remainingBytes'[r]
      /\ Sum(counted') = Sum(counted) - counted[r] + counted'[r]
      /\ Sum(remainingBytes') \in Nat /\ Sum(counted') \in Nat
  BY <1>2, SumAfter
<1>4. reservedPendingBytes = Sum(remainingBytes) /\ cacheReservedBytes = Sum(counted)
  BY DEF Inv, AccountingExact, Sum
<1>5. reservedPendingBytes' = Sum(remainingBytes') /\ cacheReservedBytes' = Sum(counted')
  BY <1>3, <1>4
<1> QED
  BY <1>1, <1>3, <1>5 DEF AccountingExact, Sum

\* A step that leaves every caller alone, except for what an unreserved one asks for
LEMMA NobodyActs ==
    ASSUME Inv, UNCHANGED <<st, reservation, counters, dirty, written>>,
           \A q \in Request : st[q] = "held" => want'[q] = want[q]
    PROVE  /\ \A q \in Request : CallerInv(q)'
           /\ AccountingExact' /\ reservedPendingBytes' \in Nat /\ cacheReservedBytes' \in Nat
<1>1. \A q \in Request : CallerInv(q)'
  BY DEF Inv, CallerInv, reservation
<1>2. AccountingExact' /\ reservedPendingBytes' \in Nat /\ cacheReservedBytes' \in Nat
  BY DEF Inv, AccountingExact, Units, counted, reservation, counters, TypeOK
<1> QED
  BY <1>1, <1>2

LEMMA QueueKept ==
    ASSUME Inv, UNCHANGED waitingDisk,
           \A q \in Request : st'[q] = "waiting" <=> st[q] = "waiting"
    PROVE  QueueInv'
BY DEF Inv, QueueInv

LEMMA PoolKept ==
    ASSUME Inv, UNCHANGED <<pool, todo>>,
           \A q \in Request : st'[q] = "pooled" <=> st[q] = "pooled"
    PROVE  PoolInv'
<1>1. /\ pool \in [Key -> Request \cup {None}] /\ todo \in SUBSET Request
      /\ \A k \in Key : pool[k] # None => pool[k] \in Request
  BY DEF Inv, TypeOK
<1> QED
  BY <1>1 DEF Inv, PoolInv

LEMMA CallKept ==
    ASSUME Inv, UNCHANGED call, Asks => st'[call.id] = st[call.id] /\ written'[call.id] = written[call.id]
    PROVE  CallInv'
BY DEF Inv, CallInv, Asks

LEMMA QuietFacts ==
    ASSUME Quiet
    PROVE  ~Asks /\ todo = {} /\ pump = "idle" /\ call.op # "shutdown"
BY DEF Quiet, NoCall, Asks

\* The invariant from its parts
LEMMA Together ==
    ASSUME CallerTypes', SystemTypes', QueueInv', CallInv', PollInv', PoolInv',
           \A q \in Request : CallerInv(q)',
           AccountingExact', reservedPendingBytes' \in Nat, cacheReservedBytes' \in Nat
    PROVE  Inv'
BY TypeParts DEF Inv

\* A handler on a reservation that is neither queued nor pooled
LEMMA SessionActs ==
    ASSUME Inv, Quiet, NEW r \in Request, CallerTypes', SystemTypes',
           \A q \in Request : q # r => SameAt(q), CallerInv(r)',
           reservedPendingBytes' = reservedPendingBytes - remainingBytes[r] + remainingBytes'[r],
           cacheReservedBytes' = cacheReservedBytes - counted[r] + counted'[r],
           st[r] \notin {"waiting", "pooled"}, st'[r] \notin {"waiting", "pooled"},
           UNCHANGED <<waitingDisk, pool, pollTimer, todo, call>>
    PROVE  Inv'
<1>1. /\ \A q \in Request : CallerInv(q)'
      /\ AccountingExact' /\ reservedPendingBytes' \in Nat /\ cacheReservedBytes' \in Nat
  BY CallerActs
<1>2. \A q \in Request : /\ st'[q] = "waiting" <=> st[q] = "waiting"
                         /\ st'[q] = "pooled" <=> st[q] = "pooled"
  BY DEF SameAt
<1>3. QueueInv'
  BY <1>2, QueueKept
<1>4. PoolInv'
  BY <1>2, PoolKept
<1>5. CallInv' /\ PollInv'
  BY QuietFacts DEF Inv, CallInv, PollInv, Asks
<1> QED
  BY <1>1, <1>3, <1>4, <1>5, Together

----------------------------------------------------------------------------
\* Sessions

\* releaseReservation of a caller with nothing unconsumed
LEMMA ReleaseEffect ==
    ASSUME Inv, NEW r \in Request, releaseReservation(r), UNCHANGED <<dirty, written>>, dirty[r] = 0
    PROVE  /\ CallerTypes' /\ (\A q \in Request : q # r => SameAt(q))
           /\ st'[r] = "idle" /\ CallerInv(r)'
           /\ reservedPendingBytes' = reservedPendingBytes - remainingBytes[r] + remainingBytes'[r]
           /\ cacheReservedBytes' = cacheReservedBytes - counted[r] + counted'[r]
<1>1. CallerTypes /\ reservedPendingBytes \in Nat /\ cacheReservedBytes \in Nat
  BY TypeParts DEF Inv
<1>2. /\ st' = [st EXCEPT ![r] = "idle"] /\ want' = [want EXCEPT ![r] = NoWant]
      /\ grantedBytes' = [grantedBytes EXCEPT ![r] = 0]
      /\ remainingBytes' = [remainingBytes EXCEPT ![r] = 0]
      /\ countsTowardCache' = [countsTowardCache EXCEPT ![r] = FALSE]
      /\ reservedPendingBytes' = AtLeastZero(reservedPendingBytes - remainingBytes[r])
      /\ cacheReservedBytes' = AtLeastZero(cacheReservedBytes -
                                  (IF countsTowardCache[r] THEN grantedBytes[r] ELSE 0))
  BY DEF releaseReservation, giveBack, clearReservation
<1>3. NoWant \in Wants
  BY DEF NoWant, Wants
<1>4. /\ st' \in [Request -> States] /\ want' \in [Request -> Wants]
      /\ grantedBytes' \in [Request -> Nat] /\ remainingBytes' \in [Request -> Nat]
      /\ countsTowardCache' \in [Request -> BOOLEAN]
  BY <1>1, <1>2, <1>3 DEF CallerTypes, States
<1>5. /\ st'[r] = "idle" /\ grantedBytes'[r] = 0 /\ remainingBytes'[r] = 0 /\ ~countsTowardCache'[r]
      /\ \A q \in Request : q # r => SameAt(q)
  BY <1>1, <1>2 DEF CallerTypes, SameAt
<1>6. CallerTypes'
  BY <1>1, <1>4 DEF CallerTypes
<1>7. counted[r] = (IF countsTowardCache[r] THEN grantedBytes[r] ELSE 0) /\ counted'[r] = 0
  BY <1>1, <1>5, <1>6, CountedTypes
<1>8. /\ remainingBytes[r] \in Nat /\ counted[r] \in Nat
      /\ remainingBytes[r] <= reservedPendingBytes /\ counted[r] <= cacheReservedBytes
  BY NoClamp
<1>9. /\ reservedPendingBytes' = reservedPendingBytes - remainingBytes[r] + remainingBytes'[r]
      /\ cacheReservedBytes' = cacheReservedBytes - counted[r] + counted'[r]
  BY <1>1, <1>2, <1>5, <1>7, <1>8 DEF AtLeastZero
<1>10. CallerInv(r)'
  BY <1>5 DEF CallerInv
<1> QED
  BY <1>5, <1>6, <1>9, <1>10

LEMMA ReleaseStep == ASSUME Inv, NEW r \in Request, Release(r) PROVE Inv'
<1>1. /\ Quiet /\ releaseReservation(r) /\ st[r] \in {"held", "ending"}
      /\ st[r] = "ending" \/ dirty[r] = 0 \/ written[r] = 0
      /\ UNCHANGED <<config, disk, waitingDisk, handOffs, pollTimer, eviction, shuttingDown, todo, call>>
  BY DEF Release
<1>2. dirty[r] = 0 /\ dirty[r] \in Nat
  BY <1>1 DEF Inv, CallerInv, TypeOK
<1>3. /\ CallerTypes' /\ (\A q \in Request : q # r => SameAt(q))
      /\ st'[r] = "idle" /\ CallerInv(r)'
      /\ reservedPendingBytes' = reservedPendingBytes - remainingBytes[r] + remainingBytes'[r]
      /\ cacheReservedBytes' = cacheReservedBytes - counted[r] + counted'[r]
  BY <1>1, <1>2, ReleaseEffect DEF disk
<1>4. SystemTypes'
  BY <1>1, TypeParts DEF Inv, SystemTypes, releaseReservation, disk, handOffs, eviction
<1> QED
  BY <1>1, <1>3, <1>4, SessionActs DEF handOffs

LEMMA WriteStep == ASSUME Inv, NEW r \in Request, Write(r) PROVE Inv'
<1>1. /\ Quiet /\ st[r] = "held" /\ dirty[r] = 0 /\ written[r] < want[r].bytes /\ free > 0
      /\ free' = free - 1 /\ written' = [written EXCEPT ![r] = @ + 1]
      /\ dirty' = [dirty EXCEPT ![r] = 1] /\ CallerTypes
      /\ UNCHANGED <<config, published, committedBytes, counters, st, want, reservation,
                     waitingDisk, handOffs, pollTimer, eviction, shuttingDown, control>>
  BY TypeParts DEF Write, Inv
<1>2. UNCHANGED <<grantedBytes, remainingBytes, countsTowardCache, pool, todo, call, reservedPendingBytes, cacheReservedBytes>>
  BY <1>1 DEF counters, reservation, handOffs, control
<1>3. SystemTypes'
  BY <1>1, TypeParts DEF Inv, SystemTypes, handOffs, eviction, control
<1>4. /\ written' \in [Request -> Nat] /\ dirty' \in [Request -> Nat]
      /\ written'[r] = written[r] + 1 /\ dirty'[r] = 1
      /\ \A q \in Request : q # r => SameAt(q)
  BY <1>1, <1>2 DEF CallerTypes, SameAt
<1>5. CallerTypes'
  BY <1>1, <1>2, <1>4 DEF CallerTypes
<1>6. /\ written[r] \in Nat /\ want[r].bytes \in Nat /\ grantedBytes[r] \in Nat
      /\ want[r].bytes <= grantedBytes[r] /\ remainingBytes[r] = grantedBytes[r] - written[r] + dirty[r]
  BY <1>1 DEF Inv, CallerInv, CallerTypes, Wants
<1>7. CallerInv(r)'
  BY <1>1, <1>2, <1>4, <1>6 DEF CallerInv, Unreserved
<1>8. counted' = counted
  BY <1>2 DEF counted
<1>9. /\ reservedPendingBytes' = reservedPendingBytes - remainingBytes[r] + remainingBytes'[r]
      /\ cacheReservedBytes' = cacheReservedBytes - counted[r] + counted'[r]
  BY <1>2, <1>8, NoClamp, TypeParts DEF Inv
<1> QED
  BY <1>1, <1>2, <1>3, <1>4, <1>5, <1>7, <1>9, SessionActs

LEMMA ConsumeStep == ASSUME Inv, NEW r \in Request, Consume(r) PROVE Inv'
<1> DEFINE consumed == Least(remainingBytes[r], dirty[r])
<1>1. /\ Quiet /\ st[r] = "held" /\ CallerTypes
      /\ remainingBytes' = [remainingBytes EXCEPT ![r] = @ - consumed]
      /\ reservedPendingBytes' = AtLeastZero(reservedPendingBytes - consumed)
      /\ dirty' = [dirty EXCEPT ![r] = 0]
      /\ UNCHANGED <<config, free, published, committedBytes, written, cacheReservedBytes, st,
                     want, grantedBytes, countsTowardCache, waitingDisk, handOffs, pollTimer,
                     eviction, shuttingDown, control>>
  BY TypeParts DEF Consume, consumeReservation, Inv
<1>2. /\ written[r] \in Nat /\ want[r].bytes \in Nat /\ grantedBytes[r] \in Nat /\ dirty[r] \in Nat
      /\ dirty[r] <= written[r] /\ written[r] <= want[r].bytes /\ remainingBytes[r] \in Nat
      /\ want[r].bytes <= grantedBytes[r] /\ remainingBytes[r] = grantedBytes[r] - written[r] + dirty[r]
  BY <1>1 DEF Inv, CallerInv, CallerTypes, Wants
<1>3. consumed = dirty[r] /\ remainingBytes[r] - consumed \in Nat
  BY <1>2 DEF Least
<1> HIDE DEF consumed
<1>4. /\ remainingBytes' \in [Request -> Nat] /\ dirty' \in [Request -> Nat]
      /\ remainingBytes'[r] = remainingBytes[r] - consumed /\ dirty'[r] = 0
      /\ \A q \in Request : q # r => SameAt(q)
  BY <1>1, <1>3 DEF CallerTypes, SameAt
<1>5. CallerTypes'
  BY <1>1, <1>4 DEF CallerTypes
<1>6. SystemTypes'
  BY <1>1, TypeParts DEF Inv, SystemTypes, handOffs, eviction, control
<1>7. CallerInv(r)'
  BY <1>1, <1>2, <1>3, <1>4 DEF CallerInv, Unreserved
<1>8. counted' = counted
  BY <1>1 DEF counted
<1>9. /\ remainingBytes[r] <= reservedPendingBytes /\ counted[r] \in Nat
      /\ reservedPendingBytes \in Nat /\ cacheReservedBytes \in Nat
  BY NoClamp, TypeParts DEF Inv
<1>10. /\ reservedPendingBytes' = reservedPendingBytes - remainingBytes[r] + remainingBytes'[r]
       /\ cacheReservedBytes' = cacheReservedBytes - counted[r] + counted'[r]
  BY <1>1, <1>2, <1>3, <1>4, <1>8, <1>9 DEF AtLeastZero
<1> QED
  BY <1>1, <1>4, <1>5, <1>6, <1>7, <1>10, SessionActs DEF handOffs, control

\* A session that ends: it holds its reservation and no file any more.
LEMMA EndsStep ==
    ASSUME Inv, Quiet, NEW r \in Request, st[r] \notin {"waiting", "pooled"}, SystemTypes',
           st' = [st EXCEPT ![r] = IF @ = "held" THEN "ending" ELSE @],
           written' = [written EXCEPT ![r] = 0], dirty' = [dirty EXCEPT ![r] = 0],
           UNCHANGED <<counters, want, reservation, waitingDisk, pool, pollTimer, todo, call>>
    PROVE  Inv'
<1>1. CallerTypes /\ reservedPendingBytes \in Nat /\ cacheReservedBytes \in Nat
  BY TypeParts DEF Inv
<1>2. UNCHANGED <<grantedBytes, remainingBytes, countsTowardCache, reservedPendingBytes, cacheReservedBytes>>
  BY DEF counters, reservation
<1>3. /\ st' \in [Request -> States] /\ written' \in [Request -> Nat] /\ dirty' \in [Request -> Nat]
      /\ st'[r] = (IF st[r] = "held" THEN "ending" ELSE st[r]) /\ dirty'[r] = 0 /\ written'[r] = 0
      /\ \A q \in Request : q # r => SameAt(q)
  BY <1>1, <1>2 DEF CallerTypes, SameAt, States
<1>4. CallerTypes'
  BY <1>1, <1>2, <1>3 DEF CallerTypes
<1>5. CallerInv(r)' /\ st'[r] \notin {"waiting", "pooled"}
  BY <1>2, <1>3 DEF Inv, CallerInv, Unreserved
<1>6. counted' = counted
  BY <1>2 DEF counted
<1>7. /\ reservedPendingBytes' = reservedPendingBytes - remainingBytes[r] + remainingBytes'[r]
      /\ cacheReservedBytes' = cacheReservedBytes - counted[r] + counted'[r]
  BY <1>1, <1>2, <1>6, NoClamp
<1> QED
  BY <1>3, <1>4, <1>5, <1>7, SessionActs

LEMMA PublishStep == ASSUME Inv, NEW r \in Request, Publish(r) PROVE Inv'
<1>1. /\ Quiet /\ st[r] = "held" /\ dirty[r] = 0 /\ CallerTypes /\ SystemTypes
      /\ st' = [st EXCEPT ![r] = "ending"]
      /\ published' = [published EXCEPT ![written[r]] = @ + 1]
      /\ committedBytes' = committedBytes + written[r]
      /\ written' = [written EXCEPT ![r] = 0]
      /\ UNCHANGED <<config, free, dirty, counters, want, reservation, waitingDisk, handOffs,
                     pollTimer, eviction, shuttingDown, control>>
  BY TypeParts DEF Publish, Inv
<1>2. /\ st' = [st EXCEPT ![r] = IF @ = "held" THEN "ending" ELSE @]
      /\ dirty' = [dirty EXCEPT ![r] = 0]
  BY <1>1 DEF CallerTypes
<1>3. published' \in [Bytes -> Nat] /\ committedBytes' \in Nat
  <2>1. published \in [Bytes -> Nat] /\ committedBytes \in Nat /\ written[r] \in Nat
    BY <1>1 DEF SystemTypes, CallerTypes
  <2>2. committedBytes' \in Nat
    BY <1>1, <2>1
  <2>3. CASE written[r] \in Bytes
    <3>1. published[written[r]] + 1 \in Nat
      BY <2>1, <2>3
    <3> QED
      BY <1>1, <2>1, <2>3, <3>1
  <2>4. CASE written[r] \notin Bytes
    <3> DEFINE v == published[written[r]] + 1
               n == written[r]
    <3>1. published' = [published EXCEPT ![n] = v] /\ n \notin Bytes
      BY <1>1, <2>4
    <3> HIDE DEF v, n
    <3>2. published' = published
      BY <2>1, <3>1
    <3> QED
      BY <2>1, <2>2, <3>2
  <2> QED
    BY <2>3, <2>4
<1>4. SystemTypes'
  BY <1>1, <1>3 DEF SystemTypes, handOffs, eviction, control
<1> QED
  BY <1>1, <1>2, <1>4, EndsStep DEF handOffs, control

LEMMA UnlinkStep == ASSUME Inv, NEW r \in Request, Unlink(r) PROVE Inv'
<1>1. /\ Quiet /\ written[r] > 0 /\ CallerTypes /\ SystemTypes
      /\ st' = [st EXCEPT ![r] = IF @ = "held" THEN "ending" ELSE @]
      /\ written' = [written EXCEPT ![r] = 0] /\ dirty' = [dirty EXCEPT ![r] = 0]
      /\ UNCHANGED <<config, published, committedBytes, counters, want, reservation,
                     waitingDisk, handOffs, pollTimer, eviction, shuttingDown, control>>
  BY TypeParts DEF Unlink, Inv
<1>2. free' \in Nat
  BY <1>1 DEF Unlink, CallerTypes, SystemTypes
<1>3. SystemTypes'
  BY <1>1, <1>2 DEF SystemTypes, handOffs, eviction, control
<1>4. st[r] \notin {"waiting", "pooled"}
  BY <1>1 DEF Inv, CallerInv
<1> QED
  BY <1>1, <1>3, <1>4, EndsStep DEF handOffs, control

----------------------------------------------------------------------------
\* Asking for a reservation

\* createReservation for a caller that has none
LEMMA CreateEffect ==
    ASSUME Inv, NEW r \in Request, NEW bytes \in Nat, NEW counts \in BOOLEAN,
           createReservation(r, bytes, counts), UNCHANGED <<dirty, written>>,
           st[r] \in Unreserved, written[r] = 0
    PROVE  /\ CallerTypes' /\ (\A q \in Request : q # r => SameAt(q))
           /\ st'[r] = "held" /\ CallerInv(r)'
           /\ reservedPendingBytes' = reservedPendingBytes - remainingBytes[r] + remainingBytes'[r]
           /\ cacheReservedBytes' = cacheReservedBytes - counted[r] + counted'[r]
<1>1. CallerTypes /\ reservedPendingBytes \in Nat /\ cacheReservedBytes \in Nat
  BY TypeParts DEF Inv
<1> DEFINE w == [bytes |-> bytes, counts |-> counts]
<1>2. /\ st' = [st EXCEPT ![r] = "held"] /\ want' = [want EXCEPT ![r] = w]
      /\ grantedBytes' = [grantedBytes EXCEPT ![r] = bytes]
      /\ remainingBytes' = [remainingBytes EXCEPT ![r] = bytes]
      /\ countsTowardCache' = [countsTowardCache EXCEPT ![r] = counts]
      /\ reservedPendingBytes' = reservedPendingBytes + bytes
      /\ cacheReservedBytes' = cacheReservedBytes + (IF counts THEN bytes ELSE 0)
  BY DEF createReservation
<1>3. w \in Wants /\ w.bytes = bytes
  BY DEF Wants
<1> HIDE DEF w
<1>4. /\ st' \in [Request -> States] /\ want' \in [Request -> Wants]
      /\ grantedBytes' \in [Request -> Nat] /\ remainingBytes' \in [Request -> Nat]
      /\ countsTowardCache' \in [Request -> BOOLEAN]
  BY <1>1, <1>2, <1>3 DEF CallerTypes, States
<1>5. /\ st'[r] = "held" /\ want'[r] = w /\ grantedBytes'[r] = bytes /\ remainingBytes'[r] = bytes
      /\ countsTowardCache'[r] = counts
      /\ \A q \in Request : q # r => SameAt(q)
  BY <1>1, <1>2 DEF CallerTypes, SameAt
<1>6. CallerTypes'
  BY <1>1, <1>4 DEF CallerTypes
<1>7. /\ grantedBytes[r] = 0 /\ remainingBytes[r] = 0 /\ ~countsTowardCache[r] /\ dirty[r] = 0
  BY DEF Inv, CallerInv
<1>8. counted[r] = 0 /\ counted'[r] = (IF counts THEN bytes ELSE 0)
  BY <1>1, <1>5, <1>6, <1>7, CountedTypes
<1>9. /\ reservedPendingBytes' = reservedPendingBytes - remainingBytes[r] + remainingBytes'[r]
      /\ cacheReservedBytes' = cacheReservedBytes - counted[r] + counted'[r]
  BY <1>1, <1>2, <1>5, <1>7, <1>8
<1>10. want'[r].bytes = bytes
  BY <1>3, <1>5
<1>11. CallerInv(r)'
  BY <1>5, <1>7, <1>10 DEF CallerInv, Unreserved
<1> QED
  BY <1>5, <1>6, <1>9, <1>11

\* reserve() and tryReserveNow() behind the hand-off answer, grant what fits, or queue.
LEMMA ByProbe ==
    ASSUME NEW op, NEW r \in Request, NEW bytes \in Nat, NEW counts \in BOOLEAN,
           byProbe(op, r, bytes, counts)
    PROVE  \/ \E a \in {"idle", "direct", "unprobed"} : Answer(r, a)
           \/ /\ admissible(bytes, counts, free - config.volumePeerReserveBytes)
              /\ createReservation(r, bytes, counts) /\ UNCHANGED <<waitingDisk, pollTimer>>
           \/ enqueueDisk(r, bytes, counts)
<1>1. ASSUME NEW ok \in FsOutcomes, probeAdmissionFreeBytes(ok) >= 0
      PROVE  probeAdmissionFreeBytes(ok) = free - config.volumePeerReserveBytes
  BY <1>1 DEF probeAdmissionFreeBytes
<1> QED
  BY <1>1 DEF byProbe, reserveByProbe, tryByProbe

\* A caller without a reservation asks: the parts of the invariant about callers and
\* about the queue.
LEMMA AskedStep ==
    ASSUME Inv, NEW op, NEW r \in Request, NEW bytes \in Nat, NEW counts \in BOOLEAN,
           byProbe(op, r, bytes, counts), st[r] \in Unreserved \ {"waiting"}, written[r] = 0,
           UNCHANGED <<config, disk, handOffs, eviction, shuttingDown, todo, pump>>,
           call.op # "shutdown", call' = NoCall
    PROVE  Inv'
<1>1. CallerTypes /\ SystemTypes /\ reservedPendingBytes \in Nat /\ cacheReservedBytes \in Nat
  BY TypeParts DEF Inv
<1>2. UNCHANGED <<dirty, written, pool, todo, free, published, committedBytes>>
  BY DEF disk, handOffs
<1>3. CallInv' /\ call' \in [op : {"none", "reserve", "try", "shutdown"}, id : Request \cup {None}]
  BY DEF CallInv, NoCall, Asks
<1>4. ASSUME UNCHANGED <<waitingDisk, pollTimer>> PROVE PollInv'
  BY <1>4 DEF Inv, PollInv
<1>5. ASSUME NEW a \in {"idle", "direct", "unprobed"}, Answer(r, a) PROVE Inv'
  <2>1. /\ st' = [st EXCEPT ![r] = a] /\ want' = [want EXCEPT ![r] = NoWant]
        /\ UNCHANGED <<reservation, counters, waitingDisk, pollTimer>>
    BY <1>5 DEF Answer
  <2>2. NoWant \in Wants
    BY DEF NoWant, Wants
  <2>3. /\ st' \in [Request -> States] /\ want' \in [Request -> Wants] /\ st'[r] = a
        /\ \A q \in Request : q # r => SameAt(q)
    BY <1>1, <1>2, <2>1, <2>2 DEF CallerTypes, SameAt, States, reservation
  <2>4. CallerTypes'
    BY <1>1, <1>2, <2>1, <2>3 DEF CallerTypes, reservation
  <2>5. SystemTypes'
    BY <1>1, <1>2, <1>3, <2>1 DEF SystemTypes, handOffs, eviction
  <2>6. CallerInv(r)'
    BY <1>2, <2>1, <2>3 DEF Inv, CallerInv, Unreserved, reservation
  <2>7. counted' = counted
    BY <2>1 DEF counted, reservation
  <2>8. /\ reservedPendingBytes' = reservedPendingBytes - remainingBytes[r] + remainingBytes'[r]
        /\ cacheReservedBytes' = cacheReservedBytes - counted[r] + counted'[r]
    BY <1>1, <2>1, <2>7, NoClamp DEF counters, reservation
  <2>9. /\ \A q \in Request : CallerInv(q)'
        /\ AccountingExact' /\ reservedPendingBytes' \in Nat /\ cacheReservedBytes' \in Nat
    BY <2>3, <2>4, <2>6, <2>8, CallerActs
  <2>10. \A q \in Request : /\ st'[q] = "waiting" <=> st[q] = "waiting"
                            /\ st'[q] = "pooled" <=> st[q] = "pooled"
    BY <2>3 DEF SameAt, Unreserved
  <2>11. QueueInv' /\ PoolInv'
    BY <1>2, <2>1, <2>10, QueueKept, PoolKept
  <2> QED
    BY <1>3, <1>4, <2>1, <2>4, <2>5, <2>9, <2>11, Together
<1>6. ASSUME createReservation(r, bytes, counts), UNCHANGED <<waitingDisk, pollTimer>> PROVE Inv'
  <2>1. /\ CallerTypes' /\ (\A q \in Request : q # r => SameAt(q))
        /\ st'[r] = "held" /\ CallerInv(r)'
        /\ reservedPendingBytes' = reservedPendingBytes - remainingBytes[r] + remainingBytes'[r]
        /\ cacheReservedBytes' = cacheReservedBytes - counted[r] + counted'[r]
    BY <1>2, <1>6, CreateEffect
  <2>2. SystemTypes'
    BY <1>1, <1>2, <1>3, <1>6 DEF SystemTypes, handOffs, eviction
  <2>3. /\ \A q \in Request : CallerInv(q)'
        /\ AccountingExact' /\ reservedPendingBytes' \in Nat /\ cacheReservedBytes' \in Nat
    BY <2>1, CallerActs
  <2>4. \A q \in Request : /\ st'[q] = "waiting" <=> st[q] = "waiting"
                           /\ st'[q] = "pooled" <=> st[q] = "pooled"
    BY <2>1 DEF SameAt, Unreserved
  <2>5. QueueInv' /\ PoolInv'
    BY <1>2, <1>6, <2>4, QueueKept, PoolKept
  <2> QED
    BY <1>3, <1>4, <1>6, <2>1, <2>2, <2>3, <2>5, Together
<1>7. ASSUME enqueueDisk(r, bytes, counts) PROVE Inv'
  <2> DEFINE w == [bytes |-> bytes, counts |-> counts]
  <2>1. /\ st' = [st EXCEPT ![r] = "waiting"] /\ want' = [want EXCEPT ![r] = w]
        /\ waitingDisk' = Append(waitingDisk, r) /\ pollTimer' = TRUE
        /\ UNCHANGED <<reservation, counters>>
    BY <1>7 DEF enqueueDisk
  <2>2. w \in Wants
    BY DEF Wants
  <2> HIDE DEF w
  <2>3. /\ st' \in [Request -> States] /\ want' \in [Request -> Wants] /\ st'[r] = "waiting"
        /\ \A q \in Request : q # r => SameAt(q)
    BY <1>1, <1>2, <2>1, <2>2 DEF CallerTypes, SameAt, States, reservation
  <2>4. CallerTypes'
    BY <1>1, <1>2, <2>1, <2>3 DEF CallerTypes, reservation
  <2>5. SystemTypes'
    BY <1>1, <1>2, <1>3, <2>1 DEF SystemTypes, handOffs, eviction
  <2>6. CallerInv(r)'
    BY <1>2, <2>1, <2>3 DEF Inv, CallerInv, Unreserved, reservation
  <2>7. counted' = counted
    BY <2>1 DEF counted, reservation
  <2>8. /\ reservedPendingBytes' = reservedPendingBytes - remainingBytes[r] + remainingBytes'[r]
        /\ cacheReservedBytes' = cacheReservedBytes - counted[r] + counted'[r]
    BY <1>1, <2>1, <2>7, NoClamp DEF counters, reservation
  <2>9. /\ \A q \in Request : CallerInv(q)'
        /\ AccountingExact' /\ reservedPendingBytes' \in Nat /\ cacheReservedBytes' \in Nat
    BY <2>3, <2>4, <2>6, <2>8, CallerActs
  <2>10. \A q \in Request : st'[q] = "pooled" <=> st[q] = "pooled"
    BY <2>3 DEF SameAt, Unreserved
  <2>11. PoolInv'
    BY <1>2, <2>10, PoolKept
  <2>12. QueueInv'
    <3>1. /\ waitingDisk \in Seq(Request) /\ IsInjective(waitingDisk)
          /\ ToSet(waitingDisk) = {q \in Request : st[q] = "waiting"} /\ r \notin ToSet(waitingDisk)
      BY <1>1 DEF Inv, QueueInv, SystemTypes
    <3>2. IsInjective(waitingDisk') /\ ToSet(waitingDisk') = ToSet(waitingDisk) \cup {r}
      BY <2>1, <3>1, AppendSet
    <3> QED
      BY <2>3, <3>1, <3>2 DEF QueueInv, SameAt
  <2>13. PollInv'
    BY <2>1 DEF PollInv
  <2> QED
    BY <1>3, <2>4, <2>5, <2>9, <2>11, <2>12, <2>13, Together
<1> QED
  BY <1>5, <1>6, <1>7, ByProbe

LEMMA AskStep ==
    ASSUME Inv, NEW op, NEW r \in Request, NEW bytes \in Bytes, NEW counts \in CountsOf[KeyOf[r]],
           Ask(op, r, bytes, counts)
    PROVE  Inv'
<1>1. bytes \in Nat /\ counts \in BOOLEAN
  BY SizeAssumption, KeyAssumption
<1>2. /\ Quiet /\ MayAsk(r) /\ byProbe(op, r, bytes, counts)
      /\ UNCHANGED <<config, disk, handOffs, eviction, shuttingDown, control>>
  BY DEF Ask
<1>3. /\ st[r] \in Unreserved \ {"waiting"} /\ written[r] = 0 /\ call.op # "shutdown"
      /\ call' = NoCall /\ UNCHANGED <<todo, pump>>
  BY <1>2, QuietFacts DEF MayAsk, Unreserved, Quiet, control
<1> QED
  BY <1>1, <1>2, <1>3, AskedStep

LEMMA AskResumeStep == ASSUME Inv, AskResume PROVE Inv'
<1>1. /\ Asks /\ byProbe(call.op, call.id, want[call.id].bytes, want[call.id].counts) /\ call' = NoCall
      /\ UNCHANGED <<config, disk, handOffs, eviction, shuttingDown, todo, pump>>
  BY DEF AskResume, Asks
<1>2. PICK r \in Request : r = call.id
  BY <1>1 DEF Inv, CallInv
<1>3. st[r] \in Unreserved \ {"waiting"} /\ written[r] = 0 /\ call.op # "shutdown"
  BY <1>1, <1>2 DEF Inv, CallInv, Asks
<1>4. PICK op \in {"reserve", "try"}, bytes \in Nat, counts \in BOOLEAN :
         op = call.op /\ bytes = want[r].bytes /\ counts = want[r].counts
  BY <1>1, TypeParts DEF Inv, CallerTypes, Wants, Asks
<1>5. byProbe(op, r, bytes, counts)
  BY <1>1, <1>2, <1>4
<1> QED
  BY <1>1, <1>3, <1>5, AskedStep

LEMMA AskStaleStep ==
    ASSUME Inv, NEW op \in {"reserve", "try"}, NEW r \in Request, NEW bytes \in Bytes,
           NEW counts \in CountsOf[KeyOf[r]], AskStale(op, r, bytes, counts)
    PROVE  Inv'
<1> DEFINE k == KeyOf[r]
           h == pool[k]
           w == [bytes |-> bytes, counts |-> counts]
<1>1. /\ Quiet /\ MayAsk(r) /\ h # None /\ pool' = [pool EXCEPT ![k] = None]
      /\ poolExpired' = [poolExpired EXCEPT ![k] = FALSE] /\ todo' = {h}
      /\ \/ UNCHANGED <<call, want>>
         \/ call' = [op |-> op, id |-> r] /\ want' = [want EXCEPT ![r] = w]
      /\ UNCHANGED <<config, disk, counters, st, reservation, waitingDisk, pollTimer,
                     eviction, shuttingDown, pump>>
  BY DEF AskStale
<1>2. CallerTypes /\ SystemTypes
  BY TypeParts DEF Inv
<1>3. k \in Key /\ h \in Request /\ w \in Wants
  BY <1>1, <1>2, KeyAssumption, SizeAssumption DEF SystemTypes, Wants
<1>4. /\ ~Asks /\ todo = {} /\ call.op # "shutdown"
      /\ st[r] \in Unreserved \ {"waiting"} /\ written[r] = 0
  BY <1>1, QuietFacts DEF MayAsk, Unreserved
<1> HIDE DEF h, w
<1>5. want' \in [Request -> Wants] /\ \A q \in Request : q # r => want'[q] = want[q]
  BY <1>1, <1>2, <1>3 DEF CallerTypes
<1>6. CallerTypes'
  BY <1>1, <1>2, <1>5 DEF CallerTypes, reservation, disk
<1>7. /\ pool' \in [Key -> Request \cup {None}] /\ poolExpired' \in [Key -> BOOLEAN]
      /\ call' \in [op : {"none", "reserve", "try", "shutdown"}, id : Request \cup {None}]
  BY <1>1, <1>2, <1>3 DEF SystemTypes
<1>8. SystemTypes'
  BY <1>1, <1>2, <1>3, <1>7 DEF SystemTypes, disk, eviction
<1>9. /\ \A q \in Request : CallerInv(q)'
      /\ AccountingExact' /\ reservedPendingBytes' \in Nat /\ cacheReservedBytes' \in Nat
  BY <1>1, <1>4, <1>5, NobodyActs DEF disk, Unreserved
<1>10. QueueInv'
  BY <1>1, QueueKept
<1>11. CallInv' /\ PollInv'
  BY <1>1, <1>4 DEF Inv, CallInv, PollInv, Asks, disk
<1>12. PoolInv'
  <2>1. pool'[k] = None /\ \A j \in Key : j # k => pool'[j] = pool[j]
    BY <1>1, <1>2, <1>3 DEF SystemTypes
  <2>2. /\ st[h] = "pooled" /\ KeyOf[h] = k
        /\ \A j \in Key : pool[j] # None => st[pool[j]] = "pooled" /\ KeyOf[pool[j]] = j
        /\ \A q \in Request : st[q] = "pooled" => pool[KeyOf[q]] = q
    BY <1>1, <1>3, <1>4 DEF Inv, PoolInv, h
  <2>3. \A q \in Request : KeyOf[q] \in Key
    BY KeyAssumption
  <2> QED
    BY <1>1, <1>3, <2>1, <2>2, <2>3 DEF PoolInv, h
<1> QED
  BY <1>6, <1>8, <1>9, <1>10, <1>11, <1>12, Together

\* The caller r becomes the holder of what h had in the pool.
Adopted(r, bytes, counts, h) ==
    /\ h # r /\ KeyOf[h] = KeyOf[r] /\ st[h] = "pooled" /\ st[r] \in Unreserved \ {"waiting"}
    /\ written[r] = 0 /\ dirty[r] = 0 /\ written[h] = 0 /\ dirty[h] = 0
    /\ grantedBytes[r] = 0 /\ remainingBytes[r] = 0 /\ ~countsTowardCache[r]
    /\ grantedBytes[h] \in Nat /\ remainingBytes[h] = grantedBytes[h] /\ grantedBytes[h] >= bytes
    /\ st'[r] = "held" /\ st'[h] = "idle"
    /\ want'[r].bytes = bytes /\ want'[r].counts = counts
    /\ grantedBytes'[r] = grantedBytes[h] /\ grantedBytes'[h] = 0
    /\ remainingBytes'[r] = remainingBytes[h] /\ remainingBytes'[h] = 0
    /\ countsTowardCache'[r] = countsTowardCache[h] /\ ~countsTowardCache'[h]
    /\ UNCHANGED <<config, disk, reservedPendingBytes, cacheReservedBytes>>
    /\ \A q \in Request : q # r /\ q # h => SameAt(q)
    /\ CallerTypes'

LEMMA AdoptEffect ==
    ASSUME Inv, NEW r \in Request, NEW bytes \in Bytes, NEW counts \in CountsOf[KeyOf[r]],
           Adopt(r, bytes, counts)
    PROVE  \E h \in Request : h = pool[KeyOf[r]] /\ Adopted(r, bytes, counts, h)
<1> DEFINE k == KeyOf[r]
           w == [bytes |-> bytes, counts |-> counts]
<1>1. /\ CallerTypes /\ SystemTypes /\ reservedPendingBytes \in Nat /\ cacheReservedBytes \in Nat
      /\ k \in Key
  BY TypeParts, KeyAssumption DEF Inv
<1>2. PICK h \in Request : h = pool[k]
  BY <1>1 DEF Adopt, SystemTypes
<1>3. /\ Quiet /\ MayAsk(r) /\ h # None /\ grantedBytes[h] >= bytes
      /\ pool' = [pool EXCEPT ![k] = None]
      /\ st' = [st EXCEPT ![r] = "held", ![h] = "idle"]
      /\ want' = [want EXCEPT ![r] = w]
      /\ grantedBytes' = [grantedBytes EXCEPT ![r] = grantedBytes[h], ![h] = 0]
      /\ remainingBytes' = [remainingBytes EXCEPT ![r] = remainingBytes[h], ![h] = 0]
      /\ countsTowardCache' = [countsTowardCache EXCEPT ![r] = countsTowardCache[h], ![h] = FALSE]
      /\ UNCHANGED <<config, disk, counters, waitingDisk, poolExpired, pollTimer, eviction,
                     shuttingDown, control>>
  BY <1>2 DEF Adopt
<1>4. k \in Key /\ h \in Request /\ w \in Wants /\ w.bytes = bytes /\ w.counts = counts /\ bytes \in Nat
  BY <1>3, <1>1, KeyAssumption, SizeAssumption DEF SystemTypes, Wants
<1>5. /\ ~Asks /\ todo = {} /\ call.op # "shutdown"
      /\ st[r] \in Unreserved \ {"waiting"} /\ written[r] = 0
  BY <1>3, QuietFacts DEF MayAsk, Unreserved
<1>6. /\ st[h] = "pooled" /\ KeyOf[h] = k
      /\ \A j \in Key : pool[j] # None => st[pool[j]] = "pooled" /\ KeyOf[pool[j]] = j
      /\ \A q \in Request : st[q] = "pooled" => pool[KeyOf[q]] = q
  BY <1>2, <1>3, <1>1, <1>5 DEF Inv, PoolInv
<1> HIDE DEF w
<1>7. h # r
  BY <1>5, <1>6 DEF Unreserved
<1>8. /\ st' \in [Request -> States] /\ want' \in [Request -> Wants]
      /\ grantedBytes' \in [Request -> Nat] /\ remainingBytes' \in [Request -> Nat]
      /\ countsTowardCache' \in [Request -> BOOLEAN] /\ pool' \in [Key -> Request \cup {None}]
  BY <1>3, <1>1, <1>4 DEF CallerTypes, SystemTypes, States
<1>9. /\ st'[r] = "held" /\ st'[h] = "idle" /\ want'[r] = w /\ want'[r].bytes = bytes /\ want'[r].counts = counts
      /\ grantedBytes'[r] = grantedBytes[h] /\ grantedBytes'[h] = 0
      /\ remainingBytes'[r] = remainingBytes[h] /\ remainingBytes'[h] = 0
      /\ countsTowardCache'[r] = countsTowardCache[h] /\ ~countsTowardCache'[h]
  BY <1>3, <1>1, <1>4, <1>7 DEF CallerTypes
<1>10. UNCHANGED <<dirty, written, todo, call, pump, reservedPendingBytes, cacheReservedBytes>>
  BY <1>3 DEF disk, control, counters
<1>11. \A q \in Request : q # r /\ q # h => SameAt(q)
  BY <1>3, <1>1, <1>10 DEF CallerTypes, SameAt
<1>12. CallerTypes'
  BY <1>1, <1>8, <1>10 DEF CallerTypes
<1>13. /\ dirty[r] = 0 /\ dirty[h] = 0 /\ written[h] = 0 /\ remainingBytes[h] = grantedBytes[h]
       /\ grantedBytes[r] = 0 /\ remainingBytes[r] = 0 /\ ~countsTowardCache[r]
       /\ grantedBytes[h] \in Nat
  BY <1>1, <1>4, <1>5, <1>6 DEF Inv, CallerInv, CallerTypes
<1> QED
  BY <1>2, <1>3, <1>5, <1>6, <1>7, <1>9, <1>10, <1>11, <1>12, <1>13 DEF Adopted

LEMMA AdoptStep ==
    ASSUME Inv, NEW r \in Request, NEW bytes \in Bytes, NEW counts \in CountsOf[KeyOf[r]],
           Adopt(r, bytes, counts)
    PROVE  Inv'
<1> DEFINE k == KeyOf[r]
<1>1. /\ CallerTypes /\ SystemTypes /\ reservedPendingBytes \in Nat /\ cacheReservedBytes \in Nat
      /\ k \in Key /\ bytes \in Nat
  BY TypeParts, KeyAssumption, SizeAssumption DEF Inv
<1>2. PICK h \in Request : h = pool[k] /\ Adopted(r, bytes, counts, h)
  BY AdoptEffect
<1>3. /\ Quiet /\ h # None /\ pool' = [pool EXCEPT ![k] = None]
      /\ UNCHANGED <<config, disk, counters, waitingDisk, poolExpired, pollTimer, eviction,
                     shuttingDown, control>>
  BY <1>2 DEF Adopt
<1>4. /\ ~Asks /\ todo = {} /\ call.op # "shutdown"
      /\ UNCHANGED <<dirty, written, todo, call, pump, reservedPendingBytes, cacheReservedBytes>>
  BY <1>3, QuietFacts DEF disk, control, counters
<1>5. /\ KeyOf[h] = k
      /\ \A j \in Key : pool[j] # None => st[pool[j]] = "pooled" /\ KeyOf[pool[j]] = j
      /\ \A q \in Request : st[q] = "pooled" => pool[KeyOf[q]] = q
  BY <1>1, <1>2, <1>3, <1>4 DEF Inv, PoolInv
<1>6. pool' \in [Key -> Request \cup {None}]
  BY <1>1, <1>3 DEF SystemTypes
<1>7. CallerTypes' /\ SystemTypes'
  BY <1>1, <1>2, <1>3, <1>4, <1>6 DEF Adopted, SystemTypes, disk, eviction
<1>8. CallerInv(r)' /\ CallerInv(h)'
  BY <1>1, <1>2, <1>4 DEF Adopted, CallerInv, Unreserved
<1>9. \A q \in Request : CallerInv(q)'
  <2>1. ASSUME NEW q \in Request, q # r, q # h PROVE CallerInv(q)'
    BY <1>2, <2>1 DEF Adopted, Inv, CallerInv, SameAt
  <2> QED
    BY <1>8, <2>1
<1>10. Sum(remainingBytes') = Sum(remainingBytes)
  <2>1. remainingBytes \in [Request -> Nat] /\ remainingBytes' \in [Request -> Nat]
    BY <1>1, <1>7 DEF CallerTypes
  <2> QED
    BY <1>2, <2>1, SumMoves DEF Adopted, SameAt
<1>11. Sum(counted') = Sum(counted)
  <2>1. counted \in [Request -> Nat] /\ counted' \in [Request -> Nat]
    BY <1>1, <1>7, CountedTypes
  <2>2. /\ counted[r] = 0 /\ counted'[r] = counted[h] /\ counted'[h] = 0
        /\ \A q \in Request : q # r /\ q # h => counted'[q] = counted[q]
    BY <1>1, <1>2, <1>7, CountedTypes DEF Adopted, SameAt
  <2> QED
    BY <1>2, <2>1, <2>2, SumMoves DEF Adopted
<1>12. AccountingExact' /\ reservedPendingBytes' \in Nat /\ cacheReservedBytes' \in Nat
  BY <1>1, <1>4, <1>10, <1>11 DEF Inv, AccountingExact, Sum
<1>13. QueueInv'
  <2>1. \A q \in Request : st'[q] = "waiting" <=> st[q] = "waiting"
    BY <1>2 DEF Adopted, SameAt
  <2> QED
    BY <1>3, <2>1, QueueKept
<1>14. CallInv' /\ PollInv'
  BY <1>3, <1>4 DEF Inv, CallInv, PollInv, Asks
<1>15. PoolInv'
  <2>1. pool'[k] = None /\ \A j \in Key : j # k => pool'[j] = pool[j]
    BY <1>1, <1>3 DEF SystemTypes
  <2>2. \A q \in Request : st'[q] = "pooled" <=> st[q] = "pooled" /\ q # h
    BY <1>2 DEF Adopted, SameAt, Unreserved
  <2>3. /\ \A q \in Request : KeyOf[q] \in Key
        /\ \A j \in Key : pool[j] # None => pool[j] \in Request
    BY <1>1, KeyAssumption DEF SystemTypes
  <2> QED
    BY <1>2, <1>1, <1>4, <1>5, <2>1, <2>2, <2>3 DEF PoolInv
<1> QED
  BY <1>7, <1>9, <1>12, <1>13, <1>14, <1>15, Together

----------------------------------------------------------------------------
\* The hand-off pool

LEMMA HandOffStep == ASSUME Inv, NEW r \in Request, HandOff(r) PROVE Inv'
<1> DEFINE k == KeyOf[r]
           out == ExpiredKeys \cup {j \in {k} : pool[j] # None}
<1>1. /\ Quiet /\ st[r] = "held" /\ written[r] = 0
      /\ st' = [st EXCEPT ![r] = "pooled"] /\ want' = [want EXCEPT ![r] = NoWant]
      /\ pool' = [j \in Key |-> IF j = k THEN r ELSE IF j \in out THEN None ELSE pool[j]]
      /\ poolExpired' = [j \in Key |-> poolExpired[j] /\ j \notin out]
      /\ todo' = {pool[j] : j \in out}
      /\ UNCHANGED <<config, disk, counters, reservation, waitingDisk, pollTimer, eviction,
                     shuttingDown, pump, call>>
  BY DEF HandOff
<1>2. /\ CallerTypes /\ SystemTypes /\ reservedPendingBytes \in Nat /\ cacheReservedBytes \in Nat
      /\ k \in Key /\ \A q \in Request : KeyOf[q] \in Key
  BY TypeParts, KeyAssumption DEF Inv
<1>3. /\ out \subseteq Key /\ (\A j \in out : pool[j] # None) /\ (pool[k] # None => k \in out)
  BY <1>2 DEF ExpiredKeys
<1> HIDE DEF out, k
<1>4. /\ ~Asks /\ todo = {} /\ call.op # "shutdown"
      /\ \A j \in Key : pool[j] # None =>
            pool[j] \in Request /\ st[pool[j]] = "pooled" /\ KeyOf[pool[j]] = j
      /\ \A q \in Request : st[q] = "pooled" => pool[KeyOf[q]] = q
  BY <1>1, <1>2, QuietFacts DEF Inv, PoolInv, SystemTypes
<1>5. /\ dirty[r] = 0 /\ remainingBytes[r] = grantedBytes[r]
  <2>1. /\ dirty[r] <= written[r] /\ dirty[r] \in Nat /\ grantedBytes[r] \in Nat
        /\ remainingBytes[r] = grantedBytes[r] - written[r] + dirty[r]
    BY <1>1, <1>2 DEF Inv, CallerInv, CallerTypes
  <2> QED
    BY <1>1, <2>1
<1>6. NoWant \in Wants
  BY DEF NoWant, Wants
<1>7. UNCHANGED <<dirty, written, grantedBytes, remainingBytes, countsTowardCache,
                  reservedPendingBytes, cacheReservedBytes>>
  BY <1>1 DEF disk, reservation, counters
<1>8. /\ st' \in [Request -> States] /\ want' \in [Request -> Wants] /\ st'[r] = "pooled"
      /\ \A q \in Request : q # r => SameAt(q)
  BY <1>1, <1>2, <1>6, <1>7 DEF CallerTypes, SameAt, States
<1>9. CallerTypes'
  BY <1>2, <1>7, <1>8 DEF CallerTypes
<1>10. /\ pool' \in [Key -> Request \cup {None}] /\ todo' \in SUBSET Request
       /\ poolExpired' \in [Key -> BOOLEAN]
  <2>1. pool' \in [Key -> Request \cup {None}]
    BY <1>1, <1>2 DEF SystemTypes
  <2>2. todo' \in SUBSET Request
    BY <1>1, <1>3, <1>4
  <2>3. poolExpired' \in [Key -> BOOLEAN]
    BY <1>1
  <2> QED
    BY <2>1, <2>2, <2>3
<1>11. SystemTypes'
  BY <1>1, <1>2, <1>10 DEF SystemTypes, disk, eviction
<1>12. CallerInv(r)'
  BY <1>1, <1>5, <1>7, <1>8 DEF CallerInv, Unreserved
<1>13. counted' = counted
  BY <1>7 DEF counted
<1>14. /\ reservedPendingBytes' = reservedPendingBytes - remainingBytes[r] + remainingBytes'[r]
       /\ cacheReservedBytes' = cacheReservedBytes - counted[r] + counted'[r]
  BY <1>2, <1>7, <1>13, NoClamp
<1>15. /\ \A q \in Request : CallerInv(q)'
       /\ AccountingExact' /\ reservedPendingBytes' \in Nat /\ cacheReservedBytes' \in Nat
  BY <1>8, <1>9, <1>12, <1>14, CallerActs
<1>16. QueueInv'
  <2>1. \A q \in Request : st'[q] = "waiting" <=> st[q] = "waiting"
    BY <1>1, <1>8 DEF SameAt
  <2> QED
    BY <1>1, <2>1, QueueKept
<1>17. CallInv' /\ PollInv'
  BY <1>1, <1>4 DEF Inv, CallInv, PollInv, Asks
<1>18. PoolInv'
  <2>1. /\ pool'[k] = r /\ KeyOf[r] = k
        /\ \A j \in Key : j # k => pool'[j] = IF j \in out THEN None ELSE pool[j]
    BY <1>1, <1>2 DEF k
  <2>2. \A q \in Request : st'[q] = "pooled" <=> st[q] = "pooled" \/ q = r
    BY <1>8 DEF SameAt
  <2>3. \A q \in Request : q \in todo' <=> \E j \in out : q = pool[j]
    BY <1>1
  <2>4. \A j \in Key : pool'[j] # None =>
           st'[pool'[j]] = "pooled" /\ KeyOf[pool'[j]] = j /\ pool'[j] \notin todo'
    <3> SUFFICES ASSUME NEW j \in Key, pool'[j] # None
                 PROVE  st'[pool'[j]] = "pooled" /\ KeyOf[pool'[j]] = j /\ pool'[j] \notin todo'
      OBVIOUS
    <3>1. CASE j = k
      BY <1>1, <1>3, <1>4, <2>1, <2>2, <2>3, <3>1
    <3>2. CASE j # k
      BY <1>2, <1>3, <1>4, <2>1, <2>2, <2>3, <3>2
    <3> QED
      BY <3>1, <3>2
  <2>5. \A q \in Request : st'[q] = "pooled" => pool'[KeyOf[q]] = q \/ q \in todo'
    <3> SUFFICES ASSUME NEW q \in Request, st'[q] = "pooled" PROVE pool'[KeyOf[q]] = q \/ q \in todo'
      OBVIOUS
    <3>1. CASE q = r
      BY <2>1, <3>1
    <3>2. CASE q # r
      <4>1. pool[KeyOf[q]] = q /\ KeyOf[q] \in Key /\ q # None
        BY <1>2, <1>4, <2>2, <3>2, RequestAssumption
      <4>2. CASE KeyOf[q] \in out
        BY <2>3, <4>1, <4>2
      <4>3. CASE KeyOf[q] \notin out
        BY <1>3, <2>1, <4>1, <4>3
      <4> QED
        BY <4>2, <4>3
    <3> QED
      BY <3>1, <3>2
  <2>6. \A q \in todo' : st'[q] = "pooled"
    BY <1>3, <1>4, <1>10, <2>2, <2>3
  <2> QED
    BY <2>4, <2>5, <2>6 DEF PoolInv
<1> QED
  BY <1>9, <1>11, <1>15, <1>16, <1>17, <1>18, Together

\* The next release of the running handler
LEMMA ReleaseTodoStep == ASSUME Inv, NEW h \in Request, ReleaseTodo(h) PROVE Inv'
<1>1. /\ h \in todo /\ releaseReservation(h) /\ todo' = todo \ {h}
      /\ UNCHANGED <<config, disk, waitingDisk, handOffs, pollTimer, eviction, shuttingDown, call>>
  BY DEF ReleaseTodo
<1>2. UNCHANGED <<dirty, written, pool, poolExpired, free, published, committedBytes>>
  BY <1>1 DEF disk, handOffs
<1>3. st[h] = "pooled" /\ dirty[h] = 0
  BY <1>1 DEF Inv, PoolInv, CallerInv
<1>4. /\ CallerTypes' /\ (\A q \in Request : q # h => SameAt(q))
      /\ st'[h] = "idle" /\ CallerInv(h)'
      /\ reservedPendingBytes' = reservedPendingBytes - remainingBytes[h] + remainingBytes'[h]
      /\ cacheReservedBytes' = cacheReservedBytes - counted[h] + counted'[h]
  BY <1>1, <1>2, <1>3, ReleaseEffect
<1>5. /\ \A q \in Request : CallerInv(q)'
      /\ AccountingExact' /\ reservedPendingBytes' \in Nat /\ cacheReservedBytes' \in Nat
  BY <1>4, CallerActs
<1>6. SystemTypes'
  BY <1>1, <1>2, TypeParts DEF Inv, SystemTypes, releaseReservation, eviction
<1>7. QueueInv'
  <2>1. \A q \in Request : st'[q] = "waiting" <=> st[q] = "waiting"
    BY <1>3, <1>4 DEF SameAt
  <2> QED
    BY <1>1, <2>1, QueueKept
<1>8. CallInv'
  <2>1. Asks => call.id \in Request /\ call.id # h
    BY <1>3 DEF Inv, CallInv, Unreserved
  <2> QED
    BY <1>1, <1>2, <1>4, <2>1, CallKept DEF SameAt
<1>9. PollInv'
  BY <1>1 DEF Inv, PollInv
<1>10. PoolInv'
  <2>1. \A q \in Request : st'[q] = "pooled" <=> st[q] = "pooled" /\ q # h
    BY <1>4 DEF SameAt
  <2>2. /\ \A j \in Key : pool[j] # None => pool[j] \in Request
        /\ todo \in SUBSET Request
    BY TypeParts DEF Inv, SystemTypes
  <2> QED
    BY <1>1, <1>2, <2>1, <2>2 DEF Inv, PoolInv
<1> QED
  BY <1>4, <1>5, <1>6, <1>7, <1>8, <1>9, <1>10, Together

\* Steps that leave the callers alone
LEMMA SystemActs ==
    ASSUME Inv, SystemTypes', UNCHANGED <<st, want, reservation, counters, dirty, written, waitingDisk>>,
           CallInv', PollInv', PoolInv'
    PROVE  Inv'
<1>1. CallerTypes'
  BY TypeParts DEF Inv, CallerTypes, reservation
<1>2. /\ \A q \in Request : CallerInv(q)'
      /\ AccountingExact' /\ reservedPendingBytes' \in Nat /\ cacheReservedBytes' \in Nat
  BY NobodyActs
<1>3. QueueInv'
  BY QueueKept
<1> QED
  BY <1>1, <1>2, <1>3, Together

LEMMA PurgeStep == ASSUME Inv, Purge PROVE Inv'
<1> DEFINE out == ExpiredKeys
<1>1. /\ Quiet /\ pool' = [k \in Key |-> IF k \in out THEN None ELSE pool[k]]
      /\ poolExpired' = [k \in Key |-> FALSE] /\ todo' = {pool[k] : k \in out}
      /\ UNCHANGED <<config, disk, counters, st, want, reservation, waitingDisk, pollTimer,
                     eviction, shuttingDown, pump, call>>
  BY DEF Purge
<1>2. /\ out \subseteq Key /\ \A j \in out : pool[j] # None
  BY DEF ExpiredKeys
<1> HIDE DEF out
<1>3. /\ ~Asks /\ todo = {} /\ call.op # "shutdown"
      /\ \A j \in Key : pool[j] # None =>
            pool[j] \in Request /\ st[pool[j]] = "pooled" /\ KeyOf[pool[j]] = j
      /\ \A q \in Request : st[q] = "pooled" => pool[KeyOf[q]] = q
      /\ \A q \in Request : KeyOf[q] \in Key
      /\ SystemTypes
  BY <1>1, QuietFacts, KeyAssumption, TypeParts DEF Inv, PoolInv, SystemTypes
<1>4. pool' \in [Key -> Request \cup {None}] /\ poolExpired' \in [Key -> BOOLEAN]
  BY <1>1, <1>3 DEF SystemTypes
<1>5. todo' \in SUBSET Request
  BY <1>1, <1>2, <1>3
<1>6. SystemTypes'
  BY <1>1, <1>3, <1>4, <1>5 DEF SystemTypes, disk, eviction
<1>7. CallInv' /\ PollInv'
  BY <1>1, <1>3 DEF Inv, CallInv, PollInv, Asks
<1>8. PoolInv'
  <2>1. \A j \in Key : pool'[j] = IF j \in out THEN None ELSE pool[j]
    BY <1>1
  <2>2. \A q \in Request : q \in todo' <=> \E j \in out : q = pool[j]
    BY <1>1
  <2>3. \A j \in Key : pool'[j] # None =>
           st'[pool'[j]] = "pooled" /\ KeyOf[pool'[j]] = j /\ pool'[j] \notin todo'
    BY <1>1, <1>2, <1>3, <2>1, <2>2
  <2>4. \A q \in Request : st'[q] = "pooled" => pool'[KeyOf[q]] = q \/ q \in todo'
    BY <1>1, <1>2, <1>3, <2>1, <2>2
  <2>5. \A q \in todo' : st'[q] = "pooled"
    BY <1>1, <1>2, <1>3
  <2> QED
    BY <2>3, <2>4, <2>5 DEF PoolInv
<1> QED
  BY <1>1, <1>6, <1>7, <1>8, SystemActs DEF disk

LEMMA ShutdownStep == ASSUME Inv, Shutdown PROVE Inv'
<1>1. /\ Quiet /\ shuttingDown' = TRUE /\ pollTimer' = FALSE
      /\ todo' = {r \in Request : st[r] = "pooled"}
      /\ pool' = [k \in Key |-> None] /\ poolExpired' = [k \in Key |-> FALSE]
      /\ call' = [op |-> "shutdown", id |-> None]
      /\ UNCHANGED <<config, disk, counters, st, want, reservation, waitingDisk, eviction, pump>>
  BY DEF Shutdown
<1>2. SystemTypes'
  BY <1>1, TypeParts DEF Inv, SystemTypes, disk, eviction
<1>3. CallInv' /\ PollInv'
  BY <1>1 DEF CallInv, PollInv, Asks
<1>4. PoolInv'
  BY <1>1, KeyAssumption DEF PoolInv
<1> QED
  BY <1>1, <1>2, <1>3, <1>4, SystemActs DEF disk

----------------------------------------------------------------------------
\* The queue

\* The waiter leaves the queue with nothing.
LEMMA WaiterGoneStep == ASSUME Inv, NEW i \in DOMAIN waitingDisk, WaiterGone(i) PROVE Inv'
<1>1. /\ CallerTypes /\ SystemTypes /\ reservedPendingBytes \in Nat /\ cacheReservedBytes \in Nat
      /\ waitingDisk \in Seq(Request) /\ i \in 1..Len(waitingDisk)
  BY TypeParts DEF Inv, SystemTypes
<1>2. PICK r \in Request : r = waitingDisk[i]
  BY <1>1
<1>3. /\ Quiet /\ st' = [st EXCEPT ![r] = "idle"] /\ want' = [want EXCEPT ![r] = NoWant]
      /\ waitingDisk' = RemoveAt(waitingDisk, i) /\ pump' = "start"
      /\ UNCHANGED <<config, disk, counters, reservation, handOffs, pollTimer, eviction,
                     shuttingDown, todo, call>>
  BY <1>2 DEF WaiterGone
<1>4. r \in ToSet(waitingDisk) /\ st[r] = "waiting"
  <2>1. r \in ToSet(waitingDisk)
    BY <1>1, <1>2 DEF ToSet
  <2> QED
    BY <2>1 DEF Inv, QueueInv
<1>5. UNCHANGED <<dirty, written, pool, free, published, committedBytes, grantedBytes,
                  remainingBytes, countsTowardCache, reservedPendingBytes, cacheReservedBytes>>
  BY <1>3 DEF disk, handOffs, reservation, counters
<1>6. NoWant \in Wants
  BY DEF NoWant, Wants
<1>7. /\ st' \in [Request -> States] /\ want' \in [Request -> Wants] /\ st'[r] = "idle"
      /\ \A q \in Request : q # r => SameAt(q)
  BY <1>1, <1>3, <1>5, <1>6 DEF CallerTypes, SameAt, States
<1>8. CallerTypes'
  BY <1>1, <1>5, <1>7 DEF CallerTypes
<1>9. /\ waitingDisk' \in Seq(Request) /\ IsInjective(waitingDisk')
      /\ ToSet(waitingDisk') = ToSet(waitingDisk) \ {r}
  BY <1>1, <1>2, <1>3, RemoveAtSet DEF Inv, QueueInv
<1>10. SystemTypes'
  BY <1>1, <1>3, <1>5, <1>9 DEF SystemTypes, handOffs, eviction
<1>11. CallerInv(r)'
  BY <1>4, <1>5, <1>7 DEF Inv, CallerInv, Unreserved
<1>12. counted' = counted
  BY <1>5 DEF counted
<1>13. /\ reservedPendingBytes' = reservedPendingBytes - remainingBytes[r] + remainingBytes'[r]
       /\ cacheReservedBytes' = cacheReservedBytes - counted[r] + counted'[r]
  BY <1>1, <1>5, <1>12, NoClamp
<1>14. /\ \A q \in Request : CallerInv(q)'
       /\ AccountingExact' /\ reservedPendingBytes' \in Nat /\ cacheReservedBytes' \in Nat
  BY <1>7, <1>8, <1>11, <1>13, CallerActs
<1>15. QueueInv'
  BY <1>7, <1>9 DEF Inv, QueueInv, SameAt
<1>16. PoolInv'
  <2>1. \A q \in Request : st'[q] = "pooled" <=> st[q] = "pooled"
    BY <1>4, <1>7 DEF SameAt
  <2> QED
    BY <1>3, <1>5, <2>1, PoolKept
<1>17. CallInv'
  BY <1>3, QuietFacts DEF CallInv, Asks
<1>18. PollInv'
  <2>1. waitingDisk # <<>>
    BY <1>1
  <2> QED
    BY <1>3, <2>1 DEF Inv, PollInv
<1> QED
  BY <1>8, <1>10, <1>14, <1>15, <1>16, <1>17, <1>18, Together

\* The head of the queue is granted what it waited for.
LEMMA PumpGrantStep == ASSUME Inv, PumpGrant PROVE Inv'
<1>1. /\ CallerTypes /\ SystemTypes /\ waitingDisk # <<>> /\ waitingDisk \in Seq(Request)
  BY TypeParts DEF Inv, SystemTypes, PumpGrant
<1>2. PICK r \in Request : r = Head(waitingDisk)
  BY <1>1
<1>3. PICK bytes \in Nat, counts \in BOOLEAN : bytes = want[r].bytes /\ counts = want[r].counts
  BY <1>1 DEF CallerTypes, Wants
<1>4. /\ createReservation(r, bytes, counts) /\ waitingDisk' = Tail(waitingDisk)
      /\ UNCHANGED <<config, disk, handOffs, pollTimer, eviction, shuttingDown, control>>
  BY <1>2, <1>3 DEF PumpGrant
<1>5. UNCHANGED <<dirty, written, pool, free, published, committedBytes, todo, call, pump>>
  BY <1>4 DEF disk, handOffs, control
<1>6. /\ waitingDisk' \in Seq(Request) /\ IsInjective(waitingDisk')
      /\ ToSet(waitingDisk') = ToSet(waitingDisk) \ {r} /\ r \in ToSet(waitingDisk)
  BY <1>1, <1>2, <1>4, TailSet DEF Inv, QueueInv
<1>7. st[r] = "waiting" /\ st[r] \in Unreserved /\ written[r] = 0
  BY <1>6 DEF Inv, QueueInv, CallerInv, Unreserved
<1>8. /\ CallerTypes' /\ (\A q \in Request : q # r => SameAt(q))
      /\ st'[r] = "held" /\ CallerInv(r)'
      /\ reservedPendingBytes' = reservedPendingBytes - remainingBytes[r] + remainingBytes'[r]
      /\ cacheReservedBytes' = cacheReservedBytes - counted[r] + counted'[r]
  BY <1>4, <1>5, <1>7, CreateEffect
<1>9. /\ \A q \in Request : CallerInv(q)'
      /\ AccountingExact' /\ reservedPendingBytes' \in Nat /\ cacheReservedBytes' \in Nat
  BY <1>8, CallerActs
<1>10. SystemTypes'
  BY <1>1, <1>4, <1>5, <1>6 DEF SystemTypes, handOffs, eviction
<1>11. QueueInv'
  BY <1>6, <1>8 DEF Inv, QueueInv, SameAt
<1>12. PoolInv'
  <2>1. \A q \in Request : st'[q] = "pooled" <=> st[q] = "pooled"
    BY <1>7, <1>8 DEF SameAt
  <2> QED
    BY <1>5, <2>1, PoolKept
<1>13. CallInv'
  <2>1. Asks => call.id \in Request /\ call.id # r
    BY <1>7 DEF Inv, CallInv
  <2> QED
    BY <1>5, <1>8, <2>1, CallKept DEF SameAt
<1>14. PollInv'
  BY <1>1, <1>4, <1>5 DEF Inv, PollInv
<1> QED
  BY <1>8, <1>9, <1>10, <1>11, <1>12, <1>13, <1>14, Together

LEMMA ShutdownRejectsStep == ASSUME Inv, ShutdownRejects PROVE Inv'
<1>1. /\ call.op = "shutdown" /\ waitingDisk' = <<>> /\ call' = NoCall
      /\ st' = [r \in Request |-> IF st[r] = "waiting" THEN "idle" ELSE st[r]]
      /\ want' = [r \in Request |-> IF st[r] = "waiting" THEN NoWant ELSE want[r]]
      /\ UNCHANGED <<config, disk, counters, reservation, handOffs, pollTimer, eviction,
                     shuttingDown, todo, pump>>
  BY DEF ShutdownRejects
<1>2. CallerTypes /\ SystemTypes /\ NoWant \in Wants
  BY TypeParts DEF Inv, NoWant, Wants
<1>3. UNCHANGED <<dirty, written, pool, free, published, committedBytes, grantedBytes,
                  remainingBytes, countsTowardCache, reservedPendingBytes, cacheReservedBytes>>
  BY <1>1 DEF disk, handOffs, reservation, counters
<1>4. st' \in [Request -> States] /\ want' \in [Request -> Wants]
  BY <1>1, <1>2 DEF CallerTypes, States
<1>5. CallerTypes'
  BY <1>2, <1>3, <1>4 DEF CallerTypes
<1>6. SystemTypes'
  BY <1>1, <1>2, <1>3 DEF SystemTypes, handOffs, eviction, NoCall
<1>7. \A q \in Request : st'[q] = (IF st[q] = "waiting" THEN "idle" ELSE st[q])
                         /\ (st[q] # "waiting" => want'[q] = want[q])
  BY <1>1
<1>8. ASSUME NEW q \in Request PROVE CallerInv(q)'
  BY <1>3, <1>7 DEF Inv, CallerInv, Unreserved
<1>9. AccountingExact' /\ reservedPendingBytes' \in Nat /\ cacheReservedBytes' \in Nat
  BY <1>3 DEF Inv, AccountingExact, Units, counted, TypeOK
<1>10. QueueInv'
  <2>1. ToSet(waitingDisk') = {} /\ IsInjective(waitingDisk')
    BY <1>1 DEF ToSet, IsInjective
  <2> QED
    BY <1>7, <2>1 DEF QueueInv
<1>11. PoolInv'
  <2>1. \A q \in Request : st'[q] = "pooled" <=> st[q] = "pooled"
    BY <1>7
  <2> QED
    BY <1>1, <1>3, <2>1, PoolKept
<1>12. CallInv' /\ PollInv'
  BY <1>1 DEF CallInv, PollInv, Asks, NoCall
<1> QED
  BY <1>5, <1>6, <1>8, <1>9, <1>10, <1>11, <1>12, Together

----------------------------------------------------------------------------
\* Timers, the volume and the configuration

\* A step of the system that keeps the pool and the call
LEMMA PlainStep ==
    ASSUME Inv, SystemTypes',
           UNCHANGED <<st, want, reservation, counters, dirty, written, waitingDisk, pool, todo, call>>,
           pollTimer' = pollTimer \/ waitingDisk = <<>>
    PROVE  Inv'
<1>1. CallInv'
  BY CallKept
<1>2. PollInv'
  BY DEF Inv, PollInv
<1>3. PoolInv'
  BY PoolKept
<1> QED
  BY <1>1, <1>2, <1>3, SystemActs

LEMMA SystemStep ==
    ASSUME Inv, \/ \E k \in Key : PoolEntryExpires(k)
                \/ Poll
                \/ \E c \in Configs : configure(c)
                \/ PumpStart \/ PumpBlocked \/ PumpEmpty
                \/ \E n \in Bytes : EvictOne(n)
                \/ EvictionDone \/ EvictionCooldown \/ OutsideUse
                \/ UNCHANGED vars
    PROVE  Inv'
<1> USE DEF disk, handOffs, eviction, control
<1>1. SystemTypes
  BY TypeParts DEF Inv
<1>2. ASSUME NEW k \in Key, PoolEntryExpires(k) PROVE Inv'
  <2>1. SystemTypes'
    BY <1>1, <1>2 DEF PoolEntryExpires, SystemTypes
  <2> QED
    BY <1>2, <2>1, PlainStep DEF PoolEntryExpires
<1>3. CASE Poll
  <2>1. SystemTypes'
    BY <1>1, <1>3 DEF Poll, SystemTypes
  <2> QED
    BY <1>3, <2>1, PlainStep DEF Poll
<1>4. ASSUME NEW c \in Configs, configure(c) PROVE Inv'
  <2>1. SystemTypes'
    BY <1>1, <1>4 DEF configure, SystemTypes
  <2> QED
    BY <1>4, <2>1, PlainStep DEF configure
<1>5. CASE PumpStart
  <2>1. SystemTypes'
    BY <1>1, <1>5 DEF PumpStart, SystemTypes
  <2> QED
    BY <1>5, <2>1, PlainStep DEF PumpStart
<1>6. CASE PumpBlocked
  <2>1. SystemTypes'
    BY <1>1, <1>6 DEF PumpBlocked, requestEviction, SystemTypes
  <2> QED
    BY <1>6, <2>1, PlainStep DEF PumpBlocked
<1>7. CASE PumpEmpty
  <2>1. SystemTypes'
    BY <1>1, <1>7 DEF PumpEmpty, SystemTypes
  <2> QED
    BY <1>7, <2>1, PlainStep DEF PumpEmpty
<1>8. ASSUME NEW n \in Bytes, EvictOne(n) PROVE Inv'
  <2>1. /\ published[n] > 0 /\ published' = [published EXCEPT ![n] = @ - 1]
        /\ committedBytes' = AtLeastZero(committedBytes - n) /\ free' = free + n
        /\ evictionFreed' = evictionFreed + n /\ n \in Nat
        /\ UNCHANGED <<config, dirty, written, counters, st, want, reservation, waitingDisk,
                       handOffs, pollTimer, evictionInFlight, evictionRecent, shuttingDown,
                       control>>
    BY <1>8, SizeAssumption DEF EvictOne
  <2>2. /\ published' \in [Bytes -> Nat] /\ committedBytes' \in Nat /\ free' \in Nat
        /\ evictionFreed' \in Nat
    BY <1>1, <2>1 DEF SystemTypes, AtLeastZero
  <2>3. SystemTypes'
    BY <1>1, <2>1, <2>2 DEF SystemTypes
  <2> QED
    BY <2>1, <2>3, PlainStep
<1>9. CASE EvictionDone
  <2>1. SystemTypes'
    BY <1>1, <1>9 DEF EvictionDone, SystemTypes
  <2> QED
    BY <1>9, <2>1, PlainStep DEF EvictionDone
<1>10. CASE EvictionCooldown
  <2>1. SystemTypes'
    BY <1>1, <1>10 DEF EvictionCooldown, SystemTypes
  <2> QED
    BY <1>10, <2>1, PlainStep DEF EvictionCooldown
<1>11. CASE OutsideUse
  <2>1. free' \in Nat
    BY <1>11, SizeAssumption DEF OutsideUse
  <2>2. SystemTypes'
    BY <1>1, <1>11, <2>1 DEF OutsideUse, SystemTypes
  <2> QED
    BY <1>11, <2>2, PlainStep DEF OutsideUse
<1>12. CASE UNCHANGED vars
  <2>1. SystemTypes'
    BY <1>1, <1>12 DEF vars, SystemTypes
  <2> QED
    BY <1>12, <2>1, PlainStep DEF vars
<1> QED
  BY <1>2, <1>3, <1>4, <1>5, <1>6, <1>7, <1>8, <1>9, <1>10, <1>11, <1>12

----------------------------------------------------------------------------
\* The invariant

LEMMA InitInv == ASSUME Init PROVE Inv
<1> DEFINE zero == [r \in Request |-> 0]
<1>1. remainingBytes = zero /\ counted = zero /\ reservedPendingBytes = 0 /\ cacheReservedBytes = 0
  BY DEF Init, counted
<1>2. Units(zero) = {}
  BY DEF Units
<1>3. Cardinality({}) = 0
  BY FS_EmptySet
<1>4. AccountingExact
  BY <1>1, <1>2, <1>3 DEF AccountingExact
<1>5. NoWant \in Wants /\ NoCall \in [op : {"none", "reserve", "try", "shutdown"}, id : Request \cup {None}]
  BY DEF NoWant, Wants, NoCall
<1>6. CallerTypes
  BY <1>5 DEF Init, CallerTypes, States
<1>7. waitingDisk \in Seq(Request) /\ ToSet(waitingDisk) = {} /\ IsInjective(waitingDisk)
  BY DEF Init, ToSet, IsInjective
<1>8. SystemTypes
  BY <1>5, <1>7, SizeAssumption DEF Init, SystemTypes
<1>9. TypeOK
  BY <1>1, <1>6, <1>8, TypeParts
<1>10. QueueInv
  BY <1>7 DEF Init, QueueInv
<1>11. CallInv /\ PollInv
  BY DEF Init, CallInv, PollInv, Asks, NoCall
<1>12. \A r \in Request : CallerInv(r)
  BY DEF Init, CallerInv
<1>13. PoolInv
  BY DEF Init, PoolInv
<1> QED
  BY <1>4, <1>9, <1>10, <1>11, <1>12, <1>13 DEF Inv

LEMMA NextInv == ASSUME Inv, [Next]_vars PROVE Inv'
<1>1. ASSUME NEW r \in Request, NEW bytes \in Bytes, NEW counts \in CountsOf[KeyOf[r]],
             \/ \E op \in {"reserve", "try"} :
                   Ask(op, r, bytes, counts) \/ AskStale(op, r, bytes, counts)
             \/ Adopt(r, bytes, counts)
      PROVE  Inv'
  BY <1>1, AskStep, AskStaleStep, AdoptStep
<1>2. ASSUME NEW r \in Request,
             \/ HandOff(r) \/ ReleaseTodo(r)
             \/ Write(r) \/ Consume(r) \/ Publish(r) \/ Unlink(r) \/ Release(r)
      PROVE  Inv'
  BY <1>2, HandOffStep, ReleaseTodoStep, WriteStep, ConsumeStep, PublishStep, UnlinkStep, ReleaseStep
<1>3. ASSUME NEW i \in DOMAIN waitingDisk, WaiterGone(i) PROVE Inv'
  BY <1>3, WaiterGoneStep
<1>4. CASE AskResume \/ Purge \/ PumpGrant \/ Shutdown \/ ShutdownRejects
  BY <1>4, AskResumeStep, PurgeStep, PumpGrantStep, ShutdownStep, ShutdownRejectsStep
<1>5. CASE \/ \E k \in Key : PoolEntryExpires(k)
           \/ Poll
           \/ \E c \in Configs : configure(c)
           \/ PumpStart \/ PumpBlocked \/ PumpEmpty
           \/ \E n \in Bytes : EvictOne(n)
           \/ EvictionDone \/ EvictionCooldown \/ OutsideUse
           \/ UNCHANGED vars
  BY <1>5, SystemStep
<1> QED
  BY <1>1, <1>2, <1>3, <1>4, <1>5 DEF Next

\* Every reachable state satisfies the inductive invariant: what each caller holds fits
\* where it is, the queue and the pool know their own, and the counters are the sums.
THEOREM Invariant == Spec => []Inv
BY InitInv, NextInv, PTL DEF Spec

\* Every variable keeps its type, the counters never go below zero, and a caller waits
\* if and only if it is in the disk queue, once (enqueueDisk, removeDiskWaiter, pumpDisk,
\* shutdown).
THEOREM NobodyIsLostInTheQueue == Spec => []WellFormed
<1>1. ASSUME Inv PROVE WellFormed
  <2>1. /\ TypeOK /\ waitingDisk \in Seq(Request) /\ IsInjective(waitingDisk)
        /\ ToSet(waitingDisk) = {r \in Request : st[r] = "waiting"}
    BY <1>1 DEF Inv, QueueInv, TypeOK
  <2>2. \A i, j \in DOMAIN waitingDisk : waitingDisk[i] = waitingDisk[j] => i = j
    BY <2>1 DEF IsInjective
  <2>3. \A r \in Request : r \in ToSet(waitingDisk) <=> \E i \in DOMAIN waitingDisk : waitingDisk[i] = r
    BY <2>1 DEF ToSet
  <2>4. \A r \in Request : st[r] = "waiting" <=> \E i \in DOMAIN waitingDisk : waitingDisk[i] = r
    BY <2>1, <2>3
  <2> QED
    BY <2>1, <2>2, <2>4 DEF WellFormed, QueueIsWaiters
<1> QED
  BY <1>1, Invariant, PTL

\* The two counters, which createReservation, consumeReservation and releaseReservation
\* keep by adding and subtracting, are at every moment the sums over the live
\* reservations; the clamp at zero never hides a difference.
THEOREM CountersAreExact == Spec => []AccountingExact
<1>1. Inv => AccountingExact
  BY DEF Inv
<1> QED
  BY <1>1, Invariant, PTL

\* A reservation that was handed to a session has one owner: the pool entry under its
\* key, or the release the running handler has still to make; a caller without a
\* reservation holds no granted bytes (handOffToSession, takeHandedOffReservation,
\* purgeExpiredHandOffs, shutdown).
THEOREM ReservationsHaveOneOwner == Spec => []PoolOwnsItsEntries
<1>1. ASSUME Inv PROVE PoolOwnsItsEntries
  <2>1. \A r \in Request : r \notin Reserved => grantedBytes[r] = 0
    BY <1>1 DEF Inv, CallerInv, Unreserved, Reserved, TypeOK
  <2> QED
    BY <1>1, <2>1 DEF Inv, PoolInv, PoolOwnsItsEntries
<1> QED
  BY <1>1, Invariant, PTL

\* While somebody waits for disk and no handler is running the poll timer is armed
\* (ensurePollTimer, pumpDisk, shutdown).
THEOREM WaitersArePolled == Spec => []PollArmed
<1>1. Inv => PollArmed
  BY QuietFacts DEF Inv, PollInv, PollArmed
<1> QED
  BY <1>1, Invariant, PTL

----------------------------------------------------------------------------
\* The volume: with nobody else on it and one configuration, what is still to be written
\* fits above the floor.

Room == AtLeastZero(free - config.volumePeerReserveBytes - config.minFreeBytes)

\* The most caller q may still write, in terms of what it holds
LEMMA StillTypes ==
    /\ Inv => /\ StillToWrite \in [Request -> Nat]
              /\ \A q \in Request :
                    /\ StillToWrite[q] = IF st[q] = "ending" THEN 0 ELSE remainingBytes[q] - dirty[q]
                    /\ StillToWrite[q] <= remainingBytes[q]
    /\ Inv' => /\ StillToWrite' \in [Request -> Nat]
               /\ \A q \in Request :
                     /\ StillToWrite'[q] = IF st'[q] = "ending" THEN 0 ELSE remainingBytes'[q] - dirty'[q]
                     /\ StillToWrite'[q] <= remainingBytes'[q]
<1>1. ASSUME Inv
      PROVE  /\ \A q \in Request : (IF st[q] = "ending" THEN 0 ELSE remainingBytes[q] - dirty[q]) \in 0..remainingBytes[q]
             /\ remainingBytes \in [Request -> Nat]
  <2>1. ASSUME NEW q \in Request, st[q] # "ending" PROVE remainingBytes[q] - dirty[q] \in 0..remainingBytes[q]
    <3>1. /\ st[q] \in States /\ CallerInv(q) /\ remainingBytes[q] \in Nat /\ dirty[q] \in Nat
          /\ grantedBytes[q] \in Nat /\ written[q] \in Nat /\ want[q].bytes \in Nat
      BY <1>1, TypeParts DEF Inv, CallerTypes, Wants
    <3>2. remainingBytes[q] - dirty[q] >= 0
      BY <2>1, <3>1 DEF CallerInv, States, Unreserved
    <3> QED
      BY <3>1, <3>2
  <2> QED
    BY <1>1, <2>1 DEF Inv, TypeOK
<1>2. ASSUME Inv'
      PROVE  /\ \A q \in Request : (IF st'[q] = "ending" THEN 0 ELSE remainingBytes'[q] - dirty'[q]) \in 0..remainingBytes'[q]
             /\ remainingBytes' \in [Request -> Nat]
  <2>1. ASSUME NEW q \in Request, st'[q] # "ending" PROVE remainingBytes'[q] - dirty'[q] \in 0..remainingBytes'[q]
    <3>1. /\ st'[q] \in States /\ CallerInv(q)' /\ remainingBytes'[q] \in Nat /\ dirty'[q] \in Nat
          /\ grantedBytes'[q] \in Nat /\ written'[q] \in Nat /\ want'[q].bytes \in Nat
      BY <1>2, TypeParts DEF Inv, CallerTypes, Wants
    <3>2. remainingBytes'[q] - dirty'[q] >= 0
      BY <2>1, <3>1 DEF CallerInv, States, Unreserved
    <3> QED
      BY <3>1, <3>2
  <2> QED
    BY <1>2, <2>1 DEF Inv, TypeOK
<1>3. ASSUME Inv
      PROVE  /\ StillToWrite \in [Request -> Nat]
             /\ \A q \in Request :
                   /\ StillToWrite[q] = IF st[q] = "ending" THEN 0 ELSE remainingBytes[q] - dirty[q]
                   /\ StillToWrite[q] <= remainingBytes[q]
  BY <1>1, <1>3 DEF StillToWrite
<1>4. ASSUME Inv'
      PROVE  /\ StillToWrite' \in [Request -> Nat]
             /\ \A q \in Request :
                   /\ StillToWrite'[q] = IF st'[q] = "ending" THEN 0 ELSE remainingBytes'[q] - dirty'[q]
                   /\ StillToWrite'[q] <= remainingBytes'[q]
  BY <1>2, <1>4 DEF StillToWrite
<1> QED
  BY <1>3, <1>4

LEMMA RoomTypes ==
    ASSUME Inv, Inv', \A c, d \in Configs : c = d
    PROVE  /\ config' = config /\ config.volumePeerReserveBytes \in Nat /\ config.minFreeBytes \in Nat
           /\ free \in Nat /\ free' \in Nat
BY ConfigAssumption DEF Inv, TypeOK

\* Nobody has more to write than before.
NoMore(q) ==
    \/ st'[q] = "ending"
    \/ remainingBytes'[q] = 0
    \/ st[q] # "ending" /\ remainingBytes'[q] = remainingBytes[q] /\ dirty'[q] = dirty[q]
    \/ st[q] # "ending" /\ remainingBytes'[q] - dirty'[q] = remainingBytes[q] - dirty[q]

LEMMA HeadroomLower ==
    ASSUME Inv, Inv', HeadroomKept, \A c, d \in Configs : c = d, free <= free',
           \A q \in Request : NoMore(q)
    PROVE  HeadroomKept'
<1>1. /\ StillToWrite \in [Request -> Nat] /\ StillToWrite' \in [Request -> Nat]
      /\ \A q \in Request :
            /\ StillToWrite[q] = IF st[q] = "ending" THEN 0 ELSE remainingBytes[q] - dirty[q]
            /\ StillToWrite'[q] = IF st'[q] = "ending" THEN 0 ELSE remainingBytes'[q] - dirty'[q]
            /\ StillToWrite'[q] <= remainingBytes'[q]
  BY StillTypes
<1>2. ASSUME NEW q \in Request PROVE StillToWrite'[q] <= StillToWrite[q]
  BY <1>1 DEF NoMore
<1>3. Sum(StillToWrite') <= Sum(StillToWrite)
  BY <1>1, <1>2, SumMonotone
<1>4. Sum(StillToWrite) \in Nat /\ Sum(StillToWrite') \in Nat
  BY <1>1, UnitsFinite
<1>5. Sum(StillToWrite) <= Room
  BY DEF HeadroomKept, Room, Sum
<1>6. Room <= Room' /\ Room \in Nat /\ Room' \in Nat
  BY RoomTypes DEF Room, AtLeastZero
<1>7. Sum(StillToWrite') <= Room'
  BY <1>3, <1>4, <1>5, <1>6
<1> QED
  BY <1>7 DEF HeadroomKept, Room, Sum

\* A grant leaves the floor alone: all pending bytes fit, and no more than those is written.
LEMMA HeadroomGrant ==
    ASSUME Inv, Inv', \A c, d \in Configs : c = d, NEW r \in Request, NEW bytes \in Nat, NEW counts,
           admissible(bytes, counts, free - config.volumePeerReserveBytes),
           reservedPendingBytes' = reservedPendingBytes + bytes, UNCHANGED free
    PROVE  HeadroomKept'
<1>1. /\ StillToWrite' \in [Request -> Nat] /\ remainingBytes' \in [Request -> Nat]
      /\ \A q \in Request : StillToWrite'[q] <= remainingBytes'[q]
  BY StillTypes DEF Inv, TypeOK
<1>2. Sum(StillToWrite') <= Sum(remainingBytes') /\ Sum(StillToWrite') \in Nat
  BY <1>1, SumMonotone, UnitsFinite
<1>3. reservedPendingBytes' = Sum(remainingBytes') /\ reservedPendingBytes \in Nat
  BY DEF Inv, AccountingExact, Sum, TypeOK
<1>4. free - config.volumePeerReserveBytes - config.minFreeBytes - reservedPendingBytes >= bytes
  BY DEF admissible
<1>5. Sum(StillToWrite') <= Room'
  BY <1>2, <1>3, <1>4, RoomTypes DEF Room, AtLeastZero
<1> QED
  BY <1>5 DEF HeadroomKept, Room, Sum

\* A write takes a byte of the volume and a byte of what was still to be written.
LEMMA HeadroomWrite ==
    ASSUME Inv, Inv', HeadroomKept, \A c, d \in Configs : c = d, NEW r \in Request, Write(r)
    PROVE  HeadroomKept'
<1>1. /\ StillToWrite \in [Request -> Nat] /\ StillToWrite' \in [Request -> Nat]
      /\ \A q \in Request :
            /\ StillToWrite[q] = IF st[q] = "ending" THEN 0 ELSE remainingBytes[q] - dirty[q]
            /\ StillToWrite'[q] = IF st'[q] = "ending" THEN 0 ELSE remainingBytes'[q] - dirty'[q]
  BY StillTypes
<1>2. /\ st[r] = "held" /\ dirty[r] = 0 /\ free' = free - 1 /\ st' = st /\ remainingBytes' = remainingBytes
      /\ dirty' = [dirty EXCEPT ![r] = 1] /\ dirty \in [Request -> Nat] /\ remainingBytes[r] \in Nat
  BY DEF Write, reservation, Inv, TypeOK
<1>3. \A q \in Request : q # r => StillToWrite'[q] = StillToWrite[q]
  BY <1>1, <1>2
<1>4. StillToWrite'[r] = StillToWrite[r] - 1
  <2>1. StillToWrite[r] = remainingBytes[r] - 0 /\ StillToWrite'[r] = remainingBytes[r] - 1
    BY <1>1, <1>2
  <2> QED
    BY <1>2, <2>1
<1>5. /\ Sum(StillToWrite) \in Nat /\ Sum(StillToWrite') \in Nat
      /\ Sum(StillToWrite') = Sum(StillToWrite) - StillToWrite[r] + StillToWrite'[r]
  BY <1>1, <1>3, SumAfter
<1>6. Sum(StillToWrite') = Sum(StillToWrite) - 1
  <2>1. StillToWrite[r] \in Nat
    BY <1>1
  <2> QED
    BY <1>4, <1>5, <2>1
<1>7. Sum(StillToWrite) <= Room
  BY DEF HeadroomKept, Room, Sum
<1>8. Sum(StillToWrite') <= Room'
  BY <1>2, <1>5, <1>6, <1>7, RoomTypes DEF Room, AtLeastZero
<1> QED
  BY <1>8 DEF HeadroomKept, Room, Sum

\* An adopted reservation has as much to write as it had in the pool.
LEMMA HeadroomAdopt ==
    ASSUME Inv, Inv', HeadroomKept, \A c, d \in Configs : c = d, NEW r \in Request,
           NEW bytes \in Bytes, NEW counts \in CountsOf[KeyOf[r]], Adopt(r, bytes, counts)
    PROVE  HeadroomKept'
<1>1. PICK h \in Request : Adopted(r, bytes, counts, h)
  BY AdoptEffect
<1>2. /\ StillToWrite \in [Request -> Nat] /\ StillToWrite' \in [Request -> Nat]
      /\ \A q \in Request :
            /\ StillToWrite[q] = IF st[q] = "ending" THEN 0 ELSE remainingBytes[q] - dirty[q]
            /\ StillToWrite'[q] = IF st'[q] = "ending" THEN 0 ELSE remainingBytes'[q] - dirty'[q]
  BY StillTypes
<1>3. UNCHANGED <<dirty, free>>
  BY <1>1 DEF Adopted, disk
<1>4. /\ StillToWrite[r] = 0 /\ StillToWrite'[r] = StillToWrite[h] /\ StillToWrite'[h] = 0
      /\ \A q \in Request : q # r /\ q # h => StillToWrite'[q] = StillToWrite[q]
  BY <1>1, <1>2, <1>3 DEF Adopted, SameAt, Unreserved
<1>5. Sum(StillToWrite') = Sum(StillToWrite)
  BY <1>1, <1>2, <1>4, SumMoves DEF Adopted
<1> QED
  BY <1>3, <1>5, RoomTypes DEF HeadroomKept, Sum

\* Answering, granting and queueing
LEMMA HeadroomProbe ==
    ASSUME Inv, Inv', HeadroomKept, \A c, d \in Configs : c = d, NEW op, NEW r \in Request,
           NEW bytes \in Nat, NEW counts \in BOOLEAN, byProbe(op, r, bytes, counts),
           st[r] \in Unreserved, UNCHANGED disk
    PROVE  HeadroomKept'
<1>1. UNCHANGED <<free, dirty>> /\ free \in Nat /\ st \in [Request -> States]
      /\ remainingBytes[r] = 0
  BY DEF disk, Inv, TypeOK, States, CallerInv
<1>2. CASE createReservation(r, bytes, counts) /\ admissible(bytes, counts, free - config.volumePeerReserveBytes)
  BY <1>1, <1>2, HeadroomGrant DEF createReservation
<1>3. ASSUME NEW a \in States, st' = [st EXCEPT ![r] = a], UNCHANGED reservation PROVE HeadroomKept'
  <2>1. remainingBytes' = remainingBytes
    BY <1>3 DEF reservation
  <2>2. ASSUME NEW q \in Request PROVE NoMore(q)
    <3>1. CASE q = r
      BY <1>1, <2>1, <3>1 DEF NoMore
    <3>2. CASE q # r
      <4>1. st'[q] = st[q]
        BY <1>1, <1>3, <3>2
      <4> QED
        BY <1>1, <2>1, <4>1 DEF NoMore
    <3> QED
      BY <3>1, <3>2
  <2> QED
    BY <1>1, <2>2, HeadroomLower
<1>4. ASSUME NEW a \in {"idle", "direct", "unprobed"}, Answer(r, a) PROVE HeadroomKept'
  BY <1>3, <1>4 DEF Answer, States
<1>5. CASE enqueueDisk(r, bytes, counts)
  BY <1>3, <1>5 DEF enqueueDisk, States
<1> QED
  BY <1>2, <1>4, <1>5, ByProbe

\* Everything else takes nothing from the volume and gives nobody more to write.
LEMMA HeadroomQuiet ==
    ASSUME Inv, Inv', HeadroomKept, \A c, d \in Configs : c = d, free <= free',
           remainingBytes' = remainingBytes, dirty' = dirty,
           \A q \in Request : st[q] = "ending" => st'[q] = "ending"
    PROVE  HeadroomKept'
<1>1. \A q \in Request : NoMore(q)
  BY DEF NoMore
<1> QED
  BY <1>1, HeadroomLower

LEMMA HeadroomSession ==
    ASSUME Inv, Inv', HeadroomKept, \A c, d \in Configs : c = d, NEW r \in Request,
           HandOff(r) \/ ReleaseTodo(r) \/ Consume(r) \/ Publish(r) \/ Unlink(r) \/ Release(r)
    PROVE  HeadroomKept'
<1>0. /\ free \in Nat /\ CallerTypes /\ dirty[r] \in Nat /\ remainingBytes[r] \in Nat /\ written[r] \in Nat
      /\ CallerInv(r)
  BY TypeParts DEF Inv, SystemTypes, CallerTypes
<1>1. CASE HandOff(r)
  <2>1. /\ st[r] = "held" /\ st' = [st EXCEPT ![r] = "pooled"] /\ UNCHANGED <<disk, reservation>>
    BY <1>1 DEF HandOff
  <2>2. \A q \in Request : st[q] = "ending" => st'[q] = "ending"
    BY <1>0, <2>1 DEF CallerTypes
  <2> QED
    BY <1>0, <2>1, <2>2, HeadroomQuiet DEF disk, reservation
<1>2. ASSUME releaseReservation(r), UNCHANGED disk PROVE HeadroomKept'
  <2>1. /\ st' = [st EXCEPT ![r] = "idle"] /\ remainingBytes' = [remainingBytes EXCEPT ![r] = 0]
        /\ UNCHANGED <<free, dirty>>
    BY <1>2 DEF releaseReservation, clearReservation, disk
  <2>2. \A q \in Request : NoMore(q)
    BY <1>0, <2>1 DEF CallerTypes, NoMore
  <2> QED
    BY <1>0, <2>1, <2>2, HeadroomLower
<1>3. CASE ReleaseTodo(r) \/ Release(r)
  BY <1>2, <1>3 DEF ReleaseTodo, Release
<1>4. CASE Consume(r)
  <2> DEFINE consumed == Least(remainingBytes[r], dirty[r])
  <2>1. /\ st[r] = "held" /\ remainingBytes' = [remainingBytes EXCEPT ![r] = @ - consumed]
        /\ dirty' = [dirty EXCEPT ![r] = 0] /\ UNCHANGED <<free, st>>
    BY <1>4 DEF Consume, consumeReservation
  <2>2. dirty[r] <= remainingBytes[r]
    <3>1. /\ grantedBytes[r] \in Nat /\ want[r].bytes \in Nat /\ written[r] <= want[r].bytes
          /\ want[r].bytes <= grantedBytes[r] /\ remainingBytes[r] = grantedBytes[r] - written[r] + dirty[r]
      BY <1>0, <2>1 DEF CallerInv, CallerTypes, Wants
    <3> QED
      BY <1>0, <3>1
  <2>3. consumed = dirty[r]
    BY <1>0, <2>2 DEF Least
  <2> HIDE DEF consumed
  <2>4. remainingBytes'[r] - dirty'[r] = remainingBytes[r] - dirty[r]
    <3>1. remainingBytes'[r] = remainingBytes[r] - consumed /\ dirty'[r] = 0
      BY <1>0, <2>1 DEF CallerTypes
    <3> QED
      BY <1>0, <2>3, <3>1
  <2>5. \A q \in Request : q # r => remainingBytes'[q] = remainingBytes[q] /\ dirty'[q] = dirty[q]
    BY <1>0, <2>1 DEF CallerTypes
  <2>6. \A q \in Request : NoMore(q)
    BY <2>1, <2>4, <2>5 DEF NoMore
  <2> QED
    BY <1>0, <2>1, <2>6, HeadroomLower
<1>5. CASE Publish(r)
  <2>1. st' = [st EXCEPT ![r] = "ending"] /\ UNCHANGED <<free, dirty, reservation>>
    BY <1>5 DEF Publish
  <2>2. \A q \in Request : st[q] = "ending" => st'[q] = "ending"
    BY <1>0, <2>1 DEF CallerTypes
  <2> QED
    BY <1>0, <2>1, <2>2, HeadroomQuiet DEF reservation
<1>6. CASE Unlink(r)
  <2>1. /\ st' = [st EXCEPT ![r] = IF @ = "held" THEN "ending" ELSE @] /\ written[r] > 0
        /\ dirty' = [dirty EXCEPT ![r] = 0] /\ UNCHANGED reservation
    BY <1>6 DEF Unlink
  <2>2. free <= free'
    BY <1>0, <1>6 DEF Unlink
  <2>3. st'[r] = "ending" \/ remainingBytes'[r] = 0
    <3>1. st[r] \in Unreserved \cup {"held", "ending"}
      BY <1>0, <2>1 DEF CallerInv, CallerTypes, States, Unreserved
    <3>2. st'[r] = (IF st[r] = "held" THEN "ending" ELSE st[r]) /\ remainingBytes' = remainingBytes
      BY <1>0, <2>1 DEF CallerTypes, reservation
    <3> QED
      BY <1>0, <3>1, <3>2 DEF CallerInv
  <2>4. \A q \in Request : q # r => st'[q] = st[q] /\ dirty'[q] = dirty[q] /\ remainingBytes'[q] = remainingBytes[q]
    BY <1>0, <2>1 DEF CallerTypes, reservation
  <2>5. \A q \in Request : NoMore(q)
    BY <2>3, <2>4 DEF NoMore
  <2> QED
    BY <2>2, <2>5, HeadroomLower
<1> QED
  BY <1>1, <1>3, <1>4, <1>5, <1>6

LEMMA HeadroomSystem ==
    ASSUME Inv, Inv', HeadroomKept, \A c, d \in Configs : c = d, Outside = {},
           \/ \E k \in Key : PoolEntryExpires(k)
           \/ Purge \/ Poll
           \/ \E c \in Configs : configure(c)
           \/ PumpStart \/ PumpBlocked \/ PumpEmpty
           \/ \E n \in Bytes : EvictOne(n)
           \/ EvictionDone \/ EvictionCooldown \/ OutsideUse
           \/ Shutdown \/ ShutdownRejects
           \/ UNCHANGED vars
    PROVE  HeadroomKept'
<1>1. free \in Nat
  BY DEF Inv, TypeOK
<1>2. CASE UNCHANGED <<disk, st, reservation>>
  BY <1>1, <1>2, HeadroomQuiet DEF disk, reservation
<1>3. ASSUME NEW n \in Bytes, EvictOne(n) PROVE HeadroomKept'
  <2>1. free' = free + n /\ n \in Nat /\ UNCHANGED <<dirty, st, reservation>>
    BY <1>3, SizeAssumption DEF EvictOne
  <2> QED
    BY <1>1, <2>1, HeadroomQuiet DEF reservation
<1>4. CASE ShutdownRejects
  <2>1. /\ st' = [r \in Request |-> IF st[r] = "waiting" THEN "idle" ELSE st[r]]
        /\ UNCHANGED <<disk, reservation>>
    BY <1>4 DEF ShutdownRejects
  <2> QED
    BY <1>1, <2>1, HeadroomQuiet DEF disk, reservation
<1>5. ~OutsideUse
  BY DEF OutsideUse
<1>6. ASSUME \/ \E k \in Key : PoolEntryExpires(k)
             \/ Purge \/ Poll \/ \E c \in Configs : configure(c)
             \/ PumpStart \/ PumpBlocked \/ PumpEmpty
             \/ EvictionDone \/ EvictionCooldown \/ Shutdown \/ UNCHANGED vars
      PROVE  UNCHANGED <<disk, st, reservation>>
  BY <1>6 DEF PoolEntryExpires, Purge, Poll, configure, PumpStart, PumpBlocked, PumpEmpty,
              EvictionDone, EvictionCooldown, Shutdown, vars
<1> QED
  BY <1>2, <1>3, <1>4, <1>5, <1>6

LEMMA HeadroomNext ==
    ASSUME Inv, Inv', HeadroomKept, \A c, d \in Configs : c = d, Outside = {}, [Next]_vars
    PROVE  HeadroomKept'
<1>0. /\ \A r \in Request : MayAsk(r) => st[r] \in Unreserved
      /\ \A n \in Bytes : n \in Nat
      /\ \A r \in Request : \A counts \in CountsOf[KeyOf[r]] : counts \in BOOLEAN
  BY SizeAssumption, KeyAssumption DEF MayAsk, Unreserved
<1>1. ASSUME NEW op, NEW r \in Request, NEW bytes \in Bytes, NEW counts \in CountsOf[KeyOf[r]],
             Ask(op, r, bytes, counts)
      PROVE  HeadroomKept'
  <2>1. byProbe(op, r, bytes, counts) /\ UNCHANGED disk /\ st[r] \in Unreserved
    BY <1>0, <1>1 DEF Ask
  <2> QED
    BY <1>0, <2>1, HeadroomProbe
<1>2. CASE AskResume
  <2>1. PICK r \in Request : r = call.id
    BY <1>2 DEF AskResume, Inv, CallInv, Asks
  <2>2. st[r] \in Unreserved /\ want[r].bytes \in Nat /\ want[r].counts \in BOOLEAN
    BY <1>2, <2>1, TypeParts DEF AskResume, Inv, CallInv, Asks, CallerTypes, Wants
  <2>3. byProbe(call.op, r, want[r].bytes, want[r].counts) /\ UNCHANGED disk
    BY <1>2, <2>1 DEF AskResume
  <2> QED
    BY <2>2, <2>3, HeadroomProbe
<1>3. ASSUME NEW op, NEW r \in Request, NEW bytes \in Bytes, NEW counts \in CountsOf[KeyOf[r]],
             AskStale(op, r, bytes, counts)
      PROVE  HeadroomKept'
  <2>1. UNCHANGED <<disk, st, reservation>> /\ free \in Nat
    BY <1>3 DEF AskStale, Inv, TypeOK
  <2> QED
    BY <2>1, HeadroomQuiet DEF disk, reservation
<1>4. ASSUME NEW i \in DOMAIN waitingDisk, WaiterGone(i) PROVE HeadroomKept'
  <2>1. /\ st' = [st EXCEPT ![waitingDisk[i]] = "idle"] /\ UNCHANGED <<disk, reservation>>
        /\ waitingDisk \in Seq(Request) /\ free \in Nat /\ st \in [Request -> States]
    BY <1>4, TypeParts DEF WaiterGone, Inv, SystemTypes, CallerTypes
  <2>2. waitingDisk[i] \in ToSet(waitingDisk)
    BY <1>4, <2>1 DEF ToSet
  <2>3. st[waitingDisk[i]] = "waiting"
    BY <2>2 DEF Inv, QueueInv
  <2>4. \A q \in Request : st[q] = "ending" => st'[q] = "ending"
    BY <2>1, <2>3
  <2> QED
    BY <2>1, <2>4, HeadroomQuiet DEF disk, reservation
<1>5. CASE PumpGrant
  <2>1. waitingDisk # <<>> /\ waitingDisk \in Seq(Request)
    BY <1>5 DEF PumpGrant, Inv, TypeOK
  <2>2. PICK r \in Request : r = Head(waitingDisk)
    BY <2>1
  <2>3. want[r].bytes \in Nat
    BY TypeParts DEF Inv, CallerTypes, Wants
  <2>4. admissible(want[r].bytes, want[r].counts, free - config.volumePeerReserveBytes)
    BY <1>5, <2>2 DEF PumpGrant, headFits, probeAdmissionFreeBytes
  <2>5. reservedPendingBytes' = reservedPendingBytes + want[r].bytes /\ UNCHANGED free
    BY <1>5, <2>2 DEF PumpGrant, createReservation, disk
  <2> QED
    BY <2>3, <2>4, <2>5, HeadroomGrant
<1>6. ASSUME NEW r \in Request,
             \/ HandOff(r) \/ ReleaseTodo(r) \/ Write(r) \/ Consume(r) \/ Publish(r) \/ Unlink(r) \/ Release(r)
      PROVE  HeadroomKept'
  BY <1>6, HeadroomSession, HeadroomWrite
<1>7. CASE \/ \E k \in Key : PoolEntryExpires(k)
           \/ Purge \/ Poll
           \/ \E c \in Configs : configure(c)
           \/ PumpStart \/ PumpBlocked \/ PumpEmpty
           \/ \E n \in Bytes : EvictOne(n)
           \/ EvictionDone \/ EvictionCooldown \/ OutsideUse
           \/ Shutdown \/ ShutdownRejects
           \/ UNCHANGED vars
  BY <1>7, HeadroomSystem
<1>8. ASSUME NEW r \in Request, NEW bytes \in Bytes, NEW counts \in CountsOf[KeyOf[r]],
             Adopt(r, bytes, counts)
      PROVE  HeadroomKept'
  BY <1>8, HeadroomAdopt
<1> QED
  BY <1>1, <1>2, <1>3, <1>4, <1>5, <1>6, <1>7, <1>8 DEF Next

LEMMA HeadroomInit == ASSUME Init PROVE HeadroomKept
<1> DEFINE zero == [r \in Request |-> 0]
<1>1. StillToWrite = zero
  BY DEF Init, StillToWrite
<1>2. Units(zero) = {} /\ Cardinality({}) = 0
  BY FS_EmptySet DEF Units
<1>3. config.volumePeerReserveBytes \in Nat /\ config.minFreeBytes \in Nat /\ free \in Nat
  BY ConfigAssumption, SizeAssumption DEF Init
<1>4. Room \in Nat
  BY <1>3 DEF Room, AtLeastZero
<1> QED
  BY <1>1, <1>2, <1>4 DEF HeadroomKept, Room

\* No session ever writes the volume below the safety floor and the neighbour's reserve:
\* what reservations may still write fits above them, as long as the coordinator is alone
\* on the volume and keeps its configuration (evaluateGrant, consumeReservation,
\* releaseReservation and the pool).
THEOREM FloorIsKept ==
    ASSUME Outside = {}, \A c, d \in Configs : c = d
    PROVE  Spec => []HeadroomKept
<1>1. Inv /\ Inv' /\ HeadroomKept /\ [Next]_vars => HeadroomKept'
  BY HeadroomNext
<1>2. Init => HeadroomKept
  BY HeadroomInit
<1> QED
  BY <1>1, <1>2, Invariant, PTL DEF Spec

----------------------------------------------------------------------------
\* The cache: with one configuration, and keys whose sessions all publish or all do not,
\* what is published and what may still be published fit the limit.

\* What a caller asks for, and what it holds, is what the sessions of its key do.
CountsInv(r) ==
    /\ st[r] \in {"waiting", "held"} \/ (Asks /\ call.id = r) => want[r].counts \in CountsOf[KeyOf[r]]
    /\ st[r] \in {"held", "pooled"} => countsTowardCache[r] \in CountsOf[KeyOf[r]]

\* A caller that asks for and holds nothing new
SameCounts(q) ==
    /\ st'[q] \in {"waiting", "held"} \/ (Asks' /\ call'.id = q) =>
          (st[q] \in {"waiting", "held"} \/ (Asks /\ call.id = q)) /\ want'[q] = want[q]
    /\ st'[q] \in {"held", "pooled"} =>
          st[q] \in {"held", "pooled"} /\ countsTowardCache'[q] = countsTowardCache[q]

LEMMA CountsFrame ==
    ASSUME NEW q \in Request, CountsInv(q), SameCounts(q)
    PROVE  CountsInv(q)'
BY DEF CountsInv, SameCounts

LEMMA CountsProbe ==
    ASSUME Inv, \A q \in Request : CountsInv(q), NEW op, NEW r \in Request, NEW bytes \in Nat,
           NEW counts \in CountsOf[KeyOf[r]], byProbe(op, r, bytes, counts), ~Asks'
    PROVE  \A q \in Request : CountsInv(q)'
<1>0. CallerTypes /\ counts \in BOOLEAN
  BY TypeParts, KeyAssumption DEF Inv
<1> DEFINE w == [bytes |-> bytes, counts |-> counts]
<1>1. w.counts = counts
  OBVIOUS
<1> HIDE DEF w
<1>2. ASSUME NEW a \in {"idle", "direct", "unprobed"}, Answer(r, a), NEW q \in Request PROVE CountsInv(q)'
  <2>1. st' = [st EXCEPT ![r] = a] /\ want' = [want EXCEPT ![r] = NoWant] /\ UNCHANGED reservation
    BY <1>2 DEF Answer
  <2>2. SameCounts(q)
    BY <1>0, <2>1 DEF SameCounts, CallerTypes, reservation
  <2> QED
    BY <2>2, CountsFrame
<1>3. ASSUME createReservation(r, bytes, counts), NEW q \in Request PROVE CountsInv(q)'
  <2>1. /\ st' = [st EXCEPT ![r] = "held"] /\ want' = [want EXCEPT ![r] = w]
        /\ countsTowardCache' = [countsTowardCache EXCEPT ![r] = counts]
    BY <1>3 DEF createReservation, w
  <2>2. CASE q = r
    BY <1>0, <1>1, <2>1, <2>2 DEF CountsInv, CallerTypes
  <2>3. CASE q # r
    <3>1. SameCounts(q)
      BY <1>0, <2>1, <2>3 DEF SameCounts, CallerTypes
    <3> QED
      BY <3>1, CountsFrame
  <2> QED
    BY <2>2, <2>3
<1>4. ASSUME enqueueDisk(r, bytes, counts), NEW q \in Request PROVE CountsInv(q)'
  <2>1. /\ st' = [st EXCEPT ![r] = "waiting"] /\ want' = [want EXCEPT ![r] = w] /\ UNCHANGED reservation
    BY <1>4 DEF enqueueDisk, w
  <2>2. CASE q = r
    BY <1>0, <1>1, <2>1, <2>2 DEF CountsInv, CallerTypes
  <2>3. CASE q # r
    <3>1. SameCounts(q)
      BY <1>0, <2>1, <2>3 DEF SameCounts, CallerTypes, reservation
    <3> QED
      BY <3>1, CountsFrame
  <2> QED
    BY <2>2, <2>3
<1> QED
  BY <1>0, <1>2, <1>3, <1>4, ByProbe

LEMMA CountsAsk ==
    ASSUME Inv, \A q \in Request : CountsInv(q), NEW op, NEW r \in Request, NEW bytes \in Bytes,
           NEW counts \in CountsOf[KeyOf[r]],
           Ask(op, r, bytes, counts) \/ AskStale(op, r, bytes, counts) \/ Adopt(r, bytes, counts)
    PROVE  \A q \in Request : CountsInv(q)'
<1>0. CallerTypes /\ counts \in BOOLEAN /\ bytes \in Nat
  BY TypeParts, KeyAssumption, SizeAssumption DEF Inv
<1>1. CASE Ask(op, r, bytes, counts)
  <2>1. byProbe(op, r, bytes, counts) /\ ~Asks'
    BY <1>1, QuietFacts DEF Ask, Asks, control
  <2> QED
    BY <1>0, <2>1, CountsProbe
<1>2. CASE AskStale(op, r, bytes, counts)
  <2> DEFINE w == [bytes |-> bytes, counts |-> counts]
  <2>1. /\ ~Asks /\ UNCHANGED <<st, reservation>>
        /\ \/ UNCHANGED <<call, want>>
           \/ call'.id = r /\ want' = [want EXCEPT ![r] = w]
    BY <1>2, QuietFacts DEF AskStale
  <2>2. w.counts = counts
    OBVIOUS
  <2> HIDE DEF w
  <2>3. ASSUME NEW q \in Request PROVE CountsInv(q)'
    <3>1. CASE UNCHANGED <<call, want>> \/ q # r
      <4>1. SameCounts(q)
        BY <1>0, <2>1, <3>1 DEF SameCounts, CallerTypes, reservation, Asks
      <4> QED
        BY <4>1, CountsFrame
    <3>2. CASE q = r /\ want' = [want EXCEPT ![r] = w]
      <4>1. want'[q].counts = counts
        BY <1>0, <2>2, <3>2 DEF CallerTypes
      <4> QED
        BY <1>0, <2>1, <3>2, <4>1 DEF CountsInv, reservation
    <3> QED
      BY <2>1, <3>1, <3>2
  <2> QED
    BY <2>3
<1>3. CASE Adopt(r, bytes, counts)
  <2>1. PICK h \in Request : Adopted(r, bytes, counts, h)
    BY <1>3, AdoptEffect
  <2>2. ~Asks'
    BY <1>3, QuietFacts DEF Adopt, Asks, control
  <2>3. ASSUME NEW q \in Request PROVE CountsInv(q)'
    <3>1. CASE q = r
      <4>1. countsTowardCache[h] \in CountsOf[KeyOf[h]]
        BY <2>1 DEF CountsInv, Adopted
      <4> QED
        BY <1>0, <2>1, <2>2, <3>1, <4>1 DEF CountsInv, Adopted
    <3>2. CASE q # r
      <4>1. SameCounts(q)
        BY <2>1, <2>2, <3>2 DEF SameCounts, Adopted, SameAt
      <4> QED
        BY <4>1, CountsFrame
    <3> QED
      BY <3>1, <3>2
  <2> QED
    BY <2>3
<1> QED
  BY <1>1, <1>2, <1>3

\* Of the other steps only a grant from the queue makes a reservation.
LEMMA CountsNext ==
    ASSUME Inv, \A q \in Request : CountsInv(q), [Next]_vars
    PROVE  \A q \in Request : CountsInv(q)'
<1>0. CallerTypes
  BY TypeParts DEF Inv
<1>1. ASSUME NEW r \in Request, NEW bytes \in Bytes, NEW counts \in CountsOf[KeyOf[r]],
             \/ \E op \in {"reserve", "try"} :
                   Ask(op, r, bytes, counts) \/ AskStale(op, r, bytes, counts)
             \/ Adopt(r, bytes, counts)
      PROVE  \A q \in Request : CountsInv(q)'
  BY <1>1, CountsAsk
<1>2. CASE AskResume
  <2>1. PICK r \in Request : r = call.id
    BY <1>2 DEF AskResume, Inv, CallInv, Asks
  <2>2. want[r].counts \in CountsOf[KeyOf[r]] /\ want[r].bytes \in Nat
    BY <1>0, <1>2, <2>1 DEF AskResume, CountsInv, Asks, CallerTypes, Wants
  <2>3. byProbe(call.op, r, want[r].bytes, want[r].counts) /\ ~Asks'
    BY <1>2, <2>1 DEF AskResume, Asks, NoCall
  <2> QED
    BY <2>2, <2>3, CountsProbe
<1>3. ASSUME NEW r \in Request,
             \/ HandOff(r) \/ ReleaseTodo(r)
             \/ Write(r) \/ Consume(r) \/ Publish(r) \/ Unlink(r) \/ Release(r)
      PROVE  \A q \in Request : CountsInv(q)'
  <2>1. ASSUME NEW q \in Request, releaseReservation(r), UNCHANGED call, Asks => call.id # r
        PROVE  SameCounts(q)
    BY <1>0, <2>1 DEF releaseReservation, clearReservation, SameCounts, CallerTypes, Asks
  <2>2. ASSUME NEW q \in Request, Release(r) PROVE SameCounts(q)
    BY <2>1, <2>2, QuietFacts DEF Release
  <2>3. ASSUME NEW q \in Request, ReleaseTodo(r) PROVE SameCounts(q)
    <3>1. r \in todo /\ releaseReservation(r) /\ UNCHANGED call
      BY <2>3 DEF ReleaseTodo
    <3>2. Asks => call.id # r
      BY <3>1 DEF Inv, PoolInv, CallInv, Unreserved
    <3> QED
      BY <2>1, <3>1, <3>2
  <2>4. ASSUME NEW q \in Request, HandOff(r) PROVE SameCounts(q)
    <3>1. /\ ~Asks /\ ~Asks' /\ st[r] = "held" /\ st' = [st EXCEPT ![r] = "pooled"]
          /\ want' = [want EXCEPT ![r] = NoWant] /\ UNCHANGED reservation
      BY <2>4, QuietFacts DEF HandOff, Asks
    <3> QED
      BY <1>0, <3>1 DEF SameCounts, CallerTypes, reservation
  <2>5. ASSUME NEW q \in Request, Write(r) \/ Consume(r) PROVE SameCounts(q)
    <3>1. UNCHANGED <<st, want, countsTowardCache, call>>
      BY <2>5 DEF Write, Consume, reservation, control
    <3> QED
      BY <3>1 DEF SameCounts, Asks
  <2>6. ASSUME NEW q \in Request, Publish(r) \/ Unlink(r) PROVE SameCounts(q)
    <3>1. /\ st' = [st EXCEPT ![r] = "ending"] \/ st' = [st EXCEPT ![r] = IF @ = "held" THEN "ending" ELSE @]
          /\ UNCHANGED <<want, countsTowardCache, call>>
      BY <2>6 DEF Publish, Unlink, reservation, control
    <3>2. st'[q] = st[q] \/ st'[q] = "ending"
      BY <1>0, <3>1 DEF CallerTypes
    <3> QED
      BY <3>1, <3>2 DEF SameCounts, Asks
  <2> QED
    BY <1>3, <2>2, <2>3, <2>4, <2>5, <2>6, CountsFrame
<1>4. ASSUME NEW i \in DOMAIN waitingDisk, WaiterGone(i), NEW q \in Request PROVE CountsInv(q)'
  <2>1. /\ ~Asks /\ ~Asks' /\ st' = [st EXCEPT ![waitingDisk[i]] = "idle"]
        /\ want' = [want EXCEPT ![waitingDisk[i]] = NoWant] /\ UNCHANGED reservation
    BY <1>4, QuietFacts DEF WaiterGone, Asks
  <2>2. SameCounts(q)
    BY <1>0, <2>1 DEF SameCounts, CallerTypes, reservation
  <2> QED
    BY <2>2, CountsFrame
<1>5. ASSUME PumpGrant, NEW q \in Request PROVE CountsInv(q)'
  <2>1. waitingDisk # <<>> /\ waitingDisk \in Seq(Request)
    BY <1>5 DEF PumpGrant, Inv, TypeOK
  <2>2. PICK r \in Request : r = Head(waitingDisk)
    BY <2>1
  <2>3. r \in ToSet(waitingDisk)
    BY <2>1, <2>2, TailSet DEF Inv, QueueInv
  <2>4. st[r] = "waiting" /\ want[r].counts \in CountsOf[KeyOf[r]]
    BY <2>3 DEF Inv, QueueInv, CountsInv
  <2> DEFINE w == [bytes |-> want[r].bytes, counts |-> want[r].counts]
  <2>5. /\ st' = [st EXCEPT ![r] = "held"] /\ want' = [want EXCEPT ![r] = w]
        /\ countsTowardCache' = [countsTowardCache EXCEPT ![r] = want[r].counts] /\ UNCHANGED call
    BY <1>5, <2>2 DEF PumpGrant, createReservation, control
  <2>6. w.counts = want[r].counts
    OBVIOUS
  <2> HIDE DEF w
  <2>7. CASE q = r
    BY <1>0, <2>4, <2>5, <2>6, <2>7 DEF CountsInv, CallerTypes
  <2>8. CASE q # r
    <3>1. SameCounts(q)
      BY <1>0, <2>5, <2>8 DEF SameCounts, CallerTypes, Asks
    <3> QED
      BY <3>1, CountsFrame
  <2> QED
    BY <2>7, <2>8
<1>6. ASSUME ShutdownRejects, NEW q \in Request PROVE CountsInv(q)'
  <2>1. /\ st'[q] = (IF st[q] = "waiting" THEN "idle" ELSE st[q]) /\ ~Asks'
        /\ (st[q] # "waiting" => want'[q] = want[q]) /\ UNCHANGED reservation
    BY <1>6 DEF ShutdownRejects, Asks, NoCall
  <2>2. SameCounts(q)
    BY <2>1 DEF SameCounts, reservation
  <2> QED
    BY <2>2, CountsFrame
<1>7. ASSUME \/ \E k \in Key : PoolEntryExpires(k)
             \/ Purge \/ Poll
             \/ \E c \in Configs : configure(c)
             \/ PumpStart \/ PumpBlocked \/ PumpEmpty
             \/ \E n \in Bytes : EvictOne(n)
             \/ EvictionDone \/ EvictionCooldown \/ OutsideUse
             \/ Shutdown
             \/ UNCHANGED vars,
             NEW q \in Request
      PROVE  CountsInv(q)'
  <2>1. UNCHANGED <<st, want, reservation>> /\ (call' = call \/ call'.op = "shutdown")
    BY <1>7 DEF PoolEntryExpires, Purge, Poll, configure, PumpStart, PumpBlocked, PumpEmpty, EvictOne,
                EvictionDone, EvictionCooldown, OutsideUse, Shutdown, vars, control
  <2>2. SameCounts(q)
    BY <2>1 DEF SameCounts, reservation, Asks
  <2> QED
    BY <2>2, CountsFrame
<1> QED
  BY <1>1, <1>2, <1>3, <1>4, <1>5, <1>6, <1>7 DEF Next

LEMMA UnpublishedTypes ==
    /\ Inv => /\ Unpublished \in [Request -> Nat]
              /\ \A q \in Request :
                    /\ Unpublished[q] = IF st[q] = "ending" THEN 0 ELSE counted[q]
                    /\ Unpublished[q] <= counted[q]
    /\ Inv' => /\ Unpublished' \in [Request -> Nat]
               /\ \A q \in Request :
                     /\ Unpublished'[q] = IF st'[q] = "ending" THEN 0 ELSE counted'[q]
                     /\ Unpublished'[q] <= counted'[q]
<1>1. ASSUME Inv
      PROVE  /\ Unpublished \in [Request -> Nat]
             /\ \A q \in Request :
                   /\ Unpublished[q] = IF st[q] = "ending" THEN 0 ELSE counted[q]
                   /\ Unpublished[q] <= counted[q]
  <2>1. counted \in [Request -> Nat]
    BY <1>1, TypeParts, CountedTypes DEF Inv
  <2> QED
    BY <2>1 DEF Unpublished
<1>2. ASSUME Inv'
      PROVE  /\ Unpublished' \in [Request -> Nat]
             /\ \A q \in Request :
                   /\ Unpublished'[q] = IF st'[q] = "ending" THEN 0 ELSE counted'[q]
                   /\ Unpublished'[q] <= counted'[q]
  <2>1. counted' \in [Request -> Nat]
    BY <1>2, TypeParts, CountedTypes DEF Inv
  <2> QED
    BY <2>1 DEF Unpublished
<1> QED
  BY <1>1, <1>2

LEMMA LimitTypes ==
    ASSUME Inv, Inv', \A c, d \in Configs : c = d
    PROVE  /\ config' = config /\ config.maxBytes \in Nat
           /\ committedBytes \in Nat /\ committedBytes' \in Nat
BY ConfigAssumption DEF Inv, TypeOK

\* Nobody has more to publish than before: a counted reservation was there already.
NoMoreToPublish(q) ==
    st'[q] \in {"held", "pooled"} /\ countsTowardCache'[q] =>
        st[q] \in {"held", "pooled"} /\ countsTowardCache[q] /\ grantedBytes'[q] = grantedBytes[q]

LEMMA LimitLower ==
    ASSUME Inv, Inv', CacheWithinLimit, \A c, d \in Configs : c = d,
           committedBytes' <= committedBytes, \A q \in Request : NoMoreToPublish(q)
    PROVE  CacheWithinLimit'
<1>1. /\ Unpublished \in [Request -> Nat] /\ Unpublished' \in [Request -> Nat]
      /\ \A q \in Request :
            /\ Unpublished[q] = IF st[q] = "ending" THEN 0 ELSE counted[q]
            /\ Unpublished'[q] = IF st'[q] = "ending" THEN 0 ELSE counted'[q]
  BY UnpublishedTypes
<1>2. /\ \A q \in Request : counted[q] = IF countsTowardCache[q] THEN grantedBytes[q] ELSE 0
      /\ \A q \in Request : counted'[q] = IF countsTowardCache'[q] THEN grantedBytes'[q] ELSE 0
      /\ \A q \in Request : st'[q] \in States /\ (st'[q] \in Unreserved => ~countsTowardCache'[q])
  BY TypeParts, CountedTypes DEF Inv, CallerTypes, CallerInv
<1>3. ASSUME NEW q \in Request PROVE Unpublished'[q] <= Unpublished[q]
  <2>1. Unpublished[q] \in Nat /\ Unpublished'[q] \in Nat
    BY <1>1
  <2>2. CASE st'[q] \in {"held", "pooled"} /\ countsTowardCache'[q]
    BY <1>1, <1>2, <2>1, <2>2 DEF NoMoreToPublish
  <2>3. CASE ~(st'[q] \in {"held", "pooled"} /\ countsTowardCache'[q])
    BY <1>1, <1>2, <2>1, <2>3 DEF States, Unreserved
  <2> QED
    BY <2>2, <2>3
<1>4. Sum(Unpublished') <= Sum(Unpublished)
  BY <1>1, <1>3, SumMonotone
<1>5. Sum(Unpublished) \in Nat /\ Sum(Unpublished') \in Nat
  BY <1>1, UnitsFinite
<1>6. committedBytes + Sum(Unpublished) <= config.maxBytes
  BY DEF CacheWithinLimit, Sum
<1>7. committedBytes' + Sum(Unpublished') <= config'.maxBytes
  BY <1>4, <1>5, <1>6, LimitTypes
<1> QED
  BY <1>7 DEF CacheWithinLimit, Sum

\* A grant: all that is reserved for publication fits beside what is published.
LEMMA LimitGrant ==
    ASSUME Inv, Inv', CacheWithinLimit, \A c, d \in Configs : c = d, NEW r \in Request,
           NEW bytes \in Nat, NEW counts \in BOOLEAN, NEW freeBytes,
           admissible(bytes, counts, freeBytes), createReservation(r, bytes, counts),
           UNCHANGED committedBytes
    PROVE  CacheWithinLimit'
<1>0. CallerTypes
  BY TypeParts DEF Inv
<1>1. CASE counts
  <2>1. /\ committedBytes + cacheReservedBytes + bytes <= config.maxBytes
        /\ cacheReservedBytes' = cacheReservedBytes + bytes /\ cacheReservedBytes \in Nat
    BY <1>1 DEF admissible, createReservation, Inv, TypeOK
  <2>2. /\ Unpublished' \in [Request -> Nat] /\ counted' \in [Request -> Nat]
        /\ \A q \in Request : Unpublished'[q] <= counted'[q]
    BY UnpublishedTypes, TypeParts, CountedTypes DEF Inv
  <2>3. Sum(Unpublished') <= Sum(counted') /\ Sum(Unpublished') \in Nat
    BY <2>2, SumMonotone, UnitsFinite
  <2>4. cacheReservedBytes' = Sum(counted')
    BY DEF Inv, AccountingExact, Sum
  <2>5. committedBytes' + Sum(Unpublished') <= config'.maxBytes
    BY <2>1, <2>3, <2>4, LimitTypes
  <2> QED
    BY <2>5 DEF CacheWithinLimit, Sum
<1>2. CASE ~counts
  <2>1. /\ st' = [st EXCEPT ![r] = "held"]
        /\ grantedBytes' = [grantedBytes EXCEPT ![r] = bytes]
        /\ countsTowardCache' = [countsTowardCache EXCEPT ![r] = counts]
    BY DEF createReservation
  <2>2. \A q \in Request : NoMoreToPublish(q)
    BY <1>0, <1>2, <2>1 DEF NoMoreToPublish, CallerTypes
  <2> QED
    BY <2>2, LimitLower, LimitTypes
<1> QED
  BY <1>1, <1>2

\* A build publishes no more than it had reserved for that.
LEMMA LimitPublish ==
    ASSUME Inv, Inv', CacheWithinLimit, \A c, d \in Configs : c = d,
           \A k \in Key : \A a, b \in CountsOf[k] : a = b,
           NEW r \in Request, CountsInv(r), Publish(r)
    PROVE  CacheWithinLimit'
<1>1. /\ st[r] = "held" /\ want[r].counts /\ written[r] = want[r].bytes
      /\ st' = [st EXCEPT ![r] = "ending"] /\ committedBytes' = committedBytes + written[r]
      /\ UNCHANGED reservation /\ CallerTypes /\ CallerInv(r)
  BY TypeParts DEF Publish, Inv
<1>2. countsTowardCache[r]
  <2>1. /\ want[r].counts \in CountsOf[KeyOf[r]] /\ countsTowardCache[r] \in CountsOf[KeyOf[r]]
        /\ KeyOf[r] \in Key
    BY <1>1, KeyAssumption DEF CountsInv
  <2>2. countsTowardCache[r] = want[r].counts
    BY <2>1
  <2> QED
    BY <1>1, <2>2
<1>3. /\ Unpublished \in [Request -> Nat] /\ Unpublished' \in [Request -> Nat]
      /\ \A q \in Request :
            /\ Unpublished[q] = IF st[q] = "ending" THEN 0 ELSE counted[q]
            /\ Unpublished'[q] = IF st'[q] = "ending" THEN 0 ELSE counted'[q]
  BY UnpublishedTypes
<1>4. counted' = counted /\ counted[r] = grantedBytes[r]
  BY <1>1, <1>2 DEF counted, reservation
<1>5. Unpublished[r] = grantedBytes[r] /\ Unpublished'[r] = 0
  BY <1>1, <1>3, <1>4 DEF CallerTypes
<1>6. \A q \in Request : q # r => Unpublished'[q] = Unpublished[q]
  BY <1>1, <1>3, <1>4 DEF CallerTypes
<1>7. /\ Sum(Unpublished) \in Nat /\ Sum(Unpublished') \in Nat
      /\ Sum(Unpublished') = Sum(Unpublished) - Unpublished[r] + Unpublished'[r]
  BY <1>3, <1>6, SumAfter
<1>8. /\ written[r] \in Nat /\ grantedBytes[r] \in Nat /\ written[r] <= grantedBytes[r]
  BY <1>1 DEF CallerInv, CallerTypes
<1>9. committedBytes + Sum(Unpublished) <= config.maxBytes
  BY DEF CacheWithinLimit, Sum
<1>10. committedBytes' + Sum(Unpublished') <= config'.maxBytes
  BY <1>1, <1>5, <1>7, <1>8, <1>9, LimitTypes
<1> QED
  BY <1>10 DEF CacheWithinLimit, Sum

LEMMA LimitAdopt ==
    ASSUME Inv, Inv', CacheWithinLimit, \A c, d \in Configs : c = d, NEW r \in Request,
           NEW bytes \in Bytes, NEW counts \in CountsOf[KeyOf[r]], Adopt(r, bytes, counts)
    PROVE  CacheWithinLimit'
<1>1. PICK h \in Request : Adopted(r, bytes, counts, h)
  BY AdoptEffect
<1>2. /\ Unpublished \in [Request -> Nat] /\ Unpublished' \in [Request -> Nat]
      /\ \A q \in Request :
            /\ Unpublished[q] = IF st[q] = "ending" THEN 0 ELSE counted[q]
            /\ Unpublished'[q] = IF st'[q] = "ending" THEN 0 ELSE counted'[q]
  BY UnpublishedTypes
<1>3. /\ \A q \in Request : counted[q] = IF countsTowardCache[q] THEN grantedBytes[q] ELSE 0
      /\ \A q \in Request : counted'[q] = IF countsTowardCache'[q] THEN grantedBytes'[q] ELSE 0
  BY TypeParts, CountedTypes DEF Inv
<1>4. /\ Unpublished[r] = 0 /\ Unpublished'[r] = Unpublished[h] /\ Unpublished'[h] = 0
      /\ \A q \in Request : q # r /\ q # h => Unpublished'[q] = Unpublished[q]
  BY <1>1, <1>2, <1>3 DEF Adopted, SameAt, Unreserved
<1>5. Sum(Unpublished') = Sum(Unpublished)
  BY <1>1, <1>2, <1>4, SumMoves DEF Adopted
<1>6. UNCHANGED committedBytes
  BY <1>1 DEF Adopted, disk
<1> QED
  BY <1>5, <1>6, LimitTypes DEF CacheWithinLimit, Sum

LEMMA LimitProbe ==
    ASSUME Inv, Inv', CacheWithinLimit, \A c, d \in Configs : c = d, NEW op, NEW r \in Request,
           NEW bytes \in Nat, NEW counts \in BOOLEAN, byProbe(op, r, bytes, counts),
           UNCHANGED disk
    PROVE  CacheWithinLimit'
<1>1. UNCHANGED committedBytes /\ CallerTypes
  BY TypeParts DEF disk, Inv
<1>2. CASE createReservation(r, bytes, counts) /\ admissible(bytes, counts, free - config.volumePeerReserveBytes)
  BY <1>1, <1>2, LimitGrant
<1>3. ASSUME NEW a \in Unreserved, st' = [st EXCEPT ![r] = a], UNCHANGED reservation PROVE CacheWithinLimit'
  <2>1. \A q \in Request : NoMoreToPublish(q)
    BY <1>1, <1>3 DEF NoMoreToPublish, reservation, CallerTypes, Unreserved
  <2> QED
    BY <1>1, <2>1, LimitLower, LimitTypes
<1>4. ASSUME NEW a \in {"idle", "direct", "unprobed"}, Answer(r, a) PROVE CacheWithinLimit'
  BY <1>3, <1>4 DEF Answer, Unreserved
<1>5. CASE enqueueDisk(r, bytes, counts)
  BY <1>3, <1>5 DEF enqueueDisk, Unreserved
<1> QED
  BY <1>2, <1>4, <1>5, ByProbe

LEMMA LimitNext ==
    ASSUME Inv, Inv', CacheWithinLimit, \A q \in Request : CountsInv(q), \A c, d \in Configs : c = d,
           \A k \in Key : \A a, b \in CountsOf[k] : a = b, [Next]_vars
    PROVE  CacheWithinLimit'
<1>0. /\ \A n \in Bytes : n \in Nat
      /\ \A r \in Request : \A counts \in CountsOf[KeyOf[r]] : counts \in BOOLEAN
      /\ CallerTypes /\ committedBytes \in Nat
  BY SizeAssumption, KeyAssumption, TypeParts DEF Inv, SystemTypes
<1>1. ASSUME NEW op, NEW r \in Request, NEW bytes \in Bytes, NEW counts \in CountsOf[KeyOf[r]],
             Ask(op, r, bytes, counts) \/ Adopt(r, bytes, counts)
      PROVE  CacheWithinLimit'
  <2>1. CASE Ask(op, r, bytes, counts)
    <3>1. byProbe(op, r, bytes, counts) /\ UNCHANGED disk
      BY <2>1 DEF Ask
    <3> QED
      BY <1>0, <3>1, LimitProbe
  <2>2. CASE Adopt(r, bytes, counts)
    BY <2>2, LimitAdopt
  <2> QED
    BY <1>1, <2>1, <2>2
<1>2. CASE AskResume
  <2>1. PICK r \in Request : r = call.id
    BY <1>2 DEF AskResume, Inv, CallInv, Asks
  <2>2. want[r].bytes \in Nat /\ want[r].counts \in BOOLEAN
    BY <1>0 DEF CallerTypes, Wants
  <2>3. byProbe(call.op, r, want[r].bytes, want[r].counts) /\ UNCHANGED disk
    BY <1>2, <2>1 DEF AskResume
  <2> QED
    BY <2>2, <2>3, LimitProbe
<1>3. ASSUME UNCHANGED reservation, committedBytes' <= committedBytes,
             \A q \in Request : st'[q] \in {"held", "pooled"} => st[q] \in {"held", "pooled"}
      PROVE  CacheWithinLimit'
  <2>1. \A q \in Request : NoMoreToPublish(q)
    BY <1>3 DEF NoMoreToPublish, reservation
  <2> QED
    BY <1>3, <2>1, LimitLower
<1>4. ASSUME NEW r \in Request,
             \/ HandOff(r) \/ ReleaseTodo(r)
             \/ Write(r) \/ Consume(r) \/ Publish(r) \/ Unlink(r) \/ Release(r)
      PROVE  CacheWithinLimit'
  <2>1. CASE HandOff(r)
    <3>1. st[r] = "held" /\ st' = [st EXCEPT ![r] = "pooled"] /\ UNCHANGED <<disk, reservation>>
      BY <2>1 DEF HandOff
    <3> QED
      BY <1>0, <1>3, <3>1 DEF CallerTypes, disk
  <2>2. CASE ReleaseTodo(r) \/ Release(r)
    <3>1. releaseReservation(r) /\ UNCHANGED committedBytes
      BY <2>2 DEF ReleaseTodo, Release, disk
    <3>2. \A q \in Request : NoMoreToPublish(q)
      BY <1>0, <3>1 DEF releaseReservation, clearReservation, NoMoreToPublish, CallerTypes
    <3> QED
      BY <1>0, <3>1, <3>2, LimitLower
  <2>3. CASE Write(r) \/ Consume(r)
    <3>1. UNCHANGED <<st, grantedBytes, countsTowardCache, committedBytes>>
      BY <2>3 DEF Write, Consume, reservation
    <3>2. \A q \in Request : NoMoreToPublish(q)
      BY <3>1 DEF NoMoreToPublish
    <3> QED
      BY <1>0, <3>1, <3>2, LimitLower
  <2>4. CASE Unlink(r)
    <3>1. st' = [st EXCEPT ![r] = IF @ = "held" THEN "ending" ELSE @] /\ UNCHANGED <<committedBytes, reservation>>
      BY <2>4 DEF Unlink
    <3>2. \A q \in Request : st'[q] \in {"held", "pooled"} => st[q] \in {"held", "pooled"}
      BY <1>0, <3>1 DEF CallerTypes
    <3> QED
      BY <1>0, <1>3, <3>1, <3>2
  <2>5. CASE Publish(r)
    BY <2>5, LimitPublish
  <2> QED
    BY <1>4, <2>1, <2>2, <2>3, <2>4, <2>5
<1>5. ASSUME NEW i \in DOMAIN waitingDisk, WaiterGone(i) PROVE CacheWithinLimit'
  <2>1. st' = [st EXCEPT ![waitingDisk[i]] = "idle"] /\ UNCHANGED <<disk, reservation>>
    BY <1>5 DEF WaiterGone
  <2> QED
    BY <1>0, <1>3, <2>1 DEF CallerTypes, disk
<1>6. CASE PumpGrant
  <2>1. waitingDisk # <<>> /\ waitingDisk \in Seq(Request)
    BY <1>6 DEF PumpGrant, Inv, TypeOK
  <2>2. PICK r \in Request : r = Head(waitingDisk)
    BY <2>1
  <2>3. want[r].bytes \in Nat /\ want[r].counts \in BOOLEAN
    BY <1>0 DEF CallerTypes, Wants
  <2>4. /\ admissible(want[r].bytes, want[r].counts, probeAdmissionFreeBytes(TRUE))
        /\ createReservation(r, want[r].bytes, want[r].counts) /\ UNCHANGED committedBytes
    BY <1>6, <2>2 DEF PumpGrant, headFits, disk
  <2> QED
    BY <2>3, <2>4, LimitGrant
<1>7. ASSUME NEW n \in Bytes, EvictOne(n) PROVE CacheWithinLimit'
  <2>1. committedBytes' = AtLeastZero(committedBytes - n) /\ n \in Nat /\ UNCHANGED <<st, reservation>>
    BY <1>0, <1>7 DEF EvictOne
  <2>2. committedBytes' <= committedBytes
    BY <1>0, <2>1 DEF AtLeastZero
  <2> QED
    BY <1>3, <2>1, <2>2
<1>8. CASE ShutdownRejects
  <2>1. /\ st' = [r \in Request |-> IF st[r] = "waiting" THEN "idle" ELSE st[r]]
        /\ UNCHANGED <<disk, reservation>>
    BY <1>8 DEF ShutdownRejects
  <2> QED
    BY <1>0, <1>3, <2>1 DEF disk
<1>9. ASSUME \/ \E r \in Request, bytes \in Bytes : \E counts \in CountsOf[KeyOf[r]] :
                   \E op \in {"reserve", "try"} : AskStale(op, r, bytes, counts)
             \/ \E k \in Key : PoolEntryExpires(k)
             \/ Purge \/ Poll
             \/ \E c \in Configs : configure(c)
             \/ PumpStart \/ PumpBlocked \/ PumpEmpty
             \/ EvictionDone \/ EvictionCooldown \/ OutsideUse
             \/ Shutdown
             \/ UNCHANGED vars
      PROVE  CacheWithinLimit'
  <2>1. UNCHANGED <<committedBytes, st, reservation>>
    BY <1>9 DEF AskStale, PoolEntryExpires, Purge, Poll, configure, PumpStart, PumpBlocked, PumpEmpty,
                EvictionDone, EvictionCooldown, OutsideUse, Shutdown, vars, disk
  <2> QED
    BY <1>0, <1>3, <2>1
<1> QED
  BY <1>1, <1>2, <1>4, <1>5, <1>6, <1>7, <1>8, <1>9 DEF Next

LEMMA LimitInit == ASSUME Init PROVE CacheWithinLimit /\ \A r \in Request : CountsInv(r)
<1> DEFINE zero == [r \in Request |-> 0]
<1>1. Unpublished = zero
  BY DEF Init, Unpublished, counted
<1>2. Units(zero) = {} /\ Cardinality({}) = 0
  BY FS_EmptySet DEF Units
<1>3. config.maxBytes \in Nat /\ committedBytes = 0
  BY ConfigAssumption DEF Init
<1>4. CacheWithinLimit
  <2>1. Cardinality(Units(Unpublished)) = 0
    BY <1>1, <1>2
  <2> QED
    BY <1>3, <2>1 DEF CacheWithinLimit
<1>5. \A r \in Request : CountsInv(r)
  BY DEF Init, CountsInv, Asks, NoCall
<1> QED
  BY <1>4, <1>5

\* The published files and what the counted builds may still publish never exceed the
\* cache's limit, as long as the configuration stays and the sessions of a key all
\* publish or all do not (evaluateGrant, the hand-off, registerCache before release).
THEOREM CacheStaysWithinItsLimit ==
    ASSUME \A c, d \in Configs : c = d, \A k \in Key : \A a, b \in CountsOf[k] : a = b
    PROVE  Spec => []CacheWithinLimit
<1> DEFINE CInv == \A q \in Request : CountsInv(q)
<1>1. Inv /\ CInv /\ [Next]_vars => CInv'
  BY CountsNext
<1>2. Inv /\ Inv' /\ CInv /\ CacheWithinLimit /\ [Next]_vars => CacheWithinLimit'
  BY LimitNext
<1>3. Init => CacheWithinLimit /\ CInv
  BY LimitInit
<1> HIDE DEF CInv
<1> QED
  BY <1>1, <1>2, <1>3, Invariant, PTL DEF Spec
=============================================================================
