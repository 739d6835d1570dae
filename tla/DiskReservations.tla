-------------------------- MODULE DiskReservations --------------------------
(***************************************************************************)
(* Disk and cache-capacity reservations of DownloadResourceCoordinator     *)
(* (backend/src/file/download-resource-coordinator.service.ts), with the   *)
(* writes, publications and unlinks by which the sessions that hold them   *)
(* change the volume.                                                      *)
(*                                                                         *)
(* A session reserves the bytes it will write before it writes any.  What  *)
(* is reserved and not yet written (reservedPendingBytes) is taken off the *)
(* free space statfs reports; what will be published is taken off the      *)
(* cache's capacity (cacheReservedBytes).  A download task passes its      *)
(* reservation to the request that transfers the body through a hand-off   *)
(* pool keyed by session.                                                  *)
(*                                                                         *)
(* A handler runs to its end without interruption.  Three variables hold   *)
(* what the running handler still has to do: the reservations it releases  *)
(* (todo), the pump (pump), and the rest of the call (call).  Quiet says   *)
(* that no handler is running; only then may another one start.            *)
(***************************************************************************)
EXTENDS Integers, Sequences, FiniteSets, SequencesExt

CONSTANTS
    Request,        \* callers: tasks and body requests; an id is reused when done
    Key,            \* session keys, file id and content version
    KeyOf,          \* the session key each caller reserves under
    CountsOf,       \* whether the sessions of a key publish: build TRUE, spool FALSE
    Bytes,          \* sizes of downloads
    Volume,         \* free bytes of the empty volume
    Outside,        \* bytes other programs may take or give back in one step
    Configs,        \* configurations configure() may install
    FsOutcomes,     \* whether statfs and unlink succeed: a subset of BOOLEAN
    None

ASSUME RequestAssumption == IsFiniteSet(Request) /\ None \notin Request
ASSUME KeyAssumption ==
    KeyOf \in [Request -> Key] /\ CountsOf \in [Key -> SUBSET BOOLEAN]
ASSUME SizeAssumption ==
    Bytes \subseteq Nat \ {0} /\ Volume \in Nat /\ Outside \subseteq Nat \ {0}
ASSUME ConfigAssumption ==
    Configs \subseteq [minFreeBytes : Nat \ {0}, volumePeerReserveBytes : Nat,
                       maxReservedBytes : Nat, maxBytes : Nat, queueCapacity : Nat]
ASSUME FsAssumption == FsOutcomes \subseteq BOOLEAN /\ FsOutcomes # {}

VARIABLES
    config,
    free,                  \* bavail * bsize of the cache volume
    published,             \* number of published cache files of each size
    committedBytes,        \* cachedSizeBytes, the count of their bytes
    reservedPendingBytes, cacheReservedBytes,
    st,                    \* where each caller is
    want,                  \* the download it asks for: its size, whether to publish it
    grantedBytes, remainingBytes, countsTowardCache,   \* the reservation it holds
    dirty,                 \* bytes written and not yet consumed
    written,               \* bytes of its temporary file
    waitingDisk,
    pool,                  \* handedOffReservations
    poolExpired,           \* HANDOFF_TTL_MS of the entry have passed
    pollTimer,
    evictionInFlight, evictionRecent, evictionFreed,
    shuttingDown,
    todo, pump, call

reservation == <<grantedBytes, remainingBytes, countsTowardCache>>
counters == <<reservedPendingBytes, cacheReservedBytes>>
disk == <<free, published, committedBytes, dirty, written>>
handOffs == <<pool, poolExpired>>
eviction == <<evictionInFlight, evictionRecent, evictionFreed>>
control == <<todo, pump, call>>
vars == <<config, disk, counters, st, want, reservation, waitingDisk, handOffs, pollTimer,
          eviction, shuttingDown, control>>

NoCall == [op |-> "none", id |-> None]
NoWant == [bytes |-> 0, counts |-> FALSE]
Quiet == todo = {} /\ pump = "idle" /\ call = NoCall

AtLeastZero(n) == IF n < 0 THEN 0 ELSE n
Least(a, b) == IF a <= b THEN a ELSE b

----------------------------------------------------------------------------
\* Admission

\* The probe answers -1 when statfs fails, and may itself be negative when the
\* volume is below the reserve left to the neighbouring directory.
probeAdmissionFreeBytes(ok) ==
    IF ok THEN free - config.volumePeerReserveBytes ELSE -1

globalRoom(bytes) ==
    \/ config.maxReservedBytes = 0
    \/ reservedPendingBytes + bytes <= config.maxReservedBytes

\* evaluateGrant: a request no release can ever make room for ...
structural(bytes, counts, freeBytes) ==
    \/ freeBytes - config.minFreeBytes < bytes
    \/ globalRoom(bytes) /\ counts /\ bytes > config.maxBytes

\* mutant: what others have reserved and not yet written is forgotten
admissibleNow(bytes, counts, freeBytes) ==
    /\ freeBytes - config.minFreeBytes >= bytes
    /\ globalRoom(bytes)
    /\ counts => committedBytes + cacheReservedBytes + bytes <= config.maxBytes

\* mutant: only published files count against the cache
admissiblePublished(bytes, counts, freeBytes) ==
    /\ freeBytes - config.minFreeBytes - reservedPendingBytes >= bytes
    /\ globalRoom(bytes)
    /\ counts => committedBytes + bytes <= config.maxBytes

\* ... and one that can be granted now.
admissible(bytes, counts, freeBytes) ==
    /\ freeBytes - config.minFreeBytes - reservedPendingBytes >= bytes
    /\ globalRoom(bytes)
    /\ counts => committedBytes + cacheReservedBytes + bytes <= config.maxBytes

\* createReservation for caller r
createReservation(r, bytes, counts) ==
    /\ st' = [st EXCEPT ![r] = "held"]
    /\ want' = [want EXCEPT ![r] = [bytes |-> bytes, counts |-> counts]]
    /\ grantedBytes' = [grantedBytes EXCEPT ![r] = bytes]
    /\ remainingBytes' = [remainingBytes EXCEPT ![r] = bytes]
    /\ countsTowardCache' = [countsTowardCache EXCEPT ![r] = counts]
    /\ reservedPendingBytes' = reservedPendingBytes + bytes
    /\ cacheReservedBytes' = cacheReservedBytes + (IF counts THEN bytes ELSE 0)

clearReservation(r) ==
    /\ grantedBytes' = [grantedBytes EXCEPT ![r] = 0]
    /\ remainingBytes' = [remainingBytes EXCEPT ![r] = 0]
    /\ countsTowardCache' = [countsTowardCache EXCEPT ![r] = FALSE]

\* The counters' part of releaseReservation
giveBack(r) ==
    /\ reservedPendingBytes' = AtLeastZero(reservedPendingBytes - remainingBytes[r])
    /\ cacheReservedBytes' = AtLeastZero(cacheReservedBytes -
                                (IF countsTowardCache[r] THEN grantedBytes[r] ELSE 0))

\* releaseReservation, whose last call is pumpDisk()
releaseReservation(r) ==
    /\ st' = [st EXCEPT ![r] = "idle"]
    /\ want' = [want EXCEPT ![r] = NoWant]
    /\ giveBack(r)
    /\ clearReservation(r)
    /\ pump' = "start"

Init ==
    /\ config \in Configs
    /\ free = Volume
    /\ published = [n \in Bytes |-> 0]
    /\ committedBytes = 0
    /\ reservedPendingBytes = 0
    /\ cacheReservedBytes = 0
    /\ st = [r \in Request |-> "idle"]
    /\ want = [r \in Request |-> NoWant]
    /\ grantedBytes = [r \in Request |-> 0]
    /\ remainingBytes = [r \in Request |-> 0]
    /\ countsTowardCache = [r \in Request |-> FALSE]
    /\ dirty = [r \in Request |-> 0]
    /\ written = [r \in Request |-> 0]
    /\ waitingDisk = <<>>
    /\ pool = [k \in Key |-> None]
    /\ poolExpired = [k \in Key |-> FALSE]
    /\ pollTimer = FALSE
    /\ evictionInFlight = FALSE
    /\ evictionRecent = FALSE
    /\ evictionFreed = 0
    /\ shuttingDown = FALSE
    /\ todo = {}
    /\ pump = "idle"
    /\ call = NoCall

----------------------------------------------------------------------------
\* reserve() and tryReserveNow()

MayAsk(r) == st[r] \in {"idle", "direct", "unprobed"} /\ written[r] = 0 /\ ~shuttingDown

Answer(r, answer) ==
    /\ st' = [st EXCEPT ![r] = answer]
    /\ want' = [want EXCEPT ![r] = NoWant]
    /\ UNCHANGED <<reservation, counters, waitingDisk, pollTimer>>

enqueueDisk(r, bytes, counts) ==
    /\ st' = [st EXCEPT ![r] = "waiting"]
    /\ want' = [want EXCEPT ![r] = [bytes |-> bytes, counts |-> counts]]
    /\ waitingDisk' = Append(waitingDisk, r)
    /\ pollTimer' = TRUE
    /\ UNCHANGED <<reservation, counters>>

\* reserve() behind the hand-off: probe, then grant, refuse or queue.  The
\* caller is granted at once when there is room, whoever is waiting.
reserveByProbe(r, bytes, counts) == \E ok \in FsOutcomes :
    LET f == probeAdmissionFreeBytes(ok) IN
    \/ /\ f < 0
       /\ Answer(r, "unprobed")
    \/ /\ f >= 0
       /\ admissible(bytes, counts, f)
       /\ createReservation(r, bytes, counts)
       /\ UNCHANGED <<waitingDisk, pollTimer>>
    \/ /\ f >= 0
       /\ structural(bytes, counts, f)
       /\ Answer(r, "direct")
    \/ /\ f >= 0
       /\ ~admissible(bytes, counts, f)
       /\ ~structural(bytes, counts, f)
       /\ Len(waitingDisk) >= config.queueCapacity
       /\ Answer(r, "idle")
    \/ /\ f >= 0
       /\ ~admissible(bytes, counts, f)
       /\ ~structural(bytes, counts, f)
       /\ Len(waitingDisk) < config.queueCapacity
       /\ enqueueDisk(r, bytes, counts)

\* tryReserveNow() behind the hand-off: grant or nothing.
tryByProbe(r, bytes, counts) == \E ok \in FsOutcomes :
    LET f == probeAdmissionFreeBytes(ok) IN
    \/ /\ f >= 0
       /\ admissible(bytes, counts, f)
       /\ createReservation(r, bytes, counts)
       /\ UNCHANGED <<waitingDisk, pollTimer>>
    \/ /\ f < 0 \/ ~admissible(bytes, counts, f)
       /\ Answer(r, "idle")

byProbe(op, r, bytes, counts) ==
    IF op = "reserve" THEN reserveByProbe(r, bytes, counts)
                      ELSE tryByProbe(r, bytes, counts)

\* No entry in the pool under the caller's key.
Ask(op, r, bytes, counts) ==
    /\ Quiet
    /\ MayAsk(r)
    /\ pool[KeyOf[r]] = None
    /\ byProbe(op, r, bytes, counts)
    /\ UNCHANGED <<config, disk, handOffs, eviction, shuttingDown, control>>

\* takeHandedOffReservation: a live entry that is large enough is adopted.  The
\* caller becomes the holder of the reservation another caller had made.
Adopt(r, bytes, counts) ==
    LET h == pool[KeyOf[r]] IN
    /\ Quiet
    /\ MayAsk(r)
    /\ h # None
    /\ ~poolExpired[KeyOf[r]]
    /\ grantedBytes[h] >= bytes
    /\ pool' = [pool EXCEPT ![KeyOf[r]] = None]
    /\ st' = [st EXCEPT ![r] = "held", ![h] = "idle"]
    /\ want' = [want EXCEPT ![r] = [bytes |-> bytes, counts |-> counts]]
    /\ grantedBytes' = [grantedBytes EXCEPT ![r] = grantedBytes[h], ![h] = 0]
    /\ remainingBytes' = [remainingBytes EXCEPT ![r] = remainingBytes[h], ![h] = 0]
    /\ countsTowardCache' =
          [countsTowardCache EXCEPT ![r] = countsTowardCache[h], ![h] = FALSE]
    /\ UNCHANGED <<config, disk, counters, waitingDisk, poolExpired, pollTimer, eviction,
                   shuttingDown, control>>

\* An expired or too small entry is released first; then the call goes on,
\* except for tryReserveNow() with an entry that is too small.
AskStale(op, r, bytes, counts) ==
    LET k == KeyOf[r]
        h == pool[k] IN
    /\ Quiet
    /\ MayAsk(r)
    /\ h # None
    /\ poolExpired[k] \/ grantedBytes[h] < bytes
    /\ pool' = [pool EXCEPT ![k] = None]
    /\ poolExpired' = [poolExpired EXCEPT ![k] = FALSE]
    /\ todo' = {h}
    /\ IF op = "try" /\ ~poolExpired[k]
       THEN UNCHANGED <<call, want>>
       ELSE /\ call' = [op |-> op, id |-> r]
            /\ want' = [want EXCEPT ![r] = [bytes |-> bytes, counts |-> counts]]
    /\ UNCHANGED <<config, disk, counters, st, reservation, waitingDisk, pollTimer,
                   eviction, shuttingDown, pump>>

AskResume ==
    /\ todo = {} /\ pump = "idle"
    /\ call.op \in {"reserve", "try"}
    /\ byProbe(call.op, call.id, want[call.id].bytes, want[call.id].counts)
    /\ call' = NoCall
    /\ UNCHANGED <<config, disk, handOffs, eviction, shuttingDown, todo, pump>>

----------------------------------------------------------------------------
\* The hand-off pool

ExpiredKeys == {k \in Key : pool[k] # None /\ poolExpired[k]}

\* mutant: the older entry under the key is overwritten, not released
HandOffOverwrites(r) ==
    LET out == ExpiredKeys IN
    /\ Quiet
    /\ st[r] = "held"
    /\ written[r] = 0
    /\ st' = [st EXCEPT ![r] = "pooled"]
    /\ want' = [want EXCEPT ![r] = NoWant]
    /\ pool' = [k \in Key |-> IF k = KeyOf[r] THEN r
                              ELSE IF k \in out THEN None ELSE pool[k]]
    /\ poolExpired' = [k \in Key |-> poolExpired[k] /\ k \notin out]
    /\ todo' = {pool[k] : k \in out}
    /\ UNCHANGED <<config, disk, counters, reservation, waitingDisk, pollTimer, eviction,
                   shuttingDown, pump, call>>

\* handOffToSession: expired entries and an older entry under the key are
\* released, then the caller's reservation is put under it.
HandOff(r) ==
    LET out == ExpiredKeys \cup {k \in {KeyOf[r]} : pool[k] # None} IN
    /\ Quiet
    /\ st[r] = "held"
    /\ written[r] = 0
    /\ st' = [st EXCEPT ![r] = "pooled"]
    /\ want' = [want EXCEPT ![r] = NoWant]
    /\ pool' = [k \in Key |-> IF k = KeyOf[r] THEN r
                              ELSE IF k \in out THEN None ELSE pool[k]]
    /\ poolExpired' = [k \in Key |-> poolExpired[k] /\ k \notin out]
    /\ todo' = {pool[k] : k \in out}
    /\ UNCHANGED <<config, disk, counters, reservation, waitingDisk, pollTimer, eviction,
                   shuttingDown, pump, call>>

PoolEntryExpires(k) ==
    /\ Quiet
    /\ pool[k] # None
    /\ ~poolExpired[k]
    /\ poolExpired' = [poolExpired EXCEPT ![k] = TRUE]
    /\ UNCHANGED <<config, disk, counters, st, want, reservation, waitingDisk, pool, pollTimer,
                   eviction, shuttingDown, control>>

\* mutant: the sweep leaves the pool alone
PurgeNothing ==
    /\ Quiet
    /\ ExpiredKeys # {}
    /\ UNCHANGED vars

\* purgeExpiredHandOffs, from the sweep timer
Purge ==
    /\ Quiet
    /\ ExpiredKeys # {}
    /\ pool' = [k \in Key |-> IF k \in ExpiredKeys THEN None ELSE pool[k]]
    /\ poolExpired' = [k \in Key |-> FALSE]
    /\ todo' = {pool[k] : k \in ExpiredKeys}
    /\ UNCHANGED <<config, disk, counters, st, want, reservation, waitingDisk, pollTimer,
                   eviction, shuttingDown, pump, call>>

\* The next of the reservations the running handler releases
ReleaseTodo(h) ==
    /\ h \in todo
    /\ pump = "idle"
    /\ releaseReservation(h)
    /\ todo' = todo \ {h}
    /\ UNCHANGED <<config, disk, waitingDisk, handOffs, pollTimer, eviction, shuttingDown,
                   call>>

----------------------------------------------------------------------------
\* What the sessions do with a reservation (cache-session-coordinator.ts)

\* A file has one build session and one spool session at a time; a second caller
\* follows the session that is there.
leads(r) ==
    \A q \in Request \ {r} :
        st[q] = "held" /\ written[q] > 0 /\ KeyOf[q] = KeyOf[r]
            => want[q].counts # want[r].counts

\* output.write: the bytes are on disk, and not yet consumed.
Write(r) ==
    /\ Quiet
    /\ st[r] = "held"
    /\ dirty[r] = 0
    /\ written[r] < want[r].bytes
    /\ leads(r)
    /\ free > 0
    /\ free' = free - 1
    /\ written' = [written EXCEPT ![r] = @ + 1]
    /\ dirty' = [dirty EXCEPT ![r] = 1]
    /\ UNCHANGED <<config, published, committedBytes, counters, st, want, reservation,
                   waitingDisk, handOffs, pollTimer, eviction, shuttingDown, control>>

\* mutant: the counter is left for the release to settle
consumeRecordOnly(r) ==
    LET consumed == Least(remainingBytes[r], dirty[r]) IN
    /\ remainingBytes' = [remainingBytes EXCEPT ![r] = @ - consumed]
    /\ UNCHANGED reservedPendingBytes

\* consumeReservation's part on the counters
consumeReservation(r) ==
    LET consumed == Least(remainingBytes[r], dirty[r]) IN
    /\ remainingBytes' = [remainingBytes EXCEPT ![r] = @ - consumed]
    /\ reservedPendingBytes' = AtLeastZero(reservedPendingBytes - consumed)

\* The write's callback: reservation.consume(chunk.length)
Consume(r) ==
    /\ Quiet
    /\ st[r] = "held"
    /\ dirty[r] > 0
    /\ consumeReservation(r)
    /\ dirty' = [dirty EXCEPT ![r] = 0]
    /\ UNCHANGED <<config, free, published, committedBytes, written, cacheReservedBytes, st,
                   want, grantedBytes, countsTowardCache, waitingDisk, handOffs, pollTimer,
                   eviction, shuttingDown, control>>

\* A complete build is renamed and registered; its reservation is released after.
Publish(r) ==
    /\ Quiet
    /\ st[r] = "held"
    /\ want[r].counts
    /\ dirty[r] = 0
    /\ written[r] = want[r].bytes
    /\ st' = [st EXCEPT ![r] = "ending"]
    /\ published' = [published EXCEPT ![written[r]] = @ + 1]
    /\ committedBytes' = committedBytes + written[r]
    /\ written' = [written EXCEPT ![r] = 0]
    /\ UNCHANGED <<config, free, dirty, counters, want, reservation, waitingDisk, handOffs,
                   pollTimer, eviction, shuttingDown, control>>

\* The temporary file is removed: by the session that failed, which then releases,
\* or, for a complete spool, when its grace period is over.  A failed unlink is
\* swallowed and leaves an orphan on the volume.
Unlink(r) ==
    /\ Quiet
    /\ written[r] > 0
    /\ st' = [st EXCEPT ![r] = IF @ = "held" THEN "ending" ELSE @]
    /\ \E ok \in FsOutcomes : free' = free + (IF ok THEN written[r] ELSE 0)
    /\ written' = [written EXCEPT ![r] = 0]
    /\ dirty' = [dirty EXCEPT ![r] = 0]
    /\ UNCHANGED <<config, published, committedBytes, counters, want, reservation,
                   waitingDisk, handOffs, pollTimer, eviction, shuttingDown, control>>

\* lease.release(): by a task or session that has no file, by a session that has
\* published or removed its file, and by a complete spool that keeps it.
Release(r) ==
    /\ Quiet
    /\ \/ st[r] = "ending"
       \/ st[r] = "held" /\ written[r] = 0
       \/ st[r] = "held" /\ ~want[r].counts /\ dirty[r] = 0 /\ written[r] = want[r].bytes
    /\ releaseReservation(r)
    /\ UNCHANGED <<config, disk, waitingDisk, handOffs, pollTimer, eviction, shuttingDown,
                   todo, call>>

\* Other programs, TDLib among them, take and give back space on the volume.
OutsideUse ==
    /\ Quiet
    /\ \E n \in Outside : free' \in {free - n, free + n}
    /\ free' \in 0..Volume
    /\ UNCHANGED <<config, published, committedBytes, dirty, written, counters, st, want,
                   reservation, waitingDisk, handOffs, pollTimer, eviction, shuttingDown,
                   control>>

----------------------------------------------------------------------------
\* Leaving the queue, polling and reconfiguring: each ends in pumpDisk()

\* mutant: the head leaves the queue in place of the waiter that gave up
WaiterGoneShift(i) ==
    /\ Quiet
    /\ st' = [st EXCEPT ![waitingDisk[i]] = "idle"]
    /\ want' = [want EXCEPT ![waitingDisk[i]] = NoWant]
    /\ waitingDisk' = Tail(waitingDisk)
    /\ pump' = "start"
    /\ UNCHANGED <<config, disk, counters, reservation, handOffs, pollTimer, eviction,
                   shuttingDown, todo, call>>

\* The timer or the abort handler of a waiter
WaiterGone(i) ==
    /\ Quiet
    /\ st' = [st EXCEPT ![waitingDisk[i]] = "idle"]
    /\ want' = [want EXCEPT ![waitingDisk[i]] = NoWant]
    /\ waitingDisk' = RemoveAt(waitingDisk, i)
    /\ pump' = "start"
    /\ UNCHANGED <<config, disk, counters, reservation, handOffs, pollTimer, eviction,
                   shuttingDown, todo, call>>

\* mutant: a timeout in place of the interval
PollOnce ==
    /\ Quiet
    /\ pollTimer
    /\ pollTimer' = FALSE
    /\ IF waitingDisk = <<>> THEN UNCHANGED pump ELSE pump' = "start"
    /\ UNCHANGED <<config, disk, counters, st, want, reservation, waitingDisk, handOffs,
                   eviction, shuttingDown, todo, call>>

\* The interval of ensurePollTimer
Poll ==
    /\ Quiet
    /\ pollTimer
    /\ IF waitingDisk = <<>> THEN pollTimer' = FALSE /\ UNCHANGED pump
                             ELSE pump' = "start" /\ UNCHANGED pollTimer
    /\ UNCHANGED <<config, disk, counters, st, want, reservation, waitingDisk, handOffs,
                   eviction, shuttingDown, todo, call>>

configure(c) ==
    /\ Quiet
    /\ config' = c
    /\ pump' = "start"
    /\ UNCHANGED <<disk, counters, st, want, reservation, waitingDisk, handOffs, pollTimer,
                   eviction, shuttingDown, todo, call>>

----------------------------------------------------------------------------
\* pumpDisk(), one loop iteration per step

PumpStart ==
    /\ pump = "start"
    /\ \/ /\ waitingDisk = <<>>
          /\ pump' = "idle"
          /\ pollTimer' = FALSE
       \/ /\ waitingDisk # <<>>
          /\ \E ok \in FsOutcomes :
                pump' = IF probeAdmissionFreeBytes(ok) < 0 THEN "idle" ELSE "loop"
          /\ UNCHANGED pollTimer
    /\ UNCHANGED <<config, disk, counters, st, want, reservation, waitingDisk, handOffs,
                   eviction, shuttingDown, todo, call>>

headFits ==
    LET w == want[Head(waitingDisk)] IN
    admissible(w.bytes, w.counts, probeAdmissionFreeBytes(TRUE))

PumpGrant ==
    /\ pump = "loop"
    /\ waitingDisk # <<>>
    /\ headFits
    /\ LET r == Head(waitingDisk) IN createReservation(r, want[r].bytes, want[r].counts)
    /\ waitingDisk' = Tail(waitingDisk)
    /\ UNCHANGED <<config, disk, handOffs, pollTimer, eviction, shuttingDown, control>>

\* requestEviction, throttled and never twice at a time
requestEviction ==
    IF evictionInFlight \/ evictionRecent
    THEN UNCHANGED eviction
    ELSE /\ evictionInFlight' = TRUE
         /\ evictionRecent' = TRUE
         /\ UNCHANGED evictionFreed

\* mutant: the poll stops with the pump
PumpBlockedStopsPoll ==
    /\ pump = "loop"
    /\ waitingDisk # <<>>
    /\ ~headFits
    /\ requestEviction
    /\ pump' = "idle"
    /\ pollTimer' = FALSE
    /\ UNCHANGED <<config, disk, counters, st, want, reservation, waitingDisk, handOffs,
                   shuttingDown, todo, call>>

\* The head does not fit: nobody behind it is tried.
PumpBlocked ==
    /\ pump = "loop"
    /\ waitingDisk # <<>>
    /\ ~headFits
    /\ requestEviction
    /\ pump' = "idle"
    /\ UNCHANGED <<config, disk, counters, st, want, reservation, waitingDisk, handOffs,
                   pollTimer, shuttingDown, todo, call>>

PumpEmpty ==
    /\ pump = "loop"
    /\ waitingDisk = <<>>
    /\ pump' = "idle"
    /\ pollTimer' = FALSE
    /\ UNCHANGED <<config, disk, counters, st, want, reservation, waitingDisk, handOffs,
                   eviction, shuttingDown, todo, call>>

----------------------------------------------------------------------------
\* Eviction: evictForWaitingTasks, evictLRU

\* One published file of n bytes goes; evictLRU stops when it has freed the target.
EvictOne(n) ==
    /\ Quiet
    /\ evictionInFlight
    /\ evictionFreed < config.minFreeBytes
    /\ published[n] > 0
    /\ published' = [published EXCEPT ![n] = @ - 1]
    /\ committedBytes' = AtLeastZero(committedBytes - n)
    /\ free' = free + n
    /\ evictionFreed' = evictionFreed + n
    /\ UNCHANGED <<config, dirty, written, counters, st, want, reservation, waitingDisk,
                   handOffs, pollTimer, evictionInFlight, evictionRecent, shuttingDown,
                   control>>

\* The hook settles, whether or not every unlink succeeded.
EvictionDone ==
    /\ Quiet
    /\ evictionInFlight
    /\ evictionInFlight' = FALSE
    /\ evictionFreed' = 0
    /\ pump' = "start"
    /\ UNCHANGED <<config, disk, counters, st, want, reservation, waitingDisk, handOffs,
                   pollTimer, evictionRecent, shuttingDown, todo, call>>

\* EVICTION_THROTTLE_MS have passed
EvictionCooldown ==
    /\ Quiet
    /\ evictionRecent
    /\ evictionRecent' = FALSE
    /\ UNCHANGED <<config, disk, counters, st, want, reservation, waitingDisk, handOffs,
                   pollTimer, evictionInFlight, evictionFreed, shuttingDown, control>>

----------------------------------------------------------------------------
\* shutdown(): pooled reservations are released, each with a pump, before the
\* waiters are rejected.

Shutdown ==
    /\ Quiet
    /\ ~shuttingDown
    /\ shuttingDown' = TRUE
    /\ pollTimer' = FALSE
    /\ todo' = {r \in Request : st[r] = "pooled"}
    /\ pool' = [k \in Key |-> None]
    /\ poolExpired' = [k \in Key |-> FALSE]
    /\ call' = [op |-> "shutdown", id |-> None]
    /\ UNCHANGED <<config, disk, counters, st, want, reservation, waitingDisk, eviction,
                   pump>>

ShutdownRejects ==
    /\ todo = {} /\ pump = "idle"
    /\ call.op = "shutdown"
    /\ st' = [r \in Request |-> IF st[r] = "waiting" THEN "idle" ELSE st[r]]
    /\ want' = [r \in Request |-> IF st[r] = "waiting" THEN NoWant ELSE want[r]]
    /\ waitingDisk' = <<>>
    /\ call' = NoCall
    /\ UNCHANGED <<config, disk, counters, reservation, handOffs, pollTimer, eviction,
                   shuttingDown, todo, pump>>

----------------------------------------------------------------------------
Next ==
    \/ \E r \in Request, bytes \in Bytes : \E counts \in CountsOf[KeyOf[r]] :
          \/ \E op \in {"reserve", "try"} :
                Ask(op, r, bytes, counts) \/ AskStale(op, r, bytes, counts)
          \/ Adopt(r, bytes, counts)
    \/ AskResume
    \/ \E r \in Request :
          \/ HandOff(r) \/ ReleaseTodo(r)
          \/ Write(r) \/ Consume(r) \/ Publish(r) \/ Unlink(r) \/ Release(r)
    \/ \E k \in Key : PoolEntryExpires(k)
    \/ Purge
    \/ \E i \in DOMAIN waitingDisk : WaiterGone(i)
    \/ Poll
    \/ \E c \in Configs : configure(c)
    \/ PumpStart \/ PumpGrant \/ PumpBlocked \/ PumpEmpty
    \/ \E n \in Bytes : EvictOne(n)
    \/ EvictionDone \/ EvictionCooldown
    \/ OutsideUse
    \/ Shutdown \/ ShutdownRejects

Spec == Init /\ [][Next]_vars

\* What the code schedules: a handler that has started runs to its end; the
\* interval timers fire again and again, whatever other handlers run between.
FairSpec ==
    /\ Spec
    /\ WF_vars(AskResume)
    /\ \A r \in Request : WF_vars(ReleaseTodo(r))
    /\ WF_vars(PumpStart) /\ WF_vars(PumpGrant) /\ WF_vars(PumpBlocked) /\ WF_vars(PumpEmpty)
    /\ WF_vars(ShutdownRejects)
    /\ SF_vars(Poll)
    /\ \A k \in Key : SF_vars(PoolEntryExpires(k))
    /\ SF_vars(Purge)

----------------------------------------------------------------------------
\* Properties

Reserved == {r \in Request : st[r] \in {"held", "ending", "pooled"}}

\* Every variable has its type; the counters never go below zero.
TypeOK ==
    /\ config \in Configs
    /\ free \in Nat
    /\ published \in [Bytes -> Nat]
    /\ committedBytes \in Nat
    /\ reservedPendingBytes \in Nat
    /\ cacheReservedBytes \in Nat
    /\ st \in [Request ->
               {"idle", "waiting", "held", "ending", "pooled", "direct", "unprobed"}]
    /\ want \in [Request -> [bytes : Nat, counts : BOOLEAN]]
    /\ grantedBytes \in [Request -> Nat]
    /\ remainingBytes \in [Request -> Nat]
    /\ countsTowardCache \in [Request -> BOOLEAN]
    /\ dirty \in [Request -> Nat]
    /\ written \in [Request -> Nat]
    /\ waitingDisk \in Seq(Request)
    /\ pool \in [Key -> Request \cup {None}]
    /\ poolExpired \in [Key -> BOOLEAN]
    /\ pollTimer \in BOOLEAN
    /\ evictionInFlight \in BOOLEAN
    /\ evictionRecent \in BOOLEAN
    /\ evictionFreed \in Nat
    /\ shuttingDown \in BOOLEAN
    /\ todo \in SUBSET Request
    /\ pump \in {"idle", "start", "loop"}
    /\ call \in [op : {"none", "reserve", "try", "shutdown"}, id : Request \cup {None}]

\* One element for every byte of f summed over the callers
Units(f) == UNION {{r} \X (1..f[r]) : r \in Request}
counted == [r \in Request |-> IF countsTowardCache[r] THEN grantedBytes[r] ELSE 0]

\* The two counters are exactly the live reservations' unwritten bytes and the
\* granted bytes of those that count toward the cache, after any mix of writes,
\* adoptions, expiries and releases (createReservation, consumeReservation,
\* releaseReservation keep them incrementally and clamp at zero).
AccountingExact ==
    /\ reservedPendingBytes = Cardinality(Units(remainingBytes))
    /\ cacheReservedBytes = Cardinality(Units(counted))

\* A reservation has one owner: its caller, one pool entry under the caller's own
\* key, or the release the running handler has still to make.  None is dropped
\* from the pool without a release (handOffToSession, takeHandedOffReservation,
\* purgeExpiredHandOffs, shutdown).
PoolOwnsItsEntries ==
    /\ \A k \in Key : pool[k] # None =>
          st[pool[k]] = "pooled" /\ KeyOf[pool[k]] = k /\ pool[k] \notin todo
    /\ \A r \in Request : st[r] = "pooled" => pool[KeyOf[r]] = r \/ r \in todo
    /\ \A r \in todo : st[r] = "pooled"
    /\ \A r \in Request : r \notin Reserved => grantedBytes[r] = 0

\* The disk queue lists each waiting caller once and nobody else (enqueueDisk,
\* removeDiskWaiter, pumpDisk, shutdown).
QueueIsWaiters ==
    /\ \A i, j \in DOMAIN waitingDisk : waitingDisk[i] = waitingDisk[j] => i = j
    /\ \A r \in Request : st[r] = "waiting" <=> \E i \in DOMAIN waitingDisk : waitingDisk[i] = r

\* The state is well formed: every variable has its type, and a caller waits if and
\* only if it is in the queue, once, so that it is settled once.
WellFormed == TypeOK /\ QueueIsWaiters

\* While somebody waits and no handler runs the poll timer is armed: pumpDisk stops
\* it only with an empty queue and every path into the queue arms it.
PollArmed == Quiet /\ waitingDisk # <<>> => pollTimer

\* What each caller may still write
StillToWrite ==
    [r \in Request |-> IF st[r] = "ending" THEN 0 ELSE remainingBytes[r] - dirty[r]]

\* All that reservations may still write fits above the safety floor and the
\* neighbour's reserve, through every write, publication, failed unlink and release
\* (with no other program on the volume and a fixed configuration).
HeadroomKept ==
    Cardinality(Units(StillToWrite))
        <= AtLeastZero(free - config.volumePeerReserveBytes - config.minFreeBytes)

\* What each caller may still publish
Unpublished ==
    [r \in Request |-> IF st[r] = "ending" THEN 0 ELSE counted[r]]

\* Published files and the counted builds that are still to be published stay
\* within the cache's limit (evaluateGrant, registerCache before release; with a
\* fixed configuration).
CacheWithinLimit ==
    committedBytes + Cardinality(Units(Unpublished)) <= config.maxBytes

\* A reservation handed to a session is adopted or given back, not kept forever
\* (HANDOFF_TTL_MS and the sweep timer), until the sweep stops at shutdown.
HandOffEnds ==
    \A r \in Request : st[r] = "pooled" ~> st[r] # "pooled" \/ shuttingDown

\* The head of the queue does not wait forever with room for it: space that comes
\* back unannounced is found by the poll (ensurePollTimer).
HeadWithRoomLeaves ==
    \A r \in Request :
        []<>~(waitingDisk # <<>> /\ Head(waitingDisk) = r /\ headFits)
=============================================================================
