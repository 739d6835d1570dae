--------------------------- MODULE CacheSessions ---------------------------
(***************************************************************************)
(* Cold downloads of one file: build and spool sessions, their followers,  *)
(* the published cache file and its invalidation                           *)
(* (backend/src/file/cache-session-coordinator.ts, file-cache.service.ts,  *)
(* the overwrite in file.service.ts).                                      *)
(*                                                                         *)
(* A request reads the file's metadata, then serves from the cache or      *)
(* joins or starts a session that fetches the content of the version it    *)
(* has read.  A build session writes to a temporary file and renames it    *)
(* to the cache path; a spool session's file is only replayed.  Handlers   *)
(* run one at a time; a step here ends where the code awaits the disk,     *)
(* Telegram, a lock, an event or a timer.  The content of a file is        *)
(* represented by the version it belongs to.                               *)
(***************************************************************************)
EXTENDS Integers, Sequences, FiniteSets, SequencesExt

CONSTANTS
    Request,     \* requests for the file; an id is used again when over
    Session,     \* bound: sessions that exist at a time
    NoSession,
    SizeOf,      \* the size of each version, in chunks
    Modes        \* the entry points each request may use: "full", "range", "nocache"

Versions == DOMAIN SizeOf

ASSUME SessionAssumption == NoSession \notin Session /\ IsFiniteSet(Session)
ASSUME SizeAssumption == SizeOf \in Seq(Nat \ {0}) /\ SizeOf # <<>>
ASSUME ModesAssumption == Modes \in [Request -> SUBSET {"full", "range", "nocache"}]

VARIABLES
    version,    \* uploadVersion of the file's row
    cache,      \* the version whose content is at the cache path, 0 if none
    build,      \* buildSessions.get(fileId)
    spool,      \* spoolSessions.get(fileId)
    ses,        \* the sessions
    locks,      \* sessionLocks: per version for builds, at 0 for spools; the head holds it
    req,        \* the requests
    listening,  \* requests waiting for an event of their session
    leases,     \* leases granted by the resource coordinator and not released
    inv,        \* the running invalidate(), and the session it waits for
    raced       \* history: a build got past an invalidation (see CacheCurrent)

vars == <<version, cache, build, spool, ses, locks, req, listening, leases, inv, raced>>

Keys == {0} \cup Versions
OverRequest == [pc |-> "over", mode |-> "full", want |-> 1, on |-> NoSession, off |-> 0]
GoneSession == [kind |-> "build", ver |-> 1, st |-> "gone", bytes |-> 0, err |-> FALSE,
                done |-> FALSE, file |-> FALSE]

Init ==
    /\ version = 1 /\ cache = 0
    /\ build = NoSession /\ spool = NoSession
    /\ ses = [s \in Session |-> GoneSession]
    /\ locks = [k \in Keys |-> <<>>]
    /\ req = [r \in Request |-> OverRequest]
    /\ listening = {} /\ leases = 0
    /\ inv = [pc |-> "idle", target |-> NoSession]
    /\ raced = FALSE

\* invalidatingFileIds.has(fileId)
Fence == inv.pc \notin {"idle", "owed"}
Running == {s \in Session : ses[s].st \notin {"ended", "gone"}}
Followers(s) == {r \in Request : req[r].on = s /\ req[r].pc = "stream"}
Awake(S) == {r \in listening : req[r].on \notin S}
Free == {s \in Session : ses[s] = GoneSession}
\* A session that is over is forgotten with the last reference to it.
Collect(f) == [s \in Session |-> IF /\ f[s].st = "gone" /\ s \notin {build', spool', inv'.target}
                                    /\ \A r \in Request : req'[r].on # s
                                 THEN GoneSession ELSE f[s]]
Unlock(r) == [k \in Keys |-> RemoveFirst(locks[k], r)]
Holds(r, k) == locks[k] # <<>> /\ Head(locks[k]) = r

\* session.abort(): ignored once the session has failed or completed.
Abort(S) == [s \in Session |-> IF s \in S /\ ~ses[s].done THEN [ses[s] EXCEPT !.err = TRUE] ELSE ses[s]]
\* teardownSpoolSession(): out of the map, failed, its file removed.
TornDown(s) == [ses EXCEPT ![s].err = TRUE, ![s].file = FALSE]
NewSession(k, v) == [kind |-> k, ver |-> v, st |-> "new", bytes |-> 0, err |-> FALSE,
                     done |-> FALSE, file |-> FALSE]

\* A cached file is matched by its size, a range not even by that.
Hit(r) == cache # 0 /\ (req[r].mode = "range" \/ SizeOf[cache] = SizeOf[req[r].want])
\* getCachedReadStream() removes a file of another size.
CacheAfterLookup(r) == IF Hit(r) THEN cache ELSE IF req[r].mode = "range" THEN cache ELSE 0
BuildFor(r) == build # NoSession /\ ses[build].ver = req[r].want

At(r, p) == req[r].pc = p
Moves(r, p) == [req EXCEPT ![r].pc = p]
MovesOn(r, p, s) == [req EXCEPT ![r].pc = p, ![r].on = s]
\* A follower needs its session and its offset only.
Follows(r, s) == [req EXCEPT ![r] = [OverRequest EXCEPT !.pc = "stream", !.on = s]]
Ends(r) == [req EXCEPT ![r] = OverRequest]
Leaves(r) == req' = Ends(r) /\ locks' = Unlock(r) /\ listening' = listening \ {r}

----------------------------------------------------------------------------
(* Requests.                                                               *)

\* The handler reads the file's row; what it does next has this version.
ReadMetadata(r) ==
    /\ At(r, "over")
    /\ \E m \in Modes[r] : req' = [req EXCEPT ![r] = [OverRequest EXCEPT !.pc = "meta", !.mode = m, !.want = version]]
    /\ UNCHANGED <<version, cache, build, spool, ses, locks, listening, leases, inv, raced>>

Refuse(r) ==
    /\ Leaves(r)
    /\ UNCHANGED <<version, cache, build, spool, leases, inv, raced>>
    /\ ses' = Collect(ses)

\* Joins the queue of a session lock, at the fence's entry check.
Queue(r, k, p) ==
    /\ req' = [req EXCEPT ![r].pc = p, ![r].on = NoSession]
    /\ locks' = [locks EXCEPT ![k] = Append(@, r)]
    /\ UNCHANGED listening

\* getOrCacheStream(), getOrCacheRangeStream() and getNoCacheStream() up to
\* their first await.
Enter(r) ==
    /\ At(r, "meta") /\ ~Fence
    /\ \/ /\ req[r].mode = "nocache"
          /\ IF build = NoSession
             THEN Queue(r, 0, "slock") /\ UNCHANGED ses
             ELSE /\ ses' = Abort({build}) /\ listening' = Awake({build})
                  /\ req' = MovesOn(r, "abort", build) /\ UNCHANGED locks
          /\ UNCHANGED cache
       \/ /\ req[r].mode # "nocache" /\ cache' = CacheAfterLookup(r)
          /\ \/ Hit(r) /\ req' = Ends(r) /\ UNCHANGED <<locks, listening>>
             \/ /\ ~Hit(r) /\ req[r].mode = "range" /\ BuildFor(r)
                /\ req' = Follows(r, build) /\ UNCHANGED <<locks, listening>>
             \/ /\ ~Hit(r) /\ ~(req[r].mode = "range" /\ BuildFor(r))
                /\ Queue(r, req[r].want, "lock")
          /\ UNCHANGED ses
    /\ UNCHANGED <<version, build, spool, leases, inv, raced>>

EnterRefused(r) == At(r, "meta") /\ (Fence) /\ Refuse(r)

\* abortBuildSession() of a no-cache request: completion or five seconds,
\* then getSpooledStream().
AbortSettled(r) ==
    /\ At(r, "abort") /\ ~Fence
    /\ Queue(r, 0, "slock")
    /\ UNCHANGED <<version, cache, build, spool, leases, inv, raced>>
    /\ ses' = Collect(ses)

AbortRefused(r) == At(r, "abort") /\ Fence /\ Refuse(r)

\* The lock is held: startOrJoinBuildSession() looks again, then prepares capacity.
Locked(r) ==
    /\ At(r, "lock") /\ Holds(r, req[r].want) /\ ~Fence
    /\ cache' = CacheAfterLookup(r)
    /\ \/ Hit(r) /\ req' = Ends(r) /\ locks' = Unlock(r)
       \/ /\ ~Hit(r) /\ BuildFor(r)
          /\ \/ req[r].mode = "full" /\ req' = MovesOn(r, "readable", build) /\ UNCHANGED locks
             \/ req[r].mode = "range" /\ req' = Follows(r, build) /\ locks' = Unlock(r)
       \/ ~Hit(r) /\ ~BuildFor(r) /\ req' = Moves(r, "admit") /\ UNCHANGED locks
    /\ UNCHANGED <<version, build, spool, ses, listening, leases, inv, raced>>

LockRefused(r) ==
    /\ Fence /\ \/ At(r, "lock") /\ Holds(r, req[r].want)
                \/ At(r, "slock") /\ Holds(r, 0)
    /\ Refuse(r)

\* A failed wait for resources, or the fence's abort of it; also a spool too
\* large for the disk: getDirectStream() relays it without a session.
AdmitRefused(r) == req[r].pc \in {"admit", "sadmit"} /\ Refuse(r)

\* prepareCacheCapacity() or the reservation finds the file too large: a spool
\* instead of a build.
AdmitTooLarge(r) ==
    /\ At(r, "admit") /\ ~Fence
    /\ Queue(r, 0, "slock")
    /\ UNCHANGED <<version, cache, build, spool, ses, leases, inv, raced>>

\* mutant: the session of another version is replaced but not aborted.
AdmitBuildKeepsOld(r) ==
    /\ At(r, "admit") /\ ~Fence /\ ~BuildFor(r)
    /\ \E s \in Free : LET v == req[r].want IN
       /\ ses' = [ses EXCEPT ![s] = NewSession("build", v)]
       /\ build' = s
       /\ leases' = leases + 1
       /\ listening' = Awake({build})
       /\ \/ req[r].mode = "full" /\ req' = MovesOn(r, "readable", s) /\ UNCHANGED locks
          \/ req[r].mode = "range" /\ req' = Follows(r, s) /\ locks' = Unlock(r)
       /\ raced' = \/ raced
                   \/ v < version /\ inv.pc = "idle"
                   \/ build # NoSession /\ ses[build].st = "check"
    /\ UNCHANGED <<version, cache, spool, inv>>

\* acquireSessionResources() succeeded and getOrCreateBuildSession() runs: a
\* session of another version is aborted and replaced, whichever is newer.
AdmitBuild(r) ==
    /\ At(r, "admit") /\ ~Fence /\ ~BuildFor(r)
    /\ \E s \in Free : LET v == req[r].want IN
       /\ ses' = [Abort({build}) EXCEPT ![s] = NewSession("build", v)]
       /\ build' = s
       /\ leases' = leases + 1
       /\ listening' = Awake({build})
       /\ \/ req[r].mode = "full" /\ req' = MovesOn(r, "readable", s) /\ UNCHANGED locks
          \/ req[r].mode = "range" /\ req' = Follows(r, s) /\ locks' = Unlock(r)
       /\ raced' = \/ raced
                   \/ v < version /\ inv.pc = "idle"
                   \/ build # NoSession /\ ses[build].st = "check"
    /\ UNCHANGED <<version, cache, spool, inv>>

\* waitForSessionReadable(), with the session lock still held.
Readable(r) ==
    /\ At(r, "readable") /\ r \notin listening
    /\ LET s == ses[req[r].on] IN
       \/ s.err /\ Leaves(r)
       \/ /\ ~s.err /\ (s.bytes > 0 \/ s.done)
          /\ req' = Follows(r, req[r].on) /\ locks' = Unlock(r) /\ UNCHANGED listening
       \/ ~s.err /\ s.bytes = 0 /\ ~s.done /\ listening' = listening \cup {r} /\ UNCHANGED <<req, locks>>
    /\ UNCHANGED <<version, cache, build, spool, leases, inv, raced>>
    /\ ses' = Collect(ses)

\* mutant: teardown removes the listeners without waking them.
SpoolReplacedSilently(r) ==
    /\ At(r, "slock") /\ Holds(r, 0) /\ ~Fence
    /\ \/ spool = NoSession /\ req' = Moves(r, "sadmit") /\ UNCHANGED <<ses, spool, listening>>
       \/ /\ spool # NoSession /\ (ses[spool].err \/ ses[spool].ver # req[r].want)
          /\ UNCHANGED listening /\ spool' = NoSession
          /\ req' = Moves(r, "sadmit")
          /\ UNCHANGED <<build, inv>> /\ ses' = Collect(TornDown(spool))
       \/ /\ spool # NoSession /\ ~ses[spool].err /\ ses[spool].ver = req[r].want
          /\ req' = MovesOn(r, "sstat", spool) /\ UNCHANGED <<ses, spool, listening>>
    /\ UNCHANGED <<version, cache, build, locks, leases, inv, raced>>

\* getSpooledStream() under its lock: a session that failed or has another
\* version is torn down at once, any other is looked at on disk first.
SpoolLocked(r) ==
    /\ At(r, "slock") /\ Holds(r, 0) /\ ~Fence
    /\ \/ spool = NoSession /\ req' = Moves(r, "sadmit") /\ UNCHANGED <<ses, spool, listening>>
       \/ /\ spool # NoSession /\ (ses[spool].err \/ ses[spool].ver # req[r].want)
          /\ listening' = Awake({spool}) /\ spool' = NoSession
          /\ req' = Moves(r, "sadmit")
          /\ UNCHANGED <<build, inv>> /\ ses' = Collect(TornDown(spool))
       \/ /\ spool # NoSession /\ ~ses[spool].err /\ ses[spool].ver = req[r].want
          /\ req' = MovesOn(r, "sstat", spool) /\ UNCHANGED <<ses, spool, listening>>
    /\ UNCHANGED <<version, cache, build, locks, leases, inv, raced>>

\* isReusableSpoolSession() has its stat(); the session may be gone by now.
SpoolStat(r) ==
    /\ At(r, "sstat")
    /\ LET s == req[r].on IN
       \/ /\ ses[s].file \/ ses[s].st = "new"
          /\ req' = Follows(r, req[r].on) /\ locks' = Unlock(r)
          /\ UNCHANGED <<ses, spool, listening>>
       \/ /\ ~ses[s].file /\ ses[s].st # "new"
          /\ listening' = Awake({s})
          /\ spool' = IF spool = s THEN NoSession ELSE spool
          /\ req' = MovesOn(r, "sadmit", NoSession) /\ UNCHANGED <<build, inv, locks>>
          /\ ses' = Collect(TornDown(s))
    /\ UNCHANGED <<version, cache, build, leases, inv, raced>>

\* getOrCreateSpoolSession(); under the lock no other spool can have appeared.
AdmitSpool(r) ==
    /\ At(r, "sadmit") /\ ~Fence
    /\ \E s \in Free :
       /\ ses' = [ses EXCEPT ![s] = NewSession("spool", req[r].want)]
       /\ spool' = s
       /\ req' = Follows(r, s)
    /\ leases' = leases + 1
    /\ locks' = Unlock(r)
    /\ UNCHANGED <<version, cache, build, listening, inv, raced>>

\* What a follower finds at the path it opens for its next chunk: the session's
\* own file until a build completes, then whatever is at the cache path.
ReadsFrom(s) == IF ses[s].kind = "build" /\ ses[s].done THEN cache
                ELSE IF ses[s].file THEN ses[s].ver ELSE 0

\* One turn of pump() in createFollowerReadable().
Pump(r) ==
    /\ At(r, "stream") /\ r \notin listening
    /\ LET s == req[r].on
           from == ReadsFrom(s)
           off == req[r].off
           more == off < SizeOf[ses[s].ver] IN
       \/ (ses[s].err \/ ~more) /\ Leaves(r)
       \/ ~ses[s].err /\ off < ses[s].bytes /\ from = 0 /\ Leaves(r)
       \/ /\ ~ses[s].err /\ off < ses[s].bytes /\ from # 0 /\ off < SizeOf[from]
          /\ req' = [req EXCEPT ![r].off = off + 1]
          /\ UNCHANGED <<listening, locks>>
       \/ /\ ~ses[s].err /\ more /\ off >= ses[s].bytes /\ ~ses[s].done
          /\ listening' = listening \cup {r} /\ UNCHANGED <<req, locks>>
    /\ UNCHANGED <<version, cache, build, spool, leases, inv, raced>>
    /\ ses' = Collect(ses)

\* The client goes away; waiterAbort ends the wait.
Disconnect(r) == At(r, "stream") /\ Refuse(r)

----------------------------------------------------------------------------
(* Sessions: runBuildSession() and runSpoolSession().                      *)

CreateFile(s) ==
    /\ ses[s].st = "new"
    /\ ses' = [ses EXCEPT ![s].st = "fetch", ![s].file = TRUE]
    /\ UNCHANGED <<version, cache, build, spool, locks, req, listening, leases, inv, raced>>

\* mutant: the early return of a torn-down spool keeps its lease.
FetchedKeepsLease(s) ==
    /\ ses[s].st = "fetch"
    /\ UNCHANGED <<version, cache, build, spool, locks, req, listening, inv, raced>>
    /\ IF ses[s].kind = "spool" /\ spool # s
       THEN ses' = Collect([ses EXCEPT ![s].st = "gone"]) /\ UNCHANGED leases
       ELSE ses' = [ses EXCEPT ![s].st = "copy"] /\ UNCHANGED leases

\* The upstream answered.  A spool that was torn down meanwhile just returns.
Fetched(s) ==
    /\ ses[s].st = "fetch"
    /\ UNCHANGED <<version, cache, build, spool, locks, req, listening, inv, raced>>
    /\ IF ses[s].kind = "spool" /\ spool # s
       THEN ses' = Collect([ses EXCEPT ![s].st = "gone"]) /\ leases' = leases - 1
       ELSE ses' = [ses EXCEPT ![s].st = "copy"] /\ UNCHANGED leases

\* mutant: 'progress' is not emitted.
ChunkIsSilent(s) ==
    /\ ses[s].st = "copy" /\ ~ses[s].err /\ ses[s].bytes < SizeOf[ses[s].ver]
    /\ ses' = [ses EXCEPT ![s].bytes = @ + 1]
    /\ UNCHANGED <<version, cache, build, spool, locks, req, listening, leases, inv, raced>>

Chunk(s) ==
    /\ ses[s].st = "copy" /\ ~ses[s].err /\ ses[s].bytes < SizeOf[ses[s].ver]
    /\ ses' = [ses EXCEPT ![s].bytes = @ + 1]
    /\ listening' = Awake({s})
    /\ UNCHANGED <<version, cache, build, spool, locks, req, leases, inv, raced>>

\* The disk, the upstream or a timer fails, or the loop sees the abort: catch.
Fails(s) ==
    /\ ses[s].st \in {"new", "fetch", "copy"}
    /\ ses' = [ses EXCEPT ![s].err = TRUE, ![s].st = "clean"]
    /\ UNCHANGED <<version, cache, build, spool, locks, req, listening, leases, inv, raced>>

\* The last look at session.error, before stat() and rename().
Check(s) ==
    /\ ses[s].st = "copy" /\ ~ses[s].err /\ ses[s].bytes = SizeOf[ses[s].ver]
    /\ ses' = [ses EXCEPT ![s].st = "check"]
    /\ UNCHANGED <<version, cache, build, spool, locks, req, listening, leases, inv, raced>>

\* The rename is done (or there is nothing left to rename) and the
\* continuation completes the session.
Publish(s) ==
    /\ ses[s].st = "check"
    /\ UNCHANGED <<version, build, spool, locks, req, inv, raced>>
    /\ \/ /\ ses[s].file /\ ses[s].kind = "build"
          /\ ses' = [ses EXCEPT ![s].done = TRUE, ![s].file = FALSE, ![s].st = "ended"]
          /\ cache' = ses[s].ver
          /\ leases' = leases - 1 /\ listening' = Awake({s})
       \/ /\ ses[s].file /\ ses[s].kind = "spool"
          /\ ses' = Collect([ses EXCEPT ![s].done = TRUE, ![s].st = "gone"])
          /\ leases' = leases - 1 /\ listening' = Awake({s}) /\ UNCHANGED cache
       \/ /\ ~ses[s].file
          /\ ses' = [ses EXCEPT ![s].err = TRUE, ![s].st = "clean"]
          /\ UNCHANGED <<cache, leases, listening>>

\* mutant: 'failed' is not emitted.
CleanIsSilent(s) ==
    /\ ses[s].st = "clean"
    /\ spool' = IF spool = s THEN NoSession ELSE spool
    /\ leases' = leases - 1 /\ UNCHANGED listening
    /\ UNCHANGED <<version, cache, build, locks, req, inv, raced>>
    /\ ses' = Collect([ses EXCEPT ![s].file = FALSE,
                                  ![s].st = IF ses[s].kind = "build" THEN "ended" ELSE "gone"])

\* The rest of catch and finally: unlink, 'failed', the lease.
Clean(s) ==
    /\ ses[s].st = "clean"
    /\ spool' = IF spool = s THEN NoSession ELSE spool
    /\ leases' = leases - 1 /\ listening' = Awake({s})
    /\ UNCHANGED <<version, cache, build, locks, req, inv, raced>>
    /\ ses' = Collect([ses EXCEPT ![s].file = FALSE,
                                  ![s].st = IF ses[s].kind = "build" THEN "ended" ELSE "gone"])

\* setImmediate(): a build leaves the map.
Drop(s) ==
    /\ ses[s].st = "ended"
    /\ build' = IF build = s THEN NoSession ELSE build
    /\ UNCHANGED <<version, cache, spool, locks, req, listening, leases, inv, raced>>
    /\ ses' = Collect([ses EXCEPT ![s].st = "gone"])

\* The grace timer set when the last follower of a spool has closed.
Grace ==
    /\ spool # NoSession /\ Followers(spool) = {} /\ ~ses[spool].err
    /\ spool' = NoSession /\ listening' = Awake({spool})
    /\ UNCHANGED <<version, cache, build, locks, req, leases, inv, raced>>
    /\ ses' = Collect(TornDown(spool))

\* evictLRU() and the clean-up by age take the cache file at any time.
Evict ==
    /\ cache # 0 /\ cache' = 0
    /\ UNCHANGED <<version, build, spool, ses, locks, req, listening, leases, inv, raced>>

----------------------------------------------------------------------------
(* Invalidation.                                                           *)

\* An overwrite commits the new version and calls invalidate().
Overwrite ==
    /\ inv.pc = "idle" /\ version < Len(SizeOf)
    /\ version' = version + 1
    /\ inv' = [inv EXCEPT !.pc = "owed"]
    /\ UNCHANGED <<cache, build, spool, ses, locks, req, listening, leases, raced>>

\* withFileInvalidation(): the fence goes up and the registered build is aborted.
RaiseFence ==
    /\ inv.pc = "owed"
    /\ inv' = [pc |-> "settle", target |-> build]
    /\ ses' = Abort({build}) /\ listening' = Awake({build})
    /\ UNCHANGED <<version, cache, build, spool, locks, req, leases, raced>>

TearDownSpool ==
    /\ inv' = [pc |-> "drain", target |-> NoSession]
    /\ UNCHANGED <<version, cache, build, locks, req, leases>>
    /\ spool' = NoSession /\ listening' = Awake({spool})
    /\ ses' = Collect(IF spool = NoSession THEN ses ELSE TornDown(spool))

\* mutant: invalidate() does not wait for the build it aborted.
BuildNotAwaited ==
    /\ inv.pc = "settle"
    /\ TearDownSpool /\ UNCHANGED raced

\* The aborted build has ended and left the map; then the spool goes.
BuildSettled ==
    /\ inv.pc = "settle" /\ (inv.target # NoSession => ses[inv.target].st = "gone")
    /\ TearDownSpool /\ UNCHANGED raced

\* Five seconds are over first.
FiveSeconds ==
    /\ inv.pc = "settle" /\ inv.target # NoSession /\ ses[inv.target].st # "gone"
    /\ TearDownSpool /\ raced' = TRUE

\* All session locks of the file have been given back.
Drained ==
    /\ inv.pc = "drain" /\ \A k \in Keys : locks[k] = <<>>
    /\ inv' = [inv EXCEPT !.pc = "unlink"]
    /\ UNCHANGED <<version, cache, build, spool, ses, locks, req, listening, leases, raced>>

\* unlinkAllCacheFiles() is skipped when a session is still registered.
UnlinkCache ==
    /\ inv.pc = "unlink"
    /\ \/ /\ build = NoSession /\ spool = NoSession
          /\ cache' = 0 /\ inv' = [inv EXCEPT !.pc = "temps"]
       \/ /\ ~(build = NoSession /\ spool = NoSession)
          /\ inv' = [inv EXCEPT !.pc = "idle"] /\ UNCHANGED cache
    /\ UNCHANGED <<version, build, spool, ses, locks, req, listening, leases, raced>>

\* removeTempSiblings(): every temporary file of the file id; the fence falls.
UnlinkTemps ==
    /\ inv.pc = "temps"
    /\ ses' = [s \in Session |-> [ses[s] EXCEPT !.file = FALSE]]
    /\ inv' = [inv EXCEPT !.pc = "idle"]
    /\ UNCHANGED <<version, cache, build, spool, locks, req, listening, leases, raced>>

----------------------------------------------------------------------------
RequestStep(r) ==
    \/ Enter(r) \/ EnterRefused(r) \/ AbortSettled(r) \/ AbortRefused(r)
    \/ Locked(r) \/ LockRefused(r) \/ AdmitRefused(r) \/ AdmitTooLarge(r)
    \/ AdmitBuild(r) \/ Readable(r) \/ SpoolLocked(r) \/ SpoolStat(r) \/ AdmitSpool(r)
    \/ Pump(r)
SessionStep(s) ==
    \/ CreateFile(s) \/ Fetched(s) \/ Chunk(s) \/ Fails(s) \/ Check(s) \/ Publish(s)
    \/ Clean(s) \/ Drop(s)
InvalidationStep ==
    \/ RaiseFence \/ BuildSettled \/ FiveSeconds \/ Drained \/ UnlinkCache \/ UnlinkTemps

Next ==
    \/ \E r \in Request : ReadMetadata(r) \/ RequestStep(r) \/ Disconnect(r)
    \/ \E s \in Session : SessionStep(s)
    \/ InvalidationStep
    \/ Grace \/ Evict \/ Overwrite

Spec == Init /\ [][Next]_vars

\* Promises, timers and the disk answer.  Resource waits, fetches and transfers
\* have timeouts; a follower's client reads on or goes away.
Fairness ==
    /\ \A r \in Request : WF_vars(RequestStep(r))
    /\ \A s \in Session : WF_vars(SessionStep(s))
    /\ WF_vars(InvalidationStep)
FairSpec == Spec /\ Fairness

----------------------------------------------------------------------------
(* Properties.                                                             *)

Pcs == {"over", "meta", "abort", "lock", "admit", "readable", "slock", "sstat",
        "sadmit", "stream"}

\* Every variable keeps its type.
TypeOK ==
    /\ version \in Versions /\ cache \in Keys
    /\ {build, spool} \subseteq Session \cup {NoSession}
    /\ ses \in [Session -> [kind : {"build", "spool"}, ver : Versions,
                            st : {"new", "fetch", "copy", "check", "clean", "ended", "gone"},
                            bytes : Nat, err : BOOLEAN, done : BOOLEAN, file : BOOLEAN]]
    /\ locks \in [Keys -> Seq(Request)]
    /\ req \in [Request -> [pc : Pcs, mode : {"full", "range", "nocache"}, want : Versions,
                            on : Session \cup {NoSession}, off : Nat]]
    /\ listening \subseteq Request /\ leases \in Nat
    /\ inv \in [pc : {"idle", "owed", "settle", "drain", "unlink", "temps"},
                target : Session \cup {NoSession}]
    /\ raced \in BOOLEAN

\* One live build per file: a build that is neither aborted nor over is the one
\* in buildSessions, whatever versions the requests came with.
LiveBuildIsRegistered ==
    \A s \in Running : ses[s].kind = "build" /\ ~ses[s].err => build = s

\* The leases granted to sessions are those of the running ones: none is lost or
\* released twice on any path out of a session.
LeasesOwned == leases = Cardinality(Running)

\* Once invalidate() has returned, what is at the cache path is the current
\* version, unless a build escaped it: one started afterwards with older metadata,
\* one that outlived the five seconds, or one replaced while it was publishing.
CacheCurrent == inv.pc = "idle" /\ cache # 0 /\ ~raced => cache = version

\* A build that has ended leaves no temporary file behind.
NoOrphanBuild ==
    \A s \in Session : ses[s].kind = "build" /\ ses[s].st \in {"ended", "gone"} => ~ses[s].file

\* The state is well formed: every variable has its type, and on every way out of a
\* session its lease was released once and a build's temporary file removed.
WellFormed == TypeOK /\ LeasesOwned /\ NoOrphanBuild

\* Nobody waits for an event that has already happened: a waiting request's
\* session is still running and has nothing for it.
NoMissedEvent ==
    \A r \in listening :
        /\ req[r].on \in Running
        /\ req[r].off >= ses[req[r].on].bytes

\* The fence of an invalidation falls: draining the session locks never waits
\* for a request that waits for the fence.
FenceFalls == Fence ~> ~Fence

\* A request that entered is served or refused, and a follower's stream ends.
RequestsEnd == \A r \in Request : (~At(r, "over")) ~> (At(r, "over"))
=============================================================================
