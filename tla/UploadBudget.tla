---------------------------- MODULE UploadBudget ----------------------------
(***************************************************************************)
(* Chunked uploads under the strict disk budget: ChunkUploadService        *)
(* (backend/src/file/chunk-upload.service.ts), UploadDiskBudgetService     *)
(* (backend/src/file/upload-disk-budget.service.ts), the upload worker     *)
(* (backend/src/jobs/file-upload.processor.ts) and the recovery of stale   *)
(* rows (backend/src/tasks/tasks.service.ts).                              *)
(*                                                                         *)
(* In strict mode one process-wide lease lets one whole file at a time     *)
(* occupy the temporary disk: first as the pieces of a session, then as    *)
(* the source of a queued job.  The lease is held by the session, handed   *)
(* to the job when the source is handed over, and given back by whoever    *)
(* removed the bytes.  It lives in memory; after a restart the rows of     *)
(* unfinished uploads stand in for it.                                     *)
(*                                                                         *)
(* One action is what runs between two awaits.  A session has several      *)
(* coroutines: the request that created it, a piece being received, the    *)
(* merge, an abort, the reclaimer.  Every session creates a new file, so   *)
(* the file, its row and its job are named by the session.                 *)
(***************************************************************************)
EXTENDS Naturals, FiniteSets

CONSTANTS
    Session,      \* upload ids, each used once
    MaxCrashes    \* bound on the restarts of the process

ASSUME CrashAssumption == MaxCrashes \in Nat

VARIABLES
    lease,     \* activeLease
    ses,       \* the ChunkSession of each upload id, and its coroutines
    dir,       \* the directory of pieces
    source,    \* the file in pending/, the worker's only source
    row,       \* the file's row: its status and stage
    job,       \* its job in the queue
    crashes

vars == <<lease, ses, dir, source, row, job, crashes>>

NoLease == [of |-> "nobody"]
SessionKey(s) == [of |-> "session", id |-> s]
JobKey(s) == [of |-> "job", id |-> s]

\* A session's fields.  admission: init() waiting for the two checks of
\* acquireSession; status: mergeStatus; registered: in the map `sessions`;
\* merge: where doMerge / finalizeMerge is; open: mergePromise is not settled;
\* aborted: the merge's signal; handed: handoffPath is set; timer:
\* scheduleCleanup is armed; abort and piece: the two requests on the session.
NewSession ==
    [admission |-> "none", status |-> "none", registered |-> FALSE,
     reclaiming |-> FALSE, merge |-> "off", open |-> FALSE, aborted |-> FALSE,
     handed |-> FALSE, timer |-> FALSE, abort |-> "none", piece |-> "none"]

Processing(s) == row[s] \in {"pending", "recoverable", "committed"}
InFlight(s) == ses[s].status \in {"merging", "uploading"}     \* isMergeInFlight
Active(s) == ses[s].status = "pending" \/ InFlight(s)         \* isActiveSession
Usable(s) == ses[s].registered /\ ~ses[s].reclaiming          \* getSession
Freed(key) == IF lease = key THEN NoLease ELSE lease          \* release

Init ==
    /\ lease = NoLease
    /\ ses = [s \in Session |-> NewSession]
    /\ dir = [s \in Session |-> "none"]
    /\ source = [s \in Session |-> FALSE]
    /\ row = [s \in Session |-> "none"]
    /\ job = [s \in Session |-> "none"]
    /\ crashes = 0

----------------------------------------------------------------------------
\* init(): admission

\* acquireSession up to the query for a processing row.  A busy lease refuses.
Admit(s) ==
    /\ ses[s] = NewSession
    /\ lease = NoLease
    /\ ses' = [ses EXCEPT ![s].admission = "asking"]
    /\ UNCHANGED <<lease, dir, source, row, job, crashes>>

\* The database answers.
Query(s) ==
    /\ ses[s].admission = "asking"
    /\ ses' = [ses EXCEPT ![s].admission =
                   IF \E t \in Session : Processing(t) THEN "found" ELSE "clear"]
    /\ UNCHANGED <<lease, dir, source, row, job, crashes>>

Refused(s) == ses' = [ses EXCEPT ![s] = NewSession]

\* mutant: whatever is left in pending/ is taken for a leftover
ScanRemovesAll(s) ==
    /\ ses[s].admission \in {"clear", "found"}
    /\ IF lease # NoLease
       THEN Refused(s) /\ UNCHANGED source
       ELSE /\ ses' = [ses EXCEPT ![s].admission = "scanned"]
            /\ source' = [t \in Session |-> FALSE]
    /\ UNCHANGED <<lease, dir, row, job, crashes>>

\* The answer has arrived: a processing row, or a lease taken meanwhile,
\* refuses.  Otherwise the sources in pending/ are looked up one by one: one
\* whose row is processing refuses, any other is removed.
Scan(s) ==
    /\ ses[s].admission \in {"clear", "found"}
    /\ \/ /\ ses[s].admission = "clear"
          /\ lease = NoLease
          /\ \A t \in Session : source[t] => ~Processing(t)
          /\ ses' = [ses EXCEPT ![s].admission = "scanned"]
          /\ source' = [t \in Session |-> FALSE]
       \/ /\ \/ ses[s].admission = "found"
             \/ lease # NoLease
             \/ \E t \in Session : source[t] /\ Processing(t)
          /\ Refused(s)
          /\ UNCHANGED source
    /\ UNCHANGED <<lease, dir, row, job, crashes>>

Register(s) ==
    /\ lease' = SessionKey(s)
    /\ ses' = [ses EXCEPT ![s].admission = "none", ![s].status = "pending",
                          ![s].registered = TRUE]
    /\ dir' = [dir EXCEPT ![s] = "present"]

\* mutant: the lease is not looked at again after the scan
AcquireUnchecked(s) ==
    /\ ses[s].admission = "scanned"
    /\ Register(s)
    /\ UNCHANGED <<source, row, job, crashes>>

\* The last check, the lease, the registration and mkdir; a failed mkdir takes
\* all of it back.
Acquire(s) ==
    /\ ses[s].admission = "scanned"
    /\ \/ /\ Refused(s)
          /\ UNCHANGED <<lease, dir>>
       \/ /\ lease = NoLease
          /\ Register(s)
    /\ UNCHANGED <<source, row, job, crashes>>

----------------------------------------------------------------------------
\* A piece: acquireChunkRequest, then saveChunkFromPath

\* The body has been received and the session looked up by saveChunkFromPath,
\* which now waits for stat.  The request counts in inFlightRequestsBySession.
PieceReceived(s) ==
    /\ Usable(s)
    /\ ses[s].piece = "none"
    /\ ses' = [ses EXCEPT ![s].piece = "saving"]
    /\ UNCHANGED <<lease, dir, source, row, job, crashes>>

\* rename into the directory, or an error when it is gone
PieceSaved(s) ==
    /\ ses[s].piece = "saving"
    /\ ses' = [ses EXCEPT ![s].piece = "none"]
    /\ UNCHANGED <<lease, dir, source, row, job, crashes>>

----------------------------------------------------------------------------
\* The merge: triggerMerge, runMergeWithSemaphore, doMerge, finalizeMerge

\* An admission is two queries and a directory scan: it has ended before a
\* client that was admitted during it has sent its pieces and called complete.
AdmissionsAreShort == \A t \in Session : ses[t].admission = "none"

triggerMerge(s) ==
    /\ Usable(s)
    /\ ses[s].abort = "none"
    /\ ses[s].status = "pending"
    /\ AdmissionsAreShort
    /\ ses' = [ses EXCEPT ![s].status = "merging", ![s].merge = "pieces",
                          ![s].open = TRUE]
    /\ UNCHANGED <<lease, dir, source, row, job, crashes>>

\* The merge throws: mergePromise settles with an error, unless the deadline has
\* settled it.
Fails(s) ==
    ses' = [ses EXCEPT ![s].merge = "off", ![s].open = FALSE,
                       ![s].status = IF ses[s].open THEN "error" ELSE @,
                       ![s].timer = @ \/ ses[s].open]

Goes(s, next) == ses' = [ses EXCEPT ![s].merge = next]

\* The pieces are read and written to `merged`; one may be missing.
MergePieces(s) ==
    /\ ses[s].merge = "pieces"
    /\ \/ Fails(s)
       \/ /\ ~ses[s].aborted
          /\ dir[s] = "present"
          /\ ses' = [ses EXCEPT ![s].merge = "creating", ![s].status = "uploading"]
    /\ UNCHANGED <<lease, dir, source, row, job, crashes>>

\* createProcessingFile has answered.
CreateRow(s) ==
    /\ ses[s].merge = "creating"
    /\ \/ Fails(s) /\ UNCHANGED row
       \/ /\ row' = [row EXCEPT ![s] = "pending"]
          /\ IF ses[s].aborted THEN Fails(s) ELSE Goes(s, "renaming")
    /\ UNCHANGED <<lease, dir, source, job, crashes>>

\* rename of `merged` to pending/, which may get ahead of a removal under way
Rename(s) ==
    /\ ses[s].merge = "renaming"
    /\ \/ Fails(s) /\ UNCHANGED source
       \/ /\ dir[s] # "none"
          /\ source' = [source EXCEPT ![s] = TRUE]
          /\ ses' = [ses EXCEPT ![s].merge = "dropping", ![s].handed = TRUE]
    /\ UNCHANGED <<lease, dir, row, job, crashes>>

\* mutant: the abort signal is not looked at before the hand-over
DropPiecesUnasked(s) ==
    /\ ses[s].merge = "dropping"
    /\ dir' = [dir EXCEPT ![s] = "none"]
    /\ Goes(s, "adding")
    /\ lease' = IF lease = SessionKey(s) THEN JobKey(s) ELSE lease
    /\ UNCHANGED <<source, row, job, crashes>>

\* The pieces are removed before the job can start; the lease is handed over,
\* unless the merge was aborted or the session has lost its lease.
DropPieces(s) ==
    /\ ses[s].merge = "dropping"
    /\ \/ /\ Fails(s)
          /\ UNCHANGED <<dir, lease>>
       \/ /\ dir' = [dir EXCEPT ![s] = "none"]
          /\ IF ~ses[s].aborted /\ lease = SessionKey(s)
             THEN Goes(s, "adding") /\ lease' = JobKey(s)
             ELSE Fails(s) /\ UNCHANGED lease
    /\ UNCHANGED <<source, row, job, crashes>>

\* queue.add has answered.  A failure gives the lease back to the session.
Add(s) ==
    /\ ses[s].merge = "adding"
    /\ \/ /\ Fails(s)
          /\ lease' = IF lease = JobKey(s) THEN SessionKey(s) ELSE lease
          /\ UNCHANGED job
       \/ /\ job' = [job EXCEPT ![s] = "waiting"]
          /\ Goes(s, IF ses[s].aborted \/ ~Active(s) THEN "removing" ELSE "ending")
          /\ UNCHANGED lease
    /\ UNCHANGED <<dir, source, row, crashes>>

\* Queued, then aborted: the job is removed from the queue if it has not begun.
RemoveJob(s) ==
    /\ ses[s].merge = "removing"
    /\ job' = [job EXCEPT ![s] = IF @ = "waiting" THEN "none" ELSE @]
    /\ Goes(s, "cleaning")
    /\ UNCHANGED <<lease, dir, source, row, crashes>>

\* cleanupUploadingSideEffects: only a job that it takes from the queue itself
\* is undone.
Undo(s) ==
    IF job[s] = "waiting"
    THEN /\ job' = [job EXCEPT ![s] = "none"]
         /\ row' = [row EXCEPT ![s] = IF Processing(s) THEN "failed" ELSE @]
         /\ source' = [source EXCEPT ![s] = FALSE]
         /\ lease' = Freed(JobKey(s))
    ELSE UNCHANGED <<job, row, source, lease>>

CleanUp(s) ==
    /\ ses[s].merge = "cleaning"
    /\ Undo(s)
    /\ Fails(s)
    /\ UNCHANGED <<dir, crashes>>

\* The queue has the job, the directory is removed once more, the merge returns;
\* after an abort the session keeps the status it has.
EndMerge(s) ==
    /\ ses[s].merge = "ending"
    /\ ses' = [ses EXCEPT ![s].merge = "off", ![s].open = FALSE,
                          ![s].status = IF ses[s].aborted THEN @ ELSE "done",
                          ![s].timer = @ \/ ~ses[s].aborted]
    /\ UNCHANGED <<lease, dir, source, row, job, crashes>>

\* mutant: the caller is told, the session is not
DeadlineKeepsStatus(s) ==
    /\ ses[s].open
    /\ ses' = [ses EXCEPT ![s].aborted = TRUE, ![s].open = FALSE]
    /\ UNCHANGED <<lease, dir, source, row, job, crashes>>

\* withDeadline: the caller gets an error, the merge goes on to its next check.
Deadline(s) ==
    /\ ses[s].open
    /\ ses' = [ses EXCEPT ![s].aborted = TRUE, ![s].open = FALSE,
                          ![s].status = "error", ![s].timer = TRUE]
    /\ UNCHANGED <<lease, dir, source, row, job, crashes>>

\* The timer of scheduleCleanup: the directory is being removed when the lease
\* of a failed session is given back.
Cleanup(s) ==
    /\ ses[s].timer
    /\ ses' = [ses EXCEPT ![s].timer = FALSE, ![s].registered = FALSE]
    /\ dir' = [dir EXCEPT ![s] = IF @ = "present" THEN "removing" ELSE @]
    /\ lease' = IF ses[s].registered /\ ses[s].status = "error"
                THEN Freed(SessionKey(s)) ELSE lease
    /\ UNCHANGED <<source, row, job, crashes>>

DirectoryGone(s) ==
    /\ dir[s] = "removing"
    /\ dir' = [dir EXCEPT ![s] = "none"]
    /\ UNCHANGED <<lease, ses, source, row, job, crashes>>

----------------------------------------------------------------------------
\* abort()

\* The merge's signal is raised; the request waits for the merge to end, five
\* seconds at most.  Without a merge it goes on at once: no merge starts between.
Abort(s) ==
    /\ Usable(s)
    /\ ses[s].abort = "none"
    /\ ses' = [ses EXCEPT ![s].abort = "waiting", ![s].aborted = @ \/ ses[s].open]
    /\ UNCHANGED <<lease, dir, source, row, job, crashes>>

\* After the wait.  An upload that was handed over is undone only while its job
\* has not begun; otherwise the request is refused and the session stays.
AbortGoesOn(s) ==
    /\ ses[s].abort = "waiting"
    /\ IF row[s] # "none" /\ ses[s].handed
       THEN Undo(s)
       ELSE UNCHANGED <<job, row, source, lease>>
    /\ IF row[s] # "none" /\ ses[s].handed /\ job[s] # "waiting"
       THEN ses' = [ses EXCEPT ![s].abort = "none"] /\ UNCHANGED dir
       ELSE /\ ses' = [ses EXCEPT ![s].abort = "removing", ![s].registered = FALSE]
            /\ dir' = [dir EXCEPT ![s] = IF @ = "present" THEN "removing" ELSE @]
    /\ UNCHANGED crashes

\* The directory is gone, the lease is given back.
AbortEnds(s) ==
    /\ ses[s].abort = "removing"
    /\ dir[s] # "removing"
    /\ lease' = Freed(SessionKey(s))
    /\ ses' = [ses EXCEPT ![s].abort = "cancelled"]
    /\ UNCHANGED <<dir, source, row, job, crashes>>

----------------------------------------------------------------------------
\* reclaimExpiredSessions, run before each init() and every ten minutes.  The
\* passes are single-flight and treat the sessions one after the other.

\* mutant: requests in flight are not looked at
ReclaimOver(s) ==
    /\ \A t \in Session : ~ses[t].reclaiming
    /\ ses[s].registered
    /\ ~InFlight(s)
    /\ ses' = [ses EXCEPT ![s].reclaiming = TRUE]
    /\ UNCHANGED <<lease, dir, source, row, job, crashes>>

\* The session has been idle for ten minutes.
Reclaim(s) ==
    /\ \A t \in Session : ~ses[t].reclaiming
    /\ ses[s].registered
    /\ ~InFlight(s)
    /\ ses[s].piece = "none"
    /\ ses' = [ses EXCEPT ![s].reclaiming = TRUE]
    /\ UNCHANGED <<lease, dir, source, row, job, crashes>>

\* The directory has been removed: the session is forgotten and its lease
\* given back.
Reclaimed(s) ==
    /\ ses[s].reclaiming
    /\ dir' = [dir EXCEPT ![s] = "none"]
    /\ ses' = [ses EXCEPT ![s].registered = FALSE, ![s].reclaiming = FALSE]
    /\ lease' = Freed(SessionKey(s))
    /\ UNCHANGED <<source, row, job, crashes>>

\* It could not be removed: everything is kept for the next pass.
ReclaimFailed(s) ==
    /\ ses[s].reclaiming
    /\ dir[s] = "present"
    /\ ses' = [ses EXCEPT ![s].reclaiming = FALSE]
    /\ UNCHANGED <<lease, dir, source, row, job, crashes>>

\* A session lease without a session
releaseOrphanSessionLease(s) ==
    /\ lease = SessionKey(s)
    /\ ~ses[s].registered
    /\ lease' = NoLease
    /\ UNCHANGED <<ses, dir, source, row, job, crashes>>

----------------------------------------------------------------------------
\* The worker, and the recovery task that runs every thirty minutes

Committed(s) == row[s] \in {"committed", "revived", "ready"}   \* isCommitted

JobBegins(s) ==
    /\ job[s] = "waiting"
    /\ source[s] \/ Committed(s)
    /\ job' = [job EXCEPT ![s] = "uploading"]
    /\ UNCHANGED <<lease, ses, dir, source, row, crashes>>

\* removeUploadArtifacts, at the end of the job
EndJob(s) ==
    /\ job' = [job EXCEPT ![s] = "none"]
    /\ source' = [source EXCEPT ![s] = FALSE]
    /\ lease' = Freed(JobKey(s))

\* The attempt failed: another attempt, the end, or, with the remote copy made
\* and its receipt on disk, a recoverable row whose source is kept.
JobFails(s) ==
    /\ job[s] = "uploading"
    /\ ~Committed(s)
    /\ \/ /\ job' = [job EXCEPT ![s] = "waiting"]
          /\ UNCHANGED <<row, source, lease>>
       \/ EndJob(s) /\ row' = [row EXCEPT ![s] = "failed"]
       \/ /\ row' = [row EXCEPT ![s] = IF @ = "pending" THEN "recoverable" ELSE @]
          /\ job' = [job EXCEPT ![s] = "failed"]
          /\ UNCHANGED <<source, lease>>
    /\ UNCHANGED <<ses, dir, crashes>>

\* The source is gone: after three attempts the upload is given up.
JobWithoutSource(s) ==
    /\ job[s] = "waiting"
    /\ ~source[s] /\ ~Committed(s)
    /\ EndJob(s)
    /\ row' = [row EXCEPT ![s] = "failed"]
    /\ UNCHANGED <<ses, dir, crashes>>

\* Uploaded, or found to be so, and committed, but not yet ready.  A row that
\* was given up meanwhile keeps its error status.
JobCommits(s) ==
    /\ job[s] = "uploading"
    /\ job' = [job EXCEPT ![s] = "committed"]
    /\ row' = [row EXCEPT ![s] = CASE Processing(s) -> "committed"
                                   [] @ = "failed" -> "revived"
                                   [] OTHER -> @]
    /\ UNCHANGED <<lease, ses, dir, source, crashes>>

\* The conditional update to ready; without a row to update the job returns and
\* cleans up nothing.
JobEnds(s) ==
    /\ job[s] = "committed"
    /\ \/ /\ row[s] \in {"committed", "revived"}
          /\ row' = [row EXCEPT ![s] = "ready"]
          /\ EndJob(s)
       \/ /\ row[s] = "ready"
          /\ job' = [job EXCEPT ![s] = "none"]
          /\ UNCHANGED <<row, source, lease>>
    /\ UNCHANGED <<ses, dir, crashes>>

\* recoverStaleProcessingFiles: committed rows become ready, recoverable ones
\* are queued again once the queue has forgotten the failed job of their id, and
\* rows whose upload made no progress for an hour fail.  The hour is longer than
\* an attempt of the worker and than a merge; a worker that has read the row and
\* not yet claimed it finds its claim refused, and the job ends there.
Recover(s) ==
    /\ \/ /\ row[s] = "committed"
          /\ row' = [row EXCEPT ![s] = "ready"]
          /\ UNCHANGED job
       \/ /\ row[s] = "recoverable"
          /\ job[s] = "failed"
          /\ job' = [job EXCEPT ![s] = "waiting"]
          /\ UNCHANGED row
       \/ /\ row[s] = "pending"
          /\ job[s] # "uploading"
          /\ ses[s].merge = "off"
          /\ row' = [row EXCEPT ![s] = "failed"]
          /\ \/ UNCHANGED job
             \/ job[s] = "waiting" /\ job' = [job EXCEPT ![s] = "none"]
    /\ UNCHANGED <<lease, ses, dir, source, crashes>>

\* The process dies and starts again: memory is lost, the directories of pieces
\* are removed, the queue gives a begun job to a worker again.
Restart ==
    /\ crashes < MaxCrashes
    /\ crashes' = crashes + 1
    /\ lease' = NoLease
    /\ ses' = [s \in Session |->
                 IF ses[s] = NewSession THEN ses[s]
                 ELSE [NewSession EXCEPT !.status = "lost"]]
    /\ dir' = [s \in Session |-> "none"]
    /\ job' = [s \in Session |->
                 IF job[s] \in {"uploading", "committed"} THEN "waiting" ELSE job[s]]
    /\ UNCHANGED <<source, row>>

----------------------------------------------------------------------------
MergeStep(s) ==
    \/ MergePieces(s) \/ CreateRow(s) \/ Rename(s) \/ DropPieces(s)
    \/ Add(s) \/ RemoveJob(s) \/ CleanUp(s) \/ EndMerge(s)

Next ==
    \/ \E s \in Session :
          \/ Admit(s) \/ Query(s) \/ Scan(s) \/ Acquire(s)
          \/ PieceReceived(s) \/ PieceSaved(s)
          \/ triggerMerge(s) \/ MergeStep(s) \/ Deadline(s)
          \/ Cleanup(s) \/ DirectoryGone(s)
          \/ Abort(s) \/ AbortGoesOn(s) \/ AbortEnds(s)
          \/ Reclaim(s) \/ Reclaimed(s) \/ ReclaimFailed(s) \/ releaseOrphanSessionLease(s)
          \/ JobBegins(s) \/ JobWithoutSource(s) \/ JobFails(s)
          \/ JobCommits(s) \/ JobEnds(s) \/ Recover(s)
    \/ Restart

Spec == Init /\ [][Next]_vars

----------------------------------------------------------------------------
\* Properties

\* Every variable has its type.
TypeOK ==
    /\ lease \in {NoLease} \cup {SessionKey(s) : s \in Session}
                           \cup {JobKey(s) : s \in Session}
    /\ ses \in [Session ->
         [admission : {"none", "asking", "clear", "found", "scanned"},
          status : {"none", "pending", "merging", "uploading", "done", "error", "lost"},
          registered : BOOLEAN, reclaiming : BOOLEAN,
          merge : {"off", "pieces", "creating", "renaming", "dropping", "adding",
                   "removing", "cleaning", "ending"},
          open : BOOLEAN, aborted : BOOLEAN, handed : BOOLEAN, timer : BOOLEAN,
          abort : {"none", "waiting", "removing", "cancelled"},
          piece : {"none", "saving"}]]
    /\ dir \in [Session -> {"none", "present", "removing"}]
    /\ source \in [Session -> BOOLEAN]
    /\ row \in [Session -> {"none", "pending", "recoverable", "committed", "revived",
                            "ready", "failed"}]
    /\ job \in [Session -> {"none", "waiting", "uploading", "committed", "failed"}]
    /\ crashes \in 0..MaxCrashes

\* What strict mode promises: the bytes of two uploads are never on the
\* temporary disk together, neither as pieces nor as sources, whatever was
\* aborted, timed out, failed to be queued or was left over by a restart.  A
\* directory whose removal is under way does not count.
OneLifecycle ==
    Cardinality({s \in Session : dir[s] = "present" \/ source[s]}) <= 1

\* An upload reported as cancelled stays cancelled: no job of it is queued or
\* runs afterwards, though its merge may still have been under way.
CancelledStaysCancelled ==
    \A s \in Session : ses[s].abort = "cancelled" =>
        job[s] = "none" /\ ~Committed(s)

\* No piece is written into a directory that is being reclaimed, although the
\* session was looked up before the reclaimer marked it.
NoPieceIntoReclaimed ==
    \A s \in Session : ses[s].reclaiming => ses[s].piece # "saving"

\* The state is well formed: every variable has its type, and the reclaimer and the
\* requests of a session keep out of each other's way.
WellFormed == TypeOK /\ NoPieceIntoReclaimed

\* A job that still has to upload finds its source, after restarts too, unless
\* its row was given up: no admission takes it for a leftover.
JobHasSource ==
    \A s \in Session :
        job[s] \in {"waiting", "uploading"} /\ row[s] = "pending" => source[s]

\* A session that holds the lease can always be ended by someone: while it is
\* merging or uploading its deadline is still to come, and otherwise the
\* clean-up timer, the reclaimer or, without a session, the search for orphans
\* gives the lease back.
SessionLeaseHasDeadline ==
    \A s \in Session :
        lease = SessionKey(s) /\ ses[s].registered /\ InFlight(s) => ses[s].open

\* What releaseOrphanSessionLease relies on when it leaves a job's lease alone: the
\* lease of an upload whose row is still processing belongs to a job that the
\* worker still has, or is about to get.
JobLeaseHasJob ==
    \A s \in Session : lease = JobKey(s) /\ Processing(s) =>
        job[s] # "none" \/ ses[s].merge \in {"adding", "removing", "cleaning"}
============================================================================
