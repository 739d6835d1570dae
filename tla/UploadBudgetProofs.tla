------------------------- MODULE UploadBudgetProofs -------------------------
(***************************************************************************)
(* Theorems about UploadBudget, for every set of uploads and any number of *)
(* restarts.  The invariants that TLC checks follow from one inductive     *)
(* invariant, Inv: what every upload keeps by itself (Local) and what two  *)
(* uploads keep between them (OneOccupant, AdmissionIsClear).              *)
(***************************************************************************)
EXTENDS UploadBudget, FiniteSetTheorems, TLAPS

LeaseSet == {NoLease} \cup {SessionKey(s) : s \in Session} \cup {JobKey(s) : s \in Session}

SessionSet ==
    [admission : {"none", "asking", "clear", "found", "scanned"},
     status : {"none", "pending", "merging", "uploading", "done", "error", "lost"},
     registered : BOOLEAN, reclaiming : BOOLEAN,
     merge : {"off", "pieces", "creating", "renaming", "dropping", "adding",
              "removing", "cleaning", "ending"},
     open : BOOLEAN, aborted : BOOLEAN, handed : BOOLEAN, timer : BOOLEAN,
     abort : {"none", "waiting", "removing", "cancelled"},
     piece : {"none", "saving"}]

\* The types of the variables other than ses
DataOK ==
    /\ lease \in LeaseSet
    /\ dir \in [Session -> {"none", "present", "removing"}]
    /\ source \in [Session -> BOOLEAN]
    /\ row \in [Session -> {"none", "pending", "recoverable", "committed", "revived",
                            "ready", "failed"}]
    /\ job \in [Session -> {"none", "waiting", "uploading", "committed", "failed"}]
    /\ crashes \in 0..MaxCrashes

SesOK == ses \in [Session -> SessionSet]

LEMMA TypeSplit == TypeOK <=> DataOK /\ SesOK
BY DEF TypeOK, DataOK, SesOK, LeaseSet, SessionSet

LEMMA TypeSplitPrime == TypeOK' <=> DataOK' /\ SesOK'
BY DEF TypeOK, DataOK, SesOK, LeaseSet, SessionSet

\* The keys of the lease are pairwise different.
LEMMA KeyFacts ==
    /\ NoLease \in LeaseSet
    /\ \A s \in Session :
          /\ SessionKey(s) \in LeaseSet /\ JobKey(s) \in LeaseSet
          /\ SessionKey(s) # NoLease /\ JobKey(s) # NoLease
          /\ \A t \in Session :
                /\ SessionKey(s) # JobKey(t)
                /\ t # s => SessionKey(s) # SessionKey(t) /\ JobKey(s) # JobKey(t)
BY DEF LeaseSet, SessionKey, JobKey, NoLease

----------------------------------------------------------------------------
\* The inductive invariant, one upload at a time

Idle(s) ==
    /\ ~ses[s].registered /\ ~ses[s].reclaiming /\ ses[s].merge = "off"
    /\ ~ses[s].open /\ ~ses[s].aborted /\ ~ses[s].handed /\ ~ses[s].timer
    /\ ses[s].abort = "none" /\ ses[s].piece = "none"

\* An upload that is not admitted yet has nothing, and only such an upload is
\* being admitted.
Unadmitted(s) ==
    /\ ses[s].admission # "none" => ses[s].status = "none"
    /\ ses[s].status = "none" =>
          /\ Idle(s)
          /\ row[s] = "none" /\ job[s] = "none" /\ ~source[s] /\ dir[s] = "none"
          /\ lease # SessionKey(s) /\ lease # JobKey(s)

\* A registered session that has not merged still has its pieces.
PendingHasPieces(s) ==
    ses[s].status = "pending" =>
        /\ ses[s].merge = "off" /\ ~ses[s].handed /\ ~ses[s].timer /\ ~ses[s].open
        /\ ses[s].registered => dir[s] = "present"

\* Whoever gives up the session's lease has begun to remove its pieces.
PiecesHaveLease(s) == dir[s] = "present" => ses[s].registered /\ lease = SessionKey(s)

\* Up to the hand-over a merge that was not aborted keeps lease and pieces: the
\* timer, the reclaimer and an abort all wait for it or abort it.
MergeKeepsLease(s) ==
    ses[s].merge \in {"pieces", "creating", "renaming", "dropping"} /\ ~ses[s].aborted =>
        /\ lease = SessionKey(s) /\ ses[s].registered /\ dir[s] = "present"
        /\ ~ses[s].timer /\ ~ses[s].reclaiming /\ ses[s].open

MergeStatus(s) ==
    /\ ses[s].open => ses[s].merge # "off"
    /\ ses[s].merge # "off" =>
          /\ ses[s].open \/ ses[s].aborted
          /\ ses[s].open => InFlight(s)
          /\ ~ses[s].open => ses[s].status = "error"
          /\ ses[s].abort # "none" => ses[s].aborted

\* What a merge has made at each of its points: no row, a row, a source, a job.
MergeProgress(s) ==
    /\ ses[s].merge \in {"pieces", "creating"} => row[s] = "none"
    /\ ses[s].merge \in {"pieces", "creating", "renaming", "dropping", "adding"} =>
          job[s] = "none"
    /\ ses[s].merge \in {"renaming", "dropping", "adding"} => row[s] = "pending"
    /\ ses[s].merge \in {"dropping", "adding"} => source[s]
    /\ ses[s].merge \in {"dropping", "adding", "removing", "cleaning", "ending"} =>
          ses[s].handed

\* A job, and a remote copy, only exist for a source that was handed over, by
\* this process or by one that died.
JobWasHandedOver(s) ==
    /\ ses[s].handed => row[s] # "none"
    /\ job[s] # "none" \/ Committed(s) =>
          row[s] # "none" /\ (ses[s].handed \/ ses[s].status = "lost")
    /\ job[s] = "waiting" /\ Committed(s) => ses[s].status = "lost"
    /\ job[s] = "committed" => Committed(s)

LostIsIdle(s) == ses[s].status = "lost" => Idle(s)

\* From the moment the abort removes the directory the upload is over.
AbortIsFinal(s) ==
    ses[s].abort \in {"removing", "cancelled"} =>
        /\ job[s] = "none" /\ ~Committed(s)
        /\ ses[s].merge # "adding" /\ ~ses[s].registered

SourceForJob(s) ==
    job[s] \in {"waiting", "uploading"} /\ row[s] = "pending" => source[s]

\* Once the job has the lease it never returns to the session.
LeaseHandedOver(s) ==
    /\ ses[s].merge \in {"adding", "removing", "cleaning", "ending"} => lease # SessionKey(s)
    /\ ses[s].merge = "off" /\ InFlight(s) => lease # SessionKey(s)

NoPiece(s) == ses[s].reclaiming => ses[s].piece # "saving"

Local(s) ==
    /\ Unadmitted(s) /\ PendingHasPieces(s) /\ PiecesHaveLease(s)
    /\ MergeKeepsLease(s) /\ MergeStatus(s) /\ MergeProgress(s)
    /\ JobWasHandedOver(s) /\ LostIsIdle(s) /\ AbortIsFinal(s)
    /\ SourceForJob(s) /\ LeaseHandedOver(s) /\ NoPiece(s)

----------------------------------------------------------------------------
\* The inductive invariant, between two uploads

\* The upload's bytes are on the disk, or a rename is about to put them there.
Occupies(s) == dir[s] = "present" \/ source[s] \/ ses[s].merge = "renaming"

OneOccupant == \A s, t \in Session : Occupies(s) /\ Occupies(t) => s = t

\* What an admission has looked at stays as it was: no merge that can still put a
\* source into pending/ goes unnoticed by an admission that saw no processing row.
AdmissionIsClear ==
    \A s, t \in Session :
        /\ ses[t].admission = "scanned" => ~source[s] /\ ses[s].merge # "renaming"
        /\ ses[t].admission = "clear" => ses[s].merge # "renaming"
        /\ ses[t].admission # "none" /\ ses[s].merge \in {"pieces", "creating"} =>
              ses[s].aborted

Inv ==
    /\ TypeOK
    /\ \A s \in Session : Local(s)
    /\ OneOccupant
    /\ AdmissionIsClear

----------------------------------------------------------------------------
\* Type correctness

LEMMA DataStep == ASSUME TypeOK, [Next]_vars PROVE DataOK'
<1> USE CrashAssumption, KeyFacts DEF DataOK
<1>a. DataOK /\ SesOK
  BY TypeSplit
<1>0. CASE UNCHANGED vars
  BY <1>a, <1>0 DEF vars
<1>1. ASSUME NEW s \in Session, Admit(s) PROVE DataOK'
  BY <1>a, <1>1 DEF Admit
<1>2. ASSUME NEW s \in Session, Query(s) PROVE DataOK'
  BY <1>a, <1>2 DEF Query
<1>3. ASSUME NEW s \in Session, Scan(s) PROVE DataOK'
  BY <1>a, <1>3 DEF Scan, Refused
<1>4. ASSUME NEW s \in Session, Acquire(s) PROVE DataOK'
  BY <1>a, <1>4 DEF Acquire, Refused, Register
<1>5. ASSUME NEW s \in Session, PieceReceived(s) PROVE DataOK'
  BY <1>a, <1>5 DEF PieceReceived
<1>6. ASSUME NEW s \in Session, PieceSaved(s) PROVE DataOK'
  BY <1>a, <1>6 DEF PieceSaved
<1>7. ASSUME NEW s \in Session, triggerMerge(s) PROVE DataOK'
  BY <1>a, <1>7 DEF triggerMerge
<1>8. ASSUME NEW s \in Session, MergePieces(s) PROVE DataOK'
  BY <1>a, <1>8 DEF MergePieces, Fails
<1>9. ASSUME NEW s \in Session, CreateRow(s) PROVE DataOK'
  BY <1>a, <1>9 DEF CreateRow, Fails, Goes
<1>10. ASSUME NEW s \in Session, Rename(s) PROVE DataOK'
  BY <1>a, <1>10 DEF Rename, Fails
<1>11. ASSUME NEW s \in Session, DropPieces(s) PROVE DataOK'
  BY <1>a, <1>11 DEF DropPieces, Fails, Goes
<1>12. ASSUME NEW s \in Session, Add(s) PROVE DataOK'
  BY <1>a, <1>12 DEF Add, Fails, Goes, Active
<1>13. ASSUME NEW s \in Session, RemoveJob(s) PROVE DataOK'
  BY <1>a, <1>13 DEF RemoveJob, Goes
<1>14. ASSUME NEW s \in Session, CleanUp(s) PROVE DataOK'
  BY <1>a, <1>14 DEF CleanUp, Fails, Undo, Freed
<1>15. ASSUME NEW s \in Session, EndMerge(s) PROVE DataOK'
  BY <1>a, <1>15 DEF EndMerge
<1>16. ASSUME NEW s \in Session, Deadline(s) PROVE DataOK'
  BY <1>a, <1>16 DEF Deadline
<1>17. ASSUME NEW s \in Session, Cleanup(s) PROVE DataOK'
  BY <1>a, <1>17 DEF Cleanup, Freed
<1>18. ASSUME NEW s \in Session, DirectoryGone(s) PROVE DataOK'
  BY <1>a, <1>18 DEF DirectoryGone
<1>19. ASSUME NEW s \in Session, Abort(s) PROVE DataOK'
  BY <1>a, <1>19 DEF Abort
<1>20. ASSUME NEW s \in Session, AbortGoesOn(s) PROVE DataOK'
  BY <1>a, <1>20 DEF AbortGoesOn, Undo, Freed
<1>21. ASSUME NEW s \in Session, AbortEnds(s) PROVE DataOK'
  BY <1>a, <1>21 DEF AbortEnds, Freed
<1>22. ASSUME NEW s \in Session, Reclaim(s) PROVE DataOK'
  BY <1>a, <1>22 DEF Reclaim
<1>23. ASSUME NEW s \in Session, Reclaimed(s) PROVE DataOK'
  BY <1>a, <1>23 DEF Reclaimed, Freed
<1>24. ASSUME NEW s \in Session, ReclaimFailed(s) PROVE DataOK'
  BY <1>a, <1>24 DEF ReclaimFailed
<1>25. ASSUME NEW s \in Session, releaseOrphanSessionLease(s) PROVE DataOK'
  BY <1>a, <1>25 DEF releaseOrphanSessionLease
<1>26. ASSUME NEW s \in Session, JobBegins(s) PROVE DataOK'
  BY <1>a, <1>26 DEF JobBegins
<1>27. ASSUME NEW s \in Session, JobWithoutSource(s) PROVE DataOK'
  BY <1>a, <1>27 DEF JobWithoutSource, EndJob, Freed
<1>28. ASSUME NEW s \in Session, JobFails(s) PROVE DataOK'
  BY <1>a, <1>28 DEF JobFails, EndJob, Freed
<1>29. ASSUME NEW s \in Session, JobCommits(s) PROVE DataOK'
  BY <1>a, <1>29 DEF JobCommits
<1>30. ASSUME NEW s \in Session, JobEnds(s) PROVE DataOK'
  BY <1>a, <1>30 DEF JobEnds, EndJob, Freed
<1>31. ASSUME NEW s \in Session, Recover(s) PROVE DataOK'
  BY <1>a, <1>31 DEF Recover
<1>32. ASSUME Restart PROVE DataOK'
  BY <1>a, <1>32 DEF Restart
<1> QED
  BY <1>0, <1>1, <1>2, <1>3, <1>4, <1>5, <1>6, <1>7, <1>8, <1>9, <1>10, <1>11, <1>12, <1>13, <1>14, <1>15, <1>16, <1>17, <1>18, <1>19, <1>20, <1>21, <1>22, <1>23, <1>24, <1>25, <1>26, <1>27, <1>28, <1>29, <1>30, <1>31, <1>32 DEF Next, MergeStep

\* Records that the less obvious updates of a session produce
LEMMA RecordUpdates ==
    ASSUME NEW r \in SessionSet
    PROVE  /\ [r EXCEPT !.merge = "off", !.open = FALSE,
                         !.status = IF r.open THEN "error" ELSE @,
                         !.timer = @ \/ r.open] \in SessionSet
           /\ [r EXCEPT !.merge = "off", !.open = FALSE,
                         !.status = IF r.aborted THEN @ ELSE "done",
                         !.timer = @ \/ ~r.aborted] \in SessionSet
           /\ [r EXCEPT !.abort = "waiting", !.aborted = @ \/ r.open] \in SessionSet
<1>1. r.open \in BOOLEAN /\ r.aborted \in BOOLEAN /\ r.timer \in BOOLEAN
  BY DEF SessionSet
<1>2. \A t \in BOOLEAN :
         \A u \in {"none", "pending", "merging", "uploading", "done", "error", "lost"} :
            [r EXCEPT !.merge = "off", !.open = FALSE, !.status = u, !.timer = t]
               \in SessionSet
  BY DEF SessionSet
<1>3. \A b \in BOOLEAN :
         [r EXCEPT !.abort = "waiting", !.aborted = b] \in SessionSet
  BY DEF SessionSet
<1>4. /\ (IF r.open THEN "error" ELSE r.status)
            \in {"none", "pending", "merging", "uploading", "done", "error", "lost"}
      /\ (IF r.aborted THEN r.status ELSE "done")
            \in {"none", "pending", "merging", "uploading", "done", "error", "lost"}
  BY DEF SessionSet
<1>5. /\ (r.timer \/ r.open) \in BOOLEAN
      /\ (r.timer \/ ~r.aborted) \in BOOLEAN
      /\ (r.aborted \/ r.open) \in BOOLEAN
  OBVIOUS
<1> QED
  BY <1>2, <1>3, <1>4, <1>5

LEMMA SesStep == ASSUME TypeOK, [Next]_vars PROVE SesOK'
<1>a. SesOK
  BY TypeSplit
<1>b. NewSession \in SessionSet
  BY DEF NewSession, SessionSet
<1>0. CASE UNCHANGED vars
  BY <1>a, <1>0 DEF vars, SesOK
<1>c. ASSUME NEW s \in Session, Fails(s) PROVE SesOK'
  <2> DEFINE r == [ses[s] EXCEPT !.merge = "off", !.open = FALSE,
                               !.status = IF ses[s].open THEN "error" ELSE @,
                               !.timer = @ \/ ses[s].open]
  <2>1. r \in SessionSet
    <3>1. ses[s] \in SessionSet
      BY <1>a DEF SesOK
    <3> QED
      BY <3>1, RecordUpdates
  <2>2. ses' = [ses EXCEPT ![s] = r]
    BY <1>a, <1>c DEF SesOK, Fails
  <2> QED
    BY <1>a, <2>1, <2>2 DEF SesOK
<1>d. ASSUME NEW s \in Session, Refused(s) PROVE SesOK'
  BY <1>a, <1>b, <1>d DEF SesOK, Refused
<1>e. ASSUME NEW s \in Session, Register(s) PROVE SesOK'
  <2> DEFINE r == [ses[s] EXCEPT !.admission = "none", !.status = "pending",
                               !.registered = TRUE]
  <2>1. r \in SessionSet
    <3>1. ses[s] \in SessionSet
      BY <1>a DEF SesOK
    <3> QED
      BY <3>1 DEF SessionSet
  <2>2. ses' = [ses EXCEPT ![s] = r]
    BY <1>a, <1>e DEF SesOK, Register
  <2> QED
    BY <1>a, <2>1, <2>2 DEF SesOK
<1>1. ASSUME NEW s \in Session, Admit(s) PROVE SesOK'
  BY <1>a, <1>1 DEF SesOK, SessionSet, Admit
<1>2. ASSUME NEW s \in Session, Query(s) PROVE SesOK'
  BY <1>a, <1>2 DEF SesOK, SessionSet, Query
<1>3. ASSUME NEW s \in Session, Scan(s) PROVE SesOK'
  <2>1. ses' = [ses EXCEPT ![s].admission = "scanned"] \/ Refused(s)
    BY <1>3 DEF Scan
  <2>2. CASE ses' = [ses EXCEPT ![s].admission = "scanned"]
    BY <1>a, <2>2 DEF SesOK, SessionSet
  <2> QED
    BY <1>d, <2>1, <2>2
<1>4. ASSUME NEW s \in Session, Acquire(s) PROVE SesOK'
  BY <1>d, <1>e, <1>4 DEF Acquire
<1>5. ASSUME NEW s \in Session, PieceReceived(s) PROVE SesOK'
  BY <1>a, <1>5 DEF SesOK, SessionSet, PieceReceived
<1>6. ASSUME NEW s \in Session, PieceSaved(s) PROVE SesOK'
  BY <1>a, <1>6 DEF SesOK, SessionSet, PieceSaved
<1>7. ASSUME NEW s \in Session, triggerMerge(s) PROVE SesOK'
  <2> DEFINE r == [ses[s] EXCEPT !.status = "merging", !.merge = "pieces", !.open = TRUE]
  <2>1. r \in SessionSet
    <3>1. ses[s] \in SessionSet
      BY <1>a DEF SesOK
    <3> QED
      BY <3>1 DEF SessionSet
  <2>2. ses' = [ses EXCEPT ![s] = r]
    BY <1>a, <1>7 DEF SesOK, triggerMerge
  <2> QED
    BY <1>a, <2>1, <2>2 DEF SesOK
<1>8. ASSUME NEW s \in Session, MergePieces(s) PROVE SesOK'
  BY <1>a, <1>c, <1>8 DEF SesOK, SessionSet, MergePieces
<1>9. ASSUME NEW s \in Session, CreateRow(s) PROVE SesOK'
  BY <1>a, <1>c, <1>9 DEF SesOK, SessionSet, CreateRow, Goes
<1>10. ASSUME NEW s \in Session, Rename(s) PROVE SesOK'
  BY <1>a, <1>c, <1>10 DEF SesOK, SessionSet, Rename
<1>11. ASSUME NEW s \in Session, DropPieces(s) PROVE SesOK'
  BY <1>a, <1>c, <1>11 DEF SesOK, SessionSet, DropPieces, Goes
<1>12. ASSUME NEW s \in Session, Add(s) PROVE SesOK'
  BY <1>a, <1>c, <1>12 DEF SesOK, SessionSet, Add, Goes, Active
<1>13. ASSUME NEW s \in Session, RemoveJob(s) PROVE SesOK'
  BY <1>a, <1>13 DEF SesOK, SessionSet, RemoveJob, Goes
<1>14. ASSUME NEW s \in Session, CleanUp(s) PROVE SesOK'
  BY <1>c, <1>14 DEF CleanUp
<1>15. ASSUME NEW s \in Session, EndMerge(s) PROVE SesOK'
  <2> DEFINE r == [ses[s] EXCEPT !.merge = "off", !.open = FALSE,
                               !.status = IF ses[s].aborted THEN @ ELSE "done",
                               !.timer = @ \/ ~ses[s].aborted]
  <2>1. r \in SessionSet
    <3>1. ses[s] \in SessionSet
      BY <1>a DEF SesOK
    <3> QED
      BY <3>1, RecordUpdates
  <2>2. ses' = [ses EXCEPT ![s] = r]
    BY <1>a, <1>15 DEF SesOK, EndMerge
  <2> QED
    BY <1>a, <2>1, <2>2 DEF SesOK
<1>16. ASSUME NEW s \in Session, Deadline(s) PROVE SesOK'
  BY <1>a, <1>16 DEF SesOK, SessionSet, Deadline
<1>17. ASSUME NEW s \in Session, Cleanup(s) PROVE SesOK'
  <2> DEFINE r == [ses[s] EXCEPT !.timer = FALSE, !.registered = FALSE]
  <2>1. r \in SessionSet
    <3>1. ses[s] \in SessionSet
      BY <1>a DEF SesOK
    <3> QED
      BY <3>1 DEF SessionSet
  <2>2. ses' = [ses EXCEPT ![s] = r]
    BY <1>a, <1>17 DEF SesOK, Cleanup
  <2> QED
    BY <1>a, <2>1, <2>2 DEF SesOK
<1>18. ASSUME NEW s \in Session, DirectoryGone(s) PROVE SesOK'
  BY <1>a, <1>18 DEF SesOK, DirectoryGone
<1>19. ASSUME NEW s \in Session, Abort(s) PROVE SesOK'
  <2> DEFINE r == [ses[s] EXCEPT !.abort = "waiting", !.aborted = @ \/ ses[s].open]
  <2>1. r \in SessionSet
    <3>1. ses[s] \in SessionSet
      BY <1>a DEF SesOK
    <3> QED
      BY <3>1, RecordUpdates
  <2>2. ses' = [ses EXCEPT ![s] = r]
    BY <1>a, <1>19 DEF SesOK, Abort
  <2> QED
    BY <1>a, <2>1, <2>2 DEF SesOK
<1>20. ASSUME NEW s \in Session, AbortGoesOn(s) PROVE SesOK'
  BY <1>a, <1>20 DEF SesOK, SessionSet, AbortGoesOn
<1>21. ASSUME NEW s \in Session, AbortEnds(s) PROVE SesOK'
  BY <1>a, <1>21 DEF SesOK, SessionSet, AbortEnds
<1>22. ASSUME NEW s \in Session, Reclaim(s) PROVE SesOK'
  <2> DEFINE r == [ses[s] EXCEPT !.reclaiming = TRUE]
  <2>1. r \in SessionSet
    <3>1. ses[s] \in SessionSet
      BY <1>a DEF SesOK
    <3> QED
      BY <3>1 DEF SessionSet
  <2>2. ses' = [ses EXCEPT ![s] = r]
    BY <1>a, <1>22 DEF SesOK, Reclaim
  <2> QED
    BY <1>a, <2>1, <2>2 DEF SesOK
<1>23. ASSUME NEW s \in Session, Reclaimed(s) PROVE SesOK'
  BY <1>a, <1>23 DEF SesOK, SessionSet, Reclaimed
<1>24. ASSUME NEW s \in Session, ReclaimFailed(s) PROVE SesOK'
  <2> DEFINE r == [ses[s] EXCEPT !.reclaiming = FALSE]
  <2>1. r \in SessionSet
    <3>1. ses[s] \in SessionSet
      BY <1>a DEF SesOK
    <3> QED
      BY <3>1 DEF SessionSet
  <2>2. ses' = [ses EXCEPT ![s] = r]
    BY <1>a, <1>24 DEF SesOK, ReclaimFailed
  <2> QED
    BY <1>a, <2>1, <2>2 DEF SesOK
<1>25. ASSUME NEW s \in Session, releaseOrphanSessionLease(s) PROVE SesOK'
  BY <1>a, <1>25 DEF SesOK, releaseOrphanSessionLease
<1>26. ASSUME NEW s \in Session, JobBegins(s) PROVE SesOK'
  BY <1>a, <1>26 DEF SesOK, JobBegins
<1>27. ASSUME NEW s \in Session, JobWithoutSource(s) PROVE SesOK'
  BY <1>a, <1>27 DEF SesOK, JobWithoutSource
<1>28. ASSUME NEW s \in Session, JobFails(s) PROVE SesOK'
  BY <1>a, <1>28 DEF SesOK, JobFails
<1>29. ASSUME NEW s \in Session, JobCommits(s) PROVE SesOK'
  BY <1>a, <1>29 DEF SesOK, JobCommits
<1>30. ASSUME NEW s \in Session, JobEnds(s) PROVE SesOK'
  BY <1>a, <1>30 DEF SesOK, JobEnds
<1>31. ASSUME NEW s \in Session, Recover(s) PROVE SesOK'
  BY <1>a, <1>31 DEF SesOK, Recover
<1>32. ASSUME Restart PROVE SesOK'
  <2>1. [NewSession EXCEPT !.status = "lost"] \in SessionSet
    BY DEF NewSession, SessionSet
  <2> QED
    BY <1>a, <2>1, <1>32 DEF SesOK, Restart
<1> QED
  BY <1>0, <1>1, <1>2, <1>3, <1>4, <1>5, <1>6, <1>7, <1>8, <1>9, <1>10, <1>11, <1>12, <1>13, <1>14, <1>15, <1>16, <1>17, <1>18, <1>19, <1>20, <1>21, <1>22, <1>23, <1>24, <1>25, <1>26, <1>27, <1>28, <1>29, <1>30, <1>31, <1>32 DEF Next, MergeStep

----------------------------------------------------------------------------
\* Each upload keeps its own invariant

\* An action of one upload leaves another one as it is, but for a lease that was
\* free or was the first one's.
Kept(r) ==
    /\ ses'[r] = ses[r] /\ dir'[r] = dir[r] /\ source'[r] = source[r]
    /\ row'[r] = row[r] /\ job'[r] = job[r]
    /\ lease' = SessionKey(r) <=> lease = SessionKey(r)
    /\ lease' = JobKey(r) => lease = JobKey(r)

LEMMA KeptLocal ==
    ASSUME NEW r \in Session, Local(r), Kept(r)
    PROVE  Local(r)'
<1> USE DEF Kept, Local
<1>1. Unadmitted(r)' /\ PendingHasPieces(r)' /\ PiecesHaveLease(r)'
  BY DEF Unadmitted, PendingHasPieces, PiecesHaveLease, Idle
<1>2. MergeKeepsLease(r)' /\ MergeStatus(r)' /\ MergeProgress(r)'
  BY DEF MergeKeepsLease, MergeStatus, MergeProgress, InFlight
<1>3. JobWasHandedOver(r)' /\ LostIsIdle(r)' /\ AbortIsFinal(r)'
  BY DEF JobWasHandedOver, LostIsIdle, AbortIsFinal, Idle, Committed
<1>4. SourceForJob(r)' /\ LeaseHandedOver(r)' /\ NoPiece(r)'
  BY DEF SourceForJob, LeaseHandedOver, NoPiece, InFlight
<1> QED
  BY <1>1, <1>2, <1>3, <1>4

\* Every step but a restart keeps what each upload keeps by itself.
LEMMA LocalStep ==
    ASSUME TypeOK, TypeOK', \A s \in Session : Local(s), [Next]_vars, ~Restart
    PROVE  \A s \in Session : Local(s)'
<1> USE KeyFacts
<1>a. DataOK /\ SesOK
  BY TypeSplit
<1> USE DEF Local, Unadmitted, PendingHasPieces, PiecesHaveLease, MergeKeepsLease, MergeStatus,
            MergeProgress, JobWasHandedOver, LostIsIdle, AbortIsFinal, SourceForJob,
            LeaseHandedOver, NoPiece, Idle, Processing, InFlight, Active, Usable, Committed
<1>0. CASE UNCHANGED vars
  <2>1. \A r \in Session : Kept(r)
    BY <1>0 DEF vars, Kept
  <2> HIDE DEF Local
  <2> QED
    BY <2>1, KeptLocal
<1>1. ASSUME NEW s \in Session, Admit(s) PROVE \A r \in Session : Local(r)'
  <2>1. \A r \in Session \ {s} : Kept(r)
    BY <1>a, <1>1 DEF Kept, DataOK, SesOK, Admit
  <2>2. Local(s)'
    BY <1>a, <1>1 DEF DataOK, SesOK, SessionSet, Admit, NewSession
  <2> HIDE DEF Local
  <2> QED
    BY <2>1, <2>2, KeptLocal
<1>2. ASSUME NEW s \in Session, Query(s) PROVE \A r \in Session : Local(r)'
  <2>1. \A r \in Session \ {s} : Kept(r)
    BY <1>a, <1>2 DEF Kept, DataOK, SesOK, Query
  <2>2. Local(s)'
    BY <1>a, <1>2 DEF DataOK, SesOK, SessionSet, Query
  <2> HIDE DEF Local
  <2> QED
    BY <2>1, <2>2, KeptLocal
<1>3. ASSUME NEW s \in Session, Scan(s) PROVE \A r \in Session : Local(r)'
  <2>1. CASE Refused(s) /\ UNCHANGED source
    <3>1. \A r \in Session \ {s} : Kept(r)
      BY <1>a, <1>3, <2>1 DEF Kept, DataOK, SesOK, Scan, Refused
    <3>2. Local(s)'
      BY <1>a, <1>3, <2>1 DEF DataOK, SesOK, Scan, Refused, NewSession
    <3> HIDE DEF Local
    <3> QED
      BY <3>1, <3>2, KeptLocal
  <2>2. CASE /\ \A t \in Session : source[t] => ~Processing(t)
             /\ ses' = [ses EXCEPT ![s].admission = "scanned"]
             /\ source' = [t \in Session |-> FALSE]
    <3> SUFFICES ASSUME NEW r \in Session PROVE Local(r)'
      OBVIOUS
    <3>1. UNCHANGED <<lease, dir, row, job>> /\ source'[r] = FALSE
      BY <1>3, <2>2 DEF Scan
    <3>2. /\ ses'[r].status = ses[r].status /\ ses'[r].merge = ses[r].merge
          /\ ses'[r].registered = ses[r].registered /\ ses'[r].open = ses[r].open
          /\ ses'[r].reclaiming = ses[r].reclaiming /\ ses'[r].aborted = ses[r].aborted
          /\ ses'[r].handed = ses[r].handed /\ ses'[r].timer = ses[r].timer
          /\ ses'[r].abort = ses[r].abort /\ ses'[r].piece = ses[r].piece
      BY <1>a, <2>2 DEF SesOK, SessionSet
    <3>3. ses'[r].admission # "none" => ses[r].admission # "none"
      BY <1>a, <1>3, <2>2 DEF SesOK, SessionSet, Scan
    <3>4. source[r] => row[r] # "pending"
      BY <2>2
    <3> QED
      BY <1>a, <3>1, <3>2, <3>3, <3>4 DEF DataOK, SesOK
  <2> QED
    BY <1>3, <2>1, <2>2 DEF Scan
<1>4. ASSUME NEW s \in Session, Acquire(s) PROVE \A r \in Session : Local(r)'
  <2>1. \A r \in Session \ {s} : Kept(r)
    BY <1>a, <1>4 DEF Kept, DataOK, SesOK, Acquire, Refused, Register
  <2>2. Local(s)'
    BY <1>a, <1>4 DEF DataOK, SesOK, SessionSet, Acquire, Refused, Register, NewSession
  <2> HIDE DEF Local
  <2> QED
    BY <2>1, <2>2, KeptLocal
<1>5. ASSUME NEW s \in Session, PieceReceived(s) PROVE \A r \in Session : Local(r)'
  <2>1. \A r \in Session \ {s} : Kept(r)
    BY <1>a, <1>5 DEF Kept, DataOK, SesOK, PieceReceived
  <2>2. Local(s)'
    BY <1>a, <1>5 DEF DataOK, SesOK, SessionSet, PieceReceived
  <2> HIDE DEF Local
  <2> QED
    BY <2>1, <2>2, KeptLocal
<1>6. ASSUME NEW s \in Session, PieceSaved(s) PROVE \A r \in Session : Local(r)'
  <2>1. \A r \in Session \ {s} : Kept(r)
    BY <1>a, <1>6 DEF Kept, DataOK, SesOK, PieceSaved
  <2>2. Local(s)'
    BY <1>a, <1>6 DEF DataOK, SesOK, SessionSet, PieceSaved
  <2> HIDE DEF Local
  <2> QED
    BY <2>1, <2>2, KeptLocal
<1>7. ASSUME NEW s \in Session, triggerMerge(s) PROVE \A r \in Session : Local(r)'
  <2>1. \A r \in Session \ {s} : Kept(r)
    BY <1>a, <1>7 DEF Kept, DataOK, SesOK, triggerMerge
  <2>2. Local(s)'
    BY <1>a, <1>7 DEF DataOK, SesOK, SessionSet, triggerMerge
  <2> HIDE DEF Local
  <2> QED
    BY <2>1, <2>2, KeptLocal
<1>8. ASSUME NEW s \in Session, MergePieces(s) PROVE \A r \in Session : Local(r)'
  <2>1. \A r \in Session \ {s} : Kept(r)
    BY <1>a, <1>8 DEF Kept, DataOK, SesOK, MergePieces, Fails
  <2>2. Local(s)'
    BY <1>a, <1>8 DEF DataOK, SesOK, SessionSet, MergePieces, Fails
  <2> HIDE DEF Local
  <2> QED
    BY <2>1, <2>2, KeptLocal
<1>9. ASSUME NEW s \in Session, CreateRow(s) PROVE \A r \in Session : Local(r)'
  <2>1. \A r \in Session \ {s} : Kept(r)
    BY <1>a, <1>9 DEF Kept, DataOK, SesOK, CreateRow, Fails, Goes
  <2>2. Local(s)'
    BY <1>a, <1>9 DEF DataOK, SesOK, SessionSet, CreateRow, Fails, Goes
  <2> HIDE DEF Local
  <2> QED
    BY <2>1, <2>2, KeptLocal
<1>10. ASSUME NEW s \in Session, Rename(s) PROVE \A r \in Session : Local(r)'
  <2>1. \A r \in Session \ {s} : Kept(r)
    BY <1>a, <1>10 DEF Kept, DataOK, SesOK, Rename, Fails
  <2>2. Local(s)'
    BY <1>a, <1>10 DEF DataOK, SesOK, SessionSet, Rename, Fails
  <2> HIDE DEF Local
  <2> QED
    BY <2>1, <2>2, KeptLocal
<1>11. ASSUME NEW s \in Session, DropPieces(s) PROVE \A r \in Session : Local(r)'
  <2>1. \A r \in Session \ {s} : Kept(r)
    BY <1>a, <1>11 DEF Kept, DataOK, SesOK, DropPieces, Fails, Goes
  <2>2. Local(s)'
    BY <1>a, <1>11 DEF DataOK, SesOK, SessionSet, DropPieces, Fails, Goes
  <2> HIDE DEF Local
  <2> QED
    BY <2>1, <2>2, KeptLocal
<1>12. ASSUME NEW s \in Session, Add(s) PROVE \A r \in Session : Local(r)'
  <2>1. \A r \in Session \ {s} : Kept(r)
    BY <1>a, <1>12 DEF Kept, DataOK, SesOK, Add, Fails, Goes, Active
  <2>2. Local(s)'
    <3>1. CASE Fails(s) /\ lease' = (IF lease = JobKey(s) THEN SessionKey(s) ELSE lease)
                       /\ UNCHANGED job
      BY <1>a, <1>12, <3>1 DEF DataOK, SesOK, SessionSet, Add, Fails
    <3>2. CASE /\ job' = [job EXCEPT ![s] = "waiting"]
               /\ Goes(s, IF ses[s].aborted \/ ~Active(s) THEN "removing" ELSE "ending")
               /\ UNCHANGED lease
      BY <1>a, <1>12, <3>2 DEF DataOK, SesOK, SessionSet, Add, Goes
    <3> QED
      BY <1>12, <3>1, <3>2 DEF Add
  <2> HIDE DEF Local
  <2> QED
    BY <2>1, <2>2, KeptLocal
<1>13. ASSUME NEW s \in Session, RemoveJob(s) PROVE \A r \in Session : Local(r)'
  <2>1. \A r \in Session \ {s} : Kept(r)
    BY <1>a, <1>13 DEF Kept, DataOK, SesOK, RemoveJob, Goes
  <2>2. Local(s)'
    BY <1>a, <1>13 DEF DataOK, SesOK, SessionSet, RemoveJob, Goes
  <2> HIDE DEF Local
  <2> QED
    BY <2>1, <2>2, KeptLocal
<1>14. ASSUME NEW s \in Session, CleanUp(s) PROVE \A r \in Session : Local(r)'
  <2>1. \A r \in Session \ {s} : Kept(r)
    BY <1>a, <1>14 DEF Kept, DataOK, SesOK, CleanUp, Fails, Undo, Freed
  <2>2. Local(s)'
    BY <1>a, <1>14 DEF DataOK, SesOK, SessionSet, CleanUp, Fails, Undo, Freed
  <2> HIDE DEF Local
  <2> QED
    BY <2>1, <2>2, KeptLocal
<1>15. ASSUME NEW s \in Session, EndMerge(s) PROVE \A r \in Session : Local(r)'
  <2>1. \A r \in Session \ {s} : Kept(r)
    BY <1>a, <1>15 DEF Kept, DataOK, SesOK, EndMerge
  <2>2. Local(s)'
    BY <1>a, <1>15 DEF DataOK, SesOK, SessionSet, EndMerge
  <2> HIDE DEF Local
  <2> QED
    BY <2>1, <2>2, KeptLocal
<1>16. ASSUME NEW s \in Session, Deadline(s) PROVE \A r \in Session : Local(r)'
  <2>1. \A r \in Session \ {s} : Kept(r)
    BY <1>a, <1>16 DEF Kept, DataOK, SesOK, Deadline
  <2>2. Local(s)'
    BY <1>a, <1>16 DEF DataOK, SesOK, SessionSet, Deadline
  <2> HIDE DEF Local
  <2> QED
    BY <2>1, <2>2, KeptLocal
<1>17. ASSUME NEW s \in Session, Cleanup(s) PROVE \A r \in Session : Local(r)'
  <2>1. \A r \in Session \ {s} : Kept(r)
    BY <1>a, <1>17 DEF Kept, DataOK, SesOK, Cleanup, Freed
  <2>2. Local(s)'
    BY <1>a, <1>17 DEF DataOK, SesOK, SessionSet, Cleanup, Freed
  <2> HIDE DEF Local
  <2> QED
    BY <2>1, <2>2, KeptLocal
<1>18. ASSUME NEW s \in Session, DirectoryGone(s) PROVE \A r \in Session : Local(r)'
  <2>1. \A r \in Session \ {s} : Kept(r)
    BY <1>a, <1>18 DEF Kept, DataOK, SesOK, DirectoryGone
  <2>2. Local(s)'
    BY <1>a, <1>18 DEF DataOK, SesOK, SessionSet, DirectoryGone
  <2> HIDE DEF Local
  <2> QED
    BY <2>1, <2>2, KeptLocal
<1>19. ASSUME NEW s \in Session, Abort(s) PROVE \A r \in Session : Local(r)'
  <2>1. \A r \in Session \ {s} : Kept(r)
    BY <1>a, <1>19 DEF Kept, DataOK, SesOK, Abort
  <2>2. Local(s)'
    BY <1>a, <1>19 DEF DataOK, SesOK, SessionSet, Abort
  <2> HIDE DEF Local
  <2> QED
    BY <2>1, <2>2, KeptLocal
<1>20. ASSUME NEW s \in Session, AbortGoesOn(s) PROVE \A r \in Session : Local(r)'
  <2>1. \A r \in Session \ {s} : Kept(r)
    BY <1>a, <1>20 DEF Kept, DataOK, SesOK, AbortGoesOn, Undo, Freed
  <2>2. Local(s)'
    BY <1>a, <1>20 DEF DataOK, SesOK, SessionSet, AbortGoesOn, Undo, Freed
  <2> HIDE DEF Local
  <2> QED
    BY <2>1, <2>2, KeptLocal
<1>21. ASSUME NEW s \in Session, AbortEnds(s) PROVE \A r \in Session : Local(r)'
  <2>1. \A r \in Session \ {s} : Kept(r)
    BY <1>a, <1>21 DEF Kept, DataOK, SesOK, AbortEnds, Freed
  <2>2. Local(s)'
    BY <1>a, <1>21 DEF DataOK, SesOK, SessionSet, AbortEnds, Freed
  <2> HIDE DEF Local
  <2> QED
    BY <2>1, <2>2, KeptLocal
<1>22. ASSUME NEW s \in Session, Reclaim(s) PROVE \A r \in Session : Local(r)'
  <2>1. \A r \in Session \ {s} : Kept(r)
    BY <1>a, <1>22 DEF Kept, DataOK, SesOK, Reclaim
  <2>2. Local(s)'
    BY <1>a, <1>22 DEF DataOK, SesOK, SessionSet, Reclaim
  <2> HIDE DEF Local
  <2> QED
    BY <2>1, <2>2, KeptLocal
<1>23. ASSUME NEW s \in Session, Reclaimed(s) PROVE \A r \in Session : Local(r)'
  <2>1. \A r \in Session \ {s} : Kept(r)
    BY <1>a, <1>23 DEF Kept, DataOK, SesOK, Reclaimed, Freed
  <2>2. Local(s)'
    BY <1>a, <1>23 DEF DataOK, SesOK, SessionSet, Reclaimed, Freed
  <2> HIDE DEF Local
  <2> QED
    BY <2>1, <2>2, KeptLocal
<1>24. ASSUME NEW s \in Session, ReclaimFailed(s) PROVE \A r \in Session : Local(r)'
  <2>1. \A r \in Session \ {s} : Kept(r)
    BY <1>a, <1>24 DEF Kept, DataOK, SesOK, ReclaimFailed
  <2>2. Local(s)'
    BY <1>a, <1>24 DEF DataOK, SesOK, SessionSet, ReclaimFailed
  <2> HIDE DEF Local
  <2> QED
    BY <2>1, <2>2, KeptLocal
<1>25. ASSUME NEW s \in Session, releaseOrphanSessionLease(s) PROVE \A r \in Session : Local(r)'
  <2>1. \A r \in Session \ {s} : Kept(r)
    BY <1>a, <1>25 DEF Kept, DataOK, SesOK, releaseOrphanSessionLease
  <2>2. Local(s)'
    BY <1>a, <1>25 DEF DataOK, SesOK, SessionSet, releaseOrphanSessionLease
  <2> HIDE DEF Local
  <2> QED
    BY <2>1, <2>2, KeptLocal
<1>26. ASSUME NEW s \in Session, JobBegins(s) PROVE \A r \in Session : Local(r)'
  <2>1. \A r \in Session \ {s} : Kept(r)
    BY <1>a, <1>26 DEF Kept, DataOK, SesOK, JobBegins
  <2>2. Local(s)'
    BY <1>a, <1>26 DEF DataOK, SesOK, SessionSet, JobBegins
  <2> HIDE DEF Local
  <2> QED
    BY <2>1, <2>2, KeptLocal
<1>27. ASSUME NEW s \in Session, JobWithoutSource(s) PROVE \A r \in Session : Local(r)'
  <2>1. \A r \in Session \ {s} : Kept(r)
    BY <1>a, <1>27 DEF Kept, DataOK, SesOK, JobWithoutSource, EndJob, Freed
  <2>2. Local(s)'
    BY <1>a, <1>27 DEF DataOK, SesOK, SessionSet, JobWithoutSource, EndJob, Freed
  <2> HIDE DEF Local
  <2> QED
    BY <2>1, <2>2, KeptLocal
<1>28. ASSUME NEW s \in Session, JobFails(s) PROVE \A r \in Session : Local(r)'
  <2>1. \A r \in Session \ {s} : Kept(r)
    BY <1>a, <1>28 DEF Kept, DataOK, SesOK, JobFails, EndJob, Freed
  <2>2. Local(s)'
    BY <1>a, <1>28 DEF DataOK, SesOK, SessionSet, JobFails, EndJob, Freed
  <2> HIDE DEF Local
  <2> QED
    BY <2>1, <2>2, KeptLocal
<1>29. ASSUME NEW s \in Session, JobCommits(s) PROVE \A r \in Session : Local(r)'
  <2>1. \A r \in Session \ {s} : Kept(r)
    BY <1>a, <1>29 DEF Kept, DataOK, SesOK, JobCommits
  <2>2. Local(s)'
    BY <1>a, <1>29 DEF DataOK, SesOK, SessionSet, JobCommits
  <2> HIDE DEF Local
  <2> QED
    BY <2>1, <2>2, KeptLocal
<1>30. ASSUME NEW s \in Session, JobEnds(s) PROVE \A r \in Session : Local(r)'
  <2>1. \A r \in Session \ {s} : Kept(r)
    BY <1>a, <1>30 DEF Kept, DataOK, SesOK, JobEnds, EndJob, Freed
  <2>2. Local(s)'
    BY <1>a, <1>30 DEF DataOK, SesOK, SessionSet, JobEnds, EndJob, Freed
  <2> HIDE DEF Local
  <2> QED
    BY <2>1, <2>2, KeptLocal
<1>31. ASSUME NEW s \in Session, Recover(s) PROVE \A r \in Session : Local(r)'
  <2>1. \A r \in Session \ {s} : Kept(r)
    BY <1>a, <1>31 DEF Kept, DataOK, SesOK, Recover
  <2>2. Local(s)'
    BY <1>a, <1>31 DEF DataOK, SesOK, SessionSet, Recover
  <2> HIDE DEF Local
  <2> QED
    BY <2>1, <2>2, KeptLocal
<1> HIDE DEF Local
<1> QED
  BY <1>0, <1>1, <1>2, <1>3, <1>4, <1>5, <1>6, <1>7, <1>8, <1>9, <1>10, <1>11, <1>12, <1>13, <1>14, <1>15, <1>16, <1>17, <1>18, <1>19, <1>20, <1>21, <1>22, <1>23, <1>24, <1>25, <1>26, <1>27, <1>28, <1>29, <1>30, <1>31 DEF Next, MergeStep

\* A restart loses every session and keeps sources, rows and jobs.
LEMMA LocalRestart ==
    ASSUME TypeOK, \A s \in Session : Local(s), Restart, NEW s \in Session
    PROVE  Local(s)'
<1> USE KeyFacts
<1>a. DataOK /\ SesOK
  BY TypeSplit
<1>1. /\ lease' = NoLease /\ dir'[s] = "none" /\ source'[s] = source[s] /\ row'[s] = row[s]
      /\ job'[s] = IF job[s] \in {"uploading", "committed"} THEN "waiting" ELSE job[s]
  BY DEF Restart
<1>2. CASE ses[s] = NewSession
  <2>1. ses'[s] = NewSession
    BY <1>2 DEF Restart
  <2> QED
    BY <1>a, <1>1, <1>2, <2>1 DEF DataOK, NewSession, Local, Unadmitted, PendingHasPieces,
       PiecesHaveLease, MergeKeepsLease, MergeStatus, MergeProgress, JobWasHandedOver,
       LostIsIdle, AbortIsFinal, SourceForJob, LeaseHandedOver, NoPiece, Idle, InFlight,
       Committed
<1>3. CASE ses[s] # NewSession
  <2>1. ses'[s] = [NewSession EXCEPT !.status = "lost"]
    BY <1>3 DEF Restart
  <2> QED
    BY <1>a, <1>1, <2>1 DEF DataOK, NewSession, Local, Unadmitted, PendingHasPieces,
       PiecesHaveLease, MergeKeepsLease, MergeStatus, MergeProgress, JobWasHandedOver,
       LostIsIdle, AbortIsFinal, SourceForJob, LeaseHandedOver, NoPiece, Idle, InFlight,
       Committed
<1> QED
  BY <1>2, <1>3

----------------------------------------------------------------------------
\* Two uploads never occupy the disk together

\* The upload r comes no nearer to occupying the disk.
Calm(r) ==
    /\ dir'[r] = "present" => dir[r] = "present"
    /\ source'[r] => source[r]
    /\ ses'[r].merge = "renaming" => ses[r].merge = "renaming"
    /\ ses'[r].merge \in {"pieces", "creating"} /\ ~ses'[r].aborted =>
          ses[r].merge \in {"pieces", "creating"} /\ ~ses[r].aborted
    /\ ses'[r].admission = "none" \/ ses'[r].admission = ses[r].admission

LEMMA CalmPairs ==
    ASSUME OneOccupant, AdmissionIsClear, \A r \in Session : Calm(r)
    PROVE  OneOccupant' /\ AdmissionIsClear'
<1>1. OneOccupant'
  BY DEF OneOccupant, Occupies, Calm
<1>2. AdmissionIsClear'
  BY DEF AdmissionIsClear, Calm
<1> QED
  BY <1>1, <1>2

LEMMA PairStep ==
    ASSUME Inv, [Next]_vars
    PROVE  OneOccupant' /\ AdmissionIsClear'
<1> USE KeyFacts
<1>a. DataOK /\ SesOK /\ OneOccupant /\ AdmissionIsClear /\ \A s \in Session : Local(s)
  BY TypeSplit DEF Inv
<1>0. CASE UNCHANGED vars
  BY <1>0, <1>a DEF vars, OneOccupant, Occupies, AdmissionIsClear
<1>1. ASSUME NEW s \in Session, Admit(s) PROVE OneOccupant' /\ AdmissionIsClear'
  <2>1. OneOccupant'
    BY <1>a, <1>1 DEF SesOK, SessionSet, Admit, OneOccupant, Occupies
  <2>2. \A r \in Session : ses[r].merge \in {"pieces", "creating"} => ses[r].aborted
    BY <1>a, <1>1 DEF Admit, Local, MergeKeepsLease
  <2>3. /\ ses'[s].admission = "asking"
        /\ \A r \in Session : /\ ses'[r].merge = ses[r].merge /\ ses'[r].aborted = ses[r].aborted
                             /\ r # s => ses'[r] = ses[r]
    BY <1>a, <1>1 DEF SesOK, SessionSet, Admit
  <2>4. AdmissionIsClear'
    BY <1>a, <1>1, <2>2, <2>3 DEF Admit, AdmissionIsClear
  <2> QED
    BY <2>1, <2>4
<1>2. ASSUME NEW s \in Session, Query(s) PROVE OneOccupant' /\ AdmissionIsClear'
  <2>1. OneOccupant'
    BY <1>a, <1>2 DEF SesOK, SessionSet, Query, OneOccupant, Occupies
  <2>2. \A r \in Session : ses[r].merge = "renaming" => Processing(r)
    BY <1>a DEF Local, MergeProgress, Processing
  <2>3. /\ ses[s].admission = "asking"
        /\ ses'[s].admission = IF \E t \in Session : Processing(t) THEN "found" ELSE "clear"
        /\ \A r \in Session : /\ ses'[r].merge = ses[r].merge /\ ses'[r].aborted = ses[r].aborted
                             /\ r # s => ses'[r] = ses[r]
    BY <1>a, <1>2 DEF SesOK, SessionSet, Query
  <2>4. AdmissionIsClear'
    BY <1>a, <1>2, <2>2, <2>3 DEF Query, AdmissionIsClear
  <2> QED
    BY <2>1, <2>4
<1>3. ASSUME NEW s \in Session, Scan(s) PROVE OneOccupant' /\ AdmissionIsClear'
  <2>1. CASE Refused(s) /\ UNCHANGED source
    <3>1. \A r \in Session : Calm(r)
      BY <1>a, <1>3, <2>1 DEF SesOK, Scan, Refused, NewSession, Calm
    <3> QED
      BY <1>a, <3>1, CalmPairs
  <2>2. CASE /\ ses[s].admission = "clear"
             /\ ses' = [ses EXCEPT ![s].admission = "scanned"]
             /\ source' = [t \in Session |-> FALSE]
    <3>1. \A r \in Session : /\ ses'[r].merge = ses[r].merge /\ ses'[r].aborted = ses[r].aborted
                            /\ r # s => ses'[r] = ses[r]
      BY <1>a, <2>2 DEF SesOK, SessionSet
    <3>2. OneOccupant'
      BY <1>a, <1>3, <2>2, <3>1 DEF Scan, OneOccupant, Occupies
    <3>3. AdmissionIsClear'
      BY <1>a, <2>2, <3>1 DEF AdmissionIsClear
    <3> QED
      BY <3>2, <3>3
  <2> QED
    BY <1>3, <2>1, <2>2 DEF Scan
<1>4. ASSUME NEW s \in Session, Acquire(s) PROVE OneOccupant' /\ AdmissionIsClear'
  <2>1. CASE Refused(s) /\ UNCHANGED <<lease, dir>>
    <3>1. \A r \in Session : Calm(r)
      BY <1>a, <1>4, <2>1 DEF SesOK, Acquire, Refused, NewSession, Calm
    <3> QED
      BY <1>a, <3>1, CalmPairs
  <2>2. CASE lease = NoLease /\ Register(s)
    <3>1. \A r \in Session : ~Occupies(r)
      BY <1>a, <1>4, <2>2 DEF Acquire, AdmissionIsClear, Occupies, Local, PiecesHaveLease
    <3>2. /\ ses'[s].admission = "none" /\ ses'[s].merge = ses[s].merge
          /\ ses'[s].aborted = ses[s].aborted /\ UNCHANGED source
          /\ \A r \in Session : r # s => ses'[r] = ses[r] /\ dir'[r] = dir[r]
      BY <1>a, <1>4, <2>2 DEF SesOK, DataOK, SessionSet, Acquire, Register
    <3>3. OneOccupant'
      BY <3>1, <3>2 DEF OneOccupant, Occupies
    <3>4. AdmissionIsClear'
      BY <1>a, <3>2 DEF AdmissionIsClear
    <3> QED
      BY <3>3, <3>4
  <2> QED
    BY <1>4, <2>1, <2>2 DEF Acquire
<1>5. ASSUME NEW s \in Session, PieceReceived(s) PROVE OneOccupant' /\ AdmissionIsClear'
  <2>1. \A r \in Session : Calm(r)
    BY <1>a, <1>5 DEF DataOK, SesOK, SessionSet, Calm, PieceReceived
  <2> QED
    BY <1>a, <2>1, CalmPairs
<1>6. ASSUME NEW s \in Session, PieceSaved(s) PROVE OneOccupant' /\ AdmissionIsClear'
  <2>1. \A r \in Session : Calm(r)
    BY <1>a, <1>6 DEF DataOK, SesOK, SessionSet, Calm, PieceSaved
  <2> QED
    BY <1>a, <2>1, CalmPairs
<1>7. ASSUME NEW s \in Session, triggerMerge(s) PROVE OneOccupant' /\ AdmissionIsClear'
  <2>1. /\ ses'[s].merge = "pieces" /\ ses'[s].admission = ses[s].admission
        /\ \A r \in Session : r # s => ses'[r] = ses[r]
        /\ UNCHANGED <<dir, source>>
    BY <1>a, <1>7 DEF SesOK, SessionSet, triggerMerge
  <2>2. \A r \in Session : ses'[r].admission = "none"
    BY <1>7, <2>1 DEF triggerMerge, AdmissionsAreShort
  <2>3. OneOccupant'
    BY <1>a, <2>1 DEF OneOccupant, Occupies
  <2>4. AdmissionIsClear'
    BY <2>2 DEF AdmissionIsClear
  <2> QED
    BY <2>3, <2>4
<1>8. ASSUME NEW s \in Session, MergePieces(s) PROVE OneOccupant' /\ AdmissionIsClear'
  <2>1. \A r \in Session : Calm(r)
    BY <1>a, <1>8 DEF DataOK, SesOK, SessionSet, Calm, MergePieces, Fails
  <2> QED
    BY <1>a, <2>1, CalmPairs
<1>9. ASSUME NEW s \in Session, CreateRow(s) PROVE OneOccupant' /\ AdmissionIsClear'
  <2>1. CASE Goes(s, "renaming") /\ ~ses[s].aborted
    <3>1. /\ ses'[s].merge = "renaming"
          /\ \A r \in Session : ses'[r].admission = ses[r].admission /\ (r # s => ses'[r] = ses[r])
          /\ UNCHANGED <<dir, source>>
      BY <1>a, <1>9, <2>1 DEF SesOK, SessionSet, CreateRow, Goes
    <3>2. Occupies(s)
      BY <1>a, <1>9, <2>1 DEF CreateRow, Local, MergeKeepsLease, Occupies
    <3>3. \A r \in Session : ses[r].admission = "none"
      BY <1>a, <1>9, <2>1 DEF CreateRow, AdmissionIsClear
    <3>4. OneOccupant'
      BY <1>a, <3>1, <3>2 DEF OneOccupant, Occupies
    <3>5. AdmissionIsClear'
      BY <3>1, <3>3 DEF AdmissionIsClear
    <3> QED
      BY <3>4, <3>5
  <2>2. CASE Fails(s)
    <3>1. \A r \in Session : Calm(r)
      BY <1>a, <1>9, <2>2 DEF SesOK, SessionSet, CreateRow, Fails, Calm
    <3> QED
      BY <1>a, <3>1, CalmPairs
  <2> QED
    BY <1>9, <2>1, <2>2 DEF CreateRow
<1>10. ASSUME NEW s \in Session, Rename(s) PROVE OneOccupant' /\ AdmissionIsClear'
  <2>1. CASE Fails(s) /\ UNCHANGED source
    <3>1. \A r \in Session : Calm(r)
      BY <1>a, <1>10, <2>1 DEF SesOK, SessionSet, Rename, Fails, Calm
    <3> QED
      BY <1>a, <3>1, CalmPairs
  <2>2. CASE /\ source' = [source EXCEPT ![s] = TRUE]
             /\ ses' = [ses EXCEPT ![s].merge = "dropping", ![s].handed = TRUE]
    <3>1. /\ ses'[s].merge = "dropping" /\ ses'[s].admission = ses[s].admission
          /\ \A r \in Session : r # s => ses'[r] = ses[r]
      BY <1>a, <2>2 DEF SesOK, SessionSet
    <3>2. ses[s].merge = "renaming"
      BY <1>10 DEF Rename
    <3>3. \A r \in Session : Occupies(r)' => Occupies(r)
      BY <1>a, <1>10, <2>2, <3>1, <3>2 DEF DataOK, Rename, Occupies
    <3>4. OneOccupant'
      BY <1>a, <3>3 DEF OneOccupant
    <3>5. \A r \in Session : ses[r].admission \notin {"clear", "scanned"}
      BY <1>a, <3>2 DEF AdmissionIsClear
    <3>6. AdmissionIsClear'
      BY <1>a, <3>1, <3>5 DEF AdmissionIsClear
    <3> QED
      BY <3>4, <3>6
  <2> QED
    BY <1>10, <2>1, <2>2 DEF Rename
<1>11. ASSUME NEW s \in Session, DropPieces(s) PROVE OneOccupant' /\ AdmissionIsClear'
  <2>1. \A r \in Session : Calm(r)
    BY <1>a, <1>11 DEF DataOK, SesOK, SessionSet, Calm, DropPieces, Fails, Goes
  <2> QED
    BY <1>a, <2>1, CalmPairs
<1>12. ASSUME NEW s \in Session, Add(s) PROVE OneOccupant' /\ AdmissionIsClear'
  <2>1. \A r \in Session : Calm(r)
    BY <1>a, <1>12 DEF DataOK, SesOK, SessionSet, Calm, Add, Fails, Goes, Active
  <2> QED
    BY <1>a, <2>1, CalmPairs
<1>13. ASSUME NEW s \in Session, RemoveJob(s) PROVE OneOccupant' /\ AdmissionIsClear'
  <2>1. \A r \in Session : Calm(r)
    BY <1>a, <1>13 DEF DataOK, SesOK, SessionSet, Calm, RemoveJob, Goes
  <2> QED
    BY <1>a, <2>1, CalmPairs
<1>14. ASSUME NEW s \in Session, CleanUp(s) PROVE OneOccupant' /\ AdmissionIsClear'
  <2>1. \A r \in Session : Calm(r)
    BY <1>a, <1>14 DEF DataOK, SesOK, SessionSet, Calm, CleanUp, Fails, Undo, Freed
  <2> QED
    BY <1>a, <2>1, CalmPairs
<1>15. ASSUME NEW s \in Session, EndMerge(s) PROVE OneOccupant' /\ AdmissionIsClear'
  <2>1. \A r \in Session : Calm(r)
    BY <1>a, <1>15 DEF DataOK, SesOK, SessionSet, Calm, EndMerge
  <2> QED
    BY <1>a, <2>1, CalmPairs
<1>16. ASSUME NEW s \in Session, Deadline(s) PROVE OneOccupant' /\ AdmissionIsClear'
  <2>1. \A r \in Session : Calm(r)
    BY <1>a, <1>16 DEF DataOK, SesOK, SessionSet, Calm, Deadline
  <2> QED
    BY <1>a, <2>1, CalmPairs
<1>17. ASSUME NEW s \in Session, Cleanup(s) PROVE OneOccupant' /\ AdmissionIsClear'
  <2>1. \A r \in Session : Calm(r)
    BY <1>a, <1>17 DEF DataOK, SesOK, SessionSet, Calm, Cleanup, Freed
  <2> QED
    BY <1>a, <2>1, CalmPairs
<1>18. ASSUME NEW s \in Session, DirectoryGone(s) PROVE OneOccupant' /\ AdmissionIsClear'
  <2>1. \A r \in Session : Calm(r)
    BY <1>a, <1>18 DEF DataOK, SesOK, SessionSet, Calm, DirectoryGone
  <2> QED
    BY <1>a, <2>1, CalmPairs
<1>19. ASSUME NEW s \in Session, Abort(s) PROVE OneOccupant' /\ AdmissionIsClear'
  <2>1. \A r \in Session : Calm(r)
    BY <1>a, <1>19 DEF DataOK, SesOK, SessionSet, Calm, Abort
  <2> QED
    BY <1>a, <2>1, CalmPairs
<1>20. ASSUME NEW s \in Session, AbortGoesOn(s) PROVE OneOccupant' /\ AdmissionIsClear'
  <2>1. \A r \in Session : Calm(r)
    BY <1>a, <1>20 DEF DataOK, SesOK, SessionSet, Calm, AbortGoesOn, Undo, Freed
  <2> QED
    BY <1>a, <2>1, CalmPairs
<1>21. ASSUME NEW s \in Session, AbortEnds(s) PROVE OneOccupant' /\ AdmissionIsClear'
  <2>1. \A r \in Session : Calm(r)
    BY <1>a, <1>21 DEF DataOK, SesOK, SessionSet, Calm, AbortEnds, Freed
  <2> QED
    BY <1>a, <2>1, CalmPairs
<1>22. ASSUME NEW s \in Session, Reclaim(s) PROVE OneOccupant' /\ AdmissionIsClear'
  <2>1. \A r \in Session : Calm(r)
    BY <1>a, <1>22 DEF DataOK, SesOK, SessionSet, Calm, Reclaim
  <2> QED
    BY <1>a, <2>1, CalmPairs
<1>23. ASSUME NEW s \in Session, Reclaimed(s) PROVE OneOccupant' /\ AdmissionIsClear'
  <2>1. \A r \in Session : Calm(r)
    BY <1>a, <1>23 DEF DataOK, SesOK, SessionSet, Calm, Reclaimed, Freed
  <2> QED
    BY <1>a, <2>1, CalmPairs
<1>24. ASSUME NEW s \in Session, ReclaimFailed(s) PROVE OneOccupant' /\ AdmissionIsClear'
  <2>1. \A r \in Session : Calm(r)
    BY <1>a, <1>24 DEF DataOK, SesOK, SessionSet, Calm, ReclaimFailed
  <2> QED
    BY <1>a, <2>1, CalmPairs
<1>25. ASSUME NEW s \in Session, releaseOrphanSessionLease(s) PROVE OneOccupant' /\ AdmissionIsClear'
  <2>1. \A r \in Session : Calm(r)
    BY <1>a, <1>25 DEF DataOK, SesOK, SessionSet, Calm, releaseOrphanSessionLease
  <2> QED
    BY <1>a, <2>1, CalmPairs
<1>26. ASSUME NEW s \in Session, JobBegins(s) PROVE OneOccupant' /\ AdmissionIsClear'
  <2>1. \A r \in Session : Calm(r)
    BY <1>a, <1>26 DEF DataOK, SesOK, SessionSet, Calm, JobBegins
  <2> QED
    BY <1>a, <2>1, CalmPairs
<1>27. ASSUME NEW s \in Session, JobWithoutSource(s) PROVE OneOccupant' /\ AdmissionIsClear'
  <2>1. \A r \in Session : Calm(r)
    BY <1>a, <1>27 DEF DataOK, SesOK, SessionSet, Calm, JobWithoutSource, EndJob, Freed
  <2> QED
    BY <1>a, <2>1, CalmPairs
<1>28. ASSUME NEW s \in Session, JobFails(s) PROVE OneOccupant' /\ AdmissionIsClear'
  <2>1. \A r \in Session : Calm(r)
    BY <1>a, <1>28 DEF DataOK, SesOK, SessionSet, Calm, JobFails, EndJob, Freed
  <2> QED
    BY <1>a, <2>1, CalmPairs
<1>29. ASSUME NEW s \in Session, JobCommits(s) PROVE OneOccupant' /\ AdmissionIsClear'
  <2>1. \A r \in Session : Calm(r)
    BY <1>a, <1>29 DEF DataOK, SesOK, SessionSet, Calm, JobCommits
  <2> QED
    BY <1>a, <2>1, CalmPairs
<1>30. ASSUME NEW s \in Session, JobEnds(s) PROVE OneOccupant' /\ AdmissionIsClear'
  <2>1. \A r \in Session : Calm(r)
    BY <1>a, <1>30 DEF DataOK, SesOK, SessionSet, Calm, JobEnds, EndJob, Freed
  <2> QED
    BY <1>a, <2>1, CalmPairs
<1>31. ASSUME NEW s \in Session, Recover(s) PROVE OneOccupant' /\ AdmissionIsClear'
  <2>1. \A r \in Session : Calm(r)
    BY <1>a, <1>31 DEF DataOK, SesOK, SessionSet, Calm, Recover
  <2> QED
    BY <1>a, <2>1, CalmPairs
<1>32. ASSUME Restart PROVE OneOccupant' /\ AdmissionIsClear'
  <2>1. \A r \in Session : Calm(r)
    BY <1>a, <1>32 DEF SesOK, SessionSet, NewSession, Calm, Restart
  <2> QED
    BY <1>a, <2>1, CalmPairs
<1> QED
  BY <1>0, <1>1, <1>2, <1>3, <1>4, <1>5, <1>6, <1>7, <1>8, <1>9, <1>10, <1>11, <1>12, <1>13, <1>14, <1>15, <1>16, <1>17, <1>18, <1>19, <1>20, <1>21, <1>22, <1>23, <1>24, <1>25, <1>26, <1>27, <1>28, <1>29, <1>30, <1>31, <1>32 DEF Next, MergeStep

----------------------------------------------------------------------------
\* The theorems

\* Inv holds initially and every step keeps it.
THEOREM Invariant == Spec => []Inv
<1>1. Init => Inv
  <2> SUFFICES ASSUME Init PROVE Inv
    OBVIOUS
  <2> USE KeyFacts DEF Init
  <2>1. NewSession \in SessionSet
    BY DEF NewSession, SessionSet
  <2>2. DataOK /\ SesOK
    BY <2>1, CrashAssumption DEF DataOK, SesOK
  <2>3. \A s \in Session : Local(s)
    BY DEF NewSession, Local, Unadmitted, PendingHasPieces, PiecesHaveLease, MergeKeepsLease,
       MergeStatus, MergeProgress, JobWasHandedOver, LostIsIdle, AbortIsFinal, SourceForJob,
       LeaseHandedOver, NoPiece, Idle, InFlight, Committed
  <2>4. OneOccupant /\ AdmissionIsClear
    BY DEF NewSession, OneOccupant, AdmissionIsClear, Occupies
  <2> QED
    BY <2>2, <2>3, <2>4, TypeSplit DEF Inv
<1>2. Inv /\ [Next]_vars => Inv'
  <2> SUFFICES ASSUME Inv, [Next]_vars PROVE Inv'
    OBVIOUS
  <2>1. TypeOK'
    BY DataStep, SesStep, TypeSplitPrime DEF Inv
  <2>2. \A s \in Session : Local(s)'
    BY <2>1, LocalStep, LocalRestart DEF Inv
  <2>3. OneOccupant' /\ AdmissionIsClear'
    BY PairStep
  <2> QED
    BY <2>1, <2>2, <2>3 DEF Inv
<1> QED
  BY <1>1, <1>2, PTL DEF Spec

\* Every variable keeps its type, and no piece is being written into a directory
\* that reclaimExpiredSessions is removing.
THEOREM StateWellFormed == Spec => []WellFormed
<1>1. Inv => WellFormed
  BY DEF Inv, Local, NoPiece, WellFormed, NoPieceIntoReclaimed
<1> QED
  BY <1>1, Invariant, PTL

\* What the strict budget is for: the bytes of at most one upload are on the
\* temporary disk, through aborts, deadlines, failed queueing and restarts.
THEOREM OneUploadOnDisk == Spec => []OneLifecycle
<1>1. ASSUME Inv PROVE OneLifecycle
  <2> DEFINE S == {s \in Session : dir[s] = "present" \/ source[s]}
  <2>1. \A s, t \in S : s = t
    BY <1>1 DEF Inv, OneOccupant, Occupies
  <2>2. CASE S = {}
    BY <2>2, FS_EmptySet DEF OneLifecycle
  <2>3. CASE S # {}
    <3>1. PICK s \in S : TRUE
      BY <2>3
    <3>2. S = {s}
      BY <2>1, <3>1
    <3>3. Cardinality(S) = 1
      BY <3>2, FS_Singleton
    <3> QED
      BY <3>3 DEF OneLifecycle
  <2> QED
    BY <2>2, <2>3
<1> QED
  BY <1>1, Invariant, PTL

\* An upload whose abort() returned is over: nothing of it is queued or commits,
\* though its merge may still have been running when the answer was sent.
THEOREM CancelIsFinal == Spec => []CancelledStaysCancelled
<1>1. Inv => CancelledStaysCancelled
  BY DEF Inv, Local, AbortIsFinal, CancelledStaysCancelled
<1> QED
  BY <1>1, Invariant, PTL

\* No admission takes the source of a job that still has to upload for a leftover.
THEOREM JobsKeepTheirSource == Spec => []JobHasSource
<1>1. Inv => JobHasSource
  BY DEF Inv, Local, SourceForJob, JobHasSource
<1> QED
  BY <1>1, Invariant, PTL

\* A session that holds the lease while merging or uploading still has its
\* deadline to come.
THEOREM SessionLeaseEnds == Spec => []SessionLeaseHasDeadline
<1>1. Inv => SessionLeaseHasDeadline
  BY DEF Inv, Local, MergeStatus, LeaseHandedOver, InFlight, SessionLeaseHasDeadline
<1> QED
  BY <1>1, Invariant, PTL
=============================================================================
