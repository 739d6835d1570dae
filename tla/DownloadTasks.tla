---------------------------- MODULE DownloadTasks ----------------------------
(***************************************************************************)
(* Two-phase downloads: DownloadTaskService                                *)
(* (backend/src/file/download-task.service.ts).                            *)
(*                                                                         *)
(* A task asks the resource coordinator for disk space, holds the          *)
(* reservation it gets, and issues a one-time ticket.  The GET of the body *)
(* brings the ticket back; the task then passes its reservation to the     *)
(* coordinator's hand-off pool, from which the body's own reserve() takes  *)
(* it.  Tasks live in memory; their last status is also saved in a table,  *)
(* which is all a restarted process finds.                                 *)
(*                                                                         *)
(* The coordinator is reduced to what tasks see of it: Slots reservations  *)
(* of one size, a FIFO queue, the hand-off pool.  Module DiskReservations  *)
(* has the real accounting.                                                *)
(*                                                                         *)
(* A handler runs without interruption.  A promise that it settles is      *)
(* continued after it and before any other handler: settled[x] holds the   *)
(* outcome until Continue(x) runs.                                         *)
(***************************************************************************)
EXTENDS Integers, Sequences, FiniteSets, SequencesExt

CONSTANTS
    Task, Body,     \* tasks, and GETs of a body; a Body is reused when done
    File, FileOf,   \* the file of each task and each body
    Slots,          \* reservations the disk has room for
    QueueCapacity,
    HasRepository,  \* whether the optional repository of the table is injected
    DbOutcomes,     \* whether the database answers: a subset of BOOLEAN
    None

ASSUME CallerAssumption ==
    IsFiniteSet(Task) /\ IsFiniteSet(Body) /\ Task \cap Body = {}
ASSUME FileAssumption == IsFiniteSet(File) /\ FileOf \in [Task \cup Body -> File]
ASSUME SlotsAssumption == Slots \in Nat \ {0} /\ QueueCapacity \in Nat
ASSUME DbAssumption ==
    HasRepository \in BOOLEAN /\ DbOutcomes \subseteq BOOLEAN /\ DbOutcomes # {}

Caller == Task \cup Body
Open == {"queued", "streamable"}
Statuses == Open \cup {"cancelled", "expired"}
Outcomes == {"granted", "structural", "failed"}

ASSUME NoneAssumption == None \notin Outcomes

VARIABLES
    status,      \* of each task's record; "absent" before it, "gone" after it
    holds,       \* the record has a reservation
    ticket,      \* its ticket: "none", "valid", or "lapsed" when TASK_TICKET_TTL_MS are over
    handedOff,
    age,         \* of the record: 0, 1 past expiresAt, 2 a retention period later
    saved,       \* record.persisted
    row,         \* status in the table, or "absent"
    saving,      \* saves on their way to the database
    cached,      \* files with a published cache file
    queue,       \* callers waiting in reserve()
    settled,     \* outcome of a caller's reserve() that is still to be continued
    free,        \* reservations the disk has room for now
    pool,        \* hand-off entry of a file: "none", "fresh", or "stale"
    body,        \* "idle", "arrived", "waiting", "streaming"
    others,      \* reservations of downloads without a task
    loop,        \* the running sweep or shutdown, and the tasks it has still to visit
    running      \* FALSE once the shutdown hook has started

record == <<status, holds, ticket, handedOff, age>>
table == <<saved, row, saving>>
disk == <<queue, settled, free, pool>>
vars == <<record, table, cached, disk, body, others, loop, running>>

NoLoop == [op |-> "none", todo |-> {}]
Quiet == loop = NoLoop /\ \A x \in Caller : settled[x] = None

Init ==
    /\ status = [t \in Task |-> "absent"]
    /\ holds = [t \in Task |-> FALSE]
    /\ ticket = [t \in Task |-> "none"]
    /\ handedOff = [t \in Task |-> FALSE]
    /\ age = [t \in Task |-> 0]
    /\ saved = [t \in Task |-> "absent"]
    /\ row = [t \in Task |-> "absent"]
    /\ saving = [t \in Task |-> {}]
    /\ cached \in SUBSET File
    /\ queue = <<>>
    /\ settled = [x \in Caller |-> None]
    /\ free = Slots
    /\ pool = [f \in File |-> "none"]
    /\ body = [b \in Body |-> "idle"]
    /\ others = 0
    /\ loop = NoLoop
    /\ running = TRUE

----------------------------------------------------------------------------
\* The coordinator, as tasks and bodies use it

\* mutant: a release that wakes nobody
giveBackSilently(n, q, s) ==
    /\ free' = free + n
    /\ queue' = q
    /\ settled' = s

\* n reservations are given back to queue q with outcomes s pending: the pump grants
\* as many waiters as there is room for, in order.
giveBack(n, q, s) ==
    LET room == free + n
        served == IF room < Len(q) THEN room ELSE Len(q)
        lucky == {q[i] : i \in 1..served} IN
    /\ free' = room - served
    /\ queue' = SubSeq(q, served + 1, Len(q))
    /\ settled' = [x \in Caller |-> IF x \in lucky THEN "granted" ELSE s[x]]

\* reserve() by caller x: adopt the pool's entry, be granted, wait, or be refused.
\* A stale entry is given back first.  Whether the file is too large for the disk,
\* and whether the disk can be probed at all, comes from outside the model.
reserve(x) ==
    LET f == FileOf[x]
        stale == IF pool[f] = "stale" THEN 1 ELSE 0 IN
    /\ pool' = [pool EXCEPT ![f] = "none"]
    /\ \/ /\ pool[f] = "fresh"
          /\ settled' = [settled EXCEPT ![x] = "granted"]
          /\ UNCHANGED <<free, queue>>
       \/ /\ pool[f] # "fresh"
          /\ queue = <<>>
          /\ free + stale > 0
          /\ free' = free + stale - 1
          /\ settled' = [settled EXCEPT ![x] = "granted"]
          /\ UNCHANGED queue
       \/ /\ pool[f] # "fresh"
          /\ queue # <<>> \/ free + stale = 0
          /\ Len(queue) - stale < QueueCapacity
          /\ giveBack(stale, Append(queue, x), settled)
       \/ /\ pool[f] # "fresh"
          /\ \E answer \in {"structural", "failed"} :
                giveBack(stale, queue, [settled EXCEPT ![x] = answer])

\* The timer of a waiter
QueueTimeout(x) ==
    /\ Quiet
    /\ \E i \in DOMAIN queue : queue[i] = x
    /\ giveBack(0, RemoveFirst(queue, x), [settled EXCEPT ![x] = "failed"])
    /\ UNCHANGED <<record, table, cached, pool, body, others, loop, running>>

----------------------------------------------------------------------------
\* Parts of the task handlers

\* persistIfChanged: the row is written in the background
persistIfChanged(t, new) ==
    IF saved[t] = new \/ ~HasRepository
    THEN UNCHANGED table
    ELSE /\ saved' = [saved EXCEPT ![t] = new]
         /\ saving' = [saving EXCEPT ![t] = @ \cup {new}]
         /\ UNCHANGED row

\* mutant: the reservation is dropped with the record's reference to it
releaseResourcesLeaky(t) ==
    LET waits == \E i \in DOMAIN queue : queue[i] = t IN
    /\ ticket' = [ticket EXCEPT ![t] = "none"]
    /\ holds' = [holds EXCEPT ![t] = FALSE]
    /\ giveBack(0, RemoveFirst(queue, t),
                IF waits THEN [settled EXCEPT ![t] = "failed"] ELSE settled)

\* releaseResources: the ticket is void, a waiter leaves the queue, the reservation
\* is given back.
releaseResources(t) ==
    LET waits == \E i \in DOMAIN queue : queue[i] = t IN
    /\ ticket' = [ticket EXCEPT ![t] = "none"]
    /\ holds' = [holds EXCEPT ![t] = FALSE]
    /\ giveBack(IF holds[t] THEN 1 ELSE 0, RemoveFirst(queue, t),
                IF waits THEN [settled EXCEPT ![t] = "failed"] ELSE settled)

\* The end of evaluate(): a published file, or what probeAdmission answers.  Whether
\* it finds room, finds the file too large, or finds the upstream queue busy comes
\* from outside the model.
probed(t) ==
    \/ status' = [status EXCEPT ![t] = "streamable"]
    \/ FileOf[t] \notin cached /\ status' = [status EXCEPT ![t] = "queued"]

evaluate(t) ==
    \/ /\ status[t] = "cancelled"
       /\ UNCHANGED <<status, ticket, holds, queue, settled, free>>
    \/ /\ status[t] # "cancelled"
       /\ age[t] > 0
       /\ releaseResources(t)
       /\ status' = [status EXCEPT ![t] = "expired"]
    \/ /\ status[t] # "cancelled" /\ age[t] = 0
       /\ holds[t] /\ ticket[t] = "lapsed"
       /\ releaseResources(t)
       /\ probed(t)
    \/ /\ status[t] # "cancelled" /\ age[t] = 0
       /\ ~(holds[t] /\ ticket[t] = "lapsed")
       /\ holds[t] \/ handedOff[t]
       /\ status' = [status EXCEPT ![t] = "streamable"]
       /\ UNCHANGED <<ticket, holds, queue, settled, free>>
    \/ /\ status[t] # "cancelled" /\ age[t] = 0
       /\ ~holds[t] /\ ~handedOff[t]
       /\ probed(t)
       /\ UNCHANGED <<ticket, holds, queue, settled, free>>

----------------------------------------------------------------------------
\* Handlers of DownloadTaskService

\* record.reservation is set, and issueTicket
holdsTicket(t) ==
    /\ holds' = [holds EXCEPT ![t] = TRUE]
    /\ ticket' = [ticket EXCEPT ![t] = "valid"]

\* create() of a task that may start at once: tryReserveNow() takes the pool's entry
\* or a free reservation, or comes back without one.
CreateStreamable(t) ==
    LET f == FileOf[t] IN
    /\ Quiet /\ running
    /\ status[t] = "absent"
    /\ f \in cached \/ free > 0
    /\ status' = [status EXCEPT ![t] = "streamable"]
    /\ pool' = [pool EXCEPT ![f] = "none"]
    /\ LET stale == IF pool[f] = "stale" THEN 1 ELSE 0 IN
       \/ /\ pool[f] = "fresh"
          /\ holdsTicket(t)
          /\ UNCHANGED <<free, queue, settled>>
       \/ /\ pool[f] # "fresh"
          /\ queue = <<>>
          /\ free + stale > 0
          /\ holdsTicket(t)
          /\ free' = free + stale - 1
          /\ UNCHANGED <<queue, settled>>
       \/ /\ pool[f] # "fresh"
          /\ f \in cached
          /\ giveBack(stale, queue, settled)
          /\ UNCHANGED <<holds, ticket>>
    /\ persistIfChanged(t, "streamable")
    /\ UNCHANGED <<handedOff, age, cached, body, others, loop, running>>

\* create() of a task that is too large to be staged
CreateDirect(t) ==
    /\ Quiet /\ running
    /\ status[t] = "absent"
    /\ FileOf[t] \notin cached
    /\ status' = [status EXCEPT ![t] = "streamable"]
    /\ persistIfChanged(t, "streamable")
    /\ UNCHANGED <<holds, ticket, handedOff, age, cached, disk, body, others, loop, running>>

\* create() of a task that has to wait: acquireReservation() calls reserve().
CreateQueued(t) ==
    /\ Quiet /\ running
    /\ status[t] = "absent"
    /\ FileOf[t] \notin cached
    /\ status' = [status EXCEPT ![t] = "queued"]
    /\ reserve(t)
    /\ persistIfChanged(t, "queued")
    /\ UNCHANGED <<holds, ticket, handedOff, age, cached, body, others, loop,
                   running>>

\* mutant: whoever waited for the reservation keeps it
ContinueGrantedKeeps(t) ==
    /\ settled[t] = "granted"
    /\ status' = [status EXCEPT ![t] = IF @ = "queued" THEN "streamable" ELSE @]
    /\ holdsTicket(t)
    /\ settled' = [settled EXCEPT ![t] = None]
    /\ persistIfChanged(t, status'[t])
    /\ UNCHANGED <<queue, free>>

\* acquireReservation() after its await, with a reservation
ContinueGranted(t) ==
    /\ settled[t] = "granted"
    /\ IF status[t] # "queued" \/ age[t] > 0
       THEN /\ giveBack(1, queue, [settled EXCEPT ![t] = None])
            /\ UNCHANGED <<status, holds, ticket, table>>
       ELSE /\ status' = [status EXCEPT ![t] = "streamable"]
            /\ holdsTicket(t)
            /\ settled' = [settled EXCEPT ![t] = None]
            /\ persistIfChanged(t, "streamable")
            /\ UNCHANGED <<queue, free>>

\* acquireReservation() after its await, with an error: the task is streamable
\* without a reservation, or stays queued with nobody waiting for it.
ContinueRefused(t) ==
    /\ settled[t] \in {"structural", "failed"}
    /\ settled' = [settled EXCEPT ![t] = None]
    /\ IF status[t] = "queued" /\ settled[t] = "structural"
       THEN /\ status' = [status EXCEPT ![t] = "streamable"]
            /\ persistIfChanged(t, "streamable")
       ELSE UNCHANGED <<status, table>>
    /\ UNCHANGED <<holds, ticket, queue, free>>

ContinueTask(t) ==
    /\ loop = NoLoop
    /\ ContinueGranted(t) \/ ContinueRefused(t)
    /\ UNCHANGED <<handedOff, age, cached, pool, body, others, loop, running>>

Refresh(t) ==
    /\ Quiet /\ running
    /\ status[t] \in Statuses
    /\ evaluate(t)
    /\ persistIfChanged(t, status'[t])
    /\ UNCHANGED <<handedOff, age, cached, pool, body, others, loop, running>>

Cancel(t) ==
    /\ Quiet /\ running
    /\ status[t] \in Open
    /\ ~handedOff[t]
    /\ releaseResources(t)
    /\ status' = [status EXCEPT ![t] = "cancelled"]
    /\ persistIfChanged(t, "cancelled")
    /\ UNCHANGED <<handedOff, age, cached, pool, body, others, loop, running>>

\* sweep() and onApplicationShutdown() visit every record, in an order the model
\* leaves open; the purge of the pool ends both.
StartLoop(op) ==
    /\ Quiet /\ running
    /\ loop' = [op |-> op, todo |-> {t \in Task : status[t] \in Statuses}]
    /\ running' = (op # "shutdown")
    /\ UNCHANGED <<record, table, cached, disk, body, others>>

\* mutant: a ticket that was never used keeps its reservation
sweepNoRelease(t) ==
    /\ status' = [status EXCEPT ![t] = IF age[t] = 2 THEN "gone" ELSE @]
    /\ UNCHANGED <<ticket, holds, queue, settled, free>>

\* sweep() at record t: past its time it gives back what it holds, and after another
\* retention period it is deleted.
sweep(t) ==
    /\ status' = [status EXCEPT ![t] = IF age[t] = 2 THEN "gone" ELSE @]
    /\ IF age[t] > 0 /\ (holds[t] \/ ticket[t] # "none")
       THEN releaseResources(t)
       ELSE UNCHANGED <<ticket, holds, queue, settled, free>>

Visit(t) ==
    /\ t \in loop.todo
    /\ loop' = [loop EXCEPT !.todo = @ \ {t}]
    /\ \/ /\ loop.op = "sweep"
          /\ sweep(t)
       \/ /\ loop.op = "shutdown"
          /\ releaseResources(t)
          /\ status' = [status EXCEPT ![t] = "gone"]
    /\ UNCHANGED <<handedOff, age, table, cached, pool, body, others, running>>

\* purgeExpiredHandOffs
Purge ==
    LET stale == {f \in File : pool[f] = "stale"} IN
    /\ loop # NoLoop
    /\ loop.todo = {}
    /\ loop' = NoLoop
    /\ pool' = [f \in File |-> IF f \in stale THEN "none" ELSE pool[f]]
    /\ giveBack(Cardinality(stale), queue, settled)
    /\ UNCHANGED <<record, table, cached, body, others, running>>

----------------------------------------------------------------------------
\* The body's GET

\* handOffToSession: stale entries and an older entry under the key are given back.
handOffToSession(f) ==
    LET out == {g \in File : pool[g] = "stale" \/ (g = f /\ pool[g] # "none")} IN
    /\ pool' = [g \in File |-> IF g = f THEN "fresh" ELSE IF g \in out THEN "none" ELSE pool[g]]
    /\ giveBack(Cardinality(out), queue, settled)

\* mutant: the ticket stays good after its use
consumeTicketKept(t) ==
    /\ holds' = [holds EXCEPT ![t] = FALSE]
    /\ handedOff' = [handedOff EXCEPT ![t] = TRUE]
    /\ handOffToSession(FileOf[t])
    /\ UNCHANGED ticket

\* consumeTicket() with the owner's ticket, in time
consumeTicket(t) ==
    /\ ticket' = [ticket EXCEPT ![t] = "none"]
    /\ holds' = [holds EXCEPT ![t] = FALSE]
    /\ handedOff' = [handedOff EXCEPT ![t] = TRUE]
    /\ handOffToSession(FileOf[t])

\* A GET whose ticket is accepted
ArriveInvited(b, t) ==
    /\ Quiet /\ running
    /\ body[b] = "idle"
    /\ FileOf[b] = FileOf[t]
    /\ ticket[t] = "valid"
    /\ consumeTicket(t)
    /\ body' = [body EXCEPT ![b] = "arrived"]
    /\ UNCHANGED <<status, age, table, cached, others, loop, running>>

\* A GET with a ticket that has lapsed, or of another file or owner: the ticket is
\* void, and the record keeps its reservation.
ArriveMistaken(b, t) ==
    /\ Quiet /\ running
    /\ body[b] = "idle"
    /\ ticket[t] # "none"
    /\ ticket' = [ticket EXCEPT ![t] = "none"]
    /\ body' = [body EXCEPT ![b] = "arrived"]
    /\ UNCHANGED <<status, holds, handedOff, age, table, cached, disk, others, loop,
                   running>>

\* A GET without a ticket
Arrive(b) ==
    /\ Quiet /\ running
    /\ body[b] = "idle"
    /\ body' = [body EXCEPT ![b] = "arrived"]
    /\ UNCHANGED <<record, table, cached, disk, others, loop, running>>

\* The session behind the GET reserves, unless the file is published by then.
BodyReserves(b) ==
    /\ Quiet
    /\ body[b] = "arrived"
    /\ IF FileOf[b] \in cached
       THEN body' = [body EXCEPT ![b] = "idle"] /\ UNCHANGED disk
       ELSE body' = [body EXCEPT ![b] = "waiting"] /\ reserve(b)
    /\ UNCHANGED <<record, table, cached, others, loop, running>>

ContinueBody(b) ==
    /\ loop = NoLoop
    /\ settled[b] # None
    /\ settled' = [settled EXCEPT ![b] = None]
    /\ body' = [body EXCEPT ![b] = IF settled[b] = "granted" THEN "streaming" ELSE "idle"]
    /\ UNCHANGED <<record, table, cached, queue, free, pool, others, loop, running>>

\* The session ends and releases; a build that succeeds has published its file.
BodyEnds(b) ==
    /\ Quiet
    /\ body[b] = "streaming"
    /\ body' = [body EXCEPT ![b] = "idle"]
    /\ cached' \in {cached, cached \cup {FileOf[b]}}
    /\ giveBack(1, queue, settled)
    /\ UNCHANGED <<record, table, pool, others, loop, running>>

----------------------------------------------------------------------------
\* The rest of the system

OthersStart ==
    /\ Quiet
    /\ free > 0
    /\ others' = others + 1
    /\ free' = free - 1
    /\ UNCHANGED <<record, table, cached, queue, settled, pool, body, loop, running>>

OthersEnd ==
    /\ Quiet
    /\ others > 0
    /\ others' = others - 1
    /\ giveBack(1, queue, settled)
    /\ UNCHANGED <<record, table, cached, pool, body, loop, running>>

Evict(f) ==
    /\ Quiet
    /\ f \in cached
    /\ cached' = cached \ {f}
    /\ UNCHANGED <<record, table, disk, body, others, loop, running>>

\* Time passes: TASK_TICKET_TTL_MS, the record's retention, HANDOFF_TTL_MS.
TicketLapses(t) ==
    /\ Quiet
    /\ ticket[t] = "valid"
    /\ ticket' = [ticket EXCEPT ![t] = "lapsed"]
    /\ UNCHANGED <<status, holds, handedOff, age, table, cached, disk, body, others,
                   loop, running>>

RecordAges(t) ==
    /\ Quiet
    /\ status[t] \in Statuses
    /\ age[t] < 2
    /\ age' = [age EXCEPT ![t] = @ + 1]
    /\ UNCHANGED <<status, holds, ticket, handedOff, table, cached, disk, body,
                   others, loop, running>>

PoolEntryLapses(f) ==
    /\ Quiet
    /\ pool[f] = "fresh"
    /\ pool' = [pool EXCEPT ![f] = "stale"]
    /\ UNCHANGED <<record, table, cached, queue, settled, free, body, others, loop, running>>

\* A save reaches the table, in whatever order; its failure is only logged.
SaveLands(t) ==
    /\ \E s \in saving[t], ok \in DbOutcomes :
          /\ saving' = [saving EXCEPT ![t] = @ \ {s}]
          /\ row' = [row EXCEPT ![t] = IF ok THEN s ELSE @]
    /\ UNCHANGED <<record, saved, cached, disk, body, others, loop, running>>

\* cleanupExpiredTaskRecords
RowCleanup(t) ==
    /\ Quiet
    /\ age[t] > 0
    /\ row[t] # "absent"
    /\ row' = [row EXCEPT ![t] = "absent"]
    /\ UNCHANGED <<record, saved, saving, cached, disk, body, others, loop, running>>

\* mutant: nothing is marked at start
recoverNothing(r) == r

\* onModuleInit: rows left queued are marked expired
recover(r) == [t \in Task |-> IF r[t] = "queued" THEN "expired" ELSE r[t]]

\* The process ends, by a crash or after its shutdown, and starts again: memory is
\* lost, saves on their way may or may not have arrived.
Restart ==
    /\ \E r \in [Task -> Statuses \cup {"absent"}], ok \in DbOutcomes :
          /\ \A t \in Task : r[t] = row[t] \/ r[t] \in saving[t]
          /\ row' = IF ok THEN recover(r) ELSE r
    /\ status' = [t \in Task |-> IF status[t] = "absent" THEN "absent" ELSE "gone"]
    /\ holds' = [t \in Task |-> FALSE]
    /\ ticket' = [t \in Task |-> "none"]
    /\ handedOff' = [t \in Task |-> FALSE]
    /\ saved' = [t \in Task |-> "absent"]
    /\ saving' = [t \in Task |-> {}]
    /\ queue' = <<>>
    /\ settled' = [x \in Caller |-> None]
    /\ free' = Slots
    /\ pool' = [f \in File |-> "none"]
    /\ body' = [b \in Body |-> "idle"]
    /\ others' = 0
    /\ loop' = NoLoop
    /\ running' = TRUE
    /\ UNCHANGED <<age, cached>>

----------------------------------------------------------------------------
Next ==
    \/ \E t \in Task :
          \/ CreateStreamable(t) \/ CreateDirect(t) \/ CreateQueued(t) \/ ContinueTask(t)
          \/ Refresh(t) \/ Cancel(t) \/ Visit(t)
          \/ TicketLapses(t) \/ RecordAges(t) \/ SaveLands(t) \/ RowCleanup(t)
          \/ \E b \in Body : ArriveInvited(b, t) \/ ArriveMistaken(b, t)
    \/ \E b \in Body : Arrive(b) \/ BodyReserves(b) \/ ContinueBody(b) \/ BodyEnds(b)
    \/ \E x \in Caller : QueueTimeout(x)
    \/ \E op \in {"sweep", "shutdown"} : StartLoop(op)
    \/ Purge
    \/ \E f \in File : Evict(f) \/ PoolEntryLapses(f)
    \/ OthersStart \/ OthersEnd
    \/ Restart

Spec == Init /\ [][Next]_vars

\* Time passes and the sweep timer fires, whatever else happens; a handler that has
\* started runs to its end; a transfer ends.
FairSpec ==
    /\ Spec
    /\ \A t \in Task :
          /\ WF_vars(ContinueTask(t)) /\ WF_vars(Visit(t))
          /\ SF_vars(RecordAges(t))
    /\ \A b \in Body :
          WF_vars(ContinueBody(b)) /\ SF_vars(BodyReserves(b)) /\ SF_vars(BodyEnds(b))
    /\ \A f \in File : SF_vars(PoolEntryLapses(f))
    /\ SF_vars(StartLoop("sweep"))
    /\ WF_vars(Purge)
    /\ SF_vars(OthersEnd)

----------------------------------------------------------------------------
\* Properties

\* Every variable has its type; no release takes the free reservations above what
\* the disk has room for.
TypeOK ==
    /\ status \in [Task -> Statuses \cup {"absent", "gone"}]
    /\ holds \in [Task -> BOOLEAN]
    /\ ticket \in [Task -> {"none", "valid", "lapsed"}]
    /\ handedOff \in [Task -> BOOLEAN]
    /\ age \in [Task -> 0..2]
    /\ saved \in [Task -> Statuses \cup {"absent"}]
    /\ row \in [Task -> Statuses \cup {"absent"}]
    /\ saving \in [Task -> SUBSET Statuses]
    /\ cached \in SUBSET File
    /\ queue \in Seq(Caller)
    /\ settled \in [Caller -> Outcomes \cup {None}]
    /\ free \in 0..Slots
    /\ pool \in [File -> {"none", "fresh", "stale"}]
    /\ body \in [Body -> {"idle", "arrived", "waiting", "streaming"}]
    /\ others \in 0..Slots
    /\ loop \in [op : {"none", "sweep", "shutdown"}, todo : SUBSET Task]
    /\ running \in BOOLEAN

\* Every reservation is free or has exactly one owner: a record, the pool, a transfer,
\* a continuation about to run, or a download without a task.  None is lost and none
\* is counted twice when a cancellation, an expiry, a restart of the queue and a late
\* grant cross (acquireReservation, releaseResources, consumeTicket).
ReservationsConserved ==
    Slots = free + others
            + Cardinality({t \in Task : holds[t]})
            + Cardinality({f \in File : pool[f] # "none"})
            + Cardinality({b \in Body : body[b] = "streaming"})
            + Cardinality({x \in Caller : settled[x] = "granted"})

\* A task that is cancelled, expired or deleted holds no reservation and no ticket,
\* whatever was granted to it after it ended; a cancelled or expired one has left the
\* queue too (acquireReservation's check after its await, releaseResources).
EndedTasksHoldNothing ==
    \A t \in Task :
        /\ status[t] \in {"cancelled", "expired", "gone"} => ~holds[t] /\ ticket[t] = "none"
        /\ status[t] \in {"cancelled", "expired"} => ~\E i \in DOMAIN queue : queue[i] = t

\* A ticket is backed by a reservation the task itself still holds, and by an open
\* task that was not handed off (issueTicket, consumeTicket).
TicketIsBacked ==
    \A t \in Task : ticket[t] # "none" =>
        holds[t] /\ status[t] = "streamable" /\ ~handedOff[t]

\* Nobody waits while there is room: each release grants the head at once (pumpDisk).
NoIdleRoom == queue # <<>> => free = 0

\* The state is well formed: every variable has its type, and no caller is left in
\* the queue with room for it, however a waiter left or a reservation came back.
WellFormed == TypeOK /\ NoIdleRoom

\* A row that says queued is of a task this process still has, or of one swept long
\* after its time, or was left by a shutdown: a restart takes over no queued row, even
\* with saves on their way when the process ended (onModuleInit; with a database that
\* answers).
QueuedRowsAreOurs ==
    \A t \in Task : row[t] = "queued" => status[t] # "gone" \/ age[t] = 2 \/ ~running

\* A task does not keep its reservation forever, even if its client never comes back
\* (sweep).
HeldIsGivenUp == \A t \in Task : holds[t] ~> ~holds[t]
=============================================================================
