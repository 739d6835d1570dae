----------------------------- MODULE FileStream -----------------------------
(***************************************************************************)
(* The streaming file endpoint of the Bot API server                       *)
(* (telegram-bot-api/telegram-bot-api/FileStream.cpp, with the parts of    *)
(* Client.cpp and ClientManager.cpp that serve it).                        *)
(*                                                                         *)
(* One FileStreamConnection actor per GET sends a file while TDLib is      *)
(* still downloading it.  The ClientManager counts the streams; the        *)
(* bot's Client keeps the streams that listen to the file, starts one      *)
(* download for all of them, and cancels it or deletes the copy when the   *)
(* last one is gone.  All streams here ask one bot for one file.           *)
(*                                                                         *)
(* A handler of an actor is one step.  ClientManager and Client run on     *)
(* one scheduler, the streams on another, TDLib on its own: what passes    *)
(* between two schedulers waits in a FIFO queue.  A closure that           *)
(* ClientManager sends to Client runs before anything a stream sends       *)
(* later, so it is part of the sender's step.                              *)
(***************************************************************************)
EXTENDS Integers, Sequences, FiniteSets, SequencesExt

CONSTANTS
    Stream,          \* the GETs of the endpoint
    NoCache,         \* those with the X-Telegram-No-Cache header
    Total,           \* size of the file; Telegram and the caller agree on it
    ChunkSize,       \* the smaller of chunk_size and write_high_watermark
    MaxConnections,  \* file_stream_max_connections_
    MaxCopies,       \* bound: local copies that TDLib creates
    MaxUpdates,      \* bound: reports of TDLib that the Client has not handled
    Events           \* what may happen beside the streams

ASSUME StreamAssumption == IsFiniteSet(Stream) /\ NoCache \subseteq Stream
ASSUME SizeAssumption == Total \in Nat \ {0} /\ ChunkSize \in Nat \ {0}
ASSUME LimitAssumption == MaxConnections \in Nat \ {0}
ASSUME BoundAssumption == MaxCopies \in Nat /\ MaxUpdates \in Nat \ {0}
ASSUME EventsAssumption ==
    Events \subseteq {"login", "close", "getFile", "release", "failure", "loss"}

VARIABLES
    conn,       \* the FileStreamConnection of each stream
    inbox,      \* messages of the Client's scheduler to each stream
    outbox,     \* messages of each stream to the Client's scheduler
    slots,      \* ClientManager: active_file_stream_ids_
    perToken,   \* ClientManager: the bot's count in active_file_streams_by_token_
    authorized, \* Client: was_authorized_
    closing,    \* Client: "no", "closing" (closing_ or logging_out_), "closed"
    active,     \* Client: active_file_streams_
    pending,    \* Client: pending_file_streams_
    listeners,  \* Client: file_stream_listeners_ of the file
    getFile,    \* a standard getFile: "none", "asked", "started", "answered", "failed"
    requests,   \* Client's requests to TDLib
    replies,    \* TDLib's replies and updates to the Client
    local,      \* what TDLib believes of the local copy (td_api::localFile)
    disk,       \* the copy in the workdir: its path and inode
    writer,     \* the inode that TDLib's running download writes to, 0 before its first part
    copies,     \* the bytes in each inode, unlinked ones too
    broken      \* Telegram failed a download, or refused one

manager == <<slots, perToken>>
registry == <<active, pending, listeners>>
client == <<authorized, closing, registry, getFile>>
tdlib == <<requests, replies, local, disk, writer, copies, broken>>
vars == <<conn, inbox, outbox, manager, client, tdlib>>

-----------------------------------------------------------------------------
(* The stream's state.                                                     *)

Paths == {"none", "temp", "final"}
LocalFile == [path : Paths, prefix : 0..Total, done : BOOLEAN, active : BOOLEAN]
NoCopy == [path |-> "none", prefix |-> 0, done |-> FALSE, active |-> FALSE]
Unlinked == [path |-> "none", inode |-> 0]

\* body and vouched are history: the offsets given to the HTTP connection, and
\* the longest prefix TDLib has reported since it last took a completion back
NewConnection ==
    [phase    |-> "none",  \* "live" until finished_, then "ok", "json" or "cut"
     client   |-> FALSE,   \* client_ is set
     file     |-> FALSE,   \* file_id_ is set, and with it cursor_.total_size
     noCache  |-> FALSE,   \* route_.no_cache
     path     |-> "none",  \* local_path_
     fd       |-> 0,       \* inode of local_file_, 0 when closed
     next     |-> 0,       \* cursor_.next_offset
     end      |-> 0,       \* cursor_.contiguous_end
     done     |-> FALSE,   \* download_completed_
     first    |-> FALSE,   \* first_byte_sent_
     asked    |-> FALSE,   \* redownload_requested_
     headers  |-> FALSE,   \* headers_sent_
     flushing |-> 0,       \* pending_write_size_; a write is in flight iff it is not 0
     body     |-> <<>>,
     vouched  |-> 0]

Live(s) == conn[s].phase = "live"

Init ==
    /\ conn = [s \in Stream |-> NewConnection]
    /\ inbox = [s \in Stream |-> <<>>]
    /\ outbox = [s \in Stream |-> <<>>]
    /\ slots = {} /\ perToken = 0
    /\ authorized \in (IF "login" \in Events THEN BOOLEAN ELSE {TRUE}) /\ closing = "no"
    /\ active = {} /\ pending = <<>> /\ listeners = {}
    /\ getFile = "none"
    /\ requests = <<>> /\ replies = <<>>
    /\ \E p \in 0..Total, lost \in BOOLEAN :
         LET path == IF p = 0 THEN "none" ELSE IF p = Total THEN "final" ELSE "temp"
         IN /\ local = [NoCopy EXCEPT !.path = path, !.prefix = p, !.done = (p = Total)]
            /\ copies = IF p = 0 THEN <<>> ELSE <<p>>
            /\ writer = 0
            /\ disk = IF p = 0 \/ lost THEN Unlinked ELSE [path |-> path, inode |-> 1]
    /\ broken = FALSE

-----------------------------------------------------------------------------
(* FileStreamConnection.  An operator that models a method takes the       *)
(* actor's state and yields the states it can leave.                       *)

\* stop(): of the actor nothing is left but what tear_down() passes on
Ended(c, how) ==
    [NewConnection EXCEPT !.phase = how, !.client = c.client, !.file = c.file,
        !.noCache = c.noCache, !.asked = c.asked, !.next = c.next, !.body = c.body]

abort(c) == Ended(c, IF c.headers THEN "cut" ELSE "json")

update_progress(c, f) ==
    [c EXCEPT !.end = IF f.prefix > @ THEN f.prefix ELSE @,
              !.vouched = IF f.prefix > @ THEN f.prefix ELSE @]

next_read_size(c) ==
    IF c.next >= c.end THEN 0
    ELSE IF c.end - c.next < ChunkSize THEN c.end - c.next ELSE ChunkSize

file_stream_waits_for_redownload(c) == c.done /\ ~c.first
file_stream_fails_on_stopped_download(c) == ~c.done /\ c.first

\* mutant: the old prefix is kept
drop_stale_keeps_prefix(c) == [c EXCEPT !.done = FALSE, !.fd = 0, !.vouched = 0]

drop_stale_download_state(c) ==
    [c EXCEPT !.done = FALSE, !.fd = 0, !.vouched = 0,
              !.end = IF c.next = 0 THEN 0 ELSE @]

request_file_redownload(c) == [c EXCEPT !.asked = @ \/ c.client]

\* on_file_data(): the first chunk takes the headers with it
on_file_data(c, count) ==
    [c EXCEPT !.headers = TRUE, !.flushing = count,
              !.body = @ \o [i \in 1..count |-> c.next + i - 1]]

\* pread(), which may also fail
read(c) ==
    LET count == next_read_size(c)
    IN {abort(c)} \cup
       {IF copies[c.fd] >= c.next + count THEN on_file_data(c, count)
        ELSE IF c.done THEN abort(c) ELSE [c EXCEPT !.fd = 0]}

open(c) ==
    IF disk.path = c.path THEN read([c EXCEPT !.fd = disk.inode])
    ELSE IF ~c.done THEN {c}
    ELSE IF ~file_stream_waits_for_redownload(c) THEN {abort(c)}
    ELSE {request_file_redownload(drop_stale_download_state(c))}

try_read(c) ==
    IF c.flushing > 0 \/ ~c.file THEN {c}
    ELSE IF c.next = Total THEN {Ended([c EXCEPT !.headers = TRUE], "ok")}
    ELSE IF next_read_size(c) = 0 \/ c.path = "none" THEN {c}
    ELSE IF c.fd = 0 THEN open(c) ELSE read(c)

\* local_path_ follows TDLib; on_file_progress() closes the file it leaves
follow_path(c, f) ==
    IF f.path \in {"none", c.path} THEN c ELSE [c EXCEPT !.path = f.path, !.fd = 0]

\* fits: neither the build's nor the configured size limit is exceeded
on_file_ready(c, f, fits) ==
    LET c1 == follow_path([c EXCEPT !.file = TRUE], f)
        c2 == [update_progress(c1, f) EXCEPT !.done = f.done]
    IN IF ~fits THEN {abort(c1)}
       ELSE IF c2.done /\ c2.end < Total THEN {abort(c2)}
       ELSE try_read(c2)

on_file_progress(c, f) ==
    LET revoked == c.done /\ ~f.done
        c1 == follow_path(c, f)
        c2 == IF revoked THEN request_file_redownload(drop_stale_download_state(c1)) ELSE c1
        c3 == [update_progress(c2, f) EXCEPT !.done = @ \/ f.done]
    IN IF ~c.file THEN {c}
       ELSE IF ~f.active /\ file_stream_fails_on_stopped_download(c3) THEN {abort(c3)}
       ELSE IF c3.done /\ c3.end < Total THEN {abort(c3)}
       ELSE try_read(c3)

\* mutant: the cursor does not advance until the headers are known to be flushed
on_chunk_flushed_late(c) ==
    try_read([c EXCEPT !.flushing = 0, !.next = IF c.first THEN @ + c.flushing ELSE @, !.first = TRUE])

on_chunk_flushed(c) ==
    LET size == c.flushing
    IN IF size > c.end - c.next THEN {abort(c)}
       ELSE try_read([c EXCEPT !.flushing = 0, !.next = @ + size, !.first = TRUE])

\* mutant: tear_down() looks at client_ before both messages
sent_to_known_client(c, d) ==
    (IF d.asked /\ ~c.asked THEN <<[op |-> "redownload"]>> ELSE <<>>)
    \o (IF d.phase = "live" \/ ~d.client THEN <<>>
        ELSE <<[op |-> "release"],
               [op |-> "remove", file |-> d.file, noCache |-> d.noCache, ok |-> d.phase = "ok"]>>)

\* a handler leaves the actor's state d; what it sent, tear_down() included
sent(c, d) ==
    (IF d.asked /\ ~c.asked THEN <<[op |-> "redownload"]>> ELSE <<>>)
    \o (IF d.phase = "live" THEN <<>>
        ELSE <<[op |-> "release"]>>
             \o IF d.client THEN <<[op |-> "remove", file |-> d.file, noCache |-> d.noCache,
                                    ok |-> d.phase = "ok"]>>
                ELSE <<>>)

\* the handler's step; queue is what is left of the inbox
Leaves(s, d, queue) ==
    /\ conn' = [conn EXCEPT ![s] = d]
    /\ inbox' = [inbox EXCEPT ![s] = IF d.phase = "live" THEN queue ELSE <<>>]
    /\ outbox' = [outbox EXCEPT ![s] = @ \o sent(conn[s], d)]
    /\ UNCHANGED <<manager, client, tdlib>>

\* HttpConnection creates the actor; start_up()
Arrive(s) ==
    /\ conn[s].phase = "none"
    /\ conn' = [conn EXCEPT ![s].phase = "live", ![s].noCache = (s \in NoCache)]
    /\ outbox' = [outbox EXCEPT ![s] = <<[op |-> "send"]>>]
    /\ UNCHANGED <<inbox, manager, client, tdlib>>

OnMessage(s) ==
    /\ Live(s) /\ inbox[s] # <<>>
    /\ LET c == conn[s]
           m == Head(inbox[s])
           results == CASE m.op = "client" -> {[c EXCEPT !.client = TRUE]}
                        [] m.op = "error" -> {abort(c)}
                        [] m.op = "ready" -> UNION {on_file_ready(c, m.file, fits) : fits \in BOOLEAN}
                        [] m.op = "progress" -> on_file_progress(c, m.file)
       IN \E d \in results : Leaves(s, d, Tail(inbox[s]))

OnChunkFlushed(s) ==
    /\ Live(s) /\ conn[s].flushing > 0
    /\ \E d \in on_chunk_flushed(conn[s]) : Leaves(s, d, inbox[s])

\* a write of headers or of a chunk fails, because the caller has gone
OnWriteFailed(s) ==
    /\ Live(s) /\ conn[s].flushing > 0
    /\ Leaves(s, abort(conn[s]), inbox[s])

\* some timer is set as long as the actor lives
Timeout(s) ==
    /\ Live(s)
    /\ Leaves(s, abort(conn[s]), inbox[s])

-----------------------------------------------------------------------------
(* ClientManager and Client.                                               *)

\* send_closure to actors that may be dead: the message is then dropped
Tell(S, m) == [s \in Stream |-> IF s \in S /\ Live(s) THEN Append(inbox[s], m) ELSE inbox[s]]

Failure == [op |-> "error"]

per_bot_limit == IF MaxConnections \div 4 > 1 THEN MaxConnections \div 4 ELSE 1

\* the Client's request to TDLib, which it refuses to send once it is closing
Asks(r) == requests' = IF closing = "no" THEN Append(requests, r) ELSE requests

Message(s, op) == outbox[s] # <<>> /\ Head(outbox[s]).op = op

Handled(s) == outbox' = [outbox EXCEPT ![s] = Tail(@)]

\* send_file_stream(): no room, or one of its other refusals
RefuseStream(s) ==
    /\ Message(s, "send") /\ Handled(s)
    /\ inbox' = Tell({s}, Failure)
    /\ UNCHANGED <<conn, manager, client, tdlib>>

\* send_file_stream(), and Client::start_file_stream() that it calls
AdmitStream(s) ==
    /\ Message(s, "send") /\ Handled(s)
    /\ Cardinality(slots) < MaxConnections /\ perToken < per_bot_limit
    /\ slots' = slots \cup {s} /\ perToken' = perToken + 1
    /\ active' = active \cup {s}
    /\ LET greeted == Tell({s}, [op |-> "client"])
       IN \/ /\ ~authorized
             /\ pending' = Append(pending, s)
             /\ inbox' = greeted /\ UNCHANGED requests
          \/ /\ authorized /\ closing # "no"
             /\ inbox' = [greeted EXCEPT ![s] = IF Live(s) THEN Append(@, Failure) ELSE @]
             /\ UNCHANGED <<pending, requests>>
          \/ /\ authorized /\ closing = "no"
             /\ Asks([op |-> "remote", by |-> s])
             /\ inbox' = greeted /\ UNCHANGED pending
    /\ UNCHANGED <<conn, authorized, closing, listeners, getFile,
                   replies, local, disk, writer, copies, broken>>

\* mutant: the bot's count is left behind
release_slot_only(s) ==
    /\ Message(s, "release") /\ Handled(s)
    /\ slots' = slots \ {s}
    /\ UNCHANGED <<conn, inbox, perToken, client, tdlib>>

release_file_stream(s) ==
    /\ Message(s, "release") /\ Handled(s)
    /\ slots' = slots \ {s}
    /\ perToken' = IF s \in slots THEN perToken - 1 ELSE perToken
    /\ UNCHANGED <<conn, inbox, client, tdlib>>

\* decide_file_stream_local_copy_action(), when no other stream listens
decide(noCache, ok) ==
    IF ~ok THEN "cancel"
    ELSE IF ~noCache THEN "none"
    ELSE IF getFile \in {"asked", "started"} THEN "skip" ELSE "delete"

\* pending lists a stream once at most, so that the loop over it takes out its first entry
remove_file_stream(s) ==
    /\ Message(s, "remove") /\ Handled(s)
    /\ LET m == Head(outbox[s])
           last == m.file /\ listeners # {} /\ listeners \subseteq {s}
           action == IF last THEN decide(m.noCache, m.ok) ELSE "none"
       IN /\ active' = active \ {s}
          /\ pending' = RemoveFirst(pending, s)
          /\ listeners' = IF m.file THEN listeners \ {s} ELSE listeners
          /\ IF action \in {"cancel", "delete"} THEN Asks([op |-> action]) ELSE UNCHANGED requests
    /\ UNCHANGED <<conn, inbox, manager, authorized, closing, getFile,
                   replies, local, disk, writer, copies, broken>>

RequestRedownload(s) ==
    /\ Message(s, "redownload") /\ Handled(s)
    /\ IF listeners # {} THEN Asks([op |-> "download", by |-> "stream"]) ELSE UNCHANGED requests
    /\ UNCHANGED <<conn, inbox, manager, client, replies, local, disk, writer, copies, broken>>

\* authorizationStateReady: the streams that came too early are started
Authorize ==
    /\ ~authorized /\ authorized' = TRUE
    /\ pending' = <<>>
    /\ IF closing = "no"
       THEN /\ requests' = requests \o [i \in 1..Len(pending) |-> [op |-> "remote", by |-> pending[i]]]
            /\ UNCHANGED inbox
       ELSE inbox' = Tell(ToSet(pending), Failure) /\ UNCHANGED requests
    /\ UNCHANGED <<conn, outbox, manager, closing, active, listeners, getFile,
                   replies, local, disk, writer, copies, broken>>

StartClosing ==
    /\ "close" \in Events
    /\ closing = "no" /\ closing' = "closing"
    /\ UNCHANGED <<conn, inbox, outbox, manager, authorized, registry, getFile, tdlib>>

\* on_closed(); TDLib is gone, and with it what was under way
on_closed ==
    /\ closing = "closing" /\ closing' = "closed"
    /\ inbox' = Tell(active, Failure)
    /\ active' = {} /\ pending' = <<>> /\ listeners' = {}
    /\ getFile' = IF getFile \in {"asked", "started"} THEN "failed" ELSE getFile
    /\ requests' = <<>> /\ replies' = <<>>
    /\ UNCHANGED <<conn, outbox, manager, authorized, local, disk, writer, copies, broken>>

\* do_get_file()
DoGetFile ==
    /\ "getFile" \in Events
    /\ getFile = "none" /\ getFile' = "asked"
    /\ authorized /\ closing = "no"
    /\ Asks([op |-> "download", by |-> "getFile"])
    /\ UNCHANGED <<conn, inbox, outbox, manager, authorized, closing, registry,
                   replies, local, disk, writer, copies, broken>>

\* mutant: only the standard getFile is asked for
ReleaseStreamedFile ==
    /\ "release" \in Events
    /\ authorized /\ closing = "no"
    /\ getFile \notin {"asked", "started"}
    /\ \A i \in 1..Len(requests) : requests[i].op # "delete"
    /\ Asks([op |-> "delete"])
    /\ UNCHANGED <<conn, inbox, outbox, manager, client, replies, local, disk, writer, copies, broken>>

\* process_release_local_file_query(), when the file is not in use
ReleaseLocalFile ==
    /\ "release" \in Events
    /\ authorized /\ closing = "no"
    /\ getFile \notin {"asked", "started"} /\ listeners = {}
    /\ \A i \in 1..Len(requests) : requests[i].op # "delete"  \* bound: one at a time
    /\ Asks([op |-> "delete"])
    /\ UNCHANGED <<conn, inbox, outbox, manager, client, replies, local, disk, writer, copies, broken>>

Reply(k) == replies # <<>> /\ Head(replies).kind = k /\ replies' = Tail(replies)

\* mutant: a download under way is thought to be enough
need_start_unless_active == listeners = {} /\ ~local.active

need_start_download == listeners = {}

\* TdOnFileStreamRemoteFileCallback: the stream becomes a listener, unless the
\* reply is an error, its size is unknown, or the workdir has no room for it
OnRemoteFile ==
    /\ Reply("remote")
    /\ LET s == Head(replies).by
           f == Head(replies).file
       IN \/ s \notin active /\ UNCHANGED <<inbox, listeners, requests>>
          \/ /\ s \in active
             /\ inbox' = Tell({s}, Failure)
             /\ UNCHANGED <<listeners, requests>>
          \/ /\ s \in active
             /\ listeners' = listeners \cup {s}
             /\ LET ready == Tell({s}, [op |-> "ready", file |-> f])
                IN IF need_start_download /\ closing # "no"
                   THEN /\ inbox' = [ready EXCEPT ![s] = IF Live(s) THEN Append(@, Failure) ELSE @]
                        /\ UNCHANGED requests
                   ELSE /\ inbox' = ready
                        /\ IF need_start_download
                           THEN Asks([op |-> "download", by |-> "stream"]) ELSE UNCHANGED requests
    /\ UNCHANGED <<conn, outbox, manager, authorized, closing, active, pending, getFile,
                   local, disk, writer, copies, broken>>

\* on_update_file(), and how it settles a getFile in state g
on_update_file(f, g) ==
    /\ inbox' = Tell(listeners, [op |-> "progress", file |-> f])
    /\ getFile' = IF g \in {"asked", "started"} /\ f.done THEN "answered"
                  ELSE IF g = "started" /\ ~f.active THEN "failed" ELSE g

OnUpdate ==
    /\ Reply("update") /\ on_update_file(Head(replies).file, getFile)
    /\ UNCHANGED <<conn, outbox, manager, authorized, closing, registry,
                   requests, local, disk, writer, copies, broken>>

\* TdOnDownloadFileCallback: the reply to getFile's own downloadFile
OnStarted ==
    /\ Reply("started")
    /\ on_update_file(Head(replies).file, IF getFile = "asked" THEN "started" ELSE getFile)
    /\ UNCHANGED <<conn, outbox, manager, authorized, closing, registry,
                   requests, local, disk, writer, copies, broken>>

OnDownloadRefused ==
    /\ Reply("refused")
    /\ IF Head(replies).by = "stream"
       THEN inbox' = Tell(listeners, Failure) /\ UNCHANGED getFile
       ELSE /\ getFile' = IF getFile \in {"asked", "started"} THEN "failed" ELSE getFile
            /\ UNCHANGED inbox
    /\ UNCHANGED <<conn, outbox, manager, authorized, closing, registry,
                   requests, local, disk, writer, copies, broken>>

-----------------------------------------------------------------------------
(* TDLib and the workdir, as the server's code meets them.                 *)

Request(op) == requests # <<>> /\ Head(requests).op = op /\ requests' = Tail(requests)

Update(f) == [kind |-> "update", file |-> f]

TdGetRemoteFile ==
    /\ Request("remote")
    /\ replies' = Append(replies, [kind |-> "remote", by |-> Head(requests).by, file |-> local])
    /\ UNCHANGED <<conn, inbox, outbox, manager, client, local, disk, writer, copies, broken>>

\* downloadFile: the copy is looked for first, and forgotten if it is not there
TdDownloadFile ==
    /\ Request("download")
    /\ LET missing == local.path # "none" /\ disk.path # local.path
           found == IF missing THEN [NoCopy EXCEPT !.active = local.active] ELSE local
           f == [found EXCEPT !.active = ~found.done]
           kind == IF Head(requests).by = "getFile" THEN "started" ELSE "update"
       IN /\ local' = f
          /\ writer' = IF local.active \/ found.path = "none" \/ found.done THEN writer ELSE disk.inode
          /\ replies' = replies \o (IF missing THEN <<Update(found)>> ELSE <<>>)
                                \o <<[kind |-> kind, file |-> f]>>
    /\ UNCHANGED <<conn, inbox, outbox, manager, client, disk, copies, broken>>

TdRefuseDownload ==
    /\ "failure" \in Events
    /\ Request("download")
    /\ replies' = Append(replies, [kind |-> "refused", by |-> Head(requests).by])
    /\ broken' = TRUE
    /\ UNCHANGED <<conn, inbox, outbox, manager, client, local, disk, writer, copies>>

TdCancelDownload ==
    /\ Request("cancel")
    /\ local' = [local EXCEPT !.active = FALSE] /\ writer' = 0
    /\ replies' = IF local.active THEN Append(replies, Update(local')) ELSE replies
    /\ UNCHANGED <<conn, inbox, outbox, manager, client, disk, copies, broken>>

\* deleteFile; a download that is writing the copy goes on without a name
TdDeleteFile ==
    /\ Request("delete")
    /\ IF local.path = "none" THEN UNCHANGED <<local, disk, replies>>
       ELSE /\ local' = [NoCopy EXCEPT !.active = local.active]
            /\ disk' = IF disk.path = local.path THEN Unlinked ELSE disk
            /\ replies' = Append(replies, Update(local'))
    /\ UNCHANGED <<conn, inbox, outbox, manager, client, writer, copies, broken>>

Part(p) ==
    [path |-> IF p = Total THEN "final" ELSE "temp", prefix |-> p,
     done |-> (p = Total), active |-> (p < Total)]

Reports(f) ==
    /\ Len(replies) < MaxUpdates
    /\ local' = f
    /\ replies' = Append(replies, Update(f))
    /\ UNCHANGED <<conn, inbox, outbox, manager, client, requests>>

\* the first part creates the copy
TdFirstPart ==
    /\ local.active /\ writer = 0
    /\ Len(copies) < MaxCopies
    /\ copies' = Append(copies, 1)
    /\ disk' = [path |-> Part(1).path, inode |-> Len(copies) + 1]
    /\ writer' = IF Total = 1 THEN 0 ELSE Len(copies) + 1
    /\ Reports(Part(1)) /\ UNCHANGED broken

\* the last part comes with the copy's final name, and completes it; a copy that
\* was unlinked grows, but never gets that name
TdNextPart ==
    /\ local.active /\ writer # 0
    /\ LET p == copies[writer] + 1
       IN /\ p < Total \/ disk.inode = writer
          /\ copies' = [copies EXCEPT ![writer] = p]
          /\ disk' = IF disk.inode = writer THEN [disk EXCEPT !.path = Part(p).path] ELSE disk
          /\ writer' = IF p = Total THEN 0 ELSE writer
          /\ Reports(Part(p))
    /\ UNCHANGED broken

\* Telegram fails the download, or the copy it writes to is not there any more
TdDownloadFails ==
    /\ local.active
    /\ \/ "failure" \in Events /\ broken' = TRUE
       \/ writer # 0 /\ disk.inode # writer /\ UNCHANGED broken
    /\ writer' = 0
    /\ Reports([local EXCEPT !.active = FALSE])
    /\ UNCHANGED <<disk, copies>>

\* the workdir's clean-up, or its owner, takes the copy
CopyLost ==
    /\ "loss" \in Events
    /\ disk.path # "none"
    /\ disk' = Unlinked
    /\ UNCHANGED <<conn, inbox, outbox, manager, client, requests, replies, local, writer, copies, broken>>

-----------------------------------------------------------------------------
StreamStep(s) ==
    \/ Arrive(s) \/ OnMessage(s) \/ OnChunkFlushed(s) \/ OnWriteFailed(s) \/ Timeout(s)

ServerStep(s) ==
    \/ RefuseStream(s) \/ AdmitStream(s) \/ release_file_stream(s)
    \/ remove_file_stream(s) \/ RequestRedownload(s)

ClientStep ==
    \/ Authorize \/ StartClosing \/ on_closed \/ DoGetFile \/ ReleaseLocalFile
    \/ OnRemoteFile \/ OnUpdate \/ OnStarted \/ OnDownloadRefused

TdStep ==
    \/ TdGetRemoteFile \/ TdDownloadFile \/ TdRefuseDownload \/ TdCancelDownload \/ TdDeleteFile
    \/ TdFirstPart \/ TdNextPart \/ TdDownloadFails \/ CopyLost

Next == (\E s \in Stream : StreamStep(s) \/ ServerStep(s)) \/ ClientStep \/ TdStep

Spec == Init /\ [][Next]_vars

\* a timer that is set expires, and an actor handles its messages
FairSpec ==
    /\ Spec
    /\ \A s \in Stream : WF_vars(Timeout(s)) /\ WF_vars(ServerStep(s))

-----------------------------------------------------------------------------
\* Every variable keeps its type; in particular the cursor never passes the end
\* of the file and the bot's count of streams never goes below zero.
TypeOK ==
    /\ \A s \in Stream :
         /\ conn[s].phase \in {"none", "live", "ok", "json", "cut"}
         /\ conn[s].path \in Paths /\ conn[s].fd \in 0..Len(copies)
         /\ conn[s].next \in 0..Total /\ conn[s].end \in 0..Total
         /\ conn[s].flushing \in 0..ChunkSize
         /\ conn[s].body \in Seq(0..Total - 1)
    /\ slots \subseteq Stream /\ perToken \in 0..MaxConnections
    /\ active \subseteq Stream /\ listeners \subseteq Stream /\ ToSet(pending) \subseteq Stream
    /\ local \in LocalFile
    /\ disk.path \in Paths /\ disk.inode \in 0..Len(copies) /\ writer \in 0..Len(copies)

\* The body is the file from its first byte on, nothing twice and nothing left
\* out, and a response ends normally only when all of it was flushed; a JSON
\* error is an answer of its own (the guide, lines 11, 12 and 375).
ExactBody ==
    \A s \in Stream :
        LET c == conn[s]
        IN /\ \A i \in 1..Len(c.body) : c.body[i] = i - 1
           /\ c.phase = "ok" => c.next = Total /\ Len(c.body) = Total
           /\ c.phase = "json" => c.body = <<>>

\* No byte is sent that TDLib did not vouch for after it took its last
\* completion back: the prefix reported earlier describes a file that no longer
\* exists (on_file_progress()).
ServesOnlyVouched ==
    [][\A s \in Stream : conn'[s].body # conn[s].body => Len(conn'[s].body) <= conn'[s].vouched]_vars

\* The slots are those of streams that are alive or whose release is under way,
\* a stream the Client knows of has one, and the bot's count agrees with them.
SlotsExact ==
    /\ perToken = Cardinality(slots)
    /\ \A s \in slots : Live(s) \/ \E i \in 1..Len(outbox[s]) : outbox[s][i].op = "release"
    /\ \A s \in Stream : Live(s) /\ conn[s].client => s \in slots

\* The state is well formed: every variable has its type, and every way a stream can
\* end has released the slot it took, once.
WellFormed == TypeOK /\ SlotsExact

\* A cancellation or deletion that TDLib has still to handle was decided when
\* nobody listened; whoever has joined since has a download of its own behind it.
StrandsNobody ==
    closing = "no" =>
        \A i \in 1..Len(requests) :
            \/ requests[i].op = "cancel" /\ listeners # {}
            \/ requests[i].op = "delete" /\ (listeners # {} \/ getFile \in {"asked", "started"})
            => \E j \in i + 1..Len(requests) : requests[j].op = "download"

\* Whatever else uses the file, a login, a getFile, releaseLocalFile or a closing
\* bot: bodies stay exact and nobody is left without a download.
Undisturbed == ExactBody /\ StrandsNobody

\* Every slot comes back, whatever TDLib and the caller do.
SlotsComeBack == \A s \in Stream : s \in slots ~> s \notin slots
=============================================================================
