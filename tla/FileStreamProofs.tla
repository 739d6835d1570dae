-------------------------- MODULE FileStreamProofs --------------------------
(***************************************************************************)
(* Theorems about FileStream, for any number of streams, any sizes of the  *)
(* file and of the chunks, any limits and any mix of events.               *)
(***************************************************************************)
EXTENDS FileStream, QueueLemmas

-----------------------------------------------------------------------------
\* The types of the messages

ToStream == [op : {"client", "error"}] \cup [op : {"ready", "progress"}, file : LocalFile]

FromStream ==
    [op : {"send", "redownload", "release"}]
    \cup [op : {"remove"}, file : BOOLEAN, noCache : BOOLEAN, ok : BOOLEAN]

ToTdlib ==
    [op : {"remote"}, by : Stream] \cup [op : {"download"}, by : {"stream", "getFile"}]
    \cup [op : {"cancel", "delete"}]

FromTdlib ==
    [kind : {"remote"}, by : Stream, file : LocalFile]
    \cup [kind : {"update", "started"}, file : LocalFile]
    \cup [kind : {"refused"}, by : {"stream", "getFile"}]

Connection ==
    [phase : {"none", "live", "ok", "json", "cut"}, client : BOOLEAN, file : BOOLEAN,
     noCache : BOOLEAN, path : Paths, fd : Nat, next : 0..Total, end : 0..Total,
     done : BOOLEAN, first : BOOLEAN, asked : BOOLEAN, headers : BOOLEAN,
     flushing : 0..ChunkSize, body : Seq(0..Total - 1), vouched : 0..Total]

Typed ==
    /\ conn \in [Stream -> Connection]
    /\ inbox \in [Stream -> Seq(ToStream)]
    /\ outbox \in [Stream -> Seq(FromStream)]
    /\ slots \in SUBSET Stream /\ perToken \in Nat
    /\ authorized \in BOOLEAN /\ closing \in {"no", "closing", "closed"}
    /\ active \in SUBSET Stream /\ pending \in Seq(Stream) /\ listeners \in SUBSET Stream
    /\ getFile \in {"none", "asked", "started", "answered", "failed"}
    /\ requests \in Seq(ToTdlib) /\ replies \in Seq(FromTdlib)
    /\ local \in LocalFile
    /\ disk \in [path : Paths, inode : Nat] /\ writer \in Nat
    /\ copies \in Seq(1..Total)
    /\ broken \in BOOLEAN

-----------------------------------------------------------------------------
\* The inductive invariant

\* What a connection keeps by itself: the body is the file's first bytes, as many as
\* were flushed and are being flushed, and all of them are vouched for.
Sound(c) ==
    /\ \A i \in 1..Len(c.body) : c.body[i] = i - 1
    /\ c.phase = "none" => c.body = <<>>
    /\ c.phase = "ok" => c.next = Total /\ Len(c.body) = Total
    /\ c.phase = "json" => c.body = <<>>
    /\ c.phase = "live" =>
          /\ c.next <= c.end /\ c.end <= c.vouched
          /\ Len(c.body) = c.next + c.flushing /\ Len(c.body) <= Total
          /\ ~c.headers => c.body = <<>>
          /\ c.first <=> c.next > 0
          /\ c.done => c.file

\* No file descriptor names a copy that was never made
FilesExist ==
    /\ \A s \in Stream : conn[s].fd <= Len(copies)
    /\ disk.inode <= Len(copies) /\ writer <= Len(copies)

\* A name in the workdir tells whether the copy is complete, and TDLib writes only to
\* incomplete ones
NamesTell ==
    /\ disk.path = "none" <=> disk.inode = 0
    /\ disk.path # "none" => (disk.path = "final" <=> copies[disk.inode] = Total)
    /\ local.done <=> local.path = "final"
    /\ local.done => ~local.active
    /\ writer # 0 => copies[writer] < Total

\* The order of a stream's messages: its request first, its release after its end
Ordered(s) ==
    /\ conn[s].phase = "none" =>
          /\ conn[s] = NewConnection /\ inbox[s] = <<>> /\ outbox[s] = <<>>
          /\ s \notin slots \cup active \cup listeners \cup ToSet(pending)
    /\ \A i \in 1..Len(outbox[s]) :
          /\ outbox[s][i].op = "send" => i = 1 /\ s \notin slots /\ s \notin ToSet(pending)
          /\ outbox[s][i].op = "release" => ~Live(s)
    /\ s \in slots \/ (\E i \in 1..Len(outbox[s]) : outbox[s][i].op = "send") =>
          Live(s) \/ \E i \in 1..Len(outbox[s]) : outbox[s][i].op = "release"
    /\ /\ Live(s)
       /\ \/ s \in active \cup listeners
          \/ conn[s].client \/ \E i \in 1..Len(inbox[s]) : inbox[s][i].op = "client"
       => s \in slots

-----------------------------------------------------------------------------
\* What a stream hears of the download: after a completion the next report that is
\* not one says that the download is idle

Reported(m) == "file" \in DOMAIN m

\* The answer to getRemoteFile goes to one stream, any other report to every listener
Broadcast(m) == IF "op" \in DOMAIN m THEN m.op # "ready" ELSE m.kind # "remote"

Complete(m) == Reported(m) /\ m.file.done
Idle(m) == Reported(m) /\ ~m.file.done /\ ~m.file.active /\ Broadcast(m)
Busy(m) == Reported(m) /\ ~m.file.done /\ m.file.active

\* In queue q, a download does not go on after a completion without an idle report
Coherent(q) ==
    \A i, j \in 1..Len(q) :
        i < j /\ Complete(q[i]) /\ Busy(q[j]) => \E k \in i + 1..j - 1 : Idle(q[k])

\* The same for a queue that follows a completion
Follows(q) == \A j \in 1..Len(q) : Busy(q[j]) => \E k \in 1..j - 1 : Idle(q[k])

SaysIdle(q) == \E k \in 1..Len(q) : Idle(q[k])

\* Who has heard all of queue q believes that the file is complete
LeavesComplete(q) ==
    \E i \in 1..Len(q) : Complete(q[i]) /\ \A k \in i + 1..Len(q) : ~Idle(q[k])

\* A stream with download_completed_ = done and inbox q hears only coherent reports,
\* and will believe that the file is complete when its inbox is empty
Attends(done, q) == Coherent(q) /\ (done => Follows(q))
Believes(done, q) == LeavesComplete(q) \/ (done /\ ~SaysIdle(q))

\* TDLib's reports q agree with what it believes now, and will correct a stream that
\* believes in a completion that is none any more
Agrees(q, done) == Coherent(q) /\ (LeavesComplete(q) => done)
Corrects(q, done) == Follows(q) /\ (SaysIdle(q) \/ done)

Told(s) ==
    Live(s) =>
        /\ Attends(conn[s].done, inbox[s])
        /\ s \in listeners /\ Believes(conn[s].done, inbox[s]) => Corrects(replies, local.done)
        /\ (s \in active /\ s \notin listeners) \/ s \notin slots =>
              ~conn[s].done /\ \A i \in 1..Len(inbox[s]) : ~Reported(inbox[s][i])

Hears == Agrees(replies, local.done) /\ \A s \in Stream : Told(s)

Inv ==
    /\ Typed
    /\ \A s \in Stream : Sound(conn[s]) /\ Ordered(s)
    /\ FilesExist /\ NamesTell
    /\ perToken = Cardinality(slots) /\ perToken <= MaxConnections /\ IsInjective(pending)
    /\ Hears
    /\ StrandsNobody

-----------------------------------------------------------------------------
\* What the handlers of a stream do to its connection

\* A handler may turn a sound connection c into d
Leads(c, d) ==
    /\ d \in Connection /\ Sound(d) /\ d.phase # "none"
    /\ d.client = c.client
    /\ d.fd \in {0, c.fd, disk.inode}
    /\ d.phase = "live" /\ d.done => c.done
    /\ d.body # c.body => Len(d.body) <= d.vouched

LEMMA EndedTyped ==
    ASSUME NEW c \in Connection, NEW how \in {"ok", "json", "cut"}
    PROVE  /\ Ended(c, how) \in Connection /\ Ended(c, how).phase = how
           /\ Ended(c, how).client = c.client /\ Ended(c, how).fd = 0
           /\ Ended(c, how).next = c.next /\ Ended(c, how).body = c.body
<1>1. NewConnection \in Connection
  <2>1. "none" \in Paths /\ 0 \in 0..Total /\ 0 \in 0..ChunkSize /\ 0 \in Nat
    BY SizeAssumption DEF Paths
  <2>2. <<>> \in Seq(0..Total - 1)
    OBVIOUS
  <2> QED
    BY <2>1, <2>2 DEF Connection, NewConnection
<1>2. NewConnection.fd = 0
  BY DEF NewConnection
<1> QED
  BY <1>1, <1>2 DEF Connection, Ended

LEMMA AbortLeads ==
    ASSUME NEW c \in Connection, Sound(c), c.phase = "live"
    PROVE  Leads(c, abort(c)) /\ abort(c).phase \notin {"live", "none"} /\ abort(c).body = c.body
<1> DEFINE how == IF c.headers THEN "cut" ELSE "json"
<1>1. how \in {"ok", "json", "cut"} /\ how \notin {"ok", "live", "none"} /\ abort(c) = Ended(c, how)
  BY DEF abort
<1>2. how = "json" => c.body = <<>>
  BY DEF Sound
<1> HIDE DEF how
<1>3. Sound(abort(c))
  BY <1>1, <1>2, EndedTyped DEF Sound
<1> QED
  BY <1>1, <1>3, EndedTyped DEF Leads

LEMMA ReadSize ==
    ASSUME NEW c \in Connection
    PROVE  /\ next_read_size(c) \in 0..ChunkSize
           /\ next_read_size(c) > 0 => c.next + next_read_size(c) <= c.end
BY SizeAssumption DEF Connection, next_read_size

\* A chunk prolongs the body
LEMMA ChunkLeads ==
    ASSUME NEW c \in Connection, Sound(c), c.phase = "live", c.flushing = 0,
           NEW n \in 1..ChunkSize, c.next + n <= c.end
    PROVE  Leads(c, on_file_data(c, n))
<1> DEFINE more == [i \in 1..n |-> c.next + i - 1]
           b == c.body \o more
           d == on_file_data(c, n)
<1>1. /\ c.next \in 0..Total /\ c.end \in 0..Total /\ c.vouched \in 0..Total /\ n \in Nat
      /\ Total \in Nat /\ c.body \in Seq(0..Total - 1)
  BY SizeAssumption DEF Connection
<1>2. more \in Seq(0..Total - 1) /\ Len(more) = n
  <2>1. \A i \in 1..n : c.next + i - 1 \in 0..Total - 1
    BY <1>1
  <2>2. more \in [1..n -> 0..Total - 1]
    BY <2>1
  <2> QED
    BY <1>1, <2>2
<1>3. b \in Seq(0..Total - 1) /\ Len(b) = c.next + n /\ Len(c.body) = c.next
  <2>1. Len(c.body) = c.next
    BY <1>1 DEF Sound
  <2> HIDE DEF more
  <2>2. c.body \o more \in Seq(0..Total - 1) /\ Len(c.body \o more) = Len(c.body) + Len(more)
    <3> DEFINE S == 0..Total - 1
    <3>1. c.body \in Seq(S) /\ more \in Seq(S)
      BY <1>1, <1>2
    <3> HIDE DEF S
    <3>2. c.body \o more \in Seq(S) /\ Len(c.body \o more) = Len(c.body) + Len(more)
      BY <3>1, ConcatProperties
    <3> QED
      BY <3>2 DEF S
  <2> QED
    BY <1>1, <1>2, <2>1, <2>2 DEF b
<1>4. \A i \in 1..Len(b) : b[i] = i - 1
  <2> SUFFICES ASSUME NEW i \in 1..c.next + n PROVE b[i] = i - 1
    BY <1>3
  <2>1. \A k \in 1..n : more[k] = c.next + k - 1
    OBVIOUS
  <2>2. CASE i <= c.next
    BY <1>1, <1>2, <1>3, <2>2 DEF Sound
  <2>3. CASE i > c.next
    <3> HIDE DEF more
    <3>1. i - c.next \in 1..n /\ i \in Nat
      BY <1>1, <2>3
    <3>2. b[i] = more[i - c.next]
      BY <1>1, <1>2, <1>3, <2>3, <3>1
    <3>3. more[i - c.next] = c.next + (i - c.next) - 1
      BY <2>1, <3>1
    <3> QED
      BY <1>1, <3>1, <3>2, <3>3
  <2>4. i <= c.next \/ i > c.next
    BY <1>1
  <2> QED
    BY <2>2, <2>3, <2>4
<1> HIDE DEF more, b
<1>5. d = [c EXCEPT !.headers = TRUE, !.flushing = n, !.body = b]
  BY DEF on_file_data, b, more
<1>6. d \in Connection
  <2>1. n \in 0..ChunkSize
    BY SizeAssumption
  <2> QED
    BY <1>3, <1>5, <2>1 DEF Connection
<1>7. /\ d.phase = "live" /\ d.client = c.client /\ d.fd = c.fd /\ d.done = c.done /\ d.headers
      /\ d.body = b /\ d.flushing = n /\ d.next = c.next /\ d.end = c.end /\ d.vouched = c.vouched
      /\ d.first = c.first /\ d.file = c.file
  BY <1>5 DEF Connection
<1> HIDE DEF d
<1>8. Sound(d)
  BY <1>1, <1>3, <1>4, <1>7 DEF Sound
<1>9. Len(d.body) <= d.vouched
  BY <1>1, <1>3, <1>7 DEF Sound
<1>10. Leads(c, d)
  BY <1>6, <1>7, <1>8, <1>9 DEF Leads
<1> QED
  BY <1>10 DEF d

\* Leaving the file for now is allowed
LEMMA CloseLeads ==
    ASSUME NEW c \in Connection, Sound(c), c.phase = "live", NEW e \in {0, disk.inode}, e \in Nat
    PROVE  LET d == [c EXCEPT !.fd = e] IN
           /\ d \in Connection /\ Sound(d) /\ Leads(c, d) /\ d.phase = "live" /\ d.flushing = c.flushing
           /\ next_read_size(d) = next_read_size(c) /\ d.done = c.done /\ d.body = c.body
           /\ d.client = c.client /\ d.fd = e
<1> DEFINE d == [c EXCEPT !.fd = e]
<1>1. /\ d \in Connection /\ d.phase = c.phase /\ d.client = c.client /\ d.fd = e /\ d.done = c.done
      /\ d.headers = c.headers /\ d.body = c.body /\ d.flushing = c.flushing /\ d.next = c.next
      /\ d.end = c.end /\ d.vouched = c.vouched /\ d.first = c.first /\ d.file = c.file
  BY DEF Connection
<1> HIDE DEF d
<1>2. Sound(d)
  BY <1>1 DEF Sound
<1>3. Leads(c, d)
  BY <1>1, <1>2 DEF Leads
<1>4. next_read_size(d) = next_read_size(c)
  BY <1>1 DEF next_read_size
<1> QED
  BY <1>1, <1>2, <1>3, <1>4 DEF d

\* read(), open() and try_read()
LEMMA ReadLeads ==
    ASSUME NEW c \in Connection, Sound(c), c.phase = "live", c.flushing = 0, next_read_size(c) # 0,
           NEW d \in read(c)
    PROVE  Leads(c, d)
<1>1. next_read_size(c) \in 1..ChunkSize /\ c.next + next_read_size(c) <= c.end
  BY ReadSize, SizeAssumption
<1>2. \/ d = abort(c) \/ d = on_file_data(c, next_read_size(c)) \/ d = [c EXCEPT !.fd = 0]
  BY DEF read
<1>3. Leads(c, [c EXCEPT !.fd = 0])
  BY CloseLeads
<1> QED
  BY <1>1, <1>2, <1>3, AbortLeads, ChunkLeads

\* Dropping a completion that was taken back: only a stream that has sent something
\* keeps its old prefix
LEMMA DropFacts ==
    ASSUME NEW c \in Connection, Sound(c), c.phase = "live"
    PROVE  LET d == request_file_redownload(drop_stale_download_state(c)) IN
           /\ d \in Connection /\ d.phase = "live" /\ d.client = c.client /\ d.file = c.file
           /\ d.path = c.path /\ d.fd = 0 /\ d.next = c.next /\ d.body = c.body
           /\ d.flushing = c.flushing /\ d.headers = c.headers /\ d.first = c.first
           /\ ~d.done /\ d.vouched = 0 /\ d.end = IF c.next = 0 THEN 0 ELSE c.end
<1> DEFINE e == drop_stale_download_state(c)
           d == request_file_redownload(e)
<1>1. /\ e \in Connection /\ e.phase = "live" /\ e.client = c.client /\ e.file = c.file
      /\ e.path = c.path /\ e.fd = 0 /\ e.next = c.next /\ e.body = c.body
      /\ e.flushing = c.flushing /\ e.headers = c.headers /\ e.first = c.first
      /\ e.done = FALSE /\ e.vouched = 0 /\ e.end = IF c.next = 0 THEN 0 ELSE c.end
  <2> DEFINE x == IF c.next = 0 THEN 0 ELSE c.end
  <2>1. x \in 0..Total /\ 0 \in 0..Total
    BY SizeAssumption DEF Connection
  <2>2. e = [c EXCEPT !.done = FALSE, !.fd = 0, !.vouched = 0, !.end = x]
    BY DEF drop_stale_download_state, Connection
  <2> HIDE DEF x, e
  <2>3. e \in Connection
    BY <2>1, <2>2 DEF Connection
  <2>4. /\ e.phase = "live" /\ e.client = c.client /\ e.file = c.file
        /\ e.path = c.path /\ e.fd = 0 /\ e.next = c.next /\ e.body = c.body
        /\ e.flushing = c.flushing /\ e.headers = c.headers /\ e.first = c.first
        /\ e.done = FALSE /\ e.vouched = 0 /\ e.end = x
    BY <2>2 DEF Connection
  <2> QED
    BY <2>3, <2>4 DEF x
<1> HIDE DEF e
<1>2. (e.asked \/ e.client) \in BOOLEAN
  OBVIOUS
<1>3. d = [e EXCEPT !.asked = e.asked \/ e.client]
  BY DEF request_file_redownload
<1>4. d \in Connection
  BY <1>1, <1>2, <1>3 DEF Connection
<1>5. /\ d.phase = "live" /\ d.client = c.client /\ d.file = c.file
      /\ d.path = c.path /\ d.fd = 0 /\ d.next = c.next /\ d.body = c.body
      /\ d.flushing = c.flushing /\ d.headers = c.headers /\ d.first = c.first
      /\ d.done = FALSE /\ d.vouched = 0 /\ d.end = IF c.next = 0 THEN 0 ELSE c.end
  BY <1>1, <1>3 DEF Connection
<1> QED
  BY <1>4, <1>5 DEF e

LEMMA OpenLeads ==
    ASSUME NEW c \in Connection, Sound(c), c.phase = "live", c.flushing = 0, next_read_size(c) # 0,
           disk.inode \in Nat, NEW d \in open(c)
    PROVE  Leads(c, d)
<1>1. CASE disk.path = c.path
  <2> DEFINE e == [c EXCEPT !.fd = disk.inode]
  <2>1. /\ e \in Connection /\ Sound(e) /\ e.phase = "live" /\ e.flushing = 0 /\ next_read_size(e) # 0
        /\ e.done = c.done /\ e.body = c.body /\ e.client = c.client /\ e.fd = disk.inode
    BY CloseLeads
  <2>2. d \in read(e)
    BY <1>1 DEF open
  <2> HIDE DEF e
  <2>3. Leads(e, d)
    BY <2>1, <2>2, ReadLeads
  <2> QED
    BY <2>1, <2>3 DEF Leads
<1>2. CASE d = c
  BY <1>2 DEF Leads
<1>3. CASE d = abort(c)
  BY <1>3, AbortLeads
<1>4. CASE d = request_file_redownload(drop_stale_download_state(c)) /\ file_stream_waits_for_redownload(c)
  <2>1. c.next = 0
    BY <1>4 DEF file_stream_waits_for_redownload, Sound, Connection
  <2>2. /\ d \in Connection /\ d.phase = "live" /\ d.client = c.client /\ d.file = c.file
        /\ d.fd = 0 /\ d.next = 0 /\ d.body = c.body /\ d.flushing = c.flushing
        /\ d.headers = c.headers /\ d.first = c.first /\ ~d.done /\ d.vouched = 0 /\ d.end = 0
    BY <1>4, <2>1, DropFacts
  <2>3. Sound(d)
    BY <2>1, <2>2 DEF Sound
  <2> QED
    BY <2>2, <2>3 DEF Leads
<1> QED
  BY <1>1, <1>2, <1>3, <1>4 DEF open

LEMMA TryReadLeads ==
    ASSUME NEW c \in Connection, Sound(c), c.phase = "live", disk.inode \in Nat, NEW d \in try_read(c)
    PROVE  Leads(c, d)
<1>1. CASE d = c
  BY <1>1 DEF Leads
<1>2. CASE c.flushing = 0 /\ c.next = Total /\ d = Ended([c EXCEPT !.headers = TRUE], "ok")
  <2> DEFINE e == [c EXCEPT !.headers = TRUE]
  <2>1. e \in Connection /\ e.client = c.client /\ e.next = c.next /\ e.body = c.body
    BY DEF Connection
  <2> HIDE DEF e
  <2>2. /\ d \in Connection /\ d.phase = "ok" /\ d.client = c.client /\ d.fd = 0
        /\ d.next = c.next /\ d.body = c.body
    BY <1>2, <2>1, EndedTyped DEF e
  <2>3. Len(c.body) = Total
    BY <1>2, SizeAssumption DEF Sound
  <2>4. Sound(d)
    BY <1>2, <2>2, <2>3 DEF Sound
  <2> QED
    BY <2>2, <2>4 DEF Leads
<1>3. CASE c.flushing = 0 /\ next_read_size(c) # 0 /\ (d \in open(c) \/ d \in read(c))
  BY <1>3, OpenLeads, ReadLeads
<1>4. c.flushing > 0 \/ c.flushing = 0
  BY DEF Connection
<1> QED
  BY <1>1, <1>2, <1>3, <1>4 DEF try_read

\* What a report changes besides the path
LEMMA ReportFacts ==
    ASSUME NEW c \in Connection, c.phase = "live", NEW f \in LocalFile, NEW b \in BOOLEAN
    PROVE  LET d == [update_progress(c, f) EXCEPT !.done = b] IN
           /\ d \in Connection /\ d.phase = "live" /\ d.client = c.client /\ d.file = c.file
           /\ d.fd = c.fd /\ d.next = c.next /\ d.body = c.body
           /\ d.flushing = c.flushing /\ d.headers = c.headers /\ d.first = c.first /\ d.done = b
           /\ d.end = IF f.prefix > c.end THEN f.prefix ELSE c.end
           /\ d.vouched = IF f.prefix > c.vouched THEN f.prefix ELSE c.vouched
<1> DEFINE x == IF f.prefix > c.end THEN f.prefix ELSE c.end
           y == IF f.prefix > c.vouched THEN f.prefix ELSE c.vouched
           e == update_progress(c, f)
           d == [e EXCEPT !.done = b]
<1>1. x \in 0..Total /\ y \in 0..Total
  BY DEF Connection, LocalFile
<1>2. e = [c EXCEPT !.end = x, !.vouched = y]
  BY DEF update_progress, Connection
<1> HIDE DEF x, y, e
<1>3. e \in Connection
  BY <1>1, <1>2 DEF Connection
<1>4. /\ e.phase = "live" /\ e.client = c.client /\ e.file = c.file
      /\ e.fd = c.fd /\ e.next = c.next /\ e.body = c.body
      /\ e.flushing = c.flushing /\ e.headers = c.headers /\ e.first = c.first
      /\ e.end = x /\ e.vouched = y
  BY <1>2 DEF Connection
<1>5. d \in Connection /\ d.done = b
  BY <1>3 DEF Connection
<1>6. /\ d.phase = "live" /\ d.client = c.client /\ d.file = c.file
      /\ d.fd = c.fd /\ d.next = c.next /\ d.body = c.body
      /\ d.flushing = c.flushing /\ d.headers = c.headers /\ d.first = c.first
      /\ d.end = x /\ d.vouched = y
  BY <1>3, <1>4 DEF Connection
<1> QED
  BY <1>5, <1>6 DEF x, y, e

LEMMA FollowFacts ==
    ASSUME NEW c \in Connection, c.phase = "live", NEW f \in LocalFile
    PROVE  LET d == follow_path(c, f) IN
           /\ d \in Connection /\ d.phase = "live" /\ d.client = c.client /\ d.file = c.file
           /\ d.fd \in {0, c.fd} /\ d.next = c.next /\ d.body = c.body /\ d.done = c.done
           /\ d.flushing = c.flushing /\ d.headers = c.headers /\ d.first = c.first
           /\ d.end = c.end /\ d.vouched = c.vouched
<1>1. CASE follow_path(c, f) = c
  BY <1>1
<1>2. CASE follow_path(c, f) = [c EXCEPT !.path = f.path, !.fd = 0]
  <2>1. f.path \in Paths
    BY DEF LocalFile
  <2> DEFINE d == [c EXCEPT !.path = f.path, !.fd = 0]
  <2>2. d \in Connection
    BY <2>1 DEF Connection
  <2>3. /\ d.phase = "live" /\ d.client = c.client /\ d.file = c.file
        /\ d.fd = 0 /\ d.next = c.next /\ d.body = c.body /\ d.done = c.done
        /\ d.flushing = c.flushing /\ d.headers = c.headers /\ d.first = c.first
        /\ d.end = c.end /\ d.vouched = c.vouched
    BY DEF Connection
  <2> QED
    BY <1>2, <2>2, <2>3
<1> QED
  BY <1>1, <1>2 DEF follow_path

\* on_file_ready() starts from what TDLib said when the file was asked for
LEMMA ReadyLeads ==
    ASSUME NEW c \in Connection, Sound(c), c.phase = "live", disk.inode \in Nat,
           NEW f \in LocalFile, NEW fits \in BOOLEAN, NEW d \in on_file_ready(c, f, fits)
    PROVE  /\ d \in Connection /\ Sound(d) /\ d.phase # "none" /\ d.client = c.client
           /\ d.fd \in {0, c.fd, disk.inode}
           /\ d.phase = "live" /\ d.done => f.done
           /\ d.body # c.body => Len(d.body) <= d.vouched
<1> DEFINE c0 == [c EXCEPT !.file = TRUE]
           c1 == follow_path(c0, f)
           c2 == [update_progress(c1, f) EXCEPT !.done = f.done]
<1>1. /\ c0 \in Connection /\ c0.phase = "live" /\ c0.client = c.client /\ c0.file = TRUE
      /\ c0.fd = c.fd /\ c0.next = c.next /\ c0.body = c.body /\ c0.done = c.done
      /\ c0.flushing = c.flushing /\ c0.headers = c.headers /\ c0.first = c.first
      /\ c0.end = c.end /\ c0.vouched = c.vouched
  BY DEF Connection
<1> HIDE DEF c0
<1>2. /\ c1 \in Connection /\ c1.phase = "live" /\ c1.client = c.client /\ c1.file
      /\ c1.fd \in {0, c.fd} /\ c1.next = c.next /\ c1.body = c.body /\ c1.done = c.done
      /\ c1.flushing = c.flushing /\ c1.headers = c.headers /\ c1.first = c.first
      /\ c1.end = c.end /\ c1.vouched = c.vouched
  BY <1>1, FollowFacts
<1> HIDE DEF c1
<1>3. f.done \in BOOLEAN /\ f.prefix \in 0..Total
  BY DEF LocalFile
<1>4. /\ c2 \in Connection /\ c2.phase = "live" /\ c2.client = c.client /\ c2.file
      /\ c2.fd \in {0, c.fd} /\ c2.next = c.next /\ c2.body = c.body /\ c2.done = f.done
      /\ c2.flushing = c.flushing /\ c2.headers = c.headers /\ c2.first = c.first
      /\ c2.end = IF f.prefix > c.end THEN f.prefix ELSE c.end
      /\ c2.vouched = IF f.prefix > c.vouched THEN f.prefix ELSE c.vouched
  BY <1>2, <1>3, ReportFacts
<1> HIDE DEF c2
<1>5. Sound(c1)
  BY <1>2 DEF Sound
<1>6. Sound(c2)
  BY <1>3, <1>4 DEF Sound, Connection
<1>7. CASE d = abort(c1)
  BY <1>2, <1>5, <1>7, AbortLeads DEF Leads
<1>8. CASE d = abort(c2)
  BY <1>4, <1>6, <1>8, AbortLeads DEF Leads
<1>9. CASE d \in try_read(c2)
  <2>1. Leads(c2, d)
    BY <1>4, <1>6, <1>9, TryReadLeads
  <2> QED
    BY <1>4, <2>1 DEF Leads
<1> QED
  BY <1>7, <1>8, <1>9 DEF on_file_ready, c0, c1, c2

\* on_file_progress(); a completion is never taken back by the report of a running
\* download, so what was sent before is not prolonged
LEMMA ProgressLeads ==
    ASSUME NEW c \in Connection, Sound(c), c.phase = "live", disk.inode \in Nat,
           NEW f \in LocalFile, c.done /\ ~f.done => ~f.active, NEW d \in on_file_progress(c, f)
    PROVE  /\ d \in Connection /\ Sound(d) /\ d.phase # "none" /\ d.client = c.client
           /\ d.fd \in {0, c.fd, disk.inode}
           /\ d.phase = "live" /\ d.done => f.done /\ c.file
           /\ d.body # c.body => Len(d.body) <= d.vouched
<1> DEFINE revoked == c.done /\ ~f.done
           c1 == follow_path(c, f)
           dropped == request_file_redownload(drop_stale_download_state(c1))
           c2 == IF revoked THEN dropped ELSE c1
           b == update_progress(c2, f).done \/ f.done
           c3 == [update_progress(c2, f) EXCEPT !.done = b]
<1>1. /\ c1 \in Connection /\ c1.phase = "live" /\ c1.client = c.client /\ c1.file = c.file
      /\ c1.fd \in {0, c.fd} /\ c1.next = c.next /\ c1.body = c.body /\ c1.done = c.done
      /\ c1.flushing = c.flushing /\ c1.headers = c.headers /\ c1.first = c.first
      /\ c1.end = c.end /\ c1.vouched = c.vouched
  BY FollowFacts
<1> HIDE DEF c1
<1>2. Sound(c1)
  BY <1>1 DEF Sound
<1>3. /\ f.done \in BOOLEAN /\ f.active \in BOOLEAN /\ f.prefix \in 0..Total /\ c.done \in BOOLEAN
      /\ c.next \in 0..Total /\ c.end \in 0..Total /\ c.vouched \in 0..Total
  BY DEF LocalFile, Connection
<1>4. /\ dropped \in Connection /\ dropped.phase = "live" /\ dropped.client = c.client
      /\ dropped.file = c.file /\ dropped.fd = 0 /\ dropped.next = c.next /\ dropped.body = c.body
      /\ dropped.flushing = c.flushing /\ dropped.headers = c.headers /\ dropped.first = c.first
      /\ ~dropped.done /\ dropped.vouched = 0
      /\ dropped.end = IF c.next = 0 THEN 0 ELSE c.end
  BY <1>1, <1>2, DropFacts
<1> HIDE DEF dropped
<1>5. /\ c2 \in Connection /\ c2.phase = "live" /\ c2.client = c.client
      /\ c2.file = c.file /\ c2.fd \in {0, c.fd} /\ c2.next = c.next /\ c2.body = c.body
      /\ c2.flushing = c.flushing /\ c2.headers = c.headers /\ c2.first = c.first
  BY <1>1, <1>4
<1>6. ~c2.done \/ f.done
  BY <1>1, <1>4
<1>7. /\ revoked => c2.vouched = 0 /\ c2.end = IF c.next = 0 THEN 0 ELSE c.end
      /\ ~revoked => c2.vouched = c.vouched /\ c2.end = c.end
  BY <1>1, <1>4
<1> HIDE DEF c2
<1>8. b \in BOOLEAN /\ (b <=> f.done)
  <2>1. update_progress(c2, f).done = c2.done
    BY <1>5 DEF update_progress, Connection
  <2> QED
    BY <1>6, <2>1
<1> HIDE DEF b
<1>9. /\ c3 \in Connection /\ c3.phase = "live" /\ c3.client = c.client /\ c3.file = c.file
      /\ c3.fd \in {0, c.fd} /\ c3.next = c.next /\ c3.body = c.body /\ c3.done = b
      /\ c3.flushing = c.flushing /\ c3.headers = c.headers /\ c3.first = c.first
      /\ c3.end = IF f.prefix > c2.end THEN f.prefix ELSE c2.end
      /\ c3.vouched = IF f.prefix > c2.vouched THEN f.prefix ELSE c2.vouched
  BY <1>5, <1>8, ReportFacts
<1> HIDE DEF c3
<1>10. /\ \A i \in 1..Len(c.body) : c.body[i] = i - 1
       /\ c.next <= c.end /\ c.end <= c.vouched
       /\ Len(c.body) = c.next + c.flushing /\ Len(c.body) <= Total
       /\ ~c.headers => c.body = <<>>
       /\ c.first <=> c.next > 0
       /\ c.done => c.file
  BY DEF Sound
<1>11. CASE ~c.file /\ d = c
  BY <1>10, <1>11
<1>12. CASE c.file /\ revoked /\ c.next > 0
  <2>1. ~c3.done /\ c3.first /\ ~f.active
    BY <1>3, <1>8, <1>9, <1>10, <1>12
  <2>2. d = abort(c3)
    BY <1>12, <2>1 DEF on_file_progress, c1, dropped, c2, b, c3, file_stream_fails_on_stopped_download
  <2> DEFINE how == IF c3.headers THEN "cut" ELSE "json"
  <2>3. d = Ended(c3, how) /\ how \in {"ok", "json", "cut"} /\ how \notin {"ok", "live", "none"}
    BY <2>2 DEF abort
  <2>4. how = "json" => c.body = <<>>
    BY <1>9, <1>10
  <2> HIDE DEF how
  <2>5. /\ d \in Connection /\ d.phase = how /\ d.client = c.client /\ d.fd = 0 /\ d.body = c.body
    BY <1>9, <2>3, EndedTyped
  <2>6. Sound(d)
    BY <1>10, <2>3, <2>4, <2>5 DEF Sound
  <2> QED
    BY <2>3, <2>5, <2>6
<1>13. CASE c.file /\ ~(revoked /\ c.next > 0)
  <2>1. c.next <= c3.end /\ c3.end <= c3.vouched
    <3>1. CASE revoked
      BY <1>3, <1>7, <1>9, <1>13, <3>1
    <3>2. CASE ~revoked
      BY <1>3, <1>7, <1>9, <1>10, <3>2
    <3> QED
      BY <3>1, <3>2
  <2>2. Sound(c3)
    BY <1>9, <1>10, <1>13, <2>1 DEF Sound
  <2>3. CASE d = abort(c3)
    BY <1>9, <2>2, <2>3, AbortLeads, <1>13, <1>8 DEF Leads
  <2>4. CASE d \in try_read(c3)
    <3>1. Leads(c3, d)
      BY <1>9, <2>2, <2>4, TryReadLeads
    <3> QED
      BY <1>8, <1>9, <1>13, <3>1 DEF Leads
  <2> QED
    BY <1>13, <2>3, <2>4 DEF on_file_progress, c1, dropped, c2, b, c3
<1>14. c.file \in BOOLEAN
  BY DEF Connection
<1> QED
  BY <1>11, <1>12, <1>13, <1>14 DEF on_file_progress

\* on_chunk_flushed()
LEMMA FlushedLeads ==
    ASSUME NEW c \in Connection, Sound(c), c.phase = "live", c.flushing > 0, disk.inode \in Nat,
           NEW d \in on_chunk_flushed(c)
    PROVE  Leads(c, d)
<1> DEFINE n == c.next + c.flushing
           e == [c EXCEPT !.flushing = 0, !.next = n, !.first = TRUE]
<1>1. CASE d = abort(c)
  BY <1>1, AbortLeads
<1>2. CASE c.flushing <= c.end - c.next /\ d \in try_read(e)
  <2>1. /\ c.next \in 0..Total /\ c.end \in 0..Total /\ c.flushing \in 0..ChunkSize
        /\ Total \in Nat /\ ChunkSize \in Nat
    BY SizeAssumption DEF Connection
  <2>2. n \in 0..Total /\ n > 0 /\ n <= c.end /\ 0 \in 0..ChunkSize /\ n = Len(c.body)
    BY <1>2, <2>1 DEF Sound
  <2> HIDE DEF n
  <2>3. /\ e \in Connection /\ e.phase = "live" /\ e.client = c.client /\ e.file = c.file
        /\ e.fd = c.fd /\ e.next = n /\ e.body = c.body /\ e.done = c.done
        /\ e.flushing = 0 /\ e.headers = c.headers /\ e.first = TRUE
        /\ e.end = c.end /\ e.vouched = c.vouched
    BY <2>2 DEF Connection
  <2> HIDE DEF e
  <2>4. Sound(e)
    BY <2>1, <2>2, <2>3 DEF Sound
  <2>5. Leads(e, d)
    BY <1>2, <2>3, <2>4, TryReadLeads
  <2> QED
    BY <2>3, <2>5 DEF Leads
<1>3. c.flushing > c.end - c.next \/ c.flushing <= c.end - c.next
  BY SizeAssumption DEF Connection
<1> QED
  BY <1>1, <1>2, <1>3 DEF on_chunk_flushed

-----------------------------------------------------------------------------
\* What stays true of a queue of reports when its head is taken or a message is added

LEMMA HeardTail ==
    ASSUME NEW S, NEW q \in Seq(S), q # <<>>
    PROVE  /\ Coherent(q) => Coherent(Tail(q))
           /\ Coherent(q) /\ Complete(Head(q)) => Follows(Tail(q))
           /\ Follows(q) => ~Busy(Head(q))
           /\ Follows(q) /\ ~Idle(Head(q)) => Follows(Tail(q))
           /\ SaysIdle(Tail(q)) => SaysIdle(q)
           /\ SaysIdle(q) /\ ~Idle(Head(q)) => SaysIdle(Tail(q))
           /\ LeavesComplete(Tail(q)) => LeavesComplete(q)
           /\ Complete(Head(q)) /\ ~SaysIdle(Tail(q)) => LeavesComplete(q)
<1> DEFINE r == Tail(q)
<1>1. /\ Len(q) \in Nat \ {0} /\ Len(r) = Len(q) - 1 /\ Head(q) = q[1]
      /\ \A k \in 1..Len(q) - 1 : r[k] = q[k + 1]
  OBVIOUS
<1> HIDE DEF r
<1>2. \A k \in 2..Len(q) : k - 1 \in 1..Len(r) /\ r[k - 1] = q[k]
  <2> SUFFICES ASSUME NEW k \in 2..Len(q) PROVE k - 1 \in 1..Len(r) /\ r[k - 1] = q[k]
    OBVIOUS
  <2>1. k - 1 \in 1..Len(q) - 1 /\ (k - 1) + 1 = k
    BY <1>1
  <2>2. r[k - 1] = q[(k - 1) + 1]
    BY <1>1, <2>1
  <2> QED
    BY <1>1, <2>1, <2>2
<1>3. \A k \in 1..Len(r) : k + 1 \in 1..Len(q) /\ k + 1 \in 2..Len(q) /\ k \in Nat /\ r[k] = q[k + 1]
  BY <1>1
<1>4. 1 \in 1..Len(q)
  BY <1>1
<1>5. ASSUME Coherent(q) PROVE Coherent(r)
  <2> SUFFICES ASSUME NEW i \in 1..Len(r), NEW j \in 1..Len(r), i < j, Complete(r[i]), Busy(r[j])
               PROVE  \E k \in i + 1..j - 1 : Idle(r[k])
    BY DEF Coherent
  <2>1. PICK k \in (i + 1) + 1..(j + 1) - 1 : Idle(q[k])
    BY <1>3, <1>5 DEF Coherent
  <2>2. k \in 2..Len(q) /\ k - 1 \in i + 1..j - 1
    BY <1>1
  <2> QED
    BY <1>2, <2>1, <2>2
<1>6. ASSUME Coherent(q), Complete(Head(q)) PROVE Follows(r)
  <2> SUFFICES ASSUME NEW j \in 1..Len(r), Busy(r[j]) PROVE \E k \in 1..j - 1 : Idle(r[k])
    BY DEF Follows
  <2>1. PICK k \in 1 + 1..(j + 1) - 1 : Idle(q[k])
    BY <1>1, <1>3, <1>4, <1>6 DEF Coherent
  <2>2. k \in 2..Len(q) /\ k - 1 \in 1..j - 1
    BY <1>1
  <2> QED
    BY <1>2, <2>1, <2>2
<1>7. ASSUME Follows(q) PROVE ~Busy(Head(q))
  BY <1>1, <1>4, <1>7 DEF Follows
<1>8. ASSUME Follows(q), ~Idle(Head(q)) PROVE Follows(r)
  <2> SUFFICES ASSUME NEW j \in 1..Len(r), Busy(r[j]) PROVE \E k \in 1..j - 1 : Idle(r[k])
    BY DEF Follows
  <2>1. PICK k \in 1..(j + 1) - 1 : Idle(q[k])
    BY <1>3, <1>8 DEF Follows
  <2>2. k # 1
    BY <1>1, <1>8, <2>1
  <2>3. k \in 2..Len(q) /\ k - 1 \in 1..j - 1
    BY <1>1, <2>2
  <2> QED
    BY <1>2, <2>1, <2>3
<1>9. ASSUME SaysIdle(r) PROVE SaysIdle(q)
  BY <1>3, <1>9 DEF SaysIdle
<1>10. ASSUME SaysIdle(q), ~Idle(Head(q)) PROVE SaysIdle(r)
  <2>1. PICK k \in 1..Len(q) : Idle(q[k])
    BY <1>10 DEF SaysIdle
  <2>2. k \in 2..Len(q)
    BY <1>1, <1>10, <2>1
  <2> QED
    BY <1>2, <2>1, <2>2 DEF SaysIdle
<1>11. ASSUME LeavesComplete(r) PROVE LeavesComplete(q)
  <2>1. PICK i \in 1..Len(r) : Complete(r[i]) /\ \A k \in i + 1..Len(r) : ~Idle(r[k])
    BY <1>11 DEF LeavesComplete
  <2>2. i + 1 \in 1..Len(q) /\ Complete(q[i + 1])
    BY <1>3, <2>1
  <2>3. ASSUME NEW k \in (i + 1) + 1..Len(q) PROVE ~Idle(q[k])
    <3>1. k \in 2..Len(q) /\ k - 1 \in i + 1..Len(r)
      BY <1>1
    <3> QED
      BY <1>2, <2>1, <3>1
  <2> QED
    BY <2>2, <2>3 DEF LeavesComplete
<1>12. ASSUME Complete(Head(q)), ~SaysIdle(r) PROVE LeavesComplete(q)
  <2>1. ASSUME NEW k \in 1 + 1..Len(q) PROVE ~Idle(q[k])
    BY <1>2, <1>12 DEF SaysIdle
  <2> QED
    BY <1>1, <1>4, <1>12, <2>1 DEF LeavesComplete
<1> QED
  BY <1>5, <1>6, <1>7, <1>8, <1>9, <1>10, <1>11, <1>12 DEF r

LEMMA HeardAppend ==
    ASSUME NEW S, NEW q \in Seq(S), NEW m \in S
    PROVE  /\ Coherent(q) /\ (Busy(m) => ~LeavesComplete(q)) => Coherent(Append(q, m))
           /\ Follows(q) /\ (Busy(m) => SaysIdle(q)) => Follows(Append(q, m))
           /\ SaysIdle(Append(q, m)) <=> SaysIdle(q) \/ Idle(m)
           /\ LeavesComplete(Append(q, m)) => Complete(m) \/ (LeavesComplete(q) /\ ~Idle(m))
<1> DEFINE r == Append(q, m)
<1>1. /\ Len(q) \in Nat /\ Len(r) = Len(q) + 1 /\ r[Len(q) + 1] = m
      /\ \A k \in 1..Len(q) : r[k] = q[k]
  OBVIOUS
<1> HIDE DEF r
<1>2. \A k \in 1..Len(r) : k \in Nat /\ (k \in 1..Len(q) \/ k = Len(q) + 1)
  BY <1>1
<1>3. \A k \in 1..Len(q) : k \in 1..Len(r)
  BY <1>1
<1>4. ASSUME Coherent(q), Busy(m) => ~LeavesComplete(q) PROVE Coherent(r)
  <2> SUFFICES ASSUME NEW i \in 1..Len(r), NEW j \in 1..Len(r), i < j, Complete(r[i]), Busy(r[j])
               PROVE  \E k \in i + 1..j - 1 : Idle(r[k])
    BY DEF Coherent
  <2>1. i \in 1..Len(q)
    BY <1>1
  <2>2. CASE j \in 1..Len(q)
    <3>1. PICK k \in i + 1..j - 1 : Idle(q[k])
      BY <1>1, <1>4, <2>1, <2>2 DEF Coherent
    <3>2. k \in 1..Len(q)
      BY <2>1, <2>2
    <3> QED
      BY <1>1, <3>1, <3>2
  <2>3. CASE j = Len(q) + 1
    <3>1. ~LeavesComplete(q) /\ Complete(q[i])
      BY <1>1, <1>4, <2>1, <2>3
    <3>2. PICK k \in i + 1..Len(q) : Idle(q[k])
      BY <2>1, <3>1 DEF LeavesComplete
    <3>3. k \in 1..Len(q) /\ k \in i + 1..j - 1
      BY <1>1, <2>1, <2>3
    <3> QED
      BY <1>1, <3>2, <3>3
  <2> QED
    BY <1>2, <2>2, <2>3
<1>5. ASSUME Follows(q), Busy(m) => SaysIdle(q) PROVE Follows(r)
  <2> SUFFICES ASSUME NEW j \in 1..Len(r), Busy(r[j]) PROVE \E k \in 1..j - 1 : Idle(r[k])
    BY DEF Follows
  <2>1. CASE j \in 1..Len(q)
    <3>1. PICK k \in 1..j - 1 : Idle(q[k])
      BY <1>1, <1>5, <2>1 DEF Follows
    <3>2. k \in 1..Len(q)
      BY <2>1
    <3> QED
      BY <1>1, <3>1, <3>2
  <2>2. CASE j = Len(q) + 1
    <3>1. PICK k \in 1..Len(q) : Idle(q[k])
      BY <1>1, <1>5, <2>2 DEF SaysIdle
    <3>2. k \in 1..j - 1
      BY <1>1, <2>2
    <3> QED
      BY <1>1, <3>1, <3>2
  <2> QED
    BY <1>2, <2>1, <2>2
<1>6. SaysIdle(r) <=> SaysIdle(q) \/ Idle(m)
  <2>1. ASSUME SaysIdle(r) PROVE SaysIdle(q) \/ Idle(m)
    BY <1>1, <1>2, <2>1 DEF SaysIdle
  <2>2. ASSUME SaysIdle(q) PROVE SaysIdle(r)
    BY <1>1, <1>3, <2>2 DEF SaysIdle
  <2>3. ASSUME Idle(m) PROVE SaysIdle(r)
    <3>1. Len(q) + 1 \in 1..Len(r)
      BY <1>1
    <3> QED
      BY <1>1, <2>3, <3>1 DEF SaysIdle
  <2> QED
    BY <2>1, <2>2, <2>3
<1>7. ASSUME LeavesComplete(r), ~Complete(m) PROVE LeavesComplete(q) /\ ~Idle(m)
  <2>1. PICK i \in 1..Len(r) : Complete(r[i]) /\ \A k \in i + 1..Len(r) : ~Idle(r[k])
    BY <1>7 DEF LeavesComplete
  <2>2. i \in 1..Len(q)
    BY <1>1, <1>2, <1>7, <2>1
  <2>3. ASSUME NEW k \in i + 1..Len(q) PROVE ~Idle(q[k])
    <3>1. k \in 1..Len(q) /\ k \in i + 1..Len(r)
      BY <1>1, <2>2
    <3> QED
      BY <1>1, <2>1, <3>1
  <2>4. Len(q) + 1 \in i + 1..Len(r)
    BY <1>1, <2>2
  <2> QED
    BY <1>1, <2>1, <2>2, <2>3, <2>4 DEF LeavesComplete
<1> QED
  BY <1>4, <1>5, <1>6, <1>7 DEF r

-----------------------------------------------------------------------------
\* A step of a stream

\* What a handler sends: a release when the stream ends, and only then
LEMMA SentFacts ==
    ASSUME NEW c \in Connection, NEW d \in Connection
    PROVE  /\ sent(c, d) \in Seq(FromStream)
           /\ \A i \in 1..Len(sent(c, d)) :
                 /\ sent(c, d)[i].op # "send"
                 /\ sent(c, d)[i].op = "release" => d.phase # "live"
           /\ d.phase # "live" => \E i \in 1..Len(sent(c, d)) : sent(c, d)[i].op = "release"
<1> DEFINE r == [op |-> "redownload"]
           l == [op |-> "release"]
           m == [op |-> "remove", file |-> d.file, noCache |-> d.noCache, ok |-> d.phase = "ok"]
           a == IF d.asked /\ ~c.asked THEN <<r>> ELSE <<>>
           e == IF d.client THEN <<m>> ELSE <<>>
           b == IF d.phase = "live" THEN <<>> ELSE <<l>> \o e
<1>1. r \in FromStream /\ l \in FromStream /\ m \in FromStream
  <2>1. d.file \in BOOLEAN /\ d.noCache \in BOOLEAN /\ (d.phase = "ok") \in BOOLEAN
    BY DEF Connection
  <2>2. m \in [op : {"remove"}, file : BOOLEAN, noCache : BOOLEAN, ok : BOOLEAN]
    BY <2>1
  <2>3. r \in [op : {"send", "redownload", "release"}] /\ l \in [op : {"send", "redownload", "release"}]
    OBVIOUS
  <2> QED
    BY <2>2, <2>3 DEF FromStream
<1>2. r.op = "redownload" /\ l.op = "release" /\ m.op = "remove"
  OBVIOUS
<1> HIDE DEF r, l, m
<1>3. /\ a \in Seq(FromStream) /\ Len(a) \in Nat
      /\ \A i \in 1..Len(a) : a[i].op \notin {"send", "release"}
  BY <1>1, <1>2
<1>4. /\ e \in Seq(FromStream) /\ Len(e) \in Nat
      /\ \A i \in 1..Len(e) : e[i].op \notin {"send", "release"}
  BY <1>1, <1>2
<1> HIDE DEF a, e
<1>5. <<l>> \in Seq(FromStream) /\ Len(<<l>>) = 1 /\ <<l>>[1] = l
  BY <1>1
<1>6. /\ <<l>> \o e \in Seq(FromStream) /\ Len(<<l>> \o e) = 1 + Len(e)
      /\ (<<l>> \o e)[1] = l
      /\ \A i \in 1..1 + Len(e) : (<<l>> \o e)[i].op # "send"
  <2>1. /\ <<l>> \o e \in Seq(FromStream) /\ Len(<<l>> \o e) = Len(<<l>>) + Len(e)
        /\ \A i \in 1..Len(<<l>>) + Len(e) :
              (<<l>> \o e)[i] = IF i <= Len(<<l>>) THEN <<l>>[i] ELSE e[i - Len(<<l>>)]
    BY <1>4, <1>5, ConcatProperties
  <2>2. (<<l>> \o e)[1] = l
    BY <1>4, <1>5, <2>1
  <2>3. ASSUME NEW i \in 1..1 + Len(e) PROVE (<<l>> \o e)[i].op # "send"
    <3>1. CASE i = 1
      BY <1>2, <2>2, <3>1
    <3>2. CASE i # 1
      <4>1. i - 1 \in 1..Len(e) /\ ~(i <= 1)
        BY <1>4, <3>2
      <4>2. (<<l>> \o e)[i] = e[i - 1]
        BY <1>5, <2>1, <4>1
      <4> QED
        BY <1>4, <4>1, <4>2
    <3> QED
      BY <3>1, <3>2
  <2> QED
    BY <1>5, <2>1, <2>2, <2>3
<1>7. /\ b \in Seq(FromStream) /\ Len(b) \in Nat
      /\ \A i \in 1..Len(b) : b[i].op # "send" /\ d.phase # "live"
      /\ d.phase # "live" => 1 \in 1..Len(b) /\ b[1].op = "release"
  <2>1. CASE d.phase = "live"
    BY <2>1
  <2>2. CASE d.phase # "live"
    BY <1>2, <1>4, <1>6, <2>2
  <2> QED
    BY <2>1, <2>2
<1> HIDE DEF b
<1>8. /\ a \o b \in Seq(FromStream) /\ Len(a \o b) = Len(a) + Len(b)
      /\ \A i \in 1..Len(a) + Len(b) : (a \o b)[i] = IF i <= Len(a) THEN a[i] ELSE b[i - Len(a)]
  BY <1>3, <1>7, ConcatProperties
<1>9. sent(c, d) = a \o b
  BY DEF sent, a, b, e, r, l, m
<1> HIDE DEF a, b
<1>10. ASSUME NEW i \in 1..Len(a \o b)
       PROVE  (a \o b)[i].op # "send" /\ ((a \o b)[i].op = "release" => d.phase # "live")
  <2>1. CASE i <= Len(a)
    BY <1>3, <1>8, <2>1
  <2>2. CASE ~(i <= Len(a))
    <3>1. i - Len(a) \in 1..Len(b) /\ (a \o b)[i] = b[i - Len(a)]
      BY <1>3, <1>7, <1>8, <2>2
    <3> QED
      BY <1>7, <3>1
  <2> QED
    BY <2>1, <2>2
<1>11. ASSUME d.phase # "live" PROVE \E i \in 1..Len(a \o b) : (a \o b)[i].op = "release"
  <2>1. Len(a) + 1 \in 1..Len(a \o b) /\ ~(Len(a) + 1 <= Len(a)) /\ Len(a) + 1 - Len(a) = 1
    BY <1>3, <1>7, <1>8, <1>11
  <2>2. (a \o b)[Len(a) + 1] = b[1]
    BY <1>8, <2>1
  <2> QED
    BY <1>7, <1>11, <2>1, <2>2
<1> QED
  BY <1>8, <1>9, <1>10, <1>11

\* What the inductive invariant says of one stream and the messages to it
Hearing(s) ==
    /\ conn[s] \in Connection /\ Sound(conn[s]) /\ inbox[s] \in Seq(ToStream)
    /\ Attends(conn[s].done, inbox[s])
    /\ disk.inode \in Nat

\* A handler leaves the connection d and the messages q
Effect(s, d, q) ==
    /\ Sound(d) /\ d.phase # "none" /\ d.fd \in {0, conn[s].fd, disk.inode}
    /\ d.body # conn[s].body => Len(d.body) <= d.vouched
    /\ \A i \in 1..Len(q) : \E j \in 1..Len(inbox[s]) : q[i] = inbox[s][j]
    /\ d.phase = "live" =>
          /\ d.client => conn[s].client \/ \E i \in 1..Len(inbox[s]) : inbox[s][i].op = "client"
          /\ d.done => conn[s].done \/ \E i \in 1..Len(inbox[s]) : Reported(inbox[s][i])
          /\ Attends(d.done, q)
          /\ Believes(d.done, q) => Believes(conn[s].done, inbox[s])

\* A handler that takes no message
LEMMA SameQueueEffect ==
    ASSUME NEW s \in Stream, Hearing(s), NEW d \in Connection, Leads(conn[s], d)
    PROVE  Effect(s, d, inbox[s])
BY DEF Hearing, Leads, Effect, Attends, Believes

\* A handler that takes the head of the inbox: if it believes in a completion, the
\* head has reported it, or the belief is older and the head reports nothing
LEMMA HeadEffect ==
    ASSUME NEW s \in Stream, Hearing(s), inbox[s] # <<>>, NEW d \in Connection, Sound(d),
           d.phase # "none", d.fd \in {0, conn[s].fd, disk.inode},
           d.body # conn[s].body => Len(d.body) <= d.vouched,
           d.client => conn[s].client \/ Head(inbox[s]).op = "client",
           d.phase = "live" /\ d.done =>
              Complete(Head(inbox[s])) \/ (conn[s].done /\ ~Reported(Head(inbox[s])))
    PROVE  Effect(s, d, Tail(inbox[s]))
<1> DEFINE q == inbox[s]
           m == Head(q)
           r == Tail(q)
<1>1. /\ Coherent(q) => Coherent(r)
      /\ Coherent(q) /\ Complete(m) => Follows(r)
      /\ Follows(q) /\ ~Idle(m) => Follows(r)
      /\ SaysIdle(q) /\ ~Idle(m) => SaysIdle(r)
      /\ LeavesComplete(r) => LeavesComplete(q)
      /\ Complete(m) /\ ~SaysIdle(r) => LeavesComplete(q)
  BY HeardTail DEF Hearing
<1>2. \A i \in 1..Len(r) : \E j \in 1..Len(q) : r[i] = q[j]
  <2> SUFFICES ASSUME NEW i \in 1..Len(r) PROVE \E j \in 1..Len(q) : r[i] = q[j]
    OBVIOUS
  <2>1. i + 1 \in 1..Len(q) /\ r[i] = q[i + 1]
    BY DEF Hearing
  <2> QED
    BY <2>1
<1>3. m = q[1] /\ 1 \in 1..Len(q)
  BY DEF Hearing
<1> HIDE DEF q, m, r
<1>4. ASSUME d.phase = "live", d.done PROVE Complete(m) \/ (conn[s].done /\ ~Reported(m))
  BY <1>4 DEF q, m
<1>5. d.client => conn[s].client \/ m.op = "client"
  BY DEF q, m
<1>6. Coherent(q) /\ (conn[s].done => Follows(q))
  BY DEF Hearing, Attends, q
<1>7. ~Reported(m) => ~Idle(m)
  BY DEF Idle
<1>8. Complete(m) => Reported(m)
  BY DEF Complete
<1>9. Believes(conn[s].done, inbox[s]) <=> LeavesComplete(q) \/ (conn[s].done /\ ~SaysIdle(q))
  BY DEF Believes, q
<1>10. ASSUME d.phase = "live"
       PROVE  /\ d.client => conn[s].client \/ \E i \in 1..Len(q) : q[i].op = "client"
              /\ d.done => conn[s].done \/ \E i \in 1..Len(q) : Reported(q[i])
              /\ Coherent(r)
              /\ d.done => Follows(r)
              /\ LeavesComplete(r) \/ (d.done /\ ~SaysIdle(r)) => Believes(conn[s].done, inbox[s])
  <2>1. d.client => conn[s].client \/ \E i \in 1..Len(q) : q[i].op = "client"
    BY <1>3, <1>5
  <2>2. d.done => conn[s].done \/ \E i \in 1..Len(q) : Reported(q[i])
    BY <1>3, <1>4, <1>8, <1>10
  <2>3. Coherent(r) /\ (d.done => Follows(r))
    BY <1>1, <1>4, <1>6, <1>7, <1>10
  <2>4. LeavesComplete(r) \/ (d.done /\ ~SaysIdle(r)) => Believes(conn[s].done, inbox[s])
    BY <1>1, <1>4, <1>7, <1>9, <1>10
  <2> QED
    BY <2>1, <2>2, <2>3, <2>4
<1>11. Effect(s, d, r)
  BY <1>2, <1>10 DEF Effect, Attends, Believes, q
<1> QED
  BY <1>11 DEF q, r

LEMMA MessageTypes ==
    ASSUME NEW m \in ToStream
    PROVE  /\ m.op \in {"client", "error", "ready", "progress"}
           /\ m.op \in {"client", "error"} => ~Reported(m)
           /\ m.op \in {"ready", "progress"} => Reported(m) /\ m.file \in LocalFile
<1>1. CASE m \in [op : {"client", "error"}]
  <2>1. DOMAIN m = {"op"} /\ m.op \in {"client", "error"}
    BY <1>1
  <2> QED
    BY <2>1 DEF Reported
<1>2. CASE m \in [op : {"ready", "progress"}, file : LocalFile]
  <2>1. DOMAIN m = {"op", "file"} /\ m.op \in {"ready", "progress"} /\ m.file \in LocalFile
    BY <1>2
  <2> QED
    BY <2>1 DEF Reported
<1> QED
  BY <1>1, <1>2 DEF ToStream

LEMMA StreamEffect ==
    ASSUME NEW s \in Stream, Hearing(s),
           OnMessage(s) \/ OnChunkFlushed(s) \/ OnWriteFailed(s) \/ Timeout(s)
    PROVE  \E d \in Connection, q \in Seq(ToStream) : Effect(s, d, q) /\ Leaves(s, d, q)
<1> DEFINE c == conn[s]
<1>1. /\ Live(s) /\ c.phase = "live" /\ c \in Connection /\ Sound(c) /\ disk.inode \in Nat
      /\ inbox[s] \in Seq(ToStream)
  BY DEF Hearing, Live, OnMessage, OnChunkFlushed, OnWriteFailed, Timeout
<1>2. ASSUME NEW d, Leads(c, d), Leaves(s, d, inbox[s])
      PROVE  \E e \in Connection, q \in Seq(ToStream) : Effect(s, e, q) /\ Leaves(s, e, q)
  BY <1>1, <1>2, SameQueueEffect DEF Leads
<1>3. CASE OnChunkFlushed(s)
  <2>1. PICK d \in on_chunk_flushed(c) : Leaves(s, d, inbox[s])
    BY <1>3 DEF OnChunkFlushed
  <2>2. Leads(c, d)
    BY <1>1, <1>3, FlushedLeads DEF OnChunkFlushed
  <2> QED
    BY <1>2, <2>1, <2>2
<1>4. CASE OnWriteFailed(s) \/ Timeout(s)
  BY <1>1, <1>2, <1>4, AbortLeads DEF OnWriteFailed, Timeout
<1>5. CASE OnMessage(s)
  <2> DEFINE m == Head(inbox[s])
  <2>1. inbox[s] # <<>> /\ m \in ToStream /\ Tail(inbox[s]) \in Seq(ToStream)
    BY <1>1, <1>5 DEF OnMessage
  <2> DEFINE results == CASE m.op = "client" -> {[c EXCEPT !.client = TRUE]}
                          [] m.op = "error" -> {abort(c)}
                          [] m.op = "ready" -> UNION {on_file_ready(c, m.file, fits) : fits \in BOOLEAN}
                          [] m.op = "progress" -> on_file_progress(c, m.file)
  <2>2. PICK d \in results : Leaves(s, d, Tail(inbox[s]))
    BY <1>5 DEF OnMessage
  <2>3. CASE m.op = "client"
    <3>1. d = [c EXCEPT !.client = TRUE]
      BY <2>2, <2>3
    <3>2. /\ d \in Connection /\ d.phase = c.phase /\ d.fd = c.fd /\ d.done = c.done /\ d.file = c.file
          /\ d.headers = c.headers /\ d.body = c.body /\ d.flushing = c.flushing /\ d.next = c.next
          /\ d.end = c.end /\ d.vouched = c.vouched /\ d.first = c.first
      BY <1>1, <3>1 DEF Connection
    <3>3. Sound(d)
      BY <1>1, <3>2 DEF Sound
    <3>4. ~Reported(m)
      BY <2>1, <2>3, MessageTypes
    <3>5. Effect(s, d, Tail(inbox[s]))
      BY <1>1, <2>1, <2>3, <3>2, <3>3, <3>4, HeadEffect
    <3> QED
      BY <2>1, <2>2, <3>2, <3>5
  <2>4. CASE m.op = "error"
    <3>1. d = abort(c)
      BY <2>2, <2>4
    <3>2. Leads(c, d) /\ d.phase # "live"
      BY <1>1, <3>1, AbortLeads
    <3>3. Effect(s, d, Tail(inbox[s]))
      BY <2>1, <3>2, HeadEffect DEF Leads
    <3> QED
      BY <2>1, <2>2, <3>2, <3>3 DEF Leads
  <2>5. CASE m.op = "ready"
    <3>1. PICK fits \in BOOLEAN : d \in on_file_ready(c, m.file, fits)
      BY <2>2, <2>5
    <3>2. Reported(m) /\ m.file \in LocalFile
      BY <2>1, <2>5, MessageTypes
    <3>3. /\ d \in Connection /\ Sound(d) /\ d.phase # "none" /\ d.client = c.client
          /\ d.fd \in {0, c.fd, disk.inode}
          /\ d.phase = "live" /\ d.done => m.file.done
          /\ d.body # c.body => Len(d.body) <= d.vouched
      BY <1>1, <3>1, <3>2, ReadyLeads
    <3>4. Effect(s, d, Tail(inbox[s]))
      BY <2>1, <3>2, <3>3, HeadEffect DEF Complete
    <3> QED
      BY <2>1, <2>2, <3>3, <3>4
  <2>6. CASE m.op = "progress"
    <3>1. d \in on_file_progress(c, m.file)
      BY <2>2, <2>6
    <3>2. Reported(m) /\ m.file \in LocalFile
      BY <2>1, <2>6, MessageTypes
    <3>3. c.done /\ ~m.file.done => ~m.file.active
      <4>1. c.done => ~Busy(m)
        BY <1>1, <2>1, HeardTail DEF Hearing, Attends
      <4> QED
        BY <3>2, <4>1 DEF Busy
    <3>4. /\ d \in Connection /\ Sound(d) /\ d.phase # "none" /\ d.client = c.client
          /\ d.fd \in {0, c.fd, disk.inode}
          /\ d.phase = "live" /\ d.done => m.file.done
          /\ d.body # c.body => Len(d.body) <= d.vouched
      BY <1>1, <3>1, <3>2, <3>3, ProgressLeads
    <3>5. Effect(s, d, Tail(inbox[s]))
      BY <2>1, <3>2, <3>4, HeadEffect DEF Complete
    <3> QED
      BY <2>1, <2>2, <3>4, <3>5
  <2> QED
    BY <2>1, <2>3, <2>4, <2>5, <2>6, MessageTypes
<1> QED
  BY <1>3, <1>4, <1>5

-----------------------------------------------------------------------------
\* Types

LEMMA Sendable ==
    /\ Failure \in ToStream /\ Failure.op = "error" /\ ~Reported(Failure)
    /\ [op |-> "client"] \in ToStream /\ ~Reported([op |-> "client"])
    /\ \A s \in Stream : [op |-> "remote", by |-> s] \in ToTdlib
    /\ \A b \in {"stream", "getFile"} :
          [op |-> "download", by |-> b] \in ToTdlib /\ [kind |-> "refused", by |-> b] \in FromTdlib
    /\ [op |-> "cancel"] \in ToTdlib /\ [op |-> "delete"] \in ToTdlib
    /\ \A f \in LocalFile :
          /\ \A o \in {"ready", "progress"} : [op |-> o, file |-> f] \in ToStream
          /\ \A k \in {"update", "started"} : [kind |-> k, file |-> f] \in FromTdlib
          /\ \A s \in Stream : [kind |-> "remote", by |-> s, file |-> f] \in FromTdlib
BY DEF Failure, ToStream, ToTdlib, FromTdlib, Reported

LEMMA ReplyTypes ==
    ASSUME NEW m \in FromTdlib
    PROVE  /\ m.kind \in {"remote", "update", "started", "refused"}
           /\ m.kind = "remote" => m.by \in Stream
           /\ m.kind = "refused" => m.by \in {"stream", "getFile"} /\ ~Reported(m)
           /\ m.kind # "refused" => Reported(m) /\ m.file \in LocalFile
<1>1. CASE m \in [kind : {"remote"}, by : Stream, file : LocalFile]
  <2>1. DOMAIN m = {"kind", "by", "file"} /\ m.kind = "remote" /\ m.by \in Stream /\ m.file \in LocalFile
    BY <1>1
  <2> QED
    BY <2>1 DEF Reported
<1>2. CASE m \in [kind : {"update", "started"}, file : LocalFile]
  <2>1. DOMAIN m = {"kind", "file"} /\ m.kind \in {"update", "started"} /\ m.file \in LocalFile
    BY <1>2
  <2> QED
    BY <2>1 DEF Reported
<1>3. CASE m \in [kind : {"refused"}, by : {"stream", "getFile"}]
  <2>1. DOMAIN m = {"kind", "by"} /\ m.kind = "refused" /\ m.by \in {"stream", "getFile"}
    BY <1>3
  <2> QED
    BY <2>1 DEF Reported
<1> QED
  BY <1>1, <1>2, <1>3 DEF FromTdlib

LEMMA RequestTypes ==
    ASSUME NEW m \in ToTdlib
    PROVE  /\ m.op \in {"remote", "download", "cancel", "delete"}
           /\ m.op = "remote" => m.by \in Stream
           /\ m.op = "download" => m.by \in {"stream", "getFile"}
BY DEF ToTdlib

LEMMA TellTyped ==
    ASSUME inbox \in [Stream -> Seq(ToStream)], NEW S, NEW m \in ToStream
    PROVE  Tell(S, m) \in [Stream -> Seq(ToStream)]
BY DEF Tell

LEMMA AsksTyped ==
    ASSUME requests \in Seq(ToTdlib), NEW r \in ToTdlib, Asks(r)
    PROVE  requests' \in Seq(ToTdlib)
BY DEF Asks

LEMMA QueueTail ==
    ASSUME NEW S, NEW q \in Seq(S), q # <<>>
    PROVE  Head(q) \in S /\ Tail(q) \in Seq(S)
OBVIOUS

LEMMA StreamTyped ==
    ASSUME Typed, NEW s \in Stream, NEW d \in Connection, NEW q \in Seq(ToStream), Leaves(s, d, q)
    PROVE  Typed'
<1>1. conn' \in [Stream -> Connection]
  BY DEF Typed, Leaves
<1>2. inbox' \in [Stream -> Seq(ToStream)]
  <2>1. (IF d.phase = "live" THEN q ELSE <<>>) \in Seq(ToStream)
    OBVIOUS
  <2> QED
    BY <2>1 DEF Typed, Leaves
<1>3. outbox' \in [Stream -> Seq(FromStream)]
  <2>1. sent(conn[s], d) \in Seq(FromStream) /\ outbox[s] \in Seq(FromStream)
    BY SentFacts DEF Typed
  <2>2. outbox[s] \o sent(conn[s], d) \in Seq(FromStream)
    BY <2>1, ConcatProperties
  <2>3. outbox' = [outbox EXCEPT ![s] = outbox[s] \o sent(conn[s], d)]
    BY DEF Leaves
  <2> QED
    BY <2>2, <2>3 DEF Typed
<1> QED
  BY <1>1, <1>2, <1>3 DEF Typed, Leaves, manager, client, tdlib, registry

LEMMA ArriveTyped ==
    ASSUME Typed, NEW s \in Stream, Arrive(s)
    PROVE  Typed'
<1>1. conn' \in [Stream -> Connection]
  <2>1. (s \in NoCache) \in BOOLEAN /\ conn[s] \in Connection
    BY DEF Typed
  <2>2. [conn[s] EXCEPT !.phase = "live", !.noCache = (s \in NoCache)] \in Connection
    BY <2>1 DEF Connection
  <2>3. conn' = [conn EXCEPT ![s] = [conn[s] EXCEPT !.phase = "live", !.noCache = (s \in NoCache)]]
    BY DEF Arrive, Typed
  <2> QED
    BY <2>2, <2>3 DEF Typed
<1>2. outbox' \in [Stream -> Seq(FromStream)]
  <2>1. <<[op |-> "send"]>> \in Seq(FromStream)
    BY DEF FromStream
  <2> QED
    BY <2>1 DEF Arrive, Typed
<1> QED
  BY <1>1, <1>2 DEF Typed, Arrive, manager, client, tdlib, registry

LEMMA HandledTyped ==
    ASSUME Typed, NEW s \in Stream, outbox[s] # <<>>, Handled(s)
    PROVE  outbox' \in [Stream -> Seq(FromStream)]
<1>1. Tail(outbox[s]) \in Seq(FromStream)
  BY QueueTail DEF Typed
<1> QED
  BY <1>1 DEF Handled, Typed

LEMMA ServerTyped ==
    ASSUME Typed, perToken = Cardinality(slots), NEW s \in Stream, ServerStep(s)
    PROVE  Typed'
<1>1. outbox' \in [Stream -> Seq(FromStream)]
  <2>1. outbox[s] # <<>> /\ Handled(s)
    BY DEF ServerStep, RefuseStream, AdmitStream, release_file_stream, remove_file_stream,
           RequestRedownload, Message
  <2> QED
    BY <2>1, HandledTyped
<1>2. CASE RefuseStream(s)
  BY <1>1, <1>2, TellTyped, Sendable DEF Typed, RefuseStream, manager, client, tdlib, registry
<1>3. CASE AdmitStream(s)
  <2> DEFINE greeted == Tell({s}, [op |-> "client"])
  <2>1. greeted \in [Stream -> Seq(ToStream)]
    BY TellTyped, Sendable DEF Typed
  <2>2. [greeted EXCEPT ![s] = IF Live(s) THEN Append(@, Failure) ELSE @] \in [Stream -> Seq(ToStream)]
    <3> HIDE DEF greeted
    <3>1. Append(greeted[s], Failure) \in Seq(ToStream)
      BY <2>1, Sendable
    <3> QED
      BY <2>1, <3>1
  <2>3. inbox' \in [Stream -> Seq(ToStream)]
    BY <1>3, <2>1, <2>2 DEF AdmitStream
  <2>4. pending' \in Seq(Stream)
    <3>1. pending' = Append(pending, s) \/ pending' = pending
      BY <1>3 DEF AdmitStream
    <3>2. pending \in Seq(Stream)
      BY DEF Typed
    <3>3. Append(pending, s) \in Seq(Stream)
      BY <3>2, AppendProperties
    <3> QED
      BY <3>1, <3>2, <3>3
  <2>5. requests' \in Seq(ToTdlib)
    BY <1>3, AsksTyped, Sendable DEF AdmitStream, Typed
  <2>6. slots' \in SUBSET Stream /\ perToken' \in Nat /\ active' \in SUBSET Stream
    <3>1. slots' = slots \cup {s} /\ perToken' = perToken + 1 /\ active' = active \cup {s}
      BY <1>3 DEF AdmitStream
    <3> QED
      BY <3>1 DEF Typed
  <2> QED
    BY <1>1, <1>3, <2>3, <2>4, <2>5, <2>6 DEF Typed, AdmitStream
<1>4. CASE release_file_stream(s)
  <2>1. slots' \in SUBSET Stream /\ perToken' \in Nat
    <3>1. CASE s \in slots
      <4>1. IsFiniteSet(slots)
        BY FS_Subset, StreamAssumption DEF Typed
      <4>2. Cardinality(slots \ {s}) = Cardinality(slots) - 1 /\ Cardinality(slots \ {s}) \in Nat
        BY <3>1, <4>1, FS_RemoveElement, FS_CardinalityType
      <4> QED
        BY <1>4, <3>1, <4>2 DEF release_file_stream, Typed
    <3>2. CASE s \notin slots
      BY <1>4, <3>2 DEF release_file_stream, Typed
    <3> QED
      BY <3>1, <3>2
  <2> QED
    BY <1>1, <1>4, <2>1 DEF Typed, release_file_stream, client, tdlib, registry
<1>5. CASE remove_file_stream(s)
  <2>1. requests' \in Seq(ToTdlib)
    <3>1. \/ UNCHANGED requests
          \/ \E a \in {"cancel", "delete"} : Asks([op |-> a])
      BY <1>5 DEF remove_file_stream
    <3> QED
      BY <3>1, AsksTyped, Sendable DEF Typed
  <2>2. pending' \in Seq(Stream)
    <3>1. pending' = RemoveFirst(pending, s) /\ pending \in Seq(Stream)
      BY <1>5 DEF remove_file_stream, Typed
    <3> QED
      BY <3>1, RemoveFirstFacts
  <2>3. active' \in SUBSET Stream /\ listeners' \in SUBSET Stream
    BY <1>5 DEF remove_file_stream, Typed
  <2> QED
    BY <1>1, <1>5, <2>1, <2>2, <2>3 DEF Typed, remove_file_stream, manager
<1>6. CASE RequestRedownload(s)
  <2>1. requests' \in Seq(ToTdlib)
    BY <1>6, AsksTyped, Sendable DEF RequestRedownload, Typed
  <2> QED
    BY <1>1, <1>6, <2>1 DEF Typed, RequestRedownload, manager, client, registry
<1> QED
  BY <1>2, <1>3, <1>4, <1>5, <1>6 DEF ServerStep

LEMMA ClientTyped ==
    ASSUME Typed, ClientStep
    PROVE  Typed'
<1>0. /\ inbox \in [Stream -> Seq(ToStream)] /\ requests \in Seq(ToTdlib) /\ replies \in Seq(FromTdlib)
      /\ pending \in Seq(Stream) /\ listeners \in SUBSET Stream
      /\ getFile \in {"none", "asked", "started", "answered", "failed"}
  BY DEF Typed
<1>1. CASE Authorize
  <2>1. inbox' \in [Stream -> Seq(ToStream)]
    BY <1>0, <1>1, TellTyped, Sendable DEF Authorize
  <2>2. requests' \in Seq(ToTdlib)
    <3> DEFINE more == [i \in 1..Len(pending) |-> [op |-> "remote", by |-> pending[i]]]
    <3>1. \A i \in 1..Len(pending) : [op |-> "remote", by |-> pending[i]] \in ToTdlib
      BY <1>0, Sendable
    <3>2. more \in Seq(ToTdlib)
      <4>1. Len(pending) \in Nat
        BY <1>0
      <4>2. more \in [1..Len(pending) -> ToTdlib]
        BY <3>1
      <4> QED
        BY <4>1, <4>2
    <3> HIDE DEF more
    <3>3. requests \o more \in Seq(ToTdlib)
      BY <1>0, <3>2, ConcatProperties
    <3>4. requests' = requests \o more \/ requests' = requests
      BY <1>1 DEF Authorize, more
    <3> QED
      BY <1>0, <3>3, <3>4
  <2>3. pending' \in Seq(Stream)
    BY <1>1 DEF Authorize
  <2> QED
    BY <1>1, <2>1, <2>2, <2>3 DEF Typed, Authorize, manager
<1>2. CASE StartClosing
  BY <1>2 DEF Typed, StartClosing, manager, registry, tdlib
<1>3. CASE on_closed
  <2>1. inbox' \in [Stream -> Seq(ToStream)]
    BY <1>0, <1>3, TellTyped, Sendable DEF on_closed
  <2>2. getFile' \in {"none", "asked", "started", "answered", "failed"}
    BY <1>0, <1>3 DEF on_closed
  <2>3. requests' \in Seq(ToTdlib) /\ replies' \in Seq(FromTdlib) /\ pending' \in Seq(Stream)
    BY <1>3 DEF on_closed
  <2> QED
    BY <1>3, <2>1, <2>2, <2>3 DEF Typed, on_closed, manager
<1>4. CASE DoGetFile
  <2>1. requests' \in Seq(ToTdlib)
    BY <1>0, <1>4, AsksTyped, Sendable DEF DoGetFile
  <2> QED
    BY <1>4, <2>1 DEF Typed, DoGetFile, manager, registry
<1>5. CASE ReleaseLocalFile
  <2>1. requests' \in Seq(ToTdlib)
    BY <1>0, <1>5, AsksTyped, Sendable DEF ReleaseLocalFile
  <2> QED
    BY <1>5, <2>1 DEF Typed, ReleaseLocalFile, manager, client, registry
<1>6. ASSUME NEW k, Reply(k)
      PROVE  Head(replies) \in FromTdlib /\ Head(replies).kind = k /\ replies' \in Seq(FromTdlib)
  BY <1>0, <1>6, QueueTail DEF Reply
<1>7. CASE OnRemoteFile
  <2> DEFINE m == Head(replies)
             s == m.by
             ready == Tell({s}, [op |-> "ready", file |-> m.file])
  <2>1. m \in FromTdlib /\ m.kind = "remote" /\ replies' \in Seq(FromTdlib)
    BY <1>6, <1>7 DEF OnRemoteFile
  <2>2. s \in Stream /\ m.file \in LocalFile
    BY <2>1, ReplyTypes
  <2>3. ready \in [Stream -> Seq(ToStream)]
    BY <1>0, <2>2, TellTyped, Sendable
  <2> HIDE DEF ready
  <2>4. [ready EXCEPT ![s] = IF Live(s) THEN Append(@, Failure) ELSE @] \in [Stream -> Seq(ToStream)]
    <3>1. Append(ready[s], Failure) \in Seq(ToStream)
      BY <2>2, <2>3, Sendable
    <3> QED
      BY <2>2, <2>3, <3>1
  <2>5. /\ \/ inbox' = inbox \/ inbox' = Tell({s}, Failure) \/ inbox' = ready
           \/ inbox' = [ready EXCEPT ![s] = IF Live(s) THEN Append(@, Failure) ELSE @]
        /\ requests' = requests \/ Asks([op |-> "download", by |-> "stream"])
        /\ listeners' = listeners \/ listeners' = listeners \cup {s}
    BY <1>7 DEF OnRemoteFile, ready
  <2>6. inbox' \in [Stream -> Seq(ToStream)]
    <3>1. Tell({s}, Failure) \in [Stream -> Seq(ToStream)]
      BY <1>0, TellTyped, Sendable
    <3> QED
      BY <1>0, <2>3, <2>4, <2>5, <3>1
  <2>7. requests' \in Seq(ToTdlib) /\ listeners' \in SUBSET Stream
    BY <1>0, <2>2, <2>5, AsksTyped, Sendable
  <2> QED
    BY <1>7, <2>1, <2>6, <2>7 DEF Typed, OnRemoteFile, manager
<1>8. ASSUME NEW f \in LocalFile, NEW g \in {"none", "asked", "started", "answered", "failed"},
             on_update_file(f, g)
      PROVE  /\ inbox' \in [Stream -> Seq(ToStream)]
             /\ getFile' \in {"none", "asked", "started", "answered", "failed"}
  <2>1. inbox' \in [Stream -> Seq(ToStream)]
    BY <1>0, <1>8, TellTyped, Sendable DEF on_update_file
  <2>2. getFile' \in {"none", "asked", "started", "answered", "failed"}
    BY <1>8 DEF on_update_file
  <2> QED
    BY <2>1, <2>2
<1>9. CASE OnUpdate
  <2>1. Head(replies).file \in LocalFile /\ replies' \in Seq(FromTdlib)
    BY <1>6, <1>9, ReplyTypes DEF OnUpdate
  <2>2. /\ inbox' \in [Stream -> Seq(ToStream)]
        /\ getFile' \in {"none", "asked", "started", "answered", "failed"}
    BY <1>0, <1>8, <1>9, <2>1 DEF OnUpdate
  <2> QED
    BY <1>9, <2>1, <2>2 DEF Typed, OnUpdate, manager, registry
<1>10. CASE OnStarted
  <2>1. Head(replies).file \in LocalFile /\ replies' \in Seq(FromTdlib)
    BY <1>6, <1>10, ReplyTypes DEF OnStarted
  <2>2. /\ inbox' \in [Stream -> Seq(ToStream)]
        /\ getFile' \in {"none", "asked", "started", "answered", "failed"}
    <3> DEFINE g == IF getFile = "asked" THEN "started" ELSE getFile
    <3>1. g \in {"none", "asked", "started", "answered", "failed"}
      BY <1>0
    <3>2. on_update_file(Head(replies).file, g)
      BY <1>10 DEF OnStarted
    <3> QED
      BY <1>8, <2>1, <3>1, <3>2
  <2> QED
    BY <1>10, <2>1, <2>2 DEF Typed, OnStarted, manager, registry
<1>11. CASE OnDownloadRefused
  <2>1. replies' \in Seq(FromTdlib)
    BY <1>6, <1>11 DEF OnDownloadRefused
  <2>2. inbox' \in [Stream -> Seq(ToStream)]
    BY <1>0, <1>11, TellTyped, Sendable DEF OnDownloadRefused
  <2>3. getFile' \in {"none", "asked", "started", "answered", "failed"}
    BY <1>0, <1>11 DEF OnDownloadRefused
  <2> QED
    BY <1>11, <2>1, <2>2, <2>3 DEF Typed, OnDownloadRefused, manager, registry
<1> QED
  BY <1>1, <1>2, <1>3, <1>4, <1>5, <1>7, <1>9, <1>10, <1>11 DEF ClientStep

-----------------------------------------------------------------------------
\* TDLib and the workdir: types, names and inodes

LEMMA FileTypes ==
    /\ \A b \in BOOLEAN :
          LET g == [NoCopy EXCEPT !.active = b] IN
          g \in LocalFile /\ g.active = b /\ g.done = FALSE /\ g.path = "none"
    /\ \A f \in LocalFile, b \in BOOLEAN :
          LET g == [f EXCEPT !.active = b] IN
          g \in LocalFile /\ g.active = b /\ g.done = f.done /\ g.path = f.path
    /\ \A p \in 1..Total :
          /\ Part(p) \in LocalFile
          /\ Part(p).path # "none" /\ (Part(p).path = "final" <=> p = Total)
          /\ Part(p).done <=> p = Total
          /\ Part(p).active <=> p < Total
<1>1. ASSUME NEW f \in LocalFile, NEW b \in BOOLEAN
      PROVE  LET g == [f EXCEPT !.active = b] IN
             g \in LocalFile /\ g.active = b /\ g.done = f.done /\ g.path = f.path
  BY DEF LocalFile
<1>2. NoCopy \in LocalFile /\ NoCopy.done = FALSE /\ NoCopy.path = "none"
  <2>1. 0 \in 0..Total /\ "none" \in Paths
    BY SizeAssumption DEF Paths
  <2> QED
    BY <2>1 DEF LocalFile, NoCopy
<1>3. ASSUME NEW p \in 1..Total
      PROVE  /\ Part(p) \in LocalFile
             /\ Part(p).path # "none" /\ (Part(p).path = "final" <=> p = Total)
             /\ Part(p).done <=> p = Total
             /\ Part(p).active <=> p < Total
  <2> DEFINE x == IF p = Total THEN "final" ELSE "temp"
             y == (p = Total)
             z == (p < Total)
  <2>1. x \in Paths /\ p \in 0..Total /\ y \in BOOLEAN /\ z \in BOOLEAN
    BY SizeAssumption DEF Paths
  <2>2. x # "none" /\ (x = "final" <=> p = Total) /\ (y <=> p = Total) /\ (z <=> p < Total)
    OBVIOUS
  <2>3. Part(p) = [path |-> x, prefix |-> p, done |-> y, active |-> z]
    BY DEF Part
  <2> HIDE DEF x, y, z
  <2>4. Part(p) \in LocalFile
    BY <2>1, <2>3 DEF LocalFile
  <2>5. Part(p).path = x /\ Part(p).done = y /\ Part(p).active = z
    BY <2>3
  <2> QED
    BY <2>2, <2>4, <2>5
<1> QED
  BY <1>1, <1>2, <1>3

\* What a step of TDLib does to local and to its reports
LEMMA TdTyped ==
    ASSUME Typed, NamesTell, FilesExist, TdStep
    PROVE  Typed' /\ NamesTell' /\ FilesExist'
<1>0. /\ requests \in Seq(ToTdlib) /\ replies \in Seq(FromTdlib)
      /\ local \in LocalFile /\ local.active \in BOOLEAN /\ local.done \in BOOLEAN
      /\ disk \in [path : Paths, inode : Nat] /\ writer \in Nat /\ copies \in Seq(1..Total)
  BY DEF Typed, LocalFile
<1>1. ASSUME NEW o, Request(o)
      PROVE  Head(requests) \in ToTdlib /\ Head(requests).op = o /\ requests' \in Seq(ToTdlib)
  BY <1>0, <1>1, QueueTail DEF Request
<1>2. Unlinked \in [path : Paths, inode : Nat]
  BY DEF Unlinked, Paths
<1>3. CASE TdGetRemoteFile
  <2>1. requests' \in Seq(ToTdlib) /\ Head(requests).by \in Stream
    BY <1>1, <1>3, RequestTypes DEF TdGetRemoteFile
  <2>2. [kind |-> "remote", by |-> Head(requests).by, file |-> local] \in FromTdlib
    BY <1>0, <2>1, Sendable
  <2>3. replies' \in Seq(FromTdlib)
    BY <1>0, <1>3, <2>2, AppendProperties DEF TdGetRemoteFile
  <2> QED
    BY <1>3, <2>1, <2>3 DEF Typed, NamesTell, FilesExist, TdGetRemoteFile, manager, client, registry
<1>4. CASE TdDownloadFile
  <2> DEFINE missing == local.path # "none" /\ disk.path # local.path
             found == IF missing THEN [NoCopy EXCEPT !.active = local.active] ELSE local
             f == [found EXCEPT !.active = ~found.done]
             kind == IF Head(requests).by = "getFile" THEN "started" ELSE "update"
             news == IF missing THEN <<Update(found)>> ELSE <<>>
  <2>1. /\ found \in LocalFile /\ found.done \in BOOLEAN
        /\ (found.done <=> found.path = "final") /\ (found.done => ~missing /\ found = local)
        /\ ~missing => found = local
    <3>1. CASE missing
      BY <1>0, <3>1, FileTypes
    <3>2. CASE ~missing
      BY <1>0, <3>2 DEF NamesTell
    <3> QED
      BY <3>1, <3>2
  <2>2. f \in LocalFile /\ f.done = found.done /\ f.path = found.path /\ f.active = ~found.done
    <3> HIDE DEF found
    <3>1. (~found.done) \in BOOLEAN
      BY <2>1
    <3> QED
      BY <2>1, <3>1, FileTypes
  <2>3. /\ local' = f
        /\ writer' = (IF local.active \/ found.path = "none" \/ found.done THEN writer ELSE disk.inode)
        /\ replies' = replies \o news \o <<[kind |-> kind, file |-> f]>>
    BY <1>4 DEF TdDownloadFile
  <2>4. requests' \in Seq(ToTdlib)
    BY <1>1, <1>4 DEF TdDownloadFile
  <2>5. news \in Seq(FromTdlib)
    <3> HIDE DEF found
    <3> QED
      <4>1. Update(found) \in FromTdlib
        BY <2>1, Sendable DEF Update
      <4> QED
        BY <4>1
  <2>6. <<[kind |-> kind, file |-> f]>> \in Seq(FromTdlib)
    <3>1. [kind |-> kind, file |-> f] \in FromTdlib
      <4> HIDE DEF f
      <4> QED
        BY <2>2, Sendable
    <3> QED
      BY <3>1
  <2>7. replies' \in Seq(FromTdlib)
    <3> HIDE DEF news, f
    <3>1. replies \o news \in Seq(FromTdlib)
      BY <1>0, <2>5, ConcatProperties
    <3> QED
      BY <2>3, <2>6, <3>1, ConcatProperties
  <2>8. writer' \in Nat /\ writer' <= Len(copies) /\ (writer' # 0 => copies[writer'] < Total)
    <3>1. CASE writer' = writer
      BY <1>0, <3>1 DEF NamesTell, FilesExist
    <3>2. CASE writer' = disk.inode /\ found.path # "none" /\ ~found.done /\ ~local.active
      <4>1. disk.inode \in Nat /\ disk.inode <= Len(copies)
        BY <1>0 DEF FilesExist
      <4>2. ASSUME disk.inode # 0 PROVE copies[disk.inode] < Total
        <5>1. disk.path # "none"
          BY <4>2 DEF NamesTell
        <5>2. found = local /\ disk.path = local.path
          <6>1. ~missing
            BY <3>2, FileTypes, <1>0
          <6> QED
            BY <2>1, <3>2, <6>1
        <5>3. disk.path # "final"
          BY <3>2, <5>2 DEF NamesTell
        <5>4. copies[disk.inode] # Total
          BY <5>1, <5>3 DEF NamesTell
        <5>5. copies[disk.inode] \in 1..Total
          <6>1. disk.inode \in 1..Len(copies)
            BY <1>0, <4>1, <4>2
          <6>2. copies \in Seq(1..Total)
            BY <1>0
          <6> QED
            BY <6>1, <6>2, ElementOfSeq
        <5> QED
          BY <5>4, <5>5, SizeAssumption
      <4> QED
        BY <3>2, <4>1, <4>2
    <3> QED
      BY <2>3, <3>1, <3>2
  <2>9. /\ UNCHANGED <<conn, inbox, outbox, slots, perToken, authorized, closing, active, pending>>
        /\ UNCHANGED <<listeners, getFile, disk, copies, broken>>
    BY <1>4 DEF TdDownloadFile, manager, client, registry
  <2>10. Typed'
    BY <2>2, <2>3, <2>4, <2>7, <2>8, <2>9 DEF Typed
  <2>11. NamesTell'
    <3> HIDE DEF f, found
    <3>1. local'.done <=> local'.path = "final"
      BY <2>1, <2>2, <2>3
    <3>2. local'.done => ~local'.active
      BY <2>1, <2>2, <2>3
    <3> QED
      BY <2>8, <2>9, <3>1, <3>2 DEF NamesTell
  <2>12. FilesExist'
    BY <2>8, <2>9 DEF FilesExist
  <2> QED
    BY <2>10, <2>11, <2>12
<1>5. CASE TdRefuseDownload
  <2>1. requests' \in Seq(ToTdlib) /\ Head(requests).by \in {"stream", "getFile"} /\ broken' = TRUE
    BY <1>1, <1>5, RequestTypes DEF TdRefuseDownload
  <2>2. [kind |-> "refused", by |-> Head(requests).by] \in FromTdlib
    BY <2>1, Sendable
  <2>3. replies' \in Seq(FromTdlib)
    BY <1>0, <1>5, <2>2, AppendProperties DEF TdRefuseDownload
  <2> QED
    BY <1>5, <2>1, <2>3 DEF Typed, NamesTell, FilesExist, TdRefuseDownload, manager, client, registry
<1>6. CASE TdCancelDownload
  <2>1. requests' \in Seq(ToTdlib)
    BY <1>1, <1>6 DEF TdCancelDownload
  <2>2. /\ local' \in LocalFile /\ local'.active = FALSE /\ local'.done = local.done
        /\ local'.path = local.path
    BY <1>0, <1>6, FileTypes DEF TdCancelDownload
  <2>3. replies' \in Seq(FromTdlib)
    <3> DEFINE u == Update(local')
    <3>1. replies' = Append(replies, u) \/ replies' = replies
      BY <1>6 DEF TdCancelDownload
    <3>2. u \in FromTdlib
      BY <2>2, Sendable DEF Update
    <3> HIDE DEF u
    <3>3. Append(replies, u) \in Seq(FromTdlib)
      BY <1>0, <3>2, AppendProperties
    <3> QED
      BY <1>0, <3>1, <3>3
  <2>4. /\ UNCHANGED <<conn, inbox, outbox, slots, perToken, authorized, closing, active, pending>>
        /\ UNCHANGED <<listeners, getFile, disk, copies, broken>> /\ writer' = 0
    BY <1>6 DEF TdCancelDownload, manager, client, registry
  <2>5. Typed'
    BY <2>1, <2>2, <2>3, <2>4 DEF Typed
  <2>6. NamesTell'
    BY <2>2, <2>4 DEF NamesTell
  <2>7. FilesExist'
    BY <1>0, <2>4 DEF FilesExist
  <2> QED
    BY <2>5, <2>6, <2>7
<1>7. CASE TdDeleteFile
  <2>1. requests' \in Seq(ToTdlib)
    BY <1>1, <1>7 DEF TdDeleteFile
  <2>2. /\ UNCHANGED <<conn, inbox, outbox, slots, perToken, authorized, closing, active, pending>>
        /\ UNCHANGED <<listeners, getFile, writer, copies, broken>>
    BY <1>7 DEF TdDeleteFile, manager, client, registry
  <2>3. CASE UNCHANGED <<local, disk, replies>>
    BY <2>1, <2>2, <2>3 DEF Typed, NamesTell, FilesExist
  <2>4. CASE /\ local' = [NoCopy EXCEPT !.active = local.active]
             /\ disk' = IF disk.path = local.path THEN Unlinked ELSE disk
             /\ replies' = Append(replies, Update(local'))
    <3>1. local' \in LocalFile /\ ~local'.done /\ local'.path = "none"
      BY <1>0, <2>4, FileTypes
    <3>2. replies' \in Seq(FromTdlib)
      <4>1. Update(local') \in FromTdlib
        BY <3>1, Sendable DEF Update
      <4> QED
        BY <1>0, <2>4, <4>1
    <3>3. disk' \in [path : Paths, inode : Nat] /\ (disk' = disk \/ disk' = Unlinked)
      BY <1>0, <1>2, <2>4
    <3>4. Typed'
      BY <2>1, <2>2, <3>1, <3>2, <3>3 DEF Typed
    <3>5. NamesTell' /\ FilesExist'
      <4>1. CASE disk' = disk
        BY <2>2, <3>1, <4>1 DEF NamesTell, FilesExist
      <4>2. CASE disk' = Unlinked
        <5>1. disk'.path = "none" /\ disk'.inode = 0
          BY <4>2 DEF Unlinked
        <5> QED
          BY <1>0, <2>2, <3>1, <5>1 DEF NamesTell, FilesExist
      <4> QED
        BY <3>3, <4>1, <4>2
    <3> QED
      BY <3>4, <3>5
  <2> QED
    BY <1>7, <2>3, <2>4 DEF TdDeleteFile
<1>8. ASSUME NEW f \in LocalFile, Reports(f)
      PROVE  /\ local' = f /\ replies' \in Seq(FromTdlib)
             /\ UNCHANGED <<conn, inbox, outbox, slots, perToken, authorized, closing, active, pending>>
             /\ UNCHANGED <<listeners, getFile, requests>>
  <2>1. Update(f) \in FromTdlib
    BY Sendable DEF Update
  <2> QED
    BY <1>0, <1>8, <2>1 DEF Reports, manager, client, registry
<1>9. CASE TdFirstPart
  <2> DEFINE n == Len(copies) + 1
  <2>1. 1 \in 1..Total
    BY SizeAssumption
  <2>2. /\ Part(1) \in LocalFile /\ Part(1).path # "none" /\ (Part(1).path = "final" <=> Total = 1)
        /\ Part(1).path \in Paths /\ (Part(1).done <=> Total = 1) /\ (Part(1).active <=> 1 < Total)
    <3>1. Part(1) \in LocalFile
      BY <2>1, FileTypes
    <3>2. Part(1).path \in Paths
      BY <3>1 DEF LocalFile
    <3> QED
      BY <2>1, <3>1, <3>2, FileTypes
  <2>3. /\ copies' = Append(copies, 1) /\ disk' = [path |-> Part(1).path, inode |-> n]
        /\ writer' = (IF Total = 1 THEN 0 ELSE n) /\ Reports(Part(1)) /\ broken' = broken
    BY <1>9 DEF TdFirstPart
  <2>4. n \in Nat /\ n # 0
    BY <1>0
  <2>5. /\ copies' \in Seq(1..Total) /\ Len(copies') = n /\ copies'[n] = 1
        /\ \A i \in 1..Len(copies) : copies'[i] = copies[i]
    BY <1>0, <2>1, <2>3
  <2> HIDE DEF n
  <2>6. disk'.path = Part(1).path /\ disk'.inode = n /\ disk' \in [path : Paths, inode : Nat]
    BY <2>2, <2>3, <2>4
  <2>7. /\ local' = Part(1) /\ replies' \in Seq(FromTdlib)
        /\ UNCHANGED <<conn, inbox, outbox, slots, perToken, authorized, closing, active, pending>>
        /\ UNCHANGED <<listeners, getFile, requests>>
    BY <1>8, <2>2, <2>3
  <2>8. Typed'
    BY <2>2, <2>3, <2>4, <2>5, <2>6, <2>7 DEF Typed
  <2>9. NamesTell'
    <3>1. writer' # 0 => copies'[writer'] < Total
      BY <2>3, <2>5, SizeAssumption
    <3>2. local'.done <=> local'.path = "final"
      BY <2>2, <2>7
    <3>3. local'.done => ~local'.active
      BY <2>2, <2>7
    <3>4. disk'.path # "none" /\ disk'.inode # 0 /\ (disk'.path = "final" <=> copies'[disk'.inode] = Total)
      BY <2>2, <2>4, <2>5, <2>6
    <3> QED
      BY <3>1, <3>2, <3>3, <3>4 DEF NamesTell
  <2>10. FilesExist'
    <3>1. Len(copies) <= n /\ Len(copies) \in Nat
      BY <1>0 DEF n
    <3>2. ASSUME NEW s \in Stream PROVE conn'[s].fd <= Len(copies')
      <4>1. conn[s].fd \in Nat /\ conn[s].fd <= Len(copies)
        BY DEF Typed, Connection, FilesExist
      <4> QED
        BY <2>4, <2>5, <2>7, <3>1, <4>1
    <3> QED
      BY <2>3, <2>4, <2>5, <2>6, <3>2 DEF FilesExist
  <2> QED
    BY <2>8, <2>9, <2>10
<1>10. CASE TdNextPart
  <2> DEFINE p == copies[writer] + 1
  <2>1. writer # 0 /\ writer \in 1..Len(copies)
    BY <1>0, <1>10 DEF TdNextPart, FilesExist
  <2>2. p \in 1..Total /\ copies[writer] < Total
    BY <1>0, <2>1, SizeAssumption DEF NamesTell
  <2>3. /\ p < Total \/ disk.inode = writer
        /\ copies' = [copies EXCEPT ![writer] = p]
        /\ disk' = (IF disk.inode = writer THEN [disk EXCEPT !.path = Part(p).path] ELSE disk)
        /\ writer' = (IF p = Total THEN 0 ELSE writer)
        /\ Reports(Part(p)) /\ broken' = broken
    BY <1>10 DEF TdNextPart
  <2>4. copies' \in Seq(1..Total) /\ Len(copies') = Len(copies) /\ copies'[writer] = p
        /\ \A i \in 1..Len(copies) : i # writer => copies'[i] = copies[i]
    <3> HIDE DEF p
    <3> QED
      BY <1>0, <2>1, <2>2, <2>3
  <2> HIDE DEF p
  <2>5. /\ Part(p) \in LocalFile /\ Part(p).path # "none" /\ (Part(p).path = "final" <=> p = Total)
        /\ Part(p).path \in Paths /\ (Part(p).done <=> p = Total) /\ (Part(p).active <=> p < Total)
    <3>1. Part(p) \in LocalFile
      BY <2>2, FileTypes
    <3>2. Part(p).path \in Paths
      BY <3>1 DEF LocalFile
    <3> QED
      BY <2>2, <3>1, <3>2, FileTypes
  <2>6. /\ local' = Part(p) /\ replies' \in Seq(FromTdlib)
        /\ UNCHANGED <<conn, inbox, outbox, slots, perToken, authorized, closing, active, pending>>
        /\ UNCHANGED <<listeners, getFile, requests>>
    BY <1>8, <2>3, <2>5
  <2>7. /\ disk' \in [path : Paths, inode : Nat] /\ disk'.inode = disk.inode
        /\ disk.inode = writer => disk'.path = Part(p).path
        /\ disk.inode # writer => disk'.path = disk.path
    BY <1>0, <2>3, <2>5
  <2>8. writer' \in Nat /\ writer' <= Len(copies) /\ (writer' # 0 => copies'[writer'] < Total)
    BY <1>0, <2>1, <2>2, <2>3, <2>4, SizeAssumption
  <2>9. Typed'
    BY <2>3, <2>4, <2>5, <2>6, <2>7, <2>8 DEF Typed
  <2>10. NamesTell'
    <3>1. local'.done <=> local'.path = "final"
      BY <2>5, <2>6
    <3>2. local'.done => ~local'.active
      BY <2>2, <2>5, <2>6, SizeAssumption
    <3>3. /\ disk'.path = "none" <=> disk'.inode = 0
          /\ disk'.path # "none" => (disk'.path = "final" <=> copies'[disk'.inode] = Total)
      <4>1. CASE disk.inode = writer
        BY <2>1, <2>4, <2>5, <2>7, <4>1
      <4>2. CASE disk.inode # writer
        <5>1. disk.inode # 0 => disk.inode \in 1..Len(copies)
          BY <1>0 DEF FilesExist
        <5> QED
          BY <2>4, <2>7, <4>2, <5>1 DEF NamesTell
      <4> QED
        BY <4>1, <4>2
    <3> QED
      BY <2>8, <3>1, <3>2, <3>3 DEF NamesTell
  <2>11. FilesExist'
    BY <2>4, <2>6, <2>7, <2>8 DEF FilesExist
  <2> QED
    BY <2>9, <2>10, <2>11
<1>11. CASE TdDownloadFails
  <2> DEFINE f == [local EXCEPT !.active = FALSE]
  <2>1. f \in LocalFile /\ f.active = FALSE /\ f.done = local.done /\ f.path = local.path
    BY <1>0, FileTypes
  <2>2. /\ Reports(f) /\ writer' = 0 /\ UNCHANGED <<disk, copies>> /\ broken' \in BOOLEAN
    BY <1>11 DEF TdDownloadFails, Typed
  <2> HIDE DEF f
  <2>3. /\ local' = f /\ replies' \in Seq(FromTdlib)
        /\ UNCHANGED <<conn, inbox, outbox, slots, perToken, authorized, closing, active, pending>>
        /\ UNCHANGED <<listeners, getFile, requests>>
    BY <1>8, <2>1, <2>2
  <2>4. Typed'
    BY <2>1, <2>2, <2>3 DEF Typed
  <2>5. NamesTell'
    BY <2>1, <2>2, <2>3 DEF NamesTell
  <2>6. FilesExist'
    BY <1>0, <2>2, <2>3 DEF FilesExist
  <2> QED
    BY <2>4, <2>5, <2>6
<1>12. CASE CopyLost
  <2>1. disk' = Unlinked /\ disk'.path = "none" /\ disk'.inode = 0
    BY <1>12 DEF CopyLost, Unlinked
  <2>2. /\ UNCHANGED <<conn, inbox, outbox, slots, perToken, authorized, closing, active, pending>>
        /\ UNCHANGED <<listeners, getFile, requests, replies, local, writer, copies, broken>>
    BY <1>12 DEF CopyLost, manager, client, registry
  <2> QED
    BY <1>0, <1>2, <2>1, <2>2 DEF Typed, NamesTell, FilesExist
<1> QED
  BY <1>3, <1>4, <1>5, <1>6, <1>7, <1>9, <1>10, <1>11, <1>12 DEF TdStep

-----------------------------------------------------------------------------
\* The order of a stream's messages, its slot and its place in the Client's tables

\* What a step that does not take a message of stream t has to keep
LEMMA OrderedKept ==
    ASSUME NEW t \in Stream, Ordered(t), conn'[t] = conn[t], outbox'[t] = outbox[t],
           t \in slots' <=> t \in slots,
           t \in ToSet(pending') => t \in ToSet(pending),
           t \in active' \cup listeners' => t \in active \cup listeners,
           ~Live(t) => inbox'[t] = inbox[t],
           (\E i \in 1..Len(inbox'[t]) : inbox'[t][i].op = "client") =>
              \E i \in 1..Len(inbox[t]) : inbox[t][i].op = "client"
    PROVE  Ordered(t)'
BY DEF Ordered, Live

LEMMA TellFacts ==
    ASSUME inbox \in [Stream -> Seq(ToStream)], NEW S, NEW m \in ToStream, NEW t \in Stream
    PROVE  /\ t \in S /\ Live(t) => Tell(S, m)[t] = Append(inbox[t], m)
           /\ ~(t \in S /\ Live(t)) => Tell(S, m)[t] = inbox[t]
           /\ m.op # "client" =>
                 ((\E i \in 1..Len(Tell(S, m)[t]) : Tell(S, m)[t][i].op = "client") =>
                     \E i \in 1..Len(inbox[t]) : inbox[t][i].op = "client")
<1>1. /\ t \in S /\ Live(t) => Tell(S, m)[t] = Append(inbox[t], m)
      /\ ~(t \in S /\ Live(t)) => Tell(S, m)[t] = inbox[t]
  BY DEF Tell
<1>2. ASSUME m.op # "client", NEW i \in 1..Len(Append(inbox[t], m)), Append(inbox[t], m)[i].op = "client"
      PROVE  \E j \in 1..Len(inbox[t]) : inbox[t][j].op = "client"
  <2> DEFINE q == inbox[t]
             r == Append(q, m)
  <2>1. Len(q) \in Nat /\ Len(r) = Len(q) + 1 /\ r[Len(q) + 1] = m /\ \A k \in 1..Len(q) : r[k] = q[k]
    OBVIOUS
  <2> HIDE DEF q, r
  <2>2. i \in 1..Len(r) /\ r[i].op = "client"
    BY <1>2 DEF q, r
  <2>3. i \in 1..Len(q)
    BY <1>2, <2>1, <2>2
  <2> QED
    BY <2>1, <2>2, <2>3 DEF q
<1> QED
  BY <1>1, <1>2

\* The step of a stream that is alive
LEMMA LeavesOrdered ==
    ASSUME Typed, \A t \in Stream : Ordered(t), NEW s \in Stream, Live(s), NEW d \in Connection,
           NEW q \in Seq(ToStream), Effect(s, d, q), Leaves(s, d, q)
    PROVE  \A t \in Stream : Ordered(t)'
<1>0. UNCHANGED <<slots, pending, active, listeners>>
  BY DEF Leaves, manager, client, registry
<1>1. ASSUME NEW t \in Stream, t # s PROVE Ordered(t)'
  <2>1. conn'[t] = conn[t] /\ inbox'[t] = inbox[t] /\ outbox'[t] = outbox[t]
    BY <1>1 DEF Leaves, Typed
  <2> QED
    BY <1>0, <2>1, OrderedKept
<1>2. Ordered(s)'
  <2> DEFINE o == outbox[s]
             n == sent(conn[s], d)
  <2>1. o \in Seq(FromStream) /\ conn[s] \in Connection
    BY DEF Typed
  <2>2. /\ n \in Seq(FromStream)
        /\ \A i \in 1..Len(n) : n[i].op # "send" /\ (n[i].op = "release" => d.phase # "live")
        /\ d.phase # "live" => \E i \in 1..Len(n) : n[i].op = "release"
    BY <2>1, SentFacts
  <2>3. conn'[s] = d /\ outbox'[s] = o \o n /\ inbox'[s] = (IF d.phase = "live" THEN q ELSE <<>>)
    BY DEF Leaves, Typed
  <2>4. \A i \in 1..Len(o) :
           (o[i].op = "send" => i = 1 /\ s \notin slots /\ s \notin ToSet(pending)) /\ o[i].op # "release"
    BY DEF Ordered
  <2> HIDE DEF o, n
  <2>5. /\ Len(o \o n) = Len(o) + Len(n) /\ Len(o) \in Nat /\ Len(n) \in Nat
        /\ \A i \in 1..Len(o) + Len(n) : (o \o n)[i] = IF i <= Len(o) THEN o[i] ELSE n[i - Len(o)]
    BY <2>1, <2>2, ConcatProperties
  <2>6. ASSUME NEW i \in 1..Len(o \o n)
        PROVE  /\ (o \o n)[i].op = "send" => i = 1 /\ s \notin slots /\ s \notin ToSet(pending)
               /\ (o \o n)[i].op = "release" => d.phase # "live"
    <3>1. CASE i <= Len(o)
      <4>1. i \in 1..Len(o) /\ (o \o n)[i] = o[i]
        BY <2>5, <3>1
      <4> QED
        BY <2>4, <4>1
    <3>2. CASE ~(i <= Len(o))
      <4>1. i - Len(o) \in 1..Len(n) /\ (o \o n)[i] = n[i - Len(o)]
        BY <2>5, <3>2
      <4> QED
        BY <2>2, <4>1
    <3> QED
      BY <3>1, <3>2
  <2>7. d.phase # "live" => \E i \in 1..Len(o \o n) : (o \o n)[i].op = "release"
    <3> SUFFICES ASSUME d.phase # "live" PROVE \E i \in 1..Len(o \o n) : (o \o n)[i].op = "release"
      OBVIOUS
    <3>1. PICK k \in 1..Len(n) : n[k].op = "release"
      BY <2>2
    <3>2. /\ Len(o) + k \in 1..Len(o \o n) /\ ~(Len(o) + k <= Len(o)) /\ (Len(o) + k) - Len(o) = k
      BY <2>5
    <3>3. (o \o n)[Len(o) + k] = n[k]
      BY <2>5, <3>2
    <3> QED
      BY <3>1, <3>2, <3>3
  <2>8. d.phase # "none"
    BY DEF Effect
  <2>9. ASSUME d.phase = "live",
               \/ s \in active \cup listeners \/ d.client
               \/ \E i \in 1..Len(q) : q[i].op = "client"
        PROVE  s \in slots
    <3>1. \/ s \in active \cup listeners \/ conn[s].client
          \/ \E i \in 1..Len(inbox[s]) : inbox[s][i].op = "client"
      BY <2>9 DEF Effect
    <3> QED
      BY <3>1 DEF Ordered
  <2> QED
    BY <1>0, <2>3, <2>6, <2>7, <2>8, <2>9 DEF Ordered, Live
<1> QED
  BY <1>1, <1>2

LEMMA ArriveOrdered ==
    ASSUME Typed, \A t \in Stream : Ordered(t), NEW s \in Stream, Arrive(s)
    PROVE  \A t \in Stream : Ordered(t)'
<1>0. UNCHANGED <<slots, pending, active, listeners, inbox>>
  BY DEF Arrive, manager, client, registry
<1>1. ASSUME NEW t \in Stream, t # s PROVE Ordered(t)'
  <2>1. conn'[t] = conn[t] /\ inbox'[t] = inbox[t] /\ outbox'[t] = outbox[t]
    BY <1>0, <1>1 DEF Arrive, Typed
  <2> QED
    BY <1>0, <2>1, OrderedKept
<1>2. Ordered(s)'
  <2>1. conn'[s].phase = "live" /\ conn'[s].client = conn[s].client /\ outbox'[s] = <<[op |-> "send"]>>
    BY DEF Arrive, Typed, Connection
  <2>2. /\ conn[s] = NewConnection /\ inbox[s] = <<>>
        /\ s \notin slots \cup active \cup listeners \cup ToSet(pending)
    BY DEF Arrive, Ordered
  <2>3. conn[s].client = FALSE
    BY <2>2 DEF NewConnection
  <2>4. Len(outbox'[s]) = 1 /\ outbox'[s][1].op = "send"
    BY <2>1
  <2> QED
    BY <1>0, <2>1, <2>2, <2>3, <2>4 DEF Ordered, Live
<1> QED
  BY <1>1, <1>2

\* The head of a stream's messages is taken
LEMMA TailFacts ==
    ASSUME Typed, NEW s \in Stream, Ordered(s), outbox[s] # <<>>, Handled(s)
    PROVE  /\ \A i \in 1..Len(outbox'[s]) :
                 /\ outbox'[s][i].op # "send"
                 /\ outbox'[s][i].op = "release" => ~Live(s)
           /\ /\ Head(outbox[s]).op # "release"
              /\ \E i \in 1..Len(outbox[s]) : outbox[s][i].op = "release"
              => \E i \in 1..Len(outbox'[s]) : outbox'[s][i].op = "release"
           /\ conn[s].phase # "none"
           /\ \A t \in Stream : t # s => outbox'[t] = outbox[t]
<1> DEFINE q == outbox[s]
           r == Tail(q)
<1>1. q \in Seq(FromStream) /\ q # <<>>
  BY DEF Typed
<1>2. /\ Len(q) \in Nat \ {0} /\ Len(r) = Len(q) - 1 /\ Head(q) = q[1]
      /\ \A k \in 1..Len(r) : r[k] = q[k + 1]
  BY <1>1
<1>3. outbox'[s] = r /\ \A t \in Stream : t # s => outbox'[t] = outbox[t]
  BY DEF Handled, Typed
<1>4. \A i \in 1..Len(q) : (q[i].op = "send" => i = 1) /\ (q[i].op = "release" => ~Live(s))
  BY DEF Ordered
<1>5. conn[s].phase # "none"
  BY DEF Ordered
<1> HIDE DEF q, r
<1>6. ASSUME NEW i \in 1..Len(r) PROVE r[i].op # "send" /\ (r[i].op = "release" => ~Live(s))
  <2>1. i + 1 \in 1..Len(q) /\ i + 1 # 1 /\ r[i] = q[i + 1]
    BY <1>2
  <2> QED
    BY <1>4, <2>1
<1>7. ASSUME Head(q).op # "release", NEW i \in 1..Len(q), q[i].op = "release"
      PROVE  \E k \in 1..Len(r) : r[k].op = "release"
  <2>1. i - 1 \in 1..Len(r) /\ (i - 1) + 1 = i
    BY <1>2, <1>7
  <2>2. r[i - 1] = q[i]
    BY <1>2, <2>1
  <2> QED
    BY <1>7, <2>1, <2>2
<1> QED
  BY <1>3, <1>5, <1>6, <1>7 DEF q

LEMMA ServerOrdered ==
    ASSUME Typed, \A t \in Stream : Ordered(t), IsInjective(pending), NEW s \in Stream, ServerStep(s)
    PROVE  (\A t \in Stream : Ordered(t)') /\ IsInjective(pending')
<1>0. outbox[s] # <<>> /\ Handled(s) /\ conn' = conn /\ Ordered(s)
  BY DEF ServerStep, RefuseStream, AdmitStream, release_file_stream, remove_file_stream,
         RequestRedownload, Message
<1>1. /\ \A i \in 1..Len(outbox'[s]) :
            /\ outbox'[s][i].op # "send"
            /\ outbox'[s][i].op = "release" => ~Live(s)
      /\ /\ Head(outbox[s]).op # "release"
         /\ \E i \in 1..Len(outbox[s]) : outbox[s][i].op = "release"
         => \E i \in 1..Len(outbox'[s]) : outbox'[s][i].op = "release"
      /\ conn[s].phase # "none"
      /\ \A t \in Stream : t # s => outbox'[t] = outbox[t]
  BY <1>0, TailFacts
<1>2. pending \in Seq(Stream) /\ inbox \in [Stream -> Seq(ToStream)] /\ outbox[s] \in Seq(FromStream)
  BY DEF Typed
<1>3. 1 \in 1..Len(outbox[s]) /\ Head(outbox[s]) = outbox[s][1]
  BY <1>0, <1>2
\* the clauses of Ordered(s)'
<1>4. ASSUME s \in slots' => Live(s) \/ \E i \in 1..Len(outbox'[s]) : outbox'[s][i].op = "release",
             /\ Live(s)
             /\ \/ s \in active' \cup listeners' \/ conn[s].client
                \/ \E i \in 1..Len(inbox'[s]) : inbox'[s][i].op = "client"
             => s \in slots'
      PROVE  Ordered(s)'
  BY <1>0, <1>1, <1>4 DEF Ordered, Live
<1>5. CASE RefuseStream(s)
  <2>1. UNCHANGED <<slots, pending, active, listeners>> /\ inbox' = Tell({s}, Failure)
    BY <1>5 DEF RefuseStream, manager, client, registry
  <2>2. ASSUME NEW t \in Stream
        PROVE  /\ t # s => inbox'[t] = inbox[t]
               /\ (\E i \in 1..Len(inbox'[t]) : inbox'[t][i].op = "client") =>
                     \E i \in 1..Len(inbox[t]) : inbox[t][i].op = "client"
    <3>1. Failure \in ToStream /\ Failure.op # "client"
      BY Sendable
    <3>2. t # s => Tell({s}, Failure)[t] = inbox[t]
      BY <1>2, <3>1, TellFacts
    <3>3. ASSUME NEW S
          PROVE  (\E i \in 1..Len(Tell(S, Failure)[t]) : Tell(S, Failure)[t][i].op = "client") =>
                    \E i \in 1..Len(inbox[t]) : inbox[t][i].op = "client"
      BY <1>2, <3>1, TellFacts
    <3> QED
      BY <2>1, <3>2, <3>3
  <2>3. ASSUME NEW t \in Stream, t # s PROVE Ordered(t)'
    BY <1>0, <1>1, <2>1, <2>2, <2>3, OrderedKept
  <2>4. Ordered(s)'
    <3>1. Head(outbox[s]).op = "send"
      BY <1>5 DEF RefuseStream, Message
    <3>2. s \notin slots
      BY <1>0, <1>3, <3>1 DEF Ordered
    <3>3. /\ Live(s)
          /\ \/ s \in active' \cup listeners' \/ conn[s].client
             \/ \E i \in 1..Len(inbox'[s]) : inbox'[s][i].op = "client"
          => s \in slots'
      BY <1>0, <2>1, <2>2 DEF Ordered
    <3> QED
      BY <1>4, <2>1, <3>2, <3>3
  <2> QED
    BY <2>1, <2>3, <2>4
<1>6. CASE AdmitStream(s)
  <2>1. /\ slots' = slots \cup {s} /\ active' = active \cup {s} /\ listeners' = listeners
        /\ pending' = pending \/ pending' = Append(pending, s)
    BY <1>6 DEF AdmitStream
  <2>2. ASSUME NEW t \in Stream, t # s PROVE inbox'[t] = inbox[t]
    <3> DEFINE greeted == Tell({s}, [op |-> "client"])
    <3>1. greeted[t] = inbox[t]
      BY <1>2, <2>2, TellFacts, Sendable
    <3> HIDE DEF greeted
    <3>2. inbox' = greeted \/ inbox' = [greeted EXCEPT ![s] = IF Live(s) THEN Append(@, Failure) ELSE @]
      BY <1>6 DEF AdmitStream, greeted
    <3>3. DOMAIN greeted = Stream
      BY DEF greeted, Tell
    <3> QED
      BY <2>2, <3>1, <3>2, <3>3
  <2>3. Head(outbox[s]).op = "send"
    BY <1>6 DEF AdmitStream, Message
  <2>4. s \notin ToSet(pending)
    BY <1>0, <1>3, <2>3 DEF Ordered
  <2>5. IsInjective(pending') /\ \A t \in Stream : t # s /\ t \in ToSet(pending') => t \in ToSet(pending)
    <3>1. CASE pending' = pending
      BY <3>1
    <3>2. CASE pending' = Append(pending, s)
      <4>1. IsInjective(Append(pending, s)) /\ ToSet(Append(pending, s)) = ToSet(pending) \cup {s}
        BY <1>2, <2>4, AppendSet
      <4> QED
        BY <3>2, <4>1
    <3> QED
      BY <2>1, <3>1, <3>2
  <2>6. ASSUME NEW t \in Stream, t # s PROVE Ordered(t)'
    BY <1>0, <1>1, <2>1, <2>2, <2>5, <2>6, OrderedKept
  <2>7. Ordered(s)'
    <3>1. Live(s) \/ \E i \in 1..Len(outbox[s]) : outbox[s][i].op = "release"
      BY <1>0, <1>3, <2>3 DEF Ordered
    <3>2. Live(s) \/ \E i \in 1..Len(outbox'[s]) : outbox'[s][i].op = "release"
      BY <1>1, <2>3, <3>1
    <3>3. s \in slots'
      BY <2>1
    <3> QED
      BY <1>4, <3>2, <3>3
  <2> QED
    BY <2>5, <2>6, <2>7
<1>7. CASE release_file_stream(s)
  <2>1. slots' = slots \ {s} /\ UNCHANGED <<inbox, pending, active, listeners>>
    BY <1>7 DEF release_file_stream, client, registry
  <2>2. Head(outbox[s]).op = "release"
    BY <1>7 DEF release_file_stream, Message
  <2>3. ~Live(s)
    BY <1>0, <1>3, <2>2 DEF Ordered
  <2>4. ASSUME NEW t \in Stream, t # s PROVE Ordered(t)'
    <3>1. t \in slots' <=> t \in slots
      BY <2>1, <2>4
    <3> QED
      BY <1>0, <1>1, <2>1, <2>4, <3>1, OrderedKept
  <2>5. Ordered(s)'
    BY <1>4, <2>1, <2>3
  <2> QED
    BY <2>1, <2>4, <2>5
<1>8. CASE remove_file_stream(s) \/ RequestRedownload(s)
  <2>1. Head(outbox[s]).op # "release" /\ UNCHANGED <<inbox, slots>>
    BY <1>8 DEF remove_file_stream, RequestRedownload, Message, manager
  <2>2. active' \cup listeners' \subseteq active \cup listeners
    BY <1>8 DEF remove_file_stream, RequestRedownload, client, registry
  <2>3. IsInjective(pending') /\ \A t \in Stream : t \in ToSet(pending') => t \in ToSet(pending)
    <3>1. CASE pending' = pending
      BY <3>1
    <3>2. CASE pending' = RemoveFirst(pending, s)
      <4>1. /\ IsInjective(RemoveFirst(pending, s))
            /\ ToSet(RemoveFirst(pending, s)) = ToSet(pending) \ {s}
        BY <1>2, RemoveFirstSet
      <4> QED
        BY <3>2, <4>1
    <3> QED
      BY <1>8, <3>1, <3>2 DEF remove_file_stream, RequestRedownload, client, registry
  <2>4. ASSUME NEW t \in Stream, t # s PROVE Ordered(t)'
    BY <1>0, <1>1, <2>1, <2>2, <2>3, <2>4, OrderedKept
  <2>5. Ordered(s)'
    <3>1. s \in slots' => Live(s) \/ \E i \in 1..Len(outbox'[s]) : outbox'[s][i].op = "release"
      BY <1>0, <1>1, <2>1 DEF Ordered
    <3>2. /\ Live(s)
          /\ \/ s \in active' \cup listeners' \/ conn[s].client
             \/ \E i \in 1..Len(inbox'[s]) : inbox'[s][i].op = "client"
          => s \in slots'
      BY <1>0, <2>1, <2>2 DEF Ordered
    <3> QED
      BY <1>4, <3>1, <3>2
  <2> QED
    BY <2>3, <2>4, <2>5
<1> QED
  BY <1>5, <1>6, <1>7, <1>8 DEF ServerStep

\* Another message than the Client's greeting is added to an inbox
LEMMA NoGreeting ==
    ASSUME NEW q \in Seq(ToStream), NEW m \in ToStream, m.op # "client",
           \E i \in 1..Len(Append(q, m)) : Append(q, m)[i].op = "client"
    PROVE  \E i \in 1..Len(q) : q[i].op = "client"
<1> DEFINE r == Append(q, m)
<1>1. Len(q) \in Nat /\ Len(r) = Len(q) + 1 /\ r[Len(q) + 1] = m /\ \A k \in 1..Len(q) : r[k] = q[k]
  OBVIOUS
<1> HIDE DEF r
<1>2. PICK i \in 1..Len(r) : r[i].op = "client"
  BY DEF r
<1>3. i \in 1..Len(q)
  BY <1>1, <1>2
<1> QED
  BY <1>1, <1>2, <1>3

\* What TdOnFileStreamRemoteFileCallback does to the inboxes
LEMMA RemoteForm ==
    ASSUME Typed, OnRemoteFile
    PROVE  LET m == Head(replies)
               s == m.by
               ready == [op |-> "ready", file |-> m.file] IN
           /\ m \in FromTdlib /\ m.kind = "remote" /\ s \in Stream /\ ready \in ToStream
           /\ replies # <<>> /\ replies' = Tail(replies)
           /\ \A t \in Stream : t # s \/ ~Live(t) => inbox'[t] = inbox[t]
           /\ Live(s) =>
                 \/ listeners' = listeners
                    /\ (inbox'[s] = inbox[s] \/ inbox'[s] = Append(inbox[s], Failure))
                 \/ /\ s \in active /\ listeners' = listeners \cup {s}
                    /\ \/ inbox'[s] = Append(inbox[s], ready)
                       \/ inbox'[s] = Append(Append(inbox[s], ready), Failure)
           /\ listeners' = listeners \/ (s \in active /\ listeners' = listeners \cup {s})
<1> DEFINE m == Head(replies)
           s == m.by
           n == [op |-> "ready", file |-> m.file]
           ready == Tell({s}, n)
           failed == Tell({s}, Failure)
           both == [ready EXCEPT ![s] = IF Live(s) THEN Append(@, Failure) ELSE @]
<1>1. replies # <<>> /\ replies' = Tail(replies) /\ m.kind = "remote" /\ replies \in Seq(FromTdlib)
  BY DEF OnRemoteFile, Reply, Typed
<1>2. m \in FromTdlib
  BY <1>1, QueueTail
<1>3. s \in Stream /\ m.file \in LocalFile
  BY <1>1, <1>2, ReplyTypes
<1>4. n \in ToStream /\ Failure \in ToStream /\ inbox \in [Stream -> Seq(ToStream)]
  BY <1>3, Sendable DEF Typed
<1>5. \/ listeners' = listeners /\ (inbox' = inbox \/ inbox' = failed)
      \/ s \in active /\ listeners' = listeners \cup {s} /\ (inbox' = ready \/ inbox' = both)
  BY DEF OnRemoteFile
<1> HIDE DEF m, n
<1>6. /\ \A t \in Stream : t # s \/ ~Live(t) => ready[t] = inbox[t] /\ failed[t] = inbox[t]
      /\ Live(s) => ready[s] = Append(inbox[s], n) /\ failed[s] = Append(inbox[s], Failure)
      /\ DOMAIN ready = Stream
  BY <1>3, <1>4 DEF Tell
<1> HIDE DEF ready, failed, s
<1>7. /\ \A t \in Stream : t # s \/ ~Live(t) => both[t] = inbox[t]
      /\ Live(s) => both[s] = Append(Append(inbox[s], n), Failure)
  BY <1>3, <1>6
<1> HIDE DEF both
<1>8. \A t \in Stream : t # s \/ ~Live(t) => inbox'[t] = inbox[t]
  BY <1>5, <1>6, <1>7
<1>9. Live(s) =>
         \/ listeners' = listeners /\ (inbox'[s] = inbox[s] \/ inbox'[s] = Append(inbox[s], Failure))
         \/ /\ s \in active /\ listeners' = listeners \cup {s}
            /\ inbox'[s] = Append(inbox[s], n) \/ inbox'[s] = Append(Append(inbox[s], n), Failure)
  BY <1>5, <1>6, <1>7
<1> QED
  BY <1>1, <1>2, <1>3, <1>4, <1>5, <1>8, <1>9 DEF m, n, s

LEMMA ClientOrdered ==
    ASSUME Typed, \A t \in Stream : Ordered(t), IsInjective(pending), ClientStep
    PROVE  (\A t \in Stream : Ordered(t)') /\ IsInjective(pending')
<1>0. conn' = conn /\ outbox' = outbox /\ slots' = slots
  BY DEF ClientStep, Authorize, StartClosing, on_closed, DoGetFile, ReleaseLocalFile, OnRemoteFile,
         OnUpdate, OnStarted, OnDownloadRefused, manager
<1>1. inbox \in [Stream -> Seq(ToStream)] /\ replies \in Seq(FromTdlib)
  BY DEF Typed
<1>2. pending' \in {pending, <<>>}
  BY DEF ClientStep, Authorize, StartClosing, on_closed, DoGetFile, ReleaseLocalFile, OnRemoteFile,
         OnUpdate, OnStarted, OnDownloadRefused, registry, client
<1>3. ToSet(<<>>) = {} /\ IsInjective(<<>>)
  BY DEF ToSet, IsInjective
<1>4. IsInjective(pending') /\ ToSet(pending') \subseteq ToSet(pending)
  BY <1>2, <1>3
<1>5. \A t \in Stream : t \in active' \cup listeners' => t \in active \cup listeners
  <2>1. CASE OnRemoteFile
    <3>1. active' = active
      BY <2>1 DEF OnRemoteFile
    <3>2. listeners' = listeners \/ (Head(replies).by \in active /\ listeners' = listeners \cup {Head(replies).by})
      BY <2>1, RemoteForm
    <3> QED
      BY <3>1, <3>2
  <2>2. CASE ~OnRemoteFile
    <3>1. active' \in {active, {}} /\ listeners' \in {listeners, {}}
      BY <2>2 DEF ClientStep, Authorize, StartClosing, on_closed, DoGetFile, ReleaseLocalFile,
         OnUpdate, OnStarted, OnDownloadRefused, registry, client
    <3> QED
      BY <3>1
  <2> QED
    BY <2>1, <2>2
<1>6. ASSUME NEW t \in Stream
      PROVE  /\ ~Live(t) => inbox'[t] = inbox[t]
             /\ (\E i \in 1..Len(inbox'[t]) : inbox'[t][i].op = "client") =>
                   \E i \in 1..Len(inbox[t]) : inbox[t][i].op = "client"
  <2>1. ASSUME NEW S, NEW m \in ToStream, m.op # "client", inbox' = Tell(S, m)
        PROVE  /\ ~Live(t) => inbox'[t] = inbox[t]
               /\ (\E i \in 1..Len(inbox'[t]) : inbox'[t][i].op = "client") =>
                     \E i \in 1..Len(inbox[t]) : inbox[t][i].op = "client"
    BY <1>1, <2>1, TellFacts
  <2>2. CASE inbox' = inbox
    BY <2>2
  <2>3. Failure \in ToStream /\ Failure.op # "client"
    BY Sendable
  <2>4. CASE Authorize \/ on_closed \/ OnDownloadRefused
    <3>1. inbox' = inbox \/ \E S \in {ToSet(pending), active, listeners} : inbox' = Tell(S, Failure)
      BY <2>4 DEF Authorize, on_closed, OnDownloadRefused
    <3> QED
      BY <2>1, <2>2, <2>3, <3>1
  <2>5. CASE StartClosing \/ DoGetFile \/ ReleaseLocalFile
    BY <2>2, <2>5 DEF StartClosing, DoGetFile, ReleaseLocalFile
  <2>6. CASE OnUpdate \/ OnStarted
    <3> DEFINE n == [op |-> "progress", file |-> Head(replies).file]
    <3>1. Head(replies) \in FromTdlib /\ Head(replies).kind \in {"update", "started"}
      BY <1>1, <2>6, QueueTail DEF OnUpdate, OnStarted, Reply
    <3>2. Head(replies).file \in LocalFile
      BY <3>1, ReplyTypes
    <3>3. n \in ToStream /\ n.op # "client"
      BY <3>2, Sendable
    <3>4. inbox' = Tell(listeners, n)
      BY <2>6 DEF OnUpdate, OnStarted, on_update_file
    <3> HIDE DEF n
    <3> QED
      BY <2>1, <3>3, <3>4
  <2>7. CASE OnRemoteFile
    <3> DEFINE s == Head(replies).by
               n == [op |-> "ready", file |-> Head(replies).file]
    <3>1. /\ s \in Stream /\ n \in ToStream
          /\ t # s \/ ~Live(t) => inbox'[t] = inbox[t]
          /\ Live(s) => \/ inbox'[s] \in {inbox[s], Append(inbox[s], Failure), Append(inbox[s], n)}
                        \/ inbox'[s] = Append(Append(inbox[s], n), Failure)
      BY <2>7, RemoteForm
    <3>2. n.op # "client"
      OBVIOUS
    <3> HIDE DEF n, s
    <3>3. CASE t # s \/ ~Live(t)
      BY <3>1, <3>3
    <3>4. CASE t = s /\ Live(t)
      <4>1. inbox[t] \in Seq(ToStream) /\ Append(inbox[t], n) \in Seq(ToStream)
        BY <1>1, <3>1
      <4> QED
        BY <2>3, <3>1, <3>2, <3>4, <4>1, NoGreeting
    <3> QED
      BY <3>3, <3>4
  <2> QED
    BY <2>4, <2>5, <2>6, <2>7 DEF ClientStep
<1>7. ASSUME NEW t \in Stream PROVE Ordered(t)'
  BY <1>0, <1>4, <1>5, <1>6, OrderedKept
<1> QED
  BY <1>4, <1>7

-----------------------------------------------------------------------------
\* What the streams hear

\* Inbox r holds what q does and messages that report nothing
Quiet(q, r) ==
    /\ Coherent(q) => Coherent(r)
    /\ Follows(q) => Follows(r)
    /\ SaysIdle(q) => SaysIdle(r)
    /\ LeavesComplete(r) => LeavesComplete(q)
    /\ (\A i \in 1..Len(q) : ~Reported(q[i])) => \A i \in 1..Len(r) : ~Reported(r[i])

LEMMA QuietAppend ==
    ASSUME NEW q \in Seq(ToStream), NEW m \in ToStream, ~Reported(m)
    PROVE  Quiet(q, Append(q, m))
<1> DEFINE r == Append(q, m)
<1>1. ~Busy(m) /\ ~Idle(m) /\ ~Complete(m)
  BY DEF Busy, Idle, Complete
<1>2. /\ Coherent(q) => Coherent(r)
      /\ Follows(q) => Follows(r)
      /\ SaysIdle(q) => SaysIdle(r)
      /\ LeavesComplete(r) => LeavesComplete(q)
  BY <1>1, HeardAppend
<1>3. /\ Len(q) \in Nat /\ Len(r) = Len(q) + 1 /\ r[Len(q) + 1] = m
      /\ \A k \in 1..Len(q) : r[k] = q[k]
  OBVIOUS
<1> HIDE DEF r
<1>4. ASSUME \A i \in 1..Len(q) : ~Reported(q[i]), NEW i \in 1..Len(r) PROVE ~Reported(r[i])
  <2>1. CASE i \in 1..Len(q)
    BY <1>3, <1>4, <2>1
  <2>2. CASE i = Len(q) + 1
    BY <1>3, <2>2
  <2> QED
    BY <1>3, <2>1, <2>2
<1>5. Quiet(q, r)
  BY <1>2, <1>4 DEF Quiet
<1> QED
  BY <1>5 DEF r

\* Who has heard of nothing believes in nothing
LEMMA SilentBelieves ==
    ASSUME NEW q, \A i \in 1..Len(q) : ~Reported(q[i])
    PROVE  ~Believes(FALSE, q)
BY DEF Believes, LeavesComplete, Complete

\* A step that does not tell stream t of the download
LEMMA ToldKept ==
    ASSUME NEW t \in Stream, Told(t), conn'[t] = conn[t], Quiet(inbox[t], inbox'[t]),
           t \in listeners' => t \in listeners,
           Live(t) /\ ((t \in active' /\ t \notin listeners') \/ t \notin slots') =>
              (t \in active /\ t \notin listeners) \/ t \notin slots,
           t \in listeners' /\ Corrects(replies, local.done) => Corrects(replies', local'.done)
    PROVE  Told(t)'
<1> SUFFICES ASSUME Live(t)
             PROVE  /\ Attends(conn[t].done, inbox'[t])
                    /\ t \in listeners' /\ Believes(conn[t].done, inbox'[t]) =>
                          Corrects(replies', local'.done)
                    /\ (t \in active' /\ t \notin listeners') \/ t \notin slots' =>
                          ~conn[t].done /\ \A i \in 1..Len(inbox'[t]) : ~Reported(inbox'[t][i])
  BY DEF Told, Live
<1>1. Attends(conn[t].done, inbox'[t])
  BY DEF Told, Attends, Quiet
<1>2. Believes(conn[t].done, inbox'[t]) => Believes(conn[t].done, inbox[t])
  BY DEF Believes, Quiet
<1>3. t \in listeners' /\ Believes(conn[t].done, inbox'[t]) => Corrects(replies', local'.done)
  BY <1>2 DEF Told
<1>4. (t \in active' /\ t \notin listeners') \/ t \notin slots' =>
         ~conn[t].done /\ \A i \in 1..Len(inbox'[t]) : ~Reported(inbox'[t][i])
  BY DEF Told, Quiet
<1> QED
  BY <1>1, <1>3, <1>4

\* The Client takes the head of the replies, and tells no listener of it
LEMMA HeadTaken ==
    ASSUME NEW q \in Seq(FromTdlib), q # <<>>, NEW l
    PROVE  /\ Agrees(q, l) => Agrees(Tail(q), l)
           /\ Corrects(q, l) /\ ~Idle(Head(q)) => Corrects(Tail(q), l)
BY HeardTail DEF Agrees, Corrects

\* ... or passes it on as message n
LEMMA HeadPassed ==
    ASSUME NEW r \in Seq(FromTdlib), r # <<>>, NEW l, Agrees(r, l),
           NEW q \in Seq(ToStream), NEW d, Attends(d, q), Believes(d, q) => Corrects(r, l),
           NEW n \in ToStream, Complete(n) <=> Complete(Head(r)),
           Busy(n) <=> Busy(Head(r)), Idle(n) <=> Idle(Head(r))
    PROVE  Attends(d, Append(q, n)) /\ (Believes(d, Append(q, n)) => Corrects(Tail(r), l))
<1> DEFINE m == Head(r)
           a == Append(q, n)
           z == Tail(r)
<1>1. /\ Coherent(r) /\ Complete(m) => Follows(z)
      /\ Follows(r) => ~Busy(m)
      /\ Follows(r) /\ ~Idle(m) => Follows(z)
      /\ SaysIdle(r) /\ ~Idle(m) => SaysIdle(z)
      /\ Complete(m) /\ ~SaysIdle(z) => LeavesComplete(r)
  BY HeardTail
<1>2. /\ Coherent(q) /\ (Busy(n) => ~LeavesComplete(q)) => Coherent(a)
      /\ Follows(q) /\ (Busy(n) => SaysIdle(q)) => Follows(a)
      /\ SaysIdle(a) <=> SaysIdle(q) \/ Idle(n)
      /\ LeavesComplete(a) => Complete(n) \/ (LeavesComplete(q) /\ ~Idle(n))
  BY HeardAppend
<1>3. /\ Complete(n) <=> Complete(m)
      /\ Busy(n) <=> Busy(m)
      /\ Idle(n) <=> Idle(m)
  OBVIOUS
<1> HIDE DEF m, a, z
<1>4. ASSUME Busy(n) PROVE ~Believes(d, q)
  BY <1>1, <1>3, <1>4 DEF Corrects
<1>5. Attends(d, a)
  BY <1>2, <1>4 DEF Attends, Believes
<1>6. ASSUME Believes(d, a) PROVE Corrects(z, l)
  <2>1. CASE Complete(m)
    BY <1>1, <2>1 DEF Agrees, Corrects
  <2>2. CASE Idle(m)
    <3>1. ~Complete(m)
      BY <2>2 DEF Idle, Complete
    <3> QED
      BY <1>2, <1>3, <1>6, <2>2, <3>1 DEF Believes
  <2>3. CASE ~Complete(m) /\ ~Idle(m)
    <3>1. Believes(d, q)
      BY <1>2, <1>3, <1>6, <2>3 DEF Believes
    <3> QED
      BY <1>1, <2>3, <3>1 DEF Corrects
  <2> QED
    BY <2>1, <2>2, <2>3
<1> QED
  BY <1>5, <1>6 DEF a, z

\* TDLib reports m when its belief that the file is complete changes from l to k
LEMMA ReportAdded ==
    ASSUME NEW q \in Seq(FromTdlib), NEW m \in FromTdlib, NEW l, NEW k,
           Complete(m) => k, Busy(m) => ~k, l /\ ~k => Idle(m)
    PROVE  /\ Agrees(q, l) => Agrees(Append(q, m), k)
           /\ Corrects(q, l) => Corrects(Append(q, m), k)
<1> DEFINE a == Append(q, m)
<1>1. /\ Coherent(q) /\ (Busy(m) => ~LeavesComplete(q)) => Coherent(a)
      /\ Follows(q) /\ (Busy(m) => SaysIdle(q)) => Follows(a)
      /\ SaysIdle(a) <=> SaysIdle(q) \/ Idle(m)
      /\ LeavesComplete(a) => Complete(m) \/ (LeavesComplete(q) /\ ~Idle(m))
  BY HeardAppend
<1> HIDE DEF a
<1>2. Busy(m) => ~Idle(m)
  BY DEF Busy, Idle
<1>3. Agrees(q, l) => Agrees(a, k)
  BY <1>1, <1>2 DEF Agrees
<1>4. Corrects(q, l) => Corrects(a, k)
  BY <1>1, <1>2 DEF Corrects
<1> QED
  BY <1>3, <1>4 DEF a

LEMMA QuietItself == \A q : Quiet(q, q)
BY DEF Quiet

LEMMA QuietTwice ==
    ASSUME NEW p, NEW q, NEW r, Quiet(p, q), Quiet(q, r)
    PROVE  Quiet(p, r)
BY DEF Quiet

\* A message that reports nothing is sent
LEMMA TellQuiet ==
    ASSUME inbox \in [Stream -> Seq(ToStream)], NEW S, NEW m \in ToStream, ~Reported(m),
           NEW t \in Stream
    PROVE  Quiet(inbox[t], Tell(S, m)[t])
<1>1. inbox[t] \in Seq(ToStream)
  OBVIOUS
<1>2. Tell(S, m)[t] = inbox[t] \/ Tell(S, m)[t] = Append(inbox[t], m)
  BY TellFacts
<1> QED
  BY <1>1, <1>2, QuietItself, QuietAppend

LEMMA LeavesTold ==
    ASSUME Typed, Hears, NEW s \in Stream, Live(s), NEW d \in Connection,
           NEW q \in Seq(ToStream), Effect(s, d, q), Leaves(s, d, q)
    PROVE  Hears'
<1>0. UNCHANGED <<slots, active, listeners, replies, local>>
  BY DEF Leaves, manager, client, registry, tdlib
<1>1. ASSUME NEW t \in Stream, t # s PROVE Told(t)'
  <2>1. conn'[t] = conn[t] /\ inbox'[t] = inbox[t]
    BY <1>1 DEF Leaves, Typed
  <2>2. Told(t) /\ Quiet(inbox[t], inbox'[t])
    BY <2>1, QuietItself DEF Hears
  <2> QED
    BY <1>0, <2>1, <2>2, ToldKept
<1>2. Told(s)'
  <2>1. conn'[s] = d /\ inbox'[s] = (IF d.phase = "live" THEN q ELSE <<>>)
    BY DEF Leaves, Typed
  <2>2. SUFFICES ASSUME d.phase = "live"
                 PROVE  /\ Attends(d.done, q)
                        /\ s \in listeners /\ Believes(d.done, q) => Corrects(replies, local.done)
                        /\ (s \in active /\ s \notin listeners) \/ s \notin slots =>
                              ~d.done /\ \A i \in 1..Len(q) : ~Reported(q[i])
    BY <1>0, <2>1 DEF Told, Live
  <2>3. /\ Attends(d.done, q)
        /\ Believes(d.done, q) => Believes(conn[s].done, inbox[s])
        /\ d.done => conn[s].done \/ \E i \in 1..Len(inbox[s]) : Reported(inbox[s][i])
        /\ \A i \in 1..Len(q) : \E j \in 1..Len(inbox[s]) : q[i] = inbox[s][j]
    BY <2>2 DEF Effect
  <2>4. Told(s)
    BY DEF Hears
  <2> QED
    BY <2>3, <2>4 DEF Told
<1> QED
  BY <1>0, <1>1, <1>2 DEF Hears

LEMMA ArriveTold ==
    ASSUME Typed, Hears, NEW s \in Stream, Ordered(s), Arrive(s)
    PROVE  Hears'
<1>0. UNCHANGED <<slots, active, listeners, replies, local, inbox>>
  BY DEF Arrive, manager, client, registry, tdlib
<1>1. ASSUME NEW t \in Stream, t # s PROVE Told(t)'
  <2>1. conn'[t] = conn[t] /\ inbox'[t] = inbox[t]
    BY <1>0, <1>1 DEF Arrive, Typed
  <2>2. Told(t) /\ Quiet(inbox[t], inbox'[t])
    BY <2>1, QuietItself DEF Hears
  <2> QED
    BY <1>0, <2>1, <2>2, ToldKept
<1>2. Told(s)'
  <2>1. conn[s] = NewConnection /\ inbox[s] = <<>>
    BY DEF Arrive, Ordered
  <2>2. conn'[s].done = conn[s].done
    BY DEF Arrive, Typed, Connection
  <2>3. conn'[s].done = FALSE /\ inbox'[s] = <<>>
    BY <1>0, <2>1, <2>2 DEF NewConnection
  <2>4. 1..Len(<<>>) = {}
    OBVIOUS
  <2>5. Attends(FALSE, <<>>)
    BY <2>4 DEF Attends, Coherent
  <2>6. ~Believes(FALSE, <<>>)
    BY <2>4 DEF Believes, LeavesComplete
  <2> QED
    BY <2>3, <2>4, <2>5, <2>6 DEF Told
<1> QED
  BY <1>0, <1>1, <1>2 DEF Hears

LEMMA ServerTold ==
    ASSUME Typed, Hears, NEW s \in Stream, Ordered(s), ServerStep(s)
    PROVE  Hears'
<1>0. conn' = conn /\ replies' = replies /\ local' = local
  BY DEF ServerStep, RefuseStream, AdmitStream, release_file_stream, remove_file_stream,
         RequestRedownload, tdlib
<1>1. inbox \in [Stream -> Seq(ToStream)] /\ outbox[s] \in Seq(FromStream) /\ outbox[s] # <<>>
  BY DEF Typed, ServerStep, RefuseStream, AdmitStream, release_file_stream, remove_file_stream,
         RequestRedownload, Message
<1>2. 1 \in 1..Len(outbox[s]) /\ Head(outbox[s]) = outbox[s][1]
  BY <1>1
<1>3. SUFFICES ASSUME NEW t \in Stream PROVE Told(t)'
  BY <1>0 DEF Hears
<1>4. Told(t)
  BY DEF Hears
<1>5. CASE RefuseStream(s)
  <2>1. UNCHANGED <<slots, active, listeners>> /\ inbox' = Tell({s}, Failure)
    BY <1>5 DEF RefuseStream, manager, client, registry
  <2>2. Quiet(inbox[t], Tell({s}, Failure)[t])
    BY <1>1, TellQuiet, Sendable
  <2> QED
    BY <1>0, <1>4, <2>1, <2>2, ToldKept
<1>6. CASE AdmitStream(s)
  <2> DEFINE hello == [op |-> "client"]
             greeted == Tell({s}, hello)
  <2>1. /\ slots' = slots \cup {s} /\ active' = active \cup {s} /\ listeners' = listeners
        /\ \/ inbox' = greeted
           \/ inbox' = [greeted EXCEPT ![s] = IF Live(s) THEN Append(@, Failure) ELSE @]
    BY <1>6 DEF AdmitStream
  <2>2. hello \in ToStream /\ ~Reported(hello) /\ Failure \in ToStream /\ ~Reported(Failure)
    BY Sendable
  <2> HIDE DEF hello
  <2>3. Quiet(inbox[t], greeted[t]) /\ greeted \in [Stream -> Seq(ToStream)]
    BY <1>1, <2>2, TellQuiet, TellTyped
  <2> HIDE DEF greeted
  <2>4. inbox'[t] = greeted[t] \/ inbox'[t] = Append(greeted[t], Failure)
    BY <2>1, <2>3
  <2>5. Quiet(greeted[t], Append(greeted[t], Failure))
    BY <2>2, <2>3, QuietAppend
  <2>6. Quiet(inbox[t], inbox'[t])
    <3>1. Quiet(inbox[t], Append(greeted[t], Failure))
      BY <2>3, <2>5, QuietTwice
    <3> QED
      BY <2>3, <2>4, <3>1
  <2>7. s \notin slots
    <3>1. Head(outbox[s]).op = "send"
      BY <1>6 DEF AdmitStream, Message
    <3> QED
      BY <1>2, <3>1 DEF Ordered
  <2>8. (t \in active' /\ t \notin listeners') \/ t \notin slots' =>
           (t \in active /\ t \notin listeners) \/ t \notin slots
    BY <2>1, <2>7
  <2> QED
    BY <1>0, <1>4, <2>1, <2>6, <2>8, ToldKept
<1>7. CASE release_file_stream(s)
  <2>1. slots' = slots \ {s} /\ UNCHANGED <<inbox, active, listeners>>
    BY <1>7 DEF release_file_stream, client, registry
  <2>2. ~Live(s)
    <3>1. Head(outbox[s]).op = "release"
      BY <1>7 DEF release_file_stream, Message
    <3> QED
      BY <1>2, <3>1 DEF Ordered
  <2>3. Quiet(inbox[t], inbox'[t])
    BY <2>1, QuietItself
  <2>4. Live(t) /\ ((t \in active' /\ t \notin listeners') \/ t \notin slots') =>
           (t \in active /\ t \notin listeners) \/ t \notin slots
    BY <2>1, <2>2
  <2> QED
    BY <1>0, <1>4, <2>1, <2>3, <2>4, ToldKept
<1>8. CASE remove_file_stream(s) \/ RequestRedownload(s)
  <2>1. /\ UNCHANGED <<inbox, slots>>
        /\ \/ active' = active /\ listeners' = listeners
           \/ active' = active \ {s} /\ listeners' \in {listeners, listeners \ {s}}
    BY <1>8 DEF remove_file_stream, RequestRedownload, manager, client, registry
  <2>2. Quiet(inbox[t], inbox'[t])
    BY <2>1, QuietItself
  <2>3. /\ t \in listeners' => t \in listeners
        /\ (t \in active' /\ t \notin listeners') \/ t \notin slots' =>
              (t \in active /\ t \notin listeners) \/ t \notin slots
    BY <2>1
  <2> QED
    BY <1>0, <1>4, <2>2, <2>3, ToldKept
<1> QED
  BY <1>5, <1>6, <1>7, <1>8 DEF ServerStep

\* A report says the same to a stream as it said to the Client
LEMMA SameReport ==
    ASSUME NEW m \in FromTdlib, m.kind # "refused", NEW o \in {"ready", "progress"},
           o = "ready" <=> m.kind = "remote"
    PROVE  LET n == [op |-> o, file |-> m.file] IN
           /\ n \in ToStream
           /\ Complete(n) <=> Complete(m)
           /\ Busy(n) <=> Busy(m)
           /\ Idle(n) <=> Idle(m)
<1> DEFINE n == [op |-> o, file |-> m.file]
<1>1. Reported(m) /\ m.file \in LocalFile
  BY ReplyTypes
<1>2. n \in ToStream /\ Reported(n) /\ n.file = m.file /\ n.op = o /\ "op" \in DOMAIN n
  BY <1>1, Sendable DEF Reported
<1>3. "op" \notin DOMAIN m
  <2>1. CASE m \in [kind : {"remote"}, by : Stream, file : LocalFile]
    BY <2>1
  <2>2. CASE m \in [kind : {"update", "started"}, file : LocalFile]
    BY <2>2
  <2>3. CASE m \in [kind : {"refused"}, by : {"stream", "getFile"}]
    BY <2>3
  <2> QED
    BY <2>1, <2>2, <2>3 DEF FromTdlib
<1> HIDE DEF n
<1>4. Broadcast(n) <=> Broadcast(m)
  BY <1>2, <1>3 DEF Broadcast
<1>5. /\ Complete(n) <=> Complete(m)
      /\ Busy(n) <=> Busy(m)
      /\ Idle(n) <=> Idle(m)
  BY <1>1, <1>2, <1>4 DEF Complete, Busy, Idle
<1> QED
  BY <1>2, <1>5 DEF n

LEMMA RemoteNotIdle ==
    ASSUME NEW m \in FromTdlib, m.kind \in {"remote", "refused"}
    PROVE  ~Idle(m)
<1>1. "op" \notin DOMAIN m
  <2>1. CASE m \in [kind : {"remote"}, by : Stream, file : LocalFile]
    BY <2>1
  <2>2. CASE m \in [kind : {"update", "started"}, file : LocalFile]
    BY <2>2
  <2>3. CASE m \in [kind : {"refused"}, by : {"stream", "getFile"}]
    BY <2>3
  <2> QED
    BY <2>1, <2>2, <2>3 DEF FromTdlib
<1> QED
  BY <1>1, ReplyTypes DEF Idle, Broadcast

LEMMA ClientTold ==
    ASSUME Typed, Hears, \A t \in Stream : Ordered(t), ClientStep
    PROVE  Hears'
<1>0. conn' = conn /\ slots' = slots /\ local' = local
  BY DEF ClientStep, Authorize, StartClosing, on_closed, DoGetFile, ReleaseLocalFile, OnRemoteFile,
         OnUpdate, OnStarted, OnDownloadRefused, manager, tdlib
<1>1. inbox \in [Stream -> Seq(ToStream)] /\ replies \in Seq(FromTdlib)
  BY DEF Typed
<1>2. Agrees(replies, local.done) /\ \A t \in Stream : Told(t)
  BY DEF Hears
<1>3. ASSUME NEW S, inbox' = Tell(S, Failure) \/ inbox' = inbox
      PROVE  \A t \in Stream : Quiet(inbox[t], inbox'[t])
  BY <1>1, <1>3, TellQuiet, QuietItself, Sendable
<1>4. ASSUME NEW k, Reply(k)
      PROVE  /\ Head(replies) \in FromTdlib /\ Head(replies).kind = k /\ replies # <<>>
             /\ replies' = Tail(replies) /\ Agrees(replies', local'.done)
             /\ ~Idle(Head(replies)) /\ Corrects(replies, local.done) => Corrects(replies', local'.done)
  <2>1. replies # <<>> /\ Head(replies).kind = k /\ replies' = Tail(replies)
    BY <1>4 DEF Reply
  <2>2. Head(replies) \in FromTdlib
    BY <1>1, <2>1, QueueTail
  <2> QED
    BY <1>0, <1>1, <1>2, <2>1, <2>2, HeadTaken
<1>5. CASE Authorize \/ StartClosing \/ DoGetFile \/ ReleaseLocalFile
  <2>1. UNCHANGED <<replies, listeners, active>>
    BY <1>5 DEF Authorize, StartClosing, DoGetFile, ReleaseLocalFile, client, registry, tdlib
  <2>2. inbox' = Tell(ToSet(pending), Failure) \/ inbox' = inbox
    BY <1>5 DEF Authorize, StartClosing, DoGetFile, ReleaseLocalFile
  <2>3. ASSUME NEW t \in Stream PROVE Told(t)'
    <3>1. Quiet(inbox[t], inbox'[t])
      BY <1>3, <2>2
    <3> QED
      BY <1>0, <1>2, <2>1, <3>1, ToldKept
  <2> QED
    BY <1>0, <1>2, <2>1, <2>3 DEF Hears
<1>6. CASE on_closed
  <2>1. replies' = <<>> /\ listeners' = {} /\ active' = {} /\ inbox' = Tell(active, Failure)
    BY <1>6 DEF on_closed
  <2>2. Agrees(replies', local'.done)
    <3>1. 1..Len(<<>>) = {}
      OBVIOUS
    <3> QED
      BY <2>1, <3>1 DEF Agrees, Coherent, LeavesComplete
  <2>3. ASSUME NEW t \in Stream PROVE Told(t)'
    <3>1. Quiet(inbox[t], inbox'[t])
      BY <1>3, <2>1
    <3> QED
      BY <1>0, <1>2, <2>1, <3>1, ToldKept
  <2> QED
    BY <2>2, <2>3 DEF Hears
<1>7. CASE OnDownloadRefused
  <2>1. /\ Head(replies) \in FromTdlib /\ Head(replies).kind = "refused" /\ Agrees(replies', local'.done)
        /\ ~Idle(Head(replies)) /\ Corrects(replies, local.done) => Corrects(replies', local'.done)
    BY <1>4, <1>7 DEF OnDownloadRefused
  <2>2. ~Idle(Head(replies))
    BY <2>1, RemoteNotIdle
  <2>3. (inbox' = Tell(listeners, Failure) \/ inbox' = inbox) /\ UNCHANGED <<listeners, active>>
    BY <1>7 DEF OnDownloadRefused, registry
  <2>4. ASSUME NEW t \in Stream PROVE Told(t)'
    <3>1. Quiet(inbox[t], inbox'[t])
      BY <1>3, <2>3
    <3> QED
      BY <1>0, <1>2, <2>1, <2>2, <2>3, <3>1, ToldKept
  <2> QED
    BY <2>1, <2>4 DEF Hears
<1>8. CASE OnUpdate \/ OnStarted
  <2> DEFINE m == Head(replies)
             n == [op |-> "progress", file |-> m.file]
  <2>1. /\ m \in FromTdlib /\ m.kind \in {"update", "started"} /\ replies # <<>>
        /\ replies' = Tail(replies) /\ Agrees(replies', local'.done)
    BY <1>4, <1>8 DEF OnUpdate, OnStarted
  <2>2. inbox' = Tell(listeners, n) /\ UNCHANGED <<listeners, active>>
    BY <1>8 DEF OnUpdate, OnStarted, on_update_file, registry
  <2>3. /\ n \in ToStream
        /\ Complete(n) <=> Complete(m)
        /\ Busy(n) <=> Busy(m)
        /\ Idle(n) <=> Idle(m)
    BY <2>1, SameReport
  <2> HIDE DEF m, n
  <2>4. ASSUME NEW t \in Stream PROVE Told(t)'
    <3>0. inbox[t] \in Seq(ToStream)
      BY <1>1
    <3>1. CASE ~Live(t)
      BY <1>0, <3>1 DEF Told, Live
    <3>2. CASE t \notin listeners
      <4>1. inbox'[t] = inbox[t]
        BY <1>1, <2>2, <2>3, <3>2, TellFacts
      <4>2. Quiet(inbox[t], inbox'[t])
        BY <4>1, QuietItself
      <4> QED
        BY <1>0, <1>2, <2>2, <3>2, <4>2, ToldKept
    <3>3. CASE Live(t) /\ t \in listeners
      <4>1. inbox'[t] = Append(inbox[t], n)
        BY <1>1, <2>2, <2>3, <3>3, TellFacts
      <4>2. /\ Attends(conn[t].done, inbox[t])
            /\ Believes(conn[t].done, inbox[t]) => Corrects(replies, local.done)
        BY <1>2, <3>3 DEF Told
      <4>3. /\ Attends(conn[t].done, Append(inbox[t], n))
            /\ Believes(conn[t].done, Append(inbox[t], n)) => Corrects(Tail(replies), local.done)
        BY <1>1, <1>2, <2>1, <2>3, <3>0, <4>2, HeadPassed DEF m
      <4>4. t \in slots
        BY <3>3 DEF Ordered
      <4> QED
        BY <1>0, <2>1, <2>2, <3>3, <4>1, <4>3, <4>4 DEF Told
    <3> QED
      BY <3>1, <3>2, <3>3
  <2> QED
    BY <2>1, <2>4 DEF Hears
<1>9. CASE OnRemoteFile
  <2> DEFINE m == Head(replies)
             n == [op |-> "ready", file |-> m.file]
  <2>1. /\ m \in FromTdlib /\ m.kind = "remote" /\ replies # <<>>
        /\ replies' = Tail(replies) /\ Agrees(replies', local'.done)
        /\ ~Idle(m) /\ Corrects(replies, local.done) => Corrects(replies', local'.done)
    BY <1>4, <1>9 DEF OnRemoteFile
  <2>2. ~Idle(m)
    BY <2>1, RemoteNotIdle
  <2>3. PICK s \in Stream :
        /\ \A t \in Stream : t # s \/ ~Live(t) => inbox'[t] = inbox[t]
        /\ Live(s) =>
              \/ listeners' = listeners
                 /\ (inbox'[s] = inbox[s] \/ inbox'[s] = Append(inbox[s], Failure))
              \/ /\ s \in active /\ listeners' = listeners \cup {s}
                 /\ inbox'[s] = Append(inbox[s], n) \/ inbox'[s] = Append(Append(inbox[s], n), Failure)
        /\ listeners' = listeners \/ (s \in active /\ listeners' = listeners \cup {s})
    BY <1>9, RemoteForm
  <2>4. active' = active
    BY <1>9 DEF OnRemoteFile
  <2>5. /\ n \in ToStream
        /\ Complete(n) <=> Complete(m)
        /\ Busy(n) <=> Busy(m)
        /\ Idle(n) <=> Idle(m)
    BY <2>1, SameReport
  <2>6. Failure \in ToStream /\ ~Reported(Failure)
    BY Sendable
  <2> HIDE DEF m, n
  <2>7. ASSUME NEW t \in Stream, t # s PROVE Told(t)'
    <3>1. Quiet(inbox[t], inbox'[t])
      BY <2>3, <2>7, QuietItself
    <3>2. t \in listeners' <=> t \in listeners
      BY <2>3, <2>7
    <3> QED
      BY <1>0, <1>2, <2>1, <2>2, <2>4, <3>1, <3>2, ToldKept
  <2>8. Told(s)'
    <3>0. inbox[s] \in Seq(ToStream) /\ Told(s)
      BY <1>1, <1>2, <2>3
    <3>1. CASE ~Live(s)
      BY <1>0, <3>1 DEF Told, Live
    <3>2. CASE /\ listeners' = listeners
               /\ inbox'[s] = inbox[s] \/ inbox'[s] = Append(inbox[s], Failure)
      <4>1. Quiet(inbox[s], inbox'[s])
        BY <2>6, <3>0, <3>2, QuietItself, QuietAppend
      <4> QED
        BY <1>0, <2>1, <2>2, <2>3, <2>4, <3>0, <3>2, <4>1, ToldKept
    <3>3. CASE /\ Live(s) /\ s \in active /\ listeners' = listeners \cup {s}
               /\ inbox'[s] = Append(inbox[s], n) \/ inbox'[s] = Append(Append(inbox[s], n), Failure)
      <4> DEFINE a == Append(inbox[s], n)
      <4>1. s \in slots
        BY <2>3, <3>3 DEF Ordered
      <4>2. /\ Attends(conn[s].done, inbox[s])
            /\ Believes(conn[s].done, inbox[s]) => Corrects(replies, local.done)
        <5>1. CASE s \in listeners
          BY <3>0, <3>3, <5>1 DEF Told
        <5>2. CASE s \notin listeners
          <6>1. Attends(conn[s].done, inbox[s]) /\ ~conn[s].done /\ \A i \in 1..Len(inbox[s]) : ~Reported(inbox[s][i])
            BY <3>0, <3>3, <5>2 DEF Told
          <6>2. ~Believes(conn[s].done, inbox[s])
            BY <6>1 DEF Believes, LeavesComplete, Complete
          <6> QED
            BY <6>1, <6>2
        <5> QED
          BY <5>1, <5>2
      <4>3. /\ Attends(conn[s].done, a)
            /\ Believes(conn[s].done, a) => Corrects(Tail(replies), local.done)
        BY <1>1, <1>2, <2>1, <2>5, <3>0, <4>2, HeadPassed DEF m
      <4>4. a \in Seq(ToStream)
        BY <2>5, <3>0, AppendProperties
      <4> HIDE DEF a
      <4>5. inbox'[s] = a \/ inbox'[s] = Append(a, Failure)
        BY <3>3 DEF a
      <4>6. Quiet(a, inbox'[s])
        BY <2>6, <4>4, <4>5, QuietItself, QuietAppend
      <4>7. Attends(conn[s].done, inbox'[s]) /\ (Believes(conn[s].done, inbox'[s]) => Believes(conn[s].done, a))
        BY <4>3, <4>6 DEF Quiet, Attends, Believes
      <4> QED
        BY <1>0, <2>1, <3>3, <4>1, <4>3, <4>7 DEF Told
    <3> QED
      BY <2>3, <3>1, <3>2, <3>3
  <2> QED
    BY <2>1, <2>7, <2>8 DEF Hears
<1> QED
  BY <1>5, <1>6, <1>7, <1>8, <1>9 DEF ClientStep

\* What TDLib reports when it believes f of the copy
LEMMA ReportFile ==
    ASSUME NEW f \in LocalFile, NEW k \in {"update", "started"}
    PROVE  LET m == [kind |-> k, file |-> f] IN
           /\ m \in FromTdlib
           /\ Complete(m) <=> f.done
           /\ Busy(m) <=> ~f.done /\ f.active
           /\ Idle(m) <=> ~f.done /\ ~f.active
<1> DEFINE m == [kind |-> k, file |-> f]
<1>1. /\ m \in FromTdlib /\ Reported(m) /\ m.file = f /\ m.kind # "remote" /\ "op" \notin DOMAIN m
  BY Sendable DEF Reported
<1> HIDE DEF m
<1>2. Broadcast(m)
  BY <1>1 DEF Broadcast
<1>3. /\ Complete(m) <=> f.done
      /\ Busy(m) <=> ~f.done /\ f.active
      /\ Idle(m) <=> ~f.done /\ ~f.active
  BY <1>1, <1>2 DEF Complete, Busy, Idle
<1> QED
  BY <1>1, <1>3 DEF m

\* A completion is taken back only by an idle report
LEMMA TdReports ==
    ASSUME Typed, NamesTell, FilesExist, TdStep
    PROVE  /\ Agrees(replies, local.done) => Agrees(replies', local'.done)
           /\ Corrects(replies, local.done) => Corrects(replies', local'.done)
<1>0. /\ requests \in Seq(ToTdlib) /\ replies \in Seq(FromTdlib)
      /\ local \in LocalFile /\ local.active \in BOOLEAN /\ local.done \in BOOLEAN
  BY DEF Typed, LocalFile
<1>1. local.done => ~local.active
  BY DEF NamesTell
<1>2. ASSUME NEW f \in LocalFile, local' = f, replies' = Append(replies, Update(f)),
             local.done /\ ~f.done => ~f.active
      PROVE  /\ Agrees(replies, local.done) => Agrees(replies', local'.done)
             /\ Corrects(replies, local.done) => Corrects(replies', local'.done)
  <2>1. /\ Update(f) \in FromTdlib
        /\ Complete(Update(f)) <=> f.done
        /\ Busy(Update(f)) <=> ~f.done /\ f.active
        /\ Idle(Update(f)) <=> ~f.done /\ ~f.active
    BY ReportFile DEF Update
  <2> QED
    BY <1>0, <1>2, <2>1, ReportAdded
<1>3. CASE TdGetRemoteFile
  <2> DEFINE m == [kind |-> "remote", by |-> Head(requests).by, file |-> local]
  <2>1. local' = local /\ replies' = Append(replies, m) /\ Head(requests) \in ToTdlib /\ Head(requests).op = "remote"
    BY <1>0, <1>3, QueueTail DEF TdGetRemoteFile, Request
  <2>2. m \in FromTdlib
    BY <1>0, <2>1, RequestTypes, Sendable
  <2>3. (Complete(m) => local.done) /\ (Busy(m) => ~local.done)
    BY DEF Complete, Busy
  <2> HIDE DEF m
  <2> QED
    BY <1>0, <2>1, <2>2, <2>3, ReportAdded
<1>4. CASE TdDownloadFile
  <2> DEFINE missing == local.path # "none" /\ disk.path # local.path
             found == IF missing THEN [NoCopy EXCEPT !.active = local.active] ELSE local
             f == [found EXCEPT !.active = ~found.done]
             kind == IF Head(requests).by = "getFile" THEN "started" ELSE "update"
             last == [kind |-> kind, file |-> f]
             news == IF missing THEN <<Update(found)>> ELSE <<>>
  <2>1. local' = f /\ replies' = replies \o news \o <<last>>
    BY <1>4 DEF TdDownloadFile
  <2>2. /\ found \in LocalFile /\ found.done \in BOOLEAN
        /\ missing => ~found.done /\ found.active = local.active
        /\ ~missing => found = local
    BY <1>0, FileTypes
  <2> HIDE DEF found
  <2>3. f \in LocalFile /\ f.done = found.done /\ f.active = ~found.done
    <3>1. (~found.done) \in BOOLEAN
      BY <2>2
    <3> QED
      BY <2>2, <3>1, FileTypes
  <2> HIDE DEF f
  <2>4. kind \in {"update", "started"}
    OBVIOUS
  <2>5. /\ last \in FromTdlib
        /\ Complete(last) <=> f.done
        /\ Busy(last) <=> ~f.done /\ f.active
    BY <2>3, <2>4, ReportFile
  <2> HIDE DEF last
  <2> DEFINE q == IF missing THEN Append(replies, Update(found)) ELSE replies
  <2>6. /\ q \in Seq(FromTdlib)
        /\ Agrees(replies, local.done) => Agrees(q, found.done)
        /\ Corrects(replies, local.done) => Corrects(q, found.done)
    <3>1. CASE missing
      <4>1. /\ Update(found) \in FromTdlib
            /\ Complete(Update(found)) <=> found.done
            /\ Busy(Update(found)) <=> ~found.done /\ found.active
            /\ Idle(Update(found)) <=> ~found.done /\ ~found.active
        BY <2>2, ReportFile DEF Update
      <4>2. /\ Agrees(replies, local.done) => Agrees(Append(replies, Update(found)), found.done)
            /\ Corrects(replies, local.done) => Corrects(Append(replies, Update(found)), found.done)
        BY <1>0, <1>1, <2>2, <3>1, <4>1, ReportAdded
      <4>3. Append(replies, Update(found)) \in Seq(FromTdlib)
        BY <1>0, <4>1, AppendProperties
      <4> QED
        BY <3>1, <4>2, <4>3
    <3>2. CASE ~missing
      BY <1>0, <2>2, <3>2
    <3> QED
      BY <3>1, <3>2
  <2>7. replies' = Append(q, last)
    <3>1. replies \o news = q
      <4>1. CASE missing
        BY <1>0, <2>2, <4>1, ReportFile DEF Update
      <4>2. CASE ~missing
        BY <1>0, <4>2
      <4> QED
        BY <4>1, <4>2
    <3> HIDE DEF q, news
    <3> QED
      BY <2>1, <2>5, <2>6, <3>1
  <2> HIDE DEF q
  <2>8. /\ Agrees(q, found.done) => Agrees(Append(q, last), f.done)
        /\ Corrects(q, found.done) => Corrects(Append(q, last), f.done)
    BY <2>3, <2>5, <2>6, ReportAdded
  <2> QED
    BY <2>1, <2>6, <2>7, <2>8
<1>5. CASE TdRefuseDownload
  <2> DEFINE m == [kind |-> "refused", by |-> Head(requests).by]
  <2>1. local' = local /\ replies' = Append(replies, m) /\ Head(requests) \in ToTdlib /\ Head(requests).op = "download"
    BY <1>0, <1>5, QueueTail DEF TdRefuseDownload, Request
  <2>2. m \in FromTdlib
    BY <2>1, RequestTypes, Sendable
  <2>3. ~Complete(m) /\ ~Busy(m)
    BY DEF Complete, Busy, Reported
  <2> HIDE DEF m
  <2> QED
    BY <1>0, <2>1, <2>2, <2>3, ReportAdded
<1>6. CASE TdCancelDownload
  <2> DEFINE f == [local EXCEPT !.active = FALSE]
  <2>1. f \in LocalFile /\ f.active = FALSE /\ f.done = local.done
    BY <1>0, FileTypes
  <2>2. local' = f /\ (replies' = replies \/ replies' = Append(replies, Update(f)))
    BY <1>6 DEF TdCancelDownload
  <2> HIDE DEF f
  <2> QED
    BY <1>2, <2>1, <2>2
<1>7. CASE TdDeleteFile
  <2> DEFINE f == [NoCopy EXCEPT !.active = local.active]
  <2>1. f \in LocalFile /\ f.active = local.active
    BY <1>0, FileTypes
  <2>2. UNCHANGED <<local, replies>> \/ (local' = f /\ replies' = Append(replies, Update(f)))
    BY <1>7 DEF TdDeleteFile
  <2> HIDE DEF f
  <2> QED
    BY <1>1, <1>2, <2>1, <2>2
<1>8. CASE TdFirstPart
  <2>1. 1 \in 1..Total
    BY SizeAssumption
  <2>2. Part(1) \in LocalFile
    BY <2>1, FileTypes
  <2> QED
    BY <1>1, <1>2, <1>8, <2>2 DEF TdFirstPart, Reports
<1>9. CASE TdNextPart
  <2> DEFINE f == Part(copies[writer] + 1)
  <2>1. local.active /\ local' = f /\ replies' = Append(replies, Update(f))
    BY <1>9 DEF TdNextPart, Reports
  <2>2. local' \in LocalFile
    BY TdTyped DEF Typed
  <2> HIDE DEF f
  <2> QED
    BY <1>1, <1>2, <2>1, <2>2
<1>10. CASE TdDownloadFails
  <2> DEFINE f == [local EXCEPT !.active = FALSE]
  <2>1. f \in LocalFile /\ f.active = FALSE /\ f.done = local.done
    BY <1>0, FileTypes
  <2>2. local' = f /\ replies' = Append(replies, Update(f))
    BY <1>10 DEF TdDownloadFails, Reports
  <2> HIDE DEF f
  <2> QED
    BY <1>2, <2>1, <2>2
<1>11. CASE CopyLost
  BY <1>11 DEF CopyLost
<1> QED
  BY <1>3, <1>4, <1>5, <1>6, <1>7, <1>8, <1>9, <1>10, <1>11 DEF TdStep

LEMMA TdTold ==
    ASSUME Typed, NamesTell, FilesExist, Hears, TdStep
    PROVE  Hears'
<1>1. UNCHANGED <<conn, inbox, slots, active, listeners>>
  BY DEF TdStep, TdGetRemoteFile, TdDownloadFile, TdRefuseDownload, TdCancelDownload, TdDeleteFile,
         TdFirstPart, TdNextPart, TdDownloadFails, CopyLost, Reports, manager, client, registry
<1>2. /\ Agrees(replies, local.done) => Agrees(replies', local'.done)
      /\ Corrects(replies, local.done) => Corrects(replies', local'.done)
  BY TdReports
<1>3. ASSUME NEW t \in Stream PROVE Told(t)'
  <2>1. Told(t) /\ Quiet(inbox[t], inbox'[t])
    BY <1>1, QuietItself DEF Hears
  <2> QED
    BY <1>1, <1>2, <2>1, ToldKept
<1> QED
  BY <1>2, <1>3 DEF Hears

-----------------------------------------------------------------------------
\* Cancellations and deletions that TDLib has still to handle

\* Request r would take the download from somebody: from a listener, if there is one
\* (l), or from a getFile that is waiting (g)
Harms(r, l, g) == (r.op = "cancel" /\ l) \/ (r.op = "delete" /\ (l \/ g))

\* ... but in queue q a download follows each of them
Repaired(q, l, g) ==
    \A i \in 1..Len(q) : Harms(q[i], l, g) => \E j \in i + 1..Len(q) : q[j].op = "download"

Waiting == getFile \in {"asked", "started"}

LEMMA StrandsForm == StrandsNobody <=> (closing = "no" => Repaired(requests, listeners # {}, Waiting))
BY DEF StrandsNobody, Repaired, Harms, Waiting

LEMMA RepairedLess ==
    ASSUME NEW q, NEW l, NEW g, Repaired(q, l, g), NEW m, NEW h, m => l, h => g
    PROVE  Repaired(q, m, h)
BY DEF Repaired, Harms

LEMMA RepairedTail ==
    ASSUME NEW q \in Seq(ToTdlib), q # <<>>, NEW l, NEW g, Repaired(q, l, g)
    PROVE  Repaired(Tail(q), l, g)
<1> DEFINE r == Tail(q)
<1>1. Len(q) \in Nat \ {0} /\ Len(r) = Len(q) - 1 /\ \A k \in 1..Len(q) - 1 : r[k] = q[k + 1]
  OBVIOUS
<1> HIDE DEF r
<1>2. ASSUME NEW i \in 1..Len(r), Harms(r[i], l, g) PROVE \E j \in i + 1..Len(r) : r[j].op = "download"
  <2>1. i + 1 \in 1..Len(q) /\ r[i] = q[i + 1]
    BY <1>1
  <2>2. PICK j \in (i + 1) + 1..Len(q) : q[j].op = "download"
    BY <1>2, <2>1 DEF Repaired
  <2>3. j - 1 \in i + 1..Len(r) /\ j - 1 \in 1..Len(q) - 1 /\ (j - 1) + 1 = j
    BY <1>1
  <2>4. r[j - 1] = q[j]
    BY <1>1, <2>3
  <2> QED
    BY <2>2, <2>3, <2>4
<1>3. Repaired(r, l, g)
  BY <1>2 DEF Repaired
<1> QED
  BY <1>3 DEF r

\* Harmless requests are added
LEMMA RepairedConcat ==
    ASSUME NEW q \in Seq(ToTdlib), NEW p \in Seq(ToTdlib), NEW l, NEW g, Repaired(q, l, g),
           \A i \in 1..Len(p) : ~Harms(p[i], l, g)
    PROVE  Repaired(q \o p, l, g)
<1> DEFINE r == q \o p
<1>1. /\ Len(r) = Len(q) + Len(p) /\ Len(q) \in Nat /\ Len(p) \in Nat
      /\ \A i \in 1..Len(q) + Len(p) : r[i] = IF i <= Len(q) THEN q[i] ELSE p[i - Len(q)]
  BY ConcatProperties
<1> HIDE DEF r
<1>2. ASSUME NEW i \in 1..Len(r), Harms(r[i], l, g) PROVE \E j \in i + 1..Len(r) : r[j].op = "download"
  <2>1. CASE i <= Len(q)
    <3>1. i \in 1..Len(q) /\ r[i] = q[i]
      BY <1>1, <2>1
    <3>2. PICK j \in i + 1..Len(q) : q[j].op = "download"
      BY <1>2, <3>1 DEF Repaired
    <3>3. j \in i + 1..Len(r) /\ r[j] = q[j]
      BY <1>1, <3>1
    <3> QED
      BY <3>2, <3>3
  <2>2. CASE ~(i <= Len(q))
    <3>1. i - Len(q) \in 1..Len(p) /\ r[i] = p[i - Len(q)]
      BY <1>1, <2>2
    <3> QED
      BY <1>2, <3>1
  <2> QED
    BY <2>1, <2>2
<1>3. Repaired(r, l, g)
  BY <1>2 DEF Repaired
<1> QED
  BY <1>3 DEF r

LEMMA RepairedAppend ==
    ASSUME NEW q \in Seq(ToTdlib), NEW m \in ToTdlib, NEW l, NEW g, Repaired(q, l, g), ~Harms(m, l, g)
    PROVE  Repaired(Append(q, m), l, g)
<1> DEFINE p == <<m>>
<1>1. p \in Seq(ToTdlib) /\ Append(q, m) = q \o p /\ \A i \in 1..Len(p) : p[i] = m
  OBVIOUS
<1> HIDE DEF p
<1>2. Repaired(q \o p, l, g)
  BY <1>1, RepairedConcat
<1> QED
  BY <1>1, <1>2

\* A download at the end repairs everything
LEMMA RepairedDownload ==
    ASSUME NEW q \in Seq(ToTdlib), NEW m \in ToTdlib, m.op = "download", NEW l, NEW g
    PROVE  Repaired(Append(q, m), l, g)
<1> DEFINE r == Append(q, m)
<1>1. Len(q) \in Nat /\ Len(r) = Len(q) + 1 /\ r[Len(q) + 1] = m
  OBVIOUS
<1> HIDE DEF r
<1>2. ASSUME NEW i \in 1..Len(r), Harms(r[i], l, g) PROVE \E j \in i + 1..Len(r) : r[j].op = "download"
  <2>1. i # Len(q) + 1
    BY <1>1, <1>2 DEF Harms
  <2>2. Len(q) + 1 \in i + 1..Len(r)
    BY <1>1, <2>1
  <2> QED
    BY <1>1, <2>2
<1>3. Repaired(r, l, g)
  BY <1>2 DEF Repaired
<1> QED
  BY <1>3 DEF r

\* A step that leaves the requests alone, or adds a harmless one or a download
LEMMA StrandsKept ==
    ASSUME Typed, StrandsNobody, closing' = closing,
           listeners' # {} => listeners # {}, Waiting' => Waiting,
           \/ requests' = requests
           \/ \E m \in ToTdlib : Asks(m) /\ (~Harms(m, listeners' # {}, Waiting') \/ m.op = "download")
    PROVE  StrandsNobody'
<1> DEFINE l == listeners' # {}
           g == Waiting'
<1>1. SUFFICES ASSUME closing = "no" PROVE Repaired(requests', l, g)
  BY DEF StrandsNobody, Repaired, Harms, Waiting
<1>2. requests \in Seq(ToTdlib)
  BY DEF Typed
<1>3. Repaired(requests, l, g)
  BY <1>1, StrandsForm, RepairedLess
<1>4. CASE requests' = requests
  BY <1>3, <1>4
<1>5. ASSUME NEW m \in ToTdlib, Asks(m), ~Harms(m, listeners' # {}, Waiting') \/ m.op = "download"
      PROVE  Repaired(requests', l, g)
  <2>1. requests' = Append(requests, m)
    BY <1>1, <1>5 DEF Asks
  <2> HIDE DEF l, g
  <2>2. ~Harms(m, l, g) \/ m.op = "download"
    BY <1>5 DEF l, g
  <2> QED
    BY <1>2, <1>3, <2>1, <2>2, RepairedAppend, RepairedDownload
<1> QED
  BY <1>4, <1>5

LEMMA ServerStrands ==
    ASSUME Typed, StrandsNobody, NEW s \in Stream, ServerStep(s)
    PROVE  StrandsNobody'
<1>0. closing' = closing /\ getFile' = getFile
  BY DEF ServerStep, RefuseStream, AdmitStream, release_file_stream, remove_file_stream,
         RequestRedownload, client
<1>1. Waiting' => Waiting
  BY <1>0 DEF Waiting
<1>2. CASE RefuseStream(s) \/ release_file_stream(s)
  <2>1. UNCHANGED <<requests, listeners>>
    BY <1>2 DEF RefuseStream, release_file_stream, client, registry, tdlib
  <2> QED
    BY <1>0, <1>1, <2>1, StrandsKept
<1>3. CASE AdmitStream(s)
  <2> DEFINE m == [op |-> "remote", by |-> s]
  <2>1. listeners' = listeners /\ (requests' = requests \/ Asks(m))
    BY <1>3 DEF AdmitStream
  <2>2. m \in ToTdlib /\ \A l, g : ~Harms(m, l, g)
    BY Sendable DEF Harms
  <2> HIDE DEF m
  <2> QED
    BY <1>0, <1>1, <2>1, <2>2, StrandsKept
<1>4. CASE remove_file_stream(s)
  <2> DEFINE m == Head(outbox[s])
             last == m.file /\ listeners # {} /\ listeners \subseteq {s}
             action == IF last THEN decide(m.noCache, m.ok) ELSE "none"
  <2>1. /\ listeners' = (IF m.file THEN listeners \ {s} ELSE listeners)
        /\ IF action \in {"cancel", "delete"} THEN Asks([op |-> action]) ELSE UNCHANGED requests
    BY <1>4 DEF remove_file_stream
  <2>2. listeners' # {} => listeners # {}
    BY <2>1
  <2>3. CASE action \in {"cancel", "delete"}
    <3>1. last
      BY <2>3
    <3>2. listeners' = {}
      BY <2>1, <3>1
    <3>3. action = "delete" => ~Waiting
      BY <3>1 DEF decide, Waiting
    <3>4. [op |-> action] \in ToTdlib /\ ~Harms([op |-> action], listeners' # {}, Waiting')
      <4>1. Waiting' = Waiting
        BY <1>0 DEF Waiting
      <4> HIDE DEF action
      <4>2. [op |-> action] \in ToTdlib
        BY <2>3, Sendable
      <4>3. ~Harms([op |-> action], listeners' # {}, Waiting')
        BY <3>2, <3>3, <4>1 DEF Harms
      <4> QED
        BY <4>2, <4>3
    <3>5. Asks([op |-> action])
      BY <2>1, <2>3
    <3> HIDE DEF action
    <3> QED
      BY <1>0, <1>1, <2>2, <3>4, <3>5, StrandsKept
  <2>4. CASE action \notin {"cancel", "delete"}
    BY <1>0, <1>1, <2>1, <2>2, <2>4, StrandsKept
  <2> QED
    BY <2>3, <2>4
<1>5. CASE RequestRedownload(s)
  <2> DEFINE m == [op |-> "download", by |-> "stream"]
  <2>1. listeners' = listeners /\ (requests' = requests \/ Asks(m))
    BY <1>5 DEF RequestRedownload, client, registry
  <2>2. m \in ToTdlib /\ m.op = "download"
    BY Sendable
  <2> HIDE DEF m
  <2> QED
    BY <1>0, <1>1, <2>1, <2>2, StrandsKept
<1> QED
  BY <1>2, <1>3, <1>4, <1>5 DEF ServerStep

LEMMA ClientStrands ==
    ASSUME Typed, StrandsNobody, ClientStep
    PROVE  StrandsNobody'
<1>0. /\ requests \in Seq(ToTdlib) /\ replies \in Seq(FromTdlib) /\ pending \in Seq(Stream)
      /\ closing \in {"no", "closing", "closed"}
  BY DEF Typed
<1>1. CASE Authorize
  <2> DEFINE more == [i \in 1..Len(pending) |-> [op |-> "remote", by |-> pending[i]]]
  <2>1. /\ UNCHANGED <<closing, listeners, getFile>>
        /\ IF closing = "no" THEN requests' = requests \o more ELSE requests' = requests
    BY <1>1 DEF Authorize
  <2>2. CASE closing = "no"
    <3>1. \A i \in 1..Len(pending) : [op |-> "remote", by |-> pending[i]] \in ToTdlib
      BY <1>0, Sendable
    <3>2. Len(pending) \in Nat /\ more \in [1..Len(pending) -> ToTdlib]
      BY <1>0, <3>1
    <3>3. more \in Seq(ToTdlib) /\ Len(more) = Len(pending)
      BY <3>2
    <3>4. \A i \in 1..Len(more) : ~Harms(more[i], listeners # {}, Waiting)
      BY <3>3 DEF Harms
    <3> HIDE DEF more
    <3>5. Repaired(requests, listeners # {}, Waiting)
      BY <2>2, StrandsForm
    <3>6. Repaired(requests \o more, listeners # {}, Waiting)
      BY <1>0, <3>3, <3>4, <3>5, RepairedConcat
    <3>7. Repaired(requests', listeners' # {}, Waiting')
      BY <2>1, <2>2, <3>6 DEF Waiting
    <3> QED
      BY <3>7 DEF StrandsNobody, Repaired, Harms, Waiting
  <2>3. CASE closing # "no"
    BY <2>1, <2>3 DEF StrandsNobody
  <2> QED
    BY <2>2, <2>3
<1>2. CASE StartClosing \/ on_closed
  <2>1. closing' # "no"
    BY <1>2 DEF StartClosing, on_closed
  <2> QED
    BY <2>1 DEF StrandsNobody
<1>3. ASSUME NEW m \in ToTdlib, m.op = "download", closing = "no", closing' = closing, Asks(m)
      PROVE  StrandsNobody'
  <2>1. requests' = Append(requests, m)
    BY <1>3 DEF Asks
  <2>2. \A l, g : Repaired(requests', l, g)
    BY <1>0, <1>3, <2>1, RepairedDownload
  <2>3. Repaired(requests', listeners' # {}, Waiting')
    BY <2>2
  <2> QED
    BY <2>3 DEF StrandsNobody, Repaired, Harms, Waiting
<1>4. CASE DoGetFile
  <2>1. [op |-> "download", by |-> "getFile"] \in ToTdlib
    BY Sendable
  <2> QED
    BY <1>3, <1>4, <2>1 DEF DoGetFile
<1>5. CASE ReleaseLocalFile
  <2>1. UNCHANGED <<closing, listeners, getFile>> /\ listeners = {} /\ ~Waiting /\ Asks([op |-> "delete"])
    BY <1>5 DEF ReleaseLocalFile, client, registry, Waiting
  <2>2. [op |-> "delete"] \in ToTdlib
    BY Sendable
  <2>3. Waiting' = Waiting
    BY <2>1 DEF Waiting
  <2>4. ~Harms([op |-> "delete"], listeners' # {}, Waiting')
    BY <2>1, <2>3 DEF Harms
  <2> QED
    BY <2>1, <2>2, <2>3, <2>4, StrandsKept
<1>6. CASE OnRemoteFile
  <2> DEFINE m == [op |-> "download", by |-> "stream"]
  <2>1. UNCHANGED <<closing, getFile>> /\ m \in ToTdlib /\ m.op = "download"
    BY <1>6, Sendable DEF OnRemoteFile
  <2>2. \/ UNCHANGED <<listeners, requests>>
        \/ listeners # {} /\ requests' = requests
        \/ closing # "no"
        \/ closing = "no" /\ Asks(m)
    BY <1>6 DEF OnRemoteFile, need_start_download
  <2> HIDE DEF m
  <2>3. Waiting' = Waiting
    BY <2>1 DEF Waiting
  <2>4. CASE UNCHANGED <<listeners, requests>> \/ (listeners # {} /\ requests' = requests)
    BY <2>1, <2>3, <2>4, StrandsKept
  <2>5. CASE closing # "no"
    BY <2>1, <2>5 DEF StrandsNobody
  <2>6. CASE closing = "no" /\ Asks(m)
    BY <1>3, <2>1, <2>6
  <2> QED
    BY <2>2, <2>4, <2>5, <2>6
<1>7. CASE OnUpdate \/ OnStarted \/ OnDownloadRefused
  <2>1. UNCHANGED <<closing, listeners, requests>>
    BY <1>7 DEF OnUpdate, OnStarted, OnDownloadRefused, registry
  <2>2. Waiting' => Waiting
    BY <1>7 DEF OnUpdate, OnStarted, OnDownloadRefused, on_update_file, Waiting
  <2> QED
    BY <2>1, <2>2, StrandsKept
<1> QED
  BY <1>1, <1>2, <1>4, <1>5, <1>6, <1>7 DEF ClientStep

LEMMA TdStrands ==
    ASSUME Typed, StrandsNobody, TdStep
    PROVE  StrandsNobody'
<1>1. UNCHANGED <<closing, listeners, getFile>>
  BY DEF TdStep, TdGetRemoteFile, TdDownloadFile, TdRefuseDownload, TdCancelDownload, TdDeleteFile,
         TdFirstPart, TdNextPart, TdDownloadFails, CopyLost, Reports, client, registry
<1>2. requests' = requests \/ (requests # <<>> /\ requests' = Tail(requests))
  BY DEF TdStep, TdGetRemoteFile, TdDownloadFile, TdRefuseDownload, TdCancelDownload, TdDeleteFile,
         TdFirstPart, TdNextPart, TdDownloadFails, CopyLost, Reports, Request
<1>3. requests \in Seq(ToTdlib)
  BY DEF Typed
<1>4. SUFFICES ASSUME closing = "no" PROVE Repaired(requests', listeners # {}, Waiting)
  BY <1>1 DEF StrandsNobody, Repaired, Harms, Waiting
<1>5. Repaired(requests, listeners # {}, Waiting)
  BY <1>4, StrandsForm
<1> QED
  BY <1>2, <1>3, <1>5, RepairedTail

-----------------------------------------------------------------------------
\* The inductive invariant holds

\* A step of a stream that is alive
LEMMA LeavesInv ==
    ASSUME Inv, NEW s \in Stream, OnMessage(s) \/ OnChunkFlushed(s) \/ OnWriteFailed(s) \/ Timeout(s)
    PROVE  /\ Inv'
           /\ \A t \in Stream : conn'[t].body # conn[t].body => Len(conn'[t].body) <= conn'[t].vouched
<1>0. /\ Typed /\ FilesExist /\ NamesTell /\ Hears /\ StrandsNobody
      /\ perToken = Cardinality(slots) /\ perToken <= MaxConnections /\ IsInjective(pending)
      /\ \A t \in Stream : Sound(conn[t]) /\ Ordered(t)
  BY DEF Inv
<1>1. Live(s)
  BY DEF OnMessage, OnChunkFlushed, OnWriteFailed, Timeout
<1>2. Hearing(s)
  <2>1. conn[s] \in Connection /\ inbox[s] \in Seq(ToStream) /\ disk.inode \in Nat
    BY <1>0 DEF Typed
  <2>2. Attends(conn[s].done, inbox[s])
    BY <1>0, <1>1 DEF Hears, Told
  <2> QED
    BY <1>0, <2>1, <2>2 DEF Hearing
<1>3. PICK d \in Connection, q \in Seq(ToStream) : Effect(s, d, q) /\ Leaves(s, d, q)
  BY <1>2, StreamEffect
<1>4. Typed' /\ (\A t \in Stream : Ordered(t)') /\ Hears'
  BY <1>0, <1>1, <1>3, StreamTyped, LeavesOrdered, LeavesTold
<1>5. /\ UNCHANGED <<slots, perToken, pending, listeners, closing, getFile, requests>>
      /\ UNCHANGED <<disk, local, writer, copies>>
  BY <1>3 DEF Leaves, manager, client, registry, tdlib
<1>6. conn'[s] = d /\ \A t \in Stream : t # s => conn'[t] = conn[t]
  BY <1>0, <1>3 DEF Leaves, Typed
<1>7. Sound(d) /\ d.fd \in {0, conn[s].fd, disk.inode} /\ (d.body # conn[s].body => Len(d.body) <= d.vouched)
  BY <1>3 DEF Effect
<1>8. \A t \in Stream : Sound(conn'[t])
  BY <1>0, <1>6, <1>7
<1>9. FilesExist'
  <2>1. Len(copies) \in Nat
    BY <1>0 DEF Typed
  <2>2. ASSUME NEW t \in Stream PROVE conn'[t].fd <= Len(copies)
    BY <1>0, <1>6, <1>7, <2>1 DEF FilesExist
  <2> QED
    BY <1>0, <1>5, <2>2 DEF FilesExist
<1>10. NamesTell' /\ StrandsNobody'
  BY <1>0, <1>5 DEF NamesTell, StrandsNobody
<1>11. \A t \in Stream : conn'[t].body # conn[t].body => Len(conn'[t].body) <= conn'[t].vouched
  BY <1>6, <1>7
<1> QED
  BY <1>0, <1>4, <1>5, <1>8, <1>9, <1>10, <1>11 DEF Inv

LEMMA ArriveInv ==
    ASSUME Inv, NEW s \in Stream, Arrive(s)
    PROVE  Inv' /\ \A t \in Stream : conn'[t].body = conn[t].body
<1>0. /\ Typed /\ FilesExist /\ NamesTell /\ Hears /\ StrandsNobody
      /\ perToken = Cardinality(slots) /\ perToken <= MaxConnections /\ IsInjective(pending)
      /\ \A t \in Stream : Sound(conn[t]) /\ Ordered(t)
  BY DEF Inv
<1>1. Typed' /\ (\A t \in Stream : Ordered(t)') /\ Hears'
  BY <1>0, ArriveTyped, ArriveOrdered, ArriveTold
<1>2. /\ UNCHANGED <<slots, perToken, pending, listeners, closing, getFile, requests>>
      /\ UNCHANGED <<disk, local, writer, copies>>
  BY DEF Arrive, manager, client, registry, tdlib
<1>3. \A t \in Stream : t # s => conn'[t] = conn[t]
  BY <1>0 DEF Arrive, Typed
<1>4. conn[s] = NewConnection /\ conn[s] \in Connection
  BY <1>0 DEF Arrive, Ordered, Typed
<1>5. conn'[s] = [conn[s] EXCEPT !.phase = "live", !.noCache = (s \in NoCache)]
  BY <1>0 DEF Arrive, Typed
<1>6. /\ conn'[s].phase = "live" /\ conn'[s].body = <<>> /\ conn'[s].next = 0 /\ conn'[s].end = 0
      /\ conn'[s].vouched = 0 /\ conn'[s].flushing = 0 /\ conn'[s].first = FALSE
      /\ conn'[s].done = FALSE /\ conn'[s].fd = 0 /\ conn[s].body = <<>>
  BY <1>4, <1>5 DEF NewConnection
<1>7. Sound(conn'[s])
  <2>1. Len(<<>>) = 0 /\ 0 <= Total
    BY SizeAssumption
  <2> QED
    BY <1>6, <2>1 DEF Sound
<1>8. FilesExist'
  <2>1. Len(copies) \in Nat
    BY <1>0 DEF Typed
  <2>2. ASSUME NEW t \in Stream PROVE conn'[t].fd <= Len(copies)
    BY <1>0, <1>3, <1>6, <2>1 DEF FilesExist
  <2> QED
    BY <1>0, <1>2, <2>2 DEF FilesExist
<1>9. NamesTell' /\ StrandsNobody'
  BY <1>0, <1>2 DEF NamesTell, StrandsNobody
<1>10. \A t \in Stream : Sound(conn'[t]) /\ conn'[t].body = conn[t].body
  BY <1>0, <1>3, <1>6, <1>7
<1> QED
  BY <1>0, <1>1, <1>2, <1>8, <1>9, <1>10 DEF Inv

LEMMA ServerInv ==
    ASSUME Inv, NEW s \in Stream, ServerStep(s)
    PROVE  Inv' /\ conn' = conn
<1>0. /\ Typed /\ FilesExist /\ NamesTell /\ Hears /\ StrandsNobody
      /\ perToken = Cardinality(slots) /\ perToken <= MaxConnections /\ IsInjective(pending)
      /\ \A t \in Stream : Sound(conn[t]) /\ Ordered(t)
  BY DEF Inv
<1>1. Typed' /\ (\A t \in Stream : Ordered(t)') /\ IsInjective(pending') /\ Hears' /\ StrandsNobody'
  BY <1>0, ServerTyped, ServerOrdered, ServerTold, ServerStrands
<1>2. UNCHANGED <<conn, disk, local, writer, copies>>
  BY DEF ServerStep, RefuseStream, AdmitStream, release_file_stream, remove_file_stream,
         RequestRedownload, tdlib
<1>3. NamesTell' /\ FilesExist' /\ \A t \in Stream : Sound(conn'[t])
  BY <1>0, <1>2 DEF NamesTell, FilesExist
<1>4. perToken' = Cardinality(slots') /\ perToken' <= MaxConnections
  <2>0. IsFiniteSet(slots) /\ Cardinality(slots) \in Nat /\ MaxConnections \in Nat
    BY <1>0, StreamAssumption, LimitAssumption, FS_Subset, FS_CardinalityType DEF Typed
  <2>1. CASE RefuseStream(s) \/ remove_file_stream(s) \/ RequestRedownload(s)
    BY <1>0, <2>1 DEF RefuseStream, remove_file_stream, RequestRedownload, manager
  <2>2. CASE AdmitStream(s)
    <3>1. slots' = slots \cup {s} /\ perToken' = perToken + 1 /\ Cardinality(slots) < MaxConnections
      BY <2>2 DEF AdmitStream
    <3>2. s \notin slots
      <4>1. outbox[s] # <<>> /\ Head(outbox[s]).op = "send" /\ outbox[s] \in Seq(FromStream)
        BY <1>0, <2>2 DEF AdmitStream, Message, Typed
      <4>2. 1 \in 1..Len(outbox[s]) /\ outbox[s][1].op = "send"
        BY <4>1
      <4> QED
        BY <1>0, <4>2 DEF Ordered
    <3>3. Cardinality(slots \cup {s}) = Cardinality(slots) + 1
      BY <2>0, <3>2, FS_AddElement
    <3> QED
      BY <1>0, <2>0, <3>1, <3>3
  <2>3. CASE release_file_stream(s)
    <3>1. slots' = slots \ {s} /\ perToken' = IF s \in slots THEN perToken - 1 ELSE perToken
      BY <2>3 DEF release_file_stream
    <3>2. CASE s \in slots
      <4>1. Cardinality(slots \ {s}) = Cardinality(slots) - 1
        BY <2>0, <3>2, FS_RemoveElement
      <4> QED
        BY <1>0, <2>0, <3>1, <3>2, <4>1
    <3>3. CASE s \notin slots
      <4>1. slots \ {s} = slots
        BY <3>3
      <4> QED
        BY <1>0, <3>1, <3>3, <4>1
    <3> QED
      BY <3>2, <3>3
  <2> QED
    BY <2>1, <2>2, <2>3 DEF ServerStep
<1> QED
  BY <1>1, <1>2, <1>3, <1>4 DEF Inv

LEMMA ClientInv ==
    ASSUME Inv, ClientStep
    PROVE  Inv' /\ conn' = conn
<1>0. /\ Typed /\ FilesExist /\ NamesTell /\ Hears /\ StrandsNobody
      /\ perToken = Cardinality(slots) /\ perToken <= MaxConnections /\ IsInjective(pending)
      /\ \A t \in Stream : Sound(conn[t]) /\ Ordered(t)
  BY DEF Inv
<1>1. Typed' /\ (\A t \in Stream : Ordered(t)') /\ IsInjective(pending') /\ Hears' /\ StrandsNobody'
  BY <1>0, ClientTyped, ClientOrdered, ClientTold, ClientStrands
<1>2. UNCHANGED <<conn, slots, perToken, disk, local, writer, copies>>
  BY DEF ClientStep, Authorize, StartClosing, on_closed, DoGetFile, ReleaseLocalFile, OnRemoteFile,
         OnUpdate, OnStarted, OnDownloadRefused, manager, tdlib
<1>3. NamesTell' /\ FilesExist' /\ \A t \in Stream : Sound(conn'[t])
  BY <1>0, <1>2 DEF NamesTell, FilesExist
<1> QED
  BY <1>0, <1>1, <1>2, <1>3 DEF Inv

LEMMA TdInv ==
    ASSUME Inv, TdStep
    PROVE  Inv' /\ conn' = conn
<1>0. /\ Typed /\ FilesExist /\ NamesTell /\ Hears /\ StrandsNobody
      /\ perToken = Cardinality(slots) /\ perToken <= MaxConnections /\ IsInjective(pending)
      /\ \A t \in Stream : Sound(conn[t]) /\ Ordered(t)
  BY DEF Inv
<1>1. Typed' /\ NamesTell' /\ FilesExist' /\ Hears' /\ StrandsNobody'
  BY <1>0, TdTyped, TdTold, TdStrands
<1>2. UNCHANGED <<conn, inbox, outbox, slots, perToken, active, pending, listeners>>
  BY DEF TdStep, TdGetRemoteFile, TdDownloadFile, TdRefuseDownload, TdCancelDownload, TdDeleteFile,
         TdFirstPart, TdNextPart, TdDownloadFails, CopyLost, Reports, manager, client, registry
<1>3. \A t \in Stream : Ordered(t)' /\ Sound(conn'[t])
  BY <1>0, <1>2 DEF Ordered, Live
<1> QED
  BY <1>0, <1>1, <1>2, <1>3 DEF Inv

LEMMA InitInv == Init => Inv
<1> SUFFICES ASSUME Init PROVE Inv
  OBVIOUS
<1>0. /\ conn = [s \in Stream |-> NewConnection] /\ inbox = [s \in Stream |-> <<>>]
      /\ outbox = [s \in Stream |-> <<>>] /\ slots = {} /\ perToken = 0 /\ closing = "no"
      /\ authorized \in BOOLEAN /\ active = {} /\ pending = <<>> /\ listeners = {} /\ getFile = "none"
      /\ requests = <<>> /\ replies = <<>> /\ broken = FALSE /\ writer = 0
  BY DEF Init
<1>1. NewConnection \in Connection
  <2>1. 0 \in 0..Total /\ 0 \in 0..ChunkSize /\ "none" \in Paths /\ <<>> \in Seq(0..Total - 1)
    BY SizeAssumption DEF Paths
  <2> QED
    BY <2>1 DEF NewConnection, Connection
<1>2. PICK p \in 0..Total, lost \in BOOLEAN :
         LET path == IF p = 0 THEN "none" ELSE IF p = Total THEN "final" ELSE "temp"
         IN /\ local = [NoCopy EXCEPT !.path = path, !.prefix = p, !.done = (p = Total)]
            /\ copies = IF p = 0 THEN <<>> ELSE <<p>>
            /\ disk = IF p = 0 \/ lost THEN Unlinked ELSE [path |-> path, inode |-> 1]
  BY DEF Init
<1> DEFINE path == IF p = 0 THEN "none" ELSE IF p = Total THEN "final" ELSE "temp"
<1>3. path \in Paths /\ (path = "none" <=> p = 0) /\ (path = "final" <=> p = Total)
  BY SizeAssumption DEF Paths
<1>4. /\ local = [NoCopy EXCEPT !.path = path, !.prefix = p, !.done = (p = Total)]
      /\ disk = IF p = 0 \/ lost THEN Unlinked ELSE [path |-> path, inode |-> 1]
  BY <1>2
<1> HIDE DEF path
<1>5. local \in LocalFile /\ local.path = path /\ (local.done <=> p = Total) /\ local.active = FALSE
  <2>1. (p = Total) \in BOOLEAN
    OBVIOUS
  <2>2. local = [path |-> path, prefix |-> p, done |-> (p = Total), active |-> FALSE]
    BY <1>4 DEF NoCopy
  <2>3. local \in LocalFile
    BY <1>3, <2>1, <2>2 DEF LocalFile
  <2> QED
    BY <2>2, <2>3
<1>6. copies \in Seq(1..Total) /\ (p # 0 => Len(copies) = 1 /\ copies[1] = p) /\ Len(copies) \in Nat
  <2>1. copies = IF p = 0 THEN <<>> ELSE <<p>>
    BY <1>2
  <2>2. CASE p = 0
    BY <2>1, <2>2
  <2>3. CASE p # 0
    <3>1. p \in 1..Total /\ copies = <<p>>
      BY <2>1, <2>3, SizeAssumption
    <3> QED
      BY <3>1
  <2> QED
    BY <2>2, <2>3
<1>7. /\ disk \in [path : Paths, inode : Nat]
      /\ \/ disk.path = "none" /\ disk.inode = 0
         \/ p # 0 /\ disk.path = path /\ disk.inode = 1
  <2>1. CASE p = 0 \/ lost
    BY <1>4, <2>1 DEF Unlinked, Paths
  <2>2. CASE ~(p = 0 \/ lost)
    BY <1>3, <1>4, <2>2
  <2> QED
    BY <2>1, <2>2
<1>8. Typed
  <2>1. conn \in [Stream -> Connection] /\ inbox \in [Stream -> Seq(ToStream)]
    BY <1>0, <1>1
  <2>2. outbox \in [Stream -> Seq(FromStream)]
    BY <1>0
  <2>3. pending \in Seq(Stream) /\ requests \in Seq(ToTdlib) /\ replies \in Seq(FromTdlib)
    BY <1>0
  <2> QED
    BY <2>1, <2>2, <2>3, <1>0, <1>1, <1>5, <1>6, <1>7 DEF Typed
<1>9. NamesTell
  BY <1>0, <1>3, <1>5, <1>6, <1>7 DEF NamesTell
<1>10. FilesExist
  BY <1>0, <1>6, <1>7 DEF FilesExist, NewConnection
<1>11. 1..Len(<<>>) = {} /\ ToSet(<<>>) = {} /\ IsInjective(<<>>) /\ Len(<<>>) = 0
  BY DEF ToSet, IsInjective
<1>12. ASSUME NEW s \in Stream PROVE Sound(conn[s]) /\ Ordered(s) /\ Told(s)
  <2>1. conn[s] = NewConnection /\ inbox[s] = <<>> /\ outbox[s] = <<>>
    BY <1>0
  <2>2. NewConnection.phase = "none" /\ NewConnection.body = <<>> /\ NewConnection.client = FALSE
    BY DEF NewConnection
  <2>3. Sound(conn[s])
    BY <1>11, <2>1, <2>2 DEF Sound
  <2>4. Ordered(s)
    BY <1>0, <1>11, <2>1, <2>2 DEF Ordered, Live
  <2> QED
    BY <2>1, <2>2, <2>3, <2>4 DEF Told, Live
<1>13. Agrees(replies, local.done)
  BY <1>0, <1>11 DEF Agrees, Coherent, LeavesComplete
<1>14. StrandsNobody
  BY <1>0, <1>11 DEF StrandsNobody
<1>15. perToken = Cardinality(slots) /\ perToken <= MaxConnections
  BY <1>0, FS_EmptySet, LimitAssumption
<1> QED
  BY <1>0, <1>8, <1>9, <1>10, <1>11, <1>12, <1>13, <1>14, <1>15 DEF Inv, Hears

LEMMA NextInv ==
    ASSUME Inv, [Next]_vars
    PROVE  /\ Inv'
           /\ \A t \in Stream : conn'[t].body # conn[t].body => Len(conn'[t].body) <= conn'[t].vouched
<1>1. CASE UNCHANGED vars
  <2>1. /\ UNCHANGED <<conn, inbox, outbox, slots, perToken, authorized, closing, active, pending>>
        /\ UNCHANGED <<listeners, getFile, requests, replies, local, disk, writer, copies, broken>>
    BY <1>1 DEF vars, manager, client, registry, tdlib
  <2>2. Typed' /\ FilesExist' /\ NamesTell'
    BY <2>1 DEF Inv, Typed, FilesExist, NamesTell
  <2>3. Hears' /\ StrandsNobody'
    BY <2>1 DEF Inv, Hears, Told, Live, StrandsNobody
  <2>4. \A t \in Stream : Sound(conn'[t]) /\ Ordered(t)'
    BY <2>1 DEF Inv, Ordered, Live
  <2> QED
    BY <2>1, <2>2, <2>3, <2>4 DEF Inv
<1>2. ASSUME NEW s \in Stream, StreamStep(s)
      PROVE  /\ Inv'
             /\ \A t \in Stream : conn'[t].body # conn[t].body => Len(conn'[t].body) <= conn'[t].vouched
  BY <1>2, LeavesInv, ArriveInv DEF StreamStep
<1>3. ASSUME NEW s \in Stream, ServerStep(s) PROVE Inv' /\ conn' = conn
  BY <1>3, ServerInv
<1>4. CASE ClientStep
  BY <1>4, ClientInv
<1>5. CASE TdStep
  BY <1>5, TdInv
<1> QED
  BY <1>1, <1>2, <1>3, <1>4, <1>5 DEF Next

-----------------------------------------------------------------------------
\* The inductive invariant holds in every state
THEOREM Invariant == Spec => []Inv
<1>1. Inv /\ [Next]_vars => Inv'
  BY NextInv
<1> QED
  BY <1>1, InitInv, PTL DEF Spec

\* Every variable keeps its type, the cursor of a stream never passes the end of the
\* file, and send_file_stream() and release_file_stream() count exactly the streams
\* that are alive or whose release is on its way, whatever order they, the Client
\* and TDLib act in.
THEOREM SlotsAreExact == Spec => []WellFormed
<1>1. Inv => WellFormed
  <2> SUFFICES ASSUME Inv PROVE WellFormed
    OBVIOUS
  <2>0. /\ Typed /\ FilesExist /\ perToken = Cardinality(slots) /\ perToken <= MaxConnections
        /\ \A s \in Stream : Ordered(s)
    BY DEF Inv
  <2>1. MaxConnections \in Nat /\ Len(copies) \in Nat /\ pending \in Seq(Stream)
    BY <2>0, LimitAssumption DEF Typed
  <2>2. ToSet(pending) \subseteq Stream
    <3>1. ASSUME NEW i \in DOMAIN pending PROVE pending[i] \in Stream
      BY <2>1
    <3> QED
      BY <3>1 DEF ToSet
  <2>3. ASSUME NEW s \in Stream
        PROVE  /\ conn[s].phase \in {"none", "live", "ok", "json", "cut"}
               /\ conn[s].path \in Paths /\ conn[s].fd \in 0..Len(copies)
               /\ conn[s].next \in 0..Total /\ conn[s].end \in 0..Total
               /\ conn[s].flushing \in 0..ChunkSize
               /\ conn[s].body \in Seq(0..Total - 1)
    <3>1. conn[s] \in Connection /\ conn[s].fd <= Len(copies)
      BY <2>0 DEF Typed, FilesExist
    <3> QED
      BY <2>1, <3>1 DEF Connection
  <2>4. /\ slots \subseteq Stream /\ active \subseteq Stream /\ listeners \subseteq Stream
        /\ local \in LocalFile /\ perToken \in Nat
    BY <2>0 DEF Typed
  <2>5. disk.path \in Paths /\ disk.inode \in 0..Len(copies) /\ writer \in 0..Len(copies)
    BY <2>0, <2>1 DEF Typed, FilesExist
  <2>6. perToken \in 0..MaxConnections
    BY <2>0, <2>1, <2>4
  <2>7. TypeOK
    BY <2>2, <2>3, <2>4, <2>5, <2>6 DEF TypeOK
  <2>8. SlotsExact
    BY <2>0, <2>4 DEF SlotsExact, Ordered
  <2> QED
    BY <2>7, <2>8 DEF WellFormed
<1> QED
  BY <1>1, Invariant, PTL

\* Whatever the schedule of reports, reads, flushes, timeouts and redownloads, a body is
\* the file from its first byte on, on_chunk_flushed() ends it normally only when all of
\* it was flushed, and abort() answers with JSON only when nothing was sent.
THEOREM BodiesAreExact == Spec => []ExactBody
<1>1. Inv => ExactBody
  BY DEF Inv, Sound, ExactBody
<1> QED
  BY <1>1, Invariant, PTL

\* No cancelDownloadFile or deleteFile that remove_file_stream() or a releaseLocalFile
\* has decided on takes the copy from a stream or a getFile that came later: a
\* downloadFile of theirs is behind it in TDLib's queue.
THEOREM NobodyStranded == Spec => []StrandsNobody
<1>1. Inv => StrandsNobody
  BY DEF Inv
<1> QED
  BY <1>1, Invariant, PTL

\* Logins, getFile, releaseLocalFile and a closing bot disturb neither the bodies nor the
\* downloads.
THEOREM NothingDisturbs == Spec => []Undisturbed
<1>1. ExactBody /\ StrandsNobody => Undisturbed
  BY DEF Undisturbed
<1> QED
  BY <1>1, BodiesAreExact, NobodyStranded, PTL

\* on_file_data() passes on no byte beyond the prefix that TDLib has reported since it
\* last took a completion back: drop_stale_download_state() forgets the older one, and a
\* stream that has sent some of it is aborted.
THEOREM OnlyVouchedServed == Spec => ServesOnlyVouched
<1>1. Inv /\ [Next]_vars =>
         [\A s \in Stream : conn'[s].body # conn[s].body => Len(conn'[s].body) <= conn'[s].vouched]_vars
  BY NextInv
<1> QED
  BY <1>1, Invariant, PTL DEF Spec, ServesOnlyVouched
=============================================================================
